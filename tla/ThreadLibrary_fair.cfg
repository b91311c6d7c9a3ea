CONSTANTS
  Fibs <- OnlyFib
  Cols <- OnlyCol
  Subs <- OnlySub
  Creation <- MainOrder
  Arg <- Endless
  Null = Null
  Timeslice = 1
  Numbers <- SmallNumbers
  WritersClose = TRUE
  MaxNumbers = 2
  MaxLoops = 3
SPECIFICATION FairSpec
PROPERTIES FairThreads WakesUp
CHECK_DEADLOCK FALSE
