CONSTANTS
  Fibs <- OnlyFib
  Cols <- OnlyCol
  Subs <- OnlySub
  Creation <- MainOrder
  Arg <- Three
  Null = Null
  Timeslice = 1
  Numbers <- Digits
  WritersClose = FALSE
  MaxNumbers = 3
  MaxLoops = 5
SPECIFICATION FedSpec
INVARIANTS TypeOK NoThreadLost ResumesInPlace NoNullJump SignalsBlocked AlarmLives InputInOrder ReadyHasInput AnswersRight
PROPERTIES Terminates
CHECK_DEADLOCK FALSE
