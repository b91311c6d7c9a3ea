CONSTANTS
  Builds <- OnlyThread
  NumReqs = 2
  Title <- FiveTitles
  ScoreTables <- TwoLong
  MaxDepth = 2
  MaxThread = 3
  LeafSize = 1
  CountMod = 8
  None = None
SPECIFICATION Spec
INVARIANTS ThreadLimit
