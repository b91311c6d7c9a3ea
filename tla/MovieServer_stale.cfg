CONSTANTS
  Builds <- OnlyThread
  NumReqs = 3
  Title <- TwoTitles
  ScoreTables <- ThreeRequests
  MaxDepth = 1
  MaxThread = 4
  LeafSize = 1
  CountMod = 8
  None = None
SPECIFICATION Spec
PROPERTIES Recommends
