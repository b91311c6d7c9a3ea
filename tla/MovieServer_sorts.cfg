CONSTANTS
  Builds <- BothBuilds
  NumReqs = 2
  Title <- FiveTitles
  ScoreTables <- Requested
  MaxDepth = 2
  MaxThread = 3
  LeafSize = 2
  CountMod = 8
  None = None
SPECIFICATION FairSpec
INVARIANTS TypeOK NoOverlap HalvesWait NoWorkAfterFree
PROPERTIES Recommends ServesAll
