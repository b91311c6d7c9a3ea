CONSTANTS
  Battles <- FourBattles
  Real <- FourReal
  Agents <- FourAgents
  A = 65
  Children <- FourChildren
  Agent <- FourFifos
  BattleAttr <- FourAttr
  Tables <- Files
  Nobody = Nobody
SPECIFICATION FairSpec
INVARIANTS TypeOK OnePlace NothingLost ReapsLoserFirst ByTheRules
PROPERTIES PlaysTournament Ends
