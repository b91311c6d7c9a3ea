CONSTANTS
  ReadServers = {}
  WriteServers = {w1}
  Killable = {}
  Fds = {5, 6}
  Ids = {u1}
  BookingRecord <- OneItem
  Commands <- LimitCommands
  IntHalf = 64
  Lines <- EveryLine
  MaxInbox = 1
  None = None
SPECIFICATION FairSpec
INVARIANTS ToldIsSaved
PROPERTIES AbandonedSessionEnds
