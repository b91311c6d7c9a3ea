CONSTANTS
  ReadServers = {}
  WriteServers = {w1}
  Killable = {w1}
  Fds = {5}
  Ids = {u1}
  BookingRecord <- OneItem
  Commands <- LimitCommands
  IntHalf = 64
  Lines <- BookingLines
  MaxInbox = 1
  None = None
SPECIFICATION Spec
INVARIANTS ToldIsSaved
