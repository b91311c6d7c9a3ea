CONSTANTS
  ReadServers = {}
  WriteServers = {w1}
  Killable = {}
  Fds = {5}
  Ids = {u1}
  BookingRecord <- OneItem
  Commands <- LargeCommands
  IntHalf = 32
  Lines <- BookingLines
  MaxInbox = 1
  None = None
SPECIFICATION Spec
INVARIANTS RecordsLegal
