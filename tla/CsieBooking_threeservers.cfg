CONSTANTS
  ReadServers = {r1}
  WriteServers = {w1, w2}
  Killable = {w1}
  Fds = {5}
  Ids = {u1}
  BookingRecord <- OneItem
  Commands <- LimitCommands
  IntHalf = 64
  Lines <- EveryLine
  MaxInbox = 1
  None = None
SPECIFICATION Spec
INVARIANTS LocksMatchSessions WriterExcludesAll RecordsLegal
PROPERTIES NoLostUpdate DeskSpec
