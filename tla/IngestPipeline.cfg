CONSTANTS
  Ingests = {1, 2}
  Chats = {c1}
  Project = Project
  Sources = {A}
  Versions = {1, 2}
  Shared = {p}
  NoEntry = NoEntry
  MaxMishaps = 2
  ChatWaits = TRUE
  ReliableReads = TRUE
SPECIFICATION FairSpec
INVARIANTS CacheIsWhole
PROPERTIES NoEntryLost  EveryIngestEnds
CHECK_DEADLOCK FALSE
