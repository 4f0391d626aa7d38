SPECIFICATION FairSpec
CONSTANTS
  Endpoints = {e1}
  Sessions = {s1}
  LinkSlots = 1
  SessionSlots = 1
  QueueSlots = 2
  MaxChannel = 2
  NoSession = NoSession
  NoEndpoint = NoEndpoint
  AdmittedSlots = 1
  PublicSessions = 1
  MaxJoin = 1
  Seeded = Seeded
  Native = Native
  NoPlayer = NoPlayer
  Migrates = TRUE
  Orderly = TRUE
  Sends <- EveryKind
  Faults = {"expired"}
PROPERTIES JoinsSettle
INVARIANTS EstablishFirst SessionsOutliveChannel
CHECK_DEADLOCK FALSE
