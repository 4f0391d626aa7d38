SPECIFICATION Spec
CONSTANTS
  Endpoints = {e1}
  Sessions = {s1, s2}
  LinkSlots = 1
  SessionSlots = 2
  QueueSlots = 2
  MaxChannel = 1
  NoSession = NoSession
  NoEndpoint = NoEndpoint
  AdmittedSlots = 2
  PublicSessions = 2
  MaxJoin = 1
  Seeded = Seeded
  Native = Native
  NoPlayer = NoPlayer
  Migrates = FALSE
  Orderly = TRUE
  Sends = {"leave"}
  Faults = {}
INVARIANT SoleSessionResolves
CHECK_DEADLOCK FALSE
