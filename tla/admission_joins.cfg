SPECIFICATION Spec
CONSTANTS
  Endpoints = {e1}
  Sessions = {s1, s2}
  LinkSlots = 2
  SessionSlots = 2
  QueueSlots = 2
  MaxChannel = 2
  NoSession = NoSession
  NoEndpoint = NoEndpoint
  AdmittedSlots = 1
  PublicSessions = 1
  MaxJoin = 2
  Seeded = Seeded
  Native = Native
  NoPlayer = NoPlayer
  Migrates = FALSE
  Orderly = TRUE
  Sends = {"leave", "joinComplete", "playerAdd", "playerRemove"}
  Faults <- EveryFault
INVARIANTS TypeOK SettledIsShown ActivityHostFollowsPromotion PublishedPlayerIsShown NoEmptyPromotion OneLinkPerEndpoint
CHECK_DEADLOCK FALSE
