SPECIFICATION Spec
CONSTANTS
  e1 = e1  e2 = e2  join = join  moved = moved
  None = None
  Endpoints <- TwoEndpoints
  Ids <- JoinAndMigration
  Migrating <- MigrationOnly
  Peers <- TwoClients
  Capacity = 2
  PreferenceCapacity = 1
  Timeout = 0
  MaxDatagrams = 2
  MaxAttempts <- TwoAttempts
  Duplicates = FALSE
INVARIANTS TypeOK OneAssociationPerId RegisteredKeyInForce KeysAgree RepliesWhereOpened
CHECK_DEADLOCK FALSE
