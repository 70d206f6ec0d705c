\* A browser whose cache the version without releases wrote.
CONSTANTS
  Me = Me
  Other = Other
  Kinds = {"register", "deposit", "spender_transfer", "transfer"}
  Opened = FALSE
  MaxHead = 4
  MaxEvents = 4
  Retention = 4
  MaxLag = 2
  MaxDelay = 0
  MaxSalt = 4
  Tabs = {t1}
  Goals = {"refresh"}
  Umbra = FALSE
  Indexer = FALSE
  Served <- PipelineKinds
  PageSize = 1
  SeamMargin = 0
  OldReleases = TRUE
SPECIFICATION Spec
PROPERTIES SyncReconciles
