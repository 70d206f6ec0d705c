\* One tab that refreshes and spends, RPC only, everything in the window.
CONSTANTS
  Me = Me
  Other = Other
  Kinds <- EventTypes
  Opened = FALSE
  MaxHead = 3
  MaxEvents = 5
  Retention = 4
  MaxLag = 4
  MaxDelay = 0
  MaxSalt = 3
  Tabs = {t1}
  Goals = {"refresh", "set_spender"}
  Umbra = FALSE
  Indexer = FALSE
  Served <- PipelineKinds
  PageSize = 1
  SeamMargin = 0
  OldReleases = FALSE
SPECIFICATION Spec
INVARIANTS TypeOK OptimismIsConfirmed
PROPERTIES SyncReconciles
