\* Two tabs that spend, rebuilt from Umbra at every sync.
CONSTANTS
  Me = Me
  Other = Other
  Kinds = {"set_spender", "revoke_spender"}
  Opened = TRUE
  MaxHead = 4
  MaxEvents = 5
  Retention = 3
  MaxLag = 1
  MaxDelay = 1
  MaxSalt = 2
  Tabs = {t1, t2}
  Goals = {"set_spender"}
  Umbra = TRUE
  Indexer = FALSE
  Served <- PipelineKinds
  PageSize = 1
  SeamMargin = 0
  OldReleases = FALSE
SPECIFICATION Spec
PROPERTIES SyncReconciles
SYMMETRY AnyTab
