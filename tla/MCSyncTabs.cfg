\* Two tabs over one cache, RPC only.
CONSTANTS
  Me = Me
  Other = Other
  Kinds = {"set_spender", "revoke_spender"}
  Opened = TRUE
  MaxHead = 3
  MaxEvents = 5
  Retention = 3
  MaxLag = 4
  MaxDelay = 0
  MaxSalt = 1
  Tabs = {t1, t2}
  Goals = {"set_spender"}
  Umbra = FALSE
  Indexer = FALSE
  Served <- PipelineKinds
  PageSize = 1
  SeamMargin = 0
  OldReleases = FALSE
SPECIFICATION Spec
PROPERTIES SyncReconciles
SYMMETRY AnyTab
