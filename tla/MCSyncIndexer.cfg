\* A window of three ledgers, an indexer behind the head, services that fail and a cursor that ages out.
CONSTANTS
  Me = Me
  Other = Other
  Kinds <- PipelineKinds
  Opened = FALSE
  MaxHead = 6
  MaxEvents = 3
  Retention = 3
  MaxLag = 2
  MaxDelay = 0
  MaxSalt = 0
  Tabs = {t1}
  Goals = {"refresh"}
  Umbra = FALSE
  Indexer = TRUE
  Served <- PipelineKinds
  PageSize = 2
  SeamMargin = 1
  OldReleases = FALSE
SPECIFICATION FairSpec
PROPERTIES SyncReconciles CatchesUp
