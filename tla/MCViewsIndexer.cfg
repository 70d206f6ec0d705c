\* As MCViews.cfg, with the indexer and the events its pipeline selects.
CONSTANTS
  Users = {u1, u2}
  Escrows = {e1}
  AuditorIds = {0, 1}
  PageId = 0
  Keys = {k1, k2}
  NoKey = NoKey
  PageKey = k1
  Amounts = {1, 2}
  Indexer = TRUE
  Served <- PipelineKinds
  Balance = 2
  MaxEvents = 7
SPECIFICATION Spec
SYMMETRY Symmetry
INVARIANTS OwnerRowsTrue
CHECK_DEADLOCK FALSE
