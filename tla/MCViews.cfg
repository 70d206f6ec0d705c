\* Two users, one escrow, two auditors; no indexer.
CONSTANTS
  Users = {u1, u2}
  Escrows = {e1}
  AuditorIds = {0, 1}
  PageId = 0
  Keys = {k1, k2}
  NoKey = NoKey
  PageKey = k1
  Amounts = {1, 2}
  Indexer = FALSE
  Served <- PipelineKinds
  Balance = 2
  MaxEvents = 7
SPECIFICATION Spec
SYMMETRY Symmetry
INVARIANTS TypeOK OwnerRowsTrue AuditorExact AuditorRecovers
CHECK_DEADLOCK FALSE
