\* One tab, two escrow addresses, one advanced token, three transactions.
CONSTANTS
  u1 = u1
  u2 = u2
  u3 = u3
  Users = {u1, u2, u3}
  Forms <- Orders
  Default = Default
  Fresh = {k1}
  Ids = {e1, e2}
  Configured = None
  Tabs = {t1}
  None = None
  MaxTxs = 3
  MaxCalls = 2
  MaxLedger = 2
SPECIFICATION Spec
INVARIANTS TypeOK EscrowsReachable ControllerFollows ApproverHoldsKey AskedRoles ColdStartCovers
SYMMETRY Symmetry
