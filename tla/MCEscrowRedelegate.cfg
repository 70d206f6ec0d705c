\* Two escrows over one token, for the same or for crossed parties: funding,
\* revocation and a new delegation in every order.
CONSTANTS
  alice = alice
  bob = bob
  carol = carol
  Users = {alice, bob, carol}
  Escrows = {e1, e2}
  NoUser = NoUser
  MaxValue = 2
  MaxLedger = 1
  MaxSalt = 3
  Proving = {"set_spender"}
  Expiries = {1}
  Holders = {alice, bob}
  Payees = {bob}
  Enrolled = {alice, bob}
  Supply <- NoSupply
  Merged <- AliceMerged
  Parties <- CrossRoles
SPECIFICATION Spec
INVARIANTS FundedAllowanceIntact
PROPERTIES ReleasePaysAll ImplementsPayment
CHECK_DEADLOCK FALSE
