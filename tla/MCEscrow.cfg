\* One escrow, every kind of proof and transaction of its parties, an approver that keeps trying.
CONSTANTS
  alice = alice
  bob = bob
  carol = carol
  Users = {alice, bob, carol}
  Escrows = {e1}
  NoUser = NoUser
  MaxValue = 2
  MaxLedger = 2
  MaxSalt = 2
  Proving = {"withdraw", "transfer", "set_spender"}
  Expiries = {1}
  Holders = {alice, bob}
  Payees = {alice, bob}
  Enrolled = {alice}
  Supply <- HalfSupply
  Merged <- HalfMerged
  Parties <- Roles
SPECIFICATION FairSpec
INVARIANTS TypeOK ValueConserved InitializedIffRegistered FundedAllowanceIntact
PROPERTIES ReleasePaysAll ReleaseServed
CHECK_DEADLOCK FALSE
