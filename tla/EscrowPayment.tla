--------------------------- MODULE EscrowPayment ---------------------------
(***************************************************************************)
(* What one escrow promises, without commitments, proofs, accounts or      *)
(* time: whatever the payer holds in the delegation is paid to the         *)
(* receiver at most once, completely, and only by the release of a funded  *)
(* escrow.  Until then the payer may take the allowance back and grant a   *)
(* new one (docs/decisions/0002-payer-revocation-v0.md).                   *)
(***************************************************************************)
EXTENDS Naturals

VARIABLES
  phase,  \* "Absent", "Initialized", "Funded" or "Released"
  held,   \* value the escrow may move for its payer
  paid    \* value the escrow has moved to its receiver

paymentVars == <<phase, held, paid>>

Init == phase = "Absent" /\ held = 0 /\ paid = 0

Open == phase = "Absent" /\ phase' = "Initialized" /\ held = 0 /\ UNCHANGED <<held, paid>>

Fund == phase = "Initialized" /\ phase' = "Funded" /\ held = 0 /\ held' \in Nat /\ UNCHANGED paid

\* The payer deals with the token directly, outside the escrow.
Delegate == phase # "Absent" /\ held = 0 /\ held' \in Nat /\ UNCHANGED <<phase, paid>>
Reclaim == held' = 0 /\ UNCHANGED <<phase, paid>>

Release ==
  /\ phase = "Funded" /\ phase' = "Released"
  /\ paid' = paid + held
  /\ held' = 0

Next == Open \/ Fund \/ Delegate \/ Reclaim \/ Release

Spec == Init /\ [][Next]_paymentVars
=============================================================================
