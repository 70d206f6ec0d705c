------------------------------ MODULE MCEscrow ------------------------------
(***************************************************************************)
(* Small instances of Escrow for TLC.                                      *)
(***************************************************************************)
EXTENDS Escrow

CONSTANTS alice, bob, carol

NoSupply == [u \in Users |-> 0]
\* Half of what alice owns is deposited and merged.
HalfSupply == [u \in Users |-> IF u = alice THEN MaxValue - 1 ELSE 0]
HalfMerged == [u \in Enrolled |-> 1]
AliceMerged == [u \in Enrolled |-> IF u = alice THEN MaxValue ELSE 0]
\* One proper assignment of the roles and two that `initialize` must refuse.
\* The payer of one escrow may be the receiver of the other.
CrossRoles == {<<alice, bob, carol>>, <<bob, alice, carol>>}
Roles == {<<alice, bob, carol>>, <<alice, bob, alice>>, <<alice, alice, carol>>}
=============================================================================
