---------------------------- MODULE Commitments ----------------------------
(***************************************************************************)
(* A Pedersen commitment v*G + r*H is the record of what it binds: the     *)
(* value v and the blinding r.  Blindings are sums of values derived from  *)
(* fresh random salts, so r is the set of the draws it sums up; equality   *)
(* of records is equality of commitments.                                  *)
(***************************************************************************)
EXTENDS Integers

Commitment == [v : Nat, r : SUBSET Int]
\* A public amount is committed with blinding zero.
Unblinded(x) == [v |-> x, r |-> {}]
Zero == Unblinded(0)

\* Point addition: commitments are added without being opened.
Plus(c, d) == [v |-> c.v + d.v, r |-> c.r \cup d.r]

\* commit(v, derive_spend_r(vk, sigma)) / commit(v, derive_allow_r(dvk, sigma)).
Committed(value, salt) == [v |-> value, r |-> {salt}]

\* commit(v, derive_tx_blind(s, sigma)): the blinding the recipient recovers
\* from the shared secret and the salts of the committed balance it is paid from.
CommittedTx(value, salts) == [v |-> value, r |-> {-s : s \in salts}]
=============================================================================
