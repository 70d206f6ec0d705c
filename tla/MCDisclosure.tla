---------------------------- MODULE MCDisclosure ----------------------------
(***************************************************************************)
(* A small instance of Disclosure for TLC.  Only safety is checked, so the *)
(* users and the tokens may be permuted.                                   *)
(***************************************************************************)
EXTENDS Disclosure, TLC

Symmetry == Permutations(Users) \cup Permutations(Tokens)
=============================================================================
