--------------------------- MODULE MCAccountViews ---------------------------
(***************************************************************************)
(* Small instances of AccountViews for TLC.  Only safety is checked, so    *)
(* users and escrows may be permuted.                                      *)
(***************************************************************************)
EXTENDS AccountViews, TLC

\* What the checked-in Goldsky pipeline selects.
PipelineKinds == {"register", "deposit", "merge", "withdraw", "transfer"}
Symmetry == Permutations(Users) \cup Permutations(Escrows)
=============================================================================
