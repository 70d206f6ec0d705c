--------------------------- MODULE MCStateEngine ---------------------------
(***************************************************************************)
(* Small instances of StateEngine for TLC.                                 *)
(***************************************************************************)
EXTENDS StateEngine

\* What the checked-in Goldsky pipeline selects.
PipelineKinds == {"register", "deposit", "merge", "withdraw", "transfer"}
\* The tabs of a run without liveness properties are interchangeable.
AnyTab == Permutations(Tabs)
=============================================================================
