----------------------------- MODULE MCWorkflow -----------------------------
(***************************************************************************)
(* A small instance of Workflow for TLC.                                   *)
(***************************************************************************)
EXTENDS Workflow, TLC

CONSTANTS u1, u2, u3

\* Two orders that share an account in different roles.
Orders == {<<u1, u2>>, <<u2, u3>>}
\* The addresses the factory hands out are interchangeable.
Symmetry == Permutations(Ids)
=============================================================================
