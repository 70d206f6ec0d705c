---------------------------- MODULE MCCompliance ----------------------------
(***************************************************************************)
(* A small instance of Compliance for TLC.                                 *)
(***************************************************************************)
EXTENDS Compliance

CONSTANTS ann, ben

AllKinds == {"compliance", "allowlist", "blocklist"}
=============================================================================
