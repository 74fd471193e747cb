------------------------------- MODULE MCTags -------------------------------
(* The tags alone, for TLC. *)
EXTENDS Tags
=============================================================================
