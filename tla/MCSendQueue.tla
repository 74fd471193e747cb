---------------------------- MODULE MCSendQueue ----------------------------
(***************************************************************************)
(* Small instances of SendQueue for TLC.                                   *)
(***************************************************************************)
EXTENDS SendQueue, TLC
Symmetry == Permutations(Drafts) \cup Permutations(Edits)
                \cup Permutations(Confirms)
=============================================================================
