---------------------------- MODULE MCThreadStore ----------------------------
(* Small instances of ThreadStore for TLC. *)
EXTENDS ThreadStore

\* The second message is longer than the others.
MCSize == [m \in 1..MaxId |-> IF m = 2 THEN 2 ELSE 1]
=============================================================================
