------------------------------ MODULE AtomicFile ------------------------------
(***************************************************************************)
(* What a configuration file promises: it always has one complete value,   *)
(* the last one written; a power failure may bring back the value before   *)
(* it, and no other.                                                       *)
(***************************************************************************)
CONSTANTS
    Value,      \* values of the file
    Empty       \* the value of a new file

VARIABLES
    val,        \* what a reader gets, now or after a crash of the process
    back        \* what a reader may get after a power failure

vars == <<val, back>>

Init == val = Empty /\ back = {Empty}

\* The current value has reached the disk.
Settle == back' = {val} /\ val' = val

Write(v) ==
    /\ back = {val}
    /\ val' = v /\ back' = {val, v}

PowerLoss ==
    /\ val' \in back /\ back' = {val'}

Next == Settle \/ (\E v \in Value : Write(v)) \/ PowerLoss

Spec == Init /\ [][Next]_vars
=============================================================================
