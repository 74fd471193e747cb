---------------------------- MODULE UpdateStream ----------------------------
(* What logging a user's updates for the other replicas promises: they get      *)
(* every update, each once as far as its effect goes, in the order they were    *)
(* made.                                                                        *)
EXTENDS Naturals, Sequences

CONSTANT Update

VARIABLES made,      \* the updates, in the order they were logged
          got        \* those the replicas have

Init == made = <<>> /\ got = <<>>

(* A user's update is logged. *)
Make(u) == /\ u \notin {made[i] : i \in DOMAIN made}
           /\ made' = Append(made, u)
           /\ UNCHANGED got

(* The next of them reach the replicas. *)
Deliver(n) == /\ n \in Len(got) + 1..Len(made)
              /\ got' = SubSeq(made, 1, n)
              /\ UNCHANGED made

Next == \/ \E u \in Update : Make(u)
        \/ \E n \in 1..Len(made) : Deliver(n)

Spec == Init /\ [][Next]_<<made, got>>
=============================================================================
