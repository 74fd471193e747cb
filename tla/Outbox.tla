------------------------------- MODULE Outbox -------------------------------
(***************************************************************************)
(* What the send queue of a service promises, without queue files,         *)
(* goroutines or connections: a record that was queued stays queued until  *)
(* the server has answered it, or until there is nothing left to send      *)
(* because the user discarded its draft.  The server may see a record more *)
(* than once (delivery is at least once), also after it was retired.       *)
(***************************************************************************)
EXTENDS FiniteSets

CONSTANT Rec      \* identifiers of send records (SendRecord.Id)

VARIABLES
    queued,       \* records the client has promised to send
    answered,     \* records the server has answered, whatever the verdict
    void          \* records whose draft the user discarded

vars == <<queued, answered, void>>

TypeOK ==
    /\ queued \subseteq Rec
    /\ answered \subseteq Rec
    /\ void \subseteq Rec

Init ==
    /\ queued = {}
    /\ answered = {}
    /\ void = {}

\* A handler queues some records at once.
Submit(R) ==
    /\ R # {}
    /\ R \cap queued = {}
    /\ queued' = queued \cup R
    /\ UNCHANGED <<answered, void>>

\* The server reads a copy of the record and answers it.
Answer(r) ==
    /\ answered' = answered \cup {r}
    /\ UNCHANGED <<queued, void>>

\* The user deletes the draft behind the record.
Discard(r) ==
    /\ void' = void \cup {r}
    /\ UNCHANGED <<queued, answered>>

\* The record leaves the queue.
Retire(r) ==
    /\ r \in queued
    /\ r \in answered \cup void
    /\ queued' = queued \ {r}
    /\ UNCHANGED <<answered, void>>

Next ==
    \/ \E R \in SUBSET Rec : Submit(R)
    \/ \E r \in Rec : Answer(r) \/ Discard(r) \/ Retire(r)

Spec == Init /\ [][Next]_vars
=============================================================================
