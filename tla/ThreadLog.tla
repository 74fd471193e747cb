------------------------------ MODULE ThreadLog ------------------------------
(***************************************************************************)
(* What the store of one thread promises, without files, indexes or        *)
(* transactions: messages are added once and never lost; a draft that is   *)
(* sent turns into a message in one step; seen marks and tags stay with    *)
(* the message they were given to.  A crash changes nothing.               *)
(***************************************************************************)
EXTENDS Naturals

CONSTANTS
    Msg,        \* ids the server gives to messages
    Draft       \* local ids of drafts

VARIABLES
    log,        \* stored messages
    drafts,     \* drafts of the user
    unseen,     \* messages that nobody has opened
    tagged      \* messages and drafts with a tag

vars == <<log, drafts, unseen, tagged>>

\* A message arrives; one of our own, from another replica, is not unseen.
Store(m) ==
    /\ m \notin log
    /\ log' = log \cup {m}
    /\ unseen' \in {unseen, unseen \cup {m}}
    /\ UNCHANGED <<drafts, tagged>>

\* A forwarded copy is compared with what its author confirms.
Confirm(m) ==
    /\ m \in log
    /\ unseen' = unseen \cup {m}
    /\ UNCHANGED <<log, drafts, tagged>>

\* The first draft of a thread is tagged when it is new.
Save(d) ==
    /\ drafts' = drafts \cup {d}
    /\ tagged' \in {tagged, tagged \cup {d}}
    /\ d \in drafts => tagged' = tagged
    /\ UNCHANGED <<log, unseen>>

Discard(d) ==
    /\ drafts' = drafts \ {d}
    /\ tagged' = tagged \ {d}
    /\ UNCHANGED <<log, unseen>>

\* The server accepted the draft as message m.
Sent(d, m) ==
    /\ d \in drafts /\ m \notin log
    /\ drafts' = drafts \ {d}
    /\ log' = log \cup {m}
    /\ tagged' = IF d \in tagged THEN (tagged \ {d}) \cup {m} ELSE tagged
    /\ UNCHANGED unseen

See(m) ==
    /\ m \in unseen
    /\ unseen' = unseen \ {m}
    /\ UNCHANGED <<log, drafts, tagged>>

Tag(x) ==
    /\ x \in log \cup drafts
    /\ tagged' \in {tagged \cup {x}, tagged \ {x}}
    /\ UNCHANGED <<log, drafts, unseen>>

Init ==
    /\ log \subseteq Msg /\ unseen = log
    /\ drafts = {} /\ tagged = {}

Next ==
    \/ \E d \in Draft : Save(d) \/ Discard(d)
    \/ \E m \in Msg : Store(m) \/ Confirm(m) \/ See(m)
    \/ \E d \in Draft, m \in Msg : Sent(d, m)
    \/ \E x \in Msg \cup Draft : Tag(x)

Spec == Init /\ [][Next]_vars
=============================================================================
