--------------------------- MODULE SendQueueProofs ---------------------------
(***************************************************************************)
(* Theorems about SendQueue, for any sets of records and any bounds: acks  *)
(* are of records the server has, what is in flight is what the sender     *)
(* holds, no record is forgotten while the client runs, and the server     *)
(* first reads records in the order they were queued.                      *)
(***************************************************************************)
EXTENDS SendQueue, FiniteSetTheorems, TLAPS

USE DEF disk, sender, reader, network, history, env

\* The entries of a sequence after Append, Tail and concatenation.
LEMMA AppendEntries ==
    ASSUME NEW S, NEW s \in Seq(S), NEW e \in S
    PROVE  /\ Append(s, e) \in Seq(S)
           /\ Entries(Append(s, e)) = Entries(s) \cup {e}
<1>1. /\ Append(s, e) \in Seq(S)
      /\ Len(Append(s, e)) = Len(s) + 1
      /\ \A i \in 1..Len(s) : Append(s, e)[i] = s[i]
      /\ Append(s, e)[Len(s) + 1] = e
    OBVIOUS
<1>2. DOMAIN Append(s, e) = 1..(Len(s) + 1) /\ DOMAIN s = 1..Len(s)
    BY <1>1
<1>3. ASSUME NEW x \in Entries(Append(s, e)) PROVE x \in Entries(s) \cup {e}
    BY <1>1, <1>2, <1>3 DEF Entries
<1>4. ASSUME NEW x \in Entries(s) PROVE x \in Entries(Append(s, e))
    <2>1. PICK i \in DOMAIN s : x = s[i]
        BY <1>4 DEF Entries
    <2>2. i \in DOMAIN Append(s, e) /\ Append(s, e)[i] = x
        BY <1>1, <1>2, <2>1
    <2> QED BY <2>2 DEF Entries
<1>5. e \in Entries(Append(s, e))
    <2>1. Len(s) + 1 \in DOMAIN Append(s, e)
        BY <1>2
    <2> QED BY <1>1, <2>1 DEF Entries
<1> QED BY <1>1, <1>3, <1>4, <1>5

LEMMA TailEntries ==
    ASSUME NEW S, NEW s \in Seq(S), s # <<>>
    PROVE  /\ Head(s) \in S /\ Head(s) \in Entries(s)
           /\ Tail(s) \in Seq(S)
           /\ Entries(Tail(s)) \subseteq Entries(s)
           /\ Len(Tail(s)) <= Len(s)
           /\ \A i \in DOMAIN Tail(s) : Tail(s)[i] \in Entries(s)
<1>1. /\ Len(s) \in Nat /\ Len(s) > 0 /\ Head(s) = s[1]
      /\ DOMAIN s = 1..Len(s) /\ s[1] \in S
      /\ Tail(s) \in Seq(S) /\ Len(Tail(s)) = Len(s) - 1
      /\ \A i \in 1..(Len(s) - 1) : Tail(s)[i] = s[i + 1]
    OBVIOUS
<1>2. DOMAIN Tail(s) = 1..(Len(s) - 1)
    BY <1>1
<1>3. ASSUME NEW i \in DOMAIN Tail(s) PROVE Tail(s)[i] \in Entries(s)
    BY <1>1, <1>2, <1>3 DEF Entries
<1>4. 1 \in DOMAIN s
    BY <1>1
<1> QED BY <1>1, <1>3, <1>4 DEF Entries

\* Any order of a set of records that is read back from the file, or posted,
\* is a sequence of records.
LEMMA OrdersType ==
    ASSUME NEW R \in SUBSET Rec, NEW b \in Orders(R)
    PROVE  b \in Seq(Rec)
<1>1. IsFiniteSet(R)
    BY FS_Subset, SendQueueAssumption
<1>2. Cardinality(R) \in Nat
    BY <1>1, FS_CardinalityType
<1>3. b \in [1..Cardinality(R) -> R]
    BY DEF Orders
<1> QED BY <1>2, <1>3

-----------------------------------------------------------------------------
(* Types *)

LEMMA RecFinite == \A R \in SUBSET Rec : IsFiniteSet(R)
BY FS_Subset, SendQueueAssumption

LEMMA PostType == Post \in Ack
BY DEF Post, Ack

LEMMA EmptyType ==
    <<>> \in Seq(Rec) /\ <<>> \in Seq(Ack) /\ Len(<<>>) <= AckCap
<1>1. Len(<<>>) = 0 /\ 0 <= AckCap
    BY SendQueueAssumption
<1> QED BY <1>1

\* Enqueue keeps the types of what it changes.
LEMMA EnqueueType ==
    ASSUME TypeOK, NEW R \in SUBSET Rec, \A r \in R : subs[r] < MaxSubmit,
           Enqueue(R)
    PROVE  /\ sendQ' \subseteq Rec
           /\ date' \in [Rec -> 0..MaxClock]
           /\ subs' \in [Rec -> 0..MaxSubmit]
BY SendQueueAssumption DEF TypeOK, Enqueue

\* Halt leaves an idle process.
LEMMA HaltType ==
    ASSUME TypeOK, NEW f \in BOOLEAN, Halt(f),
           faults' \in 0..MaxFaults, UNCHANGED <<disk, history, now, subs, void>>
    PROVE  TypeOK'
BY EmptyType, PostType DEF TypeOK, Halt

\* A failure is counted within its bound.
LEMMA FaultType ==
    ASSUME TypeOK, Fault
    PROVE  faults' \in 0..MaxFaults
BY SendQueueAssumption DEF TypeOK, Fault

\* TypeOK: the state of the queue, of the two goroutines and of the network
\* stays within its types, and the channel of acks within its capacity.
THEOREM TypeCorrect == Spec => []TypeOK
<1>1. Init => TypeOK
    <2> SUFFICES ASSUME Init PROVE TypeOK
        OBVIOUS
    <2>1. 0 \in 0..MaxClock /\ 0 \in 0..MaxSubmit /\ 0 \in 0..MaxFaults
        BY SendQueueAssumption
    <2>2. date \in [Rec -> 0..MaxClock] /\ subs \in [Rec -> 0..MaxSubmit]
        BY <2>1 DEF Init
    <2>3. payload \subseteq Drafts \cup Accepts \cup Logs
        BY DEF Init
    <2>4. /\ buf \in Seq(Rec) /\ toSrv \in Seq(Rec) /\ toCli \in Seq(Ack)
          /\ seen \in Seq(Rec) /\ ackCh \in Seq(Rec) /\ Len(ackCh) <= AckCap
        BY EmptyType DEF Init
    <2> QED BY <2>1, <2>2, <2>3, <2>4, PostType DEF Init, TypeOK
<1>2. TypeOK /\ [Next]_vars => TypeOK'
    <2> SUFFICES ASSUME TypeOK, [Next]_vars PROVE TypeOK'
        OBVIOUS
    <2> USE SendQueueAssumption
    <2>1. CASE Crash
        BY <2>1, FaultType, HaltType DEF Crash
    <2>2. CASE Restart
        <3>1. buf' \in Seq(Rec)
            BY <2>2, OrdersType DEF TypeOK, Restart
        <3> QED BY <2>2, <3>1 DEF TypeOK, Restart
    <2>3. CASE Tick
        <3>1. now' \in 0..MaxClock
            BY <2>3 DEF TypeOK, Tick
        <3> QED BY <2>3, <3>1, SMTT(30) DEF TypeOK, Tick
    <2>4. ASSUME NEW r \in Rec, AddQueue(r) PROVE TypeOK'
        <3>1. buf' \in Seq(Rec)
            BY <2>4 DEF TypeOK, AddQueue
        <3>2. /\ sendQ' \subseteq Rec /\ date' \in [Rec -> 0..MaxClock]
             /\ subs' \in [Rec -> 0..MaxSubmit]
            BY <2>4, EnqueueType DEF AddQueue
        <3> QED BY <2>4, <3>1, <3>2 DEF TypeOK, AddQueue
    <2>5. ASSUME NEW r \in Rec, DiscardDraft(r) PROVE TypeOK'
        BY <2>5 DEF TypeOK, DiscardDraft
    <2>6. CASE TakeRec
        <3>1. Head(buf) \in Rec /\ Tail(buf) \in Seq(Rec)
            BY <2>6 DEF TypeOK, TakeRec
        <3> QED BY <2>6, <3>1 DEF TypeOK, TakeRec
    <2>7. CASE Pulse
        BY <2>7 DEF TypeOK, Pulse
    <2>8. CASE PulseDone
        BY <2>8 DEF TypeOK, PulseDone
    <2>9. CASE TakeConn
        BY <2>9 DEF TypeOK, TakeConn
    <2>10. CASE Wakeup
        BY <2>10 DEF TypeOK, Wakeup
    <2>11. CASE SendRecord
        <3>1. cur \in Rec => Append(toSrv, cur) \in Seq(Rec)
            BY DEF TypeOK
        <3>2. cur \in Rec
            BY <2>11 DEF TypeOK, SendRecord
        <3> QED BY <2>11, <3>1, <3>2 DEF TypeOK, SendRecord
    <2>12. CASE SkipRecord
        BY <2>12 DEF TypeOK, SkipRecord
    <2>13. CASE SendQuit
        BY <2>13, HaltType DEF SendQuit, TypeOK
    <2>14. CASE ReleaseConn
        BY <2>14 DEF TypeOK, ReleaseConn
    <2>15. CASE TakeAck
        <3>1. Tail(ackCh) \in Seq(Rec) /\ Len(Tail(ackCh)) <= AckCap
            BY <2>15, TailEntries DEF TypeOK, TakeAck
        <3> QED BY <2>15, <3>1 DEF TypeOK, TakeAck
    <2>16. CASE SkipAck
        <3>1. Tail(ackCh) \in Seq(Rec) /\ Len(Tail(ackCh)) <= AckCap
            BY <2>16, TailEntries DEF TypeOK, SkipAck
        <3> QED BY <2>16, <3>1 DEF TypeOK, SkipAck
    <2>17. CASE AckTimeout
        <3>1. faults' \in 0..MaxFaults
            BY <2>17, FaultType DEF AckTimeout, TypeOK
        <3> QED BY <2>17, <3>1 DEF TypeOK, AckTimeout
    <2>18. CASE StartDial
        BY <2>18 DEF TypeOK, StartDial
    <2>19. CASE Connect
        BY <2>19 DEF TypeOK, Connect
    <2>20. CASE LoginOk
        BY <2>20 DEF TypeOK, LoginOk
    <2>21. CASE LoginFails
        BY <2>21, EmptyType DEF TypeOK, LoginFails, Hangup
    <2>22. CASE ReadAck
        <3>1. Tail(toCli) \in Seq(Ack) /\ Head(toCli) \in Ack
            BY <2>22 DEF TypeOK, ReadAck
        <3>2. Head(toCli).rec \in Rec
            BY <2>22, <3>1 DEF ReadAck, Ack
        <3>3. ackCh' \in Seq(Rec) /\ Len(ackCh') <= AckCap
            BY <2>22, <3>2 DEF TypeOK, ReadAck
        <3> QED BY <2>22, <3>1, <3>3 DEF TypeOK, ReadAck
    <2>23. CASE StoreAck
        BY <2>23, PostType DEF TypeOK, StoreAck
    <2>24. CASE StoreAckPanic
        BY <2>24, HaltType DEF StoreAckPanic, TypeOK
    <2>25. CASE ReadPost
        <3>1. Tail(toCli) \in Seq(Ack)
            BY <2>25 DEF TypeOK, ReadPost
        <3>2. CASE rpc' = "post" /\ UNCHANGED <<sendQ, date, subs, held>>
            BY <2>25, <3>1, <3>2 DEF TypeOK, ReadPost
        <3>3. CASE rpc' = "list"
            <4>1. PICK R \in SUBSET {r \in Confirms \ sendQ : subs[r] < MaxSubmit} :
                      Enqueue(R) /\ held' = R
                BY <2>25, <3>3 DEF ReadPost
            <4>2. R \in SUBSET Rec /\ \A r \in R : subs[r] < MaxSubmit
                BY <4>1 DEF Rec
            <4>3. /\ sendQ' \subseteq Rec /\ date' \in [Rec -> 0..MaxClock]
                  /\ subs' \in [Rec -> 0..MaxSubmit]
                BY <4>1, <4>2, EnqueueType
            <4> QED BY <2>25, <3>1, <3>3, <4>1, <4>3 DEF TypeOK, ReadPost
        <3> QED BY <2>25, <3>2, <3>3 DEF ReadPost
    <2>26. CASE PostList
        <3>1. PICK b \in Orders(held) : buf' = buf \o b
            BY <2>26 DEF PostList
        <3>2. held \in SUBSET Rec
            BY DEF TypeOK, Rec
        <3>3. buf' \in Seq(Rec)
            <4>1. b \in Seq(Rec)
                BY <3>2, OrdersType
            <4> QED BY <3>1, <4>1 DEF TypeOK
        <3> QED BY <2>26, <3>3 DEF TypeOK, PostList
    <2>27. CASE PostAck
        BY <2>27 DEF TypeOK, PostAck
    <2>28. CASE ReadFails
        BY <2>28 DEF TypeOK, ReadFails
    <2>29. CASE CloseLink
        BY <2>29, EmptyType DEF TypeOK, CloseLink, Hangup
    <2>30. CASE IdleTimeout
        <3>1. faults' \in 0..MaxFaults
            BY <2>30, FaultType DEF IdleTimeout, TypeOK
        <3> QED BY <2>30, <3>1, EmptyType DEF TypeOK, IdleTimeout, Hangup
    <2>31. CASE IdleResume
        BY <2>31 DEF TypeOK, IdleResume
    <2>32. CASE ServerAnswer
        <3>1. Head(toSrv) \in Rec /\ Tail(toSrv) \in Seq(Rec)
            BY <2>32 DEF TypeOK, ServerAnswer
        <3>2. seen' \in Seq(Rec)
            BY <2>32, <3>1 DEF TypeOK, ServerAnswer
        <3>3. PICK ok \in BOOLEAN :
                  /\ toCli' = Append(toCli, [rec |-> Head(toSrv), ok |-> ok])
                  /\ accepted' = IF ok THEN accepted \cup {Head(toSrv)} ELSE accepted
            BY <2>32 DEF ServerAnswer
        <3>4. [rec |-> Head(toSrv), ok |-> ok] \in Ack
            BY <3>1 DEF Ack
        <3>5. toCli' \in Seq(Ack)
            BY <3>3, <3>4 DEF TypeOK
        <3>6. accepted' \subseteq Rec
            BY <3>1, <3>3 DEF TypeOK
        <3>7. toSrv' \in Seq(Rec)
            BY <2>32, <3>1 DEF ServerAnswer
        <3>8. UNCHANGED <<disk, sender, reader, link, env, ackCh, token>>
            BY <2>32 DEF ServerAnswer
        <3> QED BY <3>2, <3>5, <3>6, <3>7, <3>8, SMTT(30) DEF TypeOK
    <2>33. CASE ServerPost
        <3>1. faults' \in 0..MaxFaults
            BY <2>33, FaultType DEF ServerPost
        <3>2. toCli' \in Seq(Ack)
            BY <2>33, PostType DEF TypeOK, ServerPost
        <3> QED BY <2>33, <3>1, <3>2 DEF TypeOK, ServerPost
    <2>34. ASSUME NEW r \in Rec, Joined(r) PROVE TypeOK'
        BY <2>34 DEF TypeOK, Joined
    <2>35. CASE LinkBreaks
        <3>1. faults' \in 0..MaxFaults
            BY <2>35, FaultType DEF LinkBreaks
        <3> QED BY <2>35, <3>1 DEF TypeOK, LinkBreaks
    <2>36. CASE UNCHANGED vars
        BY <2>36 DEF TypeOK, vars
    <2> QED BY <2>1, <2>2, <2>3, <2>4, <2>5, <2>6, <2>7, <2>8, <2>9, <2>10, <2>11, <2>12, <2>13, <2>14, <2>15, <2>16, <2>17, <2>18, <2>19, <2>20, <2>21, <2>22, <2>23, <2>24, <2>25, <2>26, <2>27, <2>28, <2>29, <2>30, <2>31, <2>32, <2>33, <2>34, <2>35, <2>36
        DEF Next, Process, User, Sender, Receiver, Server
<1> QED BY <1>1, <1>2, PTL DEF Spec

-----------------------------------------------------------------------------
(* The connection token *)

\* OneToken is inductive as it stands: connSrc is filled once per login and
\* both the sender and the reader return what they took.
THEOREM TokenSafe == Spec => []OneToken
<1> USE DEF OneToken, LoggedIn
<1>1. Init => OneToken
    BY DEF Init
<1>2. OneToken /\ [Next]_vars => OneToken'
    <2> SUFFICES ASSUME OneToken, [Next]_vars PROVE OneToken'
        OBVIOUS
    <2>1. CASE Process
        BY <2>1 DEF Process, Crash, Restart, Tick, Halt
    <2>2. CASE User
        BY <2>2 DEF User, AddQueue, DiscardDraft
    <2>3. CASE Sender
        <3>1. CASE TakeRec \/ Pulse \/ PulseDone \/ TakeConn \/ Wakeup
            BY <3>1 DEF TakeRec, Pulse, PulseDone, TakeConn, Wakeup, SenderFree
        <3>2. CASE SendRecord \/ SkipRecord \/ SendQuit \/ ReleaseConn
            BY <3>2 DEF SendRecord, SkipRecord, SendQuit, ReleaseConn, Halt
        <3>3. CASE TakeAck \/ SkipAck \/ AckTimeout
            BY <3>3 DEF TakeAck, SkipAck, AckTimeout, SenderFree
        <3> QED BY <2>3, <3>1, <3>2, <3>3 DEF Sender
    <2>4. CASE Receiver
        <3>1. CASE StartDial \/ Connect \/ LoginOk \/ LoginFails
            BY <3>1 DEF StartDial, Connect, LoginOk, LoginFails, Hangup
        <3>2. CASE ReadAck \/ StoreAck \/ StoreAckPanic
            BY <3>2 DEF ReadAck, StoreAck, StoreAckPanic, Halt
        <3>3. CASE ReadPost \/ PostList \/ PostAck
            BY <3>3 DEF ReadPost, PostList, PostAck
        <3>4. CASE ReadFails \/ CloseLink \/ IdleTimeout \/ IdleResume
            BY <3>4 DEF ReadFails, CloseLink, IdleTimeout, IdleResume, Hangup
        <3> QED BY <2>4, <3>1, <3>2, <3>3, <3>4 DEF Receiver
    <2>5. CASE Server
        BY <2>5 DEF Server, ServerAnswer, ServerPost, LinkBreaks, Joined
    <2>6. CASE UNCHANGED vars
        BY <2>6 DEF vars
    <2> QED BY <2>1, <2>2, <2>3, <2>4, <2>5, <2>6 DEF Next
<1> QED BY <1>1, <1>2, PTL DEF Spec

-----------------------------------------------------------------------------
(* Acks, drafts and logs *)

\* A step that leaves acks, history and disk alone keeps AcksBacked.
LEMMA BackedFrame ==
    ASSUME AcksBacked,
           UNCHANGED <<rmsg, toCli, seen, accepted, payload, void>>
    PROVE  AcksBacked'
BY DEF AcksBacked, Backed

\* So does losing the acks.
LEMMA BackedLost ==
    ASSUME AcksBacked, toCli' = <<>>, rmsg' \in {rmsg, Post},
           UNCHANGED <<seen, accepted, payload, void>>
    PROVE  AcksBacked'
<1>1. DOMAIN toCli' = {}
    OBVIOUS
<1>2. Backed(rmsg)'
    BY DEF AcksBacked, Backed, Post
<1> QED BY <1>1, <1>2 DEF AcksBacked

\* And taking the next message off the link.
LEMMA BackedTail ==
    ASSUME TypeOK, AcksBacked, toCli # <<>>, toCli' = Tail(toCli),
           rmsg' \in {rmsg, Head(toCli)},
           UNCHANGED <<seen, accepted, payload, void>>
    PROVE  AcksBacked'
<1>1. Head(toCli) \in Entries(toCli)
    BY TailEntries DEF TypeOK
<1>2. \A i \in DOMAIN toCli' : toCli'[i] \in Entries(toCli)
    BY TailEntries DEF TypeOK
<1>3. \A a \in Entries(toCli) : Backed(a)
    BY DEF AcksBacked, Entries
<1>4. ASSUME NEW a, Backed(a)
      PROVE  a.rec # None => a.rec \in Entries(seen)' /\ (a.ok => a.rec \in accepted')
    BY <1>4 DEF Backed, Entries
<1>5. Backed(rmsg)'
    BY <1>1, <1>3, <1>4 DEF AcksBacked, Backed
<1>6. \A i \in DOMAIN toCli' : Backed(toCli[i])'
    BY <1>2, <1>3, <1>4 DEF Backed
<1> QED BY <1>5, <1>6 DEF AcksBacked, Entries

\* The server answers the record it reads: a new ack, backed by new history.
LEMMA BackedAnswer ==
    ASSUME TypeOK, AcksBacked, ServerAnswer
    PROVE  AcksBacked'
<1>1. Head(toSrv) \in Rec
    BY TailEntries DEF TypeOK, ServerAnswer
<1>2. /\ Entries(seen)' = Entries(seen) \cup {Head(toSrv)}
    <2>1. seen \in Seq(Rec)
        BY DEF TypeOK
    <2>2. CASE Head(toSrv) \in Entries(seen)
        BY <2>2 DEF ServerAnswer, Entries
    <2>3. CASE Head(toSrv) \notin Entries(seen)
        <3>1. seen' = Append(seen, Head(toSrv))
            BY <2>3 DEF ServerAnswer
        <3>2. Entries(seen') = Entries(seen) \cup {Head(toSrv)}
            BY <1>1, <2>1, <3>1, AppendEntries
        <3> QED BY <3>2 DEF Entries
    <2> QED BY <2>2, <2>3
<1>3. PICK ok \in BOOLEAN :
          /\ toCli' = Append(toCli, [rec |-> Head(toSrv), ok |-> ok])
          /\ accepted' = IF ok THEN accepted \cup {Head(toSrv)} ELSE accepted
    BY DEF ServerAnswer
<1> DEFINE new == [rec |-> Head(toSrv), ok |-> ok]
<1>4. new \in Ack /\ toCli \in Seq(Ack)
    BY <1>1 DEF Ack, TypeOK
<1>5. ASSUME NEW a, Backed(a) PROVE Backed(a)'
    BY <1>2, <1>3, <1>5 DEF Backed
<1>6. new.rec \in Entries(seen)' /\ (new.ok => new.rec \in accepted')
    BY <1>2, <1>3
<1>7. ASSUME NEW i \in DOMAIN toCli'
      PROVE  Backed(toCli[i])'
    <2>1. Entries(toCli') = Entries(toCli) \cup {new}
        BY <1>3, <1>4, AppendEntries
    <2>2. toCli'[i] \in Entries(toCli')
        BY <1>7 DEF Entries
    <2>3. CASE toCli'[i] = new
        BY <1>6, <2>3 DEF Backed
    <2>4. CASE toCli'[i] \in Entries(toCli)
        <3>1. Backed(toCli'[i])
            BY <2>4 DEF AcksBacked, Entries
        <3> QED BY <1>5, <3>1 DEF Backed
    <2> QED BY <2>1, <2>2, <2>3, <2>4
<1>8. UNCHANGED <<rmsg, payload, void>>
    BY DEF ServerAnswer
<1>9. Backed(rmsg)'
    BY <1>5, <1>8 DEF AcksBacked, Backed
<1>10. accepted' \subseteq Entries(seen)'
    BY <1>2, <1>3 DEF AcksBacked
<1>11. \A r \in (Drafts \cup Accepts \cup Logs) \ payload' :
           r \in accepted' \cup void'
    BY <1>3, <1>8 DEF AcksBacked
<1> QED BY <1>7, <1>9, <1>10, <1>11 DEF AcksBacked

\* AcksBacked is inductive, given the types.
LEMMA BackedStep == TypeOK /\ AcksBacked /\ [Next]_vars => AcksBacked'
<1> SUFFICES ASSUME TypeOK, AcksBacked, [Next]_vars PROVE AcksBacked'
    OBVIOUS
<1>1. CASE Process
    <2>1. CASE Crash
        BY <2>1, BackedLost DEF Crash, Halt
    <2>2. CASE Restart \/ Tick
        BY <2>2, BackedFrame DEF Restart, Tick
    <2> QED BY <1>1, <2>1, <2>2 DEF Process
<1>2. ASSUME NEW r \in Rec, AddQueue(r) PROVE AcksBacked'
    BY <1>2, BackedFrame DEF AddQueue
<1>3. ASSUME NEW r \in Rec, DiscardDraft(r) PROVE AcksBacked'
    BY <1>3 DEF DiscardDraft, AcksBacked, Backed
<1>4. CASE Sender
    <2>1. CASE SendQuit
        BY <2>1, BackedLost DEF SendQuit, Halt
    <2>2. CASE TakeRec \/ Pulse \/ PulseDone \/ TakeConn \/ Wakeup
        BY <2>2, BackedFrame DEF TakeRec, Pulse, PulseDone, TakeConn, Wakeup
    <2>3. CASE SendRecord \/ SkipRecord \/ ReleaseConn
        BY <2>3, BackedFrame DEF SendRecord, SkipRecord, ReleaseConn
    <2>4. CASE TakeAck \/ SkipAck \/ AckTimeout
        BY <2>4, BackedFrame DEF TakeAck, SkipAck, AckTimeout
    <2> QED BY <1>4, <2>1, <2>2, <2>3, <2>4 DEF Sender
<1>5. CASE Receiver
    <2>1. CASE StartDial \/ Connect \/ LoginOk
        BY <2>1, BackedFrame DEF StartDial, Connect, LoginOk
    <2>2. CASE LoginFails \/ CloseLink
        BY <2>2, BackedLost DEF LoginFails, CloseLink, Hangup
    <2>3. CASE IdleTimeout
        <3>1. CASE token = "chan"
            BY <2>3, <3>1, BackedLost DEF IdleTimeout, Hangup
        <3>2. CASE token # "chan"
            BY <2>3, <3>2, BackedFrame DEF IdleTimeout
        <3> QED BY <3>1, <3>2
    <2>4. CASE ReadAck
        BY <2>4, BackedTail DEF ReadAck
    <2>5. CASE StoreAck
        <3>1. UNCHANGED <<toCli, seen, accepted, void>> /\ rmsg' = Post
            BY <2>5 DEF StoreAck
        <3>2. rmsg.rec \in Rec => (rmsg.ok => rmsg.rec \in accepted)
            BY SendQueueAssumption DEF AcksBacked, Backed
        <3>3. ASSUME NEW r \in (Drafts \cup Accepts \cup Logs) \ payload'
              PROVE  r \in accepted \cup void
            BY <2>5, <3>2, <3>3 DEF StoreAck, AcksBacked, Rec
        <3> QED BY <3>1, <3>3 DEF AcksBacked, Backed, Post
    <2>6. CASE StoreAckPanic
        BY <2>6, BackedLost DEF StoreAckPanic, Halt
    <2>7. CASE ReadPost
        BY <2>7, BackedTail DEF ReadPost
    <2>8. CASE PostList \/ PostAck \/ ReadFails \/ IdleResume
        BY <2>8, BackedFrame DEF PostList, PostAck, ReadFails, IdleResume
    <2> QED BY <1>5, <2>1, <2>2, <2>3, <2>4, <2>5, <2>6, <2>7, <2>8 DEF Receiver
<1>6. CASE Server
    <2>1. CASE ServerAnswer
        BY <2>1, BackedAnswer
    <2>2. CASE ServerPost
        <3>1. toCli' = Append(toCli, Post) /\ toCli \in Seq(Ack)
            BY <2>2 DEF ServerPost, TypeOK
        <3>2. Entries(toCli') = Entries(toCli) \cup {Post}
            BY <3>1, PostType, AppendEntries
        <3>3. UNCHANGED <<rmsg, seen, accepted, payload, void>>
            BY <2>2 DEF ServerPost
        <3>4. ASSUME NEW i \in DOMAIN toCli' PROVE Backed(toCli[i])'
            <4>1. toCli'[i] \in Entries(toCli')
                BY <3>4 DEF Entries
            <4>2. Backed(toCli'[i])
                BY <3>2, <4>1 DEF AcksBacked, Entries, Backed, Post
            <4> QED BY <3>3, <4>2 DEF Backed
        <3> QED BY <3>3, <3>4 DEF AcksBacked, Backed
    <2>3. CASE LinkBreaks
        BY <2>3, BackedFrame DEF LinkBreaks
    <2>4. ASSUME NEW r \in Rec, Joined(r) PROVE AcksBacked'
        BY <2>4 DEF Joined, AcksBacked, Backed
    <2> QED BY <1>6, <2>1, <2>2, <2>3, <2>4 DEF Server
<1>7. CASE UNCHANGED vars
    BY <1>7, BackedFrame DEF vars
<1> QED BY <1>1, <1>2, <1>3, <1>4, <1>5, <1>6, <1>7 DEF Next, User

\* AcksBacked: whatever is acked was read by the server, and whatever left
\* the disk was accepted by it or discarded by the user.
THEOREM AcksSound == Spec => []AcksBacked
<1>1. Init => AcksBacked
    <2> SUFFICES ASSUME Init PROVE AcksBacked
        OBVIOUS
    <2>1. DOMAIN toCli = {}
        BY DEF Init
    <2> QED BY <2>1 DEF Init, AcksBacked, Backed, Post
<1>2. TypeOK /\ AcksBacked /\ [Next]_vars => AcksBacked'
    BY BackedStep
<1> QED BY <1>1, <1>2, TypeCorrect, PTL DEF Spec

\* PayloadKept: no draft or sync log is lost before the server accepted it.
THEOREM PayloadSafe == Spec => []PayloadKept
<1>1. AcksBacked => PayloadKept
    BY DEF AcksBacked, PayloadKept
<1> QED BY <1>1, AcksSound, PTL

-----------------------------------------------------------------------------
(* Refinement *)

\* Every step of the queue is a step of the outbox or leaves it alone.
LEMMA OutboxStep ==
    ASSUME TypeOK, AcksBacked, [Next]_vars
    PROVE  [Promise!Next]_(Promise!vars)
<1> USE DEF Promise!vars
<1> DEFINE same == UNCHANGED <<sendQ, seen, void>>
<1>0. same => UNCHANGED Promise!vars
    BY DEF Entries
<1>1. CASE Process
    <2>1. same
        BY <1>1 DEF Process, Crash, Restart, Tick, Halt
    <2> QED BY <1>0, <2>1
<1>2. ASSUME NEW r \in Rec, AddQueue(r) PROVE Promise!Submit({r})
    BY <1>2 DEF AddQueue, Enqueue, Promise!Submit, Entries
<1>3. ASSUME NEW r \in Rec, DiscardDraft(r) PROVE Promise!Discard(r)
    BY <1>3 DEF DiscardDraft, Promise!Discard, Entries
<1>4. CASE Sender
    <2>1. CASE SkipRecord
        <3>1. cur \in (Drafts \cup Accepts) \ payload
            BY <2>1 DEF SkipRecord, AlreadySent
        <3>2. cur \in Entries(seen) \cup void /\ cur \in Rec
            BY <3>1 DEF AcksBacked, Rec
        <3>3. sendQ' = sendQ \ {cur} /\ UNCHANGED <<seen, void>>
            BY <2>1 DEF SkipRecord
        <3>4. CASE cur \in sendQ
            <4>1. Promise!Retire(cur)
                BY <3>2, <3>3, <3>4 DEF Promise!Retire, Entries
            <4> QED BY <3>2, <4>1 DEF Promise!Next
        <3>5. CASE cur \notin sendQ
            BY <1>0, <3>3, <3>5
        <3> QED BY <3>4, <3>5
    <2>2. CASE SendQuit
        BY <1>0, <2>2 DEF SendQuit, Halt
    <2>3. CASE TakeRec \/ Pulse \/ PulseDone \/ TakeConn \/ Wakeup
        BY <1>0, <2>3 DEF TakeRec, Pulse, PulseDone, TakeConn, Wakeup
    <2>4. CASE SendRecord \/ ReleaseConn \/ TakeAck \/ SkipAck \/ AckTimeout
        BY <1>0, <2>4 DEF SendRecord, ReleaseConn, TakeAck, SkipAck, AckTimeout
    <2> QED BY <1>4, <2>1, <2>2, <2>3, <2>4 DEF Sender
<1>5. CASE Receiver
    <2>1. CASE StoreAck
        <3>1. UNCHANGED <<seen, void>> /\ sendQ' \in {sendQ, sendQ \ {rmsg.rec}}
            BY <2>1 DEF StoreAck
        <3>2. CASE rmsg.rec \in sendQ /\ sendQ' = sendQ \ {rmsg.rec}
            <4>1. rmsg.rec \in Rec /\ rmsg.rec \in Entries(seen)
                BY <3>2, SendQueueAssumption DEF TypeOK, AcksBacked, Backed
            <4>2. Promise!Retire(rmsg.rec)
                BY <3>1, <3>2, <4>1 DEF Promise!Retire, Entries
            <4> QED BY <4>1, <4>2 DEF Promise!Next
        <3>3. CASE sendQ' = sendQ
            BY <1>0, <3>1, <3>3
        <3> QED BY <3>1, <3>2, <3>3
    <2>2. CASE ReadPost
        <3>1. CASE UNCHANGED sendQ
            BY <1>0, <2>2, <3>1 DEF ReadPost
        <3>2. CASE \E R \in SUBSET {r \in Confirms \ sendQ : subs[r] < MaxSubmit} :
                      R # {} /\ Enqueue(R)
            <4>1. PICK R \in SUBSET {r \in Confirms \ sendQ : subs[r] < MaxSubmit} :
                      R # {} /\ Enqueue(R)
                BY <3>2
            <4>2. R \in SUBSET Rec
                BY <4>1 DEF Rec
            <4>3. Promise!Submit(R)
                BY <2>2, <4>1 DEF ReadPost, Enqueue, Promise!Submit, Entries
            <4> QED BY <4>2, <4>3 DEF Promise!Next
        <3> QED BY <2>2, <3>1, <3>2 DEF ReadPost
    <2>3. CASE StartDial \/ Connect \/ LoginOk \/ LoginFails \/ ReadAck
        BY <1>0, <2>3 DEF StartDial, Connect, LoginOk, LoginFails, ReadAck
    <2>4. CASE StoreAckPanic \/ PostList \/ PostAck \/ ReadFails
        BY <1>0, <2>4 DEF StoreAckPanic, Halt, PostList, PostAck, ReadFails
    <2>5. CASE CloseLink \/ IdleTimeout \/ IdleResume
        BY <1>0, <2>5 DEF CloseLink, IdleTimeout, IdleResume
    <2> QED BY <1>5, <2>1, <2>2, <2>3, <2>4, <2>5 DEF Receiver
<1>6. CASE Server
    <2>1. CASE ServerAnswer
        <3>1. Head(toSrv) \in Rec /\ seen \in Seq(Rec)
            BY <2>1, TailEntries DEF TypeOK, ServerAnswer
        <3>2. Entries(seen') = Entries(seen) \cup {Head(toSrv)}
            <4>1. CASE Head(toSrv) \in Entries(seen)
                BY <2>1, <4>1 DEF ServerAnswer
            <4>2. CASE Head(toSrv) \notin Entries(seen)
                BY <2>1, <3>1, <4>2, AppendEntries DEF ServerAnswer
            <4> QED BY <4>1, <4>2
        <3>3. Promise!Answer(Head(toSrv))
            BY <2>1, <3>2 DEF ServerAnswer, Promise!Answer, Entries
        <3> QED BY <3>1, <3>3 DEF Promise!Next
    <2>2. CASE ServerPost \/ LinkBreaks
        BY <1>0, <2>2 DEF ServerPost, LinkBreaks
    <2>3. ASSUME NEW r \in Rec, Joined(r) PROVE same
        BY <2>3 DEF Joined
    <2> QED BY <1>0, <1>6, <2>1, <2>2, <2>3 DEF Server
<1>7. CASE UNCHANGED vars
    BY <1>0, <1>7 DEF vars
<1>8. ASSUME NEW r \in Rec, AddQueue(r) PROVE Promise!Next
    BY <1>2, <1>8 DEF Promise!Next
<1>9. ASSUME NEW r \in Rec, DiscardDraft(r) PROVE Promise!Next
    BY <1>3, <1>9 DEF Promise!Next
<1> QED BY <1>1, <1>4, <1>5, <1>6, <1>7, <1>8, <1>9 DEF Next, User

\* ImplementsOutbox: with any number of records, crashes, timeouts and lost
\* links, a record leaves the queue only when it was answered or discarded.
THEOREM QueueRefinesOutbox == Spec => ImplementsOutbox
<1>1. Init => Promise!Init
    BY DEF Init, Promise!Init, Entries
<1>2. TypeOK /\ AcksBacked /\ [Next]_vars => [Promise!Next]_(Promise!vars)
    BY OutboxStep
<1> QED BY <1>1, <1>2, TypeCorrect, AcksSound, PTL
        DEF Spec, ImplementsOutbox, Promise!Spec
-----------------------------------------------------------------------------
(* Stop and wait *)

\* What the channel of acks holds was read by the server, and what is in flight
\* and new to it is the record that the sender holds, whatever the link is.
AcksSeen == Entries(ackCh) \subseteq Entries(seen)
InFlightHeld ==
    \A r \in Entries(toSrv) : r \in Entries(seen) \/ r = cur \/ Zombie(r)

LEMMA EmptyEntries == Entries(<<>>) = {}
BY DEF Entries

\* The history of what the server read only grows.
LEMMA AnswerEntries ==
    ASSUME TypeOK, ServerAnswer
    PROVE  /\ Head(toSrv) \in Rec /\ Head(toSrv) \in Entries(toSrv)
           /\ Entries(toSrv') \subseteq Entries(toSrv)
           /\ Entries(seen') = Entries(seen) \cup {Head(toSrv)}
<1>1. /\ Head(toSrv) \in Rec /\ Head(toSrv) \in Entries(toSrv)
      /\ Entries(toSrv') \subseteq Entries(toSrv)
    BY TailEntries DEF TypeOK, ServerAnswer
<1>2. CASE Head(toSrv) \in Entries(seen)
    BY <1>1, <1>2 DEF ServerAnswer
<1>3. CASE Head(toSrv) \notin Entries(seen)
    <2>1. seen' = Append(seen, Head(toSrv)) /\ seen \in Seq(Rec)
        BY <1>3 DEF TypeOK, ServerAnswer
    <2> QED BY <1>1, <2>1, AppendEntries
<1> QED BY <1>1, <1>2, <1>3

LEMMA HeldFrame ==
    ASSUME AcksSeen, InFlightHeld,
           Entries(ackCh') \subseteq Entries(ackCh), Entries(seen) \subseteq Entries(seen'),
           Entries(toSrv') \subseteq Entries(toSrv), cur' = cur \/ toSrv' = <<>>,
           payload' \subseteq payload
    PROVE  AcksSeen' /\ InFlightHeld'
BY EmptyEntries DEF AcksSeen, InFlightHeld, Zombie

LEMMA HeldHalt ==
    ASSUME AcksSeen, InFlightHeld, NEW f, Halt(f), UNCHANGED <<payload, seen>>
    PROVE  AcksSeen' /\ InFlightHeld'
BY EmptyEntries DEF AcksSeen, InFlightHeld, Halt

LEMMA HeldStep ==
    TypeOK /\ AcksBacked /\ AcksSeen /\ InFlightHeld /\ [Next]_vars => AcksSeen' /\ InFlightHeld'
<1> SUFFICES ASSUME TypeOK, AcksBacked, AcksSeen, InFlightHeld, [Next]_vars
             PROVE  AcksSeen' /\ InFlightHeld'
    OBVIOUS
<1>1. CASE Process
    <2>1. CASE Crash
        BY <2>1, HeldHalt DEF Crash
    <2>2. CASE Restart \/ Tick
        BY <2>2, HeldFrame DEF Restart, Tick
    <2> QED BY <1>1, <2>1, <2>2 DEF Process
<1>2. CASE User
    BY <1>2, HeldFrame DEF User, AddQueue, DiscardDraft
<1>3. CASE Sender
    <2>1. CASE TakeRec
        <3>1. cur = None /\ Entries(toSrv) \subseteq Rec
            BY <2>1 DEF TypeOK, TakeRec, Entries
        <3>2. UNCHANGED <<payload, seen, toSrv, ackCh>>
            BY <2>1 DEF TakeRec
        <3> QED BY <3>1, <3>2, SendQueueAssumption DEF AcksSeen, InFlightHeld, Zombie
    <2>2. CASE SendRecord
        <3>1. UNCHANGED <<payload, seen, cur, ackCh>>
            BY <2>2 DEF SendRecord
        <3>2. Entries(toSrv') \subseteq Entries(toSrv) \cup {cur}
            <4>1. cur \in Rec /\ toSrv \in Seq(Rec)
                BY <2>2 DEF TypeOK, SendRecord
            <4>2. toSrv' = toSrv \/ toSrv' = Append(toSrv, cur)
                BY <2>2 DEF SendRecord
            <4> QED BY <4>1, <4>2, AppendEntries
        <3> QED BY <3>1, <3>2 DEF AcksSeen, InFlightHeld, Zombie
    <2>3. CASE SkipRecord
        <3>1. UNCHANGED <<payload, seen, toSrv, ackCh>>
            BY <2>3 DEF SkipRecord
        <3>2. cur \in Entries(seen) \/ Zombie(cur)
            BY <2>3 DEF SkipRecord, AlreadySent, AcksBacked, TypeOK, Zombie
        <3> QED BY <3>1, <3>2 DEF AcksSeen, InFlightHeld, Zombie
    <2>4. CASE SendQuit
        BY <2>4, HeldHalt DEF SendQuit
    <2>5. CASE TakeAck
        <3>1. UNCHANGED <<payload, seen, toSrv>> /\ Entries(ackCh') \subseteq Entries(ackCh)
              /\ cur \in Entries(ackCh)
            BY <2>5, TailEntries DEF TakeAck, TypeOK
        <3> QED BY <3>1 DEF AcksSeen, InFlightHeld, Zombie
    <2>6. CASE SkipAck
        <3>1. Entries(ackCh') \subseteq Entries(ackCh)
            BY <2>6, TailEntries DEF SkipAck, TypeOK
        <3> QED BY <2>6, <3>1, HeldFrame DEF SkipAck
    <2>7. CASE Pulse \/ PulseDone \/ TakeConn \/ Wakeup \/ ReleaseConn \/ AckTimeout
        BY <2>7, HeldFrame DEF Pulse, PulseDone, TakeConn, Wakeup, ReleaseConn, AckTimeout
    <2> QED BY <1>3, <2>1, <2>2, <2>3, <2>4, <2>5, <2>6, <2>7 DEF Sender
<1>4. CASE Receiver
    <2>1. CASE StartDial \/ Connect \/ LoginOk
        BY <2>1, HeldFrame DEF StartDial, Connect, LoginOk
    <2>2. CASE LoginFails \/ CloseLink \/ IdleTimeout
        BY <2>2, HeldFrame, EmptyEntries DEF LoginFails, CloseLink, IdleTimeout, Hangup
    <2>3. CASE ReadAck
        <3>1. UNCHANGED <<payload, seen, toSrv, cur>>
            BY <2>3 DEF ReadAck
        <3>2. Head(toCli) \in Ack /\ Head(toCli).rec \in Rec /\ Head(toCli).rec \in Entries(seen)
            <4>1. Head(toCli) \in Ack /\ Head(toCli) \in Entries(toCli) /\ Head(toCli).rec # None
                BY <2>3, TailEntries DEF ReadAck, TypeOK
            <4>2. Backed(Head(toCli))
                BY <4>1 DEF AcksBacked, Entries
            <4> QED BY <4>1, <4>2 DEF Backed, Ack
        <3>3. Entries(ackCh') \subseteq Entries(ackCh) \cup {Head(toCli).rec}
            <4>1. ackCh' = ackCh \/ ackCh' = Append(ackCh, Head(toCli).rec)
                BY <2>3 DEF ReadAck
            <4>2. ackCh \in Seq(Rec)
                BY DEF TypeOK
            <4>3. Entries(Append(ackCh, Head(toCli).rec)) = Entries(ackCh) \cup {Head(toCli).rec}
                BY <3>2, <4>2, AppendEntries
            <4> QED BY <4>1, <4>3
        <3> QED BY <3>1, <3>2, <3>3 DEF AcksSeen, InFlightHeld, Zombie
    <2>4. CASE StoreAck
        BY <2>4, HeldFrame DEF StoreAck
    <2>5. CASE StoreAckPanic
        BY <2>5, HeldHalt DEF StoreAckPanic
    <2>6. CASE ReadPost \/ PostList \/ PostAck \/ ReadFails \/ IdleResume
        BY <2>6, HeldFrame DEF ReadPost, PostList, PostAck, ReadFails, IdleResume
    <2> QED BY <1>4, <2>1, <2>2, <2>3, <2>4, <2>5, <2>6 DEF Receiver
<1>5. CASE Server
    <2>1. CASE ServerAnswer
        BY <2>1, AnswerEntries, HeldFrame DEF ServerAnswer
    <2>2. CASE ServerPost \/ LinkBreaks
        BY <2>2, HeldFrame DEF ServerPost, LinkBreaks
    <2>3. ASSUME NEW r \in Rec, Joined(r) PROVE AcksSeen' /\ InFlightHeld'
        BY <2>3, HeldFrame DEF Joined
    <2> QED BY <1>5, <2>1, <2>2, <2>3 DEF Server
<1>6. CASE UNCHANGED vars
    BY <1>6, HeldFrame DEF vars
<1> QED BY <1>1, <1>2, <1>3, <1>4, <1>5, <1>6 DEF Next

\* StopAndWait: what is in flight and new to the server is the record that the
\* sender holds (main.go:258-300), unless its draft was discarded meanwhile.
THEOREM SendsOne == Spec => []StopAndWait
<1>1. Init => AcksSeen /\ InFlightHeld
    BY EmptyEntries DEF Init, AcksSeen, InFlightHeld
<1>2. InFlightHeld => StopAndWait
    BY DEF InFlightHeld, StopAndWait
<1> QED BY <1>1, <1>2, HeldStep, TypeCorrect, AcksSound, PTL DEF Spec

-----------------------------------------------------------------------------
(* No record is forgotten *)

\* Nothing is held but while a list of confirmations is posted.
Listed == held # {} => rpc = "list"

\* Nothing is anywhere that was not queued.
Around == sendQ \cup Entries(buf) \cup held \cup ({cur} \ {None})
            \cup Entries(toSrv) \cup Entries(seen)
Submitted == \A r \in Around : subs[r] > 0

\* A record in sendQ is on its way through the sender, or its ack is being handled
\* or was, after its draft was discarded.
OnItsWay == \A r \in sendQ :
    \/ ~up \/ (Zombie(r) /\ r \in Entries(seen))
    \/ r = cur \/ r \in Entries(buf) \cup held
    \/ rpc = "store" /\ rmsg.rec = r

\* A record whose ack waits for the sender has left sendQ, or is about to.
Retiring == \A r \in Entries(ackCh) \cap sendQ :
    Zombie(r) \/ (rpc = "store" /\ rmsg.rec = r)

\* An order of a finite set has exactly its elements.
LEMMA OrdersEntries ==
    ASSUME NEW R \in SUBSET Rec, NEW b \in Orders(R)
    PROVE  Entries(b) = R
<1> DEFINE n == Cardinality(R)
<1>1. IsFiniteSet(R) /\ n \in Nat
    BY RecFinite, FS_CardinalityType
<1>2. b \in [1..n -> R] /\ \A i, j \in 1..n : i < j => b[i] # b[j]
    BY DEF Orders
<1>3. b \in Injection(1..n, R)
    <2>1. \A i, j \in 1..n : b[i] = b[j] => i = j
        BY <1>1, <1>2
    <2> QED BY <1>2, <2>1 DEF Injection, IsInjective
<1>4. Cardinality(1..n) = n
    BY <1>1, FS_Interval
<1>5. b \in Surjection(1..n, R)
    BY <1>1, <1>3, <1>4, FS_Injection
<1>6. \A r \in R : \E i \in 1..n : b[i] = r
    BY <1>5 DEF Surjection
<1>7. DOMAIN b = 1..n
    BY <1>2
<1> QED BY <1>2, <1>6, <1>7 DEF Entries

\* The entries of a concatenation are those of its parts.
LEMMA ConcatEntries ==
    ASSUME NEW S, NEW s \in Seq(S), NEW t \in Seq(S)
    PROVE  Entries(s \o t) = Entries(s) \cup Entries(t)
<1>1. /\ Len(s) \in Nat /\ Len(t) \in Nat
      /\ DOMAIN s = 1..Len(s) /\ DOMAIN t = 1..Len(t)
      /\ DOMAIN (s \o t) = 1..Len(s) + Len(t)
      /\ \A i \in 1..Len(s) : (s \o t)[i] = s[i]
      /\ \A i \in 1..Len(t) : (s \o t)[Len(s) + i] = t[i]
    OBVIOUS
<1>2. ASSUME NEW x \in Entries(s \o t) PROVE x \in Entries(s) \cup Entries(t)
    <2>1. PICK i \in 1..Len(s) + Len(t) : x = (s \o t)[i]
        BY <1>1, <1>2 DEF Entries
    <2>2. CASE i <= Len(s)
        BY <1>1, <2>1, <2>2 DEF Entries
    <2>3. CASE i > Len(s)
        <3>1. i - Len(s) \in 1..Len(t) /\ Len(s) + (i - Len(s)) = i
            BY <1>1, <2>1, <2>3
        <3>2. x = t[i - Len(s)]
            BY <1>1, <2>1, <3>1
        <3> QED BY <1>1, <3>1, <3>2 DEF Entries
    <2> QED BY <1>1, <2>1, <2>2, <2>3
<1>3. ASSUME NEW x \in Entries(s) PROVE x \in Entries(s \o t)
    <2>1. PICK i \in 1..Len(s) : x = s[i]
        BY <1>1, <1>3 DEF Entries
    <2>2. i \in DOMAIN (s \o t) /\ (s \o t)[i] = x
        BY <1>1, <2>1
    <2> QED BY <2>2 DEF Entries
<1>4. ASSUME NEW x \in Entries(t) PROVE x \in Entries(s \o t)
    <2>1. PICK i \in 1..Len(t) : x = t[i]
        BY <1>1, <1>4 DEF Entries
    <2>2. Len(s) + i \in DOMAIN (s \o t) /\ (s \o t)[Len(s) + i] = x
        BY <1>1, <2>1
    <2> QED BY <2>2 DEF Entries
<1> QED BY <1>2, <1>3, <1>4

\* What is in a sequence is at its head, or in its tail.
LEMMA HeadOrTail ==
    ASSUME NEW S, NEW s \in Seq(S), s # <<>>
    PROVE  Entries(s) \subseteq Entries(Tail(s)) \cup {Head(s)}
<1>1. /\ Len(s) \in Nat /\ Head(s) = s[1] /\ DOMAIN s = 1..Len(s)
      /\ DOMAIN Tail(s) = 1..(Len(s) - 1) /\ \A i \in 1..(Len(s) - 1) : Tail(s)[i] = s[i + 1]
    <2>1. Tail(s) \in Seq(S) /\ Len(Tail(s)) = Len(s) - 1
        OBVIOUS
    <2> QED BY <2>1
<1>2. ASSUME NEW i \in 1..Len(s), i # 1 PROVE s[i] \in Entries(Tail(s))
    <2>1. i - 1 \in 1..(Len(s) - 1) /\ (i - 1) + 1 = i
        BY <1>1, <1>2
    <2>2. Tail(s)[i - 1] = s[i]
        BY <1>1, <2>1
    <2> QED BY <1>1, <2>1, <2>2 DEF Entries
<1> QED BY <1>1, <1>2 DEF Entries

LEMMA ListedStep == Listed /\ [Next]_vars => Listed'
<1> SUFFICES ASSUME Listed, [Next]_vars PROVE Listed'
    OBVIOUS
<1> USE DEF Listed
<1>1. CASE Process \/ User
    BY <1>1 DEF Process, Crash, Restart, Tick, Halt, User, AddQueue, DiscardDraft
<1>2. CASE Sender
    <2>1. CASE TakeRec \/ Pulse \/ PulseDone \/ TakeConn \/ Wakeup
        BY <2>1 DEF TakeRec, Pulse, PulseDone, TakeConn, Wakeup
    <2>2. CASE SendRecord \/ SkipRecord \/ SendQuit \/ ReleaseConn
        BY <2>2 DEF SendRecord, SkipRecord, SendQuit, ReleaseConn, Halt
    <2>3. CASE TakeAck \/ SkipAck \/ AckTimeout
        BY <2>3 DEF TakeAck, SkipAck, AckTimeout
    <2> QED BY <1>2, <2>1, <2>2, <2>3 DEF Sender
<1>3. CASE Receiver
    <2>1. CASE StartDial \/ Connect \/ LoginOk \/ LoginFails
        BY <2>1 DEF StartDial, Connect, LoginOk, LoginFails, Hangup
    <2>2. CASE ReadAck \/ StoreAck \/ StoreAckPanic
        BY <2>2 DEF ReadAck, StoreAck, StoreAckPanic, Halt
    <2>3. CASE ReadPost \/ PostList \/ PostAck
        BY <2>3 DEF ReadPost, PostList, PostAck
    <2>4. CASE ReadFails \/ CloseLink \/ IdleTimeout \/ IdleResume
        BY <2>4 DEF ReadFails, CloseLink, IdleTimeout, IdleResume, Hangup
    <2> QED BY <1>3, <2>1, <2>2, <2>3, <2>4 DEF Receiver
<1>4. CASE Server
    BY <1>4 DEF Server, ServerAnswer, ServerPost, LinkBreaks, Joined
<1>5. CASE UNCHANGED vars
    BY <1>5 DEF vars
<1> QED BY <1>1, <1>2, <1>3, <1>4, <1>5 DEF Next

LEMMA SubmittedFrame ==
    ASSUME Submitted, UNCHANGED subs,
           sendQ' \cup Entries(buf') \cup held' \cup ({cur'} \ {None})
             \cup Entries(toSrv') \cup Entries(seen') \subseteq Around
    PROVE  Submitted'
BY DEF Submitted, Around

LEMMA SubmittedHalt ==
    ASSUME Submitted, NEW f, Halt(f), UNCHANGED <<sendQ, subs, seen>>
    PROVE  Submitted'
BY EmptyEntries, SubmittedFrame DEF Halt, Around

\* What is queued is counted.
LEMMA SubmittedEnqueue ==
    ASSUME TypeOK, Submitted, NEW R \in SUBSET Rec, Enqueue(R),
           sendQ' \cup Entries(buf') \cup held' \cup ({cur'} \ {None})
             \cup Entries(toSrv') \cup Entries(seen') \subseteq Around \cup R,
           Around \subseteq Rec
    PROVE  Submitted'
<1>1. \A r \in Rec : subs[r] \in Nat /\ subs'[r] = IF r \in R THEN subs[r] + 1 ELSE subs[r]
    BY SendQueueAssumption DEF TypeOK, Enqueue
<1>2. \A r \in Around \cup R : subs'[r] > 0
    BY <1>1 DEF Submitted
<1> QED BY <1>2 DEF Submitted, Around

LEMMA AroundType == TypeOK => Around \subseteq Rec
BY DEF TypeOK, Around, Entries, Rec

LEMMA SubmittedStep == TypeOK /\ Submitted /\ [Next]_vars => Submitted'
<1> SUFFICES ASSUME TypeOK, Submitted, [Next]_vars PROVE Submitted'
    OBVIOUS
<1> USE DEF Around
<1>1. CASE Process
    <2>1. CASE Crash
        BY <2>1, SubmittedHalt DEF Crash
    <2>2. CASE Restart
        <3>1. Entries(buf') = sendQ
            BY <2>2, OrdersEntries DEF Restart, TypeOK
        <3> QED BY <2>2, <3>1, SubmittedFrame DEF Restart
    <2>3. CASE Tick
        BY <2>3, SubmittedFrame DEF Tick
    <2> QED BY <1>1, <2>1, <2>2, <2>3 DEF Process
<1>2. ASSUME NEW r \in Rec, AddQueue(r) PROVE Submitted'
    <2>1. Entries(buf') = Entries(buf) \cup {r}
        BY <1>2, AppendEntries DEF AddQueue, TypeOK
    <2>2. /\ Enqueue({r}) /\ sendQ' = sendQ \cup {r}
          /\ UNCHANGED <<held, cur, toSrv, seen>>
        BY <1>2 DEF AddQueue, Enqueue
    <2> QED BY <2>1, <2>2, AroundType, SubmittedEnqueue
<1>3. ASSUME NEW r \in Rec, DiscardDraft(r) PROVE Submitted'
    BY <1>3, SubmittedFrame DEF DiscardDraft
<1>4. CASE Sender
    <2>1. CASE TakeRec
        <3>1. cur' \in Entries(buf) /\ Entries(buf') \subseteq Entries(buf)
            BY <2>1, TailEntries DEF TakeRec, TypeOK
        <3> QED BY <2>1, <3>1, SubmittedFrame DEF TakeRec
    <2>2. CASE SendRecord
        <3>1. cur \in Rec /\ toSrv \in Seq(Rec) /\ cur # None
            BY <2>2 DEF TypeOK, SendRecord
        <3>2. Entries(toSrv') \subseteq Entries(toSrv) \cup {cur}
            BY <2>2, <3>1, AppendEntries DEF SendRecord
        <3> QED BY <2>2, <3>1, <3>2, SubmittedFrame DEF SendRecord
    <2>3. CASE SendQuit
        BY <2>3, SubmittedHalt DEF SendQuit
    <2>4. CASE SkipRecord \/ TakeAck
        BY <2>4, SubmittedFrame DEF SkipRecord, TakeAck
    <2>5. CASE Pulse \/ PulseDone \/ TakeConn \/ Wakeup
        BY <2>5, SubmittedFrame DEF Pulse, PulseDone, TakeConn, Wakeup
    <2>6. CASE ReleaseConn \/ SkipAck \/ AckTimeout
        BY <2>6, SubmittedFrame DEF ReleaseConn, SkipAck, AckTimeout
    <2> QED BY <1>4, <2>1, <2>2, <2>3, <2>4, <2>5, <2>6 DEF Sender
<1>5. CASE Receiver
    <2>1. CASE StartDial \/ Connect \/ LoginOk \/ ReadAck
        BY <2>1, SubmittedFrame DEF StartDial, Connect, LoginOk, ReadAck
    <2>2. CASE LoginFails \/ CloseLink \/ IdleTimeout
        BY <2>2, EmptyEntries, SubmittedFrame DEF LoginFails, CloseLink, IdleTimeout, Hangup
    <2>3. CASE StoreAck
        BY <2>3, SubmittedFrame DEF StoreAck
    <2>4. CASE StoreAckPanic
        BY <2>4, SubmittedHalt DEF StoreAckPanic
    <2>5. CASE ReadPost
        <3>1. CASE UNCHANGED <<sendQ, date, subs, held>>
            BY <2>5, <3>1, SubmittedFrame DEF ReadPost
        <3>2. ASSUME NEW R \in SUBSET {r \in Confirms \ sendQ : subs[r] < MaxSubmit},
                     Enqueue(R), held' = R
              PROVE  Submitted'
            <4>1. R \in SUBSET Rec
                BY DEF Rec
            <4>2. sendQ' = sendQ \cup R /\ UNCHANGED <<buf, cur, toSrv, seen>>
                BY <2>5, <3>2 DEF ReadPost, Enqueue
            <4> QED BY <3>2, <4>1, <4>2, AroundType, SubmittedEnqueue
        <3> QED BY <2>5, <3>1, <3>2 DEF ReadPost
    <2>6. CASE PostList
        <3>1. PICK b \in Orders(held) : buf' = buf \o b
            BY <2>6 DEF PostList
        <3>2. held \in SUBSET Rec
            BY DEF TypeOK, Rec
        <3>3. Entries(buf') = Entries(buf) \cup held
            <4>1. Entries(b) = held /\ b \in Seq(Rec)
                BY <3>2, OrdersEntries, OrdersType
            <4>2. buf \in Seq(Rec)
                BY DEF TypeOK
            <4> QED BY <3>1, <4>1, <4>2, ConcatEntries
        <3> QED BY <2>6, <3>3, SubmittedFrame DEF PostList
    <2>7. CASE PostAck \/ ReadFails \/ IdleResume
        BY <2>7, SubmittedFrame DEF PostAck, ReadFails, IdleResume
    <2> QED BY <1>5, <2>1, <2>2, <2>3, <2>4, <2>5, <2>6, <2>7 DEF Receiver
<1>6. CASE Server
    <2>1. CASE ServerAnswer
        BY <2>1, AnswerEntries, SubmittedFrame DEF ServerAnswer
    <2>2. CASE ServerPost \/ LinkBreaks
        BY <2>2, SubmittedFrame DEF ServerPost, LinkBreaks
    <2>3. ASSUME NEW r \in Rec, Joined(r) PROVE Submitted'
        BY <2>3, SubmittedFrame DEF Joined
    <2> QED BY <1>6, <2>1, <2>2, <2>3 DEF Server
<1>7. CASE UNCHANGED vars
    BY <1>7, SubmittedFrame DEF vars
<1> QED BY <1>1, <1>2, <1>3, <1>4, <1>5, <1>6, <1>7 DEF Next, User

\* Both are kept by a step that keeps the places of records and of acks, or loses
\* some that are not there any more.
LEMMA WayFrame ==
    ASSUME OnItsWay, Retiring,
           sendQ' \subseteq sendQ, Entries(ackCh') \subseteq Entries(ackCh),
           Entries(buf) \subseteq Entries(buf'), Entries(seen) \subseteq Entries(seen'),
           payload' \subseteq payload, held \subseteq Entries(buf') \cup held', up' => up,
           cur' = cur \/ cur \notin sendQ' \/ cur = None,
           rpc' = rpc \/ rpc # "store", rmsg' = rmsg, None \notin sendQ
    PROVE  OnItsWay' /\ Retiring'
<1>1. OnItsWay'
    BY DEF OnItsWay, Zombie
<1>2. Retiring'
    BY DEF Retiring, Zombie
<1> QED BY <1>1, <1>2

\* And by the end of the process.
LEMMA WayHalt ==
    ASSUME NEW f, Halt(f)
    PROVE  OnItsWay' /\ Retiring'
<1>1. ~up' /\ Entries(ackCh') = {}
    BY EmptyEntries DEF Halt
<1> QED BY <1>1 DEF OnItsWay, Retiring

\* With one submission of each record, what is queued was nowhere before.
LEMMA OnceQueued ==
    ASSUME MaxSubmit = 1, TypeOK, Submitted, NEW r \in Rec, subs[r] < MaxSubmit
    PROVE  r \notin Around /\ r \notin Entries(seen)
<1>1. subs[r] \in 0..MaxSubmit
    BY DEF TypeOK
<1>2. ~(subs[r] > 0)
    BY <1>1
<1> QED BY <1>2 DEF Submitted, Around

LEMMA WayStep ==
    ASSUME MaxSubmit = 1, TypeOK, AcksBacked, AcksSeen, Listed, Submitted, OnItsWay, Retiring,
           [Next]_vars
    PROVE  OnItsWay' /\ Retiring'
<1>0. None \notin sendQ /\ None \notin Rec
    BY SendQueueAssumption DEF TypeOK
<1>1. CASE Process
    <2>1. CASE Crash
        BY <2>1, WayHalt DEF Crash
    <2>2. CASE Restart
        <3>1. Entries(buf') = sendQ' /\ UNCHANGED <<sendQ, ackCh, payload, rpc, rmsg>>
            BY <2>2, OrdersEntries DEF Restart, TypeOK
        <3> QED BY <3>1 DEF OnItsWay, Retiring, Zombie
    <2>3. CASE Tick
        BY <1>0, <2>3, WayFrame DEF Tick
    <2> QED BY <1>1, <2>1, <2>2, <2>3 DEF Process
\* A record is queued once: no ack of an earlier attempt waits for the sender.
<1>2. ASSUME NEW r \in Rec, AddQueue(r) PROVE OnItsWay' /\ Retiring'
    <2>1. Entries(buf') = Entries(buf) \cup {r} /\ sendQ' = sendQ \cup {r}
        BY <1>2, AppendEntries DEF AddQueue, Enqueue, TypeOK
    <2>2. r \notin Entries(seen)
        BY <1>2, OnceQueued DEF AddQueue
    <2>3. UNCHANGED <<up, payload, cur, held, rpc, rmsg, seen, ackCh>>
        BY <1>2 DEF AddQueue
    <2>4. OnItsWay'
        BY <2>1, <2>3 DEF OnItsWay, Zombie
    <2>5. Retiring'
        BY <2>1, <2>2, <2>3 DEF Retiring, Zombie, AcksSeen
    <2> QED BY <2>4, <2>5
<1>3. ASSUME NEW r \in Rec, DiscardDraft(r) PROVE OnItsWay' /\ Retiring'
    BY <1>0, <1>3, WayFrame DEF DiscardDraft
<1>4. CASE Sender
    <2>1. CASE TakeRec
        <3>1. cur = None
            BY <2>1 DEF TypeOK, TakeRec
        <3>2. Entries(buf) \subseteq Entries(buf') \cup {cur'}
            <4>1. buf \in Seq(Rec) /\ cur' = Head(buf) /\ buf' = Tail(buf) /\ buf # <<>>
                BY <2>1 DEF TypeOK, TakeRec
            <4> QED BY <4>1, HeadOrTail
        <3>3. UNCHANGED <<sendQ, up, payload, held, rpc, rmsg, seen, ackCh>>
            BY <2>1 DEF TakeRec
        <3> QED BY <1>0, <3>1, <3>2, <3>3 DEF OnItsWay, Retiring, Zombie
    <2>2. CASE SkipRecord
        BY <1>0, <2>2, WayFrame DEF SkipRecord
    <2>3. CASE SendQuit
        BY <2>3, WayHalt DEF SendQuit
    <2>4. CASE TakeAck
        <3>1. cur \in Entries(ackCh) /\ Entries(ackCh') \subseteq Entries(ackCh)
            BY <2>4, TailEntries DEF TakeAck, TypeOK
        <3>2. cur \in sendQ => (Zombie(cur) /\ cur \in Entries(seen)) \/ (rpc = "store" /\ rmsg.rec = cur)
            BY <3>1 DEF Retiring, AcksSeen
        <3>3. UNCHANGED <<sendQ, up, payload, held, rpc, rmsg, seen, buf>>
            BY <2>4 DEF TakeAck
        <3> QED BY <3>1, <3>2, <3>3 DEF OnItsWay, Retiring, Zombie
    <2>5. CASE SkipAck
        <3>1. Entries(ackCh') \subseteq Entries(ackCh)
            BY <2>5, TailEntries DEF SkipAck, TypeOK
        <3> QED BY <1>0, <2>5, <3>1, WayFrame DEF SkipAck
    <2>6. CASE Pulse \/ PulseDone \/ TakeConn \/ Wakeup
        BY <1>0, <2>6, WayFrame DEF Pulse, PulseDone, TakeConn, Wakeup
    <2>7. CASE SendRecord \/ ReleaseConn \/ AckTimeout
        BY <1>0, <2>7, WayFrame DEF SendRecord, ReleaseConn, AckTimeout
    <2> QED BY <1>4, <2>1, <2>2, <2>3, <2>4, <2>5, <2>6, <2>7 DEF Sender
<1>5. CASE Receiver
    <2>1. CASE StartDial \/ Connect \/ LoginOk \/ LoginFails
        BY <1>0, <2>1, WayFrame DEF StartDial, Connect, LoginOk, LoginFails, Hangup
    \* The ack is in the channel before it is handled: its record goes next.
    <2>2. CASE ReadAck
        <3>1. UNCHANGED <<sendQ, up, payload, cur, held, seen, buf>>
              /\ rpc' = "store" /\ rpc = "read" /\ rmsg' = Head(toCli)
            BY <2>2 DEF ReadAck
        <3>2. Entries(ackCh') \subseteq Entries(ackCh) \cup {rmsg'.rec}
            <4>1. Head(toCli) \in Ack /\ Head(toCli).rec # None /\ ackCh \in Seq(Rec)
                BY <2>2, TailEntries DEF ReadAck, TypeOK
            <4>2. Head(toCli).rec \in Rec
                BY <4>1 DEF Ack
            <4>3. Entries(Append(ackCh, Head(toCli).rec)) = Entries(ackCh) \cup {Head(toCli).rec}
                BY <4>1, <4>2, AppendEntries
            <4>4. ackCh' = ackCh \/ ackCh' = Append(ackCh, Head(toCli).rec)
                BY <2>2 DEF ReadAck
            <4> QED BY <3>1, <4>3, <4>4
        <3>3. OnItsWay'
            BY <3>1 DEF OnItsWay, Zombie
        <3>4. Retiring'
            BY <3>1, <3>2 DEF Retiring, Zombie
        <3> QED BY <3>3, <3>4
    <2>3. CASE StoreAck
        <3>1. UNCHANGED <<up, cur, held, seen, buf, ackCh>> /\ sendQ' \subseteq sendQ
              /\ payload' \subseteq payload
            BY <2>3 DEF StoreAck
        <3>2. ASSUME rmsg.rec \in sendQ' PROVE rmsg.rec \in Drafts \ payload' /\ rmsg.rec \in Entries(seen)
            <4>1. rmsg.ok /\ rmsg.rec \in Drafts \ payload
                BY <2>3, <3>2 DEF StoreAck
            <4>2. rmsg.rec # None
                BY <1>0, <4>1 DEF Rec
            <4>3. rmsg.rec \in Entries(seen)
                BY <4>2 DEF AcksBacked, Backed
            <4> QED BY <3>1, <4>1, <4>3
        <3>3. ASSUME NEW r \in sendQ'
              PROVE  \/ ~up' \/ (Zombie(r)' /\ r \in Entries(seen'))
                     \/ r = cur' \/ r \in Entries(buf') \cup held'
            <4>1. CASE r = rmsg.rec
                BY <3>1, <3>2, <3>3, <4>1 DEF Zombie
            <4>2. CASE r # rmsg.rec
                BY <3>1, <3>3, <4>2 DEF OnItsWay, Zombie
            <4> QED BY <4>1, <4>2
        <3>4. ASSUME NEW r \in Entries(ackCh') \cap sendQ' PROVE Zombie(r)'
            <4>1. CASE r = rmsg.rec
                BY <3>2, <3>4, <4>1 DEF Zombie
            <4>2. CASE r # rmsg.rec
                BY <3>1, <3>4, <4>2 DEF Retiring, Zombie
            <4> QED BY <4>1, <4>2
        <3>5. OnItsWay' /\ Retiring'
            BY <3>3, <3>4 DEF OnItsWay, Retiring
        <3> QED BY <3>5
    <2>4. CASE StoreAckPanic
        BY <2>4, WayHalt DEF StoreAckPanic
    <2>5. CASE ReadPost
        <3>1. /\ rpc = "read" /\ rpc' \in {"post", "list"} /\ held = {}
              /\ UNCHANGED <<up, payload, cur, rmsg, seen, buf, ackCh>>
            BY <2>5 DEF ReadPost, Listed
        <3>2. CASE UNCHANGED <<sendQ, held>>
            BY <1>0, <3>1, <3>2, WayFrame
        <3>3. ASSUME NEW R \in SUBSET {r \in Confirms \ sendQ : subs[r] < MaxSubmit},
                     Enqueue(R), held' = R
              PROVE  OnItsWay' /\ Retiring'
            <4>1. sendQ' = sendQ \cup R
                BY <3>3 DEF Enqueue
            <4>2. ASSUME NEW r \in R PROVE r \notin Entries(seen)
                BY OnceQueued DEF Rec
            <4>3. OnItsWay'
                BY <3>1, <3>3, <4>1 DEF OnItsWay, Zombie
            <4>4. Retiring'
                BY <3>1, <4>1, <4>2 DEF Retiring, Zombie, AcksSeen
            <4> QED BY <4>3, <4>4
        <3> QED BY <2>5, <3>2, <3>3 DEF ReadPost
    <2>6. CASE PostList
        <3>1. PICK b \in Orders(held) : buf' = buf \o b
            BY <2>6 DEF PostList
        <3>2. held \in SUBSET Rec
            BY DEF TypeOK, Rec
        <3>3. Entries(buf') = Entries(buf) \cup held
            <4>1. Entries(b) = held /\ b \in Seq(Rec)
                BY <3>2, OrdersEntries, OrdersType
            <4>2. buf \in Seq(Rec)
                BY DEF TypeOK
            <4> QED BY <3>1, <4>1, <4>2, ConcatEntries
        <3> QED BY <1>0, <2>6, <3>3, WayFrame DEF PostList
    <2>7. CASE PostAck \/ ReadFails \/ IdleResume
        BY <1>0, <2>7, WayFrame DEF PostAck, ReadFails, IdleResume
    <2>8. CASE CloseLink \/ IdleTimeout
        BY <1>0, <2>8, WayFrame DEF CloseLink, IdleTimeout, Hangup
    <2> QED BY <1>5, <2>1, <2>2, <2>3, <2>4, <2>5, <2>6, <2>7, <2>8 DEF Receiver
<1>6. CASE Server
    <2>1. CASE ServerAnswer
        BY <1>0, <2>1, AnswerEntries, WayFrame DEF ServerAnswer
    <2>2. CASE ServerPost \/ LinkBreaks
        BY <1>0, <2>2, WayFrame DEF ServerPost, LinkBreaks
    <2>3. ASSUME NEW r \in Rec, Joined(r) PROVE OnItsWay' /\ Retiring'
        BY <1>0, <2>3, WayFrame DEF Joined
    <2> QED BY <1>6, <2>1, <2>2, <2>3 DEF Server
<1>7. CASE UNCHANGED vars
    BY <1>0, <1>7, WayFrame DEF vars
<1> QED BY <1>1, <1>2, <1>3, <1>4, <1>5, <1>6, <1>7 DEF Next, User

\* Where the records of the queue are, when each is queued once.
Way == Listed /\ Submitted /\ OnItsWay
LEMMA WayInvariant == ASSUME MaxSubmit = 1 PROVE Spec => []Way
<1>1. Init => /\ AcksSeen /\ InFlightHeld /\ Listed /\ Submitted /\ OnItsWay /\ Retiring
    BY EmptyEntries
       DEF Init, AcksSeen, InFlightHeld, Listed, Submitted, Around, OnItsWay, Retiring
<1>2. TypeOK /\ AcksBacked /\ AcksSeen /\ Listed /\ Submitted /\ OnItsWay /\ Retiring /\ [Next]_vars
          => OnItsWay' /\ Retiring'
    BY WayStep
<1>3. Listed /\ Submitted /\ OnItsWay => Way
    BY DEF Way
<1> QED BY <1>1, <1>2, <1>3, HeldStep, ListedStep, SubmittedStep, TypeCorrect, AcksSound, PTL
        DEF Spec

\* NoneForgotten, when each record is queued once: a record that is in sendQ and still
\* has something to send is in the channel, with the sender, or being retired.
THEOREM NoneLost == ASSUME MaxSubmit = 1 PROVE Spec => []NoneForgotten
<1>1. Way => NoneForgotten
    BY DEF Way, OnItsWay, NoneForgotten
<1> QED BY <1>1, WayInvariant, PTL

-----------------------------------------------------------------------------
(* The server first reads records in the order they were queued *)

\* While the process is down nothing is connected and nothing is on its way.
Stopped == ~up => link = "none" /\ toSrv = <<>> /\ cur = None /\ buf = <<>>

\* With the dates d, x was queued no later than y; confirmations are free, and there
\* is no record before the first.  When the server has read S, y may be new to it
\* while x is only after x.
Free == Confirms \cup {None}
Ordered(d, x, y) == {x, y} \cap Free = {} => d[x] <= d[y]
Precedes(d, S, x, y) == x \in S \/ y \in S \/ Ordered(d, x, y)
Sorted(d, S, s) == \A i, j \in DOMAIN s : i < j => Precedes(d, S, s[i], s[j])

\* What the server has read was queued no later than what it has yet to read, and
\* the records on their way to it are sorted: in flight, then held by the sender,
\* then in the channel.
SeenFirst ==
    \A x \in Entries(seen) : \A y \in sendQ \cup Entries(toSrv) \cup Entries(buf) \cup {cur} :
        y \in Entries(seen) \/ Ordered(date, x, y)
SentFirst ==
    \A x \in Entries(toSrv) : \A y \in Entries(buf) \cup {cur} :
        Precedes(date, Entries(seen), x, y)
HeldFirst == \A y \in Entries(buf) : Precedes(date, Entries(seen), cur, y)
InOrder ==
    /\ FirstReadInOrder /\ SeenFirst /\ SentFirst /\ HeldFirst
    /\ Sorted(date, Entries(seen), toSrv) /\ Sorted(date, Entries(seen), buf)

\* No record is dated later than now.
Dated == \A r \in Rec : date[r] <= now

LEMMA StoppedStep == Stopped /\ [Next]_vars => Stopped'
<1> SUFFICES ASSUME Stopped, [Next]_vars PROVE Stopped'
    OBVIOUS
<1> USE DEF Stopped
<1>1. CASE Process \/ User
    <2>1. CASE Crash \/ Restart \/ Tick
        BY <2>1 DEF Crash, Restart, Tick, Halt
    <2>2. ASSUME NEW r \in Rec, AddQueue(r) \/ DiscardDraft(r) PROVE Stopped'
        BY <2>2 DEF AddQueue, DiscardDraft
    <2> QED BY <1>1, <2>1, <2>2 DEF Process, User
<1>2. CASE Sender
    <2>1. CASE TakeRec \/ Pulse \/ PulseDone \/ TakeConn \/ Wakeup
        BY <2>1 DEF TakeRec, Pulse, PulseDone, TakeConn, Wakeup, SenderFree
    <2>2. CASE SendRecord \/ SkipRecord \/ SendQuit \/ ReleaseConn
        BY <2>2 DEF SendRecord, SkipRecord, SendQuit, ReleaseConn, Halt
    <2>3. CASE TakeAck \/ SkipAck \/ AckTimeout
        BY <2>3 DEF TakeAck, SkipAck, AckTimeout, SenderFree
    <2> QED BY <1>2, <2>1, <2>2, <2>3 DEF Sender
<1>3. CASE Receiver
    <2>1. CASE StartDial \/ Connect \/ LoginOk \/ LoginFails
        BY <2>1 DEF StartDial, Connect, LoginOk, LoginFails, Hangup
    <2>2. CASE ReadAck \/ StoreAck \/ StoreAckPanic
        BY <2>2 DEF ReadAck, StoreAck, StoreAckPanic, Halt
    <2>3. CASE ReadPost \/ PostList \/ PostAck
        BY <2>3 DEF ReadPost, PostList, PostAck
    <2>4. CASE ReadFails \/ CloseLink \/ IdleTimeout \/ IdleResume
        BY <2>4 DEF ReadFails, CloseLink, IdleTimeout, IdleResume, Hangup
    <2> QED BY <1>3, <2>1, <2>2, <2>3, <2>4 DEF Receiver
<1>4. CASE Server
    BY <1>4 DEF Server, ServerAnswer, ServerPost, LinkBreaks, Joined
<1>5. CASE UNCHANGED vars
    BY <1>5 DEF vars
<1> QED BY <1>1, <1>2, <1>3, <1>4, <1>5 DEF Next

\* The clock dates a record when it is queued, and never goes back.
LEMMA DatedStep == TypeOK /\ Dated /\ [Next]_vars => Dated'
<1> SUFFICES ASSUME TypeOK, Dated, [Next]_vars PROVE Dated'
    OBVIOUS
<1>0. now \in Nat /\ \A r \in Rec : date[r] \in Nat
    BY SendQueueAssumption DEF TypeOK
<1>1. ASSUME UNCHANGED date, now' = now \/ now' = now + 1 PROVE Dated'
    BY <1>0, <1>1 DEF Dated
<1>2. ASSUME NEW R, Enqueue(R), now' = now PROVE Dated'
    BY <1>0, <1>2 DEF Dated, Enqueue
<1>3. CASE Process
    BY <1>1, <1>3 DEF Process, Crash, Restart, Tick
<1>4. CASE User
    BY <1>1, <1>2, <1>4 DEF User, AddQueue, DiscardDraft
<1>5. CASE Sender
    <2>1. CASE TakeRec \/ Pulse \/ PulseDone \/ TakeConn \/ Wakeup
        BY <1>1, <2>1 DEF TakeRec, Pulse, PulseDone, TakeConn, Wakeup
    <2>2. CASE SendRecord \/ SkipRecord \/ SendQuit \/ ReleaseConn
        BY <1>1, <2>2 DEF SendRecord, SkipRecord, SendQuit, ReleaseConn
    <2>3. CASE TakeAck \/ SkipAck \/ AckTimeout
        BY <1>1, <2>3 DEF TakeAck, SkipAck, AckTimeout
    <2> QED BY <1>5, <2>1, <2>2, <2>3 DEF Sender
<1>6. CASE Receiver
    <2>1. CASE StartDial \/ Connect \/ LoginOk \/ LoginFails
        BY <1>1, <2>1 DEF StartDial, Connect, LoginOk, LoginFails
    <2>2. CASE ReadAck \/ StoreAck \/ StoreAckPanic
        BY <1>1, <2>2 DEF ReadAck, StoreAck, StoreAckPanic
    <2>3. CASE ReadPost
        BY <1>1, <1>2, <2>3 DEF ReadPost
    <2>4. CASE PostList \/ PostAck
        BY <1>1, <2>4 DEF PostList, PostAck
    <2>5. CASE ReadFails \/ CloseLink \/ IdleTimeout \/ IdleResume
        BY <1>1, <2>5 DEF ReadFails, CloseLink, IdleTimeout, IdleResume
    <2> QED BY <1>6, <2>1, <2>2, <2>3, <2>4, <2>5 DEF Receiver
<1>7. CASE Server
    BY <1>1, <1>7 DEF Server, ServerAnswer, ServerPost, LinkBreaks, Joined
<1>8. CASE UNCHANGED vars
    BY <1>1, <1>8 DEF vars
<1> QED BY <1>3, <1>4, <1>5, <1>6, <1>7, <1>8 DEF Next

\* The order outlives other dates of the confirmations, and more reads.
LEMMA PrecedesKept ==
    ASSUME NEW d, NEW e, \A r \in Rec \ Confirms : e[r] = d[r], NEW S, NEW T, S \subseteq T,
           NEW x \in Rec \cup {None}, NEW y \in Rec \cup {None}, Precedes(d, S, x, y)
    PROVE  Precedes(e, T, x, y)
BY DEF Precedes, Ordered, Free

LEMMA SortedKept ==
    ASSUME NEW d, NEW e, \A r \in Rec \ Confirms : e[r] = d[r], NEW S, NEW T, S \subseteq T,
           NEW s \in Seq(Rec), Sorted(d, S, s)
    PROVE  Sorted(e, T, s)
<1> SUFFICES ASSUME NEW i \in DOMAIN s, NEW j \in DOMAIN s, i < j
             PROVE  Precedes(e, T, s[i], s[j])
    BY DEF Sorted
<1>1. s[i] \in Rec /\ s[j] \in Rec /\ Precedes(d, S, s[i], s[j])
    BY DEF Sorted
<1> QED BY <1>1, PrecedesKept

\* Where records are.
LEMMA PlaceTypes ==
    ASSUME TypeOK
    PROVE  /\ Entries(seen) \subseteq Rec /\ Entries(toSrv) \subseteq Rec
           /\ Entries(buf) \subseteq Rec /\ sendQ \subseteq Rec /\ cur \in Rec \cup {None}
           /\ None \notin Rec
<1>1. ASSUME NEW s \in Seq(Rec) PROVE Entries(s) \subseteq Rec
    BY DEF Entries
<1> QED BY <1>1, SendQueueAssumption DEF TypeOK

\* The order is kept by a step that loses places, or dates a confirmation.
LEMMA OrderFrame ==
    ASSUME TypeOK, InOrder, UNCHANGED seen,
           \A r \in Rec \ Confirms : date'[r] = date[r],
           sendQ' \subseteq sendQ \cup Confirms,
           cur' = cur \/ cur' = None, toSrv' = toSrv \/ toSrv' = <<>>,
           buf' = buf \/ buf' = <<>>
    PROVE  InOrder'
<1> DEFINE S == Entries(seen)
<1>1. FirstReadInOrder'
    <2>1. \A i \in DOMAIN seen : seen[i] \in Rec
        BY DEF TypeOK
    <2> QED BY <2>1 DEF InOrder, FirstReadInOrder
<1>2. SeenFirst'
    <2>1. ASSUME NEW x \in Entries(seen),
                 NEW y \in sendQ' \cup Entries(toSrv') \cup Entries(buf') \cup {cur'}
          PROVE  y \in Entries(seen) \/ Ordered(date', x, y)
        <3>1. CASE y \in Free
            BY <3>1 DEF Ordered
        <3>2. CASE y \notin Free
            <4>1. y \in sendQ \cup Entries(toSrv) \cup Entries(buf) \cup {cur}
                BY <2>1, <3>2, EmptyEntries DEF Free
            <4>2. y \in Entries(seen) \/ Ordered(date, x, y)
                BY <2>1, <4>1 DEF InOrder, SeenFirst
            <4>3. x \in Rec /\ y \in Rec
                BY <3>2, <4>1, PlaceTypes DEF Free
            <4> QED BY <4>2, <4>3 DEF Ordered, Free
        <3> QED BY <3>1, <3>2
    <2> QED BY <2>1 DEF SeenFirst
<1>3. Sorted(date', S, toSrv') /\ Sorted(date', S, buf')
    <2>1. Sorted(date', S, toSrv) /\ Sorted(date', S, buf)
        BY SortedKept DEF TypeOK, InOrder
    <2>2. Sorted(date', S, <<>>)
        BY DEF Sorted
    <2> QED BY <2>1, <2>2
<1>4. ASSUME NEW x, NEW y, x = None \/ y = None PROVE Precedes(date', S, x, y)
    BY <1>4 DEF Precedes, Ordered, Free
<1>5. SentFirst'
    <2>1. ASSUME NEW x \in Entries(toSrv), NEW y \in Entries(buf) \cup {cur}
          PROVE  Precedes(date', S, x, y)
        BY PlaceTypes, PrecedesKept DEF InOrder, SentFirst
    <2> QED BY <1>4, <2>1, EmptyEntries DEF SentFirst
<1>6. HeldFirst'
    <2>1. ASSUME NEW y \in Entries(buf) PROVE Precedes(date', S, cur, y)
        BY PlaceTypes, PrecedesKept DEF InOrder, HeldFirst
    <2> QED BY <1>4, <2>1, EmptyEntries DEF HeldFirst
<1> QED BY <1>1, <1>2, <1>3, <1>5, <1>6 DEF InOrder

LEMMA SortedTail ==
    ASSUME NEW d, NEW S, NEW s \in Seq(Rec), s # <<>>, Sorted(d, S, s)
    PROVE  /\ Sorted(d, S, Tail(s))
           /\ \A y \in Entries(Tail(s)) : Precedes(d, S, Head(s), y)
<1>1. /\ Len(s) \in Nat \ {0} /\ Head(s) = s[1] /\ DOMAIN s = 1..Len(s)
      /\ DOMAIN Tail(s) = 1..(Len(s) - 1) /\ \A i \in 1..(Len(s) - 1) : Tail(s)[i] = s[i + 1]
    <2>1. Tail(s) \in Seq(Rec) /\ Len(Tail(s)) = Len(s) - 1 /\ Len(s) # 0
        OBVIOUS
    <2> QED BY <2>1
<1>2. ASSUME NEW i \in DOMAIN Tail(s), NEW j \in DOMAIN Tail(s), i < j
      PROVE  Precedes(d, S, Tail(s)[i], Tail(s)[j])
    <2>1. i + 1 \in DOMAIN s /\ j + 1 \in DOMAIN s /\ i + 1 < j + 1
        BY <1>1, <1>2
    <2>2. Precedes(d, S, s[i + 1], s[j + 1])
        BY <2>1 DEF Sorted
    <2> QED BY <1>1, <2>2
<1>3. ASSUME NEW y \in Entries(Tail(s)) PROVE Precedes(d, S, Head(s), y)
    <2>1. PICK i \in DOMAIN Tail(s) : y = Tail(s)[i]
        BY DEF Entries
    <2>2. 1 \in DOMAIN s /\ i + 1 \in DOMAIN s /\ 1 < i + 1
        BY <1>1
    <2>3. Precedes(d, S, s[1], s[i + 1])
        BY <2>2 DEF Sorted
    <2> QED BY <1>1, <2>1, <2>3
<1> QED BY <1>2, <1>3 DEF Sorted

LEMMA SortedAppend ==
    ASSUME NEW d, NEW S, NEW s \in Seq(Rec), NEW e \in Rec, Sorted(d, S, s),
           \A x \in Entries(s) : Precedes(d, S, x, e)
    PROVE  Sorted(d, S, Append(s, e))
<1> DEFINE a == Append(s, e)
<1>1. /\ Len(s) \in Nat /\ DOMAIN s = 1..Len(s) /\ DOMAIN a = 1..(Len(s) + 1)
      /\ \A i \in 1..Len(s) : a[i] = s[i]
      /\ a[Len(s) + 1] = e
    OBVIOUS
<1> HIDE DEF a
<1>2. ASSUME NEW i \in DOMAIN a, NEW j \in DOMAIN a, i < j
      PROVE  Precedes(d, S, a[i], a[j])
    <2>1. i \in DOMAIN s /\ a[i] = s[i]
        BY <1>1, <1>2
    <2>2. CASE j \in DOMAIN s
        <3>1. Precedes(d, S, s[i], s[j])
            BY <1>2, <2>1, <2>2 DEF Sorted
        <3> QED BY <1>1, <2>1, <2>2, <3>1
    <2>3. CASE j = Len(s) + 1
        <3>1. s[i] \in Entries(s)
            BY <2>1 DEF Entries
        <3> QED BY <1>1, <2>1, <2>3, <3>1
    <2> QED BY <1>1, <2>2, <2>3
<1> QED BY <1>2 DEF Sorted, a

\* Records that are free may follow any others.
LEMMA SortedFree ==
    ASSUME NEW d, NEW S, NEW s \in Seq(Rec), NEW b \in Seq(Rec), Sorted(d, S, s),
           Entries(b) \subseteq Free
    PROVE  Sorted(d, S, s \o b)
<1> DEFINE a == s \o b
<1>1. /\ Len(s) \in Nat /\ Len(b) \in Nat /\ DOMAIN s = 1..Len(s) /\ DOMAIN b = 1..Len(b)
      /\ DOMAIN a = 1..(Len(s) + Len(b))
      /\ \A i \in 1..Len(s) : a[i] = s[i]
      /\ \A i \in 1..Len(b) : a[Len(s) + i] = b[i]
    OBVIOUS
<1> HIDE DEF a
<1>2. ASSUME NEW j \in DOMAIN a, j \notin DOMAIN s PROVE a[j] \in Free
    <2>1. j - Len(s) \in DOMAIN b /\ Len(s) + (j - Len(s)) = j
        BY <1>1, <1>2
    <2>2. a[j] = b[j - Len(s)]
        BY <1>1, <2>1
    <2> QED BY <2>1, <2>2 DEF Entries
<1>3. ASSUME NEW i \in DOMAIN a, NEW j \in DOMAIN a, i < j
      PROVE  Precedes(d, S, a[i], a[j])
    <2>1. CASE j \in DOMAIN s
        <3>1. i \in DOMAIN s
            BY <1>1, <1>3, <2>1
        <3>2. Precedes(d, S, s[i], s[j])
            BY <1>3, <2>1, <3>1 DEF Sorted
        <3> QED BY <1>1, <2>1, <3>1, <3>2
    <2>2. CASE j \notin DOMAIN s
        BY <1>2, <2>2 DEF Precedes, Ordered
    <2> QED BY <2>1, <2>2
<1> QED BY <1>3 DEF Sorted, a

\* What the client reads back from the file of the queue is sorted by date.
LEMMA SortedOrders ==
    ASSUME NEW S, NEW R \in SUBSET Rec, NEW b \in Orders(R)
    PROVE  Sorted(date, S, b)
<1>1. DOMAIN b = 1..Cardinality(R)
    BY DEF Orders
<1> QED BY <1>1 DEF Sorted, Precedes, Ordered, Orders

LEMMA OrderHalt ==
    ASSUME TypeOK, InOrder, NEW f, Halt(f), UNCHANGED <<disk, history>>
    PROVE  InOrder'
BY OrderFrame DEF Halt

LEMMA OrderRestart == ASSUME TypeOK, Stopped, InOrder, Restart PROVE InOrder'
<1> DEFINE S == Entries(seen)
<1>1. /\ Entries(buf') = sendQ /\ Sorted(date, S, buf')
      /\ cur = None /\ toSrv = <<>> /\ UNCHANGED <<sendQ, date, cur, toSrv, seen>>
    BY OrdersEntries, SortedOrders DEF Restart, TypeOK, Stopped
<1>2. FirstReadInOrder'
    BY <1>1 DEF InOrder, FirstReadInOrder
<1>3. SeenFirst'
    BY <1>1 DEF InOrder, SeenFirst
<1>4. SentFirst' /\ HeldFirst'
    BY <1>1, EmptyEntries DEF SentFirst, HeldFirst, Precedes, Ordered, Free
<1>5. Sorted(date', S, toSrv') /\ Sorted(date', S, buf')
    BY <1>1 DEF InOrder
<1> QED BY <1>1, <1>2, <1>3, <1>4, <1>5 DEF InOrder

\* The record that is queued now is new, and dated later than any other.
LEMMA OrderAddQueue ==
    ASSUME MaxSubmit = 1, TypeOK, Submitted, Dated, InOrder, NEW r \in Rec, AddQueue(r)
    PROVE  InOrder'
<1> DEFINE S == Entries(seen)
<1>1. r \notin Around
    BY OnceQueued DEF AddQueue
<1>2. /\ sendQ' = sendQ \cup {r} /\ buf' = Append(buf, r) /\ Entries(buf') = Entries(buf) \cup {r}
      /\ UNCHANGED <<cur, toSrv, seen>>
    BY AppendEntries DEF AddQueue, Enqueue, TypeOK
<1>3. date'[r] = now /\ \A x \in Rec : x # r => date'[x] = date[x]
    BY DEF AddQueue, Enqueue
<1>4. ASSUME NEW x \in Rec PROVE Ordered(date', x, r)
    <2>1. date[x] <= now /\ now <= now
        BY SendQueueAssumption DEF Dated, TypeOK
    <2>2. date'[x] <= date'[r]
        BY <1>3, <2>1
    <2> QED BY <2>2 DEF Ordered
<1>5. ASSUME NEW x \in Rec \cup {None}, NEW y \in Rec \cup {None}, x # r, y # r,
             Ordered(date, x, y)
      PROVE  Ordered(date', x, y)
    BY <1>3, <1>5 DEF Ordered, Free
<1>6. ASSUME NEW x \in Rec \cup {None}, NEW y \in Rec \cup {None}, x # r, y # r,
             Precedes(date, S, x, y)
      PROVE  Precedes(date', S, x, y)
    BY <1>5, <1>6 DEF Precedes
<1>7. r \notin S /\ r \notin Entries(toSrv) /\ r \notin Entries(buf) /\ r # cur /\ r \notin sendQ
    BY <1>1, PlaceTypes DEF Around
<1>8. FirstReadInOrder'
    <2>1. \A i \in DOMAIN seen : seen[i] \in Rec /\ seen[i] # r
        BY <1>7 DEF TypeOK, Entries
    <2> QED BY <1>2, <1>3, <2>1 DEF InOrder, FirstReadInOrder
<1>9. SeenFirst'
    BY <1>2, <1>4, <1>5, <1>7, PlaceTypes DEF InOrder, SeenFirst
<1>10. Sorted(date', S, toSrv') /\ Sorted(date', S, buf')
    <2>1. ASSUME NEW s \in Seq(Rec), Sorted(date, S, s), r \notin Entries(s)
          PROVE  Sorted(date', S, s)
        <3>1. \A i \in DOMAIN s : s[i] \in Rec /\ s[i] # r
            BY <2>1 DEF Entries
        <3> QED BY <1>6, <2>1, <3>1 DEF Sorted
    <2>2. toSrv \in Seq(Rec) /\ buf \in Seq(Rec)
        BY DEF TypeOK
    <2>3. Sorted(date', S, toSrv) /\ Sorted(date', S, buf)
        BY <1>7, <2>1, <2>2 DEF InOrder
    <2>4. \A x \in Entries(buf) : Precedes(date', S, x, r)
        BY <1>4, PlaceTypes DEF Precedes
    <2>5. Sorted(date', S, Append(buf, r))
        BY <2>2, <2>3, <2>4, SortedAppend
    <2> QED BY <1>2, <2>3, <2>5
<1>11. SentFirst'
    BY <1>2, <1>4, <1>6, <1>7, PlaceTypes DEF InOrder, SentFirst, Precedes
<1>12. HeldFirst'
    BY <1>2, <1>4, <1>6, <1>7, PlaceTypes DEF InOrder, HeldFirst, Precedes, Ordered, Free
<1> QED BY <1>2, <1>8, <1>9, <1>10, <1>11, <1>12 DEF InOrder

LEMMA OrderTakeRec == ASSUME TypeOK, InOrder, TakeRec PROVE InOrder'
<1> DEFINE S == Entries(seen)
<1>1. /\ cur' = Head(buf) /\ buf' = Tail(buf) /\ buf \in Seq(Rec) /\ buf # <<>>
      /\ UNCHANGED <<sendQ, date, toSrv, seen>>
    BY DEF TakeRec, TypeOK
<1>2. cur' \in Entries(buf) /\ Entries(buf') \subseteq Entries(buf)
    BY <1>1, TailEntries
<1>3. Sorted(date', S, toSrv') /\ Sorted(date', S, buf') /\ HeldFirst'
    BY <1>1, SortedTail DEF InOrder, HeldFirst
<1>4. FirstReadInOrder' /\ SeenFirst' /\ SentFirst'
    BY <1>1, <1>2 DEF InOrder, FirstReadInOrder, SeenFirst, SentFirst
<1> QED BY <1>1, <1>3, <1>4 DEF InOrder

LEMMA OrderSendRecord == ASSUME TypeOK, InOrder, SendRecord PROVE InOrder'
<1> DEFINE S == Entries(seen)
<1>1. /\ toSrv' = toSrv \/ toSrv' = Append(toSrv, cur)
      /\ cur \in Rec /\ toSrv \in Seq(Rec)
      /\ UNCHANGED <<sendQ, date, cur, buf, seen>>
    BY DEF SendRecord, TypeOK
<1>2. CASE toSrv' = toSrv
    BY <1>1, <1>2, OrderFrame
<1>3. CASE toSrv' = Append(toSrv, cur)
    <2>1. Entries(toSrv') = Entries(toSrv) \cup {cur}
        BY <1>1, <1>3, AppendEntries
    <2>2. Sorted(date', S, toSrv') /\ Sorted(date', S, buf')
        BY <1>1, <1>3, SortedAppend DEF InOrder, SentFirst
    <2>3. Precedes(date, S, cur, cur)
        BY <1>1, SendQueueAssumption DEF Precedes, Ordered, TypeOK
    <2>4. SentFirst' /\ HeldFirst'
        BY <1>1, <2>1, <2>3 DEF InOrder, SentFirst, HeldFirst
    <2>5. FirstReadInOrder' /\ SeenFirst'
        BY <1>1, <2>1 DEF InOrder, FirstReadInOrder, SeenFirst
    <2> QED BY <1>1, <2>2, <2>4, <2>5 DEF InOrder
<1> QED BY <1>1, <1>2, <1>3

LEMMA OrderPostList == ASSUME TypeOK, InOrder, PostList PROVE InOrder'
<1> DEFINE S == Entries(seen)
<1>1. PICK b \in Orders(held) : buf' = buf \o b
    BY DEF PostList
<1>2. held \subseteq Free /\ held \in SUBSET Rec /\ buf \in Seq(Rec)
    BY DEF TypeOK, Rec, Free
<1>3. b \in Seq(Rec) /\ Entries(b) \subseteq Free
    BY <1>2, OrdersType, OrdersEntries
<1>4. Entries(buf') = Entries(buf) \cup Entries(b)
    BY <1>1, <1>2, <1>3, ConcatEntries
<1>5. UNCHANGED <<sendQ, date, cur, toSrv, seen>>
    BY DEF PostList
<1>6. Sorted(date', S, toSrv') /\ Sorted(date', S, buf')
    BY <1>1, <1>2, <1>3, <1>5, SortedFree DEF InOrder
<1>7. \A x, y : y \in Entries(b) => Ordered(date, x, y)
    BY <1>3 DEF Ordered
<1>8. FirstReadInOrder' /\ SeenFirst' /\ SentFirst' /\ HeldFirst'
    BY <1>4, <1>5, <1>7
       DEF InOrder, FirstReadInOrder, SeenFirst, SentFirst, HeldFirst, Precedes
<1> QED BY <1>5, <1>6, <1>8 DEF InOrder

\* The server reads the first record in flight: what is in sendQ and not on its way
\* behind it is a confirmation, or was read.
LEMMA OrderAnswer ==
    ASSUME TypeOK, AcksBacked, Listed, OnItsWay, Stopped, InOrder, ServerAnswer
    PROVE  InOrder'
<1> DEFINE S == Entries(seen)
           T == Entries(seen')
<1>1. PICK h \in Rec : h = Head(toSrv) /\ h \in Entries(toSrv) /\ T = S \cup {h}
    BY AnswerEntries
<1>2. /\ toSrv \in Seq(Rec) /\ toSrv # <<>> /\ toSrv' = Tail(toSrv)
      /\ seen' = (IF h \in S THEN seen ELSE Append(seen, h))
      /\ UNCHANGED <<sendQ, date, cur, buf>> /\ up /\ link = "up"
    BY <1>1 DEF ServerAnswer, TypeOK, Stopped
<1>3. Entries(toSrv') \subseteq Entries(toSrv)
    BY <1>2, TailEntries
<1>4. /\ Sorted(date, S, Tail(toSrv))
      /\ \A y \in Entries(toSrv') : Precedes(date, S, h, y)
    BY <1>1, <1>2, SortedTail DEF InOrder
<1>5. \A x \in Rec \cup {None}, y \in Rec \cup {None} :
          Precedes(date, S, x, y) => Precedes(date, T, x, y)
    BY <1>1 DEF Precedes
<1>6. Sorted(date', T, toSrv') /\ Sorted(date', T, buf')
    BY <1>1, <1>2, <1>4, SortedKept, TailEntries DEF InOrder, TypeOK
<1>7. SentFirst' /\ HeldFirst'
    BY <1>2, <1>3, <1>5, PlaceTypes DEF InOrder, SentFirst, HeldFirst
<1>8. ASSUME h \notin S,
             NEW y \in sendQ \cup Entries(toSrv') \cup Entries(buf) \cup {cur}, y \notin S
      PROVE  Ordered(date, h, y)
    <2>1. CASE y \in Entries(toSrv') \cup Entries(buf) \cup {cur}
        BY <1>1, <1>4, <1>8, <2>1 DEF InOrder, SentFirst, Precedes
    <2>2. CASE y \in held
        BY <2>2 DEF TypeOK, Ordered, Free
    <2>3. CASE rmsg.rec = y /\ y \in sendQ
        BY <1>8, <2>3, PlaceTypes DEF AcksBacked, Backed
    <2> QED BY <1>2, <1>8, <2>1, <2>2, <2>3 DEF OnItsWay
<1>9. SeenFirst'
    BY <1>1, <1>2, <1>3, <1>8 DEF InOrder, SeenFirst
<1>10. FirstReadInOrder'
    <2>1. CASE h \in S
        BY <1>2, <2>1 DEF InOrder, FirstReadInOrder
    <2>2. CASE h \notin S
        <3>1. /\ seen' = Append(seen, h) /\ DOMAIN seen = 1..Len(seen) /\ Len(seen) \in Nat
              /\ DOMAIN seen' = 1..(Len(seen) + 1) /\ seen'[Len(seen) + 1] = h
              /\ \A i \in 1..Len(seen) : seen'[i] = seen[i]
            <4>1. seen' = Append(seen, h) /\ seen \in Seq(Rec)
                BY <1>2, <2>2 DEF TypeOK
            <4> QED BY <4>1
        <3>2. \A x \in S : Ordered(date, x, h)
            BY <1>1, <2>2 DEF InOrder, SeenFirst
        <3>3. ASSUME NEW i \in DOMAIN seen', NEW j \in DOMAIN seen', i < j,
                     {seen'[i], seen'[j]} \cap Confirms = {}
              PROVE  date[seen'[i]] <= date[seen'[j]]
            <4>1. i \in DOMAIN seen /\ seen'[i] = seen[i] /\ seen[i] \in S /\ seen[i] \in Rec
                <5>1. i \in DOMAIN seen
                    BY <3>1, <3>3
                <5>2. seen[i] \in Rec
                    BY <5>1 DEF TypeOK
                <5> QED BY <3>1, <5>1, <5>2 DEF Entries
            <4>2. CASE j \in DOMAIN seen
                BY <3>1, <3>3, <4>1, <4>2 DEF InOrder, FirstReadInOrder
            <4>3. CASE j = Len(seen) + 1
                <5>1. Ordered(date, seen[i], h)
                    BY <3>2, <4>1
                <5>2. seen'[j] = h
                    BY <3>1, <4>3
                <5> QED BY <3>3, <4>1, <5>1, <5>2, SendQueueAssumption DEF Ordered, Free
            <4> QED BY <3>1, <4>2, <4>3
        <3> QED BY <1>2, <3>3 DEF FirstReadInOrder
    <2> QED BY <2>1, <2>2
<1> QED BY <1>6, <1>7, <1>9, <1>10 DEF InOrder

LEMMA OrderStep ==
    ASSUME MaxSubmit = 1, TypeOK, AcksBacked, Listed, Submitted, OnItsWay, Stopped, Dated,
           InOrder, [Next]_vars
    PROVE  InOrder'
<1>1. CASE Process
    BY <1>1, OrderHalt, OrderRestart, OrderFrame DEF Process, Crash, Tick
<1>2. ASSUME NEW r \in Rec, AddQueue(r) PROVE InOrder'
    BY <1>2, OrderAddQueue
<1>3. ASSUME NEW r \in Rec, DiscardDraft(r) PROVE InOrder'
    BY <1>3, OrderFrame DEF DiscardDraft
<1>4. CASE Sender
    <2>1. CASE TakeRec \/ SendRecord
        BY <2>1, OrderTakeRec, OrderSendRecord
    <2>2. CASE Pulse \/ PulseDone \/ TakeConn \/ Wakeup
        BY <2>2, OrderFrame DEF Pulse, PulseDone, TakeConn, Wakeup
    <2>3. CASE SkipRecord \/ ReleaseConn
        BY <2>3, OrderFrame DEF SkipRecord, ReleaseConn
    <2>4. CASE SendQuit
        BY <2>4, OrderHalt DEF SendQuit
    <2>5. CASE TakeAck \/ SkipAck \/ AckTimeout
        BY <2>5, OrderFrame DEF TakeAck, SkipAck, AckTimeout
    <2> QED BY <1>4, <2>1, <2>2, <2>3, <2>4, <2>5 DEF Sender
<1>5. CASE Receiver
    <2>1. CASE StartDial \/ Connect \/ LoginOk \/ LoginFails
        BY <2>1, OrderFrame DEF StartDial, Connect, LoginOk, LoginFails, Hangup
    <2>2. CASE ReadAck \/ StoreAck
        BY <2>2, OrderFrame DEF ReadAck, StoreAck
    <2>3. CASE StoreAckPanic
        BY <2>3, OrderHalt DEF StoreAckPanic
    <2>4. CASE ReadPost
        <3>1. UNCHANGED <<cur, buf, toSrv, seen>>
            BY <2>4 DEF ReadPost
        <3>2. sendQ' \subseteq sendQ \cup Confirms /\ \A r \in Rec \ Confirms : date'[r] = date[r]
            BY <2>4 DEF ReadPost, Enqueue
        <3> QED BY <3>1, <3>2, OrderFrame
    <2>5. CASE PostList
        BY <2>5, OrderPostList
    <2>6. CASE PostAck \/ ReadFails \/ IdleResume
        BY <2>6, OrderFrame DEF PostAck, ReadFails, IdleResume
    <2>7. CASE CloseLink \/ IdleTimeout
        BY <2>7, OrderFrame DEF CloseLink, IdleTimeout, Hangup
    <2> QED BY <1>5, <2>1, <2>2, <2>3, <2>4, <2>5, <2>6, <2>7 DEF Receiver
<1>6. CASE Server
    <2>1. CASE ServerAnswer
        BY <2>1, OrderAnswer
    <2>2. CASE ServerPost \/ LinkBreaks
        BY <2>2, OrderFrame DEF ServerPost, LinkBreaks
    <2>3. ASSUME NEW r \in Rec, Joined(r) PROVE InOrder'
        BY <2>3, OrderFrame DEF Joined
    <2> QED BY <1>6, <2>1, <2>2, <2>3 DEF Server
<1>7. CASE UNCHANGED vars
    BY <1>7, OrderFrame DEF vars
<1> QED BY <1>1, <1>2, <1>3, <1>4, <1>5, <1>6, <1>7 DEF Next, User

\* FirstReadInOrder, when each record is queued once: the channel keeps the order of
\* addQueue, a resend goes before what waits behind it, and GetQueue sorts by date.
THEOREM ReadInOrder == ASSUME MaxSubmit = 1 PROVE Spec => []FirstReadInOrder
<1>1. Init => Stopped /\ Dated /\ InOrder
    BY EmptyEntries
       DEF Init, Stopped, Dated, InOrder, FirstReadInOrder, SeenFirst, SentFirst, HeldFirst, Sorted
<1>2. InOrder => FirstReadInOrder
    BY DEF InOrder
<1>3. TypeOK /\ AcksBacked /\ Listed /\ Submitted /\ OnItsWay /\ Stopped /\ Dated /\ InOrder
          /\ [Next]_vars => InOrder'
    BY OrderStep
<1>4. Way => Listed /\ Submitted /\ OnItsWay
    BY DEF Way
<1> QED BY <1>1, <1>2, <1>3, <1>4, WayInvariant, StoppedStep, DatedStep, TypeCorrect, AcksSound, PTL
        DEF Spec
=============================================================================
