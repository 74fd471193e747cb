------------------------------ MODULE SendQueue ------------------------------
(***************************************************************************)
(* The outgoing half of one service: the persistent queue of send records  *)
(* (slib/queue.go), the elastic channel and the stop-and-wait sender       *)
(* (main.go: runElasticChan, runTmtpSend), the goroutine that dials, logs  *)
(* in and reads the link (runTmtpRecv, _readLink), the connection token    *)
(* they share (tQueue.connSrc) and the handling of acks                    *)
(* (HandleTmtpService, case "ack").  The TMTP server and the network are   *)
(* external: the server reads records in order and answers each with a     *)
(* verdict; the link may break and lose what is in flight.                 *)
(*                                                                         *)
(* A record is abstracted to its kind, the first character of its Id.      *)
(***************************************************************************)
EXTENDS Naturals, Sequences, FiniteSets

CONSTANTS
    Drafts,       \* 't', 'p': a draft file (or ping entry) holds the payload
    Accepts,      \* 'a': sent unless the group was joined meanwhile
    Logs,         \* 's': a sync log file holds the payload
    Confirms,     \* 'c': queued by addListQueue while a forward is finished
    Edits,        \* 'o', 'n' and 'l' with an alias of 13 characters or more
    ShortAliases, \* 'l' with an alias shorter than a local-id suffix
    None,         \* no record
    AckCap,       \* capacity of tQueue.ack
    Periodic,     \* LoginPeriod > 0: connect periodically, close when idle
    MaxSubmit,    \* bound: how often one record is queued
    MaxClock,     \* bound: ticks of the one-second clock that dates records
    MaxFaults     \* bound: crashes, broken links, early timeouts and pushes

Rec == Drafts \cup Accepts \cup Logs \cup Confirms \cup Edits \cup ShortAliases

ASSUME SendQueueAssumption ==
    /\ IsFiniteSet(Rec)
    /\ None \notin Rec
    /\ AckCap \in Nat
    /\ Periodic \in BOOLEAN
    /\ MaxSubmit \in Nat /\ MaxClock \in Nat /\ MaxFaults \in Nat

VARIABLES
    sendQ,     \* records in tService.sendQ and, between actions, in its file
    date,      \* tQueueEl.Date of the records in sendQ
    payload,   \* records whose draft, log or open invite exists
    buf,       \* records in the elastic channel
    held,      \* records addListQueue returned ("nopost") and not yet posted
    cur,       \* aSrec of runTmtpSend
    spc,       \* where runTmtpSend is
    ackCh,     \* tQueue.ack
    token,     \* who has the connection: connSrc, runTmtpSend or nobody
    rpc,       \* where runTmtpRecv/_readLink is
    rmsg,      \* the ack that _readLink is handling
    link,      \* the TLS connection
    toSrv,     \* records in flight to the server
    toCli,     \* acks and posts in flight to the client
    up,        \* the client process is running
    fatal,     \* the process ended by quit() or by a run-time panic
    now,       \* the clock
    faults,    \* faults so far
    subs,      \* history: submissions of each record
    seen,      \* history: records in the order the server first read them
    accepted,  \* history: records the server answered without error
    void       \* history: records whose draft the user discarded

disk    == <<sendQ, date, payload>>
sender  == <<buf, cur, spc>>
reader  == <<rpc, rmsg, held>>
network == <<link, toSrv, toCli>>
history == <<seen, accepted>>
env     == <<up, fatal, now, faults, subs, void>>
vars    == <<disk, sender, reader, network, history, env, ackCh, token>>

Entries(s) == {s[i] : i \in DOMAIN s}
Ack == [rec : Rec \cup {None}, ok : BOOLEAN]
Post == [rec |-> None, ok |-> TRUE]    \* a message from another user

\* Variant: the queue file is read back in Id order.
Orders_Unsorted(S) ==
    {b \in [1..Cardinality(S) -> S] :
        \A i, j \in 1..Cardinality(S) : i < j => b[i] # b[j]}

\* GetQueue sorts by Date, whose unit is one second, with an unstable sort.
Orders(S) ==
    {b \in [1..Cardinality(S) -> S] :
        \A i, j \in 1..Cardinality(S) :
            i < j => b[i] # b[j] /\ date[b[i]] <= date[b[j]]}

\* A failure that the run's budget still allows.
Fault == faults < MaxFaults /\ faults' = faults + 1

InFlight(r) ==
    \/ link = "up" /\ r \in Entries(toSrv)
    \/ \E i \in DOMAIN toCli : toCli[i].rec = r
    \/ r \in Entries(ackCh)

Init ==
    /\ sendQ = {} /\ date = [r \in Rec |-> 0]
    /\ payload = Drafts \cup Accepts \cup Logs
    /\ buf = <<>> /\ cur = None /\ spc = "idle"
    /\ ackCh = <<>> /\ token = "none"
    /\ rpc = "wait" /\ rmsg = Post /\ held = {}
    /\ link = "none" /\ toSrv = <<>> /\ toCli = <<>>
    /\ up = TRUE /\ fatal = FALSE /\ now = 0 /\ faults = 0
    /\ subs = [r \in Rec |-> 0]
    /\ seen = <<>> /\ accepted = {} /\ void = {}

-----------------------------------------------------------------------------
(* The process *)

\* The process ends; what the goroutines and the kernel held is gone.
Halt(f) ==
    /\ up' = FALSE /\ fatal' = f
    /\ buf' = <<>> /\ cur' = None /\ spc' = "idle"
    /\ ackCh' = <<>> /\ token' = "none"
    /\ rpc' = "wait" /\ rmsg' = Post /\ held' = {}
    /\ link' = "none" /\ toSrv' = <<>> /\ toCli' = <<>>

Crash ==
    /\ up
    /\ Fault
    /\ Halt(FALSE)
    /\ UNCHANGED <<disk, history, now, subs, void>>

\* initServices reads the queue file, newQueue starts the goroutines.
Restart ==
    /\ ~up
    /\ up' = TRUE /\ fatal' = FALSE
    /\ buf' \in Orders(sendQ)
    /\ UNCHANGED <<disk, cur, spc, reader, network, history, now, faults,
                   subs, void, ackCh, token>>

Tick ==
    /\ now < MaxClock
    /\ now' = now + 1
    /\ UNCHANGED <<disk, sender, reader, network, history, up, fatal, faults,
                   subs, void, ackCh, token>>

-----------------------------------------------------------------------------
(* The queue, called by the handlers of user requests and by timers *)

Enqueue(R) ==
    /\ sendQ' = sendQ \cup R
    /\ date' = [r \in Rec |-> IF r \in R THEN now ELSE date[r]]
    /\ subs' = [r \in Rec |-> IF r \in R THEN subs[r] + 1 ELSE subs[r]]

\* addQueue: a record that is already queued is left alone.  A request to
\* send a draft is refused unless the draft exists.
AddQueue(r) ==
    /\ up
    /\ r \notin sendQ
    /\ r \in payload \cup Edits \cup ShortAliases
    /\ subs[r] < MaxSubmit
    /\ Enqueue({r})
    /\ buf' = Append(buf, r)
    /\ UNCHANGED <<payload, cur, spc, reader, network, history, up, fatal,
                   now, faults, void, ackCh, token>>

\* The user deletes a draft, queued or not.
DiscardDraft(r) ==
    /\ up
    /\ r \in Drafts \cap payload
    /\ payload' = payload \ {r}
    /\ void' = void \cup {r}
    /\ UNCHANGED <<sendQ, date, sender, reader, network, history, up, fatal,
                   now, faults, subs, ackCh, token>>

-----------------------------------------------------------------------------
(* runTmtpSend *)

SenderFree == up /\ token # "send"

\* _waitForSrec gets the next record.
TakeRec ==
    /\ SenderFree /\ spc = "idle"
    /\ buf # <<>>
    /\ cur' = Head(buf) /\ buf' = Tail(buf)
    /\ spc' = "want"
    /\ UNCHANGED <<disk, reader, network, history, env, ackCh, token>>

\* _waitForSrec sends a pulse every kPulsePeriod if the connection is free.
Pulse ==
    /\ SenderFree /\ spc = "idle"
    /\ token = "chan"
    /\ token' = "send" /\ spc' = "pulse"
    /\ UNCHANGED <<disk, buf, cur, reader, network, history, env, ackCh>>

PulseDone ==
    /\ up /\ spc = "pulse"
    /\ token' = "chan" /\ spc' = "idle"
    /\ UNCHANGED <<disk, buf, cur, reader, network, history, env, ackCh>>

TakeConn ==
    /\ up /\ spc \in {"want", "await"}
    /\ token = "chan"
    /\ token' = "send" /\ spc' = "hold"
    /\ UNCHANGED <<disk, buf, cur, reader, network, history, env, ackCh>>

\* The other branch of the select: runTmtpRecv is between two logins.
Wakeup ==
    /\ SenderFree /\ spc = "want"
    /\ Periodic /\ rpc = "wait"
    /\ spc' = "await" /\ rpc' = "dial"
    /\ UNCHANGED <<disk, buf, cur, rmsg, held, network, history, env, ackCh,
                   token>>

\* sendDraft*, sendJoinGroupAdrsbk: the payload is gone.
AlreadySent(r) == r \in (Drafts \cup Accepts) \ payload

\* sendSyncNode opens the log and treats a missing file as fatal.
LogMissing(r) == r \in Logs \ payload

\* SendService writes the record.  A write to a broken link may fail, then
\* the sender tries again, or seem to succeed.
SendRecord ==
    /\ up /\ spc = "hold"
    /\ ~AlreadySent(cur) /\ ~LogMissing(cur)
    /\ IF link = "up"
       THEN spc' = "ack" /\ toSrv' = Append(toSrv, cur)
       ELSE spc' \in {"ack", "want"} /\ UNCHANGED toSrv
    /\ UNCHANGED <<disk, buf, cur, reader, link, toCli, history, env, ackCh,
                   token>>

\* Variant: any error of SendService drops the record.
SkipRecord_AnyError ==
    /\ up /\ spc = "hold"
    /\ AlreadySent(cur) \/ link = "broken"
    /\ sendQ' = sendQ \ {cur}
    /\ cur' = None /\ spc' = "idle"
    /\ UNCHANGED <<date, payload, buf, reader, network, history, env, ackCh,
                   token>>

\* SendService: "already sent", so dropQueue and go on to the next record.
SkipRecord ==
    /\ up /\ spc = "hold"
    /\ AlreadySent(cur)
    /\ sendQ' = sendQ \ {cur}
    /\ cur' = None /\ spc' = "idle"
    /\ UNCHANGED <<date, payload, buf, reader, network, history, env, ackCh,
                   token>>

SendQuit ==
    /\ up /\ spc = "hold"
    /\ LogMissing(cur)
    /\ Halt(TRUE)
    /\ UNCHANGED <<disk, history, now, faults, subs, void>>

\* The sender gives the connection back, whatever SendService returned.
ReleaseConn ==
    /\ up /\ token = "send" /\ spc \notin {"hold", "pulse"}
    /\ token' = "chan"
    /\ UNCHANGED <<disk, sender, reader, network, history, env, ackCh>>

\* Variant: the id of the ack is not compared.
TakeAck_AnyId ==
    /\ SenderFree /\ spc = "ack"
    /\ ackCh # <<>>
    /\ ackCh' = Tail(ackCh)
    /\ cur' = None /\ spc' = "idle"
    /\ UNCHANGED <<disk, buf, reader, network, history, env, token>>

\* The awaited ack: the next record may go.
TakeAck ==
    /\ SenderFree /\ spc = "ack"
    /\ ackCh # <<>> /\ Head(ackCh) = cur
    /\ ackCh' = Tail(ackCh)
    /\ cur' = None /\ spc' = "idle"
    /\ UNCHANGED <<disk, buf, reader, network, history, env, token>>

\* An ack for another record is ignored, and the wait continues.
SkipAck ==
    /\ SenderFree /\ spc = "ack"
    /\ ackCh # <<>> /\ Head(ackCh) # cur
    /\ ackCh' = Tail(ackCh)
    /\ UNCHANGED <<disk, sender, reader, network, history, env, token>>

\* Variant: the sender waits for the ack without a timer.
AckTimeout_NoTimer ==
    FALSE /\ UNCHANGED vars

\* No ack within 15 seconds: send the same record again.  It is a fault when
\* the record or its ack is still on the way.
AckTimeout ==
    /\ SenderFree /\ spc = "ack"
    /\ IF InFlight(cur) THEN Fault ELSE UNCHANGED faults
    /\ spc' = "want"
    /\ UNCHANGED <<disk, buf, cur, reader, network, history, up, fatal, now,
                   subs, void, ackCh, token>>

-----------------------------------------------------------------------------
(* runTmtpRecv and _readLink *)

\* LoginPeriod is zero or its timer fires.
StartDial ==
    /\ up /\ rpc = "wait"
    /\ rpc' = "dial"
    /\ UNCHANGED <<disk, sender, rmsg, held, network, history, env, ackCh,
                   token>>

\* The dial succeeds, after retries; "tmtprev" and "login" are sent.
Connect ==
    /\ up /\ rpc = "dial"
    /\ rpc' = "auth" /\ link' = "up"
    /\ UNCHANGED <<disk, sender, rmsg, held, toSrv, toCli, history, env, ackCh,
                   token>>

\* "login ok": the sender may have the connection.
LoginOk ==
    /\ up /\ rpc = "auth" /\ link = "up"
    /\ rpc' = "read" /\ token' = "chan"
    /\ UNCHANGED <<disk, sender, rmsg, held, network, history, env, ackCh>>

\* The connection is closed and what was on its way is lost.
Hangup ==
    /\ token' = "none" /\ rpc' = "wait"
    /\ link' = "none" /\ toSrv' = <<>> /\ toCli' = <<>>

\* A read error before the login.
LoginFails ==
    /\ up /\ rpc = "auth" /\ link = "broken"
    /\ Hangup
    /\ UNCHANGED <<disk, sender, rmsg, held, history, env, ackCh>>

\* Variant: the channel of acks has no capacity check.
ReadAck_NoCapacity ==
    /\ up /\ rpc = "read"
    /\ toCli # <<>> /\ Head(toCli).rec # None
    /\ toCli' = Tail(toCli)
    /\ ackCh' = Append(ackCh, Head(toCli).rec)
    /\ rpc' = "store" /\ rmsg' = Head(toCli)
    /\ UNCHANGED <<disk, sender, held, link, toSrv, history, env, token>>

\* _readLink passes the ack to the sender unless the channel is full, ...
ReadAck ==
    /\ up /\ rpc = "read"
    /\ toCli # <<>> /\ Head(toCli).rec # None
    /\ toCli' = Tail(toCli)
    /\ ackCh' = IF Len(ackCh) < AckCap THEN Append(ackCh, Head(toCli).rec)
                ELSE ackCh
    /\ rpc' = "store" /\ rmsg' = Head(toCli)
    /\ UNCHANGED <<disk, sender, held, link, toSrv, history, env, token>>

\* Variant: an error ack is handled like success.
StoreAck_ErrorStored ==
    LET r == rmsg.rec IN
    /\ up /\ rpc = "store" /\ r \notin ShortAliases
    /\ sendQ' = IF r \in Drafts \ payload THEN sendQ ELSE sendQ \ {r}
    /\ payload' = IF r \in Drafts \cup Logs THEN payload \ {r} ELSE payload
    /\ rpc' = "read" /\ rmsg' = Post
    /\ UNCHANGED <<date, sender, held, network, history, env, ackCh, token>>

\* ... and then handles it: an error only drops the record, success also
\* disposes of the draft or log.  If the draft is gone already, the record
\* stays in sendQ until SendService meets it again.
StoreAck ==
    LET r == rmsg.rec
        stored == rmsg.ok /\ r \in Drafts \cup Logs
    IN
    /\ up /\ rpc = "store" /\ r \notin ShortAliases
    /\ sendQ' = IF rmsg.ok /\ r \in Drafts \ payload THEN sendQ
                ELSE sendQ \ {r}
    /\ payload' = IF stored THEN payload \ {r} ELSE payload
    /\ rpc' = "read" /\ rmsg' = Post
    /\ UNCHANGED <<date, sender, held, network, history, env, ackCh, token>>

\* parseLocalId slices 13 characters off an alias that is shorter.
StoreAckPanic ==
    /\ up /\ rpc = "store" /\ rmsg.rec \in ShortAliases
    /\ Halt(TRUE)
    /\ UNCHANGED <<disk, history, now, faults, subs, void>>

\* A post from another user; a forward notice also queues a confirmation for
\* each message of ours in the thread (_finishStoreFwd).  addListQueue does
\* nothing if one of them is queued already.
ReadPost ==
    /\ up /\ rpc = "read"
    /\ toCli # <<>> /\ Head(toCli).rec = None
    /\ toCli' = Tail(toCli)
    /\ \/ /\ rpc' = "post"
          /\ UNCHANGED <<sendQ, date, subs, held>>
       \/ \E R \in SUBSET {r \in Confirms \ sendQ : subs[r] < MaxSubmit} :
            /\ R # {}
            /\ Enqueue(R)
            /\ held' = R
            /\ rpc' = "list"
    /\ UNCHANGED <<payload, sender, rmsg, link, toSrv, history, up, fatal, now,
                   faults, void, ackCh, token>>

\* Variant: the records that addListQueue returned are not posted.
PostList_Lost ==
    /\ up /\ rpc = "list"
    /\ held' = {} /\ rpc' = "post"
    /\ UNCHANGED <<disk, sender, rmsg, network, history, env, ackCh, token>>

\* Once the forward is complete, its confirmations go to the channel.
PostList ==
    /\ up /\ rpc = "list"
    /\ \E b \in Orders(held) : buf' = buf \o b
    /\ held' = {} /\ rpc' = "post"
    /\ UNCHANGED <<disk, cur, spc, rmsg, network, history, env, ackCh, token>>

\* postAck takes the connection, writes and gives it back.
PostAck ==
    /\ up /\ rpc = "post"
    /\ token = "chan"
    /\ rpc' = "read"
    /\ UNCHANGED <<disk, sender, rmsg, held, network, history, env, ackCh,
                   token>>

ReadFails ==
    /\ up /\ rpc = "read" /\ link = "broken"
    /\ rpc' = "close"
    /\ UNCHANGED <<disk, sender, rmsg, held, network, history, env, ackCh,
                   token>>

\* Variant: fErr does not wait for the connection.
CloseLink_NoWait ==
    /\ up /\ rpc = "close"
    /\ Hangup
    /\ UNCHANGED <<disk, sender, rmsg, held, history, env, ackCh>>

\* fErr waits until the sender has given the connection back.
CloseLink ==
    /\ up /\ rpc = "close"
    /\ token = "chan"
    /\ Hangup
    /\ UNCHANGED <<disk, sender, rmsg, held, history, env, ackCh>>

\* Nothing was read for LoginPeriod/10: close the link if the connection is
\* free, even if the sender awaits an ack, else let the send finish first.
\* It is a fault when something is on the way.
IdleTimeout ==
    /\ up /\ rpc = "read" /\ Periodic /\ link = "up"
    /\ IF toSrv # <<>> \/ toCli # <<>> THEN Fault ELSE UNCHANGED faults
    /\ IF token = "chan" THEN Hangup
       ELSE rpc' = "linger" /\ UNCHANGED <<network, token>>
    /\ UNCHANGED <<disk, sender, rmsg, held, history, up, fatal, now, subs,
                   void, ackCh>>

IdleResume ==
    /\ up /\ rpc = "linger"
    /\ token = "chan"
    /\ rpc' = "read"
    /\ UNCHANGED <<disk, sender, rmsg, held, network, history, env, ackCh,
                   token>>

-----------------------------------------------------------------------------
(* External: the server and the network *)

\* The server reads a record and answers it.  It does not know that it has
\* seen the record before.
ServerAnswer ==
    /\ link = "up" /\ toSrv # <<>>
    /\ LET r == Head(toSrv) IN
       /\ seen' = IF r \in Entries(seen) THEN seen ELSE Append(seen, r)
       /\ \E ok \in BOOLEAN :
            /\ toCli' = Append(toCli, [rec |-> r, ok |-> ok])
            /\ accepted' = IF ok THEN accepted \cup {r} ELSE accepted
    /\ toSrv' = Tail(toSrv)
    /\ UNCHANGED <<disk, sender, reader, link, env, ackCh, token>>

ServerPost ==
    /\ link = "up" /\ rpc \notin {"wait", "dial", "auth"}
    /\ Fault
    /\ toCli' = Append(toCli, Post)
    /\ UNCHANGED <<disk, sender, reader, link, toSrv, history, up, fatal, now,
                   subs, void, ackCh, token>>

\* The server tells that we joined a group, after it read our acceptance.
Joined(r) ==
    /\ up /\ r \in Accepts \cap payload
    /\ r \in accepted
    /\ payload' = payload \ {r}
    /\ UNCHANGED <<sendQ, date, sender, reader, network, history, env, ackCh,
                   token>>

LinkBreaks ==
    /\ link = "up"
    /\ Fault
    /\ link' = "broken"
    /\ UNCHANGED <<disk, sender, reader, toSrv, toCli, history, up, fatal, now,
                   subs, void, ackCh, token>>

-----------------------------------------------------------------------------
Process == Crash \/ Restart \/ Tick

User == \E r \in Rec : AddQueue(r) \/ DiscardDraft(r)

Sender ==
    \/ TakeRec \/ Pulse \/ PulseDone \/ TakeConn \/ Wakeup
    \/ SendRecord \/ SkipRecord \/ SendQuit \/ ReleaseConn
    \/ TakeAck \/ SkipAck \/ AckTimeout

Receiver ==
    \/ StartDial \/ Connect \/ LoginOk \/ LoginFails
    \/ ReadAck \/ StoreAck \/ StoreAckPanic
    \/ ReadPost \/ PostList \/ PostAck
    \/ ReadFails \/ CloseLink \/ IdleTimeout \/ IdleResume

Server == ServerAnswer \/ ServerPost \/ LinkBreaks \/ \E r \in Rec : Joined(r)

Next == Process \/ User \/ Sender \/ Receiver \/ Server

Spec == Init /\ [][Next]_vars

\* A goroutine that can run does, and a restarted client is restarted by its
\* user.  Strong fairness where a goroutine waits for the connection: a Go
\* channel hands the value to the goroutine that has waited longest.
Fairness ==
    /\ WF_vars(Restart)
    /\ SF_vars(TakeRec) /\ WF_vars(PulseDone) /\ WF_vars(SendRecord)
    /\ WF_vars(SkipRecord) /\ WF_vars(SendQuit) /\ WF_vars(ReleaseConn)
    /\ WF_vars(TakeAck) /\ WF_vars(SkipAck) /\ WF_vars(AckTimeout)
    /\ WF_vars(StartDial) /\ WF_vars(Connect) /\ WF_vars(LoginOk)
    /\ WF_vars(LoginFails) /\ WF_vars(ReadAck) /\ WF_vars(StoreAck)
    /\ WF_vars(StoreAckPanic) /\ WF_vars(ReadPost) /\ WF_vars(PostList)
    /\ WF_vars(ReadFails) /\ WF_vars(ServerAnswer)
    /\ SF_vars(TakeConn) /\ SF_vars(PostAck) /\ SF_vars(CloseLink)
    /\ SF_vars(IdleResume)

FairSpec == Spec /\ Fairness

-----------------------------------------------------------------------------
(* Properties *)

TypeOK ==
    /\ sendQ \subseteq Rec /\ payload \subseteq Drafts \cup Accepts \cup Logs
    /\ date \in [Rec -> 0..MaxClock] /\ subs \in [Rec -> 0..MaxSubmit]
    /\ buf \in Seq(Rec) /\ cur \in Rec \cup {None}
    /\ spc \in {"idle", "pulse", "want", "await", "hold", "ack"}
    /\ cur = None <=> spc \in {"idle", "pulse"}
    /\ ackCh \in Seq(Rec) /\ Len(ackCh) <= AckCap
    /\ token \in {"none", "chan", "send"}
    /\ rpc \in {"wait", "dial", "auth", "read", "store", "list", "post",
                "close", "linger"}
    /\ rmsg \in Ack /\ held \subseteq Confirms
    /\ link \in {"none", "up", "broken"}
    /\ toSrv \in Seq(Rec) /\ toCli \in Seq(Ack)
    /\ up \in BOOLEAN /\ fatal \in BOOLEAN
    /\ now \in 0..MaxClock /\ faults \in 0..MaxFaults
    /\ seen \in Seq(Rec) /\ accepted \subseteq Rec /\ void \subseteq Drafts

\* The queue implements the outbox: a record leaves sendQ only after the
\* server has answered it or its draft was discarded (dropQueue is called for
\* no other reason), through timeouts, stale acks, lost links and restarts.
Promise == INSTANCE Outbox WITH queued <- sendQ, answered <- Entries(seen)
ImplementsOutbox == Promise!Spec

\* A draft or sync log is disposed of only when the server accepted it, or
\* the user discarded it (storeSentThread, storeSentAdrsbk, dropSyncNode).
PayloadKept ==
    \A r \in (Drafts \cup Logs) \ payload : r \in accepted \cup void

\* Every ack the client holds comes from a record the server read, and what
\* is gone from the disk was accepted or discarded: the inductive invariant
\* behind PayloadKept and ImplementsOutbox.
Backed(a) ==
    a.rec # None => a.rec \in Entries(seen) /\ (a.ok => a.rec \in accepted)
AcksBacked ==
    /\ Backed(rmsg) /\ \A i \in DOMAIN toCli : Backed(toCli[i])
    /\ accepted \subseteq Entries(seen)
    /\ \A r \in (Drafts \cup Accepts \cup Logs) \ payload :
           r \in accepted \cup void

\* connSrc holds one token per logged-in session: between "login ok" and the
\* return of _readLink it is in the channel or with the sender, never both,
\* and nobody writes to a connection that was closed (fErr, idle timeout).
LoggedIn == rpc \in {"read", "store", "list", "post", "close", "linger"}
OneToken ==
    /\ token # "none" <=> LoggedIn
    /\ spc \in {"hold", "pulse"} => token = "send"
    /\ token # "none" => link # "none"

\* No record is forgotten while the client runs: one that is in sendQ and
\* still has something to send is in the channel, with the sender, on its way
\* to the channel, or being retired.
Zombie(r) == r \in Drafts \ payload
NoneForgotten ==
    \A r \in sendQ :
        \/ ~up \/ Zombie(r)
        \/ r = cur \/ r \in Entries(buf) \cup held
        \/ rpc = "store" /\ rmsg.rec = r

\* The server first reads records in the order they were queued, also across
\* restarts; records of the same second and confirmations, which are posted
\* after they are queued, are free.
FirstReadInOrder ==
    \A i, j \in DOMAIN seen :
        i < j /\ {seen[i], seen[j]} \cap Confirms = {} =>
            date[seen[i]] <= date[seen[j]]

\* Stop and wait: what is in flight and new to the server is the record the
\* sender holds, unless its draft was discarded in flight.
StopAndWait ==
    link = "up" =>
        \A r \in Entries(toSrv) : r \in Entries(seen) \/ r = cur \/ Zombie(r)

\* Every record that is queued eventually leaves the queue, unless its draft
\* was discarded under it.
EventuallyRetired == \A r \in Rec : r \in sendQ ~> r \notin sendQ \/ Zombie(r)

\* Neither an ack nor a resend ends the process.
NoFatal == ~fatal
=============================================================================
