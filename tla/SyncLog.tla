------------------------------ MODULE SyncLog ------------------------------
(* How updates of a user's tags, seen marks, pinned tabs and configuration      *)
(* reach the other replicas (src/slib/node.go): syncUpdtNode runs an update and *)
(* appends it to a log file, named by the symbolic link synclog; a timer queues *)
(* the log; sendSyncNode takes the link away and sends the file; the ack drops   *)
(* record and file.  The steps are those between which the process may end;     *)
(* initServices completes what it finds in the temp directory.                  *)
(* A behaviour may have one fault:                                              *)
(* seen: some updates fail when they have been made already.    refuses: the    *)
(* server answers a log with an error.                                          *)
EXTENDS Naturals, Sequences, FiniteSets, SequencesExt

CONSTANTS Update,    \* updates the user makes
          Once,      \* those that fail when they have been made already (thread_open)
          SyncFaults, \* those of AllSyncFaults that are considered
          MaxSyncCrashes, MaxResends,   \* bounds
          NoUpdate, Torn \* no update; the text a crash leaves in a log

AllSyncFaults == {"seen", "refuses"}

ASSUME SyncAssumption ==
  /\ Once \subseteq Update /\ IsFiniteSet(Update)
  /\ SyncFaults \subseteq AllSyncFaults /\ MaxSyncCrashes \in Nat /\ MaxResends \in Nat
  /\ NoUpdate \notin Update /\ Torn \notin Update

VARIABLES syncFault, \* the fault of this behaviour
          mode,      \* down, init, up, or quit
          done,      \* updates that took effect
          temp,      \* the syncupdt_ file: its update, position, and whether it is named
          link,      \* what synclog names; 0: nothing
          logs,      \* log number -> entries, for the files that exist
          fresh,     \* numbers used: a name is never used again
          upc, retry, \* the holder of nodeUpdt, and whether it repeats an update
          timers,    \* log number -> timers running
          queue,     \* send queue: log numbers
          chan,      \* the elastic channel; its head is the sender's
          spc,       \* the sender: idle, taken (its link is gone), or await
          acks,      \* answers on their way: log, and whether it is an error
          acking,    \* dropSyncNode: its log; 0: none
          apc,       \* and its place; a syncack_ file is there from "kept" on
          made,      \* history: the updates that were logged
          got,       \* and those the server dealt with: gave the replicas, or refused
          spoiled,   \* did a replica get a log it cannot read
          refused,   \* the logs that were refused
          syncCrashes, resends
disk == <<done, temp, link, logs, fresh>>
writer == <<upc, retry, timers>>
sender == <<queue, chan, spc, acks, acking, apc>>
past == <<made, got, spoiled, refused, syncCrashes, resends>>
syncVars == <<syncFault, mode, disk, writer, sender, past>>

LogId == 1..Cardinality(Update) + MaxSyncCrashes
NoUpdateTemp == [u |-> NoUpdate, pos |-> 0, named |-> FALSE]

SyncInit ==
  /\ syncFault \in SyncFaults
  /\ mode = "up" /\ done = {} /\ temp = NoUpdateTemp /\ link = 0 /\ logs = [n \in {} |-> <<>>]
  /\ fresh = 1 /\ upc = "idle" /\ retry = FALSE /\ timers = [n \in LogId |-> 0]
  /\ queue = <<>> /\ chan = <<>> /\ spc = "idle" /\ acks = {} /\ acking = 0 /\ apc = "none"
  /\ made = <<>> /\ got = <<>> /\ spoiled = FALSE /\ refused = {} /\ syncCrashes = 0 /\ resends = 0

Going(from, to) == mode \in {"init", "up"} /\ upc = from /\ upc' = to
-----------------------------------------------------------------------------
(* syncUpdtNode.  The update is written to a file, with the size of the log, *)
UpdateStart(u) ==
  /\ mode = "up" /\ u \notin done /\ Going("idle", "written")
  /\ temp' = [u |-> u, pos |-> IF link \in DOMAIN logs THEN Len(logs[link]) ELSE 0, named |-> FALSE]
  /\ UNCHANGED <<syncFault, mode, done, link, logs, fresh, retry, timers, sender, past>>

(* which gets its name; *)
UpdateNamed ==
  /\ Going("written", "ready")
  /\ temp' = [temp EXCEPT !.named = TRUE]
  /\ UNCHANGED <<syncFault, mode, done, link, logs, fresh, retry, timers, sender, past>>

SaysMade(u) == syncFault = "seen" /\ u \in Once \intersect done

(* the update is made; one that says it was made already is not logged. *)
RunUpdate ==
  /\ Going("ready", IF SaysMade(temp.u) THEN "nothing" ELSE "made")
  /\ done' = done \union {temp.u}
  /\ UNCHANGED <<syncFault, mode, temp, link, logs, fresh, retry, timers, sender, past>>

(* The log is opened through the link, *)
OpenLog ==
  /\ link \in DOMAIN logs /\ Going("made", "opened")
  /\ UNCHANGED <<syncFault, mode, disk, retry, timers, sender, past>>

(* or else the link is made anew, *)
LinkLog ==
  /\ link \notin DOMAIN logs /\ Going("made", "linked")
  /\ link' = fresh /\ fresh' = fresh + 1
  /\ UNCHANGED <<syncFault, mode, done, temp, logs, retry, timers, sender, past>>

(* and the file it names. *)
CreateLog ==
  /\ Going("linked", "opened")
  /\ logs' = [n \in DOMAIN logs \union {link} |-> IF n = link THEN <<>> ELSE logs[n]]
  /\ UNCHANGED <<syncFault, mode, done, temp, link, fresh, retry, timers, sender, past>>

\* Mutant: an entry is appended to what a crash left.
WriteAt_End == logs' = [logs EXCEPT ![link] = Append(@, Torn)]

(* What is at the position is written over with the same, or the file grows. *)
WriteAt == logs' = [logs EXCEPT ![link] = IF temp.pos = Len(@) THEN Append(@, Torn) ELSE @]

(* The entry is written; it may take a moment. *)
WriteEntry ==
  /\ Going("opened", "writing")
  /\ WriteAt
  /\ UNCHANGED <<syncFault, mode, done, temp, link, fresh, retry, timers, sender, past>>

EndEntry ==
  /\ Going("writing", "logged")
  /\ logs' = [logs EXCEPT ![link][temp.pos + 1] = temp.u]
  /\ made' = IF temp.u \in Range(made) THEN made ELSE Append(made, temp.u)
  /\ UNCHANGED <<syncFault, mode, done, temp, link, fresh, retry, timers, sender,
                 got, spoiled, refused, syncCrashes, resends>>

StartTimer(n) == timers' = [timers EXCEPT ![n] = @ + 1]

(* The first entry of a log starts its timer. *)
TimerStart ==
  /\ Going("logged", "end")
  /\ IF temp.pos = 0 THEN StartTimer(link) ELSE UNCHANGED timers
  /\ UNCHANGED <<syncFault, mode, disk, retry, sender, past>>

(* The file of the update goes. *)
UpdateEnd ==
  /\ Going("end", "idle")
  /\ temp' = NoUpdateTemp /\ retry' = FALSE
  /\ UNCHANGED <<syncFault, mode, done, link, logs, fresh, timers, sender, past>>

(* An update that failed returns no function, which completeUpdtNode calls. *)
UpdatePanics ==
  /\ Going("nothing", "idle")
  /\ mode' = "down" /\ temp' = NoUpdateTemp /\ retry' = FALSE /\ timers' = [n \in LogId |-> 0]
  /\ UNCHANGED <<syncFault, done, link, logs, fresh, sender, past>>
-----------------------------------------------------------------------------
(* The timer of a log queues it, unless it is queued. *)
TimerFires(n) ==
  /\ mode = "up" /\ timers[n] > 0
  /\ timers' = [timers EXCEPT ![n] = @ - 1]
  /\ IF n \in Range(queue) THEN UNCHANGED <<queue, chan>>
     ELSE queue' = Append(queue, n) /\ chan' = Append(chan, n)
  /\ UNCHANGED <<syncFault, mode, disk, upc, retry, spc, acks, acking, apc, past>>

\* Mutant: the link stays.
TakeLog_Not ==
  /\ mode = "up" /\ spc = "idle" /\ chan # <<>> /\ upc = "idle"
  /\ spc' = "taken"
  /\ UNCHANGED <<syncFault, mode, disk, writer, queue, chan, acks, acking, apc, past>>

(* sendSyncNode takes the log from the writers, *)
TakeLog ==
  /\ mode = "up" /\ spc = "idle" /\ chan # <<>> /\ upc = "idle"
  /\ link' = IF link = Head(chan) THEN 0 ELSE link
  /\ spc' = "taken"
  /\ UNCHANGED <<syncFault, mode, done, temp, logs, fresh, writer, queue, chan, acks, acking, apc, past>>

(* then sends its file; one that is not there ends the process. *)
SendMissing ==
  /\ mode = "up" /\ spc = "taken" /\ Head(chan) \notin DOMAIN logs
  /\ mode' = "quit"
  /\ UNCHANGED <<syncFault, disk, writer, sender, past>>

(* The updates of a log that the replicas do not have. *)
NewUpdates(text) ==
  LET new[i \in 0..Len(text)] ==
        IF i = 0 THEN <<>>
        ELSE IF text[i] \in Range(got) THEN new[i - 1] ELSE Append(new[i - 1], text[i])
  IN  new[Len(text)]

(* The server gives what arrives to the replicas, and answers. *)
SendLog(err) ==
  /\ mode = "up" /\ spc = "taken" /\ Head(chan) \in DOMAIN logs
  /\ err => syncFault = "refuses"
  /\ LET text == logs[Head(chan)]
     IN  IF Torn \in Range(text) THEN spoiled' = TRUE /\ UNCHANGED got
         ELSE got' = got \o NewUpdates(text) /\ UNCHANGED spoiled
  /\ refused' = IF err THEN refused \union {Head(chan)} ELSE refused
  /\ spc' = "await"
  /\ acks' = acks \union {[log |-> Head(chan), err |-> err]}
  /\ UNCHANGED <<syncFault, mode, disk, writer, queue, chan, acking, apc, made, syncCrashes, resends>>

(* The link breaks, or the answer is late: the record is sent again. *)
Resend ==
  /\ mode = "up" /\ spc \in {"taken", "await"} /\ resends < MaxResends
  /\ spc' = "idle" /\ resends' = resends + 1
  /\ UNCHANGED <<syncFault, mode, disk, writer, queue, chan, acks, acking, apc, made, got, spoiled, refused, syncCrashes>>

(* The sender goes on when the answer is to what it sent. *)
Answered(n) == IF spc = "await" /\ Head(chan) = n THEN spc' = "idle" /\ chan' = Tail(chan)
               ELSE UNCHANGED <<spc, chan>>

(* An ack is kept in a file first; an error drops the record alone. *)
ReadSyncAck(a) ==
  /\ mode = "up" /\ a \in acks /\ acking = 0
  /\ acks' = acks \ {a}
  /\ IF a.err THEN /\ queue' = RemoveFirst(queue, a.log)
                   /\ Answered(a.log) /\ UNCHANGED <<acking, apc>>
     ELSE acking' = a.log /\ apc' = "kept" /\ UNCHANGED <<queue, chan, spc>>
  /\ UNCHANGED <<syncFault, mode, disk, writer, past>>

(* dropSyncNode: the record goes, *)
DropRecord ==
  /\ mode \in {"init", "up"} /\ apc = "kept"
  /\ queue' = RemoveFirst(queue, acking) /\ apc' = "dequeued"
  /\ UNCHANGED <<syncFault, mode, disk, writer, chan, spc, acks, acking, past>>

(* the file, *)
DropLog ==
  /\ mode \in {"init", "up"} /\ apc = "dequeued"
  /\ logs' = [n \in DOMAIN logs \ {acking} |-> logs[n]] /\ apc' = "dropped"
  /\ UNCHANGED <<syncFault, mode, done, temp, link, fresh, writer, queue, chan, spc, acks, acking, past>>

(* the ack's file, and the sender hears of it. *)
DropAck ==
  /\ mode \in {"init", "up"} /\ apc = "dropped"
  /\ apc' = "none" /\ acking' = 0 /\ Answered(acking)
  /\ UNCHANGED <<syncFault, mode, disk, writer, queue, acks, past>>
-----------------------------------------------------------------------------
SyncCrash ==
  /\ mode \in {"init", "up"} /\ syncCrashes < MaxSyncCrashes
  /\ mode' = "down" /\ syncCrashes' = syncCrashes + 1
  /\ timers' = [n \in LogId |-> 0]
  /\ upc' = "idle" /\ retry' = FALSE /\ spc' = "idle" /\ chan' = <<>> /\ acks' = {}
  /\ UNCHANGED <<syncFault, disk, queue, acking, apc, made, got, spoiled, refused, resends>>

\* Mutant: a restart starts no timer.
RestartTimer_Not == UNCHANGED timers

(* initSyncNode *)
RestartTimer ==
  IF link \in DOMAIN logs /\ logs[link] # <<>> /\ link \notin Range(queue)
  THEN StartTimer(link) ELSE UNCHANGED timers

(* initServices: the update first; a file not yet named has no position. *)
SyncRestart ==
  /\ mode = "down"
  /\ RestartTimer
  /\ IF temp = NoUpdateTemp THEN mode' = "init" /\ UNCHANGED <<upc, retry>>
     ELSE IF temp.named THEN mode' = "init" /\ upc' = "ready" /\ retry' = TRUE
     ELSE mode' = "quit" /\ UNCHANGED <<upc, retry>>
  /\ apc' = IF apc = "none" THEN "none" ELSE "kept"
  /\ UNCHANGED <<syncFault, disk, queue, chan, spc, acks, acking, past>>

(* What was left is done: the sender gets what is queued. *)
SyncStarted ==
  /\ mode = "init" /\ upc = "idle" /\ apc = "none"
  /\ mode' = "up" /\ chan' = queue
  /\ UNCHANGED <<syncFault, disk, writer, queue, spc, acks, acking, apc, past>>
-----------------------------------------------------------------------------
Writing == \/ UpdateNamed \/ RunUpdate \/ OpenLog \/ LinkLog \/ CreateLog \/ WriteEntry
           \/ EndEntry \/ TimerStart \/ UpdateEnd \/ UpdatePanics
Sending == TakeLog \/ SendMissing \/ \E err \in BOOLEAN : SendLog(err)
Acking == \/ \E a \in acks : ReadSyncAck(a)
          \/ DropRecord \/ DropLog \/ DropAck
Starting == SyncRestart \/ SyncStarted

SyncNext == \/ \E u \in Update : UpdateStart(u)
            \/ \E n \in LogId : TimerFires(n)
            \/ Writing \/ Sending \/ Acking \/ Resend \/ SyncCrash \/ Starting
SyncSpec == SyncInit /\ [][SyncNext]_syncVars
-----------------------------------------------------------------------------
(* Types; the link and the queue name logs that were made, and a log that is     *)
(* being sent is not the one that is written to.                                *)
SyncTypeOK ==
  /\ mode \in {"down", "init", "up", "quit"} /\ done \subseteq Update
  /\ temp \in [u : Update \union {NoUpdate}, pos : Nat, named : BOOLEAN]
  /\ DOMAIN logs \subseteq LogId /\ \A n \in DOMAIN logs : logs[n] \in Seq(Update \union {Torn})
  /\ fresh \in 1..Cardinality(LogId) + 1 /\ link \in 0..fresh - 1
  /\ Range(queue) \union Range(chan) \subseteq 1..fresh - 1 /\ acking \in 0..fresh - 1
  /\ retry \in BOOLEAN /\ timers \in [LogId -> Nat] /\ spc \in {"idle", "taken", "await"}
  /\ spc # "idle" => chan # <<>> /\ link # Head(chan)
  /\ apc \in {"none", "kept", "dequeued", "dropped"} /\ (apc = "none" <=> acking = 0)

(* No replica gets a log it cannot read: what a crash in the middle of an entry  *)
(* (node.go:543-570) left is written over before the log is sent.               *)
LogsWhole == syncFault # "seen" => ~spoiled

(* An update that took effect is logged, when none is under way: after a crash   *)
(* it is made again, and that does not keep it from the log (node.go:542).       *)
NoneUnlogged == syncFault # "seen" => (temp = NoUpdateTemp => done \subseteq Range(made))

Waits(n) == \/ n \in Range(queue) \/ timers[n] > 0
            \/ n = link /\ (mode = "down" \/ upc \in {"writing", "logged"})

(* An update that was logged is never forgotten: the server dealt with it, or it *)
(* is in a log that waits to be sent, by the queue, a timer (node.go:572) or the *)
(* next start (node.go:578).                                                    *)
NothingForgotten ==
  mode # "quit" /\ syncFault # "seen" =>
    \A u \in Range(made) \ Range(got) : \E n \in DOMAIN logs : u \in Range(logs[n]) /\ Waits(n)

(* A log file goes in the end: what is there is written to, waits to be sent, is  *)
(* sent or acked; or it was refused, and stays (service.go:669).                 *)
NoneLeft == mode # "quit" =>
  \A n \in DOMAIN logs : n = link \/ Waits(n) \/ n = acking \/ n \in refused

(* The server gets the updates in the order they were made, each once.  A log is  *)
(* taken from the writers before it is read, and queued only with its first      *)
(* update, so that a later log never overtakes it.                              *)
Stream == INSTANCE UpdateStream WITH got <- IF syncFault = "seen" THEN <<>> ELSE got
ImplementsStream == Stream!Spec

(* The process goes on: no step of the log ends it ("quit(err)" at node.go:669   *)
(* and 622 say so of a name without a position and of a log that is not there). *)
SyncNoQuit == mode # "quit"

(* What is logged reaches the server in the end, as far as the process does not   *)
(* end itself: the timer queues the log, the sender sends it, again after a      *)
(* break, and a restart picks up what a crash left.                              *)
ReachesReplicas ==
  \A u \in Update : u \in Range(made) ~> (u \in Range(got) \/ mode = "quit" \/ syncFault = "seen")

(* A log that waits to be sent always has somebody who will send it, holds every    *)
(* update that took effect, whole, and goes when it was sent: whatever step of the *)
(* update, of the log's rotation or of the ack a crash cut short.                   *)
LogsKept == SyncTypeOK /\ LogsWhole /\ NoneUnlogged /\ NothingForgotten /\ NoneLeft
=============================================================================
