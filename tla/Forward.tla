------------------------------ MODULE Forward ------------------------------
(* Forwarding of one thread (src/slib/thread.go): drafts of forwards are kept in *)
(* a file of the thread, last one first to be edited; an ack of the server moves *)
(* the first into the thread's Cc list, and other members' forwards are told to  *)
(* this user.  Each new member gets a confirmation of every message this user    *)
(* has in the thread.  A transaction has two temporary files: the drafts that    *)
(* remain, and the new Cc list, whose name commits it.                           *)
(* A behaviour may have one of the faults below; a property says which it        *)
(* withstands.                                                                   *)
EXTENDS Integers, Sequences, FiniteSets, SequencesExt

CONSTANTS Member,     \* users that may be added to the Cc list
          OwnMsg,     \* messages of this user in the thread
          Self, Other,\* this user, and the member that is there from the start
          Faults,     \* those of AllFaults that are considered
          MaxForwards, MaxSaves, MaxTold, MaxResend, MaxFwdCrashes   \* bounds

(* overlap: an ack or a send comes inside a save.    redelivery: the server tells *)
(* a forward twice.   second: two forwards are posted in one second.              *)
(* refusal: the server refuses a forward.   timeout: the link sends again before  *)
(* a late ack.                                                                    *)
AllFaults == {"none", "overlap", "redelivery", "second", "refusal", "timeout"}

ASSUME ForwardAssumption ==
  /\ Faults \subseteq AllFaults /\ Self \notin Member /\ Other \notin Member \union {Self}
  /\ {MaxForwards, MaxSaves, MaxTold, MaxResend, MaxFwdCrashes} \subseteq Nat

VARIABLES fault,     \* the fault of this behaviour
          fcc,       \* the Cc list: who, and when and by whom they were added
          fwd,       \* the file of the drafts: none, a placeholder, or a list
          fwdDraft,  \* temporary file of a save; it may be torn
          saving,    \* the save in progress: its members, and how far it is
          ftx,       \* the transaction in progress
          fwdSent,   \* its list of the drafts that remain, or NoList
          fq,        \* forwards queued
          link,      \* what the link has of them, in order
          sent,      \* is an ack of the first awaited
          fack,      \* acks on their way
          cfm,       \* confirmations queued: message, date, by whom
          cfmPosted, \* those the link was told of
          fup, fquit, clock, lastId, saves, resent, fwdCrashes,
          accepted,  \* history: forwards the server accepted: id, members, date
          relayed,   \* history: forwards of others, told or to be told
          confirmed  \* history: members and the messages they have
fwdVars == <<fault, fcc, fwd, fwdDraft, saving, ftx, fwdSent, fq, link, sent, fack, cfm, cfmPosted, fup,
             fquit, clock, lastId, saves, resent, fwdCrashes, accepted, relayed, confirmed>>

NoList == << [id |-> 0, cc |-> {}] >>
NoFile == [st |-> "none", list |-> <<>>]
File(list) == [st |-> "file", list |-> list]
NoSave == [cc |-> {}, step |-> "none"]
NoFtx == [op |-> "none", id |-> 0, cc |-> <<>>, step |-> "none", post |-> {}]

ForwardInit ==
  /\ fault \in Faults
  /\ fcc = << [who |-> Other, date |-> 0, by |-> Other] >> /\ fwd = NoFile /\ fwdDraft = NoFile
  /\ saving = NoSave /\ ftx = NoFtx /\ fwdSent = NoList /\ fq = {} /\ link = <<>> /\ sent = FALSE /\ fack = {}
  /\ cfm = {} /\ cfmPosted = {} /\ fup = TRUE /\ fquit = FALSE /\ clock = 0 /\ lastId = 0
  /\ saves = 0 /\ resent = 0 /\ fwdCrashes = 0 /\ accepted = {} /\ relayed = {} /\ confirmed = {}
-----------------------------------------------------------------------------
Works == fup /\ ~fquit
FreeDoor == ftx = NoFtx /\ saving.step \notin {"remove", "rename"}
Whos(cc) == {cc[i].who : i \in DOMAIN cc}
Queued(id) == id \in fq
(* _revCc: new members have the date the server gave. *)
Entries(set, date, by) == [i \in 1..Cardinality(set) |->
                             [who |-> SetToSeq(set)[i], date |-> date, by |-> by]]

(* The server's time, in seconds. *)
Time(t) == t = clock + 1 \/ (fault = "second" /\ t = clock /\ t > 0)
-----------------------------------------------------------------------------
NotThere(M) == M \ Whos(fcc)

(* storeFwdDraftThread: members of the thread are left out; *)
SaveForward(M) ==
  /\ Works /\ saving = NoSave /\ saves < MaxSaves
  /\ FreeDoor \/ (fault = "overlap" /\ ftx.op = "fs" /\ ftx.step = "write")
  /\ saves' = saves + 1
  /\ saving' = [cc |-> NotThere(M), step |-> "make"]
  /\ UNCHANGED <<fault, fcc, fwd, fwdDraft, ftx, fwdSent, fq, link, sent, fack, cfm, cfmPosted, fup, fquit,
                 clock, lastId, resent, fwdCrashes, accepted, relayed, confirmed>>

(* a new draft, unless the last is not queued yet; *)
LastDraft == IF fwd.list = <<>> \/ Queued(Last(fwd.list).id)
             THEN Append(fwd.list, [id |-> lastId + 1, cc |-> {}]) ELSE fwd.list

(* members of the drafts before it are left out as well. *)
Edited == LET l == LastDraft
          IN  [l EXCEPT ![Len(l)].cc = saving.cc \ UNION {l[i].cc : i \in 1..Len(l) - 1}]

Make(f) == IF f = NoFile THEN [st |-> "placeholder", list |-> <<>>] ELSE f

(* _getFwd makes a placeholder, so that a torn temporary file is not taken for    *)
(* the drafts; and the temporary file is written.                                *)
WriteDraft ==
  /\ Works /\ saving.step = "make" /\ FreeDoor /\ Len(LastDraft) <= MaxForwards
  /\ lastId' = IF Len(LastDraft) > Len(fwd.list) THEN lastId + 1 ELSE lastId
  /\ IF Len(LastDraft) = 1 /\ saving.cc = {}
     THEN fwd' = NoFile /\ saving' = NoSave /\ UNCHANGED <<fwdDraft, fup, fwdCrashes, fq, link>>
     ELSE \/ /\ fwd' = Make(fwd) /\ fwdDraft' = File(Edited)
             /\ saving' = [saving EXCEPT !.step = "remove"] /\ UNCHANGED <<fup, fwdCrashes, fq, link>>
          \/ /\ fwdCrashes < MaxFwdCrashes
             /\ fwd' = Make(fwd) /\ fwdDraft' = [st |-> "torn", list |-> <<>>]
             /\ saving' = NoSave /\ fup' = FALSE /\ fwdCrashes' = fwdCrashes + 1 /\ UNCHANGED fq /\ link' = <<>>
          \/ /\ fault = "overlap" /\ Len(LastDraft) = Len(fwd.list)   \* sent by another client
             /\ fwd' = Make(fwd) /\ fwdDraft' = File(Edited) /\ fq' = fq \union {Last(fwd.list).id}
             /\ link' = Append(link, Last(fwd.list).id)
             /\ saving' = [saving EXCEPT !.step = "remove"] /\ UNCHANGED <<fup, fwdCrashes>>
  /\ IF fup' THEN UNCHANGED <<sent, fack, cfmPosted>> ELSE sent' = FALSE /\ fack' = {} /\ cfmPosted' = {}
  /\ UNCHANGED <<fault, fcc, ftx, fwdSent, cfm, fquit, clock, saves, resent, accepted,
                 relayed, confirmed>>

RemoveDrafts ==
  /\ Works /\ saving.step = "remove"
  /\ fwd' = NoFile /\ saving' = [saving EXCEPT !.step = "rename"]
  /\ UNCHANGED <<fault, fcc, fwdDraft, ftx, fwdSent, fq, link, sent, fack, cfm, cfmPosted, fup, fquit, clock,
                 lastId, saves, resent, fwdCrashes, accepted, relayed, confirmed>>

RenameDraft ==
  /\ Works /\ saving.step = "rename"
  /\ fwd' = fwdDraft /\ fwdDraft' = NoFile /\ saving' = NoSave
  /\ UNCHANGED <<fault, fcc, ftx, fwdSent, fq, link, sent, fack, cfm, cfmPosted, fup, fquit, clock, lastId,
                 saves, resent, fwdCrashes, accepted, relayed, confirmed>>

(* forward_send *)
QueueForward(d) ==
  /\ Works /\ d \in Range(fwd.list) /\ d.cc # {} /\ ~Queued(d.id) /\ saving = NoSave
  /\ fq' = fq \union {d.id} /\ link' = Append(link, d.id)
  /\ UNCHANGED <<fault, fcc, fwd, fwdDraft, saving, ftx, fwdSent, sent, fack, cfm, cfmPosted, fup,
                 fquit, clock, lastId, saves, resent, fwdCrashes, accepted, relayed, confirmed>>
-----------------------------------------------------------------------------
Answer(id, date, err) == [id |-> id, date |-> date, err |-> err]

(* sendFwdDraftThread: the link sends the first of its forwards; the server knows *)
(* one that it accepted.                                                          *)
SendForward ==
  /\ Works /\ FreeDoor /\ link # <<>> /\ resent < MaxResend
  /\ ~sent \/ fault = "timeout"
  /\ resent' = resent + 1
  /\ LET id == Head(link)
         D == {d \in Range(fwd.list) : d.id = id}
         A == {a \in accepted : a.id = id}
     IN  IF fwd.st # "file"
         THEN fquit' = TRUE /\ UNCHANGED <<fq, link, sent, fack, clock, accepted>>
         ELSE IF D = {}
         THEN /\ fq' = fq \ {id} /\ link' = Tail(link) /\ sent' = FALSE
              /\ UNCHANGED <<fquit, fack, clock, accepted>>
         ELSE /\ sent' = TRUE /\ UNCHANGED <<fquit, fq, link>>
              /\ \/ /\ A # {} /\ fack' = {Answer(id, a.date, FALSE) : a \in A}
                    /\ UNCHANGED <<clock, accepted>>
                 \/ \E t \in clock..clock + 1, d \in D :
                      /\ A = {} /\ Time(t) /\ clock' = t
                      /\ accepted' = accepted \union {[id |-> id, cc |-> d.cc, date |-> t]}
                      /\ fack' = {Answer(id, t, FALSE)}
                 \/ /\ fault = "refusal" /\ A = {} /\ fack' = {Answer(id, clock, TRUE)}
                    /\ UNCHANGED <<clock, accepted>>
  /\ UNCHANGED <<fault, fcc, fwd, fwdDraft, saving, ftx, fwdSent, cfm, cfmPosted, fup, lastId, saves,
                 fwdCrashes, relayed, confirmed>>

(* The ack is handled, and the link goes on, unless it just gave up on it. *)
Acked(a) ==
  /\ Works /\ FreeDoor /\ a \in fack /\ (saving = NoSave \/ fault = "overlap")
  /\ fack' = fack \ {a}
  /\ \/ fault = "timeout" /\ UNCHANGED <<link, sent>>
     \/ sent' = FALSE /\ link' = IF link # <<>> /\ Head(link) = a.id THEN Tail(link) ELSE link

RefusedForward(a) ==
  /\ Acked(a) /\ a.err
  /\ fq' = fq \ {a.id}
  /\ UNCHANGED <<fault, fcc, fwd, fwdDraft, saving, ftx, fwdSent, cfm, cfmPosted, fup, fquit, clock,
                 lastId, saves, resent, fwdCrashes, accepted, relayed, confirmed>>

(* storeFwdSentThread: the drafts that remain are written, if the first is this; *)
StoreFwdSent(a) ==
  /\ Acked(a) /\ ~a.err
  /\ IF fwd.list = <<>> \/ Head(fwd.list).id # a.id
     THEN UNCHANGED <<ftx, fwdSent, fquit>>
     ELSE IF fwdSent # NoList THEN fquit' = TRUE /\ UNCHANGED <<ftx, fwdSent>>
     ELSE /\ fwdSent' = Tail(fwd.list)
          /\ ftx' = [op |-> "fs", id |-> a.id, step |-> "write", post |-> {},
                     cc |-> fcc \o Entries(Head(fwd.list).cc, a.date, Self)]
          /\ UNCHANGED fquit
  /\ UNCHANGED <<fault, fcc, fwd, fwdDraft, saving, fq, cfm, cfmPosted, fup, clock, lastId, saves,
                 resent, fwdCrashes, accepted, relayed, confirmed>>

(* storeFwdNotifyThread: another member's forward, with no draft here. *)
StoreFwdNotify(m, again) ==
  /\ Works /\ FreeDoor /\ (saving = NoSave \/ fault = "overlap")
  /\ \E t \in 0..clock + 1 :
       /\ IF again THEN fault = "redelivery" /\ Len(fcc) <= MaxTold + 1
                         /\ [who |-> m, date |-> t] \in relayed
                         /\ UNCHANGED <<clock, relayed>>
          ELSE /\ Time(t) /\ Cardinality(relayed) < MaxTold /\ clock' = t
               /\ m \notin {r.who : r \in relayed} \union UNION {a.cc : a \in accepted} \union Whos(fcc)
               /\ relayed' = relayed \union {[who |-> m, date |-> t]}
       /\ ftx' = [op |-> "fn", id |-> 0, step |-> "write", post |-> {},
                  cc |-> Append(fcc, [who |-> m, date |-> t, by |-> Other])]
  /\ UNCHANGED <<fault, fcc, fwd, fwdDraft, saving, fwdSent, fq, link, sent, fack, cfm, cfmPosted, fup, fquit,
                 lastId, saves, resent, fwdCrashes, accepted, confirmed>>
-----------------------------------------------------------------------------
To(step) == ftx' = [ftx EXCEPT !.step = step]

(* The new Cc list has its name: the transaction will be completed. *)
CommitForward ==
  /\ ftx.step = "write" /\ To(IF ftx.op = "fs" THEN "remove" ELSE "cc")
  /\ UNCHANGED <<fault, fcc, fwd, fwdDraft, saving, fwdSent, fq, link, sent, fack, cfm, cfmPosted, fup, fquit,
                 clock, lastId, saves, resent, fwdCrashes, accepted, relayed, confirmed>>

(* _completeStoreFwdSent: the drafts are replaced, unless that is done; *)
RemoveForward ==
  /\ ftx.step = "remove" /\ fwdSent # NoList /\ To("rename")
  /\ fwd' = NoFile
  /\ UNCHANGED <<fault, fcc, fwdDraft, saving, fwdSent, fq, link, sent, fack, cfm, cfmPosted, fup, fquit, clock,
                 lastId, saves, resent, fwdCrashes, accepted, relayed, confirmed>>

RenameForward ==
  /\ ftx.step = "rename" /\ To("queue")
  /\ fwd' = IF fwdSent = <<>> THEN NoFile ELSE File(fwdSent)
  /\ fwdSent' = NoList
  /\ UNCHANGED <<fault, fcc, fwdDraft, saving, fq, link, sent, fack, cfm, cfmPosted, fup, fquit, clock,
                 lastId, saves, resent, fwdCrashes, accepted, relayed, confirmed>>

\* Mutant: the record of the forward stays queued.
DropForward_Not ==
  /\ ftx.step = "queue" \/ (ftx.step = "remove" /\ fwdSent = NoList)
  /\ To("cc")
  /\ UNCHANGED <<fault, fcc, fwd, fwdDraft, saving, fwdSent, fq, link, sent, fack, cfm, cfmPosted, fup,
                 fquit, clock, lastId, saves, resent, fwdCrashes, accepted, relayed, confirmed>>

(* the record goes; *)
DropForward ==
  /\ ftx.step = "queue" \/ (ftx.step = "remove" /\ fwdSent = NoList)
  /\ To("cc")
  /\ fq' = fq \ {ftx.id}
  /\ UNCHANGED <<fault, fcc, fwd, fwdDraft, saving, fwdSent, link, sent, fack, cfm, cfmPosted, fup, fquit,
                 clock, lastId, saves, resent, fwdCrashes, accepted, relayed, confirmed>>

(* _finishStoreFwd: the Cc list is written over; *)
WriteCc ==
  /\ ftx.step = "cc" /\ To("confirm")
  /\ fcc' = ftx.cc
  /\ UNCHANGED <<fault, fwd, fwdDraft, saving, fwdSent, fq, link, sent, fack, cfm, cfmPosted, fup, fquit, clock,
                 lastId, saves, resent, fwdCrashes, accepted, relayed, confirmed>>

(* addListQueue adds nothing when one of its records is there; *)
QueueList(ids) == IF ids \intersect cfm # {} THEN {} ELSE ids

QueueConfirms ==
  /\ ftx.step = "confirm"
  /\ LET last == Last(ftx.cc)   \* the members just added have its date
         ids == QueueList({[msg |-> x, date |-> last.date, by |-> last.by] : x \in OwnMsg})
     IN  cfm' = cfm \union ids /\ ftx' = [ftx EXCEPT !.step = "finish", !.post = ids]
  /\ UNCHANGED <<fault, fcc, fwd, fwdDraft, saving, fwdSent, fq, link, sent, fack, cfmPosted, fup, fquit, clock,
                 lastId, saves, resent, fwdCrashes, accepted, relayed, confirmed>>

(* and the link is told of them when the file is gone. *)
FinishForward ==
  /\ ftx.step = "finish"
  /\ ftx' = NoFtx /\ cfmPosted' = cfmPosted \union (IF fup THEN ftx.post ELSE {})
  /\ UNCHANGED <<fault, fcc, fwd, fwdDraft, saving, fwdSent, fq, link, sent, fack, cfm, fup, fquit, clock,
                 lastId, saves, resent, fwdCrashes, accepted, relayed, confirmed>>

(* sendFwdConfirmThread: to the members added then by that user; and its ack. *)
SendConfirm(r) ==
  /\ Works /\ r \in cfmPosted /\ FreeDoor
  /\ confirmed' = confirmed \union
       {<<fcc[i].who, r.msg>> : i \in {j \in DOMAIN fcc : fcc[j].date = r.date /\ fcc[j].by = r.by}}
  /\ cfm' = cfm \ {r} /\ cfmPosted' = cfmPosted \ {r}
  /\ UNCHANGED <<fault, fcc, fwd, fwdDraft, saving, ftx, fwdSent, fq, link, sent, fack, fup, fquit, clock,
                 lastId, saves, resent, fwdCrashes, accepted, relayed>>
-----------------------------------------------------------------------------
\* Mutant: what a crash left is not done again.
Survives_Not(t) == FALSE

Survives(t) == t.step \notin {"none", "write"}

(* What is left of a transaction is done again from its start when it has its    *)
(* name, and forgotten when not.                                                 *)
ForwardCrash ==
  /\ ~fquit /\ fwdCrashes < MaxFwdCrashes
  /\ fup' = FALSE /\ fwdCrashes' = fwdCrashes + 1
  /\ saving' = NoSave /\ link' = <<>> /\ sent' = FALSE /\ fack' = {} /\ cfmPosted' = {}
  /\ ftx' = IF Survives(ftx)
            THEN [ftx EXCEPT !.step = IF ftx.op = "fs" THEN "remove" ELSE "cc", !.post = {}] ELSE NoFtx
  /\ UNCHANGED <<fault, fcc, fwd, fwdDraft, fwdSent, fq, cfm, fquit, clock, lastId, saves, resent,
                 accepted, relayed, confirmed>>

(* initServices: a save is finished if it had removed the drafts, and what no    *)
(* transaction needed is removed; the link is told of the whole queue.           *)
ForwardRestart ==
  /\ ~fup /\ ftx = NoFtx
  /\ fup' = TRUE
  /\ fwd' = IF fwd = NoFile /\ fwdDraft # NoFile THEN fwdDraft ELSE fwd
  /\ fwdDraft' = NoFile /\ fwdSent' = NoList /\ cfmPosted' = cfm
  /\ link' = SetToSortSeq(fq, <)
  /\ UNCHANGED <<fault, fcc, saving, ftx, fq, sent, fack, cfm, fquit, clock, lastId, saves, resent,
                 fwdCrashes, accepted, relayed, confirmed>>
-----------------------------------------------------------------------------
ForwardNext ==
  \/ \E M \in SUBSET Member : SaveForward(M)
  \/ WriteDraft \/ RemoveDrafts \/ RenameDraft
  \/ \E d \in Range(fwd.list) : QueueForward(d)
  \/ SendForward
  \/ \E a \in fack : RefusedForward(a) \/ StoreFwdSent(a)
  \/ \E m \in Member, again \in BOOLEAN : StoreFwdNotify(m, again)
  \/ CommitForward \/ RemoveForward \/ RenameForward \/ DropForward
  \/ WriteCc \/ QueueConfirms \/ FinishForward
  \/ \E r \in cfmPosted : SendConfirm(r)
  \/ ForwardCrash \/ ForwardRestart
ForwardSpec == ForwardInit /\ [][ForwardNext]_fwdVars
-----------------------------------------------------------------------------
ForwardTypeOK ==
  /\ fwd.st \in {"none", "placeholder", "file", "torn"} /\ Len(fwd.list) <= MaxForwards
  /\ \A i \in DOMAIN fwd.list : fwd.list[i].id \in 1..lastId /\ fwd.list[i].cc \subseteq Member
  /\ \A i \in DOMAIN fcc : fcc[i] \in [who : Member \union {Other}, date : 0..clock, by : {Self, Other}]
  /\ fq \subseteq 1..lastId /\ Range(link) \subseteq 1..lastId /\ sent \in BOOLEAN /\ cfmPosted \subseteq cfm
  /\ fack \subseteq [id : 1..lastId, date : 0..clock, err : BOOLEAN]

(* The file of the drafts can always be read: a save, or a transaction, that a     *)
(* crash cut short leaves no torn file in its place (thread.go:1349, slib.go:429). *)
DraftsReadable == fwd.st # "torn"

(* No handler meets a file it did not expect, or misses one: the process goes on. *)
ForwardNoQuit == fault # "timeout" => ~fquit

(* This user adds a member to a thread once (thread.go:1296-1330 leaves out those    *)
(* who are there or in another draft), and so does another; both may, at one time.   *)
AddedOnce ==
  fault \notin {"overlap", "redelivery"} =>
    \A i, j \in DOMAIN fcc : i # j /\ fcc[i].by = fcc[j].by => fcc[i].who # fcc[j].who

(* The Cc list says of this user's forwards what the server accepted: the members *)
(* it was sent, and when.                                                         *)
CcAsAccepted ==
  \A i \in DOMAIN fcc : fcc[i].by = Self =>
    \E a \in accepted : fcc[i].who \in a.cc /\ fcc[i].date = a.date

(* What the server accepted is in the Cc list once its record has left the queue. *)
AcceptedIsKept ==
  \A a \in accepted : ~Queued(a.id) /\ ftx = NoFtx =>
    \A m \in a.cc : \E i \in DOMAIN fcc : fcc[i].who = m /\ fcc[i].date = a.date

(* A draft the server accepted is not sent a second time, by another id. *)
ForwardedOnce ==
  fault # "overlap" =>
    \A a, b \in accepted : a # b => a.cc \intersect b.cc = {}

(* An ack of a forward that was sent takes its record out of the queue, with the    *)
(* first draft; one that is not the first (thread.go:1195) would leave it there.     *)
AckedLeaves ==
  fault \notin {"refusal", "timeout"} /\ Works /\ ftx = NoFtx => fq = Range(link)

(* New members get every message of this user: a confirmation is queued for each, *)
(* or was sent, when the transaction is over.                                     *)
ConfirmsNew ==
  fault # "second" /\ ftx = NoFtx =>
    \A i \in DOMAIN fcc, x \in OwnMsg : fcc[i].date > 0 =>
      \/ <<fcc[i].who, x>> \in confirmed
      \/ [msg |-> x, date |-> fcc[i].date, by |-> fcc[i].by] \in cfm

(* The link knows of every confirmation that is queued (thread.go:1277-1290 queues *)
(* them without telling it, while they may be done again).                         *)
ConfirmsPosted == fup /\ ftx = NoFtx => cfmPosted = cfm

(* The files of a thread's forwards: they can be read, no handler quits over them, *)
(* and the Cc list has what the server accepted, each member once.                *)
ForwardSound ==
  ForwardTypeOK /\ DraftsReadable /\ ForwardNoQuit /\ AddedOnce /\ CcAsAccepted /\ AcceptedIsKept

(* A forward comes to its end once: sent once, out of the queue when it is acked,  *)
(* and the new members' confirmations queued and posted.                          *)
ForwardsEnd == ForwardedOnce /\ AckedLeaves /\ ConfirmsNew /\ ConfirmsPosted
=============================================================================
