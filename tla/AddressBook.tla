---------------------------- MODULE AddressBook ----------------------------
(* The address book of an account (src/slib/adrsbk.go): a log of invitations    *)
(* sent and received, of the threads that answered them and of group members;   *)
(* indexes of it in memory; drafts of invitations; and the notices of those     *)
(* received.  New entries are kept in a temporary file until they are in the    *)
(* log, their draft gone, or their notice there, and their record out of the    *)
(* send queue.  A message of a thread resolves the members of its Cc list.      *)
(* Pings go to an alias; invites are pings that name the one group there is.    *)
EXTENDS Integers, Sequences, FiniteSets, SequencesExt

CONSTANTS Alias, Uid,  \* other users
          Peer,        \* their pairs <<alias, uid>>; two may claim one alias
          Kinds,       \* of "ping" and "invite", those that are sent
          Mail,        \* pings and invites that arrive, any number of times each
          CcLists,     \* Cc lists of messages: sequences of Peer
          QueuedEdits, \* may a draft be edited while it is queued
          MaxLog, MaxDrafts, MaxSends, MaxAbCrashes   \* bounds

ASSUME BookAssumption == /\ Peer \subseteq Alias \X Uid /\ CcLists \subseteq Seq(Peer)
                         /\ Mail \subseteq [kind : Kinds, who : Alias, uid : Uid, self : BOOLEAN, id : Nat]
                         /\ Kinds \subseteq {"ping", "invite"} /\ QueuedEdits \in BOOLEAN
                         /\ {"no", "unknown"} \intersect Uid = {}
                         /\ {MaxLog, MaxDrafts, MaxSends, MaxAbCrashes} \subseteq Nat

VARIABLES idx,       \* the indexes; they are loaded with the process
          abLog,     \* the log file
          abTemp,    \* the adrsbk_ file and what is done of it
          drafts,    \* key -> text of its draft; 0: none
          abQueue,   \* records of drafts that are queued: key and text when saved
          answers,   \* acks of them on their way
          notices,   \* message ids of the notices
          outer,     \* the Cc list a transaction of a thread resolves, and its place
          abUp,      \* has the process started
          fresh,     \* the last text saved
          told,      \* history: texts the server got
          sends, abCrashes
bookVars == <<idx, abLog, abTemp, drafts, abQueue, answers, notices, outer, abUp, fresh, told, sends, abCrashes>>

Key == Alias \X Kinds
NoEl == [type |-> "none", who |-> CHOOSE a \in Alias : TRUE, uid |-> "no", id |-> 0]
NoTx == [els |-> <<>>, pos |-> 0, rec |-> <<>>, step |-> "none"]
NoCc == [cc |-> <<>>, step |-> "none", sent |-> FALSE]

(* An index: a user's log holds the numbers of entries in the log, each with    *)
(* the entry that answered it: 0 for none yet, -1 for kResponseNone.            *)
Empty == [uid |-> [a \in Alias |-> "no"],
          to |-> [a \in Alias |-> <<>>], from |-> [u \in Uid |-> <<>>],
          invTo |-> [a \in Alias |-> <<>>], invFrom |-> [g \in {"group"} |-> <<>>], group |-> "no"]

BookInit ==
  /\ idx = Empty /\ abLog = <<>> /\ abTemp = NoTx /\ drafts = [k \in Key |-> 0]
  /\ abQueue = {} /\ answers = {} /\ notices = {} /\ outer = NoCc /\ abUp = TRUE
  /\ fresh = 0 /\ told = {} /\ sends = 0 /\ abCrashes = 0
-----------------------------------------------------------------------------
HasAnswer(log) == log # <<>> /\ log[1].re # 0

AppendLog(log, n, re) == Append(log, [n |-> n, re |-> IF HasAnswer(log) THEN -1 ELSE re])

Responds(log) == log # <<>> /\ log[1].re = 0

(* _respondLog: entry n answers all there is, when nothing did. *)
RespondLog(log, n) == IF Responds(log) THEN [i \in DOMAIN log |-> [log[i] EXCEPT !.re = n]] ELSE log

(* An entry that meets a log, even one answered already, wants no answer itself. *)
OwnRe(log) == IF log = <<>> THEN 0 ELSE -1

(* _loadAdrsbk, entry n of the log. *)
LoadSent(x, el, n) ==
  LET y == IF el.type # "inviteTo" THEN x
           ELSE [x EXCEPT !.invTo[el.who] = AppendLog(@, n, 0),
                          !.group = IF @ = "no" THEN "admin" ELSE @]
      u == y.uid[el.who]
      z == IF u = "no" THEN [y EXCEPT !.uid[el.who] = "unknown"]
           ELSE IF u = "unknown" THEN y ELSE [y EXCEPT !.from[u] = RespondLog(@, n)]
      re == IF u \in Uid THEN OwnRe(y.from[u]) ELSE 0
  IN  [z EXCEPT !.to[el.who] = AppendLog(@, n, re)]

LoadFrom(x, el, n) ==
  LET y == IF el.type # "inviteFrom" THEN x
           ELSE [x EXCEPT !.invFrom["group"] = AppendLog(@, n, 0)]
  IN  [y EXCEPT !.uid[el.who] = el.uid, !.to[el.who] = RespondLog(@, n),
                !.from[el.uid] = AppendLog(@, n, OwnRe(y.to[el.who]))]

Load(x, el, n) ==
  CASE el.type \in {"inviteTo", "pingTo"} -> LoadSent(x, el, n)
    [] el.type \in {"inviteFrom", "pingFrom"} -> LoadFrom(x, el, n)
    [] el.type = "resolveFrom" -> [x EXCEPT !.from[el.uid] = RespondLog(@, n)]
    [] el.type = "resolveTo" -> [x EXCEPT !.uid[el.who] = el.uid, !.to[el.who] = RespondLog(@, n)]
    [] el.type = "accept" -> [x EXCEPT !.group = "member", !.invFrom["group"] = RespondLog(@, n)]
    [] el.type = "join" -> [x EXCEPT !.invTo[el.who] = RespondLog(@, n)]

\* Mutant: the index of uids forgets whom the alias was.
KeepSent_Unknown(x, el, n) == LET y == LoadSent(x, el, n) IN [y EXCEPT !.uid[el.who] = "unknown"]

(* _storeSentAdrsbk keeps the indexes as the loader would. *)
KeepSent(x, el, n) == LoadSent(x, el, n)

Replay(log) == FoldLeftDomain(LAMBDA x, n : Load(x, log[n], n), Empty, log)
-----------------------------------------------------------------------------
(* The book is locked while entries are stored. *)
Idle == abUp /\ abTemp = NoTx
Room(k) == Len(abLog) + k <= MaxLog

(* _storeAdrsbkQid: the entries are in the temporary file. *)
Store(els, rec) == abTemp' = [els |-> els, pos |-> Len(abLog), rec |-> rec, step |-> "side"]

Entry(type, who, uid, id) == [type |-> type, who |-> who, uid |-> uid, id |-> id]

(* Redelivered, from somebody else by the same alias, or stored. *)
KnownMsg(m) == \E i \in DOMAIN abLog :
                 /\ abLog[i].id = m.id
                 /\ abLog[i].type \in IF m.self THEN {"pingTo", "inviteTo"} ELSE {"pingFrom", "inviteFrom"}
                 /\ IF m.self THEN abLog[i].who = m.who ELSE abLog[i].uid = m.uid

Blocked(m) == idx.uid[m.who] \notin {"no", "unknown", m.uid}

(* storeReceivedAdrsbk: a ping or an invite arrives; from this user, it was     *)
(* sent by another replica.                                                     *)
StoreReceived(m) ==
  /\ Idle /\ outer = NoCc /\ Room(1)
  /\ ~KnownMsg(m) /\ (m.self \/ ~Blocked(m))
  /\ LET n == Len(abLog) + 1
         el == Entry(m.kind \o (IF m.self THEN "To" ELSE "From"), m.who,
                     IF m.self THEN "no" ELSE m.uid, m.id)
     IN  /\ idx' = IF m.self THEN KeepSent(idx, el, n) ELSE LoadFrom(idx, el, n)
         /\ Store(<<el>>, <<>>)
  /\ UNCHANGED <<abLog, drafts, abQueue, answers, notices, outer, abUp, fresh, told,
                 sends, abCrashes>>

(* storeDraftAdrsbk *)
SaveDraft(k) ==
  /\ abUp /\ fresh < MaxDrafts
  /\ QueuedEdits \/ \A r \in abQueue : r.key # k
  /\ fresh' = fresh + 1 /\ drafts' = [drafts EXCEPT ![k] = fresh + 1]
  /\ UNCHANGED <<idx, abLog, abTemp, abQueue, answers, notices, outer, abUp, told, sends, abCrashes>>

DiscardDraft(k) ==
  /\ abUp /\ drafts[k] # 0
  /\ QueuedEdits \/ \A r \in abQueue : r.key # k
  /\ drafts' = [drafts EXCEPT ![k] = 0]
  /\ UNCHANGED <<idx, abLog, abTemp, abQueue, answers, notices, outer, abUp, fresh, told,
                 sends, abCrashes>>

(* ping_send *)
SendDraft(k) ==
  /\ abUp /\ drafts[k] # 0
  /\ abQueue' = abQueue \union {[key |-> k, text |-> drafts[k]]}
  /\ UNCHANGED <<idx, abLog, abTemp, drafts, answers, notices, outer, abUp, fresh, told,
                 sends, abCrashes>>

(* sendDraftAdrsbk: the draft as it is now, or nothing when it is gone. *)
SendPing(r) ==
  /\ abUp /\ r \in abQueue /\ answers = {} /\ abTemp.rec = <<>> /\ sends < MaxSends
  /\ IF drafts[r.key] = 0
     THEN abQueue' = abQueue \ {r} /\ UNCHANGED <<answers, told, sends>>
     ELSE /\ sends' = sends + 1
          /\ \E err \in BOOLEAN : /\ answers' = {[rec |-> r, err |-> err]}
                                  /\ told' = IF err THEN told ELSE told \union {drafts[r.key]}
          /\ UNCHANGED abQueue
  /\ UNCHANGED <<idx, abLog, abTemp, drafts, notices, outer, abUp, fresh, abCrashes>>

(* storeSentAdrsbk *)
StoreSentPing(a) ==
  /\ Idle /\ outer = NoCc /\ a \in answers
  /\ answers' = answers \ {a}
  /\ LET k == a.rec.key
         el == Entry(k[2] \o "To", k[1], "no", -drafts[k])
     IN  IF a.err THEN abQueue' = abQueue \ {a.rec} /\ UNCHANGED <<idx, abTemp>>
         ELSE IF drafts[k] = 0 THEN UNCHANGED <<idx, abTemp, abQueue>>
         ELSE /\ Room(1)
              /\ idx' = KeepSent(idx, el, Len(abLog) + 1)
              /\ Store(<<el>>, <<a.rec>>) /\ UNCHANGED abQueue
  /\ UNCHANGED <<abLog, drafts, notices, outer, abUp, fresh, told, sends, abCrashes>>
-----------------------------------------------------------------------------
(* The members of a Cc list in turn. *)
ResolveCc(op(_, _), cc) == FoldLeft(op, [idx |-> idx, els |-> <<>>, n |-> Len(abLog)], cc)

\* Mutant: a resolution that is there is logged again.
ResolveReceived_Again(acc, p) ==
  LET x == acc.idx  n == acc.n + Len(acc.els) + 1
  IN  [acc EXCEPT !.idx = [x EXCEPT !.from[p[2]] = RespondLog(@, n)],
                  !.els = Append(@, Entry("resolveFrom", p[1], p[2], 0))]

(* resolveReceivedAdrsbk, one member: a new alias is as good as a ping from it. *)
ResolveReceived(acc, p) ==
  LET n == acc.n + Len(acc.els) + 1
      new == acc.idx.uid[p[1]] = "no"
      el == Entry("pingFrom", p[1], p[2], 0)
      x == IF new THEN LoadFrom(acc.idx, el, n) ELSE acc.idx
      els == IF new THEN Append(acc.els, el) ELSE acc.els
      k == acc.n + Len(els) + 1
  IN  [acc EXCEPT !.idx = [x EXCEPT !.from[p[2]] = RespondLog(@, k)],
                  !.els = IF Responds(x.from[p[2]])
                          THEN Append(els, Entry("resolveFrom", p[1], p[2], 0)) ELSE els]

(* resolveSentAdrsbk, one member: a ping to it is answered. *)
ResolveSent(acc, p) ==
  LET n == acc.n + Len(acc.els) + 1
      x == acc.idx
  IN  IF x.uid[p[1]] \in {"unknown", p[2]} /\ Responds(x.to[p[1]])
      THEN [acc EXCEPT !.idx = [x EXCEPT !.uid[p[1]] = p[2], !.to[p[1]] = RespondLog(@, n)],
                       !.els = Append(@, Entry("resolveTo", p[1], p[2], 0))]
      ELSE acc

(* A thread's transaction has its file; the receiver's and a sent message's     *)
(* differ in who is resolved.                                                   *)
StoreThread(cc, sent) ==
  /\ Idle /\ outer = NoCc
  /\ outer' = [cc |-> cc, step |-> IF sent THEN "received" ELSE "sent", sent |-> sent]
  /\ UNCHANGED <<idx, abLog, abTemp, drafts, abQueue, answers, notices, abUp, fresh, told,
                 sends, abCrashes>>

Resolve(step, next, op(_, _)) ==
  /\ Idle /\ outer.step = step
  /\ LET r == ResolveCc(op, outer.cc)
     IN  /\ Room(Len(r.els))
         /\ idx' = r.idx
         /\ IF r.els = <<>> THEN UNCHANGED abTemp ELSE Store(r.els, <<>>)
  /\ outer' = [outer EXCEPT !.step = next]
  /\ UNCHANGED <<abLog, drafts, abQueue, answers, notices, abUp, fresh, told, sends, abCrashes>>

ResolveSentCc == Resolve("sent", "received", ResolveSent)
ResolveReceivedCc == Resolve("received", "rest", ResolveReceived)

(* The thread's own steps, and its file goes. *)
ThreadDone ==
  /\ Idle /\ outer.step = "rest"
  /\ outer' = NoCc
  /\ UNCHANGED <<idx, abLog, abTemp, drafts, abQueue, answers, notices, abUp, fresh, told,
                 sends, abCrashes>>

(* groupJoinedAdrsbk: this user, or another, is a member of the group. *)
GroupJoined(a, self) ==
  /\ Idle /\ outer = NoCc /\ Room(1) /\ "invite" \in Kinds
  /\ LET log == IF self THEN idx.invFrom["group"] ELSE idx.invTo[a]
         el == Entry(IF self THEN "accept" ELSE "join", a, "no", 0)
     IN  /\ Responds(log)
         /\ idx' = Load(idx, el, Len(abLog) + 1)
         /\ Store(<<el>>, <<>>)
  /\ UNCHANGED <<abLog, drafts, abQueue, answers, notices, outer, abUp, fresh, told,
                 sends, abCrashes>>
-----------------------------------------------------------------------------
HasNotices(el) == el.type \in {"pingFrom", "inviteFrom"}

Stepping(from, to) == abTemp.step = from /\ abTemp' = [abTemp EXCEPT !.step = to]

(* _completeAdrsbk: the draft goes, or a notice comes, for the first entry; *)
SideEffect ==
  /\ Stepping("side", "append")
  /\ LET el == abTemp.els[1]
     IN  /\ drafts' = IF el.type \in {"pingTo", "inviteTo"} /\ el.id < 0
                      THEN [drafts EXCEPT ![<<el.who, IF el.type = "pingTo" THEN "ping" ELSE "invite">>] = 0]
                      ELSE drafts
         /\ notices' = IF HasNotices(el) THEN notices \union {el.id} ELSE notices
  /\ UNCHANGED <<idx, abLog, abQueue, answers, outer, abUp, fresh, told, sends, abCrashes>>

(* what is there is written over with the same *)
WriteAt(log, el, i) == IF i <= Len(log) THEN [log EXCEPT ![i] = el] ELSE Append(log, el)

(* the entries are written one after the other; *)
AppendEntries ==
  /\ abTemp.step = "append"
  /\ \E k \in 0..Len(abTemp.els) :
       /\ abLog' = FoldLeftDomain(LAMBDA log, i : IF i > k THEN log
                        ELSE WriteAt(log, abTemp.els[i], abTemp.pos + i), abLog, abTemp.els)
       /\ IF k = Len(abTemp.els)
          THEN /\ abTemp' = [abTemp EXCEPT !.step = "queue"]
               /\ UNCHANGED <<idx, answers, abUp, abCrashes>>
          ELSE /\ abCrashes < MaxAbCrashes /\ abTemp' = [abTemp EXCEPT !.step = "side"]
               /\ idx' = Empty /\ answers' = {} /\ abUp' = FALSE /\ abCrashes' = abCrashes + 1
  /\ UNCHANGED <<drafts, abQueue, notices, outer, fresh, told, sends>>

\* Mutant: the record stays queued.
DropEntryRec_Not ==
  /\ abTemp.step = "queue"
  /\ abTemp' = NoTx
  /\ UNCHANGED <<idx, abLog, abQueue, drafts, answers, notices, outer, abUp, fresh, told, sends, abCrashes>>

(* the record goes, and the file. *)
DropEntryRec ==
  /\ abTemp.step = "queue"
  /\ abTemp' = NoTx /\ abQueue' = abQueue \ Range(abTemp.rec)
  /\ UNCHANGED <<idx, abLog, drafts, answers, notices, outer, abUp, fresh, told, sends, abCrashes>>
-----------------------------------------------------------------------------
BookCrash ==
  /\ abUp /\ abCrashes < MaxAbCrashes
  /\ abUp' = FALSE /\ abCrashes' = abCrashes + 1 /\ answers' = {} /\ idx' = Empty
  /\ abTemp' = IF abTemp = NoTx THEN NoTx ELSE [abTemp EXCEPT !.step = "side"]
  /\ UNCHANGED <<abLog, drafts, abQueue, notices, outer, fresh, told, sends>>

(* initServices: what was left is done, then the book is loaded when it is       *)
(* needed, and a thread's transaction is done again from its start.              *)
BookRestart ==
  /\ ~abUp /\ abTemp = NoTx
  /\ abUp' = TRUE /\ idx' = Replay(abLog)
  /\ outer' = IF outer = NoCc THEN NoCc ELSE [outer EXCEPT !.step = IF @ = "none" THEN "none"
                       ELSE IF outer.sent THEN "received" ELSE "sent"]
  /\ UNCHANGED <<abLog, abTemp, drafts, abQueue, answers, notices, fresh, told, sends, abCrashes>>
-----------------------------------------------------------------------------
BookNext ==
  \/ \E m \in Mail : StoreReceived(m)
  \/ \E k \in Key : SaveDraft(k) \/ DiscardDraft(k) \/ SendDraft(k)
  \/ \E r \in abQueue : SendPing(r)
  \/ \E a \in answers : StoreSentPing(a)
  \/ \E cc \in CcLists, sent \in BOOLEAN : StoreThread(cc, sent)
  \/ \E a \in Alias, self \in BOOLEAN : GroupJoined(a, self)
  \/ ResolveSentCc \/ ResolveReceivedCc \/ ThreadDone
  \/ SideEffect \/ AppendEntries \/ DropEntryRec \/ BookCrash \/ BookRestart
BookSpec == BookInit /\ [][BookNext]_bookVars
-----------------------------------------------------------------------------
BookTypeOK ==
  /\ \A i \in DOMAIN abLog : abLog[i].who \in Alias /\ abLog[i].uid \in Uid \union {"no"}
  /\ idx.uid \in [Alias -> Uid \union {"no", "unknown"}] /\ idx.group \in {"no", "admin", "member"}
  /\ drafts \in [Key -> 0..fresh] /\ abQueue \subseteq [key : Key, text : 1..fresh]
  /\ answers \subseteq [rec : abQueue, err : BOOLEAN] /\ told \subseteq 1..fresh
  /\ abTemp.step \in {"none", "side", "append", "queue"} /\ outer.step \in {"none", "sent", "received", "rest"}
  /\ (abTemp = NoTx) = (abTemp.els = <<>>) /\ abTemp.pos \in 0..Len(abLog)

(* The indexes, which handlers change as they go, are what the loader makes of   *)
(* the log and of the entries on their way to it, answers included.             *)
IndexIsReplay ==
  abUp => idx = Replay(IF abTemp = NoTx THEN abLog ELSE SubSeq(abLog, 1, abTemp.pos) \o abTemp.els)

(* A message that is delivered again, and a transaction that is done again, put   *)
(* nothing in the log a second time.                                            *)
LoggedOnce ==
  \A i, j \in DOMAIN abLog :
    i < j /\ abLog[i].id # 0 => [abLog[i] EXCEPT !.who = abLog[j].who] # abLog[j]

(* A resolution in the log (adrsbk.go:418, 437) answers something: a transaction *)
(* of a thread that is done again after a crash does not resolve again.          *)
EachAnswers ==
  \A n \in DOMAIN abLog :
    LET el == abLog[n]  x == Replay(SubSeq(abLog, 1, n - 1))
    IN  /\ el.type = "resolveFrom" => Responds(x.from[el.uid])
        /\ el.type = "resolveTo" => Responds(x.to[el.who])

(* An alias has one owner: a ping by another user of that alias is blocked        *)
(* (adrsbk.go:333), and a Cc list gives no known alias another uid.              *)
OneOwner ==
  \A i, j \in DOMAIN abLog :
    LET Binds(n) == abLog[n].type \in {"pingFrom", "inviteFrom", "resolveTo"}
    IN  Binds(i) /\ Binds(j) /\ abLog[i].who = abLog[j].who => abLog[i].uid = abLog[j].uid

(* What the log says was sent, the server got: the ack handler takes the text     *)
(* from the draft as it is then (adrsbk.go:361).                                 *)
SentAsLogged == \A i \in DOMAIN abLog : abLog[i].id < 0 => -abLog[i].id \in told

(* A ping in the log has its notice, whatever a crash cut short. (Of new members *)
(* of a thread, entries with no id of their own, only a first one gets any.)     *)
HasNotice == \A i \in DOMAIN abLog :
  abLog[i].type \in {"pingFrom", "inviteFrom"} /\ abLog[i].id # 0 => abLog[i].id \in notices

(* A record leaves the queue with the transaction that logs its text.            *)
LeavesQueue == \A r \in abQueue :
  (\E i \in DOMAIN abLog : abLog[i].id = -r.text) => abTemp.rec = <<r>>

(* What is in memory is what a restart would make of the files. *)
BookSound == BookTypeOK /\ IndexIsReplay

(* The log makes sense, whatever crashes and redeliveries it went through: each    *)
(* message once, each resolution an answer to something, each alias one user's.   *)
LogSound == LoggedOnce /\ EachAnswers /\ OneOwner

(* A transaction's other effects go with its entries: the draft as it was sent, the *)
(* record out of the queue, the notice of a ping (adrsbk.go:494-534).              *)
SendsLogged == SentAsLogged /\ LeavesQueue /\ HasNotice
=============================================================================
