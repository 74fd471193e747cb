----------------------------- MODULE ThreadStore -----------------------------
(***************************************************************************)
(* The store of one thread of one service (slib/thread.go).                *)
(*                                                                         *)
(* A thread is one file: the bodies of its messages one after the other,   *)
(* then an index and a tail with the length of the index.  A draft is a    *)
(* file of its own and an index entry without a body.  Every change is a   *)
(* transaction: under the door (lock) of the thread the new index and the  *)
(* new body go to a temporary file, whose rename commits; then the thread  *)
(* file, the draft file, the send queue and the search document are        *)
(* changed one after the other, and the temporary file is removed.  After  *)
(* a crash the service does these steps again from the first one.          *)
(* What a user does to seen marks and tags is also recorded in a log for   *)
(* the other replicas (syncUpdtNode), with a temporary file of its own.    *)
(*                                                                         *)
(* A file is a sequence of cells: Size[m] cells of body for message m, a   *)
(* cell for an entry of the index, one more when the entry has a tag, and  *)
(* the tail.                                                               *)
(***************************************************************************)
EXTENDS Integers, FiniteSets, SequencesExt

CONSTANTS
    MaxId,          \* bound: the server gives ids 1 .. MaxId; 1 is the thread
    Size,           \* cells of each message
    First,          \* the first message is "sent", "received" or "forwarded"
    Forwarded,      \* messages of a forwarded thread, not confirmed by their authors
    Own,            \* messages that another replica of ours sent
    Replies,        \* drafts of replies
    NewDraft,       \* the draft of a thread
    UserActs,       \* what the user does to messages: "see", "tag", "untag"
    ReplicaActs,    \* and what other replicas do to them
    MaxCrash,       \* bound on crashes
    UpdateCrash,    \* may a crash interrupt the logging of an update?
    ReplyCrash,     \* may a crash interrupt the storing of a reply of ours?
    LateAcks,       \* may the server order an ack after messages it read later?
    TwoClients,     \* may two clients act on the same draft at once?
    None

Tid == 1
Ids == 1..MaxId
Drafts == Replies \cup {NewDraft}
Acts == {"see", "tag", "untag"}

ASSUME IdAssumption == MaxId \in Nat /\ MaxId >= 1 /\ Size \in [Ids -> Nat \ {0}]
ASSUME KindAssumption ==
    /\ First \in {"sent", "received", "forwarded"}
    /\ Forwarded = (IF First = "forwarded" THEN 1..Cardinality(Forwarded) ELSE {})
    /\ First = "forwarded" => Forwarded # {}
    /\ Forwarded \subseteq Ids /\ Own \subseteq Ids \ Forwarded
    /\ UserActs \cup ReplicaActs \subseteq Acts
    /\ NewDraft \notin Replies /\ Drafts \cap Ids = {} /\ None \notin Drafts
ASSUME BoundAssumption ==
    MaxCrash \in Nat /\ {UpdateCrash, ReplyCrash, LateAcks, TwoClients} \subseteq BOOLEAN

VARIABLES
    file,           \* cells of the thread file, <<>> when there is none
    drafts,         \* draft files
    queued,         \* drafts with a record in the send queue
    doc,            \* search document of the thread, or None
    listed,         \* the draft of the thread has a search document
    left,           \* transactions a crash left in the temporary directory
    temp,           \* the transaction under way, or None
    todo,           \* its steps that remain
    updt,           \* the update being logged, or None
    synced,         \* logged updates
    opened,         \* the draft and id of an ack whose draft file is open, or None
    renamed,        \* tThreadDoor.renamed, of the draft of the thread
    mode,           \* "up", "down", "recover", "quit" or "panic"
    nextId,         \* next id of the server
    acks,           \* acks on their way, as pairs of a draft and an id
    ours,           \* ids of messages this client sent
    got,            \* messages received, as the server knows, or sent, without a draft
    shown,          \* drafts that the pages of the clients show or showed
    crashes

disk == <<file, drafts, queued, doc, listed>>
server == <<nextId, acks, ours, got>>
pages == <<shown, crashes>>
vars == <<file, drafts, queued, doc, listed, left, temp, todo, updt, synced,
          opened, renamed, mode, nextId, acks, ours, got, shown, crashes>>

-----------------------------------------------------------------------------
(* Indexes and files. *)

Entries == [id: Ids \cup Drafts, off: Int, size: Nat,
            seen: {"no", "local", "here", "there"}, tag: BOOLEAN, fwd: {"", "by", "failed"}]
IndexCell == ({"entry"} \X Entries) \cup {<<"pad">>}
Cell == ({"body"} \X Ids) \cup IndexCell \cup ({"tail"} \X Nat)
Transactions == [op: {"sr", "sc", "ss", "ws", "ds", "nr"}, draft: Drafts \cup {None},
                 mid: Ids \cup {None}, pos: Nat, new: Seq(Cell), local: BOOLEAN]

\* None is no transaction under way, no update being logged, and no draft file that
\* is open.
ASSUME NoneAssumption ==
    /\ None \notin Transactions /\ None \notin [draft: Drafts, mid: Ids] /\ None \notin Ids
    /\ None \notin [act: Acts, id: Ids \cup Drafts, at: {"call", "wait", "log", "end", "none"}]

\* An entry of a draft has no place in the file: its offset is -1.
Entry(x, off, size, seen, tag, fwd) ==
    [id |-> x, off |-> off, size |-> size, seen |-> seen, tag |-> tag, fwd |-> fwd]
DraftEntry(d, tag) == Entry(d, -1, 1, "local", tag, "")
Stored(e) == e.off >= 0

Body(m) == [i \in 1..Size[m] |-> <<"body", m>>]
IndexCells(e) == IF e.tag THEN << <<"entry", e>>, <<"pad">> >> ELSE << <<"entry", e>> >>
WriteIndex(idx) ==
    LET cells == FlattenSeq([i \in DOMAIN idx |-> IndexCells(idx[i])])
    IN  Append(cells, <<"tail", Len(cells)>>)

\* A torn file has no tail, or a tail that does not end an index.
Readable(f) ==
    /\ f # <<>> /\ Last(f)[1] = "tail" /\ Last(f)[2] < Len(f)
    /\ \A i \in (Len(f) - Last(f)[2])..(Len(f) - 1) : f[i][1] \in {"entry", "pad"}
IndexPos(f) == Len(f) - 1 - Last(f)[2]
EntriesOf(cells) ==
    LET read[i \in 0..Len(cells)] ==
            IF i = 0 THEN <<>>
            ELSE IF cells[i][1] = "entry" THEN Append(read[i - 1], cells[i][2]) ELSE read[i - 1]
    IN  read[Len(cells)]
ReadIndex(f) == EntriesOf(SubSeq(f, IndexPos(f) + 1, Len(f) - 1))

Place(idx, x) == SelectInSeq(idx, LAMBDA e : e.id = x)
Has(idx, x) == Place(idx, x) # 0

\* The search for a draft ends at the last entry when there is no such draft.
PlaceOrLast(idx, x) == IF Has(idx, x) THEN Place(idx, x) ELSE Len(idx)

\* Mutants: the messages that move keep their offsets; no place is looked for.
Insert_NoShift(idx, pos, e) ==
    LET Follows(x) == Stored(x) /\ x.id >= e.id
    IN  IF \E i \in DOMAIN idx : Follows(idx[i])
        THEN LET at == SelectInSeq(idx, Follows)
             IN  InsertAt(idx, at, [e EXCEPT !.off = idx[at].off])
        ELSE Append(idx, [e EXCEPT !.off = pos])
Insert_AtEnd(idx, pos, e) == Append(idx, [e EXCEPT !.off = pos])

\* A received message goes before the messages with larger ids, which move.
Insert(idx, pos, e) ==
    LET Follows(x) == Stored(x) /\ x.id >= e.id
        at == IF \E i \in DOMAIN idx : Follows(idx[i])
              THEN SelectInSeq(idx, Follows) ELSE Len(idx) + 1
        moved == [i \in DOMAIN idx |->
                     IF i >= at /\ Follows(idx[i])
                     THEN [idx[i] EXCEPT !.off = @ + e.size] ELSE idx[i]]
        off == IF at <= Len(idx) THEN idx[at].off ELSE pos
    IN  InsertAt(moved, at, [e EXCEPT !.off = off])

Summary(idx) ==
    [count  |-> Cardinality({i \in DOMAIN idx : Stored(idx[i])}),
     unread |-> \E i \in DOMAIN idx : idx[i].seen = "no",
     tagged |-> \E i \in DOMAIN idx : idx[i].tag]

\* What _newThreadStream and Read expect: drafts apart, entries in file order,
\* none that goes on after the file ends, and a file for each draft.
Contiguous(idx) ==
    \A i \in DOMAIN idx :
        LET before == {j \in 1..i - 1 : Stored(idx[j])}
        IN  Stored(idx[i]) =>
              IF before = {} THEN idx[i].off = 0
              ELSE idx[i].off = idx[Max(before)].off + idx[Max(before)].size
Streamable(idx) ==
    /\ Contiguous(idx)
    /\ \A i \in DOMAIN idx : IF Stored(idx[i]) THEN idx[i].off + idx[i].size <= Len(file)
                                               ELSE idx[i].id \in drafts

-----------------------------------------------------------------------------
(* Transactions. *)

\* The part of a temporary file that is copied to the thread file is "new", and
\* goes to "pos"; a transaction on the draft of a thread has none.
Transaction(op, d, m, pos, new, local) ==
    [op |-> op, draft |-> d, mid |-> m, pos |-> pos, new |-> new, local |-> local]

\* storeSentThread for a draft that is not the first of the thread.
SentReply(t) == t.op = "ss" /\ t.mid # Tid

\* The names of the temporary files of two touches are the same.
SameName(s, t) == s.op = "nr" /\ t.op = "nr" /\ s.pos = t.pos

Steps(t) ==
    (IF t.op \in {"ss", "ws", "ds"} THEN <<"rmdraft">> ELSE <<>>)
    \o (IF t.op = "ws" THEN <<"lndraft">> ELSE <<>>)
    \o (IF t.op = "ss" THEN <<"dequeue", "synctags">> ELSE <<>>)
    \o (CASE t.new = <<>> -> <<>>
          [] t.mid = Tid /\ t.op \in {"sr", "ss"} -> <<"link">>
          [] t.mid # Tid /\ t.op \in {"sr", "ss"} -> <<"write">>
          [] OTHER -> <<"trunc", "write">>)
    \o <<"index", "drop">>

Idle == todo = <<>>
Up == mode = "up"
Step(s) == ~Idle /\ Head(todo) = s /\ mode \in {"up", "recover"}

Quit ==
    /\ mode' = "quit"
    /\ UNCHANGED <<disk, left, temp, todo, updt, synced, opened, renamed, server, pages>>

\* The rename of the temporary file; the door is locked.
Commit(t) ==
    /\ temp' = t /\ todo' = Steps(t)
    /\ left' = {s \in left : ~SameName(s, t)}

StepDone == todo' = Tail(todo)
Rest == UNCHANGED <<left, updt, opened, renamed, mode, server, pages>>

RemoveDraft ==
    /\ Step("rmdraft") /\ StepDone
    /\ drafts' = drafts \ {temp.draft}
    /\ listed' = IF temp.op = "ss" /\ temp.draft = NewDraft THEN FALSE ELSE listed
    /\ UNCHANGED <<file, queued, doc, temp, synced>> /\ Rest

LinkDraft ==
    /\ Step("lndraft") /\ StepDone
    /\ drafts' = drafts \cup {temp.draft}
    /\ UNCHANGED <<file, queued, doc, listed, temp, synced>> /\ Rest

\* Mutant: the record stays in the queue.
Dequeue_Not ==
    /\ Step("dequeue") /\ StepDone
    /\ UNCHANGED <<disk, temp, synced>> /\ Rest

Dequeue ==
    /\ Step("dequeue") /\ StepDone
    /\ queued' = queued \ {temp.draft}
    /\ UNCHANGED <<file, drafts, doc, listed, temp, synced>> /\ Rest

\* The tags of a draft are private until it is a message (syncTagService).
SyncTags ==
    /\ Step("synctags") /\ StepDone
    /\ LET idx == ReadIndex(temp.new)
       IN  synced' = IF idx[Place(idx, temp.mid)].tag
                     THEN synced \cup {<<"tag", temp.mid>>} ELSE synced
    /\ UNCHANGED <<disk, temp>> /\ Rest

\* Mutant: the link must not exist.
LinkThread_Strict ==
    /\ Step("link") /\ StepDone
    /\ file = <<>> /\ file' = temp.new
    /\ UNCHANGED <<drafts, queued, doc, listed, temp, synced>> /\ Rest

\* A new thread file is a link to the temporary file, if there is none yet.
LinkThread ==
    /\ Step("link") /\ StepDone
    /\ file' = IF file = <<>> THEN temp.new ELSE file
    /\ UNCHANGED <<drafts, queued, doc, listed, temp, synced>> /\ Rest

Truncate ==
    /\ Step("trunc") /\ StepDone
    /\ file' = SubSeq(file, 1, temp.pos)
    /\ UNCHANGED <<drafts, queued, doc, listed, temp, synced>> /\ Rest

\* Mutant: the file is written at its end.
Overlay_AtEnd(n) == file \o SubSeq(temp.new, 1, n)

\* The first n cells of the transaction, over what the file held.
Overlay(n) ==
    SubSeq(file, 1, temp.pos) \o SubSeq(temp.new, 1, n)
    \o SubSeq(file, temp.pos + n + 1, Len(file))

WriteThread ==
    /\ Step("write") /\ StepDone
    /\ file' = Overlay(Len(temp.new))
    /\ UNCHANGED <<drafts, queued, doc, listed, temp, synced>> /\ Rest

\* Mutant: a touch does not change the search document.
IndexThread_NotTouched ==
    /\ Step("index") /\ StepDone
    /\ doc' = IF temp.new # <<>> /\ temp.op # "nr" THEN Summary(ReadIndex(file)) ELSE doc
    /\ listed' = IF temp.new # <<>> THEN listed ELSE temp.op = "ws"
    /\ UNCHANGED <<file, drafts, queued, temp, synced>> /\ Rest

\* _updateSearchDoc; the document of a draft shows only that there is one.
IndexThread ==
    /\ Step("index")
    /\ IF temp.new # <<>> /\ ~(Readable(file) /\ Streamable(ReadIndex(file)))
       THEN Quit
       ELSE /\ StepDone
            /\ doc' = IF temp.new # <<>> THEN Summary(ReadIndex(file)) ELSE doc
            /\ listed' = IF temp.new # <<>> THEN listed ELSE temp.op = "ws"
            /\ UNCHANGED <<file, drafts, queued, temp, synced>> /\ Rest

\* Mutant: an update that changed the thread is not logged.
DropTemp_NotLogged ==
    /\ Step("drop") /\ StepDone
    /\ temp' = None
    /\ got' = IF temp.op = "ss" \/ (temp.op = "sr" /\ Up) THEN got \cup {temp.mid} ELSE got
    /\ updt' = IF temp.op = "nr" /\ temp.local /\ updt # None
               THEN [updt EXCEPT !.at = "end"] ELSE updt
    /\ shown' = IF temp.op = "ws" THEN shown \cup {temp.draft} ELSE shown
    /\ UNCHANGED <<disk, left, synced, opened, renamed, mode, nextId, acks, ours, crashes>>

\* The handler returns: the server is told of a received message, and the log of
\* updates goes on.
DropTemp ==
    /\ Step("drop") /\ StepDone
    /\ temp' = None
    /\ got' = IF temp.op = "ss" \/ (temp.op = "sr" /\ Up) THEN got \cup {temp.mid} ELSE got
    /\ updt' = IF temp.op = "nr" /\ temp.local /\ updt # None
               THEN [updt EXCEPT !.at = "log"] ELSE updt
    /\ shown' = IF temp.op = "ws" THEN shown \cup {temp.draft} ELSE shown
    /\ UNCHANGED <<disk, left, synced, opened, renamed, mode, nextId, acks, ours, crashes>>

Complete ==
    \/ RemoveDraft \/ LinkDraft \/ Dequeue \/ SyncTags
    \/ LinkThread \/ Truncate \/ WriteThread \/ IndexThread \/ DropTemp

-----------------------------------------------------------------------------
(* The reader of the link: messages, confirmations, acks. *)

\* One goroutine handles what the server sends, one message after the other.
ReaderFree ==
    /\ Up /\ opened = None
    /\ temp # None => temp.op \in {"ws", "ds", "nr"} /\ (temp.op = "nr" => temp.local)

\* The server sends what it has in any order, but an ack before messages it
\* read later, and the first message of a thread before the others.
InOrder(m) ==
    \/ LateAcks
    \/ (m # Tid => file # <<>>) /\ \A a \in acks : a[2] > m

\* Mutant: a message older than the last one counts as stored.
Discards_Older(m) ==
    IF m = Tid THEN file # <<>>
    ELSE file = <<>> \/ \E i \in DOMAIN ReadIndex(file) : Stored(ReadIndex(file)[i])
                                                         /\ ReadIndex(file)[i].id >= m

\* storeReceivedThread discards what it has, and a reply without a thread; the
\* server is told all the same.
Discards(m) ==
    IF m = Tid THEN file # <<>>
    ELSE file = <<>> \/ Has(ReadIndex(file), m)

Receive(m) ==
    /\ ReaderFree /\ Idle /\ m < nextId /\ InOrder(m)
    /\ m \notin Forwarded \cup ours
    /\ UNCHANGED <<disk, updt, synced, opened, renamed, mode, nextId, acks, ours, pages>>
    /\ IF Discards(m)
       THEN got' = got \cup {m} /\ UNCHANGED <<left, temp, todo>>
       ELSE LET seen == IF m \in Own THEN "local" ELSE "no"
                e == Entry(m, 0, Size[m], seen, FALSE, "")
                idx == IF m = Tid THEN <<e>>
                       ELSE Insert(ReadIndex(file), IndexPos(file), e)
                at == idx[Place(idx, m)].off
                moved == IF m = Tid THEN <<>> ELSE SubSeq(file, at + 1, IndexPos(file))
            IN  /\ Commit(Transaction("sr", None, m, at,
                                      Body(m) \o moved \o WriteIndex(idx), FALSE))
                /\ UNCHANGED got

\* The author of a forwarded message confirms it; the copy is right or not.
Confirm(m, right) ==
    /\ ReaderFree /\ Idle /\ m \in Forwarded
    /\ LET idx == ReadIndex(file)
           i == Place(idx, m)
           el == IF right THEN [idx[i] EXCEPT !.fwd = ""]
                 ELSE [idx[i] EXCEPT !.fwd = "failed", !.seen = "no"]
       IN  /\ idx[i].fwd # ""
           /\ Commit(Transaction("sc", None, m, IndexPos(file),
                                 WriteIndex([idx EXCEPT ![i] = el]), FALSE))
    /\ UNCHANGED <<disk, updt, synced, opened, renamed, mode, server, pages>>

\* storeSentThread opens the draft file before it locks the door.
ReadAck(d, m) ==
    /\ ReaderFree /\ <<d, m>> \in acks
    /\ acks' = acks \ {<<d, m>>}
    /\ opened' = IF d \in drafts THEN [draft |-> d, mid |-> m] ELSE None
    /\ UNCHANGED <<disk, left, temp, todo, updt, synced, renamed, mode, nextId,
                   ours, got, pages>>

StoreSent ==
    /\ Up /\ Idle /\ opened # None
    /\ LET d == opened.draft
           m == opened.mid
           idx == ReadIndex(file)
           at == PlaceOrLast(idx, d)
           pos == IndexPos(file)
           el == Entry(m, pos, Size[m], "local", idx[at].tag, "")
           new == IF d = NewDraft
                  THEN WriteIndex(<<Entry(m, 0, Size[m], "local", TRUE, "")>>)
                  ELSE WriteIndex(Append(RemoveAt(idx, at), el))
       IN  IF d = NewDraft /\ renamed THEN Quit
           ELSE /\ Commit(Transaction("ss", d, m, IF d = NewDraft THEN 0 ELSE pos,
                                      Body(m) \o new, FALSE))
                /\ renamed' = (renamed \/ d = NewDraft)
                /\ opened' = None
                /\ UNCHANGED <<disk, updt, synced, mode, server, pages>>

-----------------------------------------------------------------------------
(* The user: drafts, seen marks and tags. *)

\* A page offers no action on a draft that is queued (web/gui.vue).
Editable(d) ==
    \/ TwoClients
    \/ /\ d \notin queued /\ \A a \in acks : a[1] # d
       /\ temp # None => temp.draft # d
       /\ opened # None => opened.draft # d

\* Once sent, the draft of the thread is on no page but an old one.
Drafted(d) ==
    IF d # NewDraft THEN file # <<>>
    ELSE First = "sent" /\ (file = <<>> \/ (TwoClients /\ renamed))

Offered(d) == IF TwoClients THEN d \in shown ELSE d \in drafts

DraftRequest(d) ==
    /\ Up /\ Idle /\ Editable(d) /\ Drafted(d)
    /\ UNCHANGED <<updt, synced, opened, renamed, server, pages>>

SaveDraft(d) ==
    /\ DraftRequest(d)
    /\ IF d = NewDraft /\ renamed THEN Quit
       ELSE LET idx == ReadIndex(file)
                i == Place(idx, d)
                new == IF d = NewDraft THEN <<>>
                       ELSE WriteIndex(IF i = 0 THEN Append(idx, DraftEntry(d, FALSE))
                                       ELSE [idx EXCEPT ![i] = DraftEntry(d, @.tag)])
            IN  /\ Commit(Transaction("ws", d, None,
                                      IF d = NewDraft THEN 0 ELSE IndexPos(file), new, FALSE))
                /\ UNCHANGED <<disk, mode>>

DiscardDraft(d) ==
    /\ DraftRequest(d) /\ Offered(d)
    /\ IF d = NewDraft /\ renamed THEN Quit
       ELSE LET idx == ReadIndex(file)
                new == IF d = NewDraft THEN <<>> ELSE WriteIndex(RemoveAt(idx, Place(idx, d)))
            IN  /\ d # NewDraft => Has(idx, d)
                /\ Commit(Transaction("ds", d, None,
                                      IF d = NewDraft THEN 0 ELSE IndexPos(file), new, FALSE))
                /\ UNCHANGED <<disk, mode>>

\* validateDraftThread opens the draft file, without the door.
SendDraft(d) ==
    /\ Up /\ Editable(d) /\ Offered(d)
    /\ IF d \notin drafts THEN Quit
       ELSE /\ queued' = queued \cup {d}
            /\ UNCHANGED <<file, drafts, doc, listed, left, temp, todo, updt, synced,
                           opened, renamed, mode, server, pages>>

\* What touchThread does to an entry; the same entry when there is nothing to do.
Touched(act, local, e) ==
    CASE act = "see" -> IF e.seen # "no" THEN e
                        ELSE [e EXCEPT !.seen = IF local THEN "here" ELSE "there"]
      [] act = "tag" -> [e EXCEPT !.tag = TRUE]
      [] act = "untag" -> [e EXCEPT !.tag = FALSE]

TouchChanges(act, local, x) ==
    /\ file # <<>> /\ Has(ReadIndex(file), x)
    /\ LET e == ReadIndex(file)[Place(ReadIndex(file), x)] IN Touched(act, local, e) # e

\* Mutant: the search for the message does not stop at it.
CommitTouch_Following(act, local, x) ==
    LET idx == ReadIndex(file)
    IN  Commit(Transaction("nr", None, None, IndexPos(file),
                           WriteIndex([i \in DOMAIN idx |->
                               IF i >= Place(idx, x) THEN Touched(act, local, idx[i])
                               ELSE idx[i]]),
                           local))

CommitTouch(act, local, x) ==
    LET idx == ReadIndex(file)
    IN  Commit(Transaction("nr", None, None, IndexPos(file),
                           WriteIndex([idx EXCEPT ![Place(idx, x)] = Touched(act, local, @)]),
                           local))

\* An update from another replica (HandleSyncService).
ReplicaTouch(act, m) ==
    /\ act \in ReplicaActs /\ ReaderFree /\ Idle
    /\ TouchChanges(act, FALSE, m) /\ CommitTouch(act, FALSE, m)
    /\ UNCHANGED <<disk, updt, synced, opened, renamed, mode, server, pages>>

\* The user acts on what a page shows of the thread.
\* syncUpdtNode writes the update to a file of its own, then calls touchThread.
BeginUpdate(act, x) ==
    /\ act \in UserActs /\ Up /\ updt = None
    /\ doc # None /\ Readable(file) /\ Has(ReadIndex(file), x) /\ (x \in Drafts => act # "see")
    /\ updt' = [act |-> act, id |-> x, at |-> "call"]
    /\ UNCHANGED <<disk, left, temp, todo, synced, opened, renamed, mode, server, pages>>

\* A seen mark that is there already is not logged, and there is no result.
CallTouch ==
    /\ mode \in {"up", "recover"} /\ Idle /\ updt # None /\ updt.at = "call"
    /\ IF file # <<>> /\ ~Readable(file) THEN Quit
       ELSE /\ IF TouchChanges(updt.act, TRUE, updt.id)
               THEN /\ CommitTouch(updt.act, TRUE, updt.id)
                    /\ updt' = [updt EXCEPT !.at = "wait"]
               ELSE /\ updt' = [updt EXCEPT !.at = IF updt.act = "see" THEN "none" ELSE "log"]
                    /\ UNCHANGED <<left, temp, todo>>
            /\ UNCHANGED <<disk, synced, opened, renamed, mode, server, pages>>

\* A tag of a draft is not logged.
LogUpdate ==
    /\ mode \in {"up", "recover"} /\ updt # None /\ updt.at = "log"
    /\ synced' = IF updt.id \in Ids THEN synced \cup {<<updt.act, updt.id>>} ELSE synced
    /\ updt' = [updt EXCEPT !.at = "end"]
    /\ UNCHANGED <<disk, left, temp, todo, opened, renamed, mode, server, pages>>

\* The recovery calls the result without a look at it (completeUpdtNode).
EndUpdate ==
    /\ mode \in {"up", "recover"} /\ updt # None /\ updt.at \in {"end", "none"}
    /\ updt' = None
    /\ mode' = IF mode = "recover" /\ updt.at = "none" THEN "panic" ELSE mode
    /\ UNCHANGED <<disk, left, temp, todo, synced, opened, renamed, server, pages>>

-----------------------------------------------------------------------------
(* Crashes and recovery. *)

\* The process ends; a copy into the thread file may be half done.
Crash ==
    /\ mode \in {"up", "recover"} /\ crashes < MaxCrash
    /\ UpdateCrash \/ updt = None
    /\ temp # None /\ SentReply(temp) => ReplyCrash
    /\ crashes' = crashes + 1 /\ mode' = "down"
    /\ left' = IF temp = None THEN left ELSE left \cup {temp}
    /\ file' \in {file} \cup
           (IF Step("write") THEN {Overlay(n) : n \in 0..Len(temp.new)} ELSE {})
    /\ temp' = None /\ todo' = <<>> /\ opened' = None /\ renamed' = FALSE
    /\ updt' = IF updt = None THEN None ELSE [updt EXCEPT !.at = "call"]
    /\ UNCHANGED <<drafts, queued, doc, listed, synced, server, shown>>

\* initServices; updates are resumed first, by CallTouch.
Restart ==
    /\ mode \in {"down", "panic"} /\ mode' = "recover"
    /\ UNCHANGED <<disk, left, temp, todo, updt, synced, opened, renamed, server, pages>>

\* Mutant: what is left is thrown away.
Resume_Not(t) ==
    /\ mode = "recover" /\ Idle /\ updt = None
    /\ left' = left \ {t}
    /\ UNCHANGED <<disk, temp, todo, updt, synced, opened, renamed, mode, server, pages>>

\* What completeThread copies of the temporary file.  It reads the index of a sent
\* message last (fIdx), which leaves the file at that place, and not at its start
\* as before the crash: the body of a reply is not copied.
FromIndex(f) == SubSeq(f, IndexPos(f) + 1, Len(f))
Reopened(t) == IF SentReply(t) THEN [t EXCEPT !.new = FromIndex(@)] ELSE t

\* completeThread does all the steps of a transaction that was left, in no
\* particular order when there are two.
Resume(t) ==
    /\ mode = "recover" /\ Idle /\ updt = None
    /\ temp' = Reopened(t) /\ todo' = Steps(t) /\ left' = left \ {t}
    /\ UNCHANGED <<disk, updt, synced, opened, renamed, mode, server, pages>>

Recovered ==
    /\ mode = "recover" /\ Idle /\ updt = None /\ left = {}
    /\ mode' = "up"
    /\ UNCHANGED <<disk, left, temp, todo, updt, synced, opened, renamed, server, pages>>

-----------------------------------------------------------------------------
(* The server. *)

ClientSame == UNCHANGED <<disk, left, temp, todo, updt, synced, opened, renamed, mode, pages>>

\* Somebody else, or another replica, writes to the thread.
Post ==
    /\ nextId <= MaxId /\ (First = "sent" => nextId > Tid)
    /\ nextId' = nextId + 1
    /\ UNCHANGED <<acks, ours, got>> /\ ClientSame

\* A queued draft reaches the server; the sender waits for its ack before it
\* sends another (StopAndWait of SendQueue).  When the ack was lost the draft is
\* sent again; a thread is then the one of its last id, here 1 in any case.
Accept(d) ==
    /\ d \in queued /\ acks = {} /\ opened = None
    /\ LET m == IF d = NewDraft THEN Tid ELSE nextId
       IN  /\ d # NewDraft => nextId <= MaxId
           /\ acks' = acks \cup {<<d, m>>} /\ ours' = ours \cup {m}
           /\ nextId' = IF m = nextId THEN nextId + 1 ELSE nextId
    /\ UNCHANGED got /\ ClientSame

LoseAck(a) ==
    /\ a \in acks /\ acks' = acks \ {a}
    /\ UNCHANGED <<nextId, ours, got>> /\ ClientSame

-----------------------------------------------------------------------------
Init ==
    /\ file = IF First # "forwarded" THEN <<>>
              ELSE LET n == Cardinality(Forwarded)
                       off[m \in 1..n] == IF m = 1 THEN 0 ELSE off[m-1] + Size[m-1]
                   IN  FlattenSeq([m \in 1..n |-> Body(m)])
                       \o WriteIndex([m \in 1..n |->
                              Entry(m, off[m], Size[m], "no", FALSE, "by")])
    /\ doc = IF file = <<>> THEN None ELSE Summary(ReadIndex(file))
    /\ drafts = {} /\ queued = {} /\ listed = FALSE
    /\ left = {} /\ temp = None /\ todo = <<>>
    /\ updt = None /\ synced = {}
    /\ opened = None /\ renamed = FALSE /\ mode = "up"
    /\ nextId = Cardinality(Forwarded) + 1
    /\ acks = {} /\ ours = {} /\ got = Forwarded
    /\ shown = {} /\ crashes = 0

User(d) == SaveDraft(d) \/ DiscardDraft(d) \/ SendDraft(d)
Reader ==
    \/ \E m \in Ids : Receive(m) \/ Confirm(m, TRUE) \/ Confirm(m, FALSE)
    \/ \E d \in Drafts, m \in Ids : ReadAck(d, m)
    \/ StoreSent
Touch ==
    \/ \E act \in Acts, x \in Ids \cup Drafts :
          ReplicaTouch(act, x) \/ BeginUpdate(act, x)
    \/ CallTouch \/ LogUpdate \/ EndUpdate
Recovery == (\E t \in left : Resume(t)) \/ Recovered \/ Restart
Server == Post \/ (\E d \in Drafts : Accept(d)) \/ (\E a \in acks : LoseAck(a))

Next == Complete \/ Reader \/ (\E d \in Drafts : User(d)) \/ Touch \/ Crash \/ Recovery \/ Server

Spec == Init /\ [][Next]_vars
FairSpec == Spec /\ WF_vars(Complete) /\ WF_vars(Recovery)

-----------------------------------------------------------------------------
(* Properties. *)

\* The index as it is once the committed transactions are complete.
Pending == ({temp} \ {None}) \cup left
Index ==
    IF \E t \in Pending : t.new # <<>>
    THEN ReadIndex((CHOOSE t \in Pending : t.new # <<>>).new)
    ELSE IF file = <<>> THEN <<>> ELSE ReadIndex(file)
Elements == LET idx == Index IN {idx[i] : i \in DOMAIN idx}

\* The thread file as it is then, and the messages whose bodies are where their
\* entries say.
Completed ==
    IF \E t \in Pending : t.new # <<>>
    THEN LET t == CHOOSE t \in Pending : t.new # <<>> IN SubSeq(file, 1, t.pos) \o t.new
    ELSE file
Holds(f, e) ==
    e.off + e.size <= Len(f) /\ SubSeq(f, e.off + 1, e.off + e.size) = Body(e.id)
Messages == {e.id : e \in {x \in Elements : Stored(x) /\ Holds(Completed, x)}}
UserDrafts ==
    (drafts \cup {t.draft : t \in {p \in Pending : p.op = "ws"}})
        \ {t.draft : t \in {p \in Pending : p.op \in {"ds", "ss"}}}
\* The first draft of a thread is tagged as long as it is a draft.
Unseen == {e.id : e \in {x \in Elements : x.seen = "no"}}
Tagged == {e.id : e \in {x \in Elements : x.tag}} \cup (UserDrafts \cap {NewDraft})
AtRest == Up /\ Idle

\* Types.  Every transaction that is committed holds a whole index: the recovery
\* of the thread needs nothing else.
TypeOK ==
    /\ file \in Seq(Cell)
    /\ drafts \subseteq Drafts /\ queued \subseteq Drafts /\ listed \in BOOLEAN
    /\ doc # None => doc \in [count: Nat, unread: BOOLEAN, tagged: BOOLEAN]
    /\ Pending \subseteq Transactions
    /\ \A t \in Pending : t.new # <<>> => Readable(t.new)
    /\ Range(todo) \subseteq {"rmdraft", "lndraft", "dequeue", "synctags", "link",
                              "trunc", "write", "index", "drop"}
    /\ temp = None <=> Idle
    /\ updt # None => updt \in [act: Acts, id: Ids \cup Drafts,
                                at: {"call", "wait", "log", "end", "none"}]
    /\ synced \subseteq Acts \X Ids
    /\ opened # None => opened \in [draft: Drafts, mid: Ids]
    /\ renamed \in BOOLEAN /\ mode \in {"up", "down", "recover", "quit", "panic"}
    /\ nextId \in 1..(MaxId + 1) /\ acks \subseteq Drafts \X Ids
    /\ ours \subseteq Ids /\ got \subseteq Ids /\ shown \subseteq Drafts /\ crashes \in 0..MaxCrash

\* No step meets a state that the code takes for impossible: an unreadable index,
\* entries out of file order, a draft entry without a file, the door of a
\* renamed thread (quit in _readTail, _newThreadStream, storeDraftThread...),
\* and a recovery does not end the process in its turn.
NoFatal == mode \notin {"quit", "panic"}

\* Between two transactions the thread file is an index in the order of the
\* bodies, which fill the file up to the index, each under its own entry.
\* The insertion of a message in the middle moves the others and their offsets.
WellFormed ==
    /\ TypeOK
    /\ AtRest /\ file # <<>> =>
        LET idx == ReadIndex(file)
            Covers(i, c) == Stored(idx[i]) /\ idx[i].off < c /\ c <= idx[i].off + idx[i].size
        IN  /\ Readable(file) /\ Streamable(idx)
            /\ IsInjective([i \in DOMAIN idx |-> idx[i].id])
            /\ \A c \in 1..IndexPos(file) :
                  \E i \in DOMAIN idx : Covers(i, c) /\ file[c] = <<"body", idx[i].id>>

\* Messages are shown in the order of their ids, whatever order they came in.
MessagesInOrder ==
    \A i, j \in DOMAIN Index :
        i < j /\ Stored(Index[i]) /\ Stored(Index[j]) => Index[i].id < Index[j].id

\* Whoever looks at the thread between two transactions finds the same drafts in
\* the directory and in the index, and none of them queued without its file.
DraftsAgree ==
    AtRest =>
        /\ drafts \cap Replies = {e.id : e \in {x \in Elements : ~Stored(x)}}
        /\ queued \subseteq drafts
        /\ listed <=> NewDraft \in drafts

\* The search document is the summary of the index.
SearchAgrees == AtRest => doc = IF file = <<>> THEN None ELSE Summary(ReadIndex(file))

\* A message the server will not send again, and one of ours whose draft is gone, is
\* in the thread and stays there, with its body where its entry says.
NothingLost == got \subseteq Messages

\* A message the user saw here is seen on the other replicas: the mark is logged
\* or about to be ("message seen status ... is kept in sync", docs.html).
SeenIsSynced ==
    Up /\ updt = None =>
        \A e \in Elements : e.seen = "here" => <<"see", e.id>> \in synced

\* The store keeps the promises of ThreadLog through every crash: a transaction
\* takes effect at once, when its temporary file is renamed.
Abstract == INSTANCE ThreadLog WITH
    Msg <- Ids, Draft <- Drafts,
    log <- Messages,
    drafts <- UserDrafts,
    unseen <- Unseen,
    tagged <- Tagged
ImplementsLog == Abstract!Spec

\* After a crash the service starts again, whatever it left half done.
Recovers == mode = "down" ~> mode = "up"
=============================================================================
