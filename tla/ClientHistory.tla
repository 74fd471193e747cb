--------------------------- MODULE ClientHistory ---------------------------
(* The threads a client has visited (src/slib/state.go): History and Hpos,    *)
(* the page's back and forward buttons, and Thread[].Refs, which says how long *)
(* the page state of a thread is kept.  A draft's local id becomes the id the  *)
(* server gives it, and a discarded draft goes away: the handler tells every   *)
(* connected client, one after the other, after it has changed the thread.    *)
(* Positions count from 1; 0 is the code's -1.                                *)
EXTENDS Integers, Sequences, FiniteSets, SequencesExt

CONSTANTS Client,    \* client ids
          Topic,     \* the threads there may be
          Sent,      \* those the account has at the start
          HistoryLen,\* the lengths a configuration may ask for
          Hasty,     \* may a user act before the page has caught up
          MaxRefs    \* bound: the references a thread may have when it is opened

ASSUME HistoryAssumption == /\ Sent \subseteq Topic
                            /\ HistoryLen \subseteq Nat \ {0, 1} /\ HistoryLen # {}
                            /\ Hasty \in BOOLEAN /\ MaxRefs \in Nat

VARIABLES place,     \* thread -> absent, draft, sent or gone
          online,    \* ccs: the clients connected
          hist,      \* client -> History
          hpos,      \* client -> Hpos
          refs,      \* client -> thread id -> Refs, for the ids in Thread
          hmax,      \* client -> historyMax
          calls      \* handlers that have yet to tell clients
histVars == <<place, online, hist, hpos, refs, hmax, calls>>

Id == Topic \X {"draft", "sent"}
LocalId(t) == <<t, "draft">>
MsgId(t) == <<t, "sent">>
Call == [op : {"rename", "discard"}, id : Id, by : Client \union {"other"},
         begun : BOOLEAN, left : SUBSET Client]

Awaits(k, c) == k.begun => c \in k.left

(* A connection handles one request at a time. *)
Free(c) == c \in online /\ \A k \in calls : k.by # c

Current(c) == IF hpos[c] = 0 THEN <<>> ELSE hist[c][hpos[c]]
Count(id, seq) == Cardinality({i \in DOMAIN seq : seq[i] = id})
Without(f, s) == [x \in DOMAIN f \ s |-> f[x]]

HistoryInit ==
  /\ place = [t \in Topic |-> IF t \in Sent THEN "sent" ELSE "absent"]
  /\ online = {} /\ calls = {}
  /\ hist = [c \in Client |-> <<>>] /\ hpos = [c \in Client |-> 0]
  /\ refs = [c \in Client |-> [x \in {} |-> 0]]
  /\ hmax \in [Client -> HistoryLen]

(* fDropRef for every position of seq. *)
DropRefs(r, seq) ==
  LET left(x) == r[x] - Count(x, seq)
  IN  [x \in {y \in DOMAIN r : left(y) > 0} |-> left(x)]

\* Mutant: a thread opened again counts as one.
AddRef_Anew(r, id) == (id :> 1) @@ r

AddRef(r, id) == [x \in DOMAIN r \union {id} |-> IF x # id THEN r[x]
                                          ELSE IF id \in DOMAIN r THEN r[id] + 1 ELSE 1]

(* The position a new thread takes: an A-B-A-B repetition goes back instead. *)
NextPos(h, p, id) == IF p >= 3 /\ id = h[p - 1] /\ h[p] = h[p - 2] THEN p - 1 ELSE p + 1

(* Does an entry at q exceed the length?  The oldest one goes then. *)
IsFull(c, q) == q > hmax[c]

(* _addThread of client c. *)
AddThread(c, id) ==
  LET h == hist[c]  q == NextPos(h, hpos[c], id)
      cut == SubSeq(h, q, Len(h))
      new == Append(SubSeq(h, 1, q - 1), id)
      shift == IsFull(c, q)
  IN  IF id \in DOMAIN refs[c] /\ id = Current(c)
      THEN UNCHANGED <<hist, hpos, refs>>
      ELSE /\ hist' = [hist EXCEPT ![c] = IF shift THEN Tail(new) ELSE new]
           /\ hpos' = [hpos EXCEPT ![c] = IF shift THEN q - 1 ELSE q]
           /\ refs' = [refs EXCEPT ![c] =
                 DropRefs(AddRef(@, id), IF shift THEN Append(cut, new[1]) ELSE cut)]

(* History[Hpos] of an empty history, for an id whose entry is still there. *)
Panics(c, id) == hist[c] = <<>> /\ id \in DOMAIN refs[c]

InBound(c, id) == id \in DOMAIN refs[c] => refs[c][id] < MaxRefs

(* A page connects: its state is read from its file, or is there already; the  *)
(* length is what the configuration then asks for.                            *)
Connect(c) ==
  /\ c \notin online /\ \A k \in calls : ~k.begun
  /\ online' = online \union {c}
  /\ \E n \in HistoryLen : hmax' = [hmax EXCEPT ![c] = n]
  /\ UNCHANGED <<place, hist, hpos, refs, calls>>

Disconnect(c) ==
  /\ c \in online /\ \A k \in calls : ~k.begun
  /\ online' = online \ {c}
  /\ UNCHANGED <<place, hist, hpos, refs, hmax, calls>>

(* A restart: the clients' files are as they were last stored. *)
Restart ==
  /\ online # {}
  /\ online' = {} /\ calls' = {}
  /\ UNCHANGED <<place, hist, hpos, refs, hmax>>

(* thread_save of a new thread. *)
NewDraft(c, t) ==
  /\ Free(c) /\ place[t] = "absent"
  /\ place' = [place EXCEPT ![t] = "draft"]
  /\ AddThread(c, LocalId(t))
  /\ UNCHANGED <<online, hmax, calls>>

Listed(id) == place[id[1]] = id[2]

(* May the page of c offer id?  It lists the threads there are, and learns of a  *)
(* change when its client is told; a hasty user acts on an older or newer list. *)
Offered(c, id) ==
  LET told == \A k \in calls : Awaits(k, c) => k.id # LocalId(id[1])
  IN  IF Hasty THEN place[id[1]] # "absent" /\ (id[2] = "sent" => Listed(id))
      ELSE IF told THEN Listed(id) ELSE id[2] = "draft"

(* navigate_thread: addThread *)
Navigate(c, id) ==
  /\ Free(c) /\ Offered(c, id) /\ ~Panics(c, id) /\ InBound(c, id)
  /\ AddThread(c, id)
  /\ UNCHANGED <<place, online, hmax, calls>>

(* navigate_link: goLink, for a thread whose file is there *)
GoLink(c, id) ==
  /\ Free(c) /\ Offered(c, id) /\ Listed(id) /\ ~Panics(c, id) /\ InBound(c, id)
  /\ Current(c) # id /\ AddThread(c, id)
  /\ UNCHANGED <<place, online, hmax, calls>>

(* navigate_history: goThread *)
GoThread(c, d) ==
  /\ Free(c) /\ hpos[c] + d \in DOMAIN hist[c]
  /\ hpos' = [hpos EXCEPT ![c] = @ + d]
  /\ UNCHANGED <<place, online, hist, refs, hmax, calls>>

(* config_update: only the state of the client that asks gets the new length   *)
(* at once (setHistoryMax).                                                    *)
SetHistoryMax(c, n) ==
  /\ Free(c) /\ n # hmax[c]
  /\ hmax' = [hmax EXCEPT ![c] = n]
  /\ UNCHANGED <<place, online, hist, hpos, refs, calls>>

(* Another page, whose history is not followed here, saves or discards. *)
NewDraftElsewhere(t) ==
  /\ place[t] = "absent"
  /\ place' = [place EXCEPT ![t] = "draft"]
  /\ UNCHANGED <<online, hist, hpos, refs, hmax, calls>>

NewCall(op, id, by) == [op |-> op, id |-> id, by |-> by, begun |-> FALSE, left |-> {}]

(* The ack of a new thread: storeSentThread has given the file its new name. *)
StoreSent(t) ==
  /\ place[t] = "draft"
  /\ place' = [place EXCEPT ![t] = "sent"]
  /\ calls' = calls \union {NewCall("rename", LocalId(t), "other")}
  /\ UNCHANGED <<online, hist, hpos, refs, hmax>>

(* thread_discard: the draft the page names goes, and the thread the client    *)
(* shows leaves the histories.  A hasty user has gone on to another thread.    *)
Discard(c, t) ==
  /\ Free(c) /\ hpos[c] # 0 /\ place[t] # "absent"
  /\ Hasty \/ Current(c) = LocalId(t)
  /\ place' = [place EXCEPT ![t] = IF @ = "draft" THEN "gone" ELSE @]
  /\ calls' = calls \union {NewCall("discard", Current(c), c)}
  /\ UNCHANGED <<online, hist, hpos, refs, hmax>>

DiscardElsewhere(t) ==
  /\ place[t] = "draft"
  /\ place' = [place EXCEPT ![t] = "gone"]
  /\ calls' = calls \union {NewCall("discard", LocalId(t), "other")}
  /\ UNCHANGED <<online, hist, hpos, refs, hmax>>

(* ccs.Range begins: it holds the list of connections until its end. *)
Begin(k) ==
  /\ ~k.begun
  /\ calls' = (calls \ {k}) \union (IF online = {} THEN {}
                                    ELSE {[k EXCEPT !.begun = TRUE, !.left = online]})
  /\ UNCHANGED <<place, online, hist, hpos, refs, hmax>>

Told(k, c) ==
  calls' = (calls \ {k}) \union (IF k.left = {c} THEN {} ELSE {[k EXCEPT !.left = @ \ {c}]})

(* Thread[new] = Thread[old], and old is deleted. *)
Renamed(r, old, new) ==
  [x \in (DOMAIN r \union {new}) \ {old} |-> IF x = new THEN r[old] ELSE r[x]]

\* Mutant: only the current place gets the new id.
RenameThread_Here(k, c) ==
  /\ k.op = "rename" /\ c \in k.left
  /\ IF k.id \notin DOMAIN refs[c] THEN UNCHANGED <<hist, refs>>
     ELSE /\ refs' = [refs EXCEPT ![c] = Renamed(@, k.id, MsgId(k.id[1]))]
          /\ hist' = [hist EXCEPT ![c][hpos[c]] = IF @ = k.id THEN MsgId(k.id[1]) ELSE @]
  /\ Told(k, c)
  /\ UNCHANGED <<place, online, hpos, hmax>>

(* renameThread *)
RenameThread(k, c) ==
  LET new(id) == IF id = k.id THEN MsgId(id[1]) ELSE id
  IN  /\ k.op = "rename" /\ c \in k.left
      /\ IF k.id \notin DOMAIN refs[c] THEN UNCHANGED <<hist, refs>>
         ELSE /\ refs' = [refs EXCEPT ![c] = Renamed(@, k.id, MsgId(k.id[1]))]
              /\ hist' = [hist EXCEPT ![c] = [i \in DOMAIN @ |-> new(@[i])]]
      /\ Told(k, c)
      /\ UNCHANGED <<place, online, hpos, hmax>>

(* One turn of discardThread's loop: if both neighbours of an entry are the same *)
(* thread, one of them goes with it.                                            *)
DiscardAt(s, a, id) ==
  LET n == IF a > 1 /\ a < Len(s.h) /\ s.h[a - 1] = s.h[a + 1] THEN 2 ELSE 1
      h == SubSeq(s.h, 1, a - 1) \o SubSeq(s.h, a + n, Len(s.h))
      p == IF s.p = a THEN a - 1 ELSE IF s.p > a THEN s.p - n ELSE s.p
  IN  IF s.h[a] # id THEN s
      ELSE [h |-> h, p |-> IF p < 1 /\ h # <<>> THEN 1 ELSE p]

(* discardThread, from the end of the history to its start *)
DiscardThread(k, c) ==
  LET done[a \in 1..Len(hist[c]) + 1] ==
        IF a > Len(hist[c]) THEN [h |-> hist[c], p |-> hpos[c]] ELSE DiscardAt(done[a + 1], a, k.id)
  IN  /\ k.op = "discard" /\ c \in k.left
      /\ IF k.id \notin DOMAIN refs[c] THEN UNCHANGED <<hist, hpos, refs>>
         ELSE /\ refs' = [refs EXCEPT ![c] = Without(@, {k.id})]
              /\ hist' = [hist EXCEPT ![c] = done[1].h]
              /\ hpos' = [hpos EXCEPT ![c] = done[1].p]
      /\ Told(k, c)
      /\ UNCHANGED <<place, online, hmax>>

HistoryNext ==
  \/ \E c \in Client : Connect(c) \/ Disconnect(c)
  \/ Restart
  \/ \E c \in Client, t \in Topic : NewDraft(c, t) \/ Discard(c, t)
  \/ \E c \in Client, id \in Id : Navigate(c, id) \/ GoLink(c, id)
  \/ \E c \in Client : GoThread(c, -1) \/ GoThread(c, 1)
  \/ \E c \in Client, n \in HistoryLen : SetHistoryMax(c, n)
  \/ \E t \in Topic : StoreSent(t) \/ NewDraftElsewhere(t) \/ DiscardElsewhere(t)
  \/ \E k \in calls : Begin(k)
  \/ \E k \in calls, c \in Client : RenameThread(k, c) \/ DiscardThread(k, c)

HistorySpec == HistoryInit /\ [][HistoryNext]_histVars
-----------------------------------------------------------------------------
(* The types: a client's position is in its history, or 0 if that is empty.   *)
HistoryTypeOK ==
  /\ place \in [Topic -> {"absent", "draft", "sent", "gone"}]
  /\ hmax \in [Client -> HistoryLen]
  /\ online \subseteq Client /\ calls \subseteq Call
  /\ \A c \in Client :
       /\ hist[c] \in Seq(Id) /\ refs[c] \in [DOMAIN refs[c] -> Nat \ {0}]
       /\ IF hist[c] = <<>> THEN hpos[c] = 0 ELSE hpos[c] \in DOMAIN hist[c]

(* Every thread of a history has its page state, and is counted at least as    *)
(* often as it is there: going back never meets a thread without state         *)
(* (GetSummary, getThreadTab and openMsg would fail on it).                    *)
HistoryHasState ==
  \A c \in Client : \A id \in Range(hist[c]) :
    id \in DOMAIN refs[c] /\ refs[c][id] >= Count(id, hist[c])

(* Back and forward always show another thread: no step leaves a thread twice   *)
(* in a row (discardThread takes out one of its two neighbours).               *)
NoRepeat == \A c \in Client : \A i \in 1..Len(hist[c]) - 1 : hist[c][i] # hist[c][i + 1]

(* A client that is told of a new name or of a discard keeps no place of the    *)
(* old id, however often and wherever its history has it.                      *)
ToldForgets ==
  [][\A k \in calls, c \in Client :
       RenameThread(k, c) \/ DiscardThread(k, c) => k.id \notin Range(hist'[c])]_histVars

(* After a client opens a thread, one step back is the thread it showed.       *)
BackIsPrevious ==
  [][\A c \in Client, id \in Id :
       hpos[c] # 0 /\ Current(c) # id /\ (Navigate(c, id) \/ GoLink(c, id)) =>
         hist'[c][hpos'[c]] = id /\ hpos'[c] > 1 /\ hist'[c][hpos'[c] - 1] = Current(c)]_histVars

(* "if max < len(o.History), o.History shrinks on back+add": a history above    *)
(* the maximum never grows, and one that grows is not above it.                *)
NeverGrowsPast ==
  [][\A c \in Client : Len(hist'[c]) > Len(hist[c]) => Len(hist'[c]) <= hmax[c]]_histVars

(* The history is whole: positions in it, page state for every thread, and no     *)
(* thread twice in a row, however drafts were renamed and discarded meanwhile     *)
(* (state.go:309-363 edits it in place).                                          *)
HistorySound == HistoryTypeOK /\ HistoryHasState /\ NoRepeat

(* What a step does to it: back is the thread shown before, a renamed or          *)
(* discarded thread is gone from all of it, and it grows only up to its maximum.  *)
HistoryMoves == BackIsPrevious /\ ToldForgets /\ NeverGrowsPast
=============================================================================
