-------------------------------- MODULE Ohi --------------------------------
(* Whom this user tells that it is online (src/slib/ohi.go): a file of users, set *)
(* by requests of pages and by answers of the server to this or another replica;  *)
(* and who tells it, which is kept while the account is logged in.  A behaviour   *)
(* may have a fault: an answer overtakes the request, or the server refuses one.   *)
EXTENDS Integers, Sequences, FiniteSets, SequencesExt

CONSTANTS OhiUser,     \* other users
          OhiFaults,   \* of "none", "overtakes", "refuses": those considered
          MaxEdits, MaxStatus, MaxOhiCrashes   \* bounds

ASSUME OhiAssumption == /\ OhiFaults \subseteq {"none", "overtakes", "refuses"}
                        /\ {MaxEdits, MaxStatus, MaxOhiCrashes} \subseteq Nat

VARIABLES ohiFault,   \* the fault of this behaviour
          toOhi,      \* the file: user -> "none", "pending" or "told"
          editing,    \* users whose request has its record, but not its mark
          ohiQueue,   \* records, in order: op and user
          watched,    \* the server, which keeps them: users it tells
          ohiMail,    \* from the server, in order: answers, acks, status of users
          online,     \* the server: users that tell this one
          fromOhi,    \* who is here, when logged in
          login,      \* is the account logged in
          ohiSent,    \* is an ack awaited
          edits, statuses, ohiCrashes
ohiVars == <<ohiFault, toOhi, editing, ohiQueue, watched, ohiMail, online, fromOhi, login, ohiSent,
             edits, statuses, ohiCrashes>>

OhiInit ==
  /\ ohiFault \in OhiFaults /\ toOhi = [u \in OhiUser |-> "none"] /\ editing = {} /\ ohiQueue = <<>>
  /\ watched = {} /\ ohiMail = <<>> /\ online = {} /\ fromOhi = {} /\ login = FALSE
  /\ ohiSent = FALSE /\ edits = 0 /\ statuses = 0 /\ ohiCrashes = 0
-----------------------------------------------------------------------------
(* editOhi: the record, then the mark. *)
EditOhi(op, u) ==
  /\ edits < MaxEdits /\ u \notin editing
  /\ edits' = edits + 1
  /\ ohiQueue' = Append(ohiQueue, [op |-> op, who |-> u])
  /\ editing' = editing \union {u}
  /\ UNCHANGED <<ohiFault, toOhi, watched, ohiMail, online, fromOhi, login, ohiSent, statuses, ohiCrashes>>

MarkPending(u) ==
  /\ u \in editing
  /\ toOhi' = [toOhi EXCEPT ![u] = "pending"] /\ editing' = editing \ {u}
  /\ UNCHANGED <<ohiFault, ohiQueue, watched, ohiMail, online, fromOhi, login, ohiSent, edits, statuses,
                 ohiCrashes>>

(* SendAllOhi tells the server at login whom the file has, but for those pending. *)
AllOhi == {u \in OhiUser : toOhi[u] = "told"}

(* It says who is online, then what it could not deliver. *)
LoginOhi ==
  /\ ~login
  /\ login' = TRUE
  /\ ohiMail' = <<[kind |-> "info", op |-> "none", who |-> online]>> \o ohiMail
  /\ UNCHANGED <<ohiFault, toOhi, editing, ohiQueue, watched, online, fromOhi, ohiSent, edits, statuses,
                 ohiCrashes>>

(* sendEditOhi: every replica is told what the server did; and this one, an ack. *)
SendOhi ==
  /\ login /\ ohiQueue # <<>> /\ ~ohiSent
  /\ LET r == Head(ohiQueue)
         edit == [kind |-> "ohiedit", op |-> r.op, who |-> {r.who}]
         ack == [kind |-> "ack", op |-> "none", who |-> {}]
     IN  /\ r.who \notin editing \/ ohiFault = "overtakes"
         /\ ohiSent' = TRUE
         /\ \/ /\ watched' = IF r.op = "+" THEN watched \union {r.who} ELSE watched \ {r.who}
               /\ ohiMail' = ohiMail \o <<edit, ack>>
            \/ ohiFault = "refuses" /\ ohiMail' = Append(ohiMail, ack) /\ UNCHANGED watched
  /\ UNCHANGED <<ohiFault, toOhi, editing, ohiQueue, online, fromOhi, login, edits, statuses, ohiCrashes>>

(* Another replica adds or drops a user. *)
OhiElsewhere(op, u) ==
  /\ edits < MaxEdits
  /\ edits' = edits + 1
  /\ watched' = IF op = "+" THEN watched \union {u} ELSE watched \ {u}
  /\ ohiMail' = Append(ohiMail, [kind |-> "ohiedit", op |-> op, who |-> {u}])
  /\ UNCHANGED <<ohiFault, toOhi, editing, ohiQueue, online, fromOhi, login, ohiSent, statuses, ohiCrashes>>

(* Another user comes or goes. *)
ChangeStatus(u) ==
  /\ statuses < MaxStatus
  /\ statuses' = statuses + 1
  /\ online' = IF u \in online THEN online \ {u} ELSE online \union {u}
  /\ ohiMail' = IF ~login THEN ohiMail
                ELSE Append(ohiMail, [kind |-> "ohi", op |-> IF u \in online THEN "-" ELSE "+", who |-> {u}])
  /\ UNCHANGED <<ohiFault, toOhi, editing, ohiQueue, watched, fromOhi, login, ohiSent, edits, ohiCrashes>>

\* Mutant: the user stays in the map, as pending.
Gone_Marked(map, u) == [map EXCEPT ![u] = IF @ = "pending" THEN @ ELSE "none"]

Gone(map, u) == [map EXCEPT ![u] = "none"]

FromAdded(set, e) == IF e.op = "+" THEN set \union e.who ELSE set \ e.who

(* HandleTmtpService: setFromOhi, updateFromOhi, updateOhi; the ack drops the record. *)
HandleOhi ==
  /\ login /\ ohiMail # <<>>
  /\ ohiMail' = Tail(ohiMail)
  /\ LET e == Head(ohiMail)
     IN  /\ fromOhi' = CASE e.kind = "info" -> e.who
                         [] e.kind = "ohi" -> FromAdded(fromOhi, e)
                         [] OTHER -> fromOhi
         /\ toOhi' = IF e.kind # "ohiedit" THEN toOhi
                     ELSE LET u == CHOOSE u \in e.who : TRUE
                          IN  IF e.op = "+" THEN [toOhi EXCEPT ![u] = "told"] ELSE Gone(toOhi, u)
         /\ IF e.kind = "ack" THEN ohiQueue' = Tail(ohiQueue) /\ ohiSent' = FALSE
            ELSE UNCHANGED <<ohiQueue, ohiSent>>
  /\ UNCHANGED <<ohiFault, editing, watched, online, login, edits, statuses, ohiCrashes>>

Undelivered(mail) ==
  LET kept[i \in 0..Len(mail)] ==
        IF i = 0 THEN <<>>
        ELSE IF mail[i].kind = "ohiedit" THEN Append(kept[i - 1], mail[i]) ELSE kept[i - 1]
  IN  kept[Len(mail)]

(* The process ends, or the connection (LogoutService, dropFromOhi); what the        *)
(* server had sent comes again at the next login, but for acks.                     *)
EndOhi(crash) ==
  /\ login /\ ohiCrashes < MaxOhiCrashes
  /\ ohiCrashes' = ohiCrashes + 1
  /\ login' = FALSE /\ fromOhi' = {} /\ ohiSent' = FALSE
  /\ ohiMail' = Undelivered(ohiMail)
  /\ editing' = IF crash THEN {} ELSE editing
  /\ UNCHANGED <<ohiFault, toOhi, ohiQueue, watched, online, edits, statuses>>

OhiNext ==
  \/ \E op \in {"+", "-"}, u \in OhiUser : EditOhi(op, u) \/ OhiElsewhere(op, u)
  \/ \E u \in OhiUser : MarkPending(u) \/ ChangeStatus(u)
  \/ LoginOhi \/ SendOhi \/ HandleOhi
  \/ \E crash \in BOOLEAN : EndOhi(crash)
OhiSpec == OhiInit /\ [][OhiNext]_ohiVars
-----------------------------------------------------------------------------
OhiTypeOK ==
  /\ toOhi \in [OhiUser -> {"none", "pending", "told"}] /\ editing \subseteq OhiUser
  /\ watched \subseteq OhiUser /\ fromOhi \subseteq OhiUser
  /\ \A i \in DOMAIN ohiMail : ohiMail[i].kind = "ack" => ohiSent /\ ohiQueue # <<>>

Awaited(u) ==
  \/ u \in editing \/ \E i \in DOMAIN ohiQueue : ohiQueue[i].who = u
  \/ \E i \in DOMAIN ohiMail : ohiMail[i].kind = "ohiedit" /\ u \in ohiMail[i].who

(* When all is answered the file is what the server knows, so that the list given  *)
(* at the next login drops nobody: the mark of editOhi, which is written after its *)
(* record ("can cause race with updateOhi()?", ohi.go:113), does not outlive the    *)
(* answer, unless the answer comes first or the request was refused.               *)
FileAgrees ==
  ohiFault = "none" => \A u \in OhiUser : ~Awaited(u) =>
    toOhi[u] # "pending" /\ (u \in AllOhi) = (u \in watched)

(* Those shown as online are those that are, when the server's news is handled;     *)
(* none of an earlier login is kept.                                                *)
FromAgrees ==
  login /\ (\A i \in DOMAIN ohiMail : ohiMail[i].kind \notin {"info", "ohi"}) => fromOhi = online

(* Both maps agree with the server once its mail is handled. *)
OhiSound == OhiTypeOK /\ FileAgrees /\ FromAgrees
=============================================================================
