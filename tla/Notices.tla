------------------------------ MODULE Notices ------------------------------
(* The notices of an account (src/slib/notice.go): a list in the order they came, *)
(* in which those seen together, up to one the user saw, have one number.  Sets   *)
(* seen long ago are dropped, but for the last.  A replica may have seen a notice  *)
(* that is not in the list here, or no longer.                                     *)
EXTENDS Integers, Sequences, SequencesExt

CONSTANTS StaleReplica,  \* may a replica see a notice that was dropped here
          MaxNotices     \* bound

ASSUME NoticesAssumption == StaleReplica \in BOOLEAN /\ MaxNotices \in Nat

VARIABLES notice,   \* the list: ids, which number notices as they come, and when seen
          came,     \* notices so far
          aged,     \* those up to this id are older than kNoticeMaxHours
          sawUpTo   \* history: the last id a user saw, here or elsewhere
noticeVars == <<notice, came, aged, sawUpTo>>

NoticesInit == notice = <<>> /\ came = 0 /\ aged = 0 /\ sawUpTo = 0
-----------------------------------------------------------------------------
(* addPingNotice: a new one, or one that is there. *)
AddPingNotice(id) ==
  /\ id \in 1..came + 1 /\ came < MaxNotices
  /\ IF \E i \in DOMAIN notice : notice[i].id = id THEN UNCHANGED <<notice, came>>
     ELSE /\ id = came + 1 /\ came' = id
          /\ notice' = Append(notice, [id |-> id, seen |-> 0])
  /\ UNCHANGED <<aged, sawUpTo>>

Age(id) == id \in aged + 1..came /\ aged' = id /\ UNCHANGED <<notice, came, sawUpTo>>

\* Mutant: a new set is numbered from the first.
NextSet_First(list, i) == 1 + list[1].seen

(* Unseen ones become the next set after the last one before them; *)
NextSet(list, i) == 1 + (IF \A j \in 1..i : list[j].seen = 0 THEN 0
                         ELSE LET j == CHOOSE j \in 1..i : list[j].seen > 0 /\
                                         \A k \in j + 1..i : list[k].seen = 0
                              IN  list[j].seen)

Marked(list, upTo) ==
  [i \in DOMAIN list |-> IF list[i].seen > 0 \/ i > upTo THEN list[i]
                         ELSE [list[i] EXCEPT !.seen = NextSet(list, i)]]

(* a set that was seen starts where the number changes, *)
StartsSet(list, i) == i > 1 /\ list[i].seen # list[i - 1].seen /\ list[i].seen > 0

(* and what comes before the last of them is dropped when the notice before it is old. *)
Start(list, upTo) == LET S == {i \in 1..upTo : StartsSet(list, i) /\ list[i - 1].id <= aged}
                     IN  IF S = {} THEN 1 ELSE CHOOSE i \in S : \A j \in S : j <= i

(* setLastSeenNotice: up to the notice, or all of them when it is not there. *)
SetLastSeen(id) ==
  /\ notice # <<>> /\ (StaleReplica \/ id >= notice[1].id)
  /\ LET at == {i \in DOMAIN notice : notice[i].id = id}
         upTo == IF at = {} THEN Len(notice) ELSE CHOOSE i \in at : TRUE
     IN  /\ notice' = SubSeq(Marked(notice, upTo), Start(notice, upTo), Len(notice))
         /\ sawUpTo' = IF id > sawUpTo THEN id ELSE sawUpTo
  /\ UNCHANGED <<came, aged>>

NoticesNext ==
  \/ \E id \in 1..MaxNotices : AddPingNotice(id) \/ Age(id)
  \/ \E id \in 1..MaxNotices : SetLastSeen(id)
NoticesSpec == NoticesInit /\ [][NoticesNext]_noticeVars
-----------------------------------------------------------------------------
NoticesTypeOK ==
  /\ came \in 0..MaxNotices /\ aged \in 0..came /\ sawUpTo \in 0..MaxNotices
  /\ \A i \in DOMAIN notice : notice[i].id \in 1..came /\ notice[i].seen \in 0..MaxNotices
  /\ \A i, j \in DOMAIN notice : i < j =>
       notice[i].id < notice[j].id /\ (notice[j].seen > 0 => notice[i].seen \in 1..notice[j].seen)

(* Notices first seen together get a number above that of every set before, though *)
(* sets are dropped at the front: two sets are never taken for one, which would be  *)
(* kept or dropped whole (notice.go:63-75).                                          *)
SetsApart ==
  [][\A i \in DOMAIN notice, j \in DOMAIN notice' :
       notice[i].id = notice'[j].id /\ notice[i].seen # notice'[j].seen =>
         \A k \in DOMAIN notice : notice[k].seen < notice'[j].seen]_noticeVars

(* What was dropped had been seen, and was old; the last set seen is kept.          *)
DroppedWhenOld ==
  /\ \A id \in 1..came : (\A i \in DOMAIN notice : notice[i].id # id) => id <= sawUpTo /\ id <= aged
  /\ came > 0 => notice # <<>> /\ Last(notice).id = came

(* Only what the user saw, or came before it, is marked; a notice that is not here    *)
(* stands for later than all (notice.go:80 never ends the loop), if it was not        *)
(* dropped here before a replica saw it.                                              *)
MarkedWasSeen == \A i \in DOMAIN notice : notice[i].seen > 0 => notice[i].id <= sawUpTo

(* No notice is dropped, or marked as seen, that the user has not seen; and sets    *)
(* seen at different times stay apart.                                             *)
NoticesSound == [](NoticesTypeOK /\ DroppedWhenOld /\ MarkedWasSeen) /\ SetsApart
=============================================================================
