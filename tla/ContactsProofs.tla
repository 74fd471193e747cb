-------------------------- MODULE ContactsProofs ---------------------------
(***************************************************************************)
(* Theorems about Notices, for any number of notices, when no replica sees *)
(* a notice that was dropped here; and about UnreadCount, for any finite   *)
(* set of threads and any bounds, when no page opens the account between   *)
(* the update of a thread's document and its count; and about Ohi, for any *)
(* users, requests, restarts and mail: both maps agree with the server     *)
(* once its mail is handled.                                               *)
(***************************************************************************)
EXTENDS Notices, UnreadCount, Ohi, SequenceTheorems, FiniteSetTheorems, WellFoundedInduction, TLAPS

(* Notices *)

USE NoticesAssumption

\* A set of positions has a least one, and a last one.
LEMMA MinExists ==
    ASSUME NEW S \in SUBSET Nat, S # {}
    PROVE  \E m \in S : \A k \in S : m <= k
<1> DEFINE R == OpToRel(<, Nat)
<1>1. IsWellFoundedOn(R, Nat)
    BY NatLessThanWellFounded
<1>2. \A x, y \in Nat : <<x, y>> \in R <=> x < y
    BY DEF OpToRel
<1> HIDE DEF R
<1>3. PICK m \in S : \A k \in S : ~(<<k, m>> \in R)
    BY <1>1, WFMin
<1>4. ASSUME NEW k \in S PROVE m <= k
    <2>1. m \in Nat /\ k \in Nat /\ ~(k < m)
        BY <1>2, <1>3
    <2> QED BY <2>1
<1> QED BY <1>4

LEMMA MaxExists ==
    ASSUME NEW n \in Nat, NEW S \in SUBSET (1..n), S # {}
    PROVE  \E m \in S : \A j \in S : j <= m
<1> DEFINE T == {n - i : i \in S}
<1>1. T \in SUBSET Nat /\ T # {}
    <2>1. \A i \in S : n - i \in Nat
       OBVIOUS
    <2>2. PICK i \in S : TRUE
       OBVIOUS
    <2>3. n - i \in T
       OBVIOUS
    <2> QED BY <2>1, <2>3
<1>2. PICK m \in T : \A k \in T : m <= k
    BY <1>1, MinExists
<1>3. PICK i \in S : m = n - i
    OBVIOUS
<1>4. ASSUME NEW j \in S PROVE j <= i
    <2>1. m <= n - j /\ i \in 1..n /\ j \in 1..n
        BY <1>2
    <2> QED BY <1>3, <2>1
<1> QED BY <1>4
-----------------------------------------------------------------------------
\* The list without what was dropped at its front: the notices that came last,
\* in order.  Those seen are at the front, in sets numbered from the front; a
\* set has no greater number than its notices.
IInv ==
  /\ came \in 0..MaxNotices /\ aged \in 0..came /\ sawUpTo \in 0..MaxNotices
  /\ notice \in Seq([id : Nat, seen : Nat])
  /\ Len(notice) <= came /\ (came > 0 => Len(notice) > 0)
  /\ came - Len(notice) <= aged /\ came - Len(notice) <= sawUpTo
  /\ \A i \in 1..Len(notice) :
       /\ notice[i].id = came - Len(notice) + i
       /\ notice[i].seen <= notice[i].id
       /\ notice[i].seen > 0 => notice[i].id <= sawUpTo
  /\ \A i, j \in 1..Len(notice) :
       i < j /\ notice[j].seen > 0 => notice[i].seen \in 1..notice[j].seen

LEMMA NoticeTypes ==
    ASSUME IInv
    PROVE  /\ DOMAIN notice = 1..Len(notice) /\ Len(notice) \in Nat
           /\ came \in Nat /\ came - Len(notice) \in Nat
           /\ \A i \in 1..Len(notice) : notice[i].id \in Nat /\ notice[i].seen \in Nat
<1>1. /\ came \in Nat /\ notice \in Seq([id : Nat, seen : Nat]) /\ Len(notice) <= came
    BY DEF IInv
<1>2. DOMAIN notice = 1..Len(notice) /\ Len(notice) \in Nat
    BY <1>1, LenProperties
<1>3. \A i \in 1..Len(notice) : notice[i] \in [id : Nat, seen : Nat]
    BY <1>1, ElementOfSeq
<1> QED BY <1>1, <1>2, <1>3

LEMMA InvSound == IInv => NoticesTypeOK /\ DroppedWhenOld /\ MarkedWasSeen
<1> SUFFICES ASSUME IInv PROVE NoticesTypeOK /\ DroppedWhenOld /\ MarkedWasSeen
    OBVIOUS
<1>1. /\ DOMAIN notice = 1..Len(notice) /\ Len(notice) \in Nat
      /\ \A i \in 1..Len(notice) : notice[i].id \in Nat /\ notice[i].seen \in Nat
    BY NoticeTypes
<1>2. PICK n \in Nat : n = came - Len(notice)
    BY NoticeTypes
<1>3. /\ came \in 0..MaxNotices /\ aged \in 0..came /\ sawUpTo \in 0..MaxNotices
      /\ n <= aged /\ n <= sawUpTo /\ came = n + Len(notice) /\ (came > 0 => Len(notice) > 0)
      /\ notice \in Seq([id : Nat, seen : Nat])
    BY <1>1, <1>2 DEF IInv
<1>4. \A i \in 1..Len(notice) : notice[i].id = n + i /\ notice[i].seen <= notice[i].id
                              /\ (notice[i].seen > 0 => notice[i].id <= sawUpTo)
    BY <1>2 DEF IInv
<1>5. \A i, j \in 1..Len(notice) :
        i < j /\ notice[j].seen > 0 => notice[i].seen \in 1..notice[j].seen
    BY DEF IInv
<1>6. NoticesTypeOK
    <2>1. ASSUME NEW i \in 1..Len(notice) PROVE notice[i].id \in 1..came /\ notice[i].seen \in 0..MaxNotices
        <3>1. notice[i].id = n + i /\ notice[i].seen <= n + i /\ notice[i].seen \in Nat
            BY <1>1, <1>4
        <3> QED BY <1>1, <1>3, <3>1
    <2>2. ASSUME NEW i \in 1..Len(notice), NEW j \in 1..Len(notice), i < j
          PROVE  notice[i].id < notice[j].id /\ (notice[j].seen > 0 => notice[i].seen \in 1..notice[j].seen)
        <3>1. notice[i].id = n + i /\ notice[j].id = n + j
            BY <1>4
        <3>2. notice[j].seen > 0 => notice[i].seen \in 1..notice[j].seen
            BY <1>5, <2>2
        <3> QED BY <1>1, <2>2, <3>1, <3>2
    <2> QED BY <1>1, <1>3, <2>1, <2>2 DEF NoticesTypeOK
<1>7. DroppedWhenOld
    <2>1. ASSUME NEW id \in 1..came, \A i \in DOMAIN notice : notice[i].id # id
          PROVE  id <= sawUpTo /\ id <= aged
        <3>1. CASE id <= n
            BY <1>3, <3>1
        <3>2. CASE id > n
            <4>1. id - n \in 1..Len(notice) /\ n + (id - n) = id
                BY <1>1, <1>3, <3>2
            <4>2. notice[id - n].id = id
                BY <1>4, <4>1
            <4> QED BY <1>1, <2>1, <4>1, <4>2
        <3> QED BY <1>3, <3>1, <3>2
    <2>2. ASSUME came > 0 PROVE notice # <<>> /\ Last(notice).id = came
        <3>1. Len(notice) \in 1..Len(notice)
            BY <1>1, <1>3, <2>2
        <3>2. notice[Len(notice)].id = came
            BY <1>3, <1>4, <3>1
        <3> QED BY <1>1, <3>1, <3>2 DEF Last
    <2> QED BY <2>1, <2>2 DEF DroppedWhenOld
<1>8. MarkedWasSeen
    BY <1>1, <1>4 DEF MarkedWasSeen
<1> QED BY <1>6, <1>7, <1>8

-----------------------------------------------------------------------------
\* The notices that are not marked come after all that are; they get one number,
\* which is above those of all sets, and at most the id of each.
LEMMA NextSetAbove ==
    ASSUME IInv
    PROVE  \E n \in Nat \ {0} :
             /\ \A k \in 1..Len(notice) : notice[k].seen < n
             /\ \A i \in 1..Len(notice) :
                  notice[i].seen = 0 => NextSet(notice, i) = n /\ n <= notice[i].id
<1> DEFINE M == {j \in 1..Len(notice) : notice[j].seen > 0}
<1>1. /\ Len(notice) \in Nat
      /\ \A i \in 1..Len(notice) : notice[i].id \in Nat /\ notice[i].seen \in Nat
      /\ \A i \in 1..Len(notice) : notice[i].id = came - Len(notice) + i
      /\ came - Len(notice) \in Nat
    BY NoticeTypes DEF IInv
<1>2. CASE M = {}
    <2>1. \A k \in 1..Len(notice) : notice[k].seen = 0
        BY <1>1, <1>2
    <2>2. \A i \in 1..Len(notice) : NextSet(notice, i) = 1 /\ 1 <= notice[i].id
        BY <1>1, <2>1 DEF NextSet
    <2> QED BY <2>1, <2>2
<1>3. CASE M # {}
    <2>1. PICK m \in M : \A j \in M : j <= m
        BY <1>1, <1>3, MaxExists
    <2>2. m \in 1..Len(notice) /\ notice[m].seen \in Nat \ {0}
        BY <1>1, <2>1
    <2>3. \A k \in 1..Len(notice) : notice[k].seen <= notice[m].seen
        <3> TAKE k \in 1..Len(notice)
        <3>1. CASE notice[k].seen = 0
            BY <2>2, <3>1
        <3>2. CASE k = m
            BY <1>1, <2>2, <3>2
        <3>3. CASE notice[k].seen > 0 /\ k # m
            <4>1. k < m
                BY <2>1, <2>2, <3>3
            <4> QED BY <1>1, <2>2, <4>1, SMTT(30) DEF IInv
        <3> QED BY <1>1, <3>1, <3>2, <3>3
    <2>4. ASSUME NEW i \in 1..Len(notice), notice[i].seen = 0
          PROVE  NextSet(notice, i) = 1 + notice[m].seen /\ 1 + notice[m].seen <= notice[i].id
        <3>1. m < i
            <4>1. SUFFICES ASSUME i < m PROVE FALSE
                BY <2>2, <2>4
            <4>2. notice[i].seen \in 1..notice[m].seen
                BY <2>2, <2>4, <4>1 DEF IInv
            <4> QED BY <2>4, <4>2
        <3> DEFINE Q(j) == notice[j].seen > 0 /\ \A k \in j + 1..i : notice[k].seen = 0
        <3>2. m \in 1..i /\ Q(m)
            <4>1. \A k \in m + 1..i : k \in 1..Len(notice) /\ k \notin M
                BY <2>1, <2>2, <3>1
            <4> QED BY <1>1, <2>2, <3>1, <4>1
        <3>3. \A j \in 1..i : Q(j) => j = m
            <4> SUFFICES ASSUME NEW j \in 1..i, Q(j), j # m PROVE FALSE
                OBVIOUS
            <4>1. j \in M
                BY <2>4
            <4>2. m \in j + 1..i
                BY <2>1, <2>2, <3>1, <4>1
            <4> QED BY <2>2, <4>2
        <3>4. (CHOOSE j \in 1..i : Q(j)) = m
            BY <3>2, <3>3
        <3>5. ~(\A j \in 1..i : notice[j].seen = 0)
            BY <2>2, <3>2
        <3>6. NextSet(notice, i) = 1 + notice[m].seen
            BY <3>4, <3>5 DEF NextSet
        <3>7. notice[m].seen <= notice[m].id
            BY <2>2 DEF IInv
        <3>8. notice[m].id < notice[i].id
            <4>1. notice[m].id = came - Len(notice) + m /\ notice[i].id = came - Len(notice) + i
                BY <2>2 DEF IInv
            <4> QED BY <1>1, <2>2, <3>1, <4>1
        <3> QED BY <1>1, <2>2, <3>6, <3>7, <3>8
    <2> DEFINE n == 1 + notice[m].seen
    <2>5. n \in Nat \ {0} /\ \A k \in 1..Len(notice) : notice[k].seen < n
        BY <1>1, <2>2, <2>3
    <2> QED BY <2>4, <2>5
<1> QED BY <1>2, <1>3

\* What is dropped ends where a set that was seen begins, and was old.
LEMMA StartDrops ==
    ASSUME IInv, NEW upTo \in 1..Len(notice)
    PROVE  LET s == Start(notice, upTo)
           IN  /\ s \in 1..upTo
               /\ s > 1 => notice[s].seen > 0 /\ notice[s - 1].id <= aged
<1> DEFINE S == {i \in 1..upTo : StartsSet(notice, i) /\ notice[i - 1].id <= aged}
<1>1. CASE S = {}
    BY <1>1 DEF Start
<1>2. CASE S # {}
    <2>1. upTo \in Nat /\ S \in SUBSET (1..upTo)
        BY DEF IInv
    <2>2. \E i \in S : \A j \in S : j <= i
        BY <1>2, <2>1, MaxExists
    <2>3. Start(notice, upTo) \in S
        BY <1>2, <2>2 DEF Start
    <2> QED BY <2>3 DEF StartsSet
<1> QED BY <1>1, <1>2

-----------------------------------------------------------------------------
LEMMA InvInit == NoticesInit => IInv
BY EmptySeq DEF NoticesInit, IInv

\* A new notice goes to the end, unseen.
LEMMA AddKeeps ==
    ASSUME IInv, NEW id \in 1..MaxNotices, AddPingNotice(id)
    PROVE  /\ IInv' /\ \A i \in 1..Len(notice) : notice'[i] = notice[i]
           /\ came' - Len(notice') = came - Len(notice) /\ Len(notice') >= Len(notice)
<1>1. CASE UNCHANGED <<notice, came>>
    <2>1. Len(notice) \in Nat
        BY NoticeTypes
    <2>2. UNCHANGED <<notice, came, aged, sawUpTo>>
        BY <1>1 DEF AddPingNotice
    <2>3. IInv'
        BY <2>2, Zenon DEF IInv
    <2> QED BY <2>1, <2>2, <2>3
<1>2. CASE /\ came < MaxNotices /\ came' = came + 1
           /\ notice' = Append(notice, [id |-> came + 1, seen |-> 0])
    <2>1. Len(notice) \in Nat /\ came \in Nat
        BY DEF IInv
    <2>2. /\ notice' \in Seq([id : Nat, seen : Nat])
          /\ Len(notice') = Len(notice) + 1
          /\ \A i \in 1..Len(notice) : notice'[i] = notice[i]
          /\ notice'[Len(notice) + 1] = [id |-> came + 1, seen |-> 0]
        BY <1>2, <2>1, AppendProperties DEF IInv
    <2>3. UNCHANGED <<aged, sawUpTo>>
        BY DEF AddPingNotice
    <2>4. \A i \in 1..Len(notice') :
            /\ notice'[i].id = came' - Len(notice') + i
            /\ notice'[i].seen <= notice'[i].id
            /\ notice'[i].seen > 0 => notice'[i].id <= sawUpTo'
        <3> TAKE i \in 1..Len(notice')
        <3>1. i \in 1..Len(notice) \/ i = Len(notice) + 1
            BY <2>1, <2>2
        <3>2. came' - Len(notice') = came - Len(notice)
            BY <1>2, <2>1, <2>2
        <3>3. CASE i \in 1..Len(notice)
            BY <2>2, <2>3, <3>2, <3>3 DEF IInv
        <3>4. CASE i = Len(notice) + 1
            BY <1>2, <2>1, <2>2, <3>4
        <3> QED BY <3>1, <3>3, <3>4
    <2>5. \A i, j \in 1..Len(notice') :
            i < j /\ notice'[j].seen > 0 => notice'[i].seen \in 1..notice'[j].seen
        <3> TAKE i, j \in 1..Len(notice')
        <3> HAVE i < j /\ notice'[j].seen > 0
        <3>1. i < j /\ j # Len(notice) + 1 /\ i \in 1..Len(notice) + 1 /\ j \in 1..Len(notice) + 1
            BY <2>2
        <3>2. i \in 1..Len(notice) /\ j \in 1..Len(notice)
            BY <2>1, <3>1
        <3> QED BY <2>2, <3>2 DEF IInv
    <2>6. /\ came' \in 0..MaxNotices /\ aged' \in 0..came' /\ Len(notice') <= came'
          /\ came' - Len(notice') = came - Len(notice) /\ Len(notice') > 0
        BY <1>2, <2>1, <2>2, <2>3 DEF IInv
    <2>7. came' - Len(notice') <= aged' /\ came' - Len(notice') <= sawUpTo' /\ sawUpTo' \in 0..MaxNotices
        BY <2>3, <2>6 DEF IInv
    <2>8. IInv'
        BY <2>2, <2>4, <2>5, <2>6, <2>7 DEF IInv
    <2>9. Len(notice') >= Len(notice)
        BY <2>1, <2>2
    <2> QED BY <2>2, <2>6, <2>8, <2>9
<1> QED BY <1>1, <1>2 DEF AddPingNotice

LEMMA AgeKeeps ==
    ASSUME IInv, NEW id \in 1..MaxNotices, Age(id)
    PROVE  IInv' /\ notice' = notice
BY DEF IInv, Age

\* The notices up to one are marked, and the front of the list is dropped if it
\* is old: what is left keeps its order, and what was not marked before gets one
\* number above all.
LEMMA MarkKeeps ==
    ASSUME IInv, NEW upTo \in 1..Len(notice), UNCHANGED <<came, aged>>,
           notice' = SubSeq(Marked(notice, upTo), Start(notice, upTo), Len(notice)),
           sawUpTo' \in 0..MaxNotices, sawUpTo' >= sawUpTo, notice[upTo].id <= sawUpTo'
    PROVE  /\ IInv'
           /\ \A i \in 1..Len(notice), j \in 1..Len(notice') :
                notice[i].id = notice'[j].id /\ notice[i].seen # notice'[j].seen =>
                  \A k \in 1..Len(notice) : notice[k].seen < notice'[j].seen
<1>0. PICK n \in Nat : n = Len(notice)
    BY NoticeTypes
<1>1. /\ DOMAIN notice = 1..n /\ upTo \in 1..n /\ came \in Nat /\ came - n \in Nat
      /\ \A i \in 1..n : /\ notice[i].id \in Nat /\ notice[i].seen \in Nat
                         /\ notice[i] \in [id : Nat, seen : Nat]
    BY <1>0, NoticeTypes, ElementOfSeq DEF IInv
<1>2. PICK list : list = Marked(notice, upTo)
    OBVIOUS
<1>3. PICK s \in 1..upTo :
        s = Start(notice, upTo) /\ (s > 1 => notice[s].seen > 0 /\ notice[s - 1].id <= aged)
    BY StartDrops
<1>4. s \in 1..n
    BY <1>1
<1>5. notice' = SubSeq(list, s, n)
    BY <1>0, <1>2, <1>3
<1>6. PICK m \in Nat \ {0} :
        /\ \A k \in 1..n : notice[k].seen < m
        /\ \A i \in 1..n : notice[i].seen = 0 => NextSet(notice, i) = m /\ m <= notice[i].id
    BY <1>0, NextSetAbove
<1>7. \A i \in 1..n :
        list[i] = IF notice[i].seen > 0 \/ i > upTo THEN notice[i]
                  ELSE [id |-> notice[i].id, seen |-> m]
    <2> TAKE i \in 1..n
    <2>1. list[i] = IF notice[i].seen > 0 \/ i > upTo THEN notice[i]
                    ELSE [notice[i] EXCEPT !.seen = NextSet(notice, i)]
        BY <1>1, <1>2 DEF Marked
    <2>2. [notice[i] EXCEPT !.seen = m] = [id |-> notice[i].id, seen |-> m]
        BY <1>1
    <2>3. ~(notice[i].seen > 0) => NextSet(notice, i) = m
        BY <1>1, <1>6
    <2> QED BY <2>1, <2>2, <2>3
\* What is marked, before the front is dropped.
<1>8. \A i \in 1..n :
        /\ list[i] \in [id : Nat, seen : Nat] /\ list[i].id = came - n + i
        /\ list[i].seen <= list[i].id
        /\ list[i].seen > 0 => list[i].id <= sawUpTo'
        /\ notice[i].seen > 0 => list[i].seen = notice[i].seen
        /\ list[i].seen # notice[i].seen => list[i].seen = m
    <2> TAKE i \in 1..n
    <2>1. notice[i].id = came - n + i /\ notice[i].seen <= notice[i].id
        BY <1>0 DEF IInv
    <2>2. CASE notice[i].seen > 0 \/ i > upTo
        <3>1. list[i] = notice[i]
            BY <1>7, <2>2
        <3>2. notice[i].seen > 0 => notice[i].id <= sawUpTo /\ sawUpTo \in Nat
            BY <1>0 DEF IInv
        <3> QED BY <1>1, <2>1, <3>1, <3>2
    <2>3. CASE ~(notice[i].seen > 0 \/ i > upTo)
        <3>1. list[i] = [id |-> notice[i].id, seen |-> m]
            BY <1>7, <2>3
        <3>2. notice[upTo].id = came - n + upTo /\ i <= upTo
            <4>1. notice[upTo].id = came - n + upTo
                BY <1>0 DEF IInv
            <4>2. i \in Int /\ upTo \in Int
                BY <1>1
            <4> QED BY <2>3, <4>1, <4>2
        <3>3. notice[i].id <= sawUpTo'
            BY <1>1, <2>1, <3>2
        <3>4. notice[i].seen = 0 /\ m <= notice[i].id
            <4>1. notice[i].seen \in Nat
                BY <1>1
            <4>2. notice[i].seen = 0
                BY <2>3, <4>1
            <4> QED BY <1>6, <4>2
        <3> QED BY <1>1, <1>6, <2>1, <3>1, <3>3, <3>4
    <2> QED BY <2>2, <2>3
<1>9. \A i, j \in 1..n : i < j /\ list[j].seen > 0 => list[i].seen \in 1..list[j].seen
    <2> SUFFICES ASSUME NEW i \in 1..n, NEW j \in 1..n, i < j, list[j].seen > 0
                 PROVE  list[i].seen \in 1..list[j].seen
        OBVIOUS
    <2>0. /\ notice[i].seen \in Nat /\ notice[j].seen \in Nat /\ m \in Nat \ {0}
          /\ i \in Int /\ j \in Int /\ upTo \in Int
        BY <1>1
    <2>1. CASE notice[j].seen > 0
        <3>1. notice[i].seen \in 1..notice[j].seen
            BY <1>0, <2>1 DEF IInv
        <3>2. notice[i].seen > 0
            BY <2>0, <3>1
        <3>3. list[i].seen = notice[i].seen /\ list[j].seen = notice[j].seen
            BY <1>8, <2>1, <3>2
        <3> QED BY <3>1, <3>3
    <2>2. CASE notice[j].seen = 0
        <3>1. ~(j > upTo) /\ list[j].seen = m
            <4>1. list[j].seen # notice[j].seen
                BY <2>0, <2>2
            <4>2. list[j].seen = m
                BY <1>8, <4>1
            <4> QED BY <1>7, <4>1, <4>2
        <3>2. CASE notice[i].seen > 0
            <4>1. list[i].seen = notice[i].seen /\ notice[i].seen < m
                BY <1>6, <1>8, <3>2
            <4> QED BY <2>0, <3>1, <3>2, <4>1
        <3>3. CASE ~(notice[i].seen > 0)
            <4>1. ~(i > upTo)
                BY <2>0, <3>1
            <4>2. list[i] = [id |-> notice[i].id, seen |-> m]
                BY <1>7, <3>3, <4>1
            <4> QED BY <2>0, <3>1, <4>2
        <3> QED BY <3>2, <3>3
    <2> QED BY <2>0, <2>1, <2>2
\* The rest of the list.
<1>10. /\ notice' \in Seq([id : Nat, seen : Nat]) /\ Len(notice') = n - s + 1
       /\ \A i \in 1..Len(notice') : i + s - 1 \in 1..n /\ notice'[i] = list[i + s - 1]
    <2>1. s \in Int /\ n \in Int /\ s \in 1..n
        BY <1>4
    <2>2. \A i \in s..n : list[i] \in [id : Nat, seen : Nat]
        BY <1>8, <2>1
    <2>3. /\ SubSeq(list, s, n) \in Seq([id : Nat, seen : Nat])
          /\ Len(SubSeq(list, s, n)) = IF s <= n THEN n - s + 1 ELSE 0
          /\ \A i \in 1..n - s + 1 : SubSeq(list, s, n)[i] = list[s + i - 1]
        BY <2>1, <2>2, SubSeqProperties
    <2>4. \A i \in 1..n - s + 1 : i + s - 1 \in 1..n /\ i + s - 1 = s + i - 1
        BY <2>1
    <2>5. notice' \in Seq([id : Nat, seen : Nat]) /\ Len(notice') = n - s + 1
        BY <1>5, <2>1, <2>3
    <2> QED BY <1>5, <2>3, <2>4, <2>5
<1>11. \A i \in 1..Len(notice') :
         /\ notice'[i].id = came' - Len(notice') + i
         /\ notice'[i].seen <= notice'[i].id
         /\ notice'[i].seen > 0 => notice'[i].id <= sawUpTo'
    <2> TAKE i \in 1..Len(notice')
    <2> DEFINE k == i + s - 1
    <2>1. k \in 1..n /\ notice'[i] = list[k]
        BY <1>10
    <2>2. came - n + k = came' - Len(notice') + i
        BY <1>1, <1>4, <1>10
    <2> HIDE DEF k
    <2> QED BY <1>8, <2>1, <2>2
<1>12. \A i, j \in 1..Len(notice') :
         i < j /\ notice'[j].seen > 0 => notice'[i].seen \in 1..notice'[j].seen
    <2> SUFFICES ASSUME NEW i \in 1..Len(notice'), NEW j \in 1..Len(notice'),
                        i < j, notice'[j].seen > 0
                 PROVE  notice'[i].seen \in 1..notice'[j].seen
        OBVIOUS
    <2>1. i + s - 1 \in 1..n /\ j + s - 1 \in 1..n /\ i + s - 1 < j + s - 1
        BY <1>4, <1>10
    <2> QED BY <1>9, <1>10, <2>1
<1>13. came' - Len(notice') <= aged' /\ came' - Len(notice') <= sawUpTo'
    <2>1. came - n <= aged /\ came - n <= sawUpTo /\ sawUpTo \in Nat /\ aged \in Nat
        BY <1>0, <1>1 DEF IInv
    <2>2. CASE s = 1
        BY <1>1, <1>10, <2>1, <2>2, SMTT(30)
    <2>3. CASE s > 1
        <3>1. s \in 1..n /\ s - 1 \in 1..n /\ s - 1 < s
            BY <1>4, <2>3
        <3>2. notice[s].seen > 0 /\ notice[s - 1].id <= aged
            BY <1>3, <2>3
        <3>3. notice[s - 1].seen \in 1..notice[s].seen
            BY <1>0, <3>1, <3>2 DEF IInv
        <3>4. notice[s - 1].seen > 0
            BY <1>1, <3>1, <3>3
        <3>5. notice[s - 1].id <= sawUpTo /\ notice[s - 1].id = came - n + (s - 1)
            BY <1>0, <3>1, <3>4 DEF IInv
        <3> QED BY <1>1, <1>10, <2>1, <3>1, <3>2, <3>5
    <2>4. s \in Nat /\ s >= 1
        BY <1>4
    <2>5. s = 1 \/ s > 1
        BY <2>4
    <2> QED BY <2>2, <2>3, <2>5
<1>14. IInv'
    <2>1. came' \in 0..MaxNotices /\ aged' \in 0..came' /\ sawUpTo' \in 0..MaxNotices
        BY DEF IInv
    <2>2. Len(notice') <= came' /\ Len(notice') > 0
        BY <1>1, <1>4, <1>10
    <2> QED BY <1>10, <1>11, <1>12, <1>13, <2>1, <2>2 DEF IInv
<1>15. ASSUME NEW i \in 1..n, NEW j \in 1..Len(notice'),
              notice[i].id = notice'[j].id, notice[i].seen # notice'[j].seen
       PROVE  \A k \in 1..n : notice[k].seen < notice'[j].seen
    <2> DEFINE k == j + s - 1
    <2>1. k \in 1..n /\ notice'[j] = list[k]
        BY <1>10
    <2> HIDE DEF k
    <2>2. notice[i].id = came - n + i /\ list[k].id = came - n + k
        BY <1>0, <1>8, <2>1 DEF IInv
    <2>3. k = i
        <3>1. notice[i].id = list[k].id
            BY <1>15, <2>1
        <3>2. came - n + i = came - n + k
            BY <2>2, <3>1
        <3>3. came \in Int /\ n \in Int
            BY <1>1
        <3>4. i \in Int /\ k \in Int
            BY <2>1
        <3>5. i = k
            BY <3>2, <3>3, <3>4
        <3> QED BY <3>5
    <2>4. list[k].seen = m
        BY <1>8, <1>15, <2>1, <2>3
    <2> QED BY <1>6, <2>1, <2>4
<1> QED BY <1>0, <1>14, <1>15

\* What a page, or another replica, saw: a notice that is not here, and comes after
\* the first that is, comes after all.
LEMMA SeenKeeps ==
    ASSUME IInv, StaleReplica = FALSE, NEW id \in 1..MaxNotices, SetLastSeen(id)
    PROVE  /\ IInv'
           /\ \A i \in 1..Len(notice), j \in 1..Len(notice') :
                notice[i].id = notice'[j].id /\ notice[i].seen # notice'[j].seen =>
                  \A k \in 1..Len(notice) : notice[k].seen < notice'[j].seen
<1> DEFINE at == {i \in DOMAIN notice : notice[i].id = id}
           up == IF at = {} THEN Len(notice) ELSE CHOOSE i \in at : TRUE
<1>1. /\ DOMAIN notice = 1..Len(notice) /\ Len(notice) \in Nat /\ Len(notice) > 0
      /\ came \in Nat /\ came - Len(notice) \in Nat
      /\ \A i \in 1..Len(notice) : notice[i].id = came - Len(notice) + i
    BY NoticeTypes, EmptySeq DEF SetLastSeen, IInv
<1>2. /\ notice' = SubSeq(Marked(notice, up), Start(notice, up), Len(notice))
      /\ sawUpTo' = IF id > sawUpTo THEN id ELSE sawUpTo
      /\ UNCHANGED <<came, aged>> /\ id >= notice[1].id
    BY DEF SetLastSeen
<1> PICK upTo : upTo = up
    OBVIOUS
<1>3. /\ upTo \in 1..Len(notice)
      /\ \/ notice[upTo].id = id
         \/ upTo = Len(notice) /\ \A i \in 1..Len(notice) : notice[i].id # id
    <2>1. CASE at = {}
        <3>1. upTo = Len(notice) /\ Len(notice) \in 1..Len(notice)
            BY <1>1, <2>1
        <3>2. \A i \in 1..Len(notice) : notice[i].id # id
            BY <1>1, <2>1
        <3> QED BY <3>1, <3>2
    <2>2. CASE at # {}
        <3>1. upTo \in at
            BY <2>2
        <3>2. upTo \in 1..Len(notice) /\ notice[upTo].id = id
            BY <1>1, <3>1
        <3> QED BY <3>2
    <2> QED BY <2>1, <2>2
<1>5. notice' = SubSeq(Marked(notice, upTo), Start(notice, upTo), Len(notice))
    BY <1>2
<1> HIDE DEF at, up
<1>6. MaxNotices \in Nat /\ sawUpTo \in 0..MaxNotices
    BY DEF IInv
<1>7. sawUpTo' >= sawUpTo /\ sawUpTo' >= id /\ sawUpTo' \in 0..MaxNotices
    BY <1>2, <1>6
<1>8. notice[upTo].id <= sawUpTo'
    <2>1. CASE notice[upTo].id = id
        BY <1>7, <2>1
    <2>2. CASE upTo = Len(notice) /\ \A i \in 1..Len(notice) : notice[i].id # id
        <3>1. id - (came - Len(notice)) \notin 1..Len(notice)
            <4>1. ASSUME NEW i \in 1..Len(notice), i = id - (came - Len(notice))
                  PROVE  FALSE
                <5>1. notice[i].id = came - Len(notice) + i /\ notice[i].id # id
                    BY <1>1, <2>2
                <5>2. came - Len(notice) \in Int /\ id \in Int
                    BY <1>1
                <5> QED BY <4>1, <5>1, <5>2
            <4> QED BY <4>1
        <3>2. id >= came - Len(notice) + 1
            BY <1>1, <1>2
        <3>3. id > came
            BY <1>1, <3>1, <3>2
        <3>4. notice[upTo].id = came
            BY <1>1, <2>2
        <3> QED BY <1>1, <1>6, <1>7, <3>3, <3>4
    <2> QED BY <1>3, <2>1, <2>2
<1>9. upTo \in 1..Len(notice) /\ UNCHANGED <<came, aged>>
    BY <1>2, <1>3
<1> QED BY <1>5, <1>7, <1>8, <1>9, MarkKeeps

-----------------------------------------------------------------------------
\* NoticesSound: no notice is dropped, or marked as seen, that the user has not
\* seen, and those seen at different times are kept in sets apart
\* (src/slib/notice.go:40-100).
THEOREM NoticesCorrect ==
    ASSUME StaleReplica = FALSE
    PROVE  NoticesSpec => NoticesSound
<1> DEFINE Apart == \A i \in DOMAIN notice, j \in DOMAIN notice' :
              notice[i].id = notice'[j].id /\ notice[i].seen # notice'[j].seen =>
                \A k \in DOMAIN notice : notice[k].seen < notice'[j].seen
<1>1. IInv /\ [NoticesNext]_noticeVars => IInv' /\ [Apart]_noticeVars
    <2> SUFFICES ASSUME IInv, [NoticesNext]_noticeVars PROVE IInv' /\ [Apart]_noticeVars
        OBVIOUS
    <2>1. CASE UNCHANGED noticeVars
        BY <2>1 DEF noticeVars, IInv
    <2>2. DOMAIN notice = 1..Len(notice) /\ Len(notice) \in Nat
        BY NoticeTypes
    \* Positions of one id are the same when the list is as it was, or has one more.
    <2>3. ASSUME IInv', \A i \in 1..Len(notice) : notice'[i] = notice[i],
                 came' - Len(notice') = came - Len(notice), Len(notice') >= Len(notice)
          PROVE  Apart
        <3> SUFFICES ASSUME NEW i \in DOMAIN notice, NEW j \in DOMAIN notice',
                            notice[i].id = notice'[j].id
                     PROVE  notice[i].seen = notice'[j].seen
            OBVIOUS
        <3>1. i \in 1..Len(notice) /\ j \in 1..Len(notice')
            BY <2>2, <2>3, LenProperties DEF IInv
        <3>2. /\ notice[i].id = came - Len(notice) + i
              /\ notice'[j].id = came' - Len(notice') + j
            BY <2>3, <3>1 DEF IInv
        <3>3. i = j
            <4>1. came - Len(notice) + i = came - Len(notice) + j
                BY <2>3, <3>2
            <4>2. came - Len(notice) \in Int /\ i \in Int /\ j \in Int
                BY <3>1, NoticeTypes
            <4> QED BY <4>1, <4>2
        <3> QED BY <2>3, <3>1, <3>3
    <2>4. ASSUME NEW id \in 1..MaxNotices, AddPingNotice(id) PROVE IInv' /\ Apart
        BY <2>3, <2>4, AddKeeps
    <2>5. ASSUME NEW id \in 1..MaxNotices, Age(id) PROVE IInv' /\ Apart
        <3>1. IInv' /\ notice' = notice /\ came' = came
            BY <2>5, AgeKeeps DEF Age
        <3> QED BY <2>2, <2>3, <3>1
    <2>6. ASSUME NEW id \in 1..MaxNotices, SetLastSeen(id) PROVE IInv' /\ Apart
        <3>1. IInv' /\ DOMAIN notice' = 1..Len(notice')
            BY <2>6, SeenKeeps, LenProperties DEF IInv
        <3> QED BY <2>2, <2>6, <3>1, SeenKeeps
    <2> QED BY <2>1, <2>4, <2>5, <2>6 DEF NoticesNext
<1>2. NoticesSpec => []IInv /\ [][Apart]_noticeVars
    BY <1>1, InvInit, PTL DEF NoticesSpec
<1>3. []IInv => [](NoticesTypeOK /\ DroppedWhenOld /\ MarkedWasSeen)
    BY InvSound, PTL
<1> QED BY <1>2, <1>3, PTL DEF NoticesSound, SetsApart
-----------------------------------------------------------------------------
(* UnreadCount *)

HIDE NoticesAssumption
USE CountAssumption

\* What a transaction counts, and what the document of its thread says, at
\* each of its steps.
TouchAgrees(t) ==
  /\ touching[t].step = "none" => touching[t].diff = 0 /\ (t \in unreadDoc <=> unseen[t] > 0)
  /\ touching[t].step = "doc" =>
       \/ touching[t].diff = 1 /\ unseen[t] > 0 /\ t \notin unreadDoc
       \/ touching[t].diff = -1 /\ unseen[t] = 0 /\ t \in unreadDoc
       \/ touching[t].diff = 0 /\ unseen[t] > 0 /\ t \in unreadDoc
  /\ touching[t].step = "count" =>
       \/ touching[t].diff \in {0, 1} /\ unseen[t] > 0 /\ t \in unreadDoc
       \/ touching[t].diff = -1 /\ unseen[t] = 0 /\ t \notin unreadDoc

\* The threads that the count has: those whose document says unread, as of the
\* last time they were counted.
Counted == {t \in CountThread :
              \/ t \in unreadDoc /\ ~(touching[t].step = "count" /\ touching[t].diff = 1)
              \/ touching[t].step = "count" /\ touching[t].diff = -1}

CountInv ==
  /\ unseen \in [CountThread -> 0..MaxUnseen] /\ unreadDoc \subseteq CountThread
  /\ unreadCount \in Int
  /\ touching \in [CountThread -> [step : {"none", "doc", "count"}, diff : -1..1]]
  /\ \A t \in CountThread : TouchAgrees(t)
  /\ unreadCount = -1 \/ unreadCount = Cardinality(Counted)
  /\ ~zeroQuit

LEMMA CountedFinite ==
    /\ IsFiniteSet(Counted) /\ {Cardinality(Counted), Cardinality(CountThread)} \subseteq Nat
    /\ Cardinality(Counted) <= Cardinality(CountThread)
<1>1. Counted \in SUBSET CountThread
    BY DEF Counted
<1> QED BY <1>1, FS_Subset, FS_CardinalityType

\* The two sets that CountIsDocs adds up are disjoint, and together are Counted.
LEMMA CountedSplits ==
    ASSUME CountInv
    PROVE  LET D == {t \in unreadDoc : ~(touching[t].step = "count" /\ touching[t].diff = 1)}
               U == {t \in CountThread : touching[t].step = "count" /\ touching[t].diff = -1}
           IN  Cardinality(Counted) = Cardinality(D) + Cardinality(U)
<1> DEFINE D == {t \in unreadDoc : ~(touching[t].step = "count" /\ touching[t].diff = 1)}
           U == {t \in CountThread : touching[t].step = "count" /\ touching[t].diff = -1}
<1>1. D \in SUBSET CountThread /\ U \in SUBSET CountThread
    BY DEF CountInv
<1>2. Counted = D \cup U
    BY <1>1 DEF Counted
<1>3. D \cap U = {}
    BY DEF CountInv, TouchAgrees
<1> HIDE DEF D, U
<1>4. /\ IsFiniteSet(D) /\ IsFiniteSet(U)
      /\ Cardinality(D) \in Nat /\ Cardinality(U) \in Nat
    BY <1>1, FS_Subset, FS_CardinalityType
<1>5. Cardinality(D \cup U) = Cardinality(D) + Cardinality(U) - Cardinality({})
    BY <1>3, <1>4, FS_Union
<1>6. Cardinality({}) = 0
    BY FS_EmptySet
<1>7. Cardinality(Counted) = Cardinality(D) + Cardinality(U)
    BY <1>2, <1>4, <1>5, <1>6
<1> QED BY <1>7 DEF D, U

LEMMA CountInvSound == CountInv => CountSound
<1> SUFFICES ASSUME CountInv PROVE CountSound
    OBVIOUS
<1>1. CountTypeOK
    BY CountedFinite DEF CountInv, CountTypeOK
<1>2. CountIsDocs
    BY CountedSplits DEF CountInv, CountIsDocs
<1> QED BY <1>1, <1>2 DEF CountSound, NoZeroDecrement, CountInv

LEMMA CountInvInit == CountInit => CountInv
<1> SUFFICES ASSUME CountInit PROVE CountInv
    OBVIOUS
<1>1. unseen \in [CountThread -> {0, 1}] /\ {0, 1} \subseteq 0..MaxUnseen
    BY DEF CountInit
<1>2. unseen \in [CountThread -> 0..MaxUnseen]
    BY <1>1
<1>3. \A t \in CountThread : TouchAgrees(t)
    BY <1>1 DEF CountInit, TouchAgrees, NoTouch
<1> QED BY <1>2, <1>3 DEF CountInit, CountInv, NoTouch

-----------------------------------------------------------------------------
\* The beginning of a transaction counts nothing.
LEMMA TouchKeeps ==
    ASSUME CountInv, NEW t \in CountThread,
           StoreUnseen(t) \/ TouchSeen(t)
    PROVE  CountInv'
<1>1. /\ unseen' \in [CountThread -> 0..MaxUnseen]
      /\ touching' \in [CountThread -> [step : {"none", "doc", "count"}, diff : -1..1]]
    <2>1. \E d, diff \in {-1, 0, 1} : TouchStart(t, d, diff)
        BY DEF CountInv, StoreUnseen, TouchSeen, FirstUnseen, LastUnseen
    <2>2. unseen' \in [CountThread -> 0..MaxUnseen]
        <3>1. unseen[t] \in 0..MaxUnseen /\ unseen \in [CountThread -> 0..MaxUnseen] /\ MaxUnseen \in Nat
            BY CountAssumption DEF CountInv
        <3>2. CASE StoreUnseen(t)
            <4>1. unseen' = [unseen EXCEPT ![t] = unseen[t] + 1] /\ unseen[t] + 1 \in 0..MaxUnseen
                BY <3>1, <3>2 DEF StoreUnseen, TouchStart
            <4> QED BY <3>1, <4>1
        <3>3. CASE TouchSeen(t)
            <4>1. unseen' = [unseen EXCEPT ![t] = unseen[t] + (-1)] /\ unseen[t] + (-1) \in 0..MaxUnseen
                BY <3>1, <3>3 DEF TouchSeen, TouchStart
            <4> QED BY <3>1, <4>1
        <3> QED BY <3>2, <3>3
    <2> QED BY <2>1, <2>2 DEF CountInv, TouchStart
<1>2. /\ touching[t] = NoTouch
      /\ touching'[t].step = "doc"
      /\ \A u \in CountThread \ {t} : touching'[u] = touching[u] /\ unseen'[u] = unseen[u]
      /\ UNCHANGED <<unreadDoc, unreadCount, zeroQuit>>
    BY DEF CountInv, StoreUnseen, TouchSeen, TouchStart
<1>3. \A u \in CountThread \ {t} : TouchAgrees(u)'
    BY <1>2 DEF CountInv, TouchAgrees
<1>4. TouchAgrees(t)'
    <2>1. TouchAgrees(t) /\ unseen[t] \in 0..MaxUnseen
        BY DEF CountInv
    <2>2. (t \in unreadDoc) = (unseen[t] > 0)
        BY <1>2, <2>1 DEF TouchAgrees, NoTouch
    <2>3. CASE StoreUnseen(t)
        BY <1>2, <2>1, <2>2, <2>3 DEF CountInv, StoreUnseen, TouchStart, FirstUnseen, TouchAgrees
    <2>4. CASE TouchSeen(t)
        BY <1>2, <2>1, <2>2, <2>4 DEF CountInv, TouchSeen, TouchStart, LastUnseen, TouchAgrees
    <2> QED BY <2>3, <2>4
<1>5. Counted' = Counted
    <2>1. touching[t].step = "none"
        BY <1>2 DEF NoTouch
    <2> QED BY <1>2, <2>1 DEF Counted
<1> QED BY <1>1, <1>2, <1>3, <1>4, <1>5 DEF CountInv

\* The update of a document makes no difference to what was counted.
LEMMA DocKeeps ==
    ASSUME CountInv, NEW t \in CountThread, UpdateDoc(t)
    PROVE  CountInv'
<1>1. /\ touching' \in [CountThread -> [step : {"none", "doc", "count"}, diff : -1..1]]
      /\ unreadDoc' \subseteq CountThread
    BY DEF CountInv, UpdateDoc
<1>2. /\ touching[t].step = "doc" /\ touching'[t].step = "count"
      /\ touching'[t].diff = touching[t].diff
      /\ (t \in unreadDoc') = (unseen[t] > 0)
      /\ \A u \in CountThread \ {t} : touching'[u] = touching[u] /\ (u \in unreadDoc') = (u \in unreadDoc)
      /\ UNCHANGED <<unseen, unreadCount, zeroQuit>>
    BY DEF CountInv, UpdateDoc
<1>3. TouchAgrees(t) /\ unseen[t] \in 0..MaxUnseen
    BY DEF CountInv
<1>4. \A u \in CountThread \ {t} : TouchAgrees(u)'
    BY <1>2 DEF CountInv, TouchAgrees
<1>5. TouchAgrees(t)'
    BY <1>2, <1>3 DEF TouchAgrees
<1>6. Counted' = Counted
    BY <1>2, <1>3 DEF Counted, TouchAgrees
<1> QED BY <1>1, <1>2, <1>4, <1>5, <1>6 DEF CountInv

\* A transaction counts its thread in or out, and a thread that is to be counted
\* out has been counted: the count is not zero.
LEMMA CountKeeps ==
    ASSUME CountInv, NEW t \in CountThread, CountUnread(t)
    PROVE  CountInv'
<1>1. touching' \in [CountThread -> [step : {"none", "doc", "count"}, diff : -1..1]]
    BY DEF CountInv, CountUnread, NoTouch
<1>2. /\ touching[t].step = "count" /\ touching'[t] = NoTouch
      /\ \A u \in CountThread \ {t} : touching'[u] = touching[u]
      /\ UNCHANGED <<unseen, unreadDoc>>
    BY DEF CountInv, CountUnread
<1>3. TouchAgrees(t) /\ unseen[t] \in 0..MaxUnseen /\ touching[t].diff \in -1..1
    BY DEF CountInv
<1>4. \A u \in CountThread : TouchAgrees(u)'
    BY <1>2, <1>3 DEF CountInv, TouchAgrees, NoTouch
<1>5. /\ touching[t].diff = 1 => t \notin Counted /\ Counted' = Counted \cup {t}
      /\ touching[t].diff = -1 => t \in Counted /\ Counted' = Counted \ {t}
      /\ touching[t].diff = 0 => Counted' = Counted
    BY <1>2, <1>3 DEF CountInv, Counted, TouchAgrees, NoTouch
<1>6. Cardinality(Counted') = Cardinality(Counted) + touching[t].diff
    <2>1. CASE touching[t].diff = 1
        BY <1>5, <2>1, CountedFinite, FS_AddElement
    <2>2. CASE touching[t].diff = -1
        BY <1>5, <2>2, CountedFinite, FS_RemoveElement
    <2>3. CASE touching[t].diff = 0
        BY <1>5, <2>3, CountedFinite
    <2> QED BY <1>3, <2>1, <2>2, <2>3
<1>7. ~(touching[t].diff < 0 /\ unreadCount = 0)
    <2>1. SUFFICES ASSUME touching[t].diff < 0, unreadCount = 0 PROVE FALSE
        OBVIOUS
    <2>2. t \in Counted /\ Cardinality(Counted) = 0
        BY <1>3, <1>5, <2>1 DEF CountInv
    <2> QED BY <2>2, CountedFinite, FS_EmptySet
<1>8. /\ unreadCount' = IF unreadCount < 0 THEN -1 ELSE unreadCount + touching[t].diff
      /\ UNCHANGED zeroQuit
    BY <1>7 DEF CountUnread
<1>9. /\ unreadCount' \in Int
      /\ unreadCount' = -1 \/ unreadCount' = Cardinality(Counted')
    BY <1>3, <1>6, <1>8, CountedFinite DEF CountInv
<1> QED BY <1>1, <1>2, <1>4, <1>8, <1>9 DEF CountInv

\* A page opens the account when each document has been counted.
LEMMA OpenKeeps ==
    ASSUME CountInv, Overtakes = FALSE, OpenAccount
    PROVE  CountInv'
<1>1. Counted' = unreadDoc
    BY DEF CountInv, OpenAccount, Counted
<1>2. unreadCount' = Cardinality(Counted')
    BY <1>1 DEF OpenAccount
<1>3. unreadCount' \in Int
    BY <1>1, <1>2, CountedFinite, FS_Subset, FS_CardinalityType DEF CountInv
<1> QED BY <1>2, <1>3 DEF CountInv, OpenAccount, TouchAgrees

LEMMA CrashKeeps ==
    ASSUME CountInv, CountCrash
    PROVE  CountInv'
BY DEF CountInv, CountCrash, TouchAgrees, NoTouch

\* CountSound: the count of a thread follows its document through transactions
\* that overlap and through crashes, and is never taken below zero, which would
\* end the process (src/slib/service.go:352-378).
THEOREM CountCorrect ==
    ASSUME Overtakes = FALSE
    PROVE  CountSpec => []CountSound
<1>1. CountInv /\ [CountNext]_countVars => CountInv'
    <2> SUFFICES ASSUME CountInv, [CountNext]_countVars PROVE CountInv'
        OBVIOUS
    <2>1. CASE UNCHANGED countVars
        BY <2>1 DEF countVars, CountInv, TouchAgrees, Counted
    <2>2. ASSUME NEW t \in CountThread,
                 StoreUnseen(t) \/ TouchSeen(t) \/ UpdateDoc(t) \/ CountUnread(t)
          PROVE  CountInv'
        BY <2>2, TouchKeeps, DocKeeps, CountKeeps
    <2>3. CASE OpenAccount
        BY <2>3, OpenKeeps
    <2>4. CASE CountCrash
        BY <2>4, CrashKeeps
    <2> QED BY <2>1, <2>2, <2>3, <2>4 DEF CountNext
<1> QED BY <1>1, CountInvInit, CountInvSound, PTL DEF CountSpec
-----------------------------------------------------------------------------
(* Ohi *)

HIDE CountAssumption
USE OhiAssumption

OhiRecord == [op : {"+", "-"}, who : OhiUser]
OhiEvent == [kind : {"info", "ohiedit", "ohi", "ack"}, op : {"none", "+", "-"}, who : SUBSET OhiUser]

-----------------------------------------------------------------------------
(* What a mailbox says of a user, in events of one kind: nothing, or what the  *)
(* last of them says.                                                          *)
About(m, k, u, i) == m[i].kind = k /\ m[i].who = {u}
Silent(m, k, u) == \A i \in 1..Len(m) : ~About(m, k, u, i)
Ends(m, k, u, W) ==
    \A i \in 1..Len(m) : About(m, k, u, i) /\ (\A j \in i + 1..Len(m) : ~About(m, k, u, j)) =>
        (m[i].op = "+" <=> u \in W)

LEMMA AppendIs ==
    ASSUME NEW S, NEW s \in Seq(S), NEW e \in S
    PROVE  /\ Append(s, e) \in Seq(S) /\ Len(s) \in Nat /\ Len(Append(s, e)) = Len(s) + 1
           /\ \A i \in 1..Len(s) : Append(s, e)[i] = s[i]
           /\ Append(s, e)[Len(s) + 1] = e
OBVIOUS

LEMMA TailIs ==
    ASSUME NEW S, NEW s \in Seq(S), s # <<>>
    PROVE  /\ Tail(s) \in Seq(S) /\ Len(s) \in Nat /\ Len(s) >= 1 /\ Len(Tail(s)) = Len(s) - 1
           /\ \A i \in 1..(Len(s) - 1) : Tail(s)[i] = s[i + 1]
           /\ Head(s) = s[1] /\ s[1] \in S
OBVIOUS

LEMMA ConsIs ==
    ASSUME NEW S, NEW s \in Seq(S), NEW e \in S
    PROVE  /\ <<e>> \o s \in Seq(S) /\ Len(s) \in Nat /\ Len(<<e>> \o s) = Len(s) + 1
           /\ (<<e>> \o s)[1] = e
           /\ \A i \in 2..(Len(s) + 1) : (<<e>> \o s)[i] = s[i - 1]
<1>1. <<e>> \in Seq(S) /\ Len(<<e>>) = 1 /\ <<e>>[1] = e
    OBVIOUS
<1>2. Len(s) \in Nat
    OBVIOUS
<1>3. <<e>> \o s \in Seq(S) /\ Len(<<e>> \o s) = Len(s) + 1
    BY <1>1, <1>2
<1>4. \A i \in 1..(Len(s) + 1) : (<<e>> \o s)[i] = IF i <= 1 THEN <<e>>[i] ELSE s[i - 1]
    BY <1>1, <1>2
<1> QED BY <1>1, <1>2, <1>3, <1>4

\* The event at the end is the last one there is of its user.
LEMMA AppendAbout ==
    ASSUME NEW m \in Seq(OhiEvent), NEW e \in OhiEvent, NEW k, NEW u, NEW W
    PROVE  /\ e.kind = k /\ e.who = {u} =>
                ~Silent(Append(m, e), k, u) /\ (Ends(Append(m, e), k, u, W) <=> (e.op = "+" <=> u \in W))
           /\ ~(e.kind = k /\ e.who = {u}) =>
                /\ Silent(Append(m, e), k, u) <=> Silent(m, k, u)
                /\ Ends(Append(m, e), k, u, W) <=> Ends(m, k, u, W)
<1> DEFINE n == Len(m)
           a == Append(m, e)
<1>1. /\ n \in Nat /\ Len(a) = n + 1 /\ a[n + 1] = e /\ \A i \in 1..n : a[i] = m[i]
    BY AppendIs
<1> HIDE DEF a, n
<1>2. ASSUME e.kind = k, e.who = {u}
      PROVE  ~Silent(a, k, u) /\ (Ends(a, k, u, W) <=> (e.op = "+" <=> u \in W))
    <2>1. About(a, k, u, n + 1) /\ n + 1 \in 1..Len(a) /\ \A j \in n + 1 + 1..Len(a) : ~About(a, k, u, j)
        BY <1>1, <1>2 DEF About
    <2>2. ASSUME Ends(a, k, u, W) PROVE e.op = "+" <=> u \in W
        BY <1>1, <2>1, <2>2 DEF Ends
    <2>3. ASSUME e.op = "+" <=> u \in W PROVE Ends(a, k, u, W)
        <3> SUFFICES ASSUME NEW i \in 1..Len(a), \A j \in i + 1..Len(a) : ~About(a, k, u, j)
                     PROVE  a[i].op = "+" <=> u \in W
            BY DEF Ends
        <3>1. i = n + 1
            <4> SUFFICES ASSUME i # n + 1 PROVE FALSE
                OBVIOUS
            <4>1. n + 1 \in i + 1..Len(a)
                BY <1>1
            <4> QED BY <2>1, <4>1
        <3> QED BY <1>1, <2>3, <3>1
    <2> QED BY <2>1, <2>2, <2>3 DEF Silent
<1>3. ASSUME ~(e.kind = k /\ e.who = {u})
      PROVE  /\ Silent(a, k, u) <=> Silent(m, k, u)
             /\ Ends(a, k, u, W) <=> Ends(m, k, u, W)
    <2>1. ~About(a, k, u, n + 1) /\ \A i \in 1..n : About(a, k, u, i) <=> About(m, k, u, i)
        BY <1>1, <1>3 DEF About
    <2>2. \A i \in 1..Len(a) : i \in 1..n \/ i = n + 1
        BY <1>1
    <2>3. \A i \in 1..n : i \in 1..Len(a)
        BY <1>1
    <2>4. Silent(a, k, u) <=> Silent(m, k, u)
        BY <2>1, <2>2, <2>3 DEF Silent, n
    <2>5. ASSUME Ends(a, k, u, W) PROVE Ends(m, k, u, W)
        <3> SUFFICES ASSUME NEW i \in 1..n, About(m, k, u, i), \A j \in i + 1..n : ~About(m, k, u, j)
                     PROVE  m[i].op = "+" <=> u \in W
            BY DEF Ends, n
        <3>1. \A j \in i + 1..Len(a) : ~About(a, k, u, j)
            <4> TAKE j \in i + 1..Len(a)
            <4>1. (j \in i + 1..n /\ j \in 1..n) \/ j = n + 1
                BY <1>1
            <4> QED BY <2>1, <4>1
        <3>2. i \in 1..Len(a) /\ About(a, k, u, i)
            BY <2>1, <2>3
        <3> QED BY <1>1, <2>5, <3>1, <3>2 DEF Ends
    <2>6. ASSUME Ends(m, k, u, W) PROVE Ends(a, k, u, W)
        <3> SUFFICES ASSUME NEW i \in 1..Len(a), About(a, k, u, i), \A j \in i + 1..Len(a) : ~About(a, k, u, j)
                     PROVE  a[i].op = "+" <=> u \in W
            BY DEF Ends
        <3>1. i \in 1..n /\ About(m, k, u, i)
            BY <2>1, <2>2
        <3>2. \A j \in i + 1..n : ~About(m, k, u, j)
            <4> TAKE j \in i + 1..n
            <4>1. j \in 1..n /\ j \in i + 1..Len(a)
                BY <1>1, <3>1
            <4> QED BY <2>1, <4>1
        <3>3. m[i].op = "+" <=> u \in W
            BY <2>6, <3>1, <3>2 DEF Ends, n
        <3> QED BY <1>1, <3>1, <3>3
    <2> QED BY <2>4, <2>5, <2>6
<1> QED BY <1>2, <1>3 DEF a

\* When the first event is read, the last one stays, or there is none left.
LEMMA TailAbout ==
    ASSUME NEW m \in Seq(OhiEvent), m # <<>>, NEW k, NEW u, NEW W, Ends(m, k, u, W)
    PROVE  /\ Ends(Tail(m), k, u, W)
           /\ Silent(Tail(m), k, u) => Silent(m, k, u) \/ (About(m, k, u, 1) /\ (m[1].op = "+" <=> u \in W))
<1> DEFINE n == Len(m)
           t == Tail(m)
<1>1. n \in Nat /\ n >= 1 /\ Len(t) = n - 1 /\ \A i \in 1..(n - 1) : t[i] = m[i + 1]
    BY TailIs
<1>0. \A i \in 1..n : About(m, k, u, i) /\ (\A j \in i + 1..n : ~About(m, k, u, j)) =>
        (m[i].op = "+" <=> u \in W)
    BY DEF Ends
<1> HIDE DEF n, t
<1>2. \A i \in 1..(n - 1) : About(t, k, u, i) <=> About(m, k, u, i + 1)
    BY <1>1 DEF About
<1>3. Ends(t, k, u, W)
    <2> SUFFICES ASSUME NEW i \in 1..Len(t), About(t, k, u, i), \A j \in i + 1..Len(t) : ~About(t, k, u, j)
                 PROVE  t[i].op = "+" <=> u \in W
        BY DEF Ends
    <2>1. i \in 1..(n - 1) /\ i + 1 \in 1..n /\ t[i] = m[i + 1] /\ About(m, k, u, i + 1)
        BY <1>1, <1>2
    <2>2. \A j \in (i + 1) + 1..n : ~About(m, k, u, j)
        <3> TAKE j \in (i + 1) + 1..n
        <3>1. j - 1 \in 1..(n - 1) /\ j - 1 \in i + 1..Len(t) /\ (j - 1) + 1 = j
            BY <1>1, <2>1
        <3> QED BY <1>2, <3>1
    <2> QED BY <1>0, <2>1, <2>2
<1>4. ASSUME Silent(t, k, u), ~Silent(m, k, u)
      PROVE  About(m, k, u, 1) /\ (m[1].op = "+" <=> u \in W)
    <2>1. \A j \in 2..n : ~About(m, k, u, j)
        <3> TAKE j \in 2..n
        <3>1. j - 1 \in 1..(n - 1) /\ j - 1 \in 1..Len(t) /\ (j - 1) + 1 = j
            BY <1>1
        <3> QED BY <1>2, <1>4, <3>1 DEF Silent
    <2>2. PICK i \in 1..n : About(m, k, u, i)
        BY <1>4 DEF Silent, n
    <2>3. i = 1 /\ 1 \in 1..n
        BY <1>1, <2>1, <2>2
    <2>4. \A j \in 1 + 1..n : ~About(m, k, u, j)
        BY <2>1
    <2> QED BY <1>0, <2>2, <2>3, <2>4
<1> QED BY <1>3, <1>4 DEF t

\* An event of another kind in front changes nothing.
LEMMA ConsAbout ==
    ASSUME NEW m \in Seq(OhiEvent), NEW e \in OhiEvent, NEW k, e.kind # k, NEW u, NEW W,
           Ends(m, k, u, W)
    PROVE  /\ Ends(<<e>> \o m, k, u, W)
           /\ Silent(<<e>> \o m, k, u) => Silent(m, k, u)
<1> DEFINE n == Len(m)
           c == <<e>> \o m
<1>1. n \in Nat /\ Len(c) = n + 1 /\ c[1] = e /\ \A i \in 2..(n + 1) : c[i] = m[i - 1]
    BY ConsIs
<1>0. \A i \in 1..n : About(m, k, u, i) /\ (\A j \in i + 1..n : ~About(m, k, u, j)) =>
        (m[i].op = "+" <=> u \in W)
    BY DEF Ends
<1> HIDE DEF n, c
<1>2. ~About(c, k, u, 1) /\ \A i \in 2..(n + 1) : About(c, k, u, i) <=> About(m, k, u, i - 1)
    BY <1>1 DEF About
<1>3. Ends(c, k, u, W)
    <2> SUFFICES ASSUME NEW i \in 1..Len(c), About(c, k, u, i), \A j \in i + 1..Len(c) : ~About(c, k, u, j)
                 PROVE  c[i].op = "+" <=> u \in W
        BY DEF Ends
    <2>0. i # 1
        BY <1>2
    <2>1. i \in 2..(n + 1) /\ i - 1 \in 1..n
        BY <1>1, <2>0
    <2>2. \A j \in (i - 1) + 1..n : ~About(m, k, u, j)
        <3> TAKE j \in (i - 1) + 1..n
        <3>1. j + 1 \in 2..(n + 1) /\ j + 1 \in i + 1..Len(c) /\ (j + 1) - 1 = j
            BY <1>1, <2>1
        <3> QED BY <1>2, <3>1
    <2> QED BY <1>0, <1>1, <1>2, <2>1, <2>2
<1>4. ASSUME Silent(c, k, u) PROVE Silent(m, k, u)
    <2> SUFFICES ASSUME NEW i \in 1..n PROVE ~About(m, k, u, i)
        BY DEF Silent, n
    <2>1. i + 1 \in 2..(n + 1) /\ i + 1 \in 1..Len(c) /\ (i + 1) - 1 = i
        BY <1>1
    <2> QED BY <1>2, <1>4, <2>1 DEF Silent
<1> QED BY <1>3, <1>4 DEF c
-----------------------------------------------------------------------------
(* What comes again after an end of the connection *)

LEMMA LeastExists ==
    ASSUME NEW S \in SUBSET Nat, S # {}
    PROVE  \E m \in S : \A k \in S : m <= k
<1> DEFINE R == OpToRel(<, Nat)
<1>1. IsWellFoundedOn(R, Nat)
    BY NatLessThanWellFounded
<1>2. \A x, y \in Nat : <<x, y>> \in R <=> x < y
    BY DEF OpToRel
<1> HIDE DEF R
<1>3. PICK m \in S : \A k \in S : ~(<<k, m>> \in R)
    BY <1>1, WFMin
<1>4. ASSUME NEW k \in S PROVE m <= k
    <2>1. m \in Nat /\ k \in Nat /\ ~(k < m)
        BY <1>2, <1>3
    <2> QED BY <2>1
<1> QED BY <1>4

\* One step of the recursion of Undelivered.
Step(m, i, before) == IF m[i].kind = "ohiedit" THEN Append(before, m[i]) ELSE before

\* f follows the recursion up to n.
Follows(m, f, n) ==
    /\ f \in [0..n -> Seq(OhiEvent)] /\ f[0] = <<>>
    /\ \A i \in 1..n : f[i] = Step(m, i, f[i - 1])

LEMMA StepType ==
    ASSUME NEW m \in Seq(OhiEvent), NEW i \in 1..Len(m), NEW b \in Seq(OhiEvent)
    PROVE  Step(m, i, b) \in Seq(OhiEvent)
<1>1. m[i] \in OhiEvent
    OBVIOUS
<1> QED BY <1>1, AppendIs DEF Step

LEMMA FollowsExists ==
    ASSUME NEW m \in Seq(OhiEvent), NEW n \in 0..Len(m)
    PROVE  \E f : Follows(m, f, n)
<1>0. Len(m) \in Nat
    OBVIOUS
<1> DEFINE S == {k \in 0..Len(m) : ~\E f : Follows(m, f, k)}
<1> SUFFICES ASSUME S # {} PROVE FALSE
    OBVIOUS
<1>1. S \in SUBSET Nat
    BY <1>0
<1>2. PICK k \in S : \A j \in S : k <= j
    BY <1>1, LeastExists
<1>3. CASE k = 0
    <2> DEFINE f == [i \in 0..0 |-> <<>>]
    <2>1. Follows(m, f, 0)
        <3>1. <<>> \in Seq(OhiEvent) /\ f[0] = <<>> /\ f \in [0..0 -> Seq(OhiEvent)]
            OBVIOUS
        <3>2. 1..0 = {}
            OBVIOUS
        <3> QED BY <3>1, <3>2 DEF Follows
    <2> QED BY <1>3, <2>1
<1>4. CASE k # 0
    <2>1. k \in 1..Len(m) /\ k - 1 \in 0..Len(m) /\ k - 1 < k
        BY <1>0, <1>4
    <2>2. k - 1 \notin S
        BY <1>1, <1>2, <2>1
    <2>3. PICK f : Follows(m, f, k - 1)
        BY <2>1, <2>2
    <2> DEFINE g == [i \in 0..k |-> IF i = k THEN Step(m, k, f[k - 1]) ELSE f[i]]
    <2>4. f[k - 1] \in Seq(OhiEvent) /\ \A i \in 0..(k - 1) : f[i] \in Seq(OhiEvent)
        BY <2>1, <2>3 DEF Follows
    <2>5. Step(m, k, f[k - 1]) \in Seq(OhiEvent)
        BY <2>1, <2>4, StepType
    <2>6. \A i \in 0..k : i = k \/ i \in 0..(k - 1)
        BY <2>1
    <2>7. g \in [0..k -> Seq(OhiEvent)]
        BY <2>4, <2>5, <2>6
    <2>8. g[k] = Step(m, k, f[k - 1]) /\ \A i \in 0..(k - 1) : g[i] = f[i]
        BY <2>1
    <2> HIDE DEF g
    <2>9. g[0] = <<>>
        <3>1. 0 \in 0..(k - 1)
            BY <2>1
        <3>2. f[0] = <<>>
            BY <2>3 DEF Follows
        <3> QED BY <2>8, <3>1, <3>2
    <2>10. \A i \in 1..k : g[i] = Step(m, i, g[i - 1])
        <3> TAKE i \in 1..k
        <3>1. i = k \/ i \in 1..(k - 1)
            BY <2>1
        <3>2. i - 1 \in 0..(k - 1)
            BY <2>1
        <3>3. CASE i \in 1..(k - 1)
            <4>1. i \in 0..(k - 1) /\ f[i] = Step(m, i, f[i - 1])
                BY <2>3, <3>3 DEF Follows
            <4> QED BY <2>8, <3>2, <4>1
        <3>4. CASE i = k
            BY <2>8, <3>2, <3>4
        <3> QED BY <3>1, <3>3, <3>4
    <2>11. Follows(m, g, k)
        BY <2>7, <2>9, <2>10 DEF Follows
    <2> QED BY <2>11
<1> QED BY <1>3, <1>4

\* Undelivered is the end of such a function.
LEMMA UndeliveredIs ==
    ASSUME NEW m \in Seq(OhiEvent)
    PROVE  \E f : Follows(m, f, Len(m)) /\ Undelivered(m) = f[Len(m)]
<1>0. Len(m) \in Nat
    OBVIOUS
<1> DEFINE Sol(f) == f = [i \in 0..Len(m) |->
                            IF i = 0 THEN <<>>
                            ELSE IF m[i].kind = "ohiedit" THEN Append(f[i - 1], m[i]) ELSE f[i - 1]]
<1>1. PICK f : f = CHOOSE h : Sol(h)
    OBVIOUS
<1>2. Undelivered(m) = f[Len(m)]
    BY <1>1 DEF Undelivered
<1>3. PICK g : Follows(m, g, Len(m))
    BY <1>0, FollowsExists
<1>4. Sol(g)
    <2> DEFINE val(i) == IF i = 0 THEN <<>>
                         ELSE IF m[i].kind = "ohiedit" THEN Append(g[i - 1], m[i]) ELSE g[i - 1]
    <2>1. \A i \in 0..Len(m) : g[i] = val(i)
        <3> TAKE i \in 0..Len(m)
        <3>1. CASE i = 0
            BY <1>3, <3>1 DEF Follows
        <3>2. CASE i # 0
            <4>1. i \in 1..Len(m)
                BY <1>0, <3>2
            <4> QED BY <1>3, <3>2, <4>1 DEF Follows, Step
        <3> QED BY <3>1, <3>2
    <2> HIDE DEF val
    <2>2. g = [i \in 0..Len(m) |-> g[i]]
        BY <1>3 DEF Follows
    <2>3. g = [i \in 0..Len(m) |-> val(i)]
        BY <2>1, <2>2
    <2> QED BY <2>3 DEF val
<1>5. Sol(f)
    BY <1>1, <1>4, Zenon
<1>6. f[0] = <<>> /\ \A i \in 1..Len(m) : f[i] = Step(m, i, f[i - 1])
    <2> DEFINE val(i) == IF i = 0 THEN <<>>
                         ELSE IF m[i].kind = "ohiedit" THEN Append(f[i - 1], m[i]) ELSE f[i - 1]
    <2>1. f = [i \in 0..Len(m) |-> val(i)]
        BY <1>5
    <2> HIDE DEF val
    <2>2. \A i \in 0..Len(m) : f[i] = val(i)
        BY <2>1
    <2>3. 0 \in 0..Len(m) /\ \A i \in 1..Len(m) : i \in 0..Len(m) /\ i # 0
        BY <1>0
    <2> QED BY <2>2, <2>3 DEF val, Step
<1>7. f \in [0..Len(m) -> Seq(OhiEvent)]
    <2> DEFINE D == {i \in 0..Len(m) : f[i] \notin Seq(OhiEvent)}
    <2>1. D = {}
        <3> SUFFICES ASSUME D # {} PROVE FALSE
            OBVIOUS
        <3>1. D \in SUBSET Nat
            BY <1>0
        <3>2. PICK k \in D : \A j \in D : k <= j
            BY <3>1, LeastExists
        <3>3. k # 0
            <4>1. f[0] \in Seq(OhiEvent)
                BY <1>6
            <4> QED BY <3>2, <4>1
        <3>4. k \in 1..Len(m) /\ k - 1 \in 0..Len(m) /\ ~(k <= k - 1)
            BY <1>0, <3>3
        <3>5. f[k - 1] \in Seq(OhiEvent)
            BY <3>2, <3>4
        <3> QED BY <1>6, <3>4, <3>5, StepType
    <2>2. \A i \in 0..Len(m) : f[i] \in Seq(OhiEvent)
        BY <2>1
    <2> DEFINE val(i) == IF i = 0 THEN <<>>
                         ELSE IF m[i].kind = "ohiedit" THEN Append(f[i - 1], m[i]) ELSE f[i - 1]
    <2>3. f = [i \in 0..Len(m) |-> val(i)]
        BY <1>5
    <2> HIDE DEF val
    <2> QED BY <2>2, <2>3
<1> QED BY <1>2, <1>6, <1>7 DEF Follows

\* Only edits come again, and they say of each user what they said.
LEMMA UndeliveredSays ==
    ASSUME NEW m \in Seq(OhiEvent)
    PROVE  /\ Undelivered(m) \in Seq(OhiEvent)
           /\ \A i \in 1..Len(Undelivered(m)) :
                Undelivered(m)[i].kind = "ohiedit" /\ \E j \in 1..Len(m) : Undelivered(m)[i] = m[j]
           /\ \A u, W : /\ Silent(Undelivered(m), "ohiedit", u) <=> Silent(m, "ohiedit", u)
                        /\ Ends(Undelivered(m), "ohiedit", u, W) <=> Ends(m, "ohiedit", u, W)
<1>0. Len(m) \in Nat /\ \A i \in 1..Len(m) : m[i] \in OhiEvent
    OBVIOUS
<1>1. PICK f : Follows(m, f, Len(m)) /\ Undelivered(m) = f[Len(m)]
    BY UndeliveredIs
<1> DEFINE Edits(s) == \A i \in 1..Len(s) : s[i].kind = "ohiedit" /\ \E j \in 1..Len(m) : s[i] = m[j]
           Same(s, t) == \A u, W : /\ Silent(s, "ohiedit", u) <=> Silent(t, "ohiedit", u)
                                   /\ Ends(s, "ohiedit", u, W) <=> Ends(t, "ohiedit", u, W)
           Good(k) == Edits(f[k]) /\ Same(f[k], SubSeq(m, 1, k))
           D == {k \in 0..Len(m) : ~Good(k)}
<1>2. Good(0)
    <2>1. f[0] = <<>> /\ SubSeq(m, 1, 0) = <<>>
        BY <1>1 DEF Follows
    <2>2. Edits(<<>>) /\ Same(<<>>, <<>>)
        OBVIOUS
    <2> HIDE DEF Edits, Same
    <2> QED BY <2>1, <2>2
<1>3. ASSUME NEW k \in 1..Len(m), Good(k - 1) PROVE Good(k)
    <2> DEFINE b == f[k - 1]
               p == SubSeq(m, 1, k - 1)
    <2>0. k - 1 \in 0..Len(m) /\ m[k] \in OhiEvent
        BY <1>0
    <2>f. b \in Seq(OhiEvent) /\ f[k] = Step(m, k, b)
        <3>1. f \in [0..Len(m) -> Seq(OhiEvent)] /\ \A i \in 1..Len(m) : f[i] = Step(m, i, f[i - 1])
            BY <1>1 DEF Follows
        <3> QED BY <2>0, <3>1
    <2>p. p \in Seq(OhiEvent)
        BY <1>0
    <2>1. /\ k - 1 \in 0..Len(m) /\ b \in Seq(OhiEvent) /\ p \in Seq(OhiEvent) /\ m[k] \in OhiEvent
          /\ f[k] = Step(m, k, b)
        BY <2>0, <2>f, <2>p
    <2>2. SubSeq(m, 1, k) = Append(p, m[k])
        <3> DEFINE x == SubSeq(m, 1, k)
        <3>1. x \in Seq(OhiEvent) /\ Len(x) = k /\ \A j \in 1..k : x[j] = m[j]
            BY <1>0
        <3>2. Len(p) = k - 1 /\ \A j \in 1..(k - 1) : p[j] = m[j]
            BY <1>0
        <3>3. /\ Append(p, m[k]) \in Seq(OhiEvent) /\ Len(Append(p, m[k])) = k
              /\ \A j \in 1..k : Append(p, m[k])[j] = m[j]
            <4>1. Append(p, m[k]) \in Seq(OhiEvent) /\ Len(Append(p, m[k])) = (k - 1) + 1
                BY <2>1, <3>2, AppendIs
            <4>2. \A j \in 1..(k - 1) : Append(p, m[k])[j] = p[j]
                BY <2>1, <3>2, AppendIs
            <4>3. Append(p, m[k])[(k - 1) + 1] = m[k]
                BY <2>1, <3>2, AppendIs
            <4>4. \A j \in 1..k : j \in 1..(k - 1) \/ j = (k - 1) + 1
                OBVIOUS
            <4> QED BY <3>2, <4>1, <4>2, <4>3, <4>4
        <3> HIDE DEF x, p
        <3> QED BY <3>1, <3>3, SeqEqual DEF x
    <2>3. Same(b, p) /\ Edits(b)
        BY <1>3
    <2> HIDE DEF b, p
    <2>4. CASE m[k].kind = "ohiedit"
        <3>1. f[k] = Append(b, m[k])
            BY <2>1, <2>4 DEF Step
        <3>2. Edits(Append(b, m[k]))
            <4> SUFFICES ASSUME NEW i \in 1..Len(Append(b, m[k]))
                         PROVE  /\ Append(b, m[k])[i].kind = "ohiedit"
                                /\ \E j \in 1..Len(m) : Append(b, m[k])[i] = m[j]
                OBVIOUS
            <4>1. CASE i \in 1..Len(b)
                BY <2>1, <2>3, <4>1, AppendIs
            <4>2. CASE i = Len(b) + 1
                BY <2>1, <2>4, <4>2, AppendIs
            <4>3. Len(b) \in Nat /\ Len(Append(b, m[k])) = Len(b) + 1
                BY <2>1, AppendIs
            <4> QED BY <4>1, <4>2, <4>3
        <3>3. Same(Append(b, m[k]), Append(p, m[k]))
            <4> TAKE u, W
            <4>1. CASE m[k].who = {u}
                <5>1. /\ ~Silent(Append(b, m[k]), "ohiedit", u)
                      /\ Ends(Append(b, m[k]), "ohiedit", u, W) <=> (m[k].op = "+" <=> u \in W)
                    BY <2>1, <2>4, <4>1, AppendAbout
                <5>2. /\ ~Silent(Append(p, m[k]), "ohiedit", u)
                      /\ Ends(Append(p, m[k]), "ohiedit", u, W) <=> (m[k].op = "+" <=> u \in W)
                    BY <2>1, <2>4, <4>1, AppendAbout
                <5> QED BY <5>1, <5>2
            <4>2. CASE m[k].who # {u}
                <5>1. /\ Silent(Append(b, m[k]), "ohiedit", u) <=> Silent(b, "ohiedit", u)
                      /\ Ends(Append(b, m[k]), "ohiedit", u, W) <=> Ends(b, "ohiedit", u, W)
                    BY <2>1, <4>2, AppendAbout
                <5>2. /\ Silent(Append(p, m[k]), "ohiedit", u) <=> Silent(p, "ohiedit", u)
                      /\ Ends(Append(p, m[k]), "ohiedit", u, W) <=> Ends(p, "ohiedit", u, W)
                    BY <2>1, <4>2, AppendAbout
                <5> QED BY <2>3, <5>1, <5>2
            <4> QED BY <4>1, <4>2
        <3> HIDE DEF Edits, Same
        <3> QED BY <2>2, <3>1, <3>2, <3>3
    <2>5. CASE m[k].kind # "ohiedit"
        <3>1. f[k] = b
            BY <2>1, <2>5 DEF Step
        <3>2. Same(b, Append(p, m[k]))
            <4> TAKE u, W
            <4>1. /\ Silent(Append(p, m[k]), "ohiedit", u) <=> Silent(p, "ohiedit", u)
                  /\ Ends(Append(p, m[k]), "ohiedit", u, W) <=> Ends(p, "ohiedit", u, W)
                BY <2>1, <2>5, AppendAbout
            <4> QED BY <2>3, <4>1
        <3> HIDE DEF Edits, Same
        <3> QED BY <2>2, <2>3, <3>1, <3>2
    <2> QED BY <2>4, <2>5
<1> HIDE DEF Good
<1>4. D = {}
    <2> SUFFICES ASSUME D # {} PROVE FALSE
        OBVIOUS
    <2>1. D \in SUBSET Nat
        BY <1>0
    <2>2. PICK k \in D : \A j \in D : k <= j
        BY <2>1, LeastExists
    <2>3. k # 0 /\ k \in 0..Len(m) /\ ~Good(k)
        BY <1>2, <2>2
    <2>4. k \in 1..Len(m) /\ k - 1 \in 0..Len(m) /\ ~(k <= k - 1)
        BY <1>0, <2>3
    <2>5. Good(k - 1)
        BY <2>2, <2>4
    <2> QED BY <1>3, <2>3, <2>4, <2>5
<1>5. Good(Len(m))
    BY <1>0, <1>4
<1>6. SubSeq(m, 1, Len(m)) = m
    OBVIOUS
<1>7. f[Len(m)] \in Seq(OhiEvent)
    BY <1>0, <1>1 DEF Follows
<1>8. PICK d : d = Undelivered(m)
    OBVIOUS
<1>9. d = f[Len(m)] /\ d \in Seq(OhiEvent)
    BY <1>1, <1>7, <1>8
<1>10. Edits(d) /\ Same(d, m)
    <2> HIDE DEF Edits, Same
    <2>1. Edits(f[Len(m)]) /\ Same(f[Len(m)], SubSeq(m, 1, Len(m)))
        BY <1>5 DEF Good
    <2> QED BY <1>6, <1>9, <2>1
<1> QED BY <1>8, <1>9, <1>10
-----------------------------------------------------------------------------
(* The inductive invariant: the mail is well formed, its last edit of a user    *)
(* says whether the server watches them, one that is pending has a record that  *)
(* is not answered yet, and the last news of a user says whether they are       *)
(* online.                                                                      *)
OhiTypes ==
  /\ ohiFault \in {"none", "overtakes", "refuses"}
  /\ toOhi \in [OhiUser -> {"none", "pending", "told"}] /\ editing \subseteq OhiUser
  /\ ohiQueue \in Seq(OhiRecord) /\ ohiMail \in Seq(OhiEvent)
  /\ watched \subseteq OhiUser /\ online \subseteq OhiUser /\ fromOhi \subseteq OhiUser
  /\ login \in BOOLEAN /\ ohiSent \in BOOLEAN
  /\ ohiSent => login /\ ohiQueue # <<>>

Form(m, sentNow, here) ==
  \A i \in 1..Len(m) :
    /\ m[i].kind \in {"ohiedit", "ohi"} => m[i].op \in {"+", "-"} /\ \E u \in OhiUser : m[i].who = {u}
    /\ m[i].kind = "ack" => sentNow /\ \A j \in i + 1..Len(m) : m[j].kind # "ack"
    /\ m[i].kind = "info" => i = 1
    /\ ~here => m[i].kind = "ohiedit"
MailForm == Form(ohiMail, ohiSent, login)

Coming(u) == \E i \in 1..Len(ohiQueue) : ohiQueue[i].who = u /\ (i = 1 => ~ohiSent)

FileOf(u) ==
  /\ Ends(ohiMail, "ohiedit", u, watched)
  /\ u \in editing => Coming(u)
  /\ Silent(ohiMail, "ohiedit", u) =>
       /\ toOhi[u] = "pending" => Coming(u)
       /\ toOhi[u] # "pending" => (toOhi[u] = "told" <=> u \in watched)

InfoFirst(m) == m # <<>> /\ m[1].kind = "info"

FromOf(u) ==
  /\ Ends(ohiMail, "ohi", u, online)
  /\ Silent(ohiMail, "ohi", u) =>
       /\ InfoFirst(ohiMail) => (u \in ohiMail[1].who <=> u \in online)
       /\ ~InfoFirst(ohiMail) => (u \in fromOhi <=> u \in online)

Common == OhiTypes /\ MailForm
FileInv == ohiFault = "none" => \A u \in OhiUser : FileOf(u)
FromInv == login => \A u \in OhiUser : FromOf(u)
OhiInv == Common /\ FileInv /\ FromInv

LEMMA OhiInvSound == OhiInv => OhiSound
<1> SUFFICES ASSUME OhiInv PROVE OhiSound
    OBVIOUS
<1>0. /\ OhiTypes /\ MailForm /\ FileInv /\ FromInv
      /\ DOMAIN ohiMail = 1..Len(ohiMail) /\ DOMAIN ohiQueue = 1..Len(ohiQueue)
    <2>1. Common /\ FileInv /\ FromInv
        BY DEF OhiInv
    <2>2. ohiMail \in Seq(OhiEvent) /\ ohiQueue \in Seq(OhiRecord)
        BY <2>1 DEF Common, OhiTypes
    <2> QED BY <2>1, <2>2 DEF Common
<1>1. OhiTypeOK
    <2>1. \A i \in DOMAIN ohiMail : ohiMail[i].kind = "ack" => ohiSent /\ ohiQueue # <<>>
        BY <1>0 DEF MailForm, Form, OhiTypes
    <2> QED BY <1>0, <2>1 DEF OhiTypeOK, OhiTypes
<1>2. FileAgrees
    <2> SUFFICES ASSUME ohiFault = "none", NEW u \in OhiUser, ~Awaited(u)
                 PROVE  toOhi[u] # "pending" /\ (u \in AllOhi <=> u \in watched)
        BY DEF FileAgrees
    <2>1. FileOf(u)
        BY <1>0 DEF FileInv
    <2>2. Silent(ohiMail, "ohiedit", u)
        BY <1>0 DEF Awaited, Silent, About
    <2>3. ~Coming(u)
        BY <1>0 DEF Awaited, Coming
    <2>4. toOhi[u] # "pending" /\ (toOhi[u] = "told" <=> u \in watched)
        BY <2>1, <2>2, <2>3 DEF FileOf
    <2> QED BY <2>4 DEF AllOhi
<1>3. FromAgrees
    <2> SUFFICES ASSUME login, \A i \in DOMAIN ohiMail : ohiMail[i].kind \notin {"info", "ohi"}
                 PROVE  fromOhi = online
        BY DEF FromAgrees
    <2>1. ASSUME NEW u \in OhiUser PROVE u \in fromOhi <=> u \in online
        <3>1. FromOf(u)
            BY <1>0 DEF FromInv
        <3>2. Silent(ohiMail, "ohi", u)
            BY <1>0 DEF Silent, About
        <3>3. ~InfoFirst(ohiMail)
            <4>1. ohiMail # <<>> => 1 \in DOMAIN ohiMail
                <5>1. ohiMail \in Seq(OhiEvent)
                    BY <1>0 DEF OhiTypes
                <5> QED BY <5>1
            <4> QED BY <4>1 DEF InfoFirst
        <3> QED BY <3>1, <3>2, <3>3 DEF FromOf
    <2> QED BY <1>0, <2>1 DEF OhiTypes
<1> QED BY <1>1, <1>2, <1>3 DEF OhiSound

LEMMA OhiInvInit == OhiInit => OhiInv
<1> SUFFICES ASSUME OhiInit PROVE OhiInv
    OBVIOUS
<1>1. /\ <<>> \in Seq(OhiRecord) /\ <<>> \in Seq(OhiEvent) /\ 1..Len(<<>>) = {}
    OBVIOUS
<1>2. OhiTypes
    BY <1>1 DEF OhiInit, OhiTypes
<1>3. MailForm
    BY <1>1 DEF OhiInit, MailForm, Form
<1>4. ASSUME NEW u \in OhiUser PROVE FileOf(u)
    BY <1>1 DEF OhiInit, FileOf, Ends
<1>5. ~login
    BY DEF OhiInit
<1> QED BY <1>2, <1>3, <1>4, <1>5 DEF OhiInv, Common, FileInv, FromInv

-----------------------------------------------------------------------------
(* The form of the mail *)

LEMMA FormAppend ==
    ASSUME NEW m \in Seq(OhiEvent), NEW e \in OhiEvent, NEW s, NEW h, Form(m, s, h),
           e.kind \in {"ohiedit", "ohi"}, e.op \in {"+", "-"}, \E u \in OhiUser : e.who = {u},
           h \/ e.kind = "ohiedit"
    PROVE  Form(Append(m, e), s, h)
<1> DEFINE a == Append(m, e)
           n == Len(m)
<1>1. /\ n \in Nat /\ Len(a) = n + 1 /\ a[n + 1] = e /\ \A i \in 1..n : a[i] = m[i]
    BY AppendIs
<1>2. \A i \in 1..n : /\ m[i].kind \in {"ohiedit", "ohi"} => m[i].op \in {"+", "-"} /\ \E u \in OhiUser : m[i].who = {u}
                      /\ m[i].kind = "ack" => s /\ \A j \in i + 1..n : m[j].kind # "ack"
                      /\ m[i].kind = "info" => i = 1
                      /\ ~h => m[i].kind = "ohiedit"
    BY DEF Form
<1> HIDE DEF a, n
<1> SUFFICES ASSUME NEW i \in 1..Len(a)
             PROVE  /\ a[i].kind \in {"ohiedit", "ohi"} => a[i].op \in {"+", "-"} /\ \E u \in OhiUser : a[i].who = {u}
                    /\ a[i].kind = "ack" => s /\ \A j \in i + 1..Len(a) : a[j].kind # "ack"
                    /\ a[i].kind = "info" => i = 1
                    /\ ~h => a[i].kind = "ohiedit"
    BY DEF Form, a
<1>3. CASE i \in 1..n
    <2>1. \A j \in i + 1..Len(a) : (j \in i + 1..n /\ j \in 1..n) \/ j = n + 1
        BY <1>1, <1>3
    <2>2. a[i].kind = "ack" => s /\ \A j \in i + 1..Len(a) : a[j].kind # "ack"
        BY <1>1, <1>2, <1>3, <2>1
    <2> QED BY <1>1, <1>2, <1>3, <2>2
<1>4. CASE i = n + 1
    BY <1>1, <1>4
<1> QED BY <1>1, <1>3, <1>4

LEMMA FormAck ==
    ASSUME NEW m \in Seq(OhiEvent), NEW e \in OhiEvent, e.kind = "ack", Form(m, FALSE, TRUE)
    PROVE  Form(Append(m, e), TRUE, TRUE)
<1> DEFINE a == Append(m, e)
           n == Len(m)
<1>1. /\ n \in Nat /\ Len(a) = n + 1 /\ a[n + 1] = e /\ \A i \in 1..n : a[i] = m[i]
    BY AppendIs
<1>2. \A i \in 1..n : /\ m[i].kind \in {"ohiedit", "ohi"} => m[i].op \in {"+", "-"} /\ \E u \in OhiUser : m[i].who = {u}
                      /\ m[i].kind # "ack"
                      /\ m[i].kind = "info" => i = 1
    BY DEF Form
<1> HIDE DEF a, n
<1> SUFFICES ASSUME NEW i \in 1..Len(a)
             PROVE  /\ a[i].kind \in {"ohiedit", "ohi"} => a[i].op \in {"+", "-"} /\ \E u \in OhiUser : a[i].who = {u}
                    /\ a[i].kind = "ack" => \A j \in i + 1..Len(a) : a[j].kind # "ack"
                    /\ a[i].kind = "info" => i = 1
    BY DEF Form, a
<1>3. CASE i \in 1..n
    BY <1>1, <1>2, <1>3
<1>4. CASE i = n + 1
    <2>1. i + 1..Len(a) = {}
        BY <1>1, <1>4
    <2> QED BY <1>1, <1>4, <2>1
<1> QED BY <1>1, <1>3, <1>4

LEMMA FormTail ==
    ASSUME NEW m \in Seq(OhiEvent), m # <<>>, NEW s, NEW h, Form(m, s, h)
    PROVE  /\ m[1].kind # "ack" => Form(Tail(m), s, h)
           /\ m[1].kind = "ack" => Form(Tail(m), FALSE, h)
           /\ ~InfoFirst(Tail(m))
<1> DEFINE t == Tail(m)
           n == Len(m)
<1>1. /\ n \in Nat /\ n >= 1 /\ Len(t) = n - 1 /\ \A i \in 1..(n - 1) : t[i] = m[i + 1]
      /\ t \in Seq(OhiEvent)
    BY TailIs
<1>2. \A i \in 1..n : /\ m[i].kind \in {"ohiedit", "ohi"} => m[i].op \in {"+", "-"} /\ \E u \in OhiUser : m[i].who = {u}
                      /\ m[i].kind = "ack" => s /\ \A j \in i + 1..n : m[j].kind # "ack"
                      /\ m[i].kind = "info" => i = 1
                      /\ ~h => m[i].kind = "ohiedit"
    BY DEF Form
<1> HIDE DEF t, n
<1>3. ASSUME NEW i \in 1..Len(t)
      PROVE  /\ t[i].kind \in {"ohiedit", "ohi"} => t[i].op \in {"+", "-"} /\ \E u \in OhiUser : t[i].who = {u}
             /\ t[i].kind = "ack" => s /\ m[1].kind # "ack" /\ \A j \in i + 1..Len(t) : t[j].kind # "ack"
             /\ t[i].kind # "info"
             /\ ~h => t[i].kind = "ohiedit"
    <2>1. i \in 1..(n - 1) /\ i + 1 \in 1..n /\ i + 1 # 1 /\ t[i] = m[i + 1] /\ 1 \in 1..n
        BY <1>1
    <2>2. \A j \in i + 1..Len(t) : j \in 1..(n - 1) /\ j + 1 \in (i + 1) + 1..n
        BY <1>1, <2>1
    <2>3. i + 1 \in 1 + 1..n
        BY <2>1
    <2>4. ASSUME t[i].kind = "ack" PROVE s /\ \A j \in i + 1..Len(t) : t[j].kind # "ack"
        <3>1. s /\ \A j \in (i + 1) + 1..n : m[j].kind # "ack"
            BY <1>2, <2>1, <2>4
        <3>2. ASSUME NEW j \in i + 1..Len(t) PROVE t[j].kind # "ack"
            BY <1>1, <2>2, <3>1
        <3> QED BY <3>1, <3>2
    <2>5. t[i].kind = "ack" => m[1].kind # "ack"
        BY <1>2, <2>1, <2>3
    <2> QED BY <1>2, <2>1, <2>4, <2>5
<1>4. m[1].kind # "ack" => Form(t, s, h)
    BY <1>3 DEF Form
<1>5. m[1].kind = "ack" => Form(t, FALSE, h)
    BY <1>3 DEF Form
<1>6. ~InfoFirst(t)
    <2>1. t # <<>> => 1 \in 1..Len(t)
        BY <1>1
    <2> QED BY <1>3, <2>1 DEF InfoFirst
<1> QED BY <1>4, <1>5, <1>6 DEF t

LEMMA FormCons ==
    ASSUME NEW m \in Seq(OhiEvent), NEW e \in OhiEvent, e.kind = "info", NEW s, Form(m, s, FALSE)
    PROVE  Form(<<e>> \o m, s, TRUE)
<1> DEFINE c == <<e>> \o m
           n == Len(m)
<1>1. n \in Nat /\ Len(c) = n + 1 /\ c[1] = e /\ \A i \in 2..(n + 1) : c[i] = m[i - 1]
    BY ConsIs
<1>2. \A i \in 1..n : /\ m[i].kind = "ohiedit"
                      /\ m[i].op \in {"+", "-"} /\ \E u \in OhiUser : m[i].who = {u}
    BY DEF Form
<1> HIDE DEF c, n
<1> SUFFICES ASSUME NEW i \in 1..Len(c)
             PROVE  /\ c[i].kind \in {"ohiedit", "ohi"} => c[i].op \in {"+", "-"} /\ \E u \in OhiUser : c[i].who = {u}
                    /\ c[i].kind # "ack"
                    /\ c[i].kind = "info" => i = 1
    BY DEF Form, c
<1>3. CASE i = 1
    BY <1>1, <1>3
<1>4. CASE i # 1
    <2>1. i \in 2..(n + 1) /\ i - 1 \in 1..n
        BY <1>1, <1>4
    <2>2. c[i] = m[i - 1]
        BY <1>1, <2>1
    <2>3. m[i - 1].kind = "ohiedit" /\ m[i - 1].op \in {"+", "-"} /\ \E u \in OhiUser : m[i - 1].who = {u}
        BY <1>2, <2>1
    <2> QED BY <2>2, <2>3
<1> QED BY <1>3, <1>4

LEMMA FormUndelivered ==
    ASSUME NEW m \in Seq(OhiEvent), NEW s, NEW h, Form(m, s, h)
    PROVE  Form(Undelivered(m), FALSE, FALSE)
<1> DEFINE d == Undelivered(m)
<1> SUFFICES ASSUME NEW i \in 1..Len(d)
             PROVE  d[i].kind = "ohiedit" /\ d[i].op \in {"+", "-"} /\ \E u \in OhiUser : d[i].who = {u}
    BY DEF Form
<1>1. d[i].kind = "ohiedit" /\ \E j \in 1..Len(m) : d[i] = m[j]
    BY UndeliveredSays
<1> QED BY <1>1 DEF Form
-----------------------------------------------------------------------------
(* Types and form are kept *)

\* What the server sends when it has dealt with a record, and what a crash leaves.
LEMMA TwoAppends ==
    ASSUME NEW S, NEW s \in Seq(S), NEW x \in S, NEW y \in S
    PROVE  s \o <<x, y>> = Append(Append(s, x), y)
<1> DEFINE a == Append(Append(s, x), y)
           b == s \o <<x, y>>
           n == Len(s)
<1>1. n \in Nat /\ Append(s, x) \in Seq(S) /\ Len(Append(s, x)) = n + 1
    BY AppendIs
<1>2. a \in Seq(S) /\ Len(a) = n + 2 /\ a[n + 2] = y /\ a[n + 1] = x /\ \A i \in 1..n : a[i] = s[i]
    <2>1. a \in Seq(S) /\ Len(a) = (n + 1) + 1 /\ a[(n + 1) + 1] = y
        BY <1>1, AppendIs
    <2>2. \A i \in 1..(n + 1) : a[i] = Append(s, x)[i]
        BY <1>1, AppendIs
    <2>3. Append(s, x)[n + 1] = x /\ \A i \in 1..n : Append(s, x)[i] = s[i]
        BY AppendIs
    <2>4. (n + 1) + 1 = n + 2 /\ n + 1 \in 1..(n + 1) /\ \A i \in 1..n : i \in 1..(n + 1)
        BY <1>1
    <2> HIDE DEF a, n
    <2> QED BY <2>1, <2>2, <2>3, <2>4
<1>3. b \in Seq(S) /\ Len(b) = n + 2 /\ b[n + 2] = y /\ b[n + 1] = x /\ \A i \in 1..n : b[i] = s[i]
    <2>1. <<x, y>> \in Seq(S) /\ Len(<<x, y>>) = 2 /\ <<x, y>>[1] = x /\ <<x, y>>[2] = y
        OBVIOUS
    <2>2. b \in Seq(S) /\ Len(b) = n + 2
        BY <1>1, <2>1
    <2>3. \A i \in 1..(n + 2) : b[i] = IF i <= n THEN s[i] ELSE <<x, y>>[i - n]
        BY <1>1, <2>1
    <2>4. n + 1 \in 1..(n + 2) /\ n + 2 \in 1..(n + 2) /\ (n + 1) - n = 1 /\ (n + 2) - n = 2
        BY <1>1
    <2>5. b[n + 1] = x /\ b[n + 2] = y
        BY <1>1, <2>1, <2>3, <2>4
    <2>6. \A i \in 1..n : b[i] = s[i]
        BY <1>1, <2>3
    <2> QED BY <2>2, <2>5, <2>6
<1>4. \A i \in 1..(n + 2) : i \in 1..n \/ i = n + 1 \/ i = n + 2
    BY <1>1
<1> HIDE DEF a, b, n
<1>5. Len(a) = Len(b) /\ \A i \in 1..Len(a) : a[i] = b[i]
    BY <1>2, <1>3, <1>4
<1>6. a = b
    BY <1>2, <1>3, <1>5, SeqEqual
<1> QED BY <1>6 DEF a, b

LEMMA HandleIs ==
    ASSUME Common, HandleOhi
    PROVE  /\ ohiMail # <<>> /\ ohiMail[1] \in OhiEvent /\ ohiMail' = Tail(ohiMail)
           /\ ohiMail[1].kind = "ohiedit" =>
                \E u \in OhiUser : /\ ohiMail[1].who = {u}
                                   /\ toOhi' = [toOhi EXCEPT ![u] = IF ohiMail[1].op = "+" THEN "told" ELSE "none"]
           /\ ohiMail[1].kind # "ohiedit" => toOhi' = toOhi
           /\ ohiMail[1].kind = "ack" => ohiSent /\ ohiQueue # <<>> /\ ohiQueue' = Tail(ohiQueue) /\ ohiSent' = FALSE
           /\ ohiMail[1].kind # "ack" => UNCHANGED <<ohiQueue, ohiSent>>
           /\ ohiMail[1].kind = "info" => fromOhi' = ohiMail[1].who
           /\ ohiMail[1].kind = "ohi" =>
                \E u \in OhiUser : ohiMail[1].who = {u} /\ fromOhi' = IF ohiMail[1].op = "+" THEN fromOhi \union {u} ELSE fromOhi \ {u}
           /\ ohiMail[1].kind \in {"ohiedit", "ack"} => fromOhi' = fromOhi
           /\ UNCHANGED <<ohiFault, editing, watched, online, login>>
<1> DEFINE e == ohiMail[1]
<1>1. /\ ohiMail # <<>> /\ e \in OhiEvent /\ Head(ohiMail) = e /\ 1 \in 1..Len(ohiMail)
      /\ ohiMail' = Tail(ohiMail)
    <2>1. ohiMail \in Seq(OhiEvent) /\ ohiMail # <<>> /\ ohiMail' = Tail(ohiMail)
        BY DEF Common, OhiTypes, HandleOhi
    <2>2. Head(ohiMail) = e /\ e \in OhiEvent /\ Len(ohiMail) \in Nat /\ Len(ohiMail) >= 1
        BY <2>1, TailIs
    <2> QED BY <2>1, <2>2
<1>2. /\ e.kind \in {"ohiedit", "ohi"} => \E u \in OhiUser : e.who = {u}
      /\ e.kind = "ack" => ohiSent
    BY <1>1 DEF Common, MailForm, Form
<1>3. /\ fromOhi' = CASE e.kind = "info" -> e.who
                      [] e.kind = "ohi" -> FromAdded(fromOhi, e)
                      [] OTHER -> fromOhi
      /\ toOhi' = IF e.kind # "ohiedit" THEN toOhi
                  ELSE IF e.op = "+" THEN [toOhi EXCEPT ![CHOOSE u \in e.who : TRUE] = "told"]
                  ELSE Gone(toOhi, CHOOSE u \in e.who : TRUE)
      /\ IF e.kind = "ack" THEN ohiQueue' = Tail(ohiQueue) /\ ohiSent' = FALSE
         ELSE UNCHANGED <<ohiQueue, ohiSent>>
      /\ UNCHANGED <<ohiFault, editing, watched, online, login>>
    <2>0. PICK h : h = Head(ohiMail)
        OBVIOUS
    <2>1. h = e
        BY <1>1, <2>0
    <2>2. fromOhi' = CASE h.kind = "info" -> h.who
                       [] h.kind = "ohi" -> FromAdded(fromOhi, h)
                       [] OTHER -> fromOhi
        BY <2>0 DEF HandleOhi
    <2>3. toOhi' = IF h.kind # "ohiedit" THEN toOhi
                   ELSE IF h.op = "+" THEN [toOhi EXCEPT ![CHOOSE u \in h.who : TRUE] = "told"]
                   ELSE Gone(toOhi, CHOOSE u \in h.who : TRUE)
        BY <2>0 DEF HandleOhi
    <2>4. IF h.kind = "ack" THEN ohiQueue' = Tail(ohiQueue) /\ ohiSent' = FALSE
          ELSE UNCHANGED <<ohiQueue, ohiSent>>
        BY <2>0 DEF HandleOhi
    <2>5. UNCHANGED <<ohiFault, editing, watched, online, login>>
        BY DEF HandleOhi
    <2> HIDE DEF e
    <2> QED BY <2>1, <2>2, <2>3, <2>4, <2>5
<1> HIDE DEF e
<1>4. ASSUME e.kind = "ohiedit"
      PROVE  \E u \in OhiUser : /\ e.who = {u}
                                /\ toOhi' = [toOhi EXCEPT ![u] = IF e.op = "+" THEN "told" ELSE "none"]
    <2>1. PICK u \in OhiUser : e.who = {u}
        BY <1>2, <1>4
    <2>2. (CHOOSE w \in e.who : TRUE) = u
        BY <2>1
    <2>3. toOhi' = IF e.op = "+" THEN [toOhi EXCEPT ![u] = "told"] ELSE [toOhi EXCEPT ![u] = "none"]
        BY <1>3, <1>4, <2>2 DEF Gone
    <2> QED BY <2>1, <2>3
<1>5. ASSUME e.kind = "ohi"
      PROVE  \E u \in OhiUser : e.who = {u} /\ fromOhi' = IF e.op = "+" THEN fromOhi \union {u} ELSE fromOhi \ {u}
    <2>1. PICK u \in OhiUser : e.who = {u}
        BY <1>2, <1>5
    <2> QED BY <1>3, <1>5, <2>1 DEF FromAdded
<1>6. e.kind = "ack" => ohiQueue # <<>>
    BY <1>2 DEF Common, OhiTypes
<1>7. e.kind = "info" => fromOhi' = e.who
    BY <1>3
<1>8. e.kind \in {"ohiedit", "ack"} => fromOhi' = fromOhi
    BY <1>3
<1> QED BY <1>1, <1>2, <1>3, <1>4, <1>5, <1>6, <1>7, <1>8 DEF e

LEMMA CommonStep == Common /\ [OhiNext]_ohiVars => Common'
<1> SUFFICES ASSUME Common, [OhiNext]_ohiVars PROVE Common'
    OBVIOUS
<1>t. /\ OhiTypes /\ Form(ohiMail, ohiSent, login)
      /\ ohiMail \in Seq(OhiEvent) /\ ohiQueue \in Seq(OhiRecord) /\ login \in BOOLEAN /\ ohiSent \in BOOLEAN
    BY DEF Common, MailForm, OhiTypes
<1>1. ASSUME NEW op \in {"+", "-"}, NEW u \in OhiUser, EditOhi(op, u) PROVE Common'
    <2>1. [op |-> op, who |-> u] \in OhiRecord
        BY DEF OhiRecord
    <2>2. ohiQueue' \in Seq(OhiRecord) /\ ohiQueue' # <<>>
        BY <1>t, <1>1, <2>1, AppendIs DEF EditOhi
    <2> QED BY <1>t, <1>1, <2>2 DEF EditOhi, Common, MailForm, OhiTypes
<1>2. ASSUME NEW op \in {"+", "-"}, NEW u \in OhiUser, OhiElsewhere(op, u) PROVE Common'
    <2>1. [kind |-> "ohiedit", op |-> op, who |-> {u}] \in OhiEvent
        BY DEF OhiEvent
    <2>2. ohiMail' \in Seq(OhiEvent) /\ Form(ohiMail', ohiSent, login)
        BY <1>t, <1>2, <2>1, AppendIs, FormAppend DEF OhiElsewhere
    <2>3. watched' \subseteq OhiUser
        BY <1>t, <1>2 DEF OhiElsewhere, OhiTypes
    <2> QED BY <1>t, <1>2, <2>2, <2>3 DEF OhiElsewhere, Common, MailForm, OhiTypes
<1>3. ASSUME NEW u \in OhiUser, MarkPending(u) PROVE Common'
    BY <1>t, <1>3 DEF MarkPending, Common, MailForm, OhiTypes
<1>4. ASSUME NEW u \in OhiUser, ChangeStatus(u) PROVE Common'
    <2>1. ohiMail' \in Seq(OhiEvent) /\ Form(ohiMail', ohiSent, login)
        <3>1. CASE ~login
            BY <1>t, <1>4, <3>1 DEF ChangeStatus
        <3>2. CASE login
            <4> DEFINE e == [kind |-> "ohi", op |-> IF u \in online THEN "-" ELSE "+", who |-> {u}]
            <4>1. e \in OhiEvent /\ e.kind = "ohi" /\ e.op \in {"+", "-"} /\ e.who = {u}
                BY DEF OhiEvent
            <4>2. ohiMail' = Append(ohiMail, e)
                BY <1>4, <3>2 DEF ChangeStatus
            <4> HIDE DEF e
            <4> QED BY <1>t, <3>2, <4>1, <4>2, AppendIs, FormAppend
        <3> QED BY <3>1, <3>2
    <2>2. online' \subseteq OhiUser
        BY <1>t, <1>4 DEF ChangeStatus, OhiTypes
    <2> QED BY <1>t, <1>4, <2>1, <2>2 DEF ChangeStatus, Common, MailForm, OhiTypes
<1>5. CASE LoginOhi
    <2> DEFINE e == [kind |-> "info", op |-> "none", who |-> online]
    <2>1. e \in OhiEvent /\ e.kind = "info"
        BY <1>t DEF OhiEvent, OhiTypes
    <2>2. ohiMail' = <<e>> \o ohiMail /\ ~login /\ login'
        BY <1>5 DEF LoginOhi
    <2> HIDE DEF e
    <2>3. ohiMail' \in Seq(OhiEvent)
        BY <1>t, <2>1, <2>2, ConsIs
    <2>4. Form(ohiMail, ohiSent, FALSE) /\ login' = TRUE
        <3>1. login = FALSE
            BY <1>t, <2>2
        <3> QED BY <1>t, <1>5, <3>1 DEF LoginOhi
    <2>5. Form(ohiMail', ohiSent, TRUE)
        BY <1>t, <2>1, <2>2, <2>4, FormCons
    <2> QED BY <1>t, <1>5, <2>3, <2>4, <2>5 DEF LoginOhi, Common, MailForm, OhiTypes
<1>6. CASE SendOhi
    <2> DEFINE r == Head(ohiQueue)
               edit == [kind |-> "ohiedit", op |-> r.op, who |-> {r.who}]
               ack == [kind |-> "ack", op |-> "none", who |-> {}]
    <2>1. r \in OhiRecord /\ login = TRUE /\ ohiSent = FALSE /\ ohiQueue # <<>>
        <3>1. login /\ ~ohiSent /\ ohiQueue # <<>>
            BY <1>6 DEF SendOhi
        <3> QED BY <1>t, <3>1, TailIs
    <2>2. /\ edit \in OhiEvent /\ edit.kind = "ohiedit" /\ edit.op \in {"+", "-"} /\ edit.who = {r.who}
          /\ ack \in OhiEvent /\ ack.kind = "ack" /\ r.who \in OhiUser
        BY <2>1 DEF OhiRecord, OhiEvent
    <2>3. /\ ohiMail' = ohiMail \o <<edit, ack>> \/ ohiMail' = Append(ohiMail, ack)
          /\ ohiSent' = TRUE
          /\ watched' \in {watched, watched \union {r.who}, watched \ {r.who}}
          /\ UNCHANGED <<ohiFault, toOhi, editing, ohiQueue, online, fromOhi, login>>
        BY <1>6 DEF SendOhi
    <2> HIDE DEF edit, ack
    <2>4. Form(ohiMail, FALSE, TRUE)
        BY <1>t, <2>1
    <2>5. CASE ohiMail' = Append(ohiMail, ack)
        <3>1. ohiMail' \in Seq(OhiEvent) /\ Form(ohiMail', TRUE, TRUE)
            BY <1>t, <2>2, <2>4, <2>5, AppendIs, FormAck
        <3> QED BY <1>t, <2>1, <2>2, <2>3, <3>1 DEF Common, MailForm, OhiTypes
    <2>6. CASE ohiMail' = ohiMail \o <<edit, ack>>
        <3> DEFINE m == Append(ohiMail, edit)
        <3>a. m \in Seq(OhiEvent)
            BY <1>t, <2>2, AppendIs
        <3>b. Form(m, FALSE, TRUE)
            BY <1>t, <2>2, <2>4, FormAppend
        <3>c. ohiMail' = Append(m, ack)
            BY <1>t, <2>2, <2>6, TwoAppends
        <3> HIDE DEF m
        <3>1. m \in Seq(OhiEvent) /\ Form(m, FALSE, TRUE) /\ ohiMail' = Append(m, ack)
            BY <3>a, <3>b, <3>c
        <3>2. ohiMail' \in Seq(OhiEvent) /\ Form(ohiMail', TRUE, TRUE)
            BY <2>2, <3>1, AppendIs, FormAck
        <3> QED BY <1>t, <2>1, <2>2, <2>3, <3>2 DEF Common, MailForm, OhiTypes
    <2> QED BY <2>3, <2>5, <2>6
<1>7. CASE HandleOhi
    <2>h. /\ ohiMail # <<>> /\ ohiMail[1] \in OhiEvent /\ ohiMail' = Tail(ohiMail)
          /\ ohiMail[1].kind = "ack" => ohiQueue # <<>> /\ ohiQueue' = Tail(ohiQueue) /\ ohiSent' = FALSE
          /\ ohiMail[1].kind # "ack" => UNCHANGED <<ohiQueue, ohiSent>>
          /\ UNCHANGED <<ohiFault, editing, watched, online, login>>
        BY <1>7, HandleIs
    <2>1. ohiMail' \in Seq(OhiEvent)
        BY <1>t, <2>h, TailIs
    <2>w. ohiMail[1].who \subseteq OhiUser
        BY <2>h DEF OhiEvent
    <2>2. toOhi' \in [OhiUser -> {"none", "pending", "told"}] /\ fromOhi' \subseteq OhiUser
        <3>1. ohiMail[1].kind \in {"info", "ohiedit", "ohi", "ack"}
            BY <2>h DEF OhiEvent
        <3>2. toOhi \in [OhiUser -> {"none", "pending", "told"}] /\ fromOhi \subseteq OhiUser
            BY <1>t DEF OhiTypes
        <3>3. toOhi' \in [OhiUser -> {"none", "pending", "told"}]
            BY <1>7, <3>2, HandleIs
        <3>4. fromOhi' \subseteq OhiUser
            BY <1>7, <2>w, <3>1, <3>2, HandleIs
        <3> QED BY <3>3, <3>4
    <2>3. CASE ohiMail[1].kind = "ack"
        <3>1. ohiQueue' \in Seq(OhiRecord)
            BY <1>t, <2>h, <2>3, TailIs
        <3>2. Form(ohiMail', FALSE, login)
            BY <1>t, <2>h, <2>3, FormTail
        <3> QED BY <1>t, <2>h, <2>1, <2>2, <2>3, <3>1, <3>2 DEF Common, MailForm, OhiTypes
    <2>4. CASE ohiMail[1].kind # "ack"
        <3>1. Form(ohiMail', ohiSent, login)
            BY <1>t, <2>h, <2>4, FormTail
        <3> QED BY <1>t, <2>h, <2>1, <2>2, <2>4, <3>1 DEF Common, MailForm, OhiTypes
    <2> QED BY <2>3, <2>4
<1>8. ASSUME NEW crash \in BOOLEAN, EndOhi(crash) PROVE Common'
    <2>1. /\ ohiMail' = Undelivered(ohiMail) /\ login' = FALSE /\ ohiSent' = FALSE /\ fromOhi' = {}
          /\ editing' \subseteq editing /\ UNCHANGED <<ohiFault, toOhi, ohiQueue, watched, online>>
        BY <1>8 DEF EndOhi
    <2>2. ohiMail' \in Seq(OhiEvent) /\ Form(ohiMail', FALSE, FALSE)
        BY <1>t, <2>1, UndeliveredSays, FormUndelivered
    <2> QED BY <1>t, <2>1, <2>2 DEF Common, MailForm, OhiTypes
<1>9. CASE UNCHANGED ohiVars
    BY <1>t, <1>9 DEF ohiVars, Common, MailForm, OhiTypes
<1> QED BY <1>1, <1>2, <1>3, <1>4, <1>5, <1>6, <1>7, <1>8, <1>9 DEF OhiNext
-----------------------------------------------------------------------------
(* The file *)

LEMMA EndsSet ==
    ASSUME NEW m, NEW k, NEW u, NEW V, NEW W, u \in V <=> u \in W
    PROVE  Ends(m, k, u, V) <=> Ends(m, k, u, W)
BY DEF Ends

\* A record waits until its ack is handled.
LEMMA ComingAppend ==
    ASSUME OhiTypes, NEW r \in OhiRecord, ohiQueue' = Append(ohiQueue, r), ohiSent' = ohiSent
    PROVE  /\ \A u : Coming(u) => Coming(u)'
           /\ Coming(r.who)'
<1> DEFINE n == Len(ohiQueue)
<1>1. /\ n \in Nat /\ Len(ohiQueue') = n + 1 /\ ohiQueue'[n + 1] = r
      /\ \A i \in 1..n : ohiQueue'[i] = ohiQueue[i]
    BY AppendIs DEF OhiTypes
<1>2. n = 0 => ~ohiSent
    BY DEF OhiTypes
<1>3. n + 1 \in 1..Len(ohiQueue') /\ (n + 1 = 1 => n = 0) /\ \A i \in 1..n : i \in 1..Len(ohiQueue')
    BY <1>1
<1>4. Coming(r.who)'
    BY <1>1, <1>2, <1>3 DEF Coming
<1>5. ASSUME NEW u, Coming(u) PROVE Coming(u)'
    <2>1. PICK i \in 1..n : ohiQueue[i].who = u /\ (i = 1 => ~ohiSent)
        BY <1>5 DEF Coming
    <2>2. i \in 1..Len(ohiQueue') /\ ohiQueue'[i].who = u /\ (i = 1 => ~ohiSent')
        BY <1>1, <1>3, <2>1
    <2> QED BY <2>2 DEF Coming
<1> QED BY <1>4, <1>5

LEMMA ComingTail ==
    ASSUME OhiTypes, ohiSent, ohiQueue' = Tail(ohiQueue), ohiSent' = FALSE
    PROVE  \A u : Coming(u) => Coming(u)'
<1> DEFINE n == Len(ohiQueue)
<1>1. /\ n \in Nat /\ n >= 1 /\ Len(ohiQueue') = n - 1
      /\ \A i \in 1..(n - 1) : ohiQueue'[i] = ohiQueue[i + 1]
    BY TailIs DEF OhiTypes
<1> SUFFICES ASSUME NEW u, Coming(u) PROVE Coming(u)'
    OBVIOUS
<1>2. PICK i \in 1..n : ohiQueue[i].who = u /\ i # 1
    BY DEF Coming
<1>3. i - 1 \in 1..(n - 1) /\ (i - 1) + 1 = i
    BY <1>1, <1>2
<1>4. i - 1 \in 1..Len(ohiQueue') /\ ohiQueue'[i - 1].who = u
    BY <1>1, <1>2, <1>3
<1> QED BY <1>4 DEF Coming

LEMMA FileStep ==
    ASSUME Common, [OhiNext]_ohiVars, ohiFault = "none", NEW v \in OhiUser, FileOf(v)
    PROVE  FileOf(v)'
<1> DEFINE k == "ohiedit"
<1>t. /\ OhiTypes /\ ohiMail \in Seq(OhiEvent) /\ ohiQueue \in Seq(OhiRecord)
      /\ toOhi \in [OhiUser -> {"none", "pending", "told"}]
    BY DEF Common, OhiTypes
<1>f. /\ Ends(ohiMail, k, v, watched)
      /\ v \in editing => Coming(v)
      /\ Silent(ohiMail, k, v) =>
           /\ toOhi[v] = "pending" => Coming(v)
           /\ toOhi[v] # "pending" => (toOhi[v] = "told" <=> v \in watched)
    BY DEF FileOf
<1>s. ASSUME Ends(ohiMail', k, v, watched'), v \in editing' => Coming(v)',
             Silent(ohiMail', k, v) => /\ toOhi'[v] = "pending" => Coming(v)'
                                       /\ toOhi'[v] # "pending" => (toOhi'[v] = "told" <=> v \in watched')
      PROVE  FileOf(v)'
    BY <1>s DEF FileOf
<1>c. ASSUME UNCHANGED <<ohiQueue, ohiSent>> PROVE Coming(v)' <=> Coming(v)
    BY <1>c DEF Coming
<1> HIDE DEF k
<1>1. ASSUME NEW op \in {"+", "-"}, NEW u \in OhiUser, EditOhi(op, u) PROVE FileOf(v)'
    <2> DEFINE r == [op |-> op, who |-> u]
    <2>1. /\ ohiQueue' = Append(ohiQueue, r) /\ editing' = editing \union {u}
          /\ UNCHANGED <<toOhi, watched, ohiMail, ohiSent>>
        BY <1>1 DEF EditOhi
    <2>2. r \in OhiRecord /\ r.who = u
        BY DEF OhiRecord
    <2> HIDE DEF r
    <2>3. (Coming(v) => Coming(v)') /\ Coming(u)'
        BY <1>t, <2>1, <2>2, ComingAppend
    <2>4. v \in editing' => Coming(v)'
        BY <1>f, <2>1, <2>3
    <2> QED BY <1>f, <1>s, <2>1, <2>3, <2>4
<1>2. ASSUME NEW op \in {"+", "-"}, NEW u \in OhiUser, OhiElsewhere(op, u) PROVE FileOf(v)'
    <2> DEFINE e == [kind |-> "ohiedit", op |-> op, who |-> {u}]
    <2>1. /\ ohiMail' = Append(ohiMail, e) /\ watched' = IF op = "+" THEN watched \union {u} ELSE watched \ {u}
          /\ UNCHANGED <<toOhi, editing, ohiQueue, ohiSent>>
        BY <1>2 DEF OhiElsewhere
    <2>2. e \in OhiEvent /\ e.kind = k /\ e.op = op /\ e.who = {u}
        BY DEF OhiEvent, k
    <2> HIDE DEF e
    <2>3. CASE v = u
        <3>1. ~Silent(ohiMail', k, v) /\ (Ends(ohiMail', k, v, watched') <=> (op = "+" <=> v \in watched'))
            <4>0. e \in OhiEvent /\ e.kind = k /\ e.who = {v}
                BY <2>2, <2>3
            <4>1. /\ ~Silent(Append(ohiMail, e), k, v)
                  /\ Ends(Append(ohiMail, e), k, v, watched') <=> (e.op = "+" <=> v \in watched')
                BY <1>t, <4>0, AppendAbout
            <4> QED BY <2>1, <2>2, <4>1
        <3>2. op = "+" <=> v \in watched'
            BY <2>1, <2>3
        <3> QED BY <1>c, <1>f, <1>s, <2>1, <3>1, <3>2
    <2>4. CASE v # u
        <3>0. ~(e.kind = k /\ e.who = {v})
            BY <2>2, <2>4
        <3>1. /\ Silent(ohiMail', k, v) <=> Silent(ohiMail, k, v)
              /\ Ends(ohiMail', k, v, watched) <=> Ends(ohiMail, k, v, watched)
            <4>0. e \in OhiEvent
                BY <2>2
            <4>1. /\ Silent(Append(ohiMail, e), k, v) <=> Silent(ohiMail, k, v)
                  /\ Ends(Append(ohiMail, e), k, v, watched) <=> Ends(ohiMail, k, v, watched)
                BY <1>t, <3>0, <4>0, AppendAbout
            <4> QED BY <2>1, <4>1
        <3>2. v \in watched' <=> v \in watched
            BY <2>1, <2>4
        <3>3. Ends(ohiMail', k, v, watched')
            BY <1>f, <3>1, <3>2, EndsSet
        <3> QED BY <1>c, <1>f, <1>s, <2>1, <3>1, <3>2, <3>3
    <2> QED BY <2>3, <2>4
<1>3. ASSUME NEW u \in OhiUser, MarkPending(u) PROVE FileOf(v)'
    <2>1. /\ u \in editing /\ toOhi' = [toOhi EXCEPT ![u] = "pending"] /\ editing' = editing \ {u}
          /\ UNCHANGED <<ohiQueue, watched, ohiMail, ohiSent>>
        BY <1>3 DEF MarkPending
    <2>2. CASE v = u
        <3>1. toOhi'[v] = "pending" /\ Coming(v)'
            BY <1>c, <1>f, <1>t, <2>1, <2>2
        <3> QED BY <1>f, <1>s, <2>1, <3>1
    <2>3. CASE v # u
        <3>1. toOhi'[v] = toOhi[v]
            BY <1>t, <2>1, <2>3
        <3> QED BY <1>c, <1>f, <1>s, <2>1, <3>1
    <2> QED BY <2>2, <2>3
<1>4. ASSUME NEW u \in OhiUser, ChangeStatus(u) PROVE FileOf(v)'
    <2> DEFINE e == [kind |-> "ohi", op |-> IF u \in online THEN "-" ELSE "+", who |-> {u}]
    <2>1. /\ ohiMail' = ohiMail \/ ohiMail' = Append(ohiMail, e)
          /\ UNCHANGED <<toOhi, editing, ohiQueue, watched, ohiSent>>
        BY <1>4 DEF ChangeStatus
    <2>2. e \in OhiEvent /\ e.kind # k
        BY DEF OhiEvent, k
    <2> HIDE DEF e
    <2>3. /\ Silent(ohiMail', k, v) <=> Silent(ohiMail, k, v)
          /\ Ends(ohiMail', k, v, watched) <=> Ends(ohiMail, k, v, watched)
        <3>1. CASE ohiMail' = Append(ohiMail, e)
            BY <1>t, <2>2, <3>1, AppendAbout
        <3> QED BY <2>1, <3>1
    <2> QED BY <1>c, <1>f, <1>s, <2>1, <2>3
<1>5. CASE LoginOhi
    <2> DEFINE e == [kind |-> "info", op |-> "none", who |-> online]
    <2>1. ohiMail' = <<e>> \o ohiMail /\ UNCHANGED <<toOhi, editing, ohiQueue, watched, ohiSent>>
        BY <1>5 DEF LoginOhi
    <2>2. e \in OhiEvent /\ e.kind # k
        BY <1>t DEF OhiEvent, OhiTypes, k
    <2> HIDE DEF e
    <2>3. Ends(ohiMail', k, v, watched) /\ (Silent(ohiMail', k, v) => Silent(ohiMail, k, v))
        BY <1>f, <1>t, <2>1, <2>2, ConsAbout
    <2> QED BY <1>c, <1>f, <1>s, <2>1, <2>3
<1>6. CASE SendOhi
    <2> DEFINE r == Head(ohiQueue)
               edit == [kind |-> "ohiedit", op |-> r.op, who |-> {r.who}]
               ack == [kind |-> "ack", op |-> "none", who |-> {}]
    <2>1. /\ ohiQueue # <<>> /\ r.who \notin editing /\ ohiSent' = TRUE /\ ohiMail' = ohiMail \o <<edit, ack>>
          /\ watched' = IF r.op = "+" THEN watched \union {r.who} ELSE watched \ {r.who}
          /\ UNCHANGED <<toOhi, editing, ohiQueue>>
        BY <1>6 DEF SendOhi
    <2>2. r \in OhiRecord /\ ohiQueue[1] = r /\ Len(ohiQueue) \in Nat
        BY <1>t, <2>1, TailIs
    <2>3. /\ edit \in OhiEvent /\ edit.kind = k /\ edit.who = {r.who} /\ edit.op = r.op
          /\ ack \in OhiEvent /\ ack.kind # k
        BY <2>2 DEF OhiRecord, OhiEvent, k
    <2> HIDE DEF edit, ack
    <2> DEFINE m == Append(ohiMail, edit)
    <2>4. m \in Seq(OhiEvent)
        BY <1>t, <2>3, AppendIs
    <2>5. ohiMail' = Append(m, ack)
        BY <1>t, <2>1, <2>3, TwoAppends
    <2> HIDE DEF m
    <2>6. /\ Silent(ohiMail', k, v) <=> Silent(m, k, v)
          /\ Ends(ohiMail', k, v, watched') <=> Ends(m, k, v, watched')
        BY <2>3, <2>4, <2>5, AppendAbout
    <2>7. CASE v = r.who
        <3>1. ~Silent(m, k, v) /\ (Ends(m, k, v, watched') <=> (r.op = "+" <=> v \in watched'))
            <4>0. edit \in OhiEvent /\ edit.kind = k /\ edit.who = {v}
                BY <2>3, <2>7
            <4>1. ~Silent(m, k, v) /\ (Ends(m, k, v, watched') <=> (edit.op = "+" <=> v \in watched'))
                BY <1>t, <4>0, AppendAbout DEF m
            <4> QED BY <2>3, <4>1
        <3>2. r.op = "+" <=> v \in watched'
            BY <2>1, <2>7
        <3>3. v \notin editing'
            BY <2>1, <2>7
        <3> QED BY <1>s, <2>6, <3>1, <3>2, <3>3
    <2>8. CASE v # r.who
        <3>0. ~(edit.kind = k /\ edit.who = {v})
            BY <2>3, <2>8
        <3>1. /\ Silent(m, k, v) <=> Silent(ohiMail, k, v)
              /\ Ends(m, k, v, watched) <=> Ends(ohiMail, k, v, watched)
            <4>0. edit \in OhiEvent
                BY <2>3
            <4> QED BY <1>t, <3>0, <4>0, AppendAbout DEF m
        <3>2. v \in watched' <=> v \in watched
            BY <2>1, <2>8
        <3>3. Ends(m, k, v, watched')
            BY <1>f, <3>1, <3>2, EndsSet
        <3>4. Coming(v) => Coming(v)'
            BY <2>1, <2>2, <2>8 DEF Coming
        <3> QED BY <1>f, <1>s, <2>1, <2>6, <3>1, <3>2, <3>3, <3>4
    <2> QED BY <2>7, <2>8
<1>7. CASE HandleOhi
    <2> DEFINE e == ohiMail[1]
    <2>1. ohiMail # <<>> /\ ohiMail' = Tail(ohiMail) /\ UNCHANGED <<editing, watched>>
        BY <1>7, HandleIs
    <2>2. /\ Ends(ohiMail', k, v, watched')
          /\ Silent(ohiMail', k, v) =>
                Silent(ohiMail, k, v) \/ (About(ohiMail, k, v, 1) /\ (e.op = "+" <=> v \in watched))
        BY <1>f, <1>t, <2>1, TailAbout
    <2>3. CASE e.kind = k
        <3>1. PICK u \in OhiUser : /\ e.who = {u}
                                   /\ toOhi' = [toOhi EXCEPT ![u] = IF e.op = "+" THEN "told" ELSE "none"]
            BY <1>7, <2>3, HandleIs DEF k
        <3>2. Coming(v)' <=> Coming(v)
            BY <1>7, <1>c, <2>3, HandleIs DEF k
        <3>3. CASE v = u
            <4>1. toOhi'[v] = IF e.op = "+" THEN "told" ELSE "none"
                BY <1>t, <3>1, <3>3
            <4>2. 1 \in 1..Len(ohiMail) /\ About(ohiMail, k, v, 1)
                <5>1. Len(ohiMail) \in Nat /\ Len(ohiMail) >= 1
                    BY <1>t, <2>1, TailIs
                <5> QED BY <2>3, <3>1, <3>3, <5>1 DEF About
            <4>3. ~Silent(ohiMail, k, v)
                BY <4>2 DEF Silent
            <4> QED BY <1>f, <1>s, <2>1, <2>2, <3>2, <4>1, <4>3
        <3>4. CASE v # u
            <4>1. toOhi'[v] = toOhi[v]
                BY <1>t, <3>1, <3>4
            <4>2. ~About(ohiMail, k, v, 1)
                BY <3>1, <3>4 DEF About
            <4> QED BY <1>f, <1>s, <2>1, <2>2, <3>2, <4>1, <4>2
        <3> QED BY <3>3, <3>4
    <2>4. CASE e.kind # k
        <3>1. toOhi' = toOhi
            BY <1>7, <2>4, HandleIs DEF k
        <3>2. Coming(v) => Coming(v)'
            <4>1. CASE e.kind = "ack"
                <5>1. ohiSent /\ ohiQueue' = Tail(ohiQueue) /\ ohiSent' = FALSE
                    BY <1>7, <4>1, HandleIs
                <5> QED BY <1>t, <5>1, ComingTail
            <4>2. CASE e.kind # "ack"
                BY <1>7, <1>c, <4>2, HandleIs
            <4> QED BY <4>1, <4>2
        <3>3. ~About(ohiMail, k, v, 1)
            BY <2>4 DEF About
        <3> QED BY <1>f, <1>s, <2>1, <2>2, <3>1, <3>2, <3>3
    <2> QED BY <2>3, <2>4
<1>8. ASSUME NEW crash \in BOOLEAN, EndOhi(crash) PROVE FileOf(v)'
    <2>1. /\ ohiMail' = Undelivered(ohiMail) /\ ohiSent' = FALSE
          /\ editing' \subseteq editing /\ UNCHANGED <<toOhi, ohiQueue, watched>>
        BY <1>8 DEF EndOhi
    <2>2. /\ Silent(ohiMail', k, v) <=> Silent(ohiMail, k, v)
          /\ Ends(ohiMail', k, v, watched) <=> Ends(ohiMail, k, v, watched)
        BY <1>t, <2>1, UndeliveredSays DEF k
    <2>3. Coming(v) => Coming(v)'
        BY <2>1 DEF Coming
    <2> QED BY <1>f, <1>s, <2>1, <2>2, <2>3
<1>9. CASE UNCHANGED ohiVars
    BY <1>9, <1>c, <1>f, <1>s DEF ohiVars
<1> QED BY <1>1, <1>2, <1>3, <1>4, <1>5, <1>6, <1>7, <1>8, <1>9 DEF OhiNext
-----------------------------------------------------------------------------
(* Who is here *)

LEMMA InfoAppend ==
    ASSUME NEW m \in Seq(OhiEvent), NEW e \in OhiEvent, e.kind # "info"
    PROVE  /\ InfoFirst(Append(m, e)) <=> InfoFirst(m)
           /\ InfoFirst(m) => Append(m, e)[1] = m[1]
<1> DEFINE a == Append(m, e)
           n == Len(m)
<1>1. n \in Nat /\ Len(a) = n + 1 /\ a[n + 1] = e /\ \A i \in 1..n : a[i] = m[i]
    BY AppendIs
<1>2. a # <<>> /\ (m = <<>> <=> n = 0)
    OBVIOUS
<1> HIDE DEF a, n
<1>3. CASE n = 0
    BY <1>1, <1>2, <1>3 DEF InfoFirst, a
<1>4. CASE n # 0
    <2>1. a[1] = m[1]
        BY <1>1, <1>4
    <2> QED BY <1>2, <1>4, <2>1 DEF InfoFirst, a
<1> QED BY <1>3, <1>4

LEMMA FromStep ==
    ASSUME Common, [OhiNext]_ohiVars, NEW v \in OhiUser, login => FromOf(v), login'
    PROVE  FromOf(v)'
<1> DEFINE k == "ohi"
<1>t. OhiTypes /\ ohiMail \in Seq(OhiEvent)
    BY DEF Common, OhiTypes
<1>f. ASSUME login
      PROVE  /\ Ends(ohiMail, k, v, online)
             /\ Silent(ohiMail, k, v) =>
                  /\ InfoFirst(ohiMail) => (v \in ohiMail[1].who <=> v \in online)
                  /\ ~InfoFirst(ohiMail) => (v \in fromOhi <=> v \in online)
    BY <1>f DEF FromOf
<1>s. ASSUME Ends(ohiMail', k, v, online'),
             Silent(ohiMail', k, v) => /\ InfoFirst(ohiMail') => (v \in ohiMail'[1].who <=> v \in online')
                                       /\ ~InfoFirst(ohiMail') => (v \in fromOhi' <=> v \in online')
      PROVE  FromOf(v)'
    BY <1>s DEF FromOf
<1> HIDE DEF k
\* An event of another kind at the end changes nothing.
<1>a. ASSUME NEW m \in Seq(OhiEvent), NEW e \in OhiEvent, e.kind \notin {"ohi", "info"}
      PROVE  /\ Silent(Append(m, e), k, v) <=> Silent(m, k, v)
             /\ Ends(Append(m, e), k, v, online) <=> Ends(m, k, v, online)
             /\ InfoFirst(Append(m, e)) <=> InfoFirst(m)
             /\ InfoFirst(m) => Append(m, e)[1] = m[1]
    <2>1. ~(e.kind = k /\ e.who = {v})
        BY <1>a DEF k
    <2>2. /\ Silent(Append(m, e), k, v) <=> Silent(m, k, v)
          /\ Ends(Append(m, e), k, v, online) <=> Ends(m, k, v, online)
        BY <2>1, AppendAbout
    <2>3. /\ InfoFirst(Append(m, e)) <=> InfoFirst(m)
          /\ InfoFirst(m) => Append(m, e)[1] = m[1]
        BY <1>a, InfoAppend
    <2> QED BY <2>2, <2>3
<1>1. ASSUME NEW op \in {"+", "-"}, NEW u \in OhiUser, EditOhi(op, u) PROVE FromOf(v)'
    <2>1. UNCHANGED <<ohiMail, online, fromOhi, login>>
        BY <1>1 DEF EditOhi
    <2> QED BY <1>f, <1>s, <2>1
<1>2. ASSUME NEW op \in {"+", "-"}, NEW u \in OhiUser, OhiElsewhere(op, u) PROVE FromOf(v)'
    <2> DEFINE e == [kind |-> "ohiedit", op |-> op, who |-> {u}]
    <2>1. ohiMail' = Append(ohiMail, e) /\ UNCHANGED <<online, fromOhi, login>>
        BY <1>2 DEF OhiElsewhere
    <2>2. e \in OhiEvent /\ e.kind \notin {"ohi", "info"}
        BY DEF OhiEvent
    <2> HIDE DEF e
    <2>3. /\ Silent(ohiMail', k, v) <=> Silent(ohiMail, k, v)
          /\ Ends(ohiMail', k, v, online) <=> Ends(ohiMail, k, v, online)
          /\ InfoFirst(ohiMail') <=> InfoFirst(ohiMail)
          /\ InfoFirst(ohiMail) => ohiMail'[1] = ohiMail[1]
        BY <1>a, <1>t, <2>1, <2>2
    <2> QED BY <1>f, <1>s, <2>1, <2>3
<1>3. ASSUME NEW u \in OhiUser, MarkPending(u) PROVE FromOf(v)'
    <2>1. UNCHANGED <<ohiMail, online, fromOhi, login>>
        BY <1>3 DEF MarkPending
    <2> QED BY <1>f, <1>s, <2>1
<1>4. ASSUME NEW u \in OhiUser, ChangeStatus(u) PROVE FromOf(v)'
    <2> DEFINE e == [kind |-> "ohi", op |-> IF u \in online THEN "-" ELSE "+", who |-> {u}]
    <2>1. /\ login /\ ohiMail' = Append(ohiMail, e) /\ UNCHANGED fromOhi
          /\ online' = IF u \in online THEN online \ {u} ELSE online \union {u}
        BY <1>4 DEF ChangeStatus
    <2>2. e \in OhiEvent /\ e.kind = k /\ e.kind # "info" /\ e.who = {u} /\ (e.op = "+" <=> u \notin online)
        BY DEF OhiEvent, k
    <2> HIDE DEF e
    <2>3. CASE v = u
        <3>1. ~Silent(ohiMail', k, v) /\ (Ends(ohiMail', k, v, online') <=> (e.op = "+" <=> v \in online'))
            <4>0. e \in OhiEvent /\ e.kind = k /\ e.who = {v}
                BY <2>2, <2>3
            <4>1. /\ ~Silent(Append(ohiMail, e), k, v)
                  /\ Ends(Append(ohiMail, e), k, v, online') <=> (e.op = "+" <=> v \in online')
                BY <1>t, <4>0, AppendAbout
            <4> QED BY <2>1, <4>1
        <3>2. e.op = "+" <=> v \in online'
            BY <2>1, <2>2, <2>3
        <3> QED BY <1>s, <3>1, <3>2
    <2>4. CASE v # u
        <3>0. ~(e.kind = k /\ e.who = {v})
            BY <2>2, <2>4
        <3>1. /\ Silent(ohiMail', k, v) <=> Silent(ohiMail, k, v)
              /\ Ends(ohiMail', k, v, online) <=> Ends(ohiMail, k, v, online)
            <4>0. e \in OhiEvent
                BY <2>2
            <4>1. /\ Silent(Append(ohiMail, e), k, v) <=> Silent(ohiMail, k, v)
                  /\ Ends(Append(ohiMail, e), k, v, online) <=> Ends(ohiMail, k, v, online)
                BY <1>t, <3>0, <4>0, AppendAbout
            <4> QED BY <2>1, <4>1
        <3>2. v \in online' <=> v \in online
            BY <2>1, <2>4
        <3>3. Ends(ohiMail', k, v, online')
            BY <1>f, <2>1, <3>1, <3>2, EndsSet
        <3>4. /\ InfoFirst(ohiMail') <=> InfoFirst(ohiMail)
              /\ InfoFirst(ohiMail) => ohiMail'[1] = ohiMail[1]
            BY <1>t, <2>1, <2>2, InfoAppend
        <3> QED BY <1>f, <1>s, <2>1, <3>1, <3>2, <3>3, <3>4
    <2> QED BY <2>3, <2>4
<1>5. CASE LoginOhi
    <2> DEFINE e == [kind |-> "info", op |-> "none", who |-> online]
    <2>1. ~login /\ ohiMail' = <<e>> \o ohiMail /\ UNCHANGED online
        BY <1>5 DEF LoginOhi
    <2>2. e \in OhiEvent /\ e.kind # k /\ e.kind = "info" /\ e.who = online
        BY <1>t DEF OhiEvent, OhiTypes, k
    <2> HIDE DEF e
    <2>3. Ends(ohiMail, k, v, online)
        BY <2>1 DEF Common, MailForm, Form, Ends, About, k
    <2>4. Ends(ohiMail', k, v, online)
        BY <1>t, <2>1, <2>2, <2>3, ConsAbout
    <2>5. ohiMail'[1] = e /\ ohiMail' # <<>>
        <3>1. Len(ohiMail) \in Nat /\ Len(ohiMail') = Len(ohiMail) + 1 /\ ohiMail'[1] = e
            BY <1>t, <2>1, <2>2, ConsIs
        <3> QED BY <3>1
    <2> QED BY <1>s, <2>1, <2>2, <2>4, <2>5 DEF InfoFirst
<1>6. CASE SendOhi
    <2> DEFINE r == Head(ohiQueue)
               edit == [kind |-> "ohiedit", op |-> r.op, who |-> {r.who}]
               ack == [kind |-> "ack", op |-> "none", who |-> {}]
    <2>1. /\ ohiMail' = ohiMail \o <<edit, ack>> \/ ohiMail' = Append(ohiMail, ack)
          /\ login /\ ohiQueue # <<>> /\ UNCHANGED <<online, fromOhi>>
        BY <1>6 DEF SendOhi
    <2>2. r \in OhiRecord
        BY <1>t, <2>1, TailIs DEF OhiTypes
    <2>3. /\ edit \in OhiEvent /\ edit.kind \notin {"ohi", "info"}
          /\ ack \in OhiEvent /\ ack.kind \notin {"ohi", "info"}
        BY <2>2 DEF OhiRecord, OhiEvent
    <2> HIDE DEF edit, ack
    <2> DEFINE m == Append(ohiMail, edit)
    <2>4. m \in Seq(OhiEvent)
        BY <1>t, <2>3, AppendIs
    <2>5. ohiMail' = Append(m, ack) \/ ohiMail' = Append(ohiMail, ack)
        BY <1>t, <2>1, <2>3, TwoAppends
    <2>6. /\ Silent(m, k, v) <=> Silent(ohiMail, k, v)
          /\ Ends(m, k, v, online) <=> Ends(ohiMail, k, v, online)
          /\ InfoFirst(m) <=> InfoFirst(ohiMail)
          /\ InfoFirst(ohiMail) => m[1] = ohiMail[1]
        BY <1>a, <1>t, <2>3
    <2> HIDE DEF m
    <2>7. /\ Silent(ohiMail', k, v) <=> Silent(ohiMail, k, v)
          /\ Ends(ohiMail', k, v, online) <=> Ends(ohiMail, k, v, online)
          /\ InfoFirst(ohiMail') <=> InfoFirst(ohiMail)
          /\ InfoFirst(ohiMail) => ohiMail'[1] = ohiMail[1]
        <3>1. CASE ohiMail' = Append(ohiMail, ack)
            BY <1>a, <1>t, <2>3, <3>1
        <3>2. CASE ohiMail' = Append(m, ack)
            <4>1. /\ Silent(ohiMail', k, v) <=> Silent(m, k, v)
                  /\ Ends(ohiMail', k, v, online) <=> Ends(m, k, v, online)
                  /\ InfoFirst(ohiMail') <=> InfoFirst(m)
                  /\ InfoFirst(m) => ohiMail'[1] = m[1]
                BY <1>a, <2>3, <2>4, <3>2
            <4> QED BY <2>6, <4>1
        <3> QED BY <2>5, <3>1, <3>2
    <2> QED BY <1>f, <1>s, <2>1, <2>7
<1>7. CASE HandleOhi
    <2> DEFINE e == ohiMail[1]
    <2>1. ohiMail # <<>> /\ ohiMail' = Tail(ohiMail) /\ e \in OhiEvent /\ UNCHANGED <<online, login>>
        BY <1>7, HandleIs
    <2>2. /\ Ends(ohiMail', k, v, online')
          /\ Silent(ohiMail', k, v) =>
                Silent(ohiMail, k, v) \/ (About(ohiMail, k, v, 1) /\ (e.op = "+" <=> v \in online))
        BY <1>f, <1>t, <2>1, TailAbout
    <2>3. ~InfoFirst(ohiMail')
        <3>1. Form(ohiMail, ohiSent, login)
            BY DEF Common, MailForm
        <3> QED BY <1>t, <2>1, <3>1, FormTail
    <2>4. InfoFirst(ohiMail) <=> e.kind = "info"
        BY <2>1 DEF InfoFirst
    <2>5. CASE e.kind = "ohi"
        <3>1. PICK u \in OhiUser : e.who = {u} /\ fromOhi' = IF e.op = "+" THEN fromOhi \union {u} ELSE fromOhi \ {u}
            BY <1>7, <2>5, HandleIs
        <3>2. CASE v = u
            <4>1. 1 \in 1..Len(ohiMail) /\ About(ohiMail, k, v, 1)
                <5>1. Len(ohiMail) \in Nat /\ Len(ohiMail) >= 1
                    BY <1>t, <2>1, TailIs
                <5> QED BY <2>5, <3>1, <3>2, <5>1 DEF About, k
            <4>2. ~Silent(ohiMail, k, v)
                BY <4>1 DEF Silent
            <4>3. v \in fromOhi' <=> e.op = "+"
                BY <3>1, <3>2
            <4> QED BY <1>s, <2>1, <2>2, <2>3, <4>2, <4>3
        <3>3. CASE v # u
            <4>1. ~About(ohiMail, k, v, 1)
                BY <3>1, <3>3 DEF About
            <4>2. v \in fromOhi' <=> v \in fromOhi
                BY <3>1, <3>3
            <4>3. ~InfoFirst(ohiMail)
                BY <2>4, <2>5
            <4> QED BY <1>f, <1>s, <2>1, <2>2, <2>3, <4>1, <4>2, <4>3
        <3> QED BY <3>2, <3>3
    <2>6. CASE e.kind # "ohi"
        <3>1. ~About(ohiMail, k, v, 1)
            BY <2>6 DEF About, k
        <3>2. CASE e.kind = "info"
            <4>1. fromOhi' = e.who
                BY <1>7, <3>2, HandleIs
            <4> QED BY <1>f, <1>s, <2>1, <2>2, <2>3, <2>4, <3>1, <3>2, <4>1
        <3>3. CASE e.kind # "info"
            <4>1. e.kind \in {"ohiedit", "ack"}
                BY <2>1, <2>6, <3>3 DEF OhiEvent
            <4>2. fromOhi' = fromOhi
                BY <1>7, <4>1, HandleIs
            <4> QED BY <1>f, <1>s, <2>1, <2>2, <2>3, <2>4, <3>1, <3>3, <4>2
        <3> QED BY <3>2, <3>3
    <2> QED BY <2>5, <2>6
<1>8. ASSUME NEW crash \in BOOLEAN, EndOhi(crash) PROVE FALSE
    BY <1>8 DEF EndOhi
<1>9. CASE UNCHANGED ohiVars
    <2>1. UNCHANGED <<ohiMail, online, fromOhi, login>>
        BY <1>9 DEF ohiVars
    <2> QED BY <1>f, <1>s, <2>1
<1> QED BY <1>1, <1>2, <1>3, <1>4, <1>5, <1>6, <1>7, <1>8, <1>9 DEF OhiNext

LEMMA FaultStays == [OhiNext]_ohiVars => ohiFault' = ohiFault
BY DEF OhiNext, ohiVars, EditOhi, OhiElsewhere, MarkPending, ChangeStatus, LoginOhi, SendOhi, HandleOhi, EndOhi

LEMMA OhiInvStep == OhiInv /\ [OhiNext]_ohiVars => OhiInv'
<1> SUFFICES ASSUME OhiInv, [OhiNext]_ohiVars PROVE OhiInv'
    OBVIOUS
<1>1. Common /\ Common'
    BY CommonStep DEF OhiInv
<1>2. FileInv'
    <2> SUFFICES ASSUME ohiFault' = "none", NEW v \in OhiUser PROVE FileOf(v)'
        BY DEF FileInv
    <2>1. ohiFault = "none"
        BY FaultStays
    <2>2. FileOf(v)
        BY <2>1 DEF OhiInv, FileInv
    <2> QED BY <1>1, <2>1, <2>2, FileStep
<1>3. FromInv'
    <2> SUFFICES ASSUME login', NEW v \in OhiUser PROVE FromOf(v)'
        BY DEF FromInv
    <2>1. login => FromOf(v)
        BY DEF OhiInv, FromInv
    <2> QED BY <1>1, <2>1, FromStep
<1> QED BY <1>1, <1>2, <1>3 DEF OhiInv

(* Once the mail of the server is handled, and unless an answer overtook its     *)
(* request or was refused, the file has exactly the users the server tells, and   *)
(* none pending: the mark that editOhi writes after its record (ohi.go:113) does  *)
(* not outlive the answer.  Those shown as online are those that are, whatever    *)
(* the fault, and however often the connection or the process ended.              *)
THEOREM OhiCorrect == OhiSpec => []OhiSound
<1>1. OhiInit => OhiInv
    BY OhiInvInit
<1>2. OhiInv /\ [OhiNext]_ohiVars => OhiInv'
    BY OhiInvStep
<1>3. OhiInv => OhiSound
    BY OhiInvSound
<1> QED BY <1>1, <1>2, <1>3, PTL DEF OhiSpec
=============================================================================
