--------------------------- MODULE SyncLogProofs ---------------------------
(***************************************************************************)
(* Theorems about SyncLog, for any updates and any bounds: LogsKept, and   *)
(* that the replicas get the updates in the order they were made.          *)
(***************************************************************************)
EXTENDS SyncLog, SequenceTheorems, FiniteSetTheorems, TLAPS

USE SyncAssumption DEF disk, writer, sender, past

-----------------------------------------------------------------------------
(* Sequences *)

LEMMA RangeEmpty == Range(<<>>) = {}
BY DEF Range

LEMMA RangeAppend ==
    ASSUME NEW S, NEW s \in Seq(S), NEW e \in S
    PROVE  /\ Append(s, e) \in Seq(S) /\ Range(Append(s, e)) = Range(s) \union {e}
           /\ Range(s) \subseteq S
<1> DEFINE a == Append(s, e)
<1>1. /\ Len(s) \in Nat /\ DOMAIN s = 1..Len(s) /\ DOMAIN a = 1..(Len(s) + 1)
      /\ \A i \in 1..Len(s) : a[i] = s[i] /\ s[i] \in S
      /\ a[Len(s) + 1] = e /\ a \in Seq(S)
    OBVIOUS
<1> HIDE DEF a
<1>2. \A i \in 1..(Len(s) + 1) : i \in 1..Len(s) \/ i = Len(s) + 1
    BY <1>1
<1>3. Range(a) \subseteq Range(s) \union {e}
    BY <1>1, <1>2 DEF Range
<1>4. Range(s) \subseteq Range(a) /\ e \in Range(a)
    BY <1>1 DEF Range
<1>5. Range(s) \subseteq S
    BY <1>1 DEF Range
<1> QED BY <1>1, <1>3, <1>4, <1>5 DEF a

LEMMA TailRange ==
    ASSUME NEW S, NEW s \in Seq(S), s # <<>>
    PROVE  /\ Tail(s) \in Seq(S) /\ Head(s) \in S /\ Head(s) \in Range(s)
           /\ Range(Tail(s)) \subseteq Range(s) /\ Range(s) \subseteq Range(Tail(s)) \union {Head(s)}
           /\ Len(s) \in Nat \ {0} /\ DOMAIN s = 1..Len(s) /\ DOMAIN Tail(s) = 1..(Len(s) - 1)
           /\ Head(s) = s[1] /\ \A i \in 1..(Len(s) - 1) : Tail(s)[i] = s[i + 1]
<1>1. /\ Len(s) \in Nat \ {0} /\ DOMAIN s = 1..Len(s)
      /\ Tail(s) \in Seq(S) /\ Len(Tail(s)) = Len(s) - 1
    BY EmptySeq, LenProperties, HeadTailProperties
<1>2. DOMAIN Tail(s) = 1..(Len(s) - 1) /\ Head(s) = s[1]
    BY <1>1
<1>3. \A i \in 1..(Len(s) - 1) : Tail(s)[i] = s[i + 1]
    BY <1>1
<1>4. Head(s) \in S /\ Head(s) \in Range(s)
    BY <1>1, <1>2 DEF Range
<1>5. Range(Tail(s)) \subseteq Range(s)
    <2> SUFFICES ASSUME NEW i \in 1..(Len(s) - 1) PROVE s[i + 1] \in Range(s)
        BY <1>2, <1>3 DEF Range
    <2> QED BY <1>1 DEF Range
<1>6. Range(s) \subseteq Range(Tail(s)) \union {Head(s)}
    <2> SUFFICES ASSUME NEW i \in 1..Len(s), i # 1 PROVE s[i] \in Range(Tail(s))
        BY <1>1, <1>2 DEF Range
    <2>1. i - 1 \in 1..(Len(s) - 1) /\ (i - 1) + 1 = i
        BY <1>1
    <2>2. Tail(s)[i - 1] = s[i]
        BY <1>3, <2>1
    <2> QED BY <1>2, <2>1, <2>2 DEF Range
<1> QED BY <1>1, <1>2, <1>3, <1>4, <1>5, <1>6

\* In s, wherever b is, a was before.
Before(s, a, b) == \A i \in DOMAIN s : s[i] = b => \E j \in 1..(i - 1) : s[j] = a

LEMMA BeforeAppend ==
    ASSUME NEW S, NEW s \in Seq(S), NEW e \in S, NEW a, NEW b, Before(s, a, b),
           e # b \/ a \in Range(s)
    PROVE  Before(Append(s, e), a, b)
<1> DEFINE t == Append(s, e)
<1>1. /\ Len(s) \in Nat /\ DOMAIN s = 1..Len(s) /\ DOMAIN t = 1..(Len(s) + 1)
      /\ \A i \in 1..Len(s) : t[i] = s[i]
      /\ t[Len(s) + 1] = e
    OBVIOUS
<1> HIDE DEF t
<1> SUFFICES ASSUME NEW i \in DOMAIN t, t[i] = b PROVE \E j \in 1..(i - 1) : t[j] = a
    BY DEF Before, t
<1>2. CASE i \in 1..Len(s)
    <2>1. PICK j \in 1..(i - 1) : s[j] = a
        BY <1>1, <1>2 DEF Before
    <2>2. j \in 1..Len(s)
        BY <1>1, <1>2
    <2> QED BY <1>1, <2>1, <2>2
<1>3. CASE i = Len(s) + 1
    <2>1. PICK j \in 1..Len(s) : s[j] = a
        BY <1>1, <1>3 DEF Range
    <2>2. j \in 1..(i - 1)
        BY <1>1, <1>3
    <2> QED BY <1>1, <2>1, <2>2
<1> QED BY <1>1, <1>2, <1>3

LEMMA BeforeTail ==
    ASSUME NEW S, NEW s \in Seq(S), s # <<>>, NEW a, NEW b, Before(s, a, b), Head(s) # a
    PROVE  Before(Tail(s), a, b)
<1> SUFFICES ASSUME NEW i \in DOMAIN Tail(s), Tail(s)[i] = b
             PROVE  \E j \in 1..(i - 1) : Tail(s)[j] = a
    BY DEF Before
<1>1. /\ Len(s) \in Nat \ {0} /\ i \in 1..(Len(s) - 1) /\ i + 1 \in DOMAIN s /\ s[i + 1] = b
    BY TailRange
<1>2. PICK j \in 1..i : s[j] = a
    BY <1>1 DEF Before
<1>3. j # 1
    BY <1>2, TailRange
<1>4. j - 1 \in 1..(i - 1) /\ j - 1 \in 1..(Len(s) - 1) /\ (j - 1) + 1 = j
    BY <1>1, <1>3
<1>5. Tail(s)[j - 1] = a
    BY <1>2, <1>4, TailRange
<1> QED BY <1>4, <1>5

\* A set of positions has a least one.
LEMMA LeastPosition ==
    ASSUME NEW S \in SUBSET Nat, S # {}
    PROVE  \E m \in S : \A k \in S : m <= k
<1> DEFINE R == OpToRel(<, Nat)
<1>1. IsWellFoundedOn(R, Nat)
    BY NatLessThanWellFounded
<1>2. \A x, y \in Nat : <<x, y>> \in R <=> x < y
    BY DEF OpToRel
<1> HIDE DEF R
<1>3. PICK m \in S : \A k \in S : ~(<<k, m>> \in R)
    BY <1>1, WFMin
<1>4. ASSUME NEW k \in S PROVE m <= k
    <2>1. m \in Nat /\ k \in Nat /\ ~(k < m)
        BY <1>2, <1>3
    <2> QED BY <2>1
<1> QED BY <1>4

\* A sequence without the element at position p.
LEMMA Removed ==
    ASSUME NEW S, NEW s \in Seq(S), NEW p \in 1..Len(s)
    PROVE  /\ RemoveAt(s, p) \in Seq(S)
           /\ DOMAIN RemoveAt(s, p) = 1..(Len(s) - 1)
           /\ \A i \in 1..(p - 1) : RemoveAt(s, p)[i] = s[i]
           /\ \A i \in p..(Len(s) - 1) : RemoveAt(s, p)[i] = s[i + 1]
<1> DEFINE x == SubSeq(s, 1, p - 1)
           y == SubSeq(s, p + 1, Len(s))
<1>1. Len(s) \in Nat /\ p \in Nat /\ 1 <= p /\ p <= Len(s)
    OBVIOUS
<1>2. x \in Seq(S) /\ Len(x) = p - 1 /\ \A i \in 1..(p - 1) : x[i] = s[i]
    BY <1>1
<1>3. y \in Seq(S) /\ Len(y) = Len(s) - p /\ \A i \in 1..(Len(s) - p) : y[i] = s[p + i]
    BY <1>1
<1>4. RemoveAt(s, p) = x \o y
    BY DEF RemoveAt
<1> HIDE DEF x, y
<1>5. x \o y \in Seq(S) /\ Len(x \o y) = Len(s) - 1
    BY <1>1, <1>2, <1>3
<1>6. \A i \in 1..(p - 1) : (x \o y)[i] = s[i]
    BY <1>1, <1>2, <1>3
<1>7. ASSUME NEW i \in p..(Len(s) - 1) PROVE (x \o y)[i] = s[i + 1]
    <2>1. i - (p - 1) \in 1..(Len(s) - p) /\ i > Len(x) /\ i <= Len(x) + Len(y)
          /\ p + (i - (p - 1)) = i + 1
        BY <1>1, <1>2, <1>3
    <2>2. (x \o y)[i] = y[i - (p - 1)]
        BY <1>2, <1>3, <2>1
    <2> QED BY <1>3, <2>1, <2>2
<1> QED BY <1>4, <1>5, <1>6, <1>7, SMTT(30)

\* RemoveFirst takes one occurrence of an element.
LEMMA RemovedFirst ==
    ASSUME NEW S, NEW s \in Seq(S), NEW x
    PROVE  \/ x \notin Range(s) /\ RemoveFirst(s, x) = s
           \/ \E p \in 1..Len(s) : s[p] = x /\ RemoveFirst(s, x) = RemoveAt(s, p)
<1> DEFINE I == {i \in 1..Len(s) : s[i] = x}
<1>1. CASE I = {}
    <2>1. DOMAIN s = 1..Len(s) /\ \A i \in 1..Len(s) : s[i] # x
        BY <1>1
    <2>2. x \notin Range(s)
        BY <2>1 DEF Range
    <2>3. ~(\E i \in 1..Len(s) : s[i] = x)
        BY <2>1
    <2>4. RemoveFirst(s, x) = s
        BY <2>3, Zenon DEF RemoveFirst
    <2> QED BY <2>2, <2>4
<1>2. CASE I # {}
    <2>1. \E m \in I : \A k \in I : m =< k
        <3>1. I \in SUBSET Nat
            OBVIOUS
        <3> QED BY <1>2, <3>1, LeastPosition
    <2>2. PICK p : p = Min(I)
        OBVIOUS
    <2>3. p \in I
        BY <2>1, <2>2 DEF Min
    <2>4. RemoveFirst(s, x) = RemoveAt(s, p)
        BY <1>2, <2>2 DEF RemoveFirst, SelectInSeq
    <2> QED BY <2>3, <2>4
<1> QED BY <1>1, <1>2

LEMMA RemoveRange ==
    ASSUME NEW S, NEW s \in Seq(S), NEW x
    PROVE  /\ RemoveFirst(s, x) \in Seq(S)
           /\ Range(RemoveFirst(s, x)) \subseteq Range(s)
           /\ Range(s) \ {x} \subseteq Range(RemoveFirst(s, x))
           /\ \A a, b : a # x /\ b # x /\ Before(s, a, b) => Before(RemoveFirst(s, x), a, b)
<1>1. CASE RemoveFirst(s, x) = s
    BY <1>1
<1>2. ASSUME NEW p \in 1..Len(s), s[p] = x, RemoveFirst(s, x) = RemoveAt(s, p)
      PROVE  /\ RemoveFirst(s, x) \in Seq(S)
             /\ Range(RemoveFirst(s, x)) \subseteq Range(s)
             /\ Range(s) \ {x} \subseteq Range(RemoveFirst(s, x))
             /\ \A a, b : a # x /\ b # x /\ Before(s, a, b) => Before(RemoveFirst(s, x), a, b)
    <2>1. PICK r : r = RemoveFirst(s, x)
        OBVIOUS
    <2>2. /\ r \in Seq(S) /\ DOMAIN r = 1..(Len(s) - 1) /\ DOMAIN s = 1..Len(s)
          /\ \A i \in 1..(p - 1) : r[i] = s[i]
          /\ \A i \in p..(Len(s) - 1) : r[i] = s[i + 1]
          /\ Len(s) \in Nat
        BY <1>2, <2>1, Removed
    <2>3. ASSUME NEW i \in DOMAIN r PROVE r[i] \in Range(s)
        <3>1. CASE i < p
            BY <2>2, <3>1 DEF Range
        <3>2. CASE i >= p
            <4>1. i \in p..(Len(s) - 1) /\ i + 1 \in 1..Len(s)
                BY <2>2, <3>2
            <4> QED BY <2>2, <4>1 DEF Range
        <3> QED BY <2>2, <3>1, <3>2
    \* Where what was at another position is now.
    <2>4. ASSUME NEW i \in 1..Len(s), i # p
          PROVE  \E k \in 1..(Len(s) - 1) : r[k] = s[i] /\ k = (IF i < p THEN i ELSE i - 1)
        <3>1. CASE i < p
            BY <2>2, <3>1
        <3>2. CASE i > p
            <4>1. i - 1 \in p..(Len(s) - 1) /\ (i - 1) + 1 = i /\ i - 1 \in 1..(Len(s) - 1)
                BY <2>2, <3>2
            <4> QED BY <2>2, <3>2, <4>1
        <3> QED BY <2>4, <3>1, <3>2
    <2>5. Range(r) \subseteq Range(s)
        BY <2>3 DEF Range
    <2>6. Range(s) \ {x} \subseteq Range(r)
        <3> SUFFICES ASSUME NEW i \in 1..Len(s), s[i] # x PROVE s[i] \in Range(r)
            BY <2>2 DEF Range
        <3>1. i # p
            BY <1>2
        <3> QED BY <2>2, <2>4, <3>1 DEF Range
    <2>7. ASSUME NEW a, NEW b, a # x, b # x, Before(s, a, b) PROVE Before(r, a, b)
        <3> SUFFICES ASSUME NEW k \in DOMAIN r, r[k] = b PROVE \E j \in 1..(k - 1) : r[j] = a
            BY DEF Before
        <3>1. PICK i \in 1..Len(s) : s[i] = b /\ i # p /\ k = (IF i < p THEN i ELSE i - 1)
            <4>1. CASE k < p
                BY <2>2, <4>1
            <4>2. CASE k >= p
                <5>1. k \in p..(Len(s) - 1) /\ k + 1 \in 1..Len(s) /\ k + 1 > p /\ (k + 1) - 1 = k
                    BY <2>2, <4>2
                <5>2. s[k + 1] = b
                    BY <2>2, <5>1
                <5>3. PICK i : i = k + 1
                    OBVIOUS
                <5>4. i \in 1..Len(s) /\ s[i] = b /\ i > p /\ k = i - 1
                    BY <5>1, <5>2, <5>3
                <5> QED BY <5>4
            <4> QED BY <2>2, <4>1, <4>2
        <3>2. PICK j \in 1..(i - 1) : s[j] = a
            BY <2>2, <2>7, <3>1 DEF Before
        <3>3. j \in 1..Len(s) /\ j # p
            BY <1>2, <2>2, <2>7, <3>1, <3>2
        <3>4. PICK l \in 1..(Len(s) - 1) : r[l] = a /\ l = (IF j < p THEN j ELSE j - 1)
            BY <2>4, <3>2, <3>3
        <3>5. l < k
            BY <3>1, <3>2, <3>3, <3>4
        <3> QED BY <3>4, <3>5, <2>2
    <2> QED BY <2>1, <2>2, <2>5, <2>6, <2>7
<1> QED BY <1>1, <1>2, RemovedFirst

\* The recursion of NewUpdates has one solution.
LEMMA NewUpdatesIs ==
    ASSUME NEW text \in Seq(Update), NEW g,
           g = [i \in 0..Len(text) |->
                  IF i = 0 THEN <<>>
                  ELSE IF text[i] \in Range(got) THEN g[i - 1] ELSE Append(g[i - 1], text[i])]
    PROVE  NewUpdates(text) = g[Len(text)]
<1> DEFINE Sol(f) == f = [i \in 0..Len(text) |->
                            IF i = 0 THEN <<>>
                            ELSE IF text[i] \in Range(got) THEN f[i - 1]
                                 ELSE Append(f[i - 1], text[i])]
<1>1. PICK f : f = CHOOSE h : Sol(h)
    OBVIOUS
<1>2. Sol(g)
    OBVIOUS
<1>3. Sol(f)
    BY <1>1, <1>2, Zenon
<1>4. NewUpdates(text) = f[Len(text)]
    BY <1>1 DEF NewUpdates
<1>5. Len(text) \in Nat
    OBVIOUS
<1>6. ASSUME NEW h, Sol(h)
      PROVE  /\ h[0] = <<>>
             /\ \A i \in 1..Len(text) :
                   h[i] = IF text[i] \in Range(got) THEN h[i - 1] ELSE Append(h[i - 1], text[i])
    <2> DEFINE val(i) == IF i = 0 THEN <<>>
                         ELSE IF text[i] \in Range(got) THEN h[i - 1]
                              ELSE Append(h[i - 1], text[i])
    <2>1. h = [i \in 0..Len(text) |-> val(i)]
        BY <1>6
    <2> HIDE DEF val
    <2>2. \A i \in 0..Len(text) : h[i] = val(i)
        BY <2>1
    <2> USE DEF val
    <2>3. h[0] = val(0) /\ 0 \in 0..Len(text)
        BY <1>5, <2>2
    <2>4. ASSUME NEW i \in 1..Len(text) PROVE i \in 0..Len(text) /\ i # 0
        BY <1>5
    <2> QED BY <2>2, <2>3, <2>4
<1>7. \A i \in 0..Len(text) : f[i] = g[i]
    <2> DEFINE D == {i \in 0..Len(text) : f[i] # g[i]}
    <2> SUFFICES ASSUME D # {} PROVE FALSE
        OBVIOUS
    <2>1. D \in SUBSET Nat
        BY <1>5
    <2>2. PICK m \in D : \A k \in D : m <= k
        BY <2>1, LeastPosition
    <2>3. /\ m \in 0..Len(text) /\ f[m] # g[m]
          /\ \A k \in 0..Len(text) : f[k] # g[k] => m <= k
        BY <2>2
    <2> HIDE DEF D, Sol
    <2>8. /\ f[0] = <<>>
          /\ \A i \in 1..Len(text) :
                f[i] = IF text[i] \in Range(got) THEN f[i - 1] ELSE Append(f[i - 1], text[i])
        BY <1>3, <1>6
    <2>9. /\ g[0] = <<>>
          /\ \A i \in 1..Len(text) :
                g[i] = IF text[i] \in Range(got) THEN g[i - 1] ELSE Append(g[i - 1], text[i])
        BY <1>2, <1>6
    <2>4. f[0] = g[0]
        BY <2>8, <2>9
    <2>5. m \in 1..Len(text) /\ m - 1 \in 0..Len(text) /\ ~(m <= m - 1)
        BY <1>5, <2>3, <2>4
    <2>6. f[m - 1] = g[m - 1]
        BY <2>3, <2>5
    <2>7. f[m] = g[m]
        BY <2>5, <2>6, <2>8, <2>9
    <2> QED BY <2>3, <2>7
<1> QED BY <1>4, <1>5, <1>7

\* Of a log that the replicas have nothing is new, and of one they do not, all.
LEMMA NewUpdatesOf ==
    ASSUME NEW text \in Seq(Update)
    PROVE  /\ Range(text) \subseteq Range(got) => NewUpdates(text) = <<>>
           /\ Range(text) \intersect Range(got) = {} => NewUpdates(text) = text
<1>1. Len(text) \in Nat /\ \A i \in 1..Len(text) : text[i] \in Range(text) /\ text[i] \in Update
    BY DEF Range
<1>2. ASSUME Range(text) \subseteq Range(got) PROVE NewUpdates(text) = <<>>
    <2>1. PICK g : g = [i \in 0..Len(text) |-> <<>>]
        OBVIOUS
    <2>2. /\ DOMAIN g = 0..Len(text) /\ \A i \in 0..Len(text) : g[i] = <<>>
          /\ g = [i \in 0..Len(text) |-> g[i]]
        BY <2>1
    <2>3. \A i \in 0..Len(text) :
              g[i] = IF i = 0 THEN <<>>
                     ELSE IF text[i] \in Range(got) THEN g[i - 1] ELSE Append(g[i - 1], text[i])
        <3> TAKE i \in 0..Len(text)
        <3>1. CASE i = 0
            BY <2>2, <3>1
        <3>2. CASE i # 0
            <4>1. i \in 1..Len(text) /\ i - 1 \in 0..Len(text)
                BY <1>1, <3>2
            <4> QED BY <1>1, <1>2, <2>2, <3>2, <4>1
        <3> QED BY <3>1, <3>2
    <2>4. g = [i \in 0..Len(text) |->
                  IF i = 0 THEN <<>>
                  ELSE IF text[i] \in Range(got) THEN g[i - 1] ELSE Append(g[i - 1], text[i])]
        BY <2>2, <2>3
    <2>5. g[Len(text)] = <<>>
        BY <1>1, <2>2
    <2> QED BY <2>4, <2>5, NewUpdatesIs
<1>3. ASSUME Range(text) \intersect Range(got) = {} PROVE NewUpdates(text) = text
    <2>1. PICK g : g = [i \in 0..Len(text) |-> SubSeq(text, 1, i)]
        OBVIOUS
    <2>2. /\ DOMAIN g = 0..Len(text) /\ \A i \in 0..Len(text) : g[i] = SubSeq(text, 1, i)
          /\ g = [i \in 0..Len(text) |-> g[i]]
        BY <2>1
    <2>3. \A i \in 0..Len(text) :
              g[i] = IF i = 0 THEN <<>>
                     ELSE IF text[i] \in Range(got) THEN g[i - 1] ELSE Append(g[i - 1], text[i])
        <3> TAKE i \in 0..Len(text)
        <3>1. CASE i = 0
            <4>1. SubSeq(text, 1, 0) = <<>>
                OBVIOUS
            <4> QED BY <2>2, <3>1, <4>1
        <3>2. CASE i # 0
            <4>1. i \in 1..Len(text) /\ i - 1 \in 0..Len(text)
                BY <1>1, <3>2
            <4>2. text[i] \notin Range(got)
                BY <1>1, <1>3, <4>1
            <4>3. SubSeq(text, 1, i) = Append(SubSeq(text, 1, i - 1), text[i])
                <5> DEFINE x == SubSeq(text, 1, i)
                           y == SubSeq(text, 1, i - 1)
                <5>1. x \in Seq(Update) /\ Len(x) = i /\ \A j \in 1..i : x[j] = text[j]
                    BY <4>1
                <5>2. y \in Seq(Update) /\ Len(y) = i - 1 /\ \A j \in 1..(i - 1) : y[j] = text[j]
                    BY <4>1
                <5> HIDE DEF x, y
                <5>3. Append(y, text[i]) \in Seq(Update) /\ Len(Append(y, text[i])) = i
                    BY <1>1, <4>1, <5>2
                <5>4. ASSUME NEW j \in 1..i PROVE Append(y, text[i])[j] = x[j]
                    <6>1. CASE j = i
                        BY <4>1, <5>1, <5>2, <6>1
                    <6>2. CASE j # i
                        BY <4>1, <5>1, <5>2, <6>2
                    <6> QED BY <6>1, <6>2
                <5>5. Append(y, text[i]) = x
                    BY <5>1, <5>3, <5>4, SeqEqual
                <5> QED BY <5>5 DEF x, y
            <4> QED BY <2>2, <3>2, <4>1, <4>2, <4>3
        <3> QED BY <3>1, <3>2
    <2>4. g = [i \in 0..Len(text) |->
                  IF i = 0 THEN <<>>
                  ELSE IF text[i] \in Range(got) THEN g[i - 1] ELSE Append(g[i - 1], text[i])]
        BY <2>2, <2>3
    <2>5. SubSeq(text, 1, Len(text)) = text
        BY <1>1, SubSeqFull
    <2>6. g[Len(text)] = text
        <3>1. Len(text) \in 0..Len(text)
            BY <1>1
        <3>2. g[Len(text)] = SubSeq(text, 1, Len(text))
            BY <2>2, <3>1
        <3> QED BY <2>5, <3>2
    <2> HIDE DEF NewUpdates
    <2> QED BY <2>4, <2>6, NewUpdatesIs
<1> QED BY <1>2, <1>3

-----------------------------------------------------------------------------
(* The writer of the log and its sender *)

\* An update is under way, also in a process that is down.
Under == temp # NoUpdateTemp

SyncTypes ==
  /\ syncFault \in AllSyncFaults
  /\ mode \in {"down", "init", "up", "quit"} /\ done \subseteq Update
  /\ temp \in [u : Update \union {NoUpdate}, pos : Nat, named : BOOLEAN]
  /\ fresh \in Nat \ {0} /\ link \in 0..fresh - 1
  /\ DOMAIN logs \subseteq 1..fresh - 1
  /\ \A n \in DOMAIN logs : logs[n] \in Seq(Update \union {Torn})
  /\ upc \in {"idle", "written", "ready", "nothing", "made", "linked", "opened", "writing",
              "logged", "end"}
  /\ retry \in BOOLEAN /\ timers \in [LogId -> Nat]
  /\ \A n \in LogId : timers[n] > 0 => n \in 1..fresh - 1
  /\ queue \in Seq(Nat) /\ chan \in Seq(Nat)
  /\ Range(queue) \subseteq 1..fresh - 1 /\ Range(chan) \subseteq 1..fresh - 1
  /\ spc \in {"idle", "taken", "await"}
  /\ \A a \in acks : a.log \in 1..fresh - 1 /\ a.err \in BOOLEAN
  /\ acking \in 0..fresh - 1 /\ apc \in {"none", "kept", "dequeued", "dropped"}
  /\ made \in Seq(Update)
  /\ syncCrashes \in 0..MaxSyncCrashes

\* Where the writer is, and what of its update is done.
WriterInv ==
  /\ Under => temp.u \in Update
  /\ temp.u \in done => temp.named
  /\ ~Under => upc = "idle"
  /\ mode \in {"init", "up"} /\ Under => upc # "idle"
  /\ mode = "down" => upc = "idle"
  /\ upc \notin {"idle", "written"} => temp.named
  /\ upc \in {"nothing", "made", "linked", "opened", "writing", "logged", "end"} => temp.u \in done
  /\ upc = "nothing" => syncFault = "seen" /\ mode # "up"
  /\ mode = "up" /\ upc \in {"written", "ready"} => temp.u \notin done
  /\ upc = "written" => temp.u \notin done
  /\ upc = "linked" => link # 0 /\ link \notin DOMAIN logs
  /\ upc \in {"opened", "writing", "logged", "end"} => link \in DOMAIN logs
  /\ Range(made) \subseteq done

\* The log that is written to was not sent; it is queued before the sender gets it.
\* Another log is queued, or acked, or it was refused.
SenderInv ==
  /\ mode \in {"down", "init"} => spc = "idle" /\ chan = <<>> /\ acks = {}
  /\ apc = "none" <=> acking = 0
  /\ acking # 0 => acking # link /\ (apc = "dropped" => acking \notin DOMAIN logs)
  /\ \A a \in acks : a.log # link /\ (a.err => a.log \in refused)
  /\ spc # "idle" => chan # <<>> /\ link # Head(chan)
  /\ link \in Range(chan) => link \in Range(queue)
  /\ \A n \in DOMAIN logs \ {link} : n \in Range(queue) \/ n = acking \/ n \in refused

LEMMA NoUpdateOut ==
    NoUpdateTemp.u \notin Update /\ NoUpdateTemp.pos = 0 /\ NoUpdateTemp \in [u : Update \union {NoUpdate}, pos : Nat, named : BOOLEAN]
BY DEF NoUpdateTemp

LEMMA Overwritten ==
    ASSUME NEW S, NEW s \in Seq(S), NEW k \in Nat, NEW e \in S
    PROVE  LET t == [s EXCEPT ![k] = e]
           IN  /\ t \in Seq(S) /\ Len(t) = Len(s)
               /\ \A i \in 1..Len(s) : t[i] = IF i = k THEN e ELSE s[i]
<1> DEFINE t == [s EXCEPT ![k] = e]
<1>1. Len(s) \in Nat /\ DOMAIN s = 1..Len(s) /\ \A i \in 1..Len(s) : s[i] \in S
    OBVIOUS
<1>2. /\ DOMAIN t = 1..Len(s) /\ t = [i \in 1..Len(s) |-> t[i]]
      /\ \A i \in 1..Len(s) : t[i] = IF i = k THEN e ELSE s[i]
    BY <1>1
<1>3. \A i \in 1..Len(s) : t[i] \in S
    BY <1>1, <1>2
<1>4. t \in [1..Len(s) -> S]
    BY <1>2, <1>3
<1>5. t \in Seq(S)
    BY <1>1, <1>4, SeqDef
<1>6. Len(t) = Len(s)
    BY <1>1, <1>2, <1>5
<1> QED BY <1>2, <1>5, <1>6

LEMMA LogIds == LogId \subseteq Nat
<1>1. Cardinality(Update) \in Nat
    BY FS_CardinalityType
<1> QED BY <1>1 DEF LogId

\* A timer starts for a log that was made.
LEMMA TimerTypes ==
    ASSUME SyncTypes, NEW n \in 1..fresh - 1, StartTimer(n)
    PROVE  /\ timers' \in [LogId -> Nat]
           /\ \A m \in LogId : timers'[m] > 0 => m \in 1..fresh - 1
           /\ \A m \in LogId : timers'[m] = IF m = n THEN timers[m] + 1 ELSE timers[m]
<1>1. timers \in [LogId -> Nat] /\ \A m \in LogId : timers[m] > 0 => m \in 1..fresh - 1
    BY DEF SyncTypes
<1>2. timers' = [timers EXCEPT ![n] = timers[n] + 1]
    BY DEF StartTimer
<1>3. CASE n \in LogId
    <2>1. timers[n] + 1 \in Nat
        BY <1>1, <1>3
    <2>2. timers' \in [LogId -> Nat]
        BY <1>1, <1>2, <2>1
    <2>3. \A m \in LogId : timers'[m] = IF m = n THEN timers[m] + 1 ELSE timers[m]
        BY <1>1, <1>2
    <2> QED BY <1>1, <2>2, <2>3
<1>4. CASE n \notin LogId
    <2>1. timers' = timers
        BY <1>1, <1>2, <1>4
    <2> QED BY <1>1, <1>4, <2>1
<1> QED BY <1>3, <1>4

LEMMA WriterTypes ==
    ASSUME SyncTypes, WriterInv, SenderInv, Writing
    PROVE  SyncTypes'
<1> USE DEF SyncTypes, Going
<1>1. CASE UpdateNamed \/ OpenLog
    BY <1>1 DEF UpdateNamed, OpenLog
<1>2. CASE RunUpdate
    <2>1. temp.u \in Update
        BY <1>2 DEF RunUpdate, WriterInv
    <2> QED BY <1>2, <2>1 DEF RunUpdate
<1>3. CASE LinkLog
    BY <1>3 DEF LinkLog
<1>4. CASE CreateLog
    <2>1. link \in 1..fresh - 1
        BY <1>4 DEF CreateLog, WriterInv
    <2>2. <<>> \in Seq(Update \union {Torn})
        OBVIOUS
    <2> QED BY <1>4, <2>1, <2>2 DEF CreateLog
<1>5. CASE WriteEntry
    <2>1. ASSUME NEW n \in DOMAIN logs
          PROVE  Append(logs[n], Torn) \in Seq(Update \union {Torn})
        OBVIOUS
    <2> QED BY <1>5, <2>1 DEF WriteEntry, WriteAt
<1>6. CASE EndEntry
    <2>1. temp.u \in Update
        BY <1>6 DEF EndEntry, WriterInv
    <2>2. ASSUME NEW n \in DOMAIN logs
          PROVE  [logs[n] EXCEPT ![temp.pos + 1] = temp.u] \in Seq(Update \union {Torn})
        <3>1. temp.pos + 1 \in Nat /\ temp.u \in Update \union {Torn}
            BY <2>1
        <3>2. logs[n] \in Seq(Update \union {Torn})
            OBVIOUS
        <3>3. PICK S : S = Update \union {Torn}
            OBVIOUS
        <3>4. PICK k : k = temp.pos + 1
            OBVIOUS
        <3>5. PICK e : e = temp.u
            OBVIOUS
        <3>6. PICK t : t = logs[n]
            OBVIOUS
        <3>7. k \in Nat /\ e \in S /\ t \in Seq(S)
            BY <3>1, <3>2, <3>3, <3>4, <3>5, <3>6
        <3>8. [t EXCEPT ![k] = e] \in Seq(S)
            BY ONLY <3>7, Overwritten
        <3> QED BY <3>3, <3>4, <3>5, <3>6, <3>8
    <2>3. Append(made, temp.u) \in Seq(Update)
        BY <2>1
    <2> QED BY <1>6, <2>2, <2>3 DEF EndEntry
<1>7. CASE TimerStart
    <2>1. CASE temp.pos = 0
        <3>1. link \in 1..fresh - 1 /\ StartTimer(link)
            BY <1>7, <2>1 DEF TimerStart, WriterInv
        <3> QED BY <1>7, <3>1, TimerTypes DEF TimerStart
    <2>2. CASE temp.pos # 0
        BY <1>7, <2>2 DEF TimerStart
    <2> QED BY <2>1, <2>2
<1>8. CASE UpdateEnd
    BY <1>8, NoUpdateOut DEF UpdateEnd
<1>9. CASE UpdatePanics
    <2>1. timers' \in [LogId -> Nat] /\ \A m \in LogId : ~(timers'[m] > 0)
        BY <1>9 DEF UpdatePanics
    <2> QED BY <1>9, <2>1, NoUpdateOut DEF UpdatePanics
<1> QED BY <1>1, <1>2, <1>3, <1>4, <1>5, <1>6, <1>7, <1>8, <1>9 DEF Writing

LEMMA SenderTypes ==
    ASSUME SyncTypes, WriterInv, SenderInv, Sending \/ Acking
    PROVE  SyncTypes'
<1> USE DEF SyncTypes
<1>1. CASE TakeLog
    BY <1>1 DEF TakeLog
<1>2. CASE SendMissing
    BY <1>2 DEF SendMissing
<1>3. ASSUME NEW err \in BOOLEAN, SendLog(err) PROVE SyncTypes'
    <2>1. Head(chan) \in 1..fresh - 1
        BY <1>3, TailRange DEF SendLog, SenderInv
    <2> QED BY <1>3, <2>1 DEF SendLog
<1>4. ASSUME NEW n PROVE /\ RemoveFirst(queue, n) \in Seq(Nat)
                         /\ Range(RemoveFirst(queue, n)) \subseteq 1..fresh - 1
    BY RemoveRange
<1>5. ASSUME NEW n, Answered(n)
      PROVE  spc' \in {"idle", "taken", "await"} /\ chan' \in Seq(Nat) /\ Range(chan') \subseteq 1..fresh - 1
    <2>1. CASE spc = "await" /\ Head(chan) = n
        <3>1. chan # <<>>
            BY <2>1 DEF SenderInv
        <3>2. Tail(chan) \in Seq(Nat) /\ Range(Tail(chan)) \subseteq Range(chan)
            BY <3>1, TailRange
        <3>3. spc' = "idle" /\ chan' = Tail(chan)
            BY <1>5, <2>1 DEF Answered
        <3> QED BY <3>2, <3>3
    <2>2. CASE ~(spc = "await" /\ Head(chan) = n)
        BY <1>5, <2>2 DEF Answered
    <2> QED BY <2>1, <2>2
<1>6. ASSUME NEW a \in acks, ReadSyncAck(a) PROVE SyncTypes'
    <2>1. CASE a.err
        <3>1. /\ queue' = RemoveFirst(queue, a.log) /\ Answered(a.log) /\ acks' = acks \ {a}
              /\ UNCHANGED <<acking, apc, syncFault, mode, disk, writer, past>>
            BY <1>6, <2>1 DEF ReadSyncAck
        <3> QED BY <1>4, <1>5, <3>1
    <2>2. CASE ~a.err
        BY <1>6, <2>2 DEF ReadSyncAck
    <2> QED BY <2>1, <2>2
<1>7. CASE DropRecord
    BY <1>4, <1>7 DEF DropRecord
<1>8. CASE DropLog
    BY <1>8 DEF DropLog
<1>9. CASE DropAck
    BY <1>5, <1>9 DEF DropAck
<1> QED BY <1>1, <1>2, <1>3, <1>6, <1>7, <1>8, <1>9 DEF Sending, Acking

LEMMA TypesStep ==
    ASSUME SyncTypes, WriterInv, SenderInv, [SyncNext]_syncVars
    PROVE  SyncTypes'
<1> USE DEF SyncTypes
<1>1. ASSUME NEW u \in Update, UpdateStart(u) PROVE SyncTypes'
    BY <1>1 DEF UpdateStart, Going
<1>2. ASSUME NEW n \in LogId, TimerFires(n) PROVE SyncTypes'
    <2>1. n \in 1..fresh - 1 /\ n \in Nat
        BY <1>2, LogIds DEF TimerFires
    <2>2. timers' \in [LogId -> Nat] /\ \A m \in LogId : timers'[m] > 0 => m \in 1..fresh - 1
        BY <1>2, <2>1 DEF TimerFires
    <2>3. /\ queue' \in Seq(Nat) /\ Range(queue') \subseteq 1..fresh - 1
          /\ chan' \in Seq(Nat) /\ Range(chan') \subseteq 1..fresh - 1
        <3>1. CASE n \in Range(queue)
            BY <1>2, <3>1 DEF TimerFires
        <3>2. CASE n \notin Range(queue)
            <4>1. queue' = Append(queue, n) /\ chan' = Append(chan, n)
                BY <1>2, <3>2 DEF TimerFires
            <4>2. /\ Append(queue, n) \in Seq(Nat) /\ Range(Append(queue, n)) = Range(queue) \union {n}
                  /\ Append(chan, n) \in Seq(Nat) /\ Range(Append(chan, n)) = Range(chan) \union {n}
                BY <2>1, RangeAppend
            <4> QED BY <2>1, <4>1, <4>2
        <3> QED BY <3>1, <3>2
    <2> QED BY <1>2, <2>2, <2>3, SMTT(30) DEF TimerFires
<1>3. CASE Resend
    BY <1>3 DEF Resend
<1>4. CASE SyncCrash
    <2>1. timers' \in [LogId -> Nat] /\ \A m \in LogId : ~(timers'[m] > 0)
        BY <1>4 DEF SyncCrash
    <2>2. chan' \in Seq(Nat) /\ Range(chan') \subseteq 1..fresh - 1
        BY <1>4, RangeEmpty DEF SyncCrash
    <2>3. syncCrashes' \in 0..MaxSyncCrashes
        BY <1>4 DEF SyncCrash
    <2> QED BY <1>4, <2>1, <2>2, <2>3 DEF SyncCrash
<1>5. CASE SyncRestart
    <2>1. timers' \in [LogId -> Nat] /\ \A m \in LogId : timers'[m] > 0 => m \in 1..fresh - 1
        <3>1. CASE link \in DOMAIN logs /\ logs[link] # <<>> /\ link \notin Range(queue)
            <4>1. link \in 1..fresh - 1 /\ StartTimer(link)
                BY <1>5, <3>1 DEF SyncRestart, RestartTimer
            <4> QED BY <4>1, TimerTypes
        <3>2. CASE ~(link \in DOMAIN logs /\ logs[link] # <<>> /\ link \notin Range(queue))
            BY <1>5, <3>2 DEF SyncRestart, RestartTimer
        <3> QED BY <3>1, <3>2
    <2>2. mode' \in {"init", "quit"} /\ upc' \in {upc, "ready"} /\ retry' \in BOOLEAN
        BY <1>5 DEF SyncRestart
    <2>3. apc' \in {"none", "kept"}
        BY <1>5 DEF SyncRestart
    <2> QED BY <1>5, <2>1, <2>2, <2>3 DEF SyncRestart
<1>6. CASE SyncStarted
    BY <1>6 DEF SyncStarted
<1>7. CASE UNCHANGED syncVars
    BY <1>7 DEF syncVars
<1> QED BY <1>1, <1>2, <1>3, <1>4, <1>5, <1>6, <1>7, WriterTypes, SenderTypes DEF SyncNext, Starting

LEMMA UnderIs ==
    ASSUME SyncTypes, WriterInv
    PROVE  /\ temp.u \in Update <=> Under
           /\ ~Under => temp.u = NoUpdate /\ temp.u \notin done
<1>1. NoUpdateTemp.u = NoUpdate /\ NoUpdate \notin Update
    BY DEF NoUpdateTemp
<1>2. Under => temp.u \in Update
    BY DEF WriterInv
<1>3. ~Under => temp.u = NoUpdate
    BY <1>1 DEF Under
<1>4. NoUpdate \notin done
    BY <1>1 DEF SyncTypes
<1> QED BY <1>1, <1>2, <1>3, <1>4 DEF Under

LEMMA WriterStep ==
    ASSUME SyncTypes, WriterInv, SenderInv, [SyncNext]_syncVars
    PROVE  WriterInv'
<1> USE DEF WriterInv
<1>t. /\ temp \in [u : Update \union {NoUpdate}, pos : Nat, named : BOOLEAN]
      /\ done \subseteq Update /\ NoUpdate \notin done
    BY DEF SyncTypes
<1>1. ASSUME NEW u \in Update, UpdateStart(u) PROVE WriterInv'
    <2>1. /\ mode = "up" /\ u \notin done /\ upc' = "written"
          /\ temp'.u = u /\ temp'.named = FALSE
          /\ UNCHANGED <<syncFault, mode, done, link, logs, made>>
        BY <1>1 DEF UpdateStart, Going
    <2>2. Under'
        BY <2>1 DEF Under, NoUpdateTemp
    <2> QED BY <2>1, <2>2
<1>2. CASE UpdateNamed
    <2>1. /\ mode \in {"init", "up"} /\ upc = "written" /\ upc' = "ready"
          /\ temp'.u = temp.u /\ temp'.named = TRUE
          /\ UNCHANGED <<syncFault, mode, done, link, logs, made>>
        BY <1>2, <1>t DEF UpdateNamed, Going
    <2>2. Under'
        BY <2>1 DEF Under, NoUpdateTemp
    <2> QED BY <2>1, <2>2
<1>3. CASE RunUpdate
    <2>1. /\ mode \in {"init", "up"} /\ upc = "ready"
          /\ upc' = (IF SaysMade(temp.u) THEN "nothing" ELSE "made")
          /\ done' = done \union {temp.u}
          /\ UNCHANGED <<syncFault, mode, temp, link, logs, made>>
        BY <1>3 DEF RunUpdate, Going
    <2>2. Under /\ Under' /\ temp.named
        BY <2>1 DEF Under
    <2>3. SaysMade(temp.u) => syncFault = "seen" /\ temp.u \in done
        BY DEF SaysMade
    <2> QED BY <2>1, <2>2, <2>3
<1>4. CASE OpenLog \/ TimerStart
    BY <1>4 DEF OpenLog, TimerStart, Going, Under
<1>5. CASE LinkLog
    <2>1. fresh \in Nat \ {0} /\ fresh \notin DOMAIN logs
        BY DEF SyncTypes
    <2> QED BY <1>5, <2>1 DEF LinkLog, Going, Under
<1>6. CASE CreateLog
    BY <1>6 DEF CreateLog, Going, Under
<1>7. CASE WriteEntry
    BY <1>7 DEF WriteEntry, WriteAt, Going, Under
<1>8. CASE EndEntry
    <2>1. Range(made') \subseteq done
        <3>1. made \in Seq(Update) /\ temp.u \in done /\ temp.u \in Update
            BY <1>8, <1>t DEF SyncTypes, EndEntry, Going
        <3>2. Range(Append(made, temp.u)) = Range(made) \union {temp.u}
            BY <3>1, RangeAppend
        <3> QED BY <1>8, <3>1, <3>2 DEF EndEntry
    <2>2. DOMAIN logs' = DOMAIN logs
        BY <1>8 DEF EndEntry
    <2> QED BY <1>8, <2>1, <2>2 DEF EndEntry, Going, Under
<1>9. CASE UpdateEnd
    BY <1>9, <1>t, NoUpdateOut DEF UpdateEnd, Going, Under, NoUpdateTemp
<1>10. CASE UpdatePanics
    BY <1>10, <1>t, NoUpdateOut DEF UpdatePanics, Going, Under, NoUpdateTemp
<1>11. ASSUME NEW n \in LogId, TimerFires(n) PROVE WriterInv'
    BY <1>11 DEF TimerFires, Under
<1>12. CASE TakeLog
    BY <1>12 DEF TakeLog, Under
<1>13. CASE SendMissing
    BY <1>13 DEF SendMissing, Under
<1>14. ASSUME NEW err \in BOOLEAN, SendLog(err) PROVE WriterInv'
    BY <1>14 DEF SendLog, Under
<1>15. CASE Resend
    BY <1>15 DEF Resend, Under
<1>16. ASSUME NEW a \in acks, ReadSyncAck(a) PROVE WriterInv'
    BY <1>16 DEF ReadSyncAck, Under
<1>17. CASE DropRecord \/ DropAck
    BY <1>17 DEF DropRecord, DropAck, Under
<1>18. CASE DropLog
    <2>1. acking # link
        BY <1>18 DEF DropLog, SenderInv
    <2> QED BY <1>18, <2>1 DEF DropLog, Under
<1>19. CASE SyncCrash
    BY <1>19 DEF SyncCrash, Under
<1>20. CASE SyncRestart
    <2>1. CASE ~Under
        BY <1>20, <2>1 DEF SyncRestart, Under
    <2>2. CASE Under
        BY <1>20, <2>2 DEF SyncRestart, Under
    <2> QED BY <2>1, <2>2
<1>21. CASE SyncStarted
    BY <1>21 DEF SyncStarted, Under
<1>22. CASE UNCHANGED syncVars
    BY <1>22 DEF syncVars, Under
<1> QED BY <1>1, <1>2, <1>3, <1>4, <1>5, <1>6, <1>7, <1>8, <1>9, <1>10, <1>11, <1>12, <1>13, <1>14,
           <1>15, <1>16, <1>17, <1>18, <1>19, <1>20, <1>21, <1>22
        DEF SyncNext, Writing, Sending, Acking, Starting

LEMMA AnsweredIs ==
    ASSUME SyncTypes, SenderInv, NEW n, Answered(n)
    PROVE  \/ spc' = spc /\ chan' = chan
           \/ /\ spc = "await" /\ chan # <<>> /\ Head(chan) = n /\ spc' = "idle"
              /\ chan' = Tail(chan) /\ Range(chan') \subseteq Range(chan)
<1>1. CASE spc = "await" /\ Head(chan) = n
    <2>1. chan # <<>> /\ chan \in Seq(Nat)
        BY <1>1 DEF SenderInv, SyncTypes
    <2>2. spc' = "idle" /\ chan' = Tail(chan)
        BY <1>1 DEF Answered
    <2> QED BY <1>1, <2>1, <2>2, TailRange
<1>2. CASE ~(spc = "await" /\ Head(chan) = n)
    BY <1>2 DEF Answered
<1> QED BY <1>1, <1>2

LEMMA SenderStep ==
    ASSUME SyncTypes, WriterInv, SenderInv, [SyncNext]_syncVars
    PROVE  SenderInv'
<1> USE DEF SenderInv
<1>t. /\ queue \in Seq(Nat) /\ chan \in Seq(Nat) /\ fresh \in Nat \ {0}
      /\ Range(queue) \subseteq 1..fresh - 1 /\ Range(chan) \subseteq 1..fresh - 1
      /\ \A a \in acks : a.log \in 1..fresh - 1
      /\ acking \in 0..fresh - 1 /\ link \in 0..fresh - 1 /\ DOMAIN logs \subseteq 1..fresh - 1
    BY DEF SyncTypes
<1>h. chan # <<>> => Head(chan) \in Range(chan) /\ Head(chan) \in 1..fresh - 1
    BY <1>t, TailRange
<1>1. ASSUME NEW u \in Update, UpdateStart(u) PROVE SenderInv'
    BY <1>1 DEF UpdateStart, Going
<1>2. CASE UpdateNamed \/ RunUpdate \/ OpenLog \/ TimerStart \/ UpdateEnd
    BY <1>2 DEF UpdateNamed, RunUpdate, OpenLog, TimerStart, UpdateEnd, Going
<1>3. CASE LinkLog
    <2>1. /\ link' = fresh /\ link \notin DOMAIN logs
          /\ UNCHANGED <<mode, logs, queue, chan, spc, acks, acking, apc, refused>>
        BY <1>3 DEF LinkLog
    <2>2. /\ fresh # acking /\ fresh \notin Range(chan) /\ (chan # <<>> => Head(chan) # fresh)
          /\ \A a \in acks : a.log # fresh
        BY <1>t, <1>h
    <2>3. \A n \in DOMAIN logs \ {link'} : n \in Range(queue) \/ n = acking \/ n \in refused
        BY <2>1
    <2> QED BY <2>1, <2>2, <2>3
<1>4. CASE CreateLog
    BY <1>4 DEF CreateLog, Going, WriterInv
<1>5. CASE WriteEntry
    BY <1>5 DEF WriteEntry, WriteAt, Going
<1>6. CASE EndEntry
    BY <1>6 DEF EndEntry, Going
<1>7. CASE UpdatePanics
    <2>1. mode = "init"
        BY <1>7 DEF UpdatePanics, Going, WriterInv
    <2> QED BY <1>7, <2>1 DEF UpdatePanics
<1>8. ASSUME NEW n \in LogId, TimerFires(n) PROVE SenderInv'
    <2>1. CASE n \in Range(queue)
        BY <1>8, <2>1 DEF TimerFires
    <2>2. CASE n \notin Range(queue)
        <3>1. /\ mode = "up" /\ queue' = Append(queue, n) /\ chan' = Append(chan, n)
              /\ UNCHANGED <<mode, link, logs, spc, acks, acking, apc, refused>>
            BY <1>8, <2>2 DEF TimerFires
        <3>2. n \in Nat
            BY LogIds
        <3>3. /\ Range(Append(queue, n)) = Range(queue) \union {n}
              /\ Range(Append(chan, n)) = Range(chan) \union {n}
            BY <1>t, <3>2, RangeAppend
        <3>4. chan # <<>> => Append(chan, n) # <<>> /\ Head(Append(chan, n)) = Head(chan)
            BY <1>t, <3>2
        <3> QED BY <3>1, <3>3, <3>4
    <2> QED BY <2>1, <2>2
<1>9. CASE TakeLog
    <2>1. /\ mode = "up" /\ chan # <<>> /\ link' = (IF link = Head(chan) THEN 0 ELSE link)
          /\ UNCHANGED <<mode, logs, queue, chan, acks, acking, apc, refused>>
        BY <1>9 DEF TakeLog
    <2>2. CASE link = Head(chan)
        BY <1>t, <1>h, <2>1, <2>2
    <2>3. CASE link # Head(chan)
        BY <2>1, <2>3
    <2> QED BY <2>2, <2>3
<1>10. CASE SendMissing
    BY <1>10 DEF SendMissing
<1>11. ASSUME NEW err \in BOOLEAN, SendLog(err) PROVE SenderInv'
    <2>1. /\ mode = "up" /\ spc = "taken" /\ spc' = "await"
          /\ acks' = acks \union {[log |-> Head(chan), err |-> err]}
          /\ refused' = (IF err THEN refused \union {Head(chan)} ELSE refused)
          /\ UNCHANGED <<mode, link, logs, queue, chan, acking, apc>>
        BY <1>11 DEF SendLog
    <2>2. \A a \in acks' : a.log # link /\ (a.err => a.log \in refused')
        BY <2>1
    <2> QED BY <2>1, <2>2
<1>12. CASE Resend
    BY <1>12 DEF Resend
<1>13. ASSUME NEW n PROVE /\ Range(RemoveFirst(queue, n)) \subseteq Range(queue)
                          /\ Range(queue) \ {n} \subseteq Range(RemoveFirst(queue, n))
    BY <1>t, RemoveRange
<1>14. ASSUME NEW a \in acks, ReadSyncAck(a) PROVE SenderInv'
    <2>1. CASE a.err
        <3>1. /\ mode = "up" /\ queue' = RemoveFirst(queue, a.log) /\ Answered(a.log)
              /\ acks' = acks \ {a}
              /\ UNCHANGED <<acking, apc, mode, link, logs, refused>>
            BY <1>14, <2>1 DEF ReadSyncAck
        <3>2. a.log # link /\ a.log \in refused
            BY <2>1
        <3>3. \/ spc' = spc /\ chan' = chan
              \/ spc' = "idle" /\ Range(chan') \subseteq Range(chan)
            BY <3>1, AnsweredIs
        <3>4. /\ Range(queue') \subseteq Range(queue)
              /\ Range(queue) \ {a.log} \subseteq Range(queue')
            BY <3>1, <1>13
        <3> QED BY <3>1, <3>2, <3>3, <3>4
    <2>2. CASE ~a.err
        <3>1. /\ mode = "up" /\ acking = 0 /\ acking' = a.log /\ apc' = "kept" /\ acks' = acks \ {a}
              /\ UNCHANGED <<mode, link, logs, refused, queue, chan, spc>>
            BY <1>14, <2>2 DEF ReadSyncAck
        <3>2. a.log # link /\ a.log # 0
            BY <1>t
        <3> QED BY <1>t, <3>1, <3>2
    <2> QED BY <2>1, <2>2
<1>15. CASE DropRecord
    <2>1. /\ apc = "kept" /\ queue' = RemoveFirst(queue, acking) /\ apc' = "dequeued"
          /\ UNCHANGED <<mode, link, logs, refused, chan, spc, acks, acking>>
        BY <1>15 DEF DropRecord
    <2>2. /\ Range(queue') \subseteq Range(queue)
          /\ Range(queue) \ {acking} \subseteq Range(queue')
        BY <2>1, <1>13
    <2> QED BY <2>1, <2>2
<1>16. CASE DropLog
    BY <1>16 DEF DropLog
<1>17. CASE DropAck
    <2>1. /\ apc = "dropped" /\ apc' = "none" /\ acking' = 0 /\ Answered(acking)
          /\ UNCHANGED <<mode, link, logs, refused, queue, acks>>
        BY <1>17 DEF DropAck
    <2>2. /\ \/ spc' = spc /\ chan' = chan
             \/ spc = "await" /\ spc' = "idle" /\ Range(chan') \subseteq Range(chan)
        BY <2>1, AnsweredIs
    <2> QED BY <2>1, <2>2
<1>18. CASE SyncCrash
    BY <1>18, RangeEmpty DEF SyncCrash
<1>19. CASE SyncRestart
    BY <1>19 DEF SyncRestart
<1>20. CASE SyncStarted
    BY <1>20 DEF SyncStarted
<1>21. CASE UNCHANGED syncVars
    BY <1>21 DEF syncVars
<1> QED BY <1>1, <1>2, <1>3, <1>4, <1>5, <1>6, <1>7, <1>8, <1>9, <1>10, <1>11, <1>12, <1>14,
           <1>15, <1>16, <1>17, <1>18, <1>19, <1>20, <1>21
        DEF SyncNext, Writing, Sending, Acking, Starting

Core == SyncTypes /\ WriterInv /\ SenderInv

LEMMA CoreStep == Core /\ [SyncNext]_syncVars => Core'
BY TypesStep, WriterStep, SenderStep DEF Core

LEMMA CoreInit == SyncInit => Core
<1> SUFFICES ASSUME SyncInit PROVE Core
    OBVIOUS
<1>1. DOMAIN logs = {} /\ Range(queue) = {} /\ Range(chan) = {} /\ Range(made) = {}
    BY RangeEmpty DEF SyncInit
<1>2. syncFault \in AllSyncFaults
    BY DEF SyncInit
<1>3. timers \in [LogId -> Nat] /\ \A n \in LogId : ~(timers[n] > 0)
    BY DEF SyncInit
<1>4. SyncTypes
    <2>1. /\ queue \in Seq(Nat) /\ chan \in Seq(Nat) /\ made \in Seq(Update)
          /\ syncCrashes \in 0..MaxSyncCrashes
        BY DEF SyncInit
    <2>2. /\ temp \in [u : Update \union {NoUpdate}, pos : Nat, named : BOOLEAN]
          /\ fresh \in Nat \ {0} /\ link \in 0..fresh - 1 /\ acking \in 0..fresh - 1
        BY NoUpdateOut DEF SyncInit
    <2> QED BY <1>1, <1>2, <1>3, <2>1, <2>2 DEF SyncInit, SyncTypes
<1>5. WriterInv
    BY <1>1, NoUpdateOut DEF SyncInit, WriterInv, Under
<1>6. SenderInv
    BY <1>1 DEF SyncInit, SenderInv
<1> QED BY <1>4, <1>5, <1>6 DEF Core

-----------------------------------------------------------------------------
(* What is in the logs *)

\* The log that is written to.
Text == IF link \in DOMAIN logs THEN logs[link] ELSE <<>>

\* A step of neither the update nor the log it is written to.
Elsewhere ==
  /\ UNCHANGED <<syncFault, temp, link, made, done>>
  /\ DOMAIN logs' \subseteq DOMAIN logs /\ \A n \in DOMAIN logs' : logs'[n] = logs[n]
  /\ link \in DOMAIN logs => link \in DOMAIN logs'
  /\ upc' \in {upc, "idle"} \/ (Under /\ mode = "down" /\ upc' = "ready")

LEMMA TextIs ==
    ASSUME Core
    PROVE  Text \in Seq(Update \union {Torn}) /\ Len(Text) \in Nat /\ temp.pos \in Nat
           /\ DOMAIN Text = 1..Len(Text)
<1>1. CASE link \in DOMAIN logs
    BY <1>1 DEF Core, SyncTypes, Text
<1>2. CASE link \notin DOMAIN logs
    BY <1>2 DEF Core, SyncTypes, Text
<1> QED BY <1>1, <1>2

LEMMA TextElsewhere ==
    ASSUME Elsewhere
    PROVE  Text' = Text /\ (Under' <=> Under)
BY DEF Elsewhere, Text, Under

LEMMA WriterOrElse ==
    ASSUME Core, [SyncNext]_syncVars
    PROVE  (\E u \in Update : UpdateStart(u)) \/ Writing \/ TakeLog \/ Elsewhere
<1>1. ASSUME NEW n \in LogId, TimerFires(n) PROVE Elsewhere
    BY <1>1 DEF TimerFires, Elsewhere
<1>2. CASE SendMissing \/ Resend
    BY <1>2 DEF SendMissing, Resend, Elsewhere
<1>3. ASSUME NEW err \in BOOLEAN, SendLog(err) PROVE Elsewhere
    BY <1>3 DEF SendLog, Elsewhere
<1>4. ASSUME NEW a \in acks, ReadSyncAck(a) PROVE Elsewhere
    BY <1>4 DEF ReadSyncAck, Elsewhere
<1>5. CASE DropRecord \/ DropAck
    BY <1>5 DEF DropRecord, DropAck, Elsewhere
<1>6. CASE DropLog
    <2>1. acking # link
        BY <1>6 DEF Core, SenderInv, DropLog
    <2> QED BY <1>6, <2>1 DEF DropLog, Elsewhere
<1>7. CASE SyncCrash
    BY <1>7 DEF SyncCrash, Elsewhere
<1>8. CASE SyncRestart
    <2>1. upc' = upc \/ (Under /\ upc' = "ready")
        BY <1>8 DEF SyncRestart, Under
    <2> QED BY <1>8, <2>1 DEF SyncRestart, Elsewhere
<1>9. CASE SyncStarted
    BY <1>9 DEF SyncStarted, Elsewhere
<1>10. CASE UNCHANGED syncVars
    BY <1>10 DEF syncVars, Elsewhere
<1> QED BY <1>1, <1>2, <1>3, <1>4, <1>5, <1>6, <1>7, <1>8, <1>9, <1>10
        DEF SyncNext, Sending, Acking, Starting

\* The log that is written to is as long as the update found it, or one longer.
Position ==
  /\ Under => Len(Text) = temp.pos \/ Len(Text) = temp.pos + 1
  /\ upc \in {"writing", "logged", "end"} => Len(Text) = temp.pos + 1

\* What a step of the writer does to the log.
LEMMA TextStep ==
    ASSUME Core, Position
    PROVE  /\ \A u \in Update : UpdateStart(u) => Text' = Text /\ temp'.pos = Len(Text)
           /\ UpdateNamed => Text' = Text /\ temp'.u = temp.u /\ temp'.pos = temp.pos
           /\ RunUpdate \/ OpenLog \/ TimerStart => Text' = Text /\ temp' = temp
           /\ UpdateEnd \/ UpdatePanics => Text' = Text /\ ~Under'
           /\ LinkLog \/ CreateLog => Text = <<>> /\ Text' = <<>> /\ temp' = temp
           /\ WriteEntry => /\ temp' = temp
                            /\ \/ Len(Text) = temp.pos /\ Text' = Append(Text, Torn)
                               \/ Len(Text) = temp.pos + 1 /\ Text' = Text
           /\ EndEntry => /\ temp' = temp /\ Len(Text') = Len(Text)
                          /\ \A i \in 1..Len(Text) :
                                Text'[i] = IF i = temp.pos + 1 THEN temp.u ELSE Text[i]
           /\ TakeLog => temp' = temp /\ Text' = IF link = Head(chan) THEN <<>> ELSE Text
<1>t. /\ temp \in [u : Update \union {NoUpdate}, pos : Nat, named : BOOLEAN]
      /\ DOMAIN logs \subseteq 1..fresh - 1 /\ fresh \in Nat \ {0}
      /\ Text \in Seq(Update \union {Torn})
    BY TextIs DEF Core, SyncTypes
<1>w. upc \in {"linked", "opened", "writing", "logged", "end"} => Under
    BY DEF Core, WriterInv
<1>1. ASSUME NEW u \in Update, UpdateStart(u) PROVE Text' = Text /\ temp'.pos = Len(Text)
    <2>1. Text' = Text
        BY <1>1 DEF UpdateStart, Text
    <2>2. CASE link \in DOMAIN logs
        BY <1>1, <2>1, <2>2 DEF UpdateStart, Text
    <2>3. CASE link \notin DOMAIN logs
        <3>1. Len(<<>>) = 0
            OBVIOUS
        <3> QED BY <1>1, <2>1, <2>3, <3>1 DEF UpdateStart, Text
    <2> QED BY <2>1, <2>2, <2>3
<1>2. UpdateNamed => Text' = Text /\ temp'.u = temp.u /\ temp'.pos = temp.pos
    BY <1>t DEF UpdateNamed, Text
<1>3. RunUpdate \/ OpenLog \/ TimerStart => Text' = Text /\ temp' = temp
    BY DEF RunUpdate, OpenLog, TimerStart, Text
<1>4. UpdateEnd \/ UpdatePanics => Text' = Text /\ ~Under'
    BY DEF UpdateEnd, UpdatePanics, Text, Under
<1>5. ASSUME LinkLog PROVE Text = <<>> /\ Text' = <<>> /\ temp' = temp
    <2>1. fresh \notin DOMAIN logs
        BY <1>t
    <2> QED BY <1>5, <2>1 DEF LinkLog, Text
<1>6. ASSUME CreateLog PROVE Text = <<>> /\ Text' = <<>> /\ temp' = temp
    <2>1. link \notin DOMAIN logs
        BY <1>6 DEF CreateLog, Going, Core, WriterInv
    <2>2. link \in DOMAIN logs' /\ logs'[link] = <<>> /\ link' = link /\ temp' = temp
        BY <1>6 DEF CreateLog
    <2> QED BY <2>1, <2>2 DEF Text
<1>7. ASSUME WriteEntry
      PROVE  /\ temp' = temp
             /\ \/ Len(Text) = temp.pos /\ Text' = Append(Text, Torn)
                \/ Len(Text) = temp.pos + 1 /\ Text' = Text
    <2>1. link \in DOMAIN logs /\ link' = link /\ temp' = temp
        BY <1>7 DEF WriteEntry, Going, Core, WriterInv
    <2>2. logs' = [logs EXCEPT ![link] = IF temp.pos = Len(logs[link]) THEN Append(logs[link], Torn)
                                         ELSE logs[link]]
        BY <1>7 DEF WriteEntry, WriteAt
    <2>3. Text = logs[link] /\ Text' = logs'[link]
        BY <2>1, <2>2 DEF Text
    <2>4. Under
        BY <1>7, <1>w DEF WriteEntry, Going
    <2> QED BY <2>1, <2>2, <2>3, <2>4 DEF Position
<1>8. ASSUME EndEntry
      PROVE  /\ temp' = temp /\ Len(Text') = Len(Text)
             /\ \A i \in 1..Len(Text) :
                   Text'[i] = IF i = temp.pos + 1 THEN temp.u ELSE Text[i]
    <2>1. link \in DOMAIN logs /\ link' = link /\ temp' = temp
        BY <1>8 DEF EndEntry, Going, Core, WriterInv
    <2>2. logs' = [logs EXCEPT ![link] = [logs[link] EXCEPT ![temp.pos + 1] = temp.u]]
        BY <1>8 DEF EndEntry
    <2>3. Text = logs[link] /\ Text' = [Text EXCEPT ![temp.pos + 1] = temp.u]
        BY <2>1, <2>2 DEF Text
    <2>4. PICK S : S = Update \union {Torn}
        OBVIOUS
    <2>5. PICK k : k = temp.pos + 1
        OBVIOUS
    <2>6. PICK e : e = temp.u
        OBVIOUS
    <2>7. PICK x : x = Text
        OBVIOUS
    <2>8. k \in Nat /\ e \in S /\ x \in Seq(S)
        <3>1. temp.u \in Update
            BY <1>8 DEF EndEntry, Going, Core, WriterInv, SyncTypes
        <3> QED BY <1>t, <2>4, <2>5, <2>6, <2>7, <3>1
    <2>9. LET y == [x EXCEPT ![k] = e]
          IN  Len(y) = Len(x) /\ \A i \in 1..Len(x) : y[i] = IF i = k THEN e ELSE x[i]
        BY ONLY <2>8, Overwritten
    <2> QED BY <2>1, <2>3, <2>5, <2>6, <2>7, <2>9
<1>9. ASSUME TakeLog PROVE temp' = temp /\ Text' = IF link = Head(chan) THEN <<>> ELSE Text
    <2>1. 0 \notin DOMAIN logs
        BY <1>t
    <2> QED BY <1>9, <2>1 DEF TakeLog, Text
<1> QED BY <1>1, <1>2, <1>3, <1>4, <1>5, <1>6, <1>7, <1>8, <1>9

LEMMA PositionStep ==
    ASSUME Core, Position, [SyncNext]_syncVars
    PROVE  Position'
<1>t. Len(Text) \in Nat /\ temp.pos \in Nat /\ Text \in Seq(Update \union {Torn})
    BY TextIs
<1>1. ASSUME NEW u \in Update, UpdateStart(u) PROVE Position'
    <2>1. upc' = "written"
        BY <1>1 DEF UpdateStart, Going
    <2> QED BY <1>1, <2>1, TextStep DEF Position
<1>2. CASE UpdateNamed
    <2>1. upc' = "ready" /\ Under
        BY <1>2 DEF UpdateNamed, Going, Core, WriterInv
    <2> QED BY <1>2, <2>1, TextStep DEF Position
<1>3. CASE RunUpdate \/ OpenLog \/ TimerStart
    <2>1. upc' \in {"nothing", "made", "opened"} \/ upc = "logged"
        BY <1>3 DEF RunUpdate, OpenLog, TimerStart, Going
    <2>2. Text' = Text /\ temp' = temp /\ (Under' <=> Under)
        BY <1>3, TextStep DEF Under
    <2> QED BY <2>1, <2>2 DEF Position
<1>4. CASE UpdateEnd \/ UpdatePanics
    <2>1. upc' = "idle" /\ ~Under'
        BY <1>4, TextStep DEF UpdateEnd, UpdatePanics, Going
    <2> QED BY <2>1 DEF Position
<1>5. CASE LinkLog \/ CreateLog
    <2>1. upc' \in {"linked", "opened"}
        BY <1>5 DEF LinkLog, CreateLog, Going
    <2>2. Text' = Text /\ temp' = temp /\ (Under' <=> Under)
        BY <1>5, TextStep DEF Under
    <2> QED BY <2>1, <2>2 DEF Position
<1>6. CASE WriteEntry
    <2>1. temp' = temp /\ Len(Text') = temp.pos + 1
        BY <1>6, <1>t, TextStep
    <2> QED BY <2>1 DEF Position
<1>7. CASE EndEntry
    <2>1. upc = "writing"
        BY <1>7 DEF EndEntry, Going
    <2>2. temp' = temp /\ Len(Text') = temp.pos + 1
        BY <1>7, <2>1, TextStep DEF Position
    <2> QED BY <2>2 DEF Position
<1>8. CASE TakeLog
    <2>1. upc' = "idle" /\ ~Under /\ temp' = temp
        BY <1>8 DEF TakeLog, Core, WriterInv
    <2> QED BY <2>1 DEF Position, Under
<1>9. CASE Elsewhere
    <2>1. Text' = Text /\ (Under' <=> Under) /\ temp' = temp
        BY <1>9, TextElsewhere DEF Elsewhere
    <2>2. upc' \in {"writing", "logged", "end"} => upc' = upc
        BY <1>9 DEF Elsewhere
    <2> QED BY <2>1, <2>2 DEF Position
<1> QED BY <1>1, <1>2, <1>3, <1>4, <1>5, <1>6, <1>7, <1>8, <1>9, WriterOrElse DEF Writing

-----------------------------------------------------------------------------
(* The numbers of the logs: a log is named for an update that took effect, or a *)
(* crash had its update made again.                                            *)
Owed == IF temp.u \in done /\ upc \in {"idle", "ready", "made"} THEN 1 ELSE 0
Budget == fresh - 1 + Owed <= Cardinality(done) + syncCrashes

LEMMA DoneFinite ==
    ASSUME Core
    PROVE  /\ IsFiniteSet(done) /\ Cardinality(done) \in Nat /\ Cardinality(done) <= Cardinality(Update)
           /\ Cardinality(Update) \in Nat /\ fresh \in Nat \ {0} /\ syncCrashes \in Nat
           /\ syncCrashes <= MaxSyncCrashes /\ MaxSyncCrashes \in Nat
<1>1. done \subseteq Update /\ IsFiniteSet(Update)
    BY DEF Core, SyncTypes
<1>2. IsFiniteSet(done) /\ Cardinality(done) <= Cardinality(Update)
    BY <1>1, FS_Subset
<1>3. Cardinality(done) \in Nat /\ Cardinality(Update) \in Nat
    BY <1>1, <1>2, FS_CardinalityType
<1> QED BY <1>2, <1>3 DEF Core, SyncTypes

LEMMA BudgetStep ==
    ASSUME Core, Budget, [SyncNext]_syncVars
    PROVE  Budget'
<1>t. /\ Cardinality(done) \in Nat /\ fresh \in Nat \ {0} /\ syncCrashes \in Nat
      /\ temp \in [u : Update \union {NoUpdate}, pos : Nat, named : BOOLEAN]
    BY DoneFinite DEF Core, SyncTypes
<1>o. Owed \in {0, 1}
    BY DEF Owed
<1>k. ASSUME UNCHANGED <<fresh, done, syncCrashes>>, Owed' \in {0, Owed}
      PROVE  Budget'
    BY <1>t, <1>o, <1>k DEF Budget
<1>1. ASSUME NEW u \in Update, UpdateStart(u) PROVE Budget'
    <2>1. Owed' = 0
        BY <1>1 DEF UpdateStart, Going, Owed
    <2> QED BY <1>1, <1>k, <2>1 DEF UpdateStart
<1>2. CASE UpdateNamed
    <2>1. temp.u \notin done /\ temp'.u = temp.u /\ done' = done
        BY <1>2, <1>t DEF UpdateNamed, Going, Core, WriterInv
    <2>2. Owed' = 0
        BY <2>1 DEF Owed
    <2> QED BY <1>2, <1>k, <2>2 DEF UpdateNamed
<1>3. CASE RunUpdate
    <2>1. /\ upc = "ready" /\ upc' \in {"nothing", "made"} /\ done' = done \union {temp.u}
          /\ UNCHANGED <<fresh, syncCrashes, temp>>
        BY <1>3 DEF RunUpdate, Going
    <2>2. CASE temp.u \in done
        <3>1. done' = done /\ Owed = 1
            BY <2>1, <2>2 DEF Owed
        <3>2. Owed' \in {0, 1}
            BY DEF Owed
        <3> QED BY <1>k, <2>1, <3>1, <3>2
    <2>3. CASE temp.u \notin done
        <3>1. Cardinality(done') = Cardinality(done) + 1
            BY <2>1, <2>3, DoneFinite, FS_AddElement
        <3>2. Owed' \in {0, 1}
            BY DEF Owed
        <3> QED BY <1>t, <1>o, <2>1, <3>1, <3>2 DEF Budget
    <2> QED BY <2>2, <2>3
<1>4. CASE LinkLog
    <2>1. /\ upc = "made" /\ upc' = "linked" /\ fresh' = fresh + 1 /\ temp.u \in done
          /\ UNCHANGED <<done, syncCrashes>>
        BY <1>4 DEF LinkLog, Going, Core, WriterInv
    <2>2. Owed = 1 /\ Owed' = 0
        BY <2>1 DEF Owed
    <2> QED BY <1>t, <2>1, <2>2 DEF Budget
<1>5. CASE OpenLog \/ CreateLog \/ WriteEntry \/ EndEntry \/ TimerStart
    <2>1. upc' \notin {"idle", "ready", "made"} /\ UNCHANGED <<fresh, done, syncCrashes>>
        BY <1>5 DEF OpenLog, CreateLog, WriteEntry, EndEntry, TimerStart, Going
    <2>2. Owed' = 0
        BY <2>1 DEF Owed
    <2> QED BY <1>k, <2>1, <2>2
<1>6. CASE UpdateEnd \/ UpdatePanics
    <2>1. temp' = NoUpdateTemp /\ UNCHANGED <<fresh, done, syncCrashes>>
        BY <1>6 DEF UpdateEnd, UpdatePanics
    <2>2. temp'.u \notin done'
        BY <2>1, NoUpdateOut DEF Core, SyncTypes
    <2>3. Owed' = 0
        BY <2>2 DEF Owed
    <2> QED BY <1>k, <2>1, <2>3
<1>7. CASE SyncCrash
    <2>1. syncCrashes' = syncCrashes + 1 /\ UNCHANGED <<fresh, done, temp>>
        BY <1>7 DEF SyncCrash
    <2>2. Owed' \in {0, 1}
        BY DEF Owed
    <2> QED BY <1>t, <1>o, <2>1, <2>2 DEF Budget
<1>8. CASE SyncRestart
    <2>1. UNCHANGED <<fresh, done, syncCrashes, temp>> /\ upc' \in {upc, "ready"} /\ upc = "idle"
        BY <1>8 DEF SyncRestart, Core, WriterInv
    <2>2. Owed' = Owed
        BY <2>1 DEF Owed
    <2> QED BY <1>k, <2>1, <2>2
<1>9. CASE UNCHANGED <<fresh, done, temp, upc, syncCrashes>>
    <2>1. Owed' = Owed
        BY <1>9 DEF Owed
    <2> QED BY <1>9, <1>k, <2>1
<1>10. ASSUME NEW n \in LogId, TimerFires(n) PROVE UNCHANGED <<fresh, done, temp, upc, syncCrashes>>
    BY <1>10 DEF TimerFires
<1>11. Resend \/ SyncStarted \/ TakeLog \/ SendMissing \/ DropRecord \/ DropLog \/ DropAck
       \/ UNCHANGED syncVars => UNCHANGED <<fresh, done, temp, upc, syncCrashes>>
    BY DEF Resend, SyncStarted, TakeLog, SendMissing, DropRecord, DropLog, DropAck, syncVars
<1>12. ASSUME NEW a \in acks, ReadSyncAck(a) PROVE UNCHANGED <<fresh, done, temp, upc, syncCrashes>>
    BY <1>12 DEF ReadSyncAck
<1>13. ASSUME NEW err \in BOOLEAN, SendLog(err) PROVE UNCHANGED <<fresh, done, temp, upc, syncCrashes>>
    BY <1>13 DEF SendLog
<1> QED BY <1>1, <1>2, <1>3, <1>4, <1>5, <1>6, <1>7, <1>8, <1>9, <1>10, <1>11, <1>12, <1>13
        DEF SyncNext, Writing, Sending, Acking, Starting

LEMMA LogsNumbered ==
    ASSUME Core, Budget
    PROVE  /\ DOMAIN logs \subseteq LogId /\ fresh \in 1..Cardinality(LogId) + 1
           /\ link # 0 => link \in LogId
<1>1. fresh - 1 <= Cardinality(done) + syncCrashes
    <2>1. Owed \in {0, 1}
        BY DEF Owed
    <2> QED BY <2>1, DoneFinite DEF Budget
<1>2. fresh - 1 <= Cardinality(Update) + MaxSyncCrashes
    BY <1>1, DoneFinite
<1>3. 1..fresh - 1 \subseteq LogId
    BY <1>2, DoneFinite DEF LogId
<1>4. Cardinality(LogId) = Cardinality(Update) + MaxSyncCrashes
    <2>1. PICK k : k = Cardinality(Update) + MaxSyncCrashes
        OBVIOUS
    <2>2. k \in Nat
        BY <2>1, DoneFinite
    <2>3. Cardinality(1..k) = k
        BY <2>2, FS_Interval
    <2> QED BY <2>1, <2>3 DEF LogId
<1>5. DOMAIN logs \subseteq 1..fresh - 1 /\ link \in 0..fresh - 1 /\ fresh \in Nat \ {0}
    BY DEF Core, SyncTypes
<1> QED BY <1>2, <1>3, <1>4, <1>5, DoneFinite

-----------------------------------------------------------------------------
(* Updates in the log that is written to will be sent *)
LinkWaits ==
  Text # <<>> => \/ timers[link] > 0 \/ link \in Range(queue) \/ mode = "down"
                 \/ upc \in {"writing", "logged"} /\ temp.pos = 0

LEMMA TextLink ==
    ASSUME Core, Budget
    PROVE  Text # <<>> => link \in DOMAIN logs /\ link \in LogId /\ Text = logs[link]
BY LogsNumbered DEF Text

LEMMA LinkWaitsStep ==
    ASSUME Core, Position, Budget, LinkWaits, [SyncNext]_syncVars
    PROVE  LinkWaits'
<1>t. Len(Text) \in Nat /\ temp.pos \in Nat /\ Text \in Seq(Update \union {Torn})
      /\ (Text = <<>> <=> Len(Text) = 0)
    BY TextIs
<1>p. Position'
    BY PositionStep
<1>r. timers \in [LogId -> Nat] /\ queue \in Seq(Nat)
    BY DEF Core, SyncTypes
<1>k. ASSUME Text' = Text, link' = link, mode' = mode, temp' = temp,
             upc' \in {"writing", "logged"} \/ upc \notin {"writing", "logged"},
             Text # <<>> /\ timers[link] > 0 => timers'[link] > 0 \/ link \in Range(queue'),
             Text # <<>> /\ link \in Range(queue) => link \in Range(queue')
      PROVE  LinkWaits'
    BY <1>k DEF LinkWaits
<1>1. ASSUME NEW u \in Update, UpdateStart(u) PROVE LinkWaits'
    <2>1. upc = "idle" /\ Text' = Text /\ UNCHANGED <<timers, link, queue, mode>>
        BY <1>1, TextStep DEF UpdateStart, Going
    <2> QED BY <2>1 DEF LinkWaits
<1>2. CASE UpdateNamed \/ RunUpdate \/ OpenLog
    <2>1. upc \notin {"writing", "logged"} /\ Text' = Text /\ UNCHANGED <<timers, link, queue, mode>>
        BY <1>2, TextStep DEF UpdateNamed, RunUpdate, OpenLog, Going
    <2> QED BY <2>1 DEF LinkWaits
<1>3. CASE LinkLog \/ CreateLog
    BY <1>3, TextStep DEF LinkWaits
<1>4. CASE WriteEntry
    <2>1. /\ upc = "opened" /\ upc' = "writing" /\ temp' = temp
          /\ UNCHANGED <<timers, link, queue, mode>>
        BY <1>4 DEF WriteEntry, Going
    <2>2. temp.pos # 0 => Text # <<>>
        BY <1>4, <1>t, TextStep
    <2> QED BY <2>1, <2>2 DEF LinkWaits
<1>5. CASE EndEntry
    <2>1. /\ upc = "writing" /\ upc' = "logged" /\ temp' = temp
          /\ UNCHANGED <<timers, link, queue, mode>>
        BY <1>5 DEF EndEntry, Going
    <2>2. Text # <<>>
        BY <1>t, <2>1 DEF Position
    <2> QED BY <2>1, <2>2 DEF LinkWaits
<1>6. CASE TimerStart
    <2>1. Text' = Text /\ upc = "logged" /\ UNCHANGED <<link, queue, mode>>
        BY <1>6, TextStep DEF TimerStart, Going
    <2>2. Text # <<>>
        BY <1>t, <2>1 DEF Position
    <2>3. CASE temp.pos = 0
        <3>1. StartTimer(link) /\ link \in LogId
            BY <1>6, <2>2, <2>3, TextLink DEF TimerStart
        <3>2. timers'[link] = timers[link] + 1 /\ timers[link] \in Nat
            BY <1>r, <3>1 DEF StartTimer
        <3> QED BY <2>1, <3>2 DEF LinkWaits
    <2>4. CASE temp.pos # 0
        BY <1>6, <2>1, <2>2, <2>4 DEF TimerStart, LinkWaits
    <2> QED BY <2>3, <2>4
<1>7. CASE UpdateEnd
    <2>1. Text' = Text /\ upc = "end" /\ UNCHANGED <<timers, link, queue, mode>>
        BY <1>7, TextStep DEF UpdateEnd, Going
    <2> QED BY <2>1 DEF LinkWaits
<1>8. CASE UpdatePanics \/ SyncCrash
    BY <1>8 DEF UpdatePanics, SyncCrash, LinkWaits
<1>9. ASSUME NEW n \in LogId, TimerFires(n) PROVE LinkWaits'
    <2>1. Text' = Text /\ UNCHANGED <<link, upc, temp, mode>>
        BY <1>9 DEF TimerFires, Text
    <2>2. n \in Nat
        BY LogIds
    <2>3. Range(queue') = Range(queue) \union {n}
        <3>1. CASE n \in Range(queue)
            BY <1>9, <3>1 DEF TimerFires
        <3>2. CASE n \notin Range(queue)
            <4>1. Range(Append(queue, n)) = Range(queue) \union {n}
                BY <1>r, <2>2, RangeAppend
            <4> QED BY <1>9, <3>2, <4>1 DEF TimerFires
        <3> QED BY <3>1, <3>2
    <2>4. Text # <<>> /\ link # n => timers'[link] = timers[link]
        BY <1>9, <1>r, TextLink DEF TimerFires
    <2> QED BY <1>k, <2>1, <2>3, <2>4
<1>10. CASE TakeLog
    <2>1. CASE link = Head(chan)
        BY <1>10, <2>1, TextStep DEF LinkWaits
    <2>2. CASE link # Head(chan)
        <3>1. Text' = Text /\ UNCHANGED <<link, upc, temp, mode, timers, queue>>
            BY <1>10, <2>2, TextStep DEF TakeLog
        <3> QED BY <1>k, <3>1
    <2> QED BY <2>1, <2>2
<1>11. CASE SendMissing
    <2>1. Text' = Text /\ mode = "up" /\ UNCHANGED <<link, upc, temp, timers, queue>>
        BY <1>11 DEF SendMissing, Text
    <2> QED BY <2>1 DEF LinkWaits
<1>12. ASSUME NEW err \in BOOLEAN, SendLog(err) PROVE LinkWaits'
    BY <1>12, <1>k DEF SendLog, Text
<1>13. CASE Resend \/ DropAck \/ UNCHANGED syncVars
    BY <1>13, <1>k DEF Resend, DropAck, syncVars, Text
<1>14. ASSUME NEW n PROVE Range(queue) \ {n} \subseteq Range(RemoveFirst(queue, n))
    BY <1>r, RemoveRange
<1>15. ASSUME NEW a \in acks, ReadSyncAck(a) PROVE LinkWaits'
    <2>1. Text' = Text /\ UNCHANGED <<link, upc, temp, mode, timers>>
        BY <1>15 DEF ReadSyncAck, Text
    <2>2. link # a.log
        BY DEF Core, SenderInv
    <2>3. queue' = queue \/ queue' = RemoveFirst(queue, a.log)
        BY <1>15 DEF ReadSyncAck
    <2> QED BY <1>14, <1>k, <2>1, <2>2, <2>3
<1>16. CASE DropRecord
    <2>1. Text' = Text /\ UNCHANGED <<link, upc, temp, mode, timers>>
        BY <1>16 DEF DropRecord, Text
    <2>2. link # acking /\ queue' = RemoveFirst(queue, acking)
        BY <1>16 DEF Core, SenderInv, DropRecord
    <2> QED BY <1>14, <1>k, <2>1, <2>2
<1>17. CASE DropLog
    <2>1. link # acking
        BY <1>17 DEF Core, SenderInv, DropLog
    <2>2. Text' = Text /\ UNCHANGED <<link, upc, temp, mode, timers, queue>>
        BY <1>17, <2>1 DEF DropLog, Text
    <2> QED BY <1>k, <2>2
<1>18. CASE SyncRestart
    <2>1. Text' = Text /\ UNCHANGED <<link, queue>>
        BY <1>18 DEF SyncRestart, Text
    <2>2. CASE Text # <<>> /\ link \notin Range(queue)
        <3>1. StartTimer(link) /\ link \in LogId
            BY <1>18, <2>2, TextLink DEF SyncRestart, RestartTimer
        <3>2. timers'[link] = timers[link] + 1 /\ timers[link] \in Nat
            BY <1>r, <3>1 DEF StartTimer
        <3> QED BY <2>1, <3>2 DEF LinkWaits
    <2>3. CASE ~(Text # <<>> /\ link \notin Range(queue))
        BY <2>1, <2>3 DEF LinkWaits
    <2> QED BY <2>2, <2>3
<1>19. CASE SyncStarted
    <2>1. Text' = Text /\ mode = "init" /\ UNCHANGED <<link, upc, temp, timers, queue>>
        BY <1>19 DEF SyncStarted, Text
    <2> QED BY <2>1 DEF LinkWaits
<1> QED BY <1>1, <1>2, <1>3, <1>4, <1>5, <1>6, <1>7, <1>8, <1>9, <1>10, <1>11, <1>12, <1>13, <1>15,
           <1>16, <1>17, <1>18, <1>19
        DEF SyncNext, Writing, Sending, Acking, Starting

-----------------------------------------------------------------------------
(* The logs are whole: what a crash left in the middle of an entry is at the end *)
(* of the log that is written to, where the update that is made again goes.     *)
NoneSpoiled == ~spoiled /\ done \subseteq Range(made) \union {temp.u}
TornAtEnd ==
  \A n \in DOMAIN logs : \A i \in DOMAIN logs[n] :
    logs[n][i] = Torn => n = link /\ Under /\ i = temp.pos + 1 /\ temp.u \notin Range(made)
EntryAtEnd ==
  /\ upc \in {"logged", "end"} => temp.u \in Range(made)
  /\ Under /\ Len(Text) = temp.pos + 1 =>
       Text[temp.pos + 1] = IF temp.u \in Range(made) THEN temp.u ELSE Torn
  /\ Under /\ temp.u \in Range(made) => Len(Text) = temp.pos + 1
WholeLogs == NoneSpoiled /\ TornAtEnd /\ EntryAtEnd

\* The history of what was logged grows with the update.
LEMMA MadeStep ==
    ASSUME Core, EndEntry
    PROVE  /\ temp.u \in Update /\ Range(made') = Range(made) \union {temp.u}
           /\ made' \in Seq(Update)
           /\ \/ temp.u \in Range(made) /\ made' = made
              \/ temp.u \notin Range(made) /\ made' = Append(made, temp.u)
<1>1. made \in Seq(Update) /\ temp.u \in Update
    BY DEF EndEntry, Going, Core, WriterInv, SyncTypes
<1>2. /\ Append(made, temp.u) \in Seq(Update)
      /\ Range(Append(made, temp.u)) = Range(made) \union {temp.u}
    BY <1>1, RangeAppend
<1> QED BY <1>1, <1>2 DEF EndEntry

LEMMA NoneTorn ==
    ASSUME Core, TornAtEnd, NEW n \in DOMAIN logs, n # link \/ ~Under \/ temp.u \in Range(made)
    PROVE  logs[n] \in Seq(Update) /\ Torn \notin Range(logs[n])
<1>1. PICK s : s = logs[n]
    OBVIOUS
<1>2. s \in Seq(Update \union {Torn})
    BY <1>1 DEF Core, SyncTypes
<1>3. Len(s) \in Nat /\ DOMAIN s = 1..Len(s) /\ \A i \in 1..Len(s) : s[i] \in Update \union {Torn}
    BY <1>2
<1>4. \A i \in 1..Len(s) : s[i] # Torn
    BY <1>1, <1>3 DEF TornAtEnd
<1>5. s = [i \in 1..Len(s) |-> s[i]]
    BY <1>2
<1>6. s \in [1..Len(s) -> Update]
    BY <1>3, <1>4, <1>5
<1>7. s \in Seq(Update)
    BY <1>3, <1>6, SeqDef
<1>8. Torn \notin Range(s)
    BY <1>3, <1>4 DEF Range
<1> QED BY <1>1, <1>7, <1>8

LEMMA NoneSpoiledStep ==
    ASSUME Core, WholeLogs, syncFault # "seen", [SyncNext]_syncVars
    PROVE  NoneSpoiled'
<1> USE DEF WholeLogs, NoneSpoiled
<1>1. ASSUME NEW u \in Update, UpdateStart(u) PROVE NoneSpoiled'
    <2>1. ~Under /\ UNCHANGED <<spoiled, done, made>>
        BY <1>1 DEF UpdateStart, Going, Core, WriterInv
    <2> QED BY <2>1, UnderIs DEF Core
<1>2. CASE UpdateNamed
    BY <1>2, TextStep DEF UpdateNamed, Core, SyncTypes
<1>3. CASE RunUpdate
    BY <1>3 DEF RunUpdate
<1>4. CASE OpenLog \/ LinkLog \/ CreateLog \/ WriteEntry \/ TimerStart
    BY <1>4 DEF OpenLog, LinkLog, CreateLog, WriteEntry, TimerStart
<1>5. CASE EndEntry
    BY <1>5, MadeStep DEF EndEntry
<1>6. CASE UpdateEnd
    BY <1>6 DEF UpdateEnd, Going, EntryAtEnd
<1>7. CASE UpdatePanics
    BY <1>7 DEF UpdatePanics, Going, Core, WriterInv
<1>8. CASE TakeLog
    BY <1>8 DEF TakeLog
<1>9. ASSUME NEW err \in BOOLEAN, SendLog(err) PROVE NoneSpoiled'
    <2>1. Head(chan) \in DOMAIN logs /\ Head(chan) # link
        BY <1>9 DEF SendLog, Core, SenderInv
    <2>2. Torn \notin Range(logs[Head(chan)])
        BY <2>1, NoneTorn
    <2>3. spoiled' = spoiled /\ UNCHANGED <<done, temp, made>>
        BY <1>9, <2>2 DEF SendLog
    <2> QED BY <2>3
<1>10. ASSUME UNCHANGED <<spoiled, done, temp, made>> PROVE NoneSpoiled'
    BY <1>10
<1>11. ASSUME NEW n \in LogId, TimerFires(n) PROVE UNCHANGED <<spoiled, done, temp, made>>
    BY <1>11 DEF TimerFires
<1>12. ASSUME NEW a \in acks, ReadSyncAck(a) PROVE UNCHANGED <<spoiled, done, temp, made>>
    BY <1>12 DEF ReadSyncAck
<1>13. SendMissing \/ Resend \/ DropRecord \/ DropLog \/ DropAck \/ SyncCrash \/ SyncRestart \/ SyncStarted
       \/ UNCHANGED syncVars => UNCHANGED <<spoiled, done, temp, made>>
    BY DEF SendMissing, Resend, DropRecord, DropLog, DropAck, SyncCrash, SyncRestart, SyncStarted, syncVars
<1> QED BY <1>1, <1>2, <1>3, <1>4, <1>5, <1>6, <1>7, <1>8, <1>9, <1>10, <1>11, <1>12, <1>13
        DEF SyncNext, Writing, Sending, Acking, Starting

LEMMA TornStep ==
    ASSUME Core, Position, WholeLogs, syncFault # "seen", [SyncNext]_syncVars
    PROVE  TornAtEnd'
<1> USE DEF WholeLogs
<1>t. /\ temp \in [u : Update \union {NoUpdate}, pos : Nat, named : BOOLEAN]
      /\ DOMAIN logs \subseteq 1..fresh - 1 /\ fresh \in Nat \ {0}
      /\ \A n \in DOMAIN logs : logs[n] \in Seq(Update \union {Torn})
    BY DEF Core, SyncTypes
<1>k. ASSUME ~Under \/ temp.u \in Range(made) \/ link \notin DOMAIN logs,
             DOMAIN logs' \subseteq DOMAIN logs \union {link}, \A n \in DOMAIN logs : logs'[n] = logs[n],
             \A n \in DOMAIN logs' \ DOMAIN logs : logs'[n] = <<>>
      PROVE  TornAtEnd'
    <2>1. \A n \in DOMAIN logs : \A i \in DOMAIN logs[n] : logs[n][i] # Torn
        BY <1>k DEF TornAtEnd
    <2>2. \A n \in DOMAIN logs' : \A i \in DOMAIN logs'[n] : logs'[n][i] # Torn
        <3> SUFFICES ASSUME NEW n \in DOMAIN logs' PROVE \A i \in DOMAIN logs'[n] : logs'[n][i] # Torn
            OBVIOUS
        <3>1. CASE n \in DOMAIN logs
            BY <1>k, <2>1, <3>1
        <3>2. CASE n \notin DOMAIN logs
            <4>1. logs'[n] = <<>> /\ DOMAIN <<>> = {}
                BY <1>k, <3>2
            <4> QED BY <4>1
        <3> QED BY <3>1, <3>2
    <2> QED BY <2>2 DEF TornAtEnd
<1>1. ASSUME NEW u \in Update, UpdateStart(u) PROVE TornAtEnd'
    <2>1. ~Under /\ logs' = logs
        BY <1>1 DEF UpdateStart, Going, Core, WriterInv
    <2> QED BY <1>k, <2>1
<1>2. CASE UpdateNamed
    <2>1. temp'.u = temp.u /\ temp'.pos = temp.pos /\ UNCHANGED <<logs, link, made>>
        BY <1>2, <1>t DEF UpdateNamed
    <2>2. Under => Under'
        <3>1. temp'.named
            BY <1>2, <1>t DEF UpdateNamed
        <3> QED BY <3>1 DEF Under, NoUpdateTemp
    <2> QED BY <2>1, <2>2 DEF TornAtEnd
<1>3. CASE RunUpdate \/ OpenLog \/ TimerStart
    BY <1>3 DEF RunUpdate, OpenLog, TimerStart, TornAtEnd, Under
<1>4. CASE LinkLog
    BY <1>4, <1>k DEF LinkLog
<1>5. CASE CreateLog
    <2>1. link \notin DOMAIN logs
        BY <1>5 DEF CreateLog, Going, Core, WriterInv
    <2>2. /\ DOMAIN logs' = DOMAIN logs \union {link} /\ logs'[link] = <<>>
          /\ \A n \in DOMAIN logs : logs'[n] = logs[n]
        BY <1>5, <2>1 DEF CreateLog
    <2> QED BY <1>k, <2>1, <2>2
<1>6. CASE WriteEntry
    <2>1. /\ link \in DOMAIN logs /\ Under /\ UNCHANGED <<temp, link, made>>
          /\ DOMAIN logs' = DOMAIN logs /\ \A n \in DOMAIN logs : n # link => logs'[n] = logs[n]
        BY <1>6 DEF WriteEntry, WriteAt, Going, Core, WriterInv
    <2>2. Text = logs[link] /\ Text' = logs'[link]
        BY <2>1 DEF Text
    <2>3. CASE Text' = Text
        <3>1. \A n \in DOMAIN logs : logs'[n] = logs[n]
            BY <2>1, <2>2, <2>3
        <3> QED BY <2>1, <3>1 DEF TornAtEnd, Under
    <2>4. CASE Len(Text) = temp.pos /\ Text' = Append(Text, Torn)
        <3>1. temp.u \notin Range(made)
            BY <1>t, <2>1, <2>4 DEF EntryAtEnd
        <3>2. /\ DOMAIN Text = 1..temp.pos /\ DOMAIN Text' = 1..(temp.pos + 1)
              /\ \A i \in 1..temp.pos : Text'[i] = Text[i]
            BY <2>4, TextIs
        <3>3. \A i \in DOMAIN Text' : Text'[i] = Torn => i = temp.pos + 1
            <4>1. \A i \in 1..temp.pos : Text[i] = Torn => i = temp.pos + 1
                <5>1. \A i \in DOMAIN Text : Text[i] = Torn => i = temp.pos + 1
                    BY <2>1, <2>2 DEF TornAtEnd
                <5> QED BY <3>2, <5>1
            <4>2. \A i \in 1..(temp.pos + 1) : i \in 1..temp.pos \/ i = temp.pos + 1
                BY <1>t
            <4> QED BY <3>2, <4>1, <4>2
        <3> QED BY <2>1, <2>2, <3>1, <3>3 DEF TornAtEnd, Under
    <2> QED BY <1>6, <2>3, <2>4, TextStep
<1>7. CASE EndEntry
    <2>1. /\ link \in DOMAIN logs /\ UNCHANGED <<temp, link>> /\ temp.u \in Update
          /\ DOMAIN logs' = DOMAIN logs /\ \A n \in DOMAIN logs : n # link => logs'[n] = logs[n]
        BY <1>7, MadeStep DEF EndEntry, Going, Core, WriterInv
    <2>2. Text = logs[link] /\ Text' = logs'[link]
        BY <2>1 DEF Text
    <2>3. /\ DOMAIN Text = 1..Len(Text) /\ DOMAIN Text' = 1..Len(Text)
          /\ \A i \in 1..Len(Text) : Text'[i] = IF i = temp.pos + 1 THEN temp.u ELSE Text[i]
        <3>1. Core'
            BY CoreStep
        <3>2. DOMAIN Text' = 1..Len(Text')
            <4>1. DOMAIN Text = 1..Len(Text)
                BY TextIs
            <4>2. Text' = [Text EXCEPT ![temp.pos + 1] = temp.u]
                BY <1>7, <2>1, <2>2 DEF EndEntry
            <4> QED BY <1>7, <4>1, <4>2, TextStep
        <3> QED BY <1>7, <3>2, TextIs, TextStep
    <2>4. \A i \in 1..Len(Text) : Text'[i] # Torn
        <3>1. \A i \in 1..Len(Text) : Text[i] = Torn => i = temp.pos + 1
            BY <2>1, <2>2, <2>3 DEF TornAtEnd
        <3> QED BY <2>1, <2>3, <3>1
    <2>5. \A n \in DOMAIN logs : n # link => \A i \in DOMAIN logs[n] : logs[n][i] # Torn
        BY DEF TornAtEnd
    <2> QED BY <2>1, <2>2, <2>3, <2>4, <2>5 DEF TornAtEnd
<1>8. CASE UpdateEnd
    <2>1. temp.u \in Range(made) /\ logs' = logs
        BY <1>8 DEF UpdateEnd, Going, EntryAtEnd
    <2> QED BY <1>k, <2>1
<1>9. CASE UpdatePanics
    BY <1>9 DEF UpdatePanics, Going, Core, WriterInv
<1>10. CASE TakeLog
    <2>1. ~Under /\ logs' = logs
        BY <1>10 DEF TakeLog, Core, WriterInv
    <2> QED BY <1>k, <2>1
<1>11. CASE Elsewhere
    <2>1. Under' <=> Under
        BY <1>11, TextElsewhere
    <2> QED BY <1>11, <2>1 DEF Elsewhere, TornAtEnd
<1> QED BY <1>1, <1>2, <1>3, <1>4, <1>5, <1>6, <1>7, <1>8, <1>9, <1>10, <1>11, WriterOrElse DEF Writing

LEMMA EntryStep ==
    ASSUME Core, Position, WholeLogs, syncFault # "seen", [SyncNext]_syncVars
    PROVE  EntryAtEnd'
<1> USE DEF WholeLogs
<1>t. /\ temp \in [u : Update \union {NoUpdate}, pos : Nat, named : BOOLEAN] /\ temp.pos \in Nat
      /\ Len(Text) \in Nat /\ Text \in Seq(Update \union {Torn}) /\ Range(made) \subseteq done
    BY TextIs DEF Core, SyncTypes, WriterInv
<1>1. ASSUME NEW u \in Update, UpdateStart(u) PROVE EntryAtEnd'
    <2>1. upc' = "written" /\ temp'.u \notin done /\ made' = made
        BY <1>1 DEF UpdateStart, Going
    <2>2. Text' = Text /\ temp'.pos = Len(Text)
        BY <1>1, TextStep
    <2> QED BY <1>t, <2>1, <2>2 DEF EntryAtEnd
<1>2. CASE UpdateNamed
    <2>1. Under /\ upc' = "ready" /\ made' = made
        BY <1>2 DEF UpdateNamed, Going, Core, WriterInv
    <2>2. Text' = Text /\ temp'.u = temp.u /\ temp'.pos = temp.pos
        BY <1>2, TextStep
    <2> QED BY <2>1, <2>2 DEF EntryAtEnd
<1>3. CASE RunUpdate \/ OpenLog \/ TimerStart
    <2>1. (upc' \notin {"logged", "end"} \/ upc = "logged") /\ made' = made
        BY <1>3 DEF RunUpdate, OpenLog, TimerStart, Going
    <2>2. Text' = Text /\ temp' = temp /\ (Under' <=> Under)
        BY <1>3, TextStep DEF Under
    <2> QED BY <2>1, <2>2 DEF EntryAtEnd
<1>4. CASE LinkLog \/ CreateLog
    <2>1. upc' \in {"linked", "opened"} /\ made' = made
        BY <1>4 DEF LinkLog, CreateLog, Going
    <2>2. Text' = Text /\ temp' = temp /\ (Under' <=> Under)
        BY <1>4, TextStep DEF Under
    <2> QED BY <2>1, <2>2 DEF EntryAtEnd
<1>5. CASE WriteEntry
    <2>1. Under /\ upc' = "writing" /\ UNCHANGED <<temp, made>>
        BY <1>5 DEF WriteEntry, Going, Core, WriterInv
    <2>2. CASE Len(Text) = temp.pos /\ Text' = Append(Text, Torn)
        <3>1. temp.u \notin Range(made)
            BY <1>t, <2>1, <2>2 DEF EntryAtEnd
        <3>2. Len(Text') = temp.pos + 1 /\ Text'[temp.pos + 1] = Torn
            BY <1>t, <2>2
        <3> QED BY <2>1, <3>1, <3>2 DEF EntryAtEnd
    <2>3. CASE Text' = Text
        BY <2>1, <2>3 DEF EntryAtEnd
    <2> QED BY <1>5, <2>2, <2>3, TextStep
<1>6. CASE EndEntry
    <2>1. upc = "writing" /\ temp' = temp /\ temp.u \in Range(made')
        BY <1>6, MadeStep DEF EndEntry, Going
    <2>2. Len(Text) = temp.pos + 1
        BY <2>1 DEF Position
    <2>3. Len(Text') = temp.pos + 1 /\ Text'[temp.pos + 1] = temp.u
        <3>1. temp.pos + 1 \in 1..Len(Text)
            BY <1>t, <2>2
        <3> QED BY <1>6, <2>2, <3>1, TextStep
    <2> QED BY <2>1, <2>3 DEF EntryAtEnd
<1>7. CASE UpdateEnd \/ UpdatePanics
    <2>1. upc' = "idle" /\ ~Under'
        BY <1>7, TextStep DEF UpdateEnd, UpdatePanics, Going
    <2> QED BY <2>1 DEF EntryAtEnd
<1>8. CASE TakeLog
    <2>1. upc' = "idle" /\ ~Under /\ temp' = temp
        BY <1>8 DEF TakeLog, Core, WriterInv
    <2> QED BY <2>1 DEF EntryAtEnd, Under
<1>9. CASE Elsewhere
    <2>1. Text' = Text /\ (Under' <=> Under) /\ temp' = temp /\ made' = made
        BY <1>9, TextElsewhere DEF Elsewhere
    <2>2. upc' \in {"logged", "end"} => upc' = upc
        BY <1>9 DEF Elsewhere
    <2> QED BY <2>1, <2>2 DEF EntryAtEnd
<1> QED BY <1>1, <1>2, <1>3, <1>4, <1>5, <1>6, <1>7, <1>8, <1>9, WriterOrElse DEF Writing

LEMMA WholeStep ==
    ASSUME Core, Position, WholeLogs, syncFault # "seen", [SyncNext]_syncVars
    PROVE  WholeLogs'
BY NoneSpoiledStep, TornStep, EntryStep DEF WholeLogs

-----------------------------------------------------------------------------
(* The order of what is sent.  The log that is written to holds the last of what *)
(* was logged, as far as it is whole; there is at most one other log with updates *)
(* the replicas do not have, it holds those before, and goes first.             *)
Whole == IF Under /\ temp.u \notin Range(made) /\ Len(Text) = temp.pos + 1 THEN temp.pos ELSE Len(Text)
Rest == Len(made) - Whole

Distinct == \A i, j \in 1..Len(made) : made[i] = made[j] => i = j
LinkTail == Whole <= Len(made) /\ \A i \in 1..Whole : Text[i] = made[Rest + i]

LEMMA WholeIs ==
    ASSUME Core
    PROVE  /\ Whole \in Nat /\ Whole <= Len(Text) /\ Len(made) \in Nat /\ Rest \in Int
           /\ made \in Seq(Update) /\ Rest + Whole = Len(made)
<1>1. made \in Seq(Update) /\ Len(made) \in Nat
    BY DEF Core, SyncTypes
<1>2. Len(Text) \in Nat /\ temp.pos \in Nat
    BY TextIs
<1>3. Whole \in Nat /\ Whole <= Len(Text)
    BY <1>2 DEF Whole
<1> QED BY <1>1, <1>3 DEF Rest

\* But for the log that is taken, the end of what was logged stays where it was.
LEMMA TailStep ==
    ASSUME Core, Position, WholeLogs, Distinct, LinkTail, syncFault # "seen", [SyncNext]_syncVars,
           ~(TakeLog /\ link = Head(chan))
    PROVE  /\ LinkTail' /\ Distinct' /\ Rest' = Rest /\ Len(made) <= Len(made')
           /\ \A i \in 1..Len(made) : made'[i] = made[i]
<1>t. /\ Whole \in Nat /\ Whole <= Len(Text) /\ Len(made) \in Nat /\ Len(Text) \in Nat /\ temp.pos \in Nat
      /\ made \in Seq(Update) /\ Text \in Seq(Update \union {Torn}) /\ Rest + Whole = Len(made) /\ Rest \in Int
    BY WholeIs, TextIs
<1>k. ASSUME made' = made, Whole' = Whole, \A i \in 1..Whole : Text'[i] = Text[i]
      PROVE  /\ LinkTail' /\ Distinct' /\ Rest' = Rest /\ Len(made) <= Len(made')
             /\ \A i \in 1..Len(made) : made'[i] = made[i]
    <2>1. Rest' = Rest
        BY <1>k DEF Rest
    <2> QED BY <1>k, <1>t, <2>1 DEF LinkTail, Distinct
<1>s. ASSUME made' = made, Text' = Text,
             (Under' /\ temp'.u \notin Range(made) /\ Len(Text) = temp'.pos + 1)
                <=> (Under /\ temp.u \notin Range(made) /\ Len(Text) = temp.pos + 1),
             Under /\ Under' => temp'.pos = temp.pos
      PROVE  /\ LinkTail' /\ Distinct' /\ Rest' = Rest /\ Len(made) <= Len(made')
             /\ \A i \in 1..Len(made) : made'[i] = made[i]
    <2>1. Whole' = Whole
        BY <1>s DEF Whole
    <2> QED BY <1>k, <1>s, <2>1
<1>1. ASSUME NEW u \in Update, UpdateStart(u)
      PROVE  /\ LinkTail' /\ Distinct' /\ Rest' = Rest /\ Len(made) <= Len(made')
             /\ \A i \in 1..Len(made) : made'[i] = made[i]
    <2>1. ~Under /\ made' = made
        BY <1>1 DEF UpdateStart, Going, Core, WriterInv
    <2>2. Text' = Text /\ temp'.pos = Len(Text)
        BY <1>1, TextStep
    <2>3. Len(Text) # temp'.pos + 1
        BY <1>t, <2>2
    <2> QED BY <1>s, <2>1, <2>2, <2>3
<1>2. CASE UpdateNamed \/ RunUpdate \/ OpenLog \/ TimerStart
    <2>1. made' = made
        BY <1>2 DEF UpdateNamed, RunUpdate, OpenLog, TimerStart
    <2>2. Text' = Text /\ temp'.u = temp.u /\ temp'.pos = temp.pos
        BY <1>2, TextStep
    <2>3. Under <=> Under'
        <3>1. CASE UpdateNamed
            <4>1. temp'.named = TRUE
                BY <3>1 DEF UpdateNamed, Core, SyncTypes
            <4> QED BY <3>1, <4>1 DEF UpdateNamed, Going, Core, WriterInv, Under, NoUpdateTemp
        <3>2. CASE ~UpdateNamed
            BY <1>2, <3>2, TextStep DEF Under
        <3> QED BY <3>1, <3>2
    <2> QED BY <1>s, <2>1, <2>2, <2>3
<1>3. CASE LinkLog \/ CreateLog
    <2>1. made' = made
        BY <1>3 DEF LinkLog, CreateLog
    <2>2. Text' = Text /\ temp' = temp /\ (Under' <=> Under)
        BY <1>3, TextStep DEF Under
    <2> QED BY <1>s, <2>1, <2>2
<1>4. CASE WriteEntry
    <2>1. Under /\ UNCHANGED <<temp, made>> /\ Under'
        BY <1>4 DEF WriteEntry, Going, Core, WriterInv, Under
    <2>2. CASE Len(Text) = temp.pos /\ Text' = Append(Text, Torn)
        <3>1. temp.u \notin Range(made)
            BY <1>t, <2>1, <2>2 DEF WholeLogs, EntryAtEnd
        <3>2. Len(Text') = temp.pos + 1 /\ \A i \in 1..temp.pos : Text'[i] = Text[i]
            BY <1>t, <2>2
        <3>3. Whole = temp.pos /\ Whole' = temp.pos
            BY <1>t, <2>1, <2>2, <3>1, <3>2 DEF Whole
        <3> QED BY <1>k, <2>1, <3>2, <3>3
    <2>3. CASE Text' = Text
        BY <1>s, <2>1, <2>3
    <2> QED BY <1>4, <2>2, <2>3, TextStep
<1>5. CASE EndEntry
    <2>1. /\ upc = "writing" /\ temp' = temp /\ Under /\ Under'
        BY <1>5 DEF EndEntry, Going, Core, WriterInv, Under
    <2>2. Len(Text) = temp.pos + 1
        BY <2>1 DEF Position
    <2>3. /\ Len(Text') = temp.pos + 1
          /\ \A i \in 1..(temp.pos + 1) : Text'[i] = IF i = temp.pos + 1 THEN temp.u ELSE Text[i]
        BY <1>5, <2>2, TextStep
    <2>4. temp.u \in Range(made')
        BY <1>5, MadeStep
    <2>5. Whole' = temp.pos + 1
        BY <2>1, <2>3, <2>4 DEF Whole
    <2>6. CASE temp.u \in Range(made) /\ made' = made
        <3>1. Whole = temp.pos + 1
            BY <2>2, <2>6 DEF Whole
        <3>2. Text[temp.pos + 1] = temp.u
            BY <2>1, <2>2, <2>6 DEF WholeLogs, EntryAtEnd
        <3>3. \A i \in 1..Whole : Text'[i] = Text[i]
            BY <2>3, <3>1, <3>2
        <3> QED BY <1>k, <2>5, <2>6, <3>1, <3>3
    <2>7. CASE temp.u \notin Range(made) /\ made' = Append(made, temp.u)
        <3>1. Whole = temp.pos
            BY <2>1, <2>2, <2>7 DEF Whole
        <3>2. temp.u \in Update
            BY <1>5, MadeStep
        <3>3. /\ Len(made') = Len(made) + 1 /\ made'[Len(made) + 1] = temp.u
              /\ \A i \in 1..Len(made) : made'[i] = made[i]
            BY <1>t, <2>7, <3>2
        <3>4. Rest' = Rest
            <4>1. Rest' = (Len(made) + 1) - (temp.pos + 1)
                BY <2>5, <3>3 DEF Rest
            <4>2. Rest = Len(made) - temp.pos
                BY <3>1 DEF Rest
            <4>3. (Len(made) + 1) - (temp.pos + 1) = Len(made) - temp.pos
                BY <1>t
            <4> QED BY <4>1, <4>2, <4>3
        <3>5. \A i \in 1..Len(made) : made[i] # temp.u
            BY <1>t, <2>7 DEF Range
        <3>6. Distinct'
            <4> SUFFICES ASSUME NEW i \in 1..(Len(made) + 1), NEW j \in 1..(Len(made) + 1), made'[i] = made'[j]
                         PROVE  i = j
                BY <3>3 DEF Distinct
            <4>1. (i \in 1..Len(made) \/ i = Len(made) + 1) /\ (j \in 1..Len(made) \/ j = Len(made) + 1)
                BY <1>t
            <4> QED BY <3>3, <3>5, <4>1 DEF Distinct
        <3>7. LinkTail'
            <4> SUFFICES ASSUME NEW i \in 1..(temp.pos + 1) PROVE Text'[i] = made'[Rest + i]
                BY <1>t, <2>5, <3>1, <3>3, <3>4 DEF LinkTail
            <4>1. CASE i = temp.pos + 1
                <5>1. Rest + i = Len(made) + 1
                    <6>1. Rest = Len(made) - temp.pos
                        BY <3>1 DEF Rest
                    <6> QED BY <1>t, <4>1, <6>1, SMTT(30)
                <5> QED BY <2>3, <3>3, <4>1, <5>1
            <4>2. CASE i # temp.pos + 1
                <5>1. i \in 1..temp.pos /\ Rest + i \in 1..Len(made)
                    BY <1>t, <3>1, <4>2 DEF LinkTail
                <5>2. Text'[i] = Text[i]
                    BY <2>3, <4>2
                <5>3. Text[i] = made[Rest + i]
                    BY <3>1, <5>1 DEF LinkTail
                <5> QED BY <3>3, <5>1, <5>2, <5>3
            <4> QED BY <4>1, <4>2
        <3> QED BY <1>t, <3>3, <3>4, <3>6, <3>7
    <2> QED BY <1>5, <2>6, <2>7, MadeStep
<1>6. CASE UpdateEnd
    <2>1. temp.u \in Range(made) /\ made' = made
        BY <1>6 DEF UpdateEnd, Going, WholeLogs, EntryAtEnd
    <2>2. Text' = Text /\ ~Under'
        BY <1>6, TextStep
    <2> QED BY <1>s, <2>1, <2>2
<1>7. CASE UpdatePanics
    BY <1>7 DEF UpdatePanics, Going, Core, WriterInv
<1>8. CASE TakeLog
    <2>1. made' = made
        BY <1>8 DEF TakeLog
    <2>2. Text' = Text /\ temp' = temp /\ (Under' <=> Under)
        BY <1>8, TextStep DEF Under
    <2> QED BY <1>s, <2>1, <2>2
<1>9. CASE Elsewhere
    BY <1>9, <1>s, TextElsewhere DEF Elsewhere
<1> QED BY <1>1, <1>2, <1>3, <1>4, <1>5, <1>6, <1>7, <1>8, <1>9, WriterOrElse DEF Writing

-----------------------------------------------------------------------------
(* The one log that was taken and not sent, if there is one *)
Sent(n) == Range(logs[n]) \subseteq Range(got)
Unsent == {n \in DOMAIN logs \ {link} : ~Sent(n)}

OneUnsent == \A m, n \in Unsent : m = n
\* It is before the log that is written to wherever logs wait.
GoesFirst ==
  \A n \in Unsent : /\ n \in Range(queue) /\ Before(queue, n, link)
                    /\ mode = "up" => n \in Range(chan) /\ Before(chan, n, link)
\* What is answered was sent.
AnswersSent ==
  /\ \A a \in acks : a.log \in DOMAIN logs => Sent(a.log)
  /\ acking \in DOMAIN logs => Sent(acking)
  /\ spc = "await" /\ Head(chan) \in DOMAIN logs => Sent(Head(chan))
InTurn == OneUnsent /\ GoesFirst /\ AnswersSent

GotPrefix == got \in Seq(Update) /\ Len(got) <= Len(made) /\ \A i \in 1..Len(got) : got[i] = made[i]
UnsentNext ==
  /\ Unsent = {} => Len(got) = Rest
  /\ \A n \in Unsent : /\ Len(got) + Len(logs[n]) = Rest
                       /\ \A i \in 1..Len(logs[n]) : logs[n][i] = made[Len(got) + i]
Segments == Distinct /\ LinkTail /\ GotPrefix /\ UnsentNext

LEMMA RangeConcat ==
    ASSUME NEW S, NEW s \in Seq(S), NEW t \in Seq(S)
    PROVE  /\ s \o t \in Seq(S) /\ Len(s \o t) = Len(s) + Len(t)
           /\ \A i \in 1..Len(s) : (s \o t)[i] = s[i]
           /\ \A i \in 1..Len(t) : (s \o t)[Len(s) + i] = t[i]
           /\ Range(s \o t) = Range(s) \union Range(t)
<1>1. PICK c : c = s \o t
    OBVIOUS
<1>2. /\ Len(s) \in Nat /\ Len(t) \in Nat /\ DOMAIN s = 1..Len(s) /\ DOMAIN t = 1..Len(t)
      /\ c \in Seq(S) /\ Len(c) = Len(s) + Len(t) /\ DOMAIN c = 1..(Len(s) + Len(t))
    BY <1>1
<1>3. \A i \in 1..Len(s) : c[i] = s[i]
    BY <1>1
<1>4. \A i \in 1..Len(t) : c[Len(s) + i] = t[i]
    BY <1>1, <1>2
<1>5. Range(s) \subseteq Range(c)
    BY <1>2, <1>3 DEF Range
<1>6. Range(t) \subseteq Range(c)
    <2> SUFFICES ASSUME NEW i \in 1..Len(t) PROVE t[i] \in Range(c)
        BY <1>2 DEF Range
    <2>1. Len(s) + i \in 1..(Len(s) + Len(t))
        BY <1>2
    <2> QED BY <1>2, <1>4, <2>1 DEF Range
<1>7. Range(c) \subseteq Range(s) \union Range(t)
    <2> SUFFICES ASSUME NEW i \in 1..(Len(s) + Len(t)) PROVE c[i] \in Range(s) \union Range(t)
        BY <1>2 DEF Range
    <2>1. CASE i <= Len(s)
        <3>1. i \in 1..Len(s)
            BY <1>2, <2>1
        <3> QED BY <1>2, <1>3, <3>1 DEF Range
    <2>2. CASE i > Len(s)
        <3>1. i - Len(s) \in 1..Len(t) /\ Len(s) + (i - Len(s)) = i
            BY <1>2, <2>2
        <3> QED BY <1>2, <1>4, <3>1 DEF Range
    <2> QED BY <1>2, <2>1, <2>2
<1> QED BY <1>1, <1>2, <1>3, <1>4, <1>5, <1>6, <1>7

\* No step changes a log that is not written to; the one that is acked goes.
LEMMA LogsStep ==
    ASSUME Core, [SyncNext]_syncVars
    PROVE  /\ \A n \in DOMAIN logs' : n # link' => n \in DOMAIN logs /\ logs'[n] = logs[n]
           /\ \A n \in DOMAIN logs : n # acking => n \in DOMAIN logs'
           /\ \A n \in DOMAIN logs : n # link => n \notin DOMAIN logs' \/ logs'[n] = logs[n]
           /\ \/ link' = link
              \/ LinkLog /\ link \notin DOMAIN logs /\ link' = fresh /\ fresh \notin DOMAIN logs
              \/ TakeLog /\ link = Head(chan) /\ link' = 0
<1>t. DOMAIN logs \subseteq 1..fresh - 1 /\ fresh \in Nat \ {0} /\ fresh \notin DOMAIN logs
    BY DEF Core, SyncTypes
<1> DEFINE G == /\ \A n \in DOMAIN logs' : n # link' => n \in DOMAIN logs /\ logs'[n] = logs[n]
                /\ \A n \in DOMAIN logs : n # acking => n \in DOMAIN logs'
                /\ \A n \in DOMAIN logs : n # link => n \notin DOMAIN logs' \/ logs'[n] = logs[n]
                /\ \/ link' = link
                   \/ LinkLog /\ link \notin DOMAIN logs /\ link' = fresh /\ fresh \notin DOMAIN logs
                   \/ TakeLog /\ link = Head(chan) /\ link' = 0
<1>1. CASE CreateLog
    BY <1>1 DEF CreateLog
<1>2. CASE WriteEntry
    BY <1>2 DEF WriteEntry, WriteAt
<1>3. CASE EndEntry
    BY <1>3 DEF EndEntry
<1>4. CASE LinkLog
    BY <1>4, <1>t DEF LinkLog
<1>5. CASE TakeLog
    BY <1>5 DEF TakeLog
<1>6. CASE DropLog
    BY <1>6 DEF DropLog
<1>7. CASE UNCHANGED <<link, logs>>
    BY <1>7
<1>8. ASSUME NEW u \in Update, UpdateStart(u) PROVE G
    BY <1>8, <1>7 DEF UpdateStart
<1>9. ASSUME NEW n \in LogId, TimerFires(n) PROVE G
    BY <1>9, <1>7 DEF TimerFires
<1>10. ASSUME NEW a \in acks, ReadSyncAck(a) PROVE G
    BY <1>10, <1>7 DEF ReadSyncAck
<1>11. ASSUME NEW err \in BOOLEAN, SendLog(err) PROVE G
    BY <1>11, <1>7 DEF SendLog
<1>12. UpdateNamed \/ RunUpdate \/ OpenLog \/ TimerStart \/ UpdateEnd \/ UpdatePanics
         => UNCHANGED <<link, logs>>
    BY DEF UpdateNamed, RunUpdate, OpenLog, TimerStart, UpdateEnd, UpdatePanics
<1>13. SendMissing \/ Resend \/ DropRecord \/ DropAck \/ SyncCrash \/ SyncRestart \/ SyncStarted
       \/ UNCHANGED syncVars => UNCHANGED <<link, logs>>
    BY DEF SendMissing, Resend, DropRecord, DropAck, SyncCrash, SyncRestart, SyncStarted, syncVars
<1> HIDE DEF G
<1>14. G
    BY <1>1, <1>2, <1>3, <1>4, <1>5, <1>6, <1>7, <1>8, <1>9, <1>10, <1>11, <1>12, <1>13
        DEF SyncNext, Writing, Sending, Acking, Starting, G
<1> QED BY <1>14 DEF G

LEMMA UnsentSame ==
    ASSUME Core, AnswersSent, got' = got, [SyncNext]_syncVars, ~(TakeLog /\ link = Head(chan))
    PROVE  /\ Unsent' = Unsent
           /\ \A n \in Unsent : n \in DOMAIN logs /\ n # link /\ logs'[n] = logs[n]
           /\ \A n \in DOMAIN logs' : n # link /\ n \in DOMAIN logs /\ Sent(n) => Sent(n)'
<1>1. ASSUME NEW n \in Unsent' PROVE n \in Unsent
    <2>1. n \in DOMAIN logs' /\ n # link' /\ ~(Range(logs'[n]) \subseteq Range(got))
        BY <1>1 DEF Unsent, Sent
    <2>2. n \in DOMAIN logs /\ logs'[n] = logs[n]
        BY <2>1, LogsStep
    <2>3. n # link
        BY <2>1, <2>2, LogsStep
    <2> QED BY <2>1, <2>2, <2>3 DEF Unsent, Sent
<1>2. ASSUME NEW n \in Unsent PROVE n \in Unsent' /\ n \in DOMAIN logs /\ n # link /\ logs'[n] = logs[n]
    <2>1. n \in DOMAIN logs /\ n # link /\ ~(Range(logs[n]) \subseteq Range(got)) /\ ~Sent(n)
        BY <1>2 DEF Unsent, Sent
    <2>2. n # acking
        BY <2>1 DEF AnswersSent
    <2>3. n \in DOMAIN logs' /\ logs'[n] = logs[n]
        BY <2>1, <2>2, LogsStep
    <2>4. n # link'
        BY <2>1, LogsStep
    <2> QED BY <2>1, <2>3, <2>4 DEF Unsent, Sent
<1>3. ASSUME NEW n \in DOMAIN logs', n # link, n \in DOMAIN logs, Sent(n) PROVE Sent(n)'
    <2>1. logs'[n] = logs[n]
        BY <1>3, LogsStep
    <2> QED BY <1>3, <2>1 DEF Sent
<1> QED BY <1>1, <1>2, <1>3

\* What is sent: the log that was taken and not sent, or nothing new.
LEMMA SendStep ==
    ASSUME Core, WholeLogs, OneUnsent, Segments, NEW err \in BOOLEAN, SendLog(err)
    PROVE  /\ Head(chan) \in DOMAIN logs /\ Head(chan) # link /\ UNCHANGED <<logs, link>>
           /\ got' \in Seq(Update) /\ Range(got) \subseteq Range(got')
           /\ Range(logs[Head(chan)]) \subseteq Range(got')
           /\ Unsent' = Unsent \ {Head(chan)}
           /\ \/ Head(chan) \notin Unsent /\ got' = got
              \/ /\ Head(chan) \in Unsent /\ got' = got \o logs[Head(chan)]
                 /\ logs[Head(chan)] \in Seq(Update) /\ logs[Head(chan)] # <<>>
<1> DEFINE h == Head(chan)
<1> USE DEF Segments, GotPrefix
<1>1. h \in DOMAIN logs /\ h # link /\ UNCHANGED <<logs, link>>
    BY DEF SendLog, Core, SenderInv
<1>2. PICK text : text = logs[h]
    OBVIOUS
<1>3. text \in Seq(Update) /\ Torn \notin Range(text)
    BY <1>1, <1>2, NoneTorn DEF WholeLogs
<1>4. got' = got \o NewUpdates(text)
    BY <1>2, <1>3 DEF SendLog
<1>5. Sent(h) <=> Range(text) \subseteq Range(got)
    BY <1>2 DEF Sent
<1>6. h \in Unsent <=> ~Sent(h)
    BY <1>1 DEF Unsent
<1>7. Len(got) \in Nat /\ Len(text) \in Nat /\ Len(made) \in Nat /\ made \in Seq(Update)
      /\ Whole \in Nat /\ Rest + Whole = Len(made) /\ Rest \in Int
    BY <1>3, WholeIs
<1> HIDE DEF h
<1>8. CASE h \notin Unsent
    <2>1. NewUpdates(text) = <<>>
        BY <1>3, <1>5, <1>6, <1>8, NewUpdatesOf
    <2>2. got' = got
        BY <1>4, <2>1
    <2>3. Unsent' = Unsent
        BY <1>1, <2>2 DEF Unsent, Sent
    <2> QED BY <1>1, <1>2, <1>5, <1>6, <1>8, <2>2, <2>3 DEF h
<1>9. CASE h \in Unsent
    <2>1. /\ Len(got) + Len(text) = Rest
          /\ \A i \in 1..Len(text) : text[i] = made[Len(got) + i]
        BY <1>2, <1>9 DEF UnsentNext
    <2>2. Range(text) \intersect Range(got) = {}
        <3> SUFFICES ASSUME NEW i \in 1..Len(text), NEW j \in 1..Len(got), text[i] = got[j] PROVE FALSE
            BY <1>3 DEF Range
        <3>1. made[Len(got) + i] = made[j]
            BY <2>1
        <3>2. Len(got) + i \in 1..Len(made) /\ j \in 1..Len(made) /\ Len(got) + i # j
            BY <1>7, <2>1
        <3> QED BY <3>1, <3>2 DEF Distinct
    <2>3. got' = got \o text
        BY <1>3, <1>4, <2>2, NewUpdatesOf
    <2>4. got' \in Seq(Update) /\ Range(got') = Range(got) \union Range(text)
        BY <1>3, <2>3, RangeConcat
    <2>5. Unsent = {h}
        BY <1>9 DEF OneUnsent
    <2>6. Unsent' = {}
        <3> SUFFICES ASSUME NEW n \in Unsent' PROVE FALSE
            OBVIOUS
        <3>1. n \in DOMAIN logs /\ n # link /\ ~(Range(logs[n]) \subseteq Range(got'))
            BY <1>1 DEF Unsent, Sent
        <3>2. n \in Unsent
            BY <2>4, <3>1 DEF Unsent, Sent
        <3>3. n = h
            BY <2>5, <3>2
        <3> QED BY <1>2, <2>4, <3>1, <3>3
    <2>7. text # <<>>
        BY <1>5, <1>6, <1>9, RangeEmpty
    <2> QED BY <1>1, <1>2, <1>3, <1>9, <2>3, <2>4, <2>5, <2>6, <2>7 DEF h
<1> QED BY <1>8, <1>9

\* When the log that is written to is taken, the replicas have all logs before it.
LEMMA TakeStep ==
    ASSUME Core, InTurn, TakeLog, link = Head(chan)
    PROVE  /\ Unsent = {} /\ Unsent' \subseteq {link} /\ link' = 0 /\ link # 0 /\ ~Under
           /\ link \in DOMAIN logs /\ ~Sent(link) => Unsent' = {link}
           /\ link \in DOMAIN logs /\ Sent(link) => Unsent' = {}
           /\ link \notin DOMAIN logs => Unsent' = {}
           /\ UNCHANGED <<logs, got, made, mode, queue, chan>>
           /\ link \in Range(queue) /\ link \in Range(chan)
<1>1. /\ mode = "up" /\ chan # <<>> /\ link' = 0 /\ upc = "idle"
      /\ UNCHANGED <<logs, got, made, mode, queue, chan>>
    BY DEF TakeLog
<1>2. chan \in Seq(Nat) /\ Range(chan) \subseteq 1..fresh - 1 /\ DOMAIN logs \subseteq 1..fresh - 1
    BY DEF Core, SyncTypes
<1>3. Head(chan) \in Range(chan) /\ 1 \in DOMAIN chan /\ chan[1] = Head(chan)
    BY <1>1, <1>2, TailRange
<1>4. ASSUME NEW n \in Unsent PROVE FALSE
    <2>1. Before(chan, n, link)
        BY <1>1, <1>4 DEF InTurn, GoesFirst
    <2>2. \E j \in 1..(1 - 1) : chan[j] = n
        BY <1>3, <2>1 DEF Before
    <2> QED BY <2>2
<1>5. 0 \notin DOMAIN logs
    BY <1>2
<1>6. Unsent' = {n \in DOMAIN logs : ~Sent(n)}
    BY <1>1, <1>5 DEF Unsent, Sent
<1>7. {n \in DOMAIN logs : ~Sent(n)} \subseteq {link}
    BY <1>4 DEF Unsent
<1>8. link \in Range(queue)
    BY <1>3 DEF Core, SenderInv
<1>9. link # 0 /\ ~Under
    BY <1>1, <1>2, <1>3 DEF Core, WriterInv
<1> QED BY <1>1, <1>3, <1>4, <1>6, <1>7, <1>8, <1>9

LEMMA GotKept ==
    ASSUME [SyncNext]_syncVars
    PROVE  got' = got \/ \E err \in BOOLEAN : SendLog(err)
<1>1. ASSUME NEW u \in Update, UpdateStart(u) PROVE got' = got
    BY <1>1 DEF UpdateStart
<1>2. Writing => got' = got
    BY DEF Writing, UpdateNamed, RunUpdate, OpenLog, LinkLog, CreateLog, WriteEntry, EndEntry, TimerStart,
           UpdateEnd, UpdatePanics
<1>3. ASSUME NEW n \in LogId, TimerFires(n) PROVE got' = got
    BY <1>3 DEF TimerFires
<1>4. ASSUME NEW a \in acks, ReadSyncAck(a) PROVE got' = got
    BY <1>4 DEF ReadSyncAck
<1>5. TakeLog \/ SendMissing \/ Resend \/ DropRecord \/ DropLog \/ DropAck \/ SyncCrash \/ SyncRestart
      \/ SyncStarted \/ UNCHANGED syncVars => got' = got
    BY DEF TakeLog, SendMissing, Resend, DropRecord, DropLog, DropAck, SyncCrash, SyncRestart, SyncStarted,
           syncVars
<1> QED BY <1>1, <1>2, <1>3, <1>4, <1>5 DEF SyncNext, Sending, Acking, Starting

LEMMA OneUnsentStep ==
    ASSUME Core, Position, WholeLogs, InTurn, Segments, [SyncNext]_syncVars
    PROVE  OneUnsent'
<1> USE DEF InTurn
<1>1. ASSUME NEW err \in BOOLEAN, SendLog(err) PROVE OneUnsent'
    <2>1. Unsent' \subseteq Unsent
        BY <1>1, SendStep
    <2> QED BY <2>1 DEF OneUnsent
<1>2. CASE TakeLog /\ link = Head(chan)
    <2>1. Unsent = {} /\ Unsent' \subseteq {link}
        BY <1>2, TakeStep
    <2> QED BY <2>1 DEF OneUnsent
<1>3. CASE got' = got /\ ~(TakeLog /\ link = Head(chan))
    <2>1. Unsent' = Unsent
        BY <1>3, UnsentSame
    <2> QED BY <2>1 DEF OneUnsent
<1> QED BY <1>1, <1>2, <1>3, GotKept

LEMMA BeforeNone ==
    ASSUME NEW s, NEW a, NEW b, b \notin Range(s)
    PROVE  Before(s, a, b)
BY DEF Before, Range

LEMMA GoesFirstStep ==
    ASSUME Core, WholeLogs, InTurn, Segments, [SyncNext]_syncVars
    PROVE  GoesFirst'
<1> USE DEF InTurn
<1>t. /\ queue \in Seq(Nat) /\ chan \in Seq(Nat) /\ fresh \in Nat \ {0}
      /\ Range(queue) \subseteq 1..fresh - 1 /\ Range(chan) \subseteq 1..fresh - 1
    BY DEF Core, SyncTypes
<1>1. CASE TakeLog /\ link = Head(chan)
    <2>1. /\ Unsent' \subseteq {link} /\ link' = 0 /\ link \in Range(queue) /\ link \in Range(chan)
          /\ UNCHANGED <<mode, queue, chan>>
        BY <1>1, TakeStep
    <2>2. Before(queue, link, 0) /\ Before(chan, link, 0)
        BY <1>t, BeforeNone
    <2> QED BY <2>1, <2>2 DEF GoesFirst
<1>2. ASSUME NEW err \in BOOLEAN, SendLog(err) PROVE GoesFirst'
    <2>1. Unsent' \subseteq Unsent
        BY <1>2, SendStep
    <2>2. UNCHANGED <<mode, link, queue, chan>>
        BY <1>2 DEF SendLog
    <2> QED BY <2>1, <2>2 DEF GoesFirst
<1> SUFFICES ASSUME got' = got, ~(TakeLog /\ link = Head(chan)) PROVE GoesFirst'
    BY <1>1, <1>2, GotKept
<1>3. /\ Unsent' = Unsent
      /\ \A n \in Unsent : n \in DOMAIN logs /\ n # link
    BY UnsentSame
<1>k. ASSUME UNCHANGED <<queue, chan, link>>, mode' = "up" => mode = "up" PROVE GoesFirst'
    BY <1>3, <1>k DEF GoesFirst
<1>4. CASE LinkLog
    <2>1. link' = fresh /\ UNCHANGED <<queue, chan, mode>>
        BY <1>4 DEF LinkLog
    <2>2. \A n : Before(queue, n, fresh) /\ Before(chan, n, fresh)
        BY <1>t, BeforeNone
    <2> QED BY <1>3, <2>1, <2>2 DEF GoesFirst
<1>5. ASSUME NEW u \in Update, UpdateStart(u) PROVE GoesFirst'
    BY <1>5, <1>k DEF UpdateStart
<1>6. Writing /\ ~LinkLog => UNCHANGED <<queue, chan, link>> /\ (mode' = "up" => mode = "up")
    BY DEF Writing, UpdateNamed, RunUpdate, OpenLog, CreateLog, WriteEntry, EndEntry, TimerStart, UpdateEnd,
           UpdatePanics
<1>7. TakeLog \/ SendMissing \/ Resend \/ DropLog \/ SyncRestart \/ UNCHANGED syncVars
        => UNCHANGED <<queue, chan, link>> /\ (mode' = "up" => mode = "up")
    BY DEF TakeLog, SendMissing, Resend, DropLog, SyncRestart, syncVars
<1>8. ASSUME NEW m \in LogId, TimerFires(m) PROVE GoesFirst'
    <2>1. CASE m \in Range(queue)
        BY <1>8, <1>k, <2>1 DEF TimerFires
    <2>2. CASE m \notin Range(queue)
        <3>1. /\ queue' = Append(queue, m) /\ chan' = Append(chan, m) /\ mode = "up"
              /\ UNCHANGED <<mode, link>>
            BY <1>8, <2>2 DEF TimerFires
        <3>2. m \in Nat
            BY LogIds
        <3>3. ASSUME NEW n \in Unsent
              PROVE  /\ n \in Range(queue') /\ Before(queue', n, link)
                     /\ n \in Range(chan') /\ Before(chan', n, link)
            <4>1. /\ n \in Range(queue) /\ Before(queue, n, link)
                  /\ n \in Range(chan) /\ Before(chan, n, link)
                BY <3>1 DEF GoesFirst
            <4>2. /\ Range(Append(queue, m)) = Range(queue) \union {m}
                  /\ Range(Append(chan, m)) = Range(chan) \union {m}
                BY <1>t, <3>2, RangeAppend, SMTT(30)
            <4>3. Before(Append(queue, m), n, link)
                BY <1>t, <3>2, <4>1, BeforeAppend
            <4>4. Before(Append(chan, m), n, link)
                BY <1>t, <3>2, <4>1, BeforeAppend
            <4> QED BY <3>1, <4>1, <4>2, <4>3, <4>4
        <3> QED BY <1>3, <3>1, <3>3 DEF GoesFirst
    <2> QED BY <2>1, <2>2
\* What is dropped is no log that was not sent.
<1>9. ASSUME NEW x, x # link, x \notin Unsent, NEW n \in Unsent
      PROVE  n \in Range(RemoveFirst(queue, x)) /\ Before(RemoveFirst(queue, x), n, link)
    <2>1. n # x /\ n \in Range(queue) /\ Before(queue, n, link)
        BY <1>9 DEF GoesFirst
    <2>2. /\ Range(queue) \ {x} \subseteq Range(RemoveFirst(queue, x))
          /\ \A a, b : a # x /\ b # x /\ Before(queue, a, b) => Before(RemoveFirst(queue, x), a, b)
        BY <1>t, RemoveRange
    <2> QED BY <1>9, <2>1, <2>2
<1>10. ASSUME NEW x, x \notin Unsent, Answered(x), NEW n \in Unsent, mode = "up"
       PROVE  n \in Range(chan') /\ Before(chan', n, link)
    <2>1. n # x /\ n \in Range(chan) /\ Before(chan, n, link)
        BY <1>10 DEF GoesFirst
    <2>2. CASE chan' = chan
        BY <2>1, <2>2
    <2>3. CASE chan # <<>> /\ Head(chan) = x /\ chan' = Tail(chan)
        <3>1. Range(chan) \subseteq Range(Tail(chan)) \union {x}
            BY <1>t, <2>3, TailRange
        <3>2. Before(Tail(chan), n, link)
            BY <1>t, <2>1, <2>3, BeforeTail
        <3> QED BY <2>1, <2>3, <3>1, <3>2
    <2> QED BY <1>10, <2>2, <2>3, AnsweredIs DEF Core
<1>11. ASSUME NEW a \in acks, ReadSyncAck(a) PROVE GoesFirst'
    <2>1. UNCHANGED <<mode, link>>
        BY <1>11 DEF ReadSyncAck
    <2>2. a.log # link /\ a.log \notin Unsent
        BY DEF Core, SenderInv, AnswersSent, Unsent
    <2>3. CASE a.err
        <3>1. queue' = RemoveFirst(queue, a.log) /\ Answered(a.log)
            BY <1>11, <2>3 DEF ReadSyncAck
        <3>2. \A n \in Unsent : /\ n \in Range(queue') /\ Before(queue', n, link)
                                /\ mode = "up" => n \in Range(chan') /\ Before(chan', n, link)
            BY <1>9, <1>10, <2>2, <3>1
        <3> QED BY <1>3, <2>1, <3>2 DEF GoesFirst
    <2>4. CASE ~a.err
        BY <1>11, <1>k, <2>4 DEF ReadSyncAck
    <2> QED BY <2>3, <2>4
<1>12. acking # 0 => acking # link /\ acking \notin Unsent
    BY DEF Core, SenderInv, AnswersSent, Unsent
<1>13. CASE DropRecord
    <2>1. acking # 0 /\ queue' = RemoveFirst(queue, acking) /\ UNCHANGED <<mode, link, chan>>
        BY <1>13 DEF DropRecord, Core, SenderInv
    <2>2. \A n \in Unsent : n \in Range(queue') /\ Before(queue', n, link)
        BY <1>9, <1>12, <2>1
    <2> QED BY <1>3, <2>1, <2>2 DEF GoesFirst
<1>14. CASE DropAck
    <2>1. acking # 0 /\ Answered(acking) /\ UNCHANGED <<mode, link, queue>>
        BY <1>14 DEF DropAck, Core, SenderInv
    <2>2. \A n \in Unsent : mode = "up" => n \in Range(chan') /\ Before(chan', n, link)
        BY <1>10, <1>12, <2>1
    <2> QED BY <1>3, <2>1, <2>2 DEF GoesFirst
<1>15. CASE SyncCrash
    <2>1. mode' = "down" /\ UNCHANGED <<queue, link>>
        BY <1>15 DEF SyncCrash
    <2> QED BY <1>3, <2>1 DEF GoesFirst
<1>16. CASE SyncStarted
    <2>1. chan' = queue /\ UNCHANGED <<queue, link>>
        BY <1>16 DEF SyncStarted
    <2> QED BY <1>3, <2>1 DEF GoesFirst
<1>17. ASSUME NEW err \in BOOLEAN, SendLog(err) PROVE GoesFirst'
    BY <1>17, <1>k DEF SendLog
<1> QED BY <1>k, <1>4, <1>5, <1>6, <1>7, <1>8, <1>11, <1>13, <1>14, <1>15, <1>16, <1>17
        DEF SyncNext, Sending, Acking, Starting

\* Answers to what was sent before, unless it is sent now.
LEMMA AnswersKept ==
    ASSUME Core, [SyncNext]_syncVars, ~(\E err \in BOOLEAN : SendLog(err))
    PROVE  /\ acks' \subseteq acks
           /\ acking' = acking \/ acking' = 0 \/ \E a \in acks : acking' = a.log
           /\ spc' = "await" => spc = "await" /\ Head(chan') = Head(chan)
<1> DEFINE G == /\ acks' \subseteq acks
                /\ acking' = acking \/ acking' = 0 \/ \E a \in acks : acking' = a.log
                /\ spc' = "await" => spc = "await" /\ Head(chan') = Head(chan)
<1>t. chan \in Seq(Nat)
    BY DEF Core, SyncTypes
<1>1. ASSUME NEW u \in Update, UpdateStart(u) PROVE G
    BY <1>1 DEF UpdateStart
<1>2. Writing => UNCHANGED sender
    BY DEF Writing, UpdateNamed, RunUpdate, OpenLog, LinkLog, CreateLog, WriteEntry, EndEntry, TimerStart,
           UpdateEnd, UpdatePanics
<1>3. CASE UNCHANGED sender
    BY <1>3
<1>4. ASSUME NEW n \in LogId, TimerFires(n) PROVE G
    <2>1. CASE n \in Range(queue)
        BY <1>4, <2>1 DEF TimerFires
    <2>2. CASE n \notin Range(queue)
        <3>1. chan' = Append(chan, n) /\ UNCHANGED <<acks, acking, spc>>
            BY <1>4, <2>2 DEF TimerFires
        <3>2. spc # "idle" => chan # <<>>
            BY DEF Core, SenderInv
        <3>3. n \in Nat
            BY LogIds
        <3>4. chan # <<>> => Head(Append(chan, n)) = Head(chan)
            BY <1>t, <3>3
        <3> QED BY <3>1, <3>2, <3>4
    <2> QED BY <2>1, <2>2
<1>5. CASE TakeLog
    BY <1>5 DEF TakeLog
<1>6. CASE SendMissing \/ UNCHANGED syncVars
    BY <1>6 DEF SendMissing, syncVars
<1>7. CASE Resend
    BY <1>7 DEF Resend
<1>8. ASSUME NEW n, Answered(n) PROVE spc' = "await" => spc = "await" /\ Head(chan') = Head(chan)
    BY <1>8, AnsweredIs DEF Core
<1>9. ASSUME NEW a \in acks, ReadSyncAck(a) PROVE G
    <2>1. acks' = acks \ {a}
        BY <1>9 DEF ReadSyncAck
    <2>2. CASE a.err
        BY <1>8, <1>9, <2>1, <2>2 DEF ReadSyncAck
    <2>3. CASE ~a.err
        BY <1>9, <2>1, <2>3 DEF ReadSyncAck
    <2> QED BY <2>2, <2>3
<1>10. CASE DropRecord \/ DropLog
    BY <1>10 DEF DropRecord, DropLog
<1>11. CASE DropAck
    BY <1>8, <1>11 DEF DropAck
<1>12. CASE SyncCrash
    BY <1>12 DEF SyncCrash
<1>13. CASE SyncRestart
    BY <1>13 DEF SyncRestart
<1>14. CASE SyncStarted
    BY <1>14 DEF SyncStarted, Core, SenderInv
<1> HIDE DEF G
<1>15. G
    BY <1>1, <1>2, <1>3, <1>4, <1>5, <1>6, <1>7, <1>9, <1>10, <1>11, <1>12, <1>13, <1>14
        DEF SyncNext, Sending, Acking, Starting, G
<1> QED BY <1>15 DEF G

LEMMA AnswersStep ==
    ASSUME Core, WholeLogs, InTurn, Segments, [SyncNext]_syncVars
    PROVE  AnswersSent'
<1> USE DEF InTurn
<1>t. /\ fresh \in Nat \ {0} /\ DOMAIN logs \subseteq 1..fresh - 1 /\ acking \in 0..fresh - 1
      /\ \A a \in acks : a.log \in 1..fresh - 1
    BY DEF Core, SyncTypes
<1>h. spc # "idle" => Head(chan) \in 1..fresh - 1
    <2>1. chan \in Seq(Nat) /\ Range(chan) \subseteq 1..fresh - 1 /\ (spc # "idle" => chan # <<>>)
        BY DEF Core, SyncTypes, SenderInv
    <2> QED BY <2>1, TailRange
<1>z. 0 \notin DOMAIN logs'
    <2>1. Core'
        BY CoreStep
    <2> QED BY <2>1 DEF Core, SyncTypes
<1>1. ASSUME NEW err \in BOOLEAN, SendLog(err) PROVE AnswersSent'
    <2>1. /\ UNCHANGED <<logs, acking, chan>> /\ acks' = acks \union {[log |-> Head(chan), err |-> err]}
        BY <1>1 DEF SendLog
    <2>2. Range(got) \subseteq Range(got') /\ Range(logs[Head(chan)]) \subseteq Range(got')
        BY <1>1, SendStep
    <2>3. \A n : Sent(n) => Sent(n)'
        BY <2>1, <2>2 DEF Sent
    <2>4. Sent(Head(chan))'
        BY <2>1, <2>2 DEF Sent
    <2>5. \A a \in acks' : a.log \in DOMAIN logs' => Sent(a.log)'
        BY <2>1, <2>3, <2>4 DEF AnswersSent
    <2>6. acking' \in DOMAIN logs' => Range(logs'[acking']) \subseteq Range(got')
        BY <2>1, <2>3 DEF AnswersSent, Sent
    <2>7. Range(logs'[Head(chan')]) \subseteq Range(got')
        BY <2>1, <2>2
    <2> QED BY <2>5, <2>6, <2>7 DEF AnswersSent, Sent
<1>k. ASSUME ~(\E err \in BOOLEAN : SendLog(err)),
             \A n \in 1..fresh - 1 : n # link /\ (n \in DOMAIN logs => Sent(n)) /\ n \in DOMAIN logs'
                                     => Range(logs'[n]) \subseteq Range(got')
      PROVE  AnswersSent'
    <2>1. /\ acks' \subseteq acks
          /\ acking' = acking \/ acking' = 0 \/ \E a \in acks : acking' = a.log
          /\ spc' = "await" => spc = "await" /\ Head(chan') = Head(chan)
        BY <1>k, AnswersKept
    <2>2. /\ \A a \in acks : a.log # link
          /\ acking # 0 => acking # link
          /\ spc = "await" => Head(chan) # link
        BY DEF Core, SenderInv
    <2>3. ASSUME NEW a \in acks, a.log \in DOMAIN logs' PROVE Range(logs'[a.log]) \subseteq Range(got')
        BY <1>k, <1>t, <2>2, <2>3 DEF AnswersSent
    <2>4. ASSUME acking' \in DOMAIN logs' PROVE Range(logs'[acking']) \subseteq Range(got')
        <3>1. acking' # 0
            BY <1>z, <2>4
        <3>2. CASE acking' = acking
            <4>1. acking \in 1..fresh - 1 /\ acking # link
                BY <1>t, <2>2, <3>1, <3>2
            <4> QED BY <1>k, <2>4, <3>2, <4>1 DEF AnswersSent
        <3>3. CASE \E a \in acks : acking' = a.log
            BY <2>3, <2>4, <3>3
        <3> QED BY <2>1, <3>1, <3>2, <3>3
    <2>5. ASSUME spc' = "await", Head(chan') \in DOMAIN logs'
          PROVE  Range(logs'[Head(chan')]) \subseteq Range(got')
        <3>1. spc = "await" /\ Head(chan') = Head(chan) /\ Head(chan) # link /\ Head(chan) \in 1..fresh - 1
            BY <1>h, <2>1, <2>2, <2>5
        <3> QED BY <1>k, <2>5, <3>1 DEF AnswersSent
    <2> QED BY <2>1, <2>3, <2>4, <2>5 DEF AnswersSent, Sent
<1>2. CASE TakeLog /\ link = Head(chan)
    <2>1. UNCHANGED <<logs, got>> /\ spc' = "taken"
        BY <1>2, TakeStep DEF TakeLog
    <2>2. ~(\E err \in BOOLEAN : SendLog(err))
        BY <2>1 DEF SendLog
    <2> QED BY <1>k, <2>1, <2>2 DEF Sent
<1>3. CASE ~(TakeLog /\ link = Head(chan)) /\ got' = got /\ ~(\E err \in BOOLEAN : SendLog(err))
    <2>1. ASSUME NEW n \in 1..fresh - 1, n # link, n \in DOMAIN logs => Sent(n), n \in DOMAIN logs'
          PROVE  Range(logs'[n]) \subseteq Range(got')
        <3>1. n # link'
            BY <1>t, <1>3, <2>1, LogsStep
        <3>2. n \in DOMAIN logs /\ logs'[n] = logs[n]
            BY <2>1, <3>1, LogsStep
        <3> QED BY <1>3, <2>1, <3>2 DEF Sent
    <2> QED BY <1>k, <1>3, <2>1
<1> QED BY <1>1, <1>2, <1>3, GotKept

LEMMA TurnStep ==
    ASSUME Core, Position, WholeLogs, InTurn, Segments, [SyncNext]_syncVars
    PROVE  InTurn'
BY OneUnsentStep, GoesFirstStep, AnswersStep DEF InTurn

LEMMA SegmentsStep ==
    ASSUME Core, Position, WholeLogs, InTurn, Segments, syncFault # "seen", [SyncNext]_syncVars
    PROVE  Segments'
<1> USE DEF Segments
<1>t. /\ Whole \in Nat /\ Rest \in Int /\ Rest + Whole = Len(made) /\ Whole <= Len(made)
      /\ made \in Seq(Update) /\ got \in Seq(Update) /\ Len(made) \in Nat /\ Len(got) \in Nat
      /\ Len(Text) \in Nat /\ DOMAIN Text = 1..Len(Text)
    BY WholeIs, TextIs DEF LinkTail, GotPrefix
<1>1. CASE TakeLog /\ link = Head(chan)
    <2>1. /\ Unsent = {} /\ Unsent' \subseteq {link} /\ ~Under /\ UNCHANGED <<logs, got, made>>
          /\ link \in DOMAIN logs /\ ~Sent(link) => Unsent' = {link}
          /\ link \in DOMAIN logs /\ Sent(link) => Unsent' = {}
          /\ link \notin DOMAIN logs => Unsent' = {}
        BY <1>1, TakeStep
    <2>2. Text' = <<>> /\ temp' = temp
        BY <1>1, TextStep
    <2>3. Whole' = 0 /\ Whole = Len(Text)
        <3>1. ~Under'
            BY <2>1, <2>2 DEF Under
        <3> QED BY <2>1, <2>2, <3>1 DEF Whole
    <2>4. Rest' = Len(made)
        BY <1>t, <2>1, <2>3 DEF Rest
    <2>5. LinkTail' /\ Distinct' /\ GotPrefix'
        BY <1>t, <2>1, <2>3 DEF LinkTail, Distinct, GotPrefix
    <2>6. Len(got) = Rest
        BY <2>1 DEF UnsentNext
    <2>7. CASE link \in DOMAIN logs /\ ~Sent(link)
        <3>1. Text = logs[link]
            BY <2>7 DEF Text
        <3>2. Len(got) + Len(Text) = Len(made)
            BY <1>t, <2>3, <2>6
        <3>3. \A i \in 1..Len(Text) : Text[i] = made[Len(got) + i]
            BY <2>3, <2>6 DEF LinkTail
        <3>4. UnsentNext'
            BY <2>1, <2>4, <2>7, <3>1, <3>2, <3>3 DEF UnsentNext
        <3> QED BY <2>5, <3>4
    <2>8. CASE ~(link \in DOMAIN logs /\ ~Sent(link))
        <3>1. Len(Text) = 0
            <4>1. CASE link \notin DOMAIN logs
                BY <4>1 DEF Text
            <4>2. CASE link \in DOMAIN logs /\ Sent(link) /\ Len(Text) # 0
                <5>1. Text = logs[link] /\ 1 \in 1..Len(Text)
                    BY <1>t, <4>2 DEF Text
                <5>2. Text[1] \in Range(got)
                    BY <1>t, <4>2, <5>1 DEF Sent, Range
                <5>3. PICK j \in 1..Len(got) : got[j] = Text[1]
                    BY <1>t, <5>2 DEF Range
                <5>4. made[j] = made[Rest + 1]
                    BY <2>3, <5>1, <5>3 DEF LinkTail, GotPrefix
                <5>5. j \in 1..Len(made) /\ Rest + 1 \in 1..Len(made) /\ j # Rest + 1
                    BY <1>t, <2>3, <2>6, <5>1, <5>3
                <5> QED BY <5>4, <5>5 DEF Distinct
            <4> QED BY <2>8, <4>1, <4>2
        <3>2. Unsent' = {} /\ Len(got) = Len(made)
            BY <1>t, <2>1, <2>3, <2>6, <2>8, <3>1
        <3>3. UnsentNext'
            BY <2>1, <2>4, <3>2 DEF UnsentNext
        <3> QED BY <2>5, <3>3
    <2> QED BY <2>7, <2>8
<1>2. ASSUME NEW err \in BOOLEAN, SendLog(err) PROVE Segments'
    <2>1. /\ Head(chan) \in DOMAIN logs /\ UNCHANGED <<logs, link>> /\ got' \in Seq(Update)
          /\ Unsent' = Unsent \ {Head(chan)}
          /\ \/ Head(chan) \notin Unsent /\ got' = got
             \/ /\ Head(chan) \in Unsent /\ got' = got \o logs[Head(chan)]
                /\ logs[Head(chan)] \in Seq(Update) /\ logs[Head(chan)] # <<>>
        BY <1>2, SendStep DEF InTurn
    <2>2. made' = made /\ temp' = temp
        BY <1>2 DEF SendLog
    <2>3. Text' = Text /\ (Under' <=> Under)
        BY <2>1, <2>2 DEF Text, Under
    <2>4. Whole' = Whole
        BY <2>2, <2>3 DEF Whole
    <2>5. Rest' = Rest
        BY <2>2, <2>4 DEF Rest
    <2>6. Distinct' /\ LinkTail'
        BY <2>2, <2>3, <2>4, <2>5 DEF Distinct, LinkTail
    <2>7. CASE Head(chan) \notin Unsent /\ got' = got
        <3>1. Unsent' = Unsent
            BY <2>1, <2>7
        <3>2. GotPrefix' /\ UnsentNext'
            BY <2>1, <2>2, <2>5, <2>7, <3>1 DEF GotPrefix, UnsentNext
        <3> QED BY <2>6, <3>2
    <2>8. CASE /\ Head(chan) \in Unsent /\ got' = got \o logs[Head(chan)]
               /\ logs[Head(chan)] \in Seq(Update)
        <3>1. PICK text : text = logs[Head(chan)]
            OBVIOUS
        <3>2. /\ Len(got) + Len(text) = Rest
              /\ \A i \in 1..Len(text) : text[i] = made[Len(got) + i]
            BY <2>8, <3>1 DEF UnsentNext
        <3>3. /\ Len(got') = Len(got) + Len(text)
              /\ \A i \in 1..Len(got) : got'[i] = got[i]
              /\ \A i \in 1..Len(text) : got'[Len(got) + i] = text[i]
              /\ Len(text) \in Nat
            BY <1>t, <2>8, <3>1, RangeConcat
        <3>4. Unsent' = {}
            BY <2>1, <2>8 DEF InTurn, OneUnsent
        <3>5. UnsentNext'
            BY <2>5, <3>2, <3>3, <3>4 DEF UnsentNext
        <3>6. ASSUME NEW i \in 1..(Len(got) + Len(text)) PROVE got'[i] = made[i]
            <4>1. CASE i <= Len(got)
                <5>1. i \in 1..Len(got)
                    BY <1>t, <4>1
                <5> QED BY <3>3, <5>1 DEF GotPrefix
            <4>2. CASE i > Len(got)
                <5>1. i - Len(got) \in 1..Len(text) /\ Len(got) + (i - Len(got)) = i
                    BY <1>t, <3>3, <4>2
                <5> QED BY <3>2, <3>3, <5>1
            <4> QED BY <1>t, <3>3, <4>1, <4>2
        <3>7. GotPrefix'
            BY <1>t, <2>1, <2>2, <3>2, <3>3, <3>6 DEF GotPrefix
        <3> QED BY <2>6, <3>5, <3>7
    <2> QED BY <2>1, <2>7, <2>8
<1>3. CASE got' = got /\ ~(TakeLog /\ link = Head(chan))
    <2>1. /\ LinkTail' /\ Distinct' /\ Rest' = Rest /\ Len(made) <= Len(made')
          /\ \A i \in 1..Len(made) : made'[i] = made[i]
        BY <1>3, TailStep
    <2>2. Unsent' = Unsent /\ \A n \in Unsent : n \in DOMAIN logs /\ logs'[n] = logs[n]
        BY <1>3, UnsentSame DEF InTurn
    <2>3. Len(made') \in Nat
        <3>1. Core'
            BY CoreStep
        <3> QED BY <3>1 DEF Core, SyncTypes
    <2>4. GotPrefix'
        BY <1>3, <1>t, <2>1, <2>3 DEF GotPrefix
    <2>5. ASSUME NEW n \in Unsent
          PROVE  /\ Len(got) + Len(logs[n]) = Rest
                 /\ \A i \in 1..Len(logs[n]) : logs[n][i] = made'[Len(got) + i]
        <3>1. /\ Len(got) + Len(logs[n]) = Rest
              /\ \A i \in 1..Len(logs[n]) : logs[n][i] = made[Len(got) + i]
            BY <2>5 DEF UnsentNext
        <3>2. Len(logs[n]) \in Nat
            BY <2>2, <2>5 DEF Core, SyncTypes
        <3>3. \A i \in 1..Len(logs[n]) : Len(got) + i \in 1..Len(made)
            BY <1>t, <3>1, <3>2
        <3> QED BY <2>1, <3>1, <3>3
    <2>6. UnsentNext'
        <3>1. Unsent' = {} => Len(got') = Rest'
            BY <1>3, <2>1, <2>2 DEF UnsentNext
        <3>2. ASSUME NEW n \in Unsent'
              PROVE  /\ Len(got') + Len(logs'[n]) = Rest'
                     /\ \A i \in 1..Len(logs'[n]) : logs'[n][i] = made'[Len(got') + i]
            <4>1. n \in Unsent /\ logs'[n] = logs[n]
                BY <2>2, <3>2
            <4> QED BY <1>3, <2>1, <2>5, <4>1
        <3> QED BY <3>1, <3>2 DEF UnsentNext
    <2> QED BY <2>1, <2>4, <2>6
<1> QED BY <1>1, <1>2, <1>3, GotKept

-----------------------------------------------------------------------------
(* The inductive invariant, and what it says of the log *)
Ordered == WholeLogs /\ InTurn /\ Segments
SyncInv == /\ Core /\ Position /\ Budget /\ LinkWaits
           /\ syncFault # "seen" => Ordered

LEMMA FaultKept ==
    ASSUME [SyncNext]_syncVars
    PROVE  syncFault' = syncFault
<1>1. ASSUME NEW u \in Update, UpdateStart(u) PROVE syncFault' = syncFault
    BY <1>1 DEF UpdateStart
<1>2. Writing => syncFault' = syncFault
    BY DEF Writing, UpdateNamed, RunUpdate, OpenLog, LinkLog, CreateLog, WriteEntry, EndEntry, TimerStart,
           UpdateEnd, UpdatePanics
<1>3. ASSUME NEW n \in LogId, TimerFires(n) PROVE syncFault' = syncFault
    BY <1>3 DEF TimerFires
<1>4. ASSUME NEW a \in acks, ReadSyncAck(a) PROVE syncFault' = syncFault
    BY <1>4 DEF ReadSyncAck
<1>5. ASSUME NEW err \in BOOLEAN, SendLog(err) PROVE syncFault' = syncFault
    BY <1>5 DEF SendLog
<1>6. TakeLog \/ SendMissing \/ Resend \/ DropRecord \/ DropLog \/ DropAck \/ SyncCrash \/ SyncRestart
      \/ SyncStarted \/ UNCHANGED syncVars => syncFault' = syncFault
    BY DEF TakeLog, SendMissing, Resend, DropRecord, DropLog, DropAck, SyncCrash, SyncRestart, SyncStarted,
           syncVars
<1> QED BY <1>1, <1>2, <1>3, <1>4, <1>5, <1>6 DEF SyncNext, Sending, Acking, Starting

LEMMA InvInit == SyncInit => SyncInv
<1> SUFFICES ASSUME SyncInit PROVE SyncInv
    OBVIOUS
<1>1. Core
    BY CoreInit
<1>2. /\ DOMAIN logs = {} /\ Text = <<>> /\ Len(Text) = 0 /\ ~Under /\ Range(made) = {}
      /\ Len(made) = 0 /\ Len(got) = 0 /\ upc = "idle"
    BY RangeEmpty DEF SyncInit, Text, Under
<1>3. Position /\ LinkWaits
    BY <1>2 DEF Position, LinkWaits
<1>4. Budget
    <2>1. temp.u \notin done
        BY DEF SyncInit
    <2>2. Owed = 0 /\ fresh = 1 /\ syncCrashes = 0 /\ Cardinality(done) = 0
        BY <2>1, FS_EmptySet DEF SyncInit, Owed
    <2> QED BY <2>2 DEF Budget
<1>5. WholeLogs
    BY <1>2 DEF SyncInit, WholeLogs, NoneSpoiled, TornAtEnd, EntryAtEnd
<1>6. Unsent = {} /\ Whole = 0 /\ Rest = 0
    BY <1>2 DEF Unsent, Whole, Rest
<1>7. InTurn
    BY <1>2, <1>6 DEF SyncInit, InTurn, OneUnsent, GoesFirst, AnswersSent
<1>8. got \in Seq(Update)
    BY DEF SyncInit
<1>9. Segments
    BY <1>2, <1>6, <1>8 DEF Segments, Distinct, LinkTail, GotPrefix, UnsentNext
<1> QED BY <1>1, <1>3, <1>4, <1>5, <1>7, <1>9 DEF SyncInv, Ordered

LEMMA InvStep == SyncInv /\ [SyncNext]_syncVars => SyncInv'
<1> SUFFICES ASSUME SyncInv, [SyncNext]_syncVars PROVE SyncInv'
    OBVIOUS
<1> USE DEF SyncInv
<1>1. Core' /\ Position' /\ Budget' /\ LinkWaits'
    BY CoreStep, PositionStep, BudgetStep, LinkWaitsStep
<1>2. ASSUME syncFault' # "seen" PROVE Ordered'
    <2>1. syncFault # "seen" /\ WholeLogs /\ InTurn /\ Segments
        BY <1>2, FaultKept DEF Ordered
    <2> QED BY <2>1, WholeStep, TurnStep, SegmentsStep DEF Ordered
<1> QED BY <1>1, <1>2

LEMMA InvTypes == SyncInv => SyncTypeOK
<1> SUFFICES ASSUME SyncInv PROVE SyncTypeOK
    OBVIOUS
<1>1. Core /\ Budget
    BY DEF SyncInv
<1>2. DOMAIN logs \subseteq LogId /\ fresh \in 1..Cardinality(LogId) + 1
    BY <1>1, LogsNumbered
<1> QED BY <1>1, <1>2 DEF Core, SyncTypes, SenderInv, SyncTypeOK

\* An update that was logged and not sent is in the log that was taken, or in the one
\* that is written to.
LEMMA Found ==
    ASSUME Core, Ordered, NEW u \in Range(made) \ Range(got)
    PROVE  \/ \E n \in Unsent : u \in Range(logs[n])
           \/ Text # <<>> /\ u \in Range(Text)
<1>t. /\ Whole \in Nat /\ Rest \in Int /\ Rest + Whole = Len(made) /\ Whole <= Len(Text)
      /\ made \in Seq(Update) /\ got \in Seq(Update) /\ Len(made) \in Nat /\ Len(got) \in Nat
      /\ Len(Text) \in Nat /\ DOMAIN Text = 1..Len(Text) /\ DOMAIN made = 1..Len(made)
      /\ DOMAIN got = 1..Len(got)
    BY WholeIs, TextIs DEF Ordered, Segments, GotPrefix
<1>1. PICK k \in 1..Len(made) : made[k] = u
    BY <1>t DEF Range
<1>2. k > Len(got)
    <2> SUFFICES ASSUME k <= Len(got) PROVE FALSE
        BY <1>t
    <2>1. k \in 1..Len(got) /\ got[k] = u
        BY <1>t, <1>1 DEF Ordered, Segments, GotPrefix
    <2> QED BY <1>t, <2>1 DEF Range
<1>3. CASE k > Rest
    <2>1. k - Rest \in 1..Whole /\ Rest + (k - Rest) = k /\ k - Rest \in 1..Len(Text)
        BY <1>t, <1>3
    <2>2. Text[k - Rest] = u
        BY <1>1, <2>1 DEF Ordered, Segments, LinkTail
    <2>3. u \in Range(Text)
        BY <1>t, <2>1, <2>2 DEF Range
    <2> QED BY <2>3, RangeEmpty
<1>4. CASE k <= Rest
    <2>0. Unsent = {} => Len(got) = Rest
        BY DEF Ordered, Segments, UnsentNext
    <2>1. Unsent # {}
        <3>1. k \in Int /\ Len(got) \in Int /\ Rest \in Int
            BY <1>t, <1>1
        <3>2. SUFFICES ASSUME Len(got) = Rest PROVE FALSE
            BY <2>0
        <3>3. k <= Len(got)
            BY <3>2, <1>4
        <3> QED BY <3>1, <3>3, <1>2
    <2>2. PICK n : n \in Unsent
        BY <2>1
    <2>3. n \in DOMAIN logs
        BY <2>2 DEF Unsent
    <2>4. Len(logs[n]) \in Nat /\ DOMAIN logs[n] = 1..Len(logs[n])
        <3>1. logs[n] \in Seq(Update \union {Torn})
            BY <2>3 DEF Core, SyncTypes
        <3> QED BY <3>1
    <2>5. /\ Len(got) + Len(logs[n]) = Rest
          /\ \A i \in 1..Len(logs[n]) : logs[n][i] = made[Len(got) + i]
        BY <2>2 DEF Ordered, Segments, UnsentNext
    <2>6. k - Len(got) \in 1..Len(logs[n]) /\ Len(got) + (k - Len(got)) = k
        BY <1>t, <1>2, <1>4, <2>4, <2>5
    <2>7. logs[n][k - Len(got)] = u
        BY <1>1, <2>5, <2>6
    <2> QED BY <2>2, <2>4, <2>6, <2>7 DEF Range
<1> QED BY <1>t, <1>3, <1>4

LEMMA InvLogsKept == SyncInv => LogsKept
<1> SUFFICES ASSUME SyncInv PROVE LogsKept
    OBVIOUS
<1> USE DEF SyncInv
<1>1. SyncTypeOK
    BY InvTypes
<1>2. LogsWhole
    BY DEF LogsWhole, Ordered, WholeLogs, NoneSpoiled
<1>3. NoneUnlogged
    <2>1. NoUpdateTemp.u \notin done
        BY NoUpdateOut DEF Core, SyncTypes
    <2> QED BY <2>1 DEF NoneUnlogged, Ordered, WholeLogs, NoneSpoiled
<1>4. Text # <<>> => link \in DOMAIN logs /\ Text = logs[link] /\ Waits(link)
    <2>1. upc \in {"writing", "logged"} /\ temp.pos = 0 => upc \in {"writing", "logged"}
        OBVIOUS
    <2> QED BY TextLink DEF LinkWaits, Waits
<1>5. NothingForgotten
    <2> SUFFICES ASSUME syncFault # "seen", NEW u \in Range(made) \ Range(got)
                 PROVE  \E n \in DOMAIN logs : u \in Range(logs[n]) /\ Waits(n)
        BY DEF NothingForgotten
    <2>1. ASSUME NEW n \in Unsent PROVE n \in DOMAIN logs /\ Waits(n)
        BY <2>1 DEF Unsent, Ordered, InTurn, GoesFirst, Waits
    <2> QED BY <1>4, <2>1, Found
<1>6. NoneLeft
    <2>1. \A n \in DOMAIN logs \ {link} : n \in Range(queue) \/ n = acking \/ n \in refused
        BY DEF Core, SenderInv
    <2> QED BY <2>1 DEF NoneLeft, Waits
<1> QED BY <1>1, <1>2, <1>3, <1>5, <1>6 DEF LogsKept

LEMMA InvAlways == SyncSpec => []SyncInv
BY InvInit, InvStep, PTL DEF SyncSpec

\* However updates, sends, acks and crashes interleave (syncUpdtNode, sendSyncNode,
\* dropSyncNode and initServices in node.go and service.go): what is logged waits to be
\* sent until it was sent, is whole when it is sent, every update that took effect is
\* logged, and no log stays behind.
THEOREM NoLogLost == SyncSpec => []LogsKept
<1>1. SyncInv => LogsKept
    BY InvLogsKept
<1> QED BY <1>1, InvAlways, PTL

-----------------------------------------------------------------------------
(* The log implements the stream of updates *)
LEMMA StreamInit == SyncInit => Stream!Init
BY DEF SyncInit, Stream!Init

LEMMA StreamStep ==
    ASSUME SyncInv, [SyncNext]_syncVars
    PROVE  [Stream!Next]_<<made, IF syncFault = "seen" THEN <<>> ELSE got>>
<1> DEFINE g == IF syncFault = "seen" THEN <<>> ELSE got
<1> USE DEF SyncInv
<1>t. made \in Seq(Update) /\ Len(made) \in Nat /\ DOMAIN made = 1..Len(made)
    BY WholeIs DEF Core, SyncTypes
<1>f. syncFault' = syncFault
    BY FaultKept
<1>1. CASE EndEntry
    <2>1. got' = got
        BY <1>1 DEF EndEntry
    <2>2. CASE made' = made
        BY <1>f, <2>1, <2>2
    <2>3. CASE temp.u \notin Range(made) /\ made' = Append(made, temp.u)
        <3>1. temp.u \in Update
            BY <1>1, MadeStep
        <3>2. temp.u \notin {made[i] : i \in DOMAIN made}
            BY <2>3 DEF Range
        <3>3. Stream!Make(temp.u)
            BY <1>f, <2>1, <2>3, <3>2 DEF Stream!Make
        <3> QED BY <3>1, <3>3 DEF Stream!Next
    <2> QED BY <1>1, <2>2, <2>3, MadeStep
<1>2. ASSUME NEW err \in BOOLEAN, SendLog(err), syncFault # "seen"
      PROVE  [Stream!Next]_<<made, g>>
    <2>1. made' = made
        BY <1>2 DEF SendLog
    <2>2. Ordered /\ Ordered'
        BY <1>2, <1>f, InvStep
    <2>3. \/ got' = got
          \/ /\ got' = got \o logs[Head(chan)] /\ logs[Head(chan)] \in Seq(Update)
             /\ logs[Head(chan)] # <<>>
        BY <1>2, <2>2, SendStep DEF Ordered, InTurn
    <2>4. CASE got' = got
        BY <1>f, <2>1, <2>4
    <2>5. CASE /\ got' = got \o logs[Head(chan)] /\ logs[Head(chan)] \in Seq(Update)
               /\ logs[Head(chan)] # <<>>
        <3>1. /\ got \in Seq(Update) /\ got' \in Seq(Update) /\ Len(got') <= Len(made)
              /\ \A i \in 1..Len(got') : got'[i] = made[i]
            BY <2>1, <2>2 DEF Ordered, Segments, GotPrefix
        <3>2. Len(got') > Len(got) /\ Len(got) \in Nat /\ Len(got') \in Nat
            <4>1. Len(got') = Len(got) + Len(logs[Head(chan)])
                BY <2>5, <3>1, RangeConcat
            <4>2. Len(logs[Head(chan)]) \in Nat \ {0}
                BY <2>5, EmptySeq, LenProperties
            <4> QED BY <3>1, <4>1, <4>2
        <3>3. got' = SubSeq(made, 1, Len(got'))
            <4>1. PICK x : x = SubSeq(made, 1, Len(got'))
                OBVIOUS
            <4>2. x \in Seq(Update) /\ Len(x) = Len(got') /\ \A i \in 1..Len(got') : x[i] = made[i]
                BY <1>t, <3>1, <3>2, <4>1
            <4>3. x = got'
                BY <3>1, <4>2, SeqEqual
            <4> QED BY <4>1, <4>3
        <3>4. Len(got') \in Len(got) + 1..Len(made) /\ Len(got') \in 1..Len(made)
            BY <1>t, <3>1, <3>2
        <3>5. Stream!Deliver(Len(got'))
            BY <1>2, <1>f, <2>1, <3>3, <3>4 DEF Stream!Deliver
        <3> QED BY <3>4, <3>5 DEF Stream!Next
    <2> QED BY <2>3, <2>4, <2>5
<1>3. CASE made' = made /\ got' = got
    BY <1>f, <1>3
<1>4. CASE made' = made /\ syncFault = "seen"
    BY <1>f, <1>4
<1>5. made' = made \/ EndEntry
    <2>1. (\E u \in Update : UpdateStart(u)) => made' = made
        BY DEF UpdateStart
    <2>2. Writing => made' = made \/ EndEntry
        BY DEF Writing, UpdateNamed, RunUpdate, OpenLog, LinkLog, CreateLog, WriteEntry, TimerStart, UpdateEnd,
               UpdatePanics
    <2>3. TakeLog => made' = made
        BY DEF TakeLog
    <2>4. Elsewhere => made' = made
        BY DEF Elsewhere
    <2> QED BY <2>1, <2>2, <2>3, <2>4, WriterOrElse
<1> QED BY <1>1, <1>2, <1>3, <1>4, <1>5, GotKept

\* The replicas get the updates in the order they were made, each once (initSyncNode and
\* sendSyncNode take the link before the file is read): the log implements UpdateStream,
\* as far as an update that is made again succeeds.
THEOREM LogIsStream == SyncSpec => ImplementsStream
<1>1. SyncInv /\ [SyncNext]_syncVars
        => [Stream!Next]_<<made, IF syncFault = "seen" THEN <<>> ELSE got>>
    BY StreamStep
<1> QED BY <1>1, StreamInit, InvAlways, PTL DEF SyncSpec, ImplementsStream, Stream!Spec
=============================================================================
