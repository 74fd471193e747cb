------------------------- MODULE ThreadStoreProofs -------------------------
(***************************************************************************)
(* Theorems about ThreadStore, for any messages, drafts, sizes and crashes.*)
(*                                                                         *)
(* First what the operators on files and indexes do: what is written is    *)
(* read back, and a new index covers the old one.  Then the inductive      *)
(* invariant IInv, with a lemma for each action; the theorems are at the   *)
(* end.                                                                    *)
(***************************************************************************)
EXTENDS ThreadStore, SequenceTheorems, FiniteSetTheorems, WellFoundedInduction, TLAPS

-----------------------------------------------------------------------------
(* Induction along the numbers up to n, and functions defined by it.       *)

LEMMA LeastIs ==
    ASSUME NEW S \in SUBSET Nat, S # {}
    PROVE  \E m \in S : \A k \in S : m <= k
<1> DEFINE R == OpToRel(<, Nat)
<1>1. IsWellFoundedOn(R, Nat)
    BY NatLessThanWellFounded
<1>2. \A x, y \in Nat : <<x, y>> \in R <=> x < y
    BY DEF OpToRel
<1> HIDE DEF R
<1>3. PICK m \in S : \A k \in S : ~(<<k, m>> \in R)
    BY <1>1, WFMin
<1>4. ASSUME NEW k \in S PROVE m <= k
    <2>1. m \in Nat /\ k \in Nat /\ ~(k < m)
        BY <1>2, <1>3
    <2> QED BY <2>1
<1> QED BY <1>4

LEMMA Along ==
    ASSUME NEW n \in Nat, NEW P, 0 \in P, \A i \in 1..n : i - 1 \in P => i \in P
    PROVE  \A i \in 0..n : i \in P
<1> DEFINE S == {k \in 0..n : k \notin P}
<1> SUFFICES ASSUME S # {} PROVE FALSE
    OBVIOUS
<1>1. S \in SUBSET Nat
    OBVIOUS
<1>2. PICK k \in S : \A j \in S : k <= j
    BY <1>1, LeastIs
<1>3. k \in 1..n /\ k - 1 \in 0..n /\ ~(k <= k - 1)
    OBVIOUS
<1>4. k - 1 \notin S
    BY <1>2, <1>3
<1> QED BY <1>3, <1>4

Solves(f, k, S, a, G) == f \in [0..k -> S] /\ f[0] = a /\ \A i \in 1..k : f[i] = G[i][f[i - 1]]

LEMMA RecursionExists ==
    ASSUME NEW n \in Nat, NEW S, NEW a \in S, NEW G \in [1..n -> [S -> S]]
    PROVE  \E f : Solves(f, n, S, a, G)
<1> DEFINE P == {k \in 0..n : \E f : Solves(f, k, S, a, G)}
<1>1. 0 \in P
    <2> DEFINE f == [i \in 0..0 |-> a]
    <2>1. f \in [0..0 -> S] /\ f[0] = a /\ 1..0 = {}
        OBVIOUS
    <2>2. Solves(f, 0, S, a, G)
        BY <2>1 DEF Solves
    <2> QED BY <2>2
<1>2. ASSUME NEW k \in 1..n, k - 1 \in P PROVE k \in P
    <2>1. PICK f : Solves(f, k - 1, S, a, G)
        BY <1>2
    <2>2. f \in [0..(k - 1) -> S] /\ f[0] = a /\ \A i \in 1..(k - 1) : f[i] = G[i][f[i - 1]]
        BY <2>1 DEF Solves
    <2> DEFINE g == [i \in 0..k |-> IF i = k THEN G[k][f[k - 1]] ELSE f[i]]
    <2>3. k - 1 \in 0..(k - 1) /\ 0 \in 0..(k - 1) /\ k \in Nat
        OBVIOUS
    <2>4. f[k - 1] \in S /\ G[k] \in [S -> S]
        BY <2>2, <2>3
    <2>5. \A i \in 0..k : i = k \/ i \in 0..(k - 1)
        OBVIOUS
    <2>6. g \in [0..k -> S]
        BY <2>2, <2>4, <2>5
    <2>7. g[k] = G[k][f[k - 1]] /\ \A i \in 0..(k - 1) : g[i] = f[i]
        OBVIOUS
    <2> HIDE DEF g
    <2>8. ASSUME NEW i \in 1..k PROVE g[i] = G[i][g[i - 1]]
        <3>1. i - 1 \in 0..(k - 1)
            OBVIOUS
        <3>2. i = k \/ i \in 1..(k - 1)
            OBVIOUS
        <3> QED BY <2>2, <2>7, <3>1, <3>2
    <2>9. Solves(g, k, S, a, G)
        BY <2>2, <2>3, <2>6, <2>7, <2>8 DEF Solves
    <2> QED BY <2>9
<1> HIDE DEF P
<1>3. \A i \in 1..n : i - 1 \in P => i \in P
    BY <1>2
<1>4. \A i \in 0..n : i \in P
    BY <1>1, <1>3, Along
<1>5. n \in 0..n
    OBVIOUS
<1> QED BY <1>4, <1>5 DEF P

-----------------------------------------------------------------------------
(* What the recursive operators on sequences are.                          *)

LEMMA FlattenIs ==
    ASSUME NEW S, NEW s \in Seq(Seq(S))
    PROVE  \E c \in [0..Len(s) -> Seq(S)] :
               /\ c[0] = <<>> /\ \A i \in 1..Len(s) : c[i] = c[i - 1] \o s[i]
               /\ FlattenSeq(s) = c[Len(s)]
<1>1. Len(s) \in Nat /\ <<>> \in Seq(S) /\ \A i \in 1..Len(s) : s[i] \in Seq(S)
    OBVIOUS
<1>2. CASE Len(s) = 0
    <2> DEFINE c == [i \in 0..0 |-> <<>>]
    <2>1. s = <<>>
        BY <1>2
    <2>2. FlattenSeq(s) = <<>>
        BY <1>2, <2>1 DEF FlattenSeq
    <2>3. c \in [0..0 -> Seq(S)] /\ c[0] = <<>> /\ 1..0 = {}
        BY <1>1
    <2> HIDE DEF c
    <2>4. c \in [0..Len(s) -> Seq(S)] /\ FlattenSeq(s) = c[Len(s)] /\ 1..Len(s) = {}
        BY <1>2, <2>2, <2>3
    <2> QED BY <2>3, <2>4
<1>3. CASE Len(s) # 0
    <2> DEFINE n == Len(s)
               G == [i \in 1..n |-> [b \in Seq(S) |-> b \o s[i]]]
               Sol(f) == f = [i \in 1..n |-> IF i = 1 THEN s[i] ELSE f[i - 1] \o s[i]]
    <2>1. n \in Nat /\ n >= 1
        BY <1>1, <1>3
    <2>2. G \in [1..n -> [Seq(S) -> Seq(S)]]
        BY <1>1, ConcatProperties
    <2>3. PICK c \in [0..n -> Seq(S)] : c[0] = <<>> /\ \A i \in 1..n : c[i] = G[i][c[i - 1]]
        <3> HIDE DEF G, n
        <3>1. \E f : Solves(f, n, Seq(S), <<>>, G)
            BY <1>1, <2>1, <2>2, RecursionExists
        <3> QED BY <3>1 DEF Solves
    <2>4. \A i \in 1..n : c[i - 1] \in Seq(S)
        <3>1. \A i \in 1..n : i - 1 \in 0..n
            BY <2>1
        <3> QED BY <2>3, <3>1
    <2>5. \A i \in 1..n : c[i] = c[i - 1] \o s[i]
        BY <2>3, <2>4
    <2> DEFINE d == [i \in 1..n |-> c[i]]
               val(i) == IF i = 1 THEN s[i] ELSE d[i - 1] \o s[i]
    <2>6. Sol(d)
        <3>1. ASSUME NEW i \in 1..n PROVE d[i] = val(i)
            <4>1. CASE i = 1
                <5>1. 1 \in 1..n /\ 1 - 1 = 0
                    BY <2>1
                <5>2. c[1] = <<>> \o s[1] /\ 1 \in 1..n
                    BY <2>3, <2>5, <5>1
                <5>3. <<>> \o s[1] = s[1]
                    BY <1>1, <5>2, ConcatEmptySeq
                <5> QED BY <4>1, <5>2, <5>3
            <4>2. CASE i # 1
                <5>1. i - 1 \in 1..n
                    BY <2>1, <4>2
                <5> QED BY <2>5, <4>2, <5>1
            <4> QED BY <4>1, <4>2
        <3>2. [i \in 1..n |-> val(i)] = d
            BY <3>1
        <3> QED BY <3>2
    <2>7. PICK h : h = CHOOSE f : Sol(f)
        OBVIOUS
    <2>8. Sol(h)
        BY <2>6, <2>7
    <2>9. FlattenSeq(s) = h[n]
        BY <1>3, <2>7 DEF FlattenSeq
    <2> DEFINE val2(i) == IF i = 1 THEN s[i] ELSE h[i - 1] \o s[i]
    <2>10. \A i \in 1..n : h[i] = val2(i)
        <3>1. h = [i \in 1..n |-> val2(i)]
            BY <2>8
        <3> HIDE DEF val2
        <3> QED BY <3>1
    <2> DEFINE P == {k \in 0..n : k = 0 \/ h[k] = c[k]}
    <2>11. 0 \in P
        BY <2>1
    <2>12. ASSUME NEW k \in 1..n, k - 1 \in P PROVE k \in P
        <3>1. k = 1 \/ (k # 1 /\ k - 1 # 0)
            BY <2>1
        <3>2. CASE k = 1
            <4>1. h[1] = s[1] /\ c[1] = d[1] /\ d[1] = s[1]
                BY <2>1, <2>6, <2>10, <3>2
            <4> QED BY <3>2, <4>1
        <3>3. CASE k # 1 /\ k - 1 # 0
            <4>1. h[k - 1] = c[k - 1]
                BY <2>12, <3>3
            <4>2. h[k] = val2(k) /\ c[k] = c[k - 1] \o s[k]
                BY <2>5, <2>10
            <4>3. val2(k) = h[k - 1] \o s[k]
                BY <3>3
            <4> HIDE DEF val2
            <4>4. h[k] = c[k] /\ k \in 0..n
                BY <2>1, <4>1, <4>2, <4>3
            <4> QED BY <4>4
        <3> QED BY <3>1, <3>2, <3>3
    <2> HIDE DEF P
    <2>13. \A k \in 1..n : k - 1 \in P => k \in P
        BY <2>12
    <2>14. \A k \in 0..n : k \in P
        <3> HIDE DEF n
        <3> QED BY <2>1, <2>11, <2>13, Along
    <2>15. n \in 0..n /\ n # 0
        BY <2>1
    <2>16. h[n] = c[n]
        BY <2>14, <2>15 DEF P
    <2> QED BY <2>3, <2>5, <2>9, <2>16
<1> QED BY <1>2, <1>3

\* One step of the recursion of EntriesOf.
Read(cells, i, before) == IF cells[i][1] = "entry" THEN Append(before, cells[i][2]) ELSE before

LEMMA CellIs ==
    /\ \A c \in IndexCell : /\ c[1] \in {"entry", "pad"} /\ (c[1] = "entry" => c[2] \in Entries)
                            /\ c \in Cell
    /\ \A e \in Entries : <<"entry", e>> \in IndexCell
    /\ <<"pad">> \in IndexCell /\ <<"pad">>[1] = "pad"
    /\ \A n \in Nat : <<"tail", n>> \in Cell
    /\ \A m \in Ids : <<"body", m>> \in Cell
<1>1. <<"pad">>[1] = "pad"
    OBVIOUS
<1> HIDE DEF Entries
<1>2. \A c \in IndexCell : c[1] \in {"entry", "pad"} /\ (c[1] = "entry" => c[2] \in Entries)
    BY <1>1 DEF IndexCell
<1> QED BY <1>1, <1>2 DEF IndexCell, Cell

LEMMA ReadIsSeq ==
    ASSUME NEW cells \in Seq(IndexCell), NEW i \in 1..Len(cells), NEW b \in Seq(Entries)
    PROVE  Read(cells, i, b) \in Seq(Entries)
<1>1. cells[i] \in IndexCell
    OBVIOUS
<1>2. cells[i][1] = "entry" => cells[i][2] \in Entries
    BY <1>1, CellIs
<1> QED BY <1>2, AppendProperties DEF Read

LEMMA EntriesOfIs ==
    ASSUME NEW cells \in Seq(IndexCell)
    PROVE  \E r \in [0..Len(cells) -> Seq(Entries)] :
               /\ r[0] = <<>> /\ \A i \in 1..Len(cells) : r[i] = Read(cells, i, r[i - 1])
               /\ EntriesOf(cells) = r[Len(cells)]
<1> DEFINE n == Len(cells)
           S == Seq(Entries)
           G == [i \in 1..n |-> [b \in S |-> Read(cells, i, b)]]
           Sol(f) == f = [i \in 0..n |->
                            IF i = 0 THEN <<>>
                            ELSE IF cells[i][1] = "entry" THEN Append(f[i - 1], cells[i][2]) ELSE f[i - 1]]
<1>1. n \in Nat /\ <<>> \in S
    OBVIOUS
<1>2. G \in [1..n -> [S -> S]]
    BY ReadIsSeq
<1>3. PICK c \in [0..n -> S] : c[0] = <<>> /\ \A i \in 1..n : c[i] = G[i][c[i - 1]]
    <2> HIDE DEF G, n, S
    <2>1. \E f : Solves(f, n, S, <<>>, G)
        BY <1>1, <1>2, RecursionExists
    <2> QED BY <2>1 DEF Solves
<1>4. \A i \in 1..n : i - 1 \in 0..n
    BY <1>1
<1>5. \A i \in 1..n : c[i] = Read(cells, i, c[i - 1])
    BY <1>3, <1>4
<1> DEFINE val(i) == IF i = 0 THEN <<>>
                     ELSE IF cells[i][1] = "entry" THEN Append(c[i - 1], cells[i][2]) ELSE c[i - 1]
<1>6. Sol(c)
    <2>1. ASSUME NEW i \in 0..n PROVE c[i] = val(i)
        <3>1. CASE i = 0
            BY <1>3, <3>1
        <3>2. CASE i # 0
            <4>1. i \in 1..n
                BY <1>1, <3>2
            <4> QED BY <1>5, <3>2, <4>1 DEF Read
        <3> QED BY <3>1, <3>2
    <2> HIDE DEF n
    <2>2. c = [i \in 0..n |-> val(i)]
        <3> HIDE DEF val
        <3> QED BY <1>3, <2>1
    <2> QED BY <2>2
<1>7. PICK h : h = CHOOSE f : Sol(f)
    OBVIOUS
<1>8. Sol(h)
    BY <1>6, <1>7
<1>9. EntriesOf(cells) = h[n]
    BY <1>7 DEF EntriesOf
<1> DEFINE val2(i) == IF i = 0 THEN <<>>
                      ELSE IF cells[i][1] = "entry" THEN Append(h[i - 1], cells[i][2]) ELSE h[i - 1]
<1>10. \A i \in 0..n : h[i] = val2(i)
    <2>1. h = [i \in 0..n |-> val2(i)]
        BY <1>8
    <2> HIDE DEF val2
    <2> QED BY <2>1
<1>11. h[0] = <<>> /\ \A i \in 1..n : h[i] = Read(cells, i, h[i - 1])
    <2>1. 0 \in 0..n /\ \A i \in 1..n : i \in 0..n /\ i # 0
        BY <1>1
    <2> QED BY <1>10, <2>1 DEF Read
<1> DEFINE P == {k \in 0..n : h[k] = c[k]}
<1>12. 0 \in P
    BY <1>1, <1>3, <1>11
<1>13. \A k \in 1..n : k - 1 \in P => k \in P
    <2> HIDE DEF n
    <2> QED BY <1>1, <1>5, <1>11
<1>14. \A k \in 0..n : k \in P
    <2> HIDE DEF n, P
    <2> QED BY <1>1, <1>12, <1>13, Along
<1>15. n \in 0..n
    BY <1>1
<1>16. h[n] = c[n]
    BY <1>14, <1>15
<1> QED BY <1>3, <1>5, <1>9, <1>16

-----------------------------------------------------------------------------
(* A file is what comes before the index, then the index: it is read back. *)

CellsOf(idx) == FlattenSeq([i \in DOMAIN idx |-> IndexCells(idx[i])])

LEMMA IndexCellsIs ==
    ASSUME NEW e \in Entries
    PROVE  /\ IndexCells(e) \in Seq(IndexCell)
           /\ IndexCells(e)[1] = <<"entry", e>>
           /\ \/ Len(IndexCells(e)) = 1
              \/ Len(IndexCells(e)) = 2 /\ IndexCells(e)[2] = <<"pad">>
<1>1. <<"entry", e>> \in IndexCell /\ <<"pad">> \in IndexCell
    BY CellIs
<1>2. ASSUME NEW a \in IndexCell, NEW b \in IndexCell
      PROVE  /\ <<a, b>> \in Seq(IndexCell) /\ Len(<<a, b>>) = 2 /\ <<a, b>>[1] = a /\ <<a, b>>[2] = b
             /\ <<a>> \in Seq(IndexCell) /\ Len(<<a>>) = 1 /\ <<a>>[1] = a
    OBVIOUS
<1>3. CASE e.tag
    <2>1. IndexCells(e) = << <<"entry", e>>, <<"pad">> >>
        BY <1>3 DEF IndexCells
    <2> QED BY <1>1, <1>2, <2>1
<1>4. CASE ~e.tag
    <2>1. IndexCells(e) = << <<"entry", e>> >>
        BY <1>4 DEF IndexCells
    <2> QED BY <1>1, <1>2, <2>1
<1> QED BY <1>3, <1>4

\* The cells of an index, entry after entry.
LEMMA CellsAre ==
    ASSUME NEW idx \in Seq(Entries)
    PROVE  \E c \in [0..Len(idx) -> Seq(IndexCell)] :
               /\ c[0] = <<>> /\ \A i \in 1..Len(idx) : c[i] = c[i - 1] \o IndexCells(idx[i])
               /\ CellsOf(idx) = c[Len(idx)]
<1> DEFINE n == Len(idx)
           s == [i \in DOMAIN idx |-> IndexCells(idx[i])]
<1>1. n \in Nat /\ DOMAIN idx = 1..n /\ \A i \in 1..n : idx[i] \in Entries
    OBVIOUS
<1>2. s \in Seq(Seq(IndexCell)) /\ Len(s) = n /\ \A i \in 1..n : s[i] = IndexCells(idx[i])
    <2>1. \A i \in 1..n : IndexCells(idx[i]) \in Seq(IndexCell)
        BY <1>1, IndexCellsIs
    <2>2. s \in [1..n -> Seq(IndexCell)]
        BY <1>1, <2>1
    <2>3. s \in Seq(Seq(IndexCell))
        BY <1>1, <2>2, SeqDef
    <2> QED BY <1>1, <2>2, <2>3
<1> HIDE DEF s
<1>3. CellsOf(idx) = FlattenSeq(s)
    BY DEF CellsOf, s
<1>4. PICK c \in [0..Len(s) -> Seq(IndexCell)] :
               /\ c[0] = <<>> /\ \A i \in 1..Len(s) : c[i] = c[i - 1] \o s[i]
               /\ FlattenSeq(s) = c[Len(s)]
    BY <1>2, FlattenIs
<1> QED BY <1>2, <1>3, <1>4

\* The entries are read from the cells of an index: after the cells of the first k
\* entries, the first k entries.
LEMMA CellsRead ==
    ASSUME NEW idx \in Seq(Entries)
    PROVE  CellsOf(idx) \in Seq(IndexCell) /\ EntriesOf(CellsOf(idx)) = idx
<1> DEFINE n == Len(idx)
<1>1. n \in Nat /\ DOMAIN idx = 1..n /\ \A i \in 1..n : idx[i] \in Entries
    OBVIOUS
<1>2. PICK c \in [0..n -> Seq(IndexCell)] :
          /\ c[0] = <<>> /\ \A i \in 1..n : c[i] = c[i - 1] \o IndexCells(idx[i])
          /\ CellsOf(idx) = c[n]
    BY CellsAre
<1> DEFINE x == CellsOf(idx)
<1>3. x \in Seq(IndexCell) /\ n \in 0..n
    BY <1>1, <1>2
<1>4. PICK r \in [0..Len(x) -> Seq(Entries)] :
          /\ r[0] = <<>> /\ \A i \in 1..Len(x) : r[i] = Read(x, i, r[i - 1])
          /\ EntriesOf(x) = r[Len(x)]
    BY <1>3, EntriesOfIs
<1> HIDE DEF n, x
\* The cells of fewer entries are the first cells.
<1>5. ASSUME NEW k \in 1..n
      PROVE  /\ Len(c[k - 1]) \in Nat /\ Len(c[k]) \in Nat
             /\ \A i \in 1..Len(c[k - 1]) : c[k][i] = c[k - 1][i]
             /\ c[k][Len(c[k - 1]) + 1] = <<"entry", idx[k]>>
             /\ Len(c[k]) = Len(c[k - 1]) + 1
                \/ (Len(c[k]) = Len(c[k - 1]) + 2 /\ c[k][Len(c[k - 1]) + 2] = <<"pad">>)
    <2>1. k - 1 \in 0..n /\ k \in 0..n
        BY <1>1
    <2>2. PICK a : a = c[k - 1]
        OBVIOUS
    <2>3. PICK b : b = IndexCells(idx[k])
        OBVIOUS
    <2>4. /\ b \in Seq(IndexCell) /\ b[1] = <<"entry", idx[k]>>
          /\ Len(b) = 1 \/ (Len(b) = 2 /\ b[2] = <<"pad">>)
        BY <1>1, <2>3, IndexCellsIs
    <2>5. /\ a \in Seq(IndexCell) /\ c[k] \in Seq(IndexCell) /\ c[k] = a \o b
          /\ Len(a) \in Nat /\ Len(c[k]) \in Nat
        <3>1. a \in Seq(IndexCell) /\ c[k] \in Seq(IndexCell)
            BY <1>2, <2>1, <2>2
        <3>2. c[k] = a \o b
            BY <1>2, <2>2, <2>3
        <3>3. \A q \in Seq(IndexCell) : Len(q) \in Nat
            OBVIOUS
        <3> QED BY <3>1, <3>2, <3>3
    <2>6. /\ Len(a \o b) = Len(a) + Len(b)
          /\ \A i \in 1 .. Len(a) + Len(b) : (a \o b)[i] = IF i <= Len(a) THEN a[i] ELSE b[i - Len(a)]
        BY <2>4, <2>5, ConcatProperties
    <2>7. \A i \in 1..Len(a) : (a \o b)[i] = a[i]
        BY <2>4, <2>5, <2>6
    <2>8. (a \o b)[Len(a) + 1] = b[1]
        BY <2>4, <2>5, <2>6
    <2>9. Len(b) = 2 => (a \o b)[Len(a) + 2] = b[2]
        BY <2>4, <2>5, <2>6
    <2> QED BY <2>2, <2>3, <2>4, <2>5, <2>6, <2>7, <2>8, <2>9
<1>6. \A k \in 0..n : Len(c[k]) <= Len(x) /\ \A i \in 1..Len(c[k]) : x[i] = c[k][i]
    <2> DEFINE Good(k) == Len(c[k]) <= Len(x) /\ \A i \in 1..Len(c[k]) : x[i] = c[k][i]
               P == {d \in 0..n : Good(n - d)}
    <2>1. 0 \in P
        <3>1. n - 0 = n /\ x = c[n] /\ Len(x) \in Nat
            BY <1>1, <1>2, <1>3 DEF x
        <3> QED BY <1>1, <3>1
    <2>2. ASSUME NEW d \in 1..n, d - 1 \in P PROVE d \in P
        <3>1. PICK k : k = n - (d - 1)
            OBVIOUS
        <3>2. k \in 1..n /\ k - 1 = n - d /\ Good(k)
            BY <1>1, <2>2, <3>1
        <3>3. PICK l, m : l = Len(c[k - 1]) /\ m = Len(c[k])
            OBVIOUS
        <3>4. l \in Nat /\ m \in Nat /\ (m = l + 1 \/ m = l + 2)
            BY <1>5, <3>2, <3>3
        <3>5. \A i \in 1..l : c[k][i] = c[k - 1][i]
            BY <1>5, <3>2, <3>3
        <3>6. Len(x) \in Nat
            BY <1>3
        <3>7. \A i \in 1..l : i \in 1..m
            BY <3>4
        <3>8. m <= Len(x) /\ \A i \in 1..m : x[i] = c[k][i]
            BY <3>2, <3>3
        <3>9. l <= Len(x)
            BY <3>4, <3>6, <3>8
        <3>10. Good(k - 1)
            BY <3>3, <3>5, <3>7, <3>8, <3>9
        <3> QED BY <3>2, <3>10
    <2>3. \A d \in 1..n : d - 1 \in P => d \in P
        BY <2>2
    <2>4. \A d \in 0..n : d \in P
        <3> HIDE DEF P
        <3> QED BY <1>1, <2>1, <2>3, Along
    <2> TAKE k \in 0..n
    <2>5. n - k \in 0..n /\ n - (n - k) = k
        BY <1>1
    <2>6. Good(n - (n - k))
        BY <2>4, <2>5
    <2> HIDE DEF Good
    <2>7. Good(k)
        BY <2>5, <2>6
    <2> QED BY <2>7 DEF Good
<1> DEFINE P == {k \in 0..n : r[Len(c[k])] = SubSeq(idx, 1, k)}
<1>7. 0 \in P
    <2>1. Len(c[0]) = 0 /\ SubSeq(idx, 1, 0) = <<>>
        BY <1>2
    <2> QED BY <1>1, <1>4, <2>1
<1>8. ASSUME NEW k \in 1..n, k - 1 \in P PROVE k \in P
    <2>1. PICK l : l = Len(c[k - 1])
        OBVIOUS
    <2>2. l \in Nat /\ Len(c[k]) \in Nat /\ Len(c[k]) <= Len(x) /\ Len(x) \in Nat /\ k \in 0..n
          /\ (Len(c[k]) = l + 1 \/ Len(c[k]) = l + 2)
        <3>1. k \in 0..n
            BY <1>1
        <3>2. Len(c[k]) <= Len(x)
            BY <1>6, <3>1
        <3>3. Len(x) \in Nat
            BY <1>3
        <3>4. l \in Nat /\ Len(c[k]) \in Nat /\ (Len(c[k]) = l + 1 \/ Len(c[k]) = l + 2)
            BY <1>5, <2>1
        <3> QED BY <3>1, <3>2, <3>3, <3>4
    <2>3. l + 1 \in 1..Len(x) /\ x[l + 1] = <<"entry", idx[k]>>
        <3>1. l + 1 \in 1..Len(c[k]) /\ l + 1 \in 1..Len(x)
            BY <2>2
        <3> QED BY <1>5, <1>6, <2>1, <2>2, <3>1
    <2>4. r[l + 1] = Append(r[l], idx[k])
        <3>1. r[l + 1] = Read(x, l + 1, r[(l + 1) - 1]) /\ (l + 1) - 1 = l
            BY <1>4, <2>2, <2>3
        <3> QED BY <2>3, <3>1 DEF Read
    <2>5. r[l] = SubSeq(idx, 1, k - 1)
        BY <1>8, <2>1
    <2>6. Append(SubSeq(idx, 1, k - 1), idx[k]) = SubSeq(idx, 1, k)
        BY <1>1 DEF n
    <2>7. r[l + 1] = SubSeq(idx, 1, k)
        BY <2>4, <2>5, <2>6
    <2>8. CASE Len(c[k]) = l + 1
        BY <1>1, <2>2, <2>7, <2>8
    <2>9. CASE Len(c[k]) = l + 2
        <3>1. l + 2 \in 1..Len(c[k]) /\ l + 2 \in 1..Len(x) /\ (l + 2) - 1 = l + 1
            BY <2>2, <2>9
        <3>2. c[k][l + 2] = <<"pad">>
            <4>1. Len(c[k]) # l + 1
                BY <2>2, <2>9
            <4> QED BY <1>5, <2>1, <4>1
        <3>3. x[l + 2] = <<"pad">>
            BY <1>6, <2>2, <3>1, <3>2
        <3>4. r[l + 2] = Read(x, l + 2, r[l + 1])
            BY <1>4, <3>1
        <3>5. r[l + 2] = r[l + 1]
            BY <3>3, <3>4, CellIs DEF Read
        <3> QED BY <2>2, <2>7, <2>9, <3>5
    <2> QED BY <2>2, <2>8, <2>9
<1>9. n \in P
    <2>1. \A k \in 1..n : k - 1 \in P => k \in P
        BY <1>8
    <2>2. \A k \in 0..n : k \in P
        <3> HIDE DEF P
        <3> QED BY <1>1, <1>7, <2>1, Along
    <2> QED BY <1>3, <2>2
<1>10. SubSeq(idx, 1, n) = idx
    BY SubSeqFull DEF n
<1> QED BY <1>2, <1>3, <1>4, <1>9, <1>10 DEF x

\* A file with the index idx after the cells x.
LEMMA RoundTrip ==
    ASSUME NEW x \in Seq(Cell), NEW idx \in Seq(Entries)
    PROVE  LET f == x \o WriteIndex(idx)
           IN  /\ WriteIndex(idx) \in Seq(Cell) /\ f \in Seq(Cell) /\ f # <<>>
               /\ Readable(f) /\ IndexPos(f) = Len(x) /\ ReadIndex(f) = idx
               /\ SubSeq(f, 1, IndexPos(f)) = x
               /\ Len(WriteIndex(idx)) \in Nat \ {0}
<1> DEFINE y == CellsOf(idx)
           w == WriteIndex(idx)
           f == x \o w
<1>1. y \in Seq(IndexCell) /\ EntriesOf(y) = idx
    BY CellsRead
<1>2. w = Append(y, <<"tail", Len(y)>>)
    BY DEF WriteIndex, CellsOf
<1> HIDE DEF y, w, f
<1>3. y \in Seq(Cell)
    <2>1. IndexCell \subseteq Cell
        BY CellIs
    <2> QED BY <1>1, <2>1, SeqMonotonic
<1>4. PICK n, m \in Nat : n = Len(x) /\ m = Len(y)
    BY <1>3
<1>5. PICK t : t = <<"tail", m>>
    OBVIOUS
<1>6. t \in Cell /\ t[1] = "tail" /\ t[2] = m
    BY <1>4, <1>5, CellIs
<1>7. /\ w \in Seq(Cell) /\ Len(w) = m + 1 /\ w[m + 1] = t
      /\ \A i \in 1..m : w[i] = y[i]
    BY <1>2, <1>3, <1>4, <1>5, <1>6, AppendProperties
<1>8. /\ f \in Seq(Cell) /\ Len(f) = n + (m + 1)
      /\ \A i \in 1..(n + (m + 1)) : f[i] = IF i <= n THEN x[i] ELSE w[i - n]
    <2>1. /\ x \o w \in Seq(Cell) /\ Len(x \o w) = Len(x) + Len(w)
          /\ \A i \in 1 .. Len(x) + Len(w) : (x \o w)[i] = IF i <= Len(x) THEN x[i] ELSE w[i - Len(x)]
        BY <1>7, ConcatProperties
    <2>2. Len(x) + Len(w) = n + (m + 1)
        BY <1>4, <1>7
    <2> QED BY <1>4, <2>1, <2>2 DEF f
<1>9. f # <<>> /\ Last(f) = t
    <2>1. n + (m + 1) \in 1..(n + (m + 1)) /\ ~(n + (m + 1) <= n) /\ (n + (m + 1)) - n = m + 1
        BY <1>4
    <2>2. f[n + (m + 1)] = t
        BY <1>7, <1>8, <2>1
    <2>3. f # <<>>
        BY <1>4, <1>8
    <2> QED BY <1>8, <2>2, <2>3 DEF Last
<1>10. \A i \in 1..m : f[n + i] = y[i]
    <2> TAKE i \in 1..m
    <2>1. n + i \in 1..(n + (m + 1)) /\ ~(n + i <= n) /\ (n + i) - n = i
        BY <1>4
    <2> QED BY <1>7, <1>8, <2>1
<1>11. Readable(f)
    <2>1. \A i \in (n + 1)..(n + m) : f[i][1] \in {"entry", "pad"}
        <3> TAKE i \in (n + 1)..(n + m)
        <3>1. i - n \in 1..m /\ n + (i - n) = i
            BY <1>4
        <3>2. f[i] = y[i - n]
            BY <1>10, <3>1
        <3>3. y[i - n] \in IndexCell
            BY <1>1, <1>4, <3>1, ElementOfSeq
        <3> QED BY <3>2, <3>3, CellIs
    <2>2. Len(f) - m = n + 1 /\ Len(f) - 1 = n + m /\ m < Len(f)
        BY <1>4, <1>8
    <2> QED BY <1>6, <1>9, <2>1, <2>2 DEF Readable
<1>12. IndexPos(f) = n
    <2>1. Len(f) - 1 - m = n
        BY <1>4, <1>8
    <2> QED BY <1>6, <1>9, <2>1 DEF IndexPos
<1>13. SubSeq(f, n + 1, Len(f) - 1) = y
    <2>1. PICK z : z = SubSeq(f, n + 1, Len(f) - 1)
        OBVIOUS
    <2>2. Len(f) - 1 = n + m
        BY <1>4, <1>8
    <2>3. \A i \in n + 1..n + m : f[i] \in Cell
        BY <1>4, <1>8
    <2>4. /\ z \in Seq(Cell) /\ Len(z) = IF n + 1 <= n + m THEN (n + m) - (n + 1) + 1 ELSE 0
          /\ \A i \in 1..((n + m) - (n + 1) + 1) : z[i] = f[(n + 1) + i - 1]
        <3>1. n + 1 \in Int /\ n + m \in Int
            BY <1>4
        <3> QED BY <2>1, <2>2, <2>3, <3>1, SubSeqProperties
    <2>5. Len(z) = m /\ \A i \in 1..m : z[i] = f[n + i]
        BY <1>4, <2>4
    <2>6. z = y
        BY <1>3, <1>4, <1>10, <2>4, <2>5, SeqEqual
    <2> QED BY <2>1, <2>6
<1>14. ReadIndex(f) = idx
    BY <1>1, <1>12, <1>13 DEF ReadIndex
<1>15. SubSeq(f, 1, n) = x
    <2>1. PICK z : z = SubSeq(f, 1, n)
        OBVIOUS
    <2>2. \A i \in 1..n : f[i] \in Cell /\ f[i] = x[i]
        BY <1>4, <1>8
    <2>3. /\ z \in Seq(Cell) /\ Len(z) = IF 1 <= n THEN n - 1 + 1 ELSE 0
          /\ \A i \in 1..(n - 1 + 1) : z[i] = f[1 + i - 1]
        BY <1>4, <2>1, <2>2, SubSeqProperties
    <2>4. Len(z) = n /\ \A i \in 1..n : z[i] = f[i]
        BY <1>4, <2>3
    <2>5. z = x
        BY <1>4, <2>2, <2>3, <2>4, SeqEqual
    <2> QED BY <2>1, <2>5
<1>16. Len(w) \in Nat \ {0}
    BY <1>4, <1>7
<1>17. f = x \o WriteIndex(idx) /\ w = WriteIndex(idx)
    BY DEF f, w
<1> HIDE DEF f, w
<1> QED BY <1>4, <1>7, <1>8, <1>9, <1>11, <1>12, <1>14, <1>15, <1>16, <1>17

-----------------------------------------------------------------------------
(* The inductive invariant, for a client whose updates are not interrupted   *)
(* by a crash, one page at a time, and a server that orders its acks.        *)

In(s, q) == \E i \in 1..Len(q) : q[i] = s
StepName == {"rmdraft", "lndraft", "dequeue", "synctags", "link", "trunc", "write", "index", "drop"}
Rank(s) == CASE s = "rmdraft" -> 1 [] s = "lndraft" -> 2 [] s = "dequeue" -> 3 [] s = "synctags" -> 4
             [] s = "link" -> 5 [] s = "trunc" -> 6 [] s = "write" -> 7 [] s = "index" -> 8 [] OTHER -> 9
\* The steps that remain, in order: all of rank at least that of the first one.
Remaining(q, S) ==
    /\ q \in Seq(StepName) /\ q # <<>>
    /\ \A i, j \in 1..Len(q) : i < j => Rank(q[i]) < Rank(q[j])
    /\ \A s \in S : In(s, q) \/ Rank(s) < Rank(Head(q))
    /\ \A i \in 1..Len(q) : q[i] \in S

IdsOf(idx) == {idx[i].id : i \in 1..Len(idx)}

\* The index at the end of f; a thread without a file has no index.
Idx(f) == IF f = <<>> THEN <<>> ELSE ReadIndex(f)

\* An index of messages in the order of their ids, and drafts, of a file whose bodies
\* end at end.
Sound(idx, end) ==
    /\ idx \in Seq(Entries)
    /\ \A i \in 1..Len(idx) : (Stored(idx[i]) <=> idx[i].id \in Ids) /\ idx[i].off <= end
    /\ \A i, j \in 1..Len(idx) : i # j => idx[i].id # idx[j].id
    /\ \A i, j \in 1..Len(idx) : i < j /\ Stored(idx[i]) /\ Stored(idx[j]) => idx[i].id < idx[j].id
    /\ Tid \in IdsOf(idx)

\* f is cells and then their index, to be written at pos.
Whole(f, pos) ==
    /\ f # <<>> /\ Readable(f) /\ IndexPos(f) \in Nat /\ SubSeq(f, 1, IndexPos(f)) \in Seq(Cell)
    /\ f = SubSeq(f, 1, IndexPos(f)) \o WriteIndex(ReadIndex(f))
    /\ Sound(ReadIndex(f), pos + IndexPos(f))

\* How a transaction changes the thread file: by a link, or by a copy; before the copy
\* the file is cut, unless what is copied is longer.
Links(t) == t.mid = Tid /\ t.op \in {"sr", "ss"}
Cuts(t) == t.op \notin {"sr", "ss"}

\* A transaction of the handlers: its temporary file is whole.
TransOK(t) ==
    /\ t \in Transactions
    /\ t.new # <<>> => Whole(t.new, t.pos)
    /\ t.op \in {"sr", "ss"} => t.mid \in Ids /\ t.new # <<>> /\ t.mid \in IdsOf(ReadIndex(t.new))
    /\ t.op \in {"sr", "sc", "nr"} => t.draft = None /\ t.new # <<>>
    /\ t.op = "ss" => t.draft \in Drafts /\ (t.draft = NewDraft <=> t.mid = Tid)
    /\ t.op \in {"ws", "ds"} => t.draft \in Drafts /\ (t.draft = NewDraft <=> t.new = <<>>)
    /\ Links(t) => t.pos = 0
StepSet(t) ==
    (IF t.op \in {"ss", "ws", "ds"} THEN {"rmdraft"} ELSE {})
    \cup (IF t.op = "ws" THEN {"lndraft"} ELSE {})
    \cup (IF t.op = "ss" THEN {"dequeue", "synctags"} ELSE {})
    \cup (IF t.new = <<>> THEN {} ELSE IF Links(t) THEN {"link"}
          ELSE IF Cuts(t) THEN {"trunc", "write"} ELSE {"write"})
    \cup {"index", "drop"}

\* The step s of t is done, and no crash came since it was committed or resumed.
Done(t, s) == temp = t /\ ~In(s, todo)

Types ==
    /\ drafts \subseteq Drafts /\ queued \subseteq Drafts /\ listed \in BOOLEAN
    /\ acks \subseteq Drafts \X Ids /\ ours \subseteq Ids /\ got \subseteq Ids
    /\ nextId \in 1..(MaxId + 1)
    /\ opened # None => opened \in [draft: Drafts, mid: Ids]

\* One transaction at most is pending: under way, or left by a crash, which does not
\* interrupt the storing of a reply.
Places ==
    /\ temp # None => left = {}
    /\ None \notin left
    /\ \A s, t \in left : s = t
    /\ \A t \in left : ~SentReply(t)
    /\ mode \in {"up", "down", "recover", "quit"}
    /\ mode = "up" => left = {}
    /\ mode = "down" => temp = None
    /\ mode \in {"down", "recover"} => opened = None /\ updt = None
    /\ \A t \in Pending : TransOK(t)
    /\ temp = None => todo = <<>>
    /\ temp # None => Remaining(todo, StepSet(temp))

\* What is sure of the file while t is pending: the copy can be made (again), and the
\* whole file follows from it.
FileAt(t) ==
    IF t.new = <<>> THEN file = <<>>
    ELSE IF Links(t) THEN file \in {<<>>, t.new} /\ (Done(t, "link") => file = t.new)
    ELSE /\ file \in Seq(Cell) /\ Len(file) >= t.pos
         /\ ~Cuts(t) \/ Done(t, "trunc") => Len(file) <= t.pos + Len(t.new)
         /\ Done(t, "write") => file = SubSeq(file, 1, t.pos) \o t.new
FileOK ==
    /\ \A t \in Pending : FileAt(t)
    /\ Pending = {} => file = <<>> \/ Whole(file, 0)

\* The draft d is queued, or its ack is on its way or is being handled.
Involved(d) == d \in queued \/ (\E a \in acks : a[1] = d) \/ (opened # None /\ opened.draft = d)

\* The draft d in the directory, the index, the queue and the search documents: they
\* agree when no transaction is about d, and one that is brings them to agree.
DraftAt(d) ==
    /\ (\A t \in Pending : t.draft # d) =>
          IF d = NewDraft THEN listed <=> d \in drafts ELSE d \in drafts <=> d \in IdsOf(Index)
    /\ \A t \in Pending : t.draft = d =>
          /\ d # NewDraft => (d \in IdsOf(Index) <=> t.op = "ws")
          /\ Done(t, "rmdraft") /\ t.op # "ws" => d \notin drafts
          /\ Done(t, "rmdraft") /\ t.op = "ss" /\ d = NewDraft => ~listed
          /\ Done(t, "lndraft") /\ t.op = "ws" => d \in drafts
          /\ Done(t, "dequeue") /\ t.op = "ss" => d \notin queued
          /\ Done(t, "index") /\ d = NewDraft /\ t.op # "ss" => (listed <=> t.op = "ws")
          /\ t.op # "ss" => ~Involved(d)
          /\ d = NewDraft /\ t.op # "ss" => t.new = <<>>
    /\ d \in queued => d \in drafts \/ \E t \in Pending : t.op = "ss" /\ t.draft = d

\* An ack that is being handled has its draft, which nobody else changes.
OpenedOK == opened # None => opened.draft \in drafts /\ \A t \in Pending : t.draft # opened.draft
InFlight == acks \cup (IF opened = None THEN {} ELSE {<<opened.draft, opened.mid>>})

\* One ack at most is on its way, for an id larger than those of the index.
FlightOK ==
    /\ \A a, b \in InFlight : a = b
    /\ opened # None => acks = {}
    /\ \A a \in InFlight : /\ a[2] \in ours
                           /\ a[1] = NewDraft => a[2] = Tid
                           /\ a[1] # NewDraft => a[2] # Tid /\ \A m \in IdsOf(Index) \cap Ids : m < a[2]
    /\ \A m \in IdsOf(Index) \cap Ids : m < nextId
    /\ \A m \in ours : m < nextId

\* The draft of the thread is there before the thread file only.
NewOK ==
    /\ NewDraft \in drafts \cup queued \/ (\E a \in acks : a[1] = NewDraft) \/ (\E t \in Pending : t.draft = NewDraft)
         => First = "sent"
    /\ NewDraft \in drafts => file = <<>> /\ \A t \in Pending : t.new # <<>> => t.op = "ss" /\ t.draft = NewDraft
    /\ First = "sent" /\ nextId > Tid => Tid \in ours
    /\ nextId = Tid => file = <<>> /\ \A t \in Pending : t.new = <<>>

\* The search document follows the index.
DocOK ==
    /\ \A t \in Pending : Done(t, "index") /\ t.new # <<>> => doc = Summary(ReadIndex(t.new))
    /\ (\A t \in Pending : t.new = <<>>) => doc = IF file = <<>> THEN None ELSE Summary(ReadIndex(file))

\* The messages that nobody else keeps for us, and those of a forwarded thread, are in
\* the index; the draft of the thread is not.
GotOK == got \subseteq IdsOf(Index) /\ Forwarded \subseteq got /\ NewDraft \notin IdsOf(Index)

IInv == /\ Types /\ Places /\ FileOK /\ (\A d \in Drafts : DraftAt(d)) /\ OpenedOK
        /\ FlightOK /\ NewOK /\ DocOK /\ GotOK

-----------------------------------------------------------------------------
(* The steps of a transaction.                                             *)

\* q is in the order of the ranks, from l to u, and holds the steps S.
Ranged(q, l, u, S) ==
    /\ q \in Seq(StepName)
    /\ \A i, j \in 1..Len(q) : i < j => Rank(q[i]) < Rank(q[j])
    /\ \A s : In(s, q) <=> s \in S
    /\ \A s \in S : l <= Rank(s) /\ Rank(s) <= u

LEMMA RankIs == \A s : Rank(s) \in 1..9
BY DEF Rank

LEMMA RangedEmpty == ASSUME NEW l, NEW u PROVE Ranged(<<>>, l, u, {})
BY DEF Ranged, In

LEMMA RangedOne ==
    ASSUME NEW a \in StepName, NEW l \in Nat, NEW u \in Nat, l <= Rank(a), Rank(a) <= u
    PROVE  Ranged(<<a>>, l, u, {a})
<1>1. <<a>> \in Seq(StepName) /\ Len(<<a>>) = 1 /\ <<a>>[1] = a
    OBVIOUS
<1>2. \A s : In(s, <<a>>) <=> s \in {a}
    BY <1>1 DEF In
<1>3. \A i, j \in 1..1 : ~(i < j)
    OBVIOUS
<1> QED BY <1>1, <1>2, <1>3 DEF Ranged

LEMMA RangedConcat ==
    ASSUME NEW l \in Nat, NEW m \in Nat, NEW n \in Nat, NEW u \in Nat, l <= m, m < n, n <= u,
           NEW a, NEW b, NEW A, NEW B, Ranged(a, l, m, A), Ranged(b, n, u, B)
    PROVE  Ranged(a \o b, l, u, A \cup B)
<1> DEFINE c == a \o b
<1>1. a \in Seq(StepName) /\ b \in Seq(StepName)
    BY DEF Ranged
<1>2. PICK k, h \in Nat : k = Len(a) /\ h = Len(b)
    BY <1>1
<1>3. /\ c \in Seq(StepName) /\ Len(c) = k + h
      /\ \A i \in 1..k : c[i] = a[i]
      /\ \A j \in 1..h : c[k + j] = b[j]
    <2>1. /\ c \in Seq(StepName) /\ Len(c) = Len(a) + Len(b)
          /\ \A i \in 1..Len(a) + Len(b) : c[i] = IF i <= Len(a) THEN a[i] ELSE b[i - Len(a)]
        BY <1>1, ConcatProperties
    <2>2. \A i \in 1..k + h : c[i] = IF i <= k THEN a[i] ELSE b[i - k]
        BY <1>2, <2>1
    <2> HIDE DEF c
    <2>3. \A i \in 1..k : i \in 1..k + h /\ i <= k
        BY <1>2
    <2>4. \A j \in 1..h : k + j \in 1..k + h /\ ~(k + j <= k) /\ (k + j) - k = j
        BY <1>2
    <2>5. \A i \in 1..k : c[i] = a[i]
        BY <2>2, <2>3
    <2>6. \A j \in 1..h : c[k + j] = b[j]
        BY <2>2, <2>4
    <2> QED BY <1>2, <2>1, <2>5, <2>6
<1> HIDE DEF c
<1>4. \A i \in 1..k + h : i \in 1..k \/ (i - k \in 1..h /\ i = k + (i - k))
    BY <1>2
<1>5. \A i \in 1..k + h : \/ i \in 1..k /\ c[i] = a[i] /\ a[i] \in A
                          \/ i - k \in 1..h /\ c[i] = b[i - k] /\ b[i - k] \in B
    <2>1. \A i \in 1..k : In(a[i], a)
        BY <1>2 DEF In
    <2>2. \A i \in 1..h : In(b[i], b)
        BY <1>2 DEF In
    <2>3. (\A i \in 1..k : a[i] \in A) /\ \A i \in 1..h : b[i] \in B
        BY <2>1, <2>2 DEF Ranged
    <2> TAKE i \in 1..k + h
    <2>4. CASE i \in 1..k
        BY <1>3, <2>3, <2>4
    <2>5. CASE i - k \in 1..h /\ i = k + (i - k)
        <3>1. PICK j \in 1..h : j = i - k
            BY <2>5
        <3>2. c[k + j] = b[j] /\ b[j] \in B /\ i = k + j
            BY <1>3, <2>3, <2>5, <3>1
        <3> QED BY <3>1, <3>2
    <2> QED BY <1>4, <2>4, <2>5
<1>6. ASSUME NEW i \in 1..k + h, NEW j \in 1..k + h, i < j PROVE Rank(c[i]) < Rank(c[j])
    <2>1. (\A s \in A : Rank(s) <= m) /\ (\A s \in B : n <= Rank(s)) /\ \A s : Rank(s) \in 1..9
        BY RankIs DEF Ranged
    <2>2. CASE i \in 1..k /\ j \in 1..k
        BY <1>2, <1>3, <1>6, <2>2 DEF Ranged
    <2>3. CASE i \in 1..k /\ j \notin 1..k
        <3>1. c[i] \in A /\ c[j] \in B
            <4>1. ~(i - k \in 1..h)
                BY <1>2, <2>3
            <4> QED BY <1>5, <2>3, <4>1
        <3>2. Rank(c[i]) <= m /\ n <= Rank(c[j]) /\ Rank(c[i]) \in Nat /\ Rank(c[j]) \in Nat
            BY <2>1, <3>1
        <3> QED BY <3>2
    <2>4. CASE i \notin 1..k
        <3>1. j \notin 1..k
            BY <1>2, <1>6, <2>4
        <3>2. /\ i - k \in 1..h /\ c[i] = b[i - k]
              /\ j - k \in 1..h /\ c[j] = b[j - k]
            BY <1>5, <2>4, <3>1
        <3>3. i - k < j - k
            BY <1>2, <1>6
        <3> QED BY <1>2, <3>2, <3>3 DEF Ranged
    <2> QED BY <2>2, <2>3, <2>4
<1>7. ASSUME NEW s PROVE In(s, c) <=> s \in A \cup B
    <2>1. ASSUME In(s, c) PROVE s \in A \cup B
        BY <1>3, <1>5, <2>1 DEF In
    <2>2. ASSUME s \in A PROVE In(s, c)
        <3>1. PICK i \in 1..k : a[i] = s
            BY <1>2, <2>2 DEF Ranged, In
        <3>2. c[i] = s /\ i \in 1..k + h
            BY <1>2, <1>3, <3>1
        <3> QED BY <1>3, <3>2 DEF In
    <2>3. ASSUME s \in B PROVE In(s, c)
        <3>1. PICK i \in 1..h : b[i] = s
            BY <1>2, <2>3 DEF Ranged, In
        <3>2. c[k + i] = s
            BY <1>3, <3>1
        <3>3. k + i \in 1..k + h
            BY <1>2
        <3> QED BY <1>3, <3>2, <3>3 DEF In
    <2> QED BY <2>1, <2>2, <2>3
<1>8. \A s \in A \cup B : l <= Rank(s) /\ Rank(s) <= u
    <2>1. \A s \in A : l <= Rank(s) /\ Rank(s) <= m
        BY DEF Ranged
    <2>2. \A s \in B : n <= Rank(s) /\ Rank(s) <= u
        BY DEF Ranged
    <2>3. \A s : Rank(s) \in Int
        BY RankIs
    <2> QED BY <2>1, <2>2, <2>3
<1>9. Ranged(c, l, u, A \cup B)
    BY <1>3, <1>6, <1>7, <1>8 DEF Ranged
<1> QED BY <1>9 DEF c

LEMMA PairIs ==
    ASSUME NEW S, NEW x \in S, NEW y \in S
    PROVE  <<x>> \o <<y>> = <<x, y>>
<1>1. /\ <<x>> \in Seq(S) /\ <<y>> \in Seq(S) /\ <<x, y>> \in Seq(S)
      /\ Len(<<x>>) = 1 /\ Len(<<y>>) = 1 /\ Len(<<x, y>>) = 2
    OBVIOUS
<1>2. \A i \in 1..2 : (<<x>> \o <<y>>)[i] = <<x, y>>[i]
    OBVIOUS
<1>3. <<x>> \o <<y>> \in Seq(S) /\ Len(<<x>> \o <<y>>) = 2
    BY <1>1, ConcatProperties
<1> QED BY <1>1, <1>2, <1>3, SeqEqual

LEMMA StepsAre ==
    ASSUME NEW t, t.op \in {"sr", "ss"} => t.new # <<>>
    PROVE  Ranged(Steps(t), 1, 9, StepSet(t))
<1> DEFINE a == IF t.op \in {"ss", "ws", "ds"} THEN <<"rmdraft">> ELSE <<>>
           b == IF t.op = "ws" THEN <<"lndraft">> ELSE <<>>
           c == IF t.op = "ss" THEN <<"dequeue", "synctags">> ELSE <<>>
           d == CASE t.new = <<>> -> <<>>
                  [] t.mid = Tid /\ t.op \in {"sr", "ss"} -> <<"link">>
                  [] t.mid # Tid /\ t.op \in {"sr", "ss"} -> <<"write">>
                  [] OTHER -> <<"trunc", "write">>
           e == <<"index", "drop">>
           A == IF t.op \in {"ss", "ws", "ds"} THEN {"rmdraft"} ELSE {}
           B == IF t.op = "ws" THEN {"lndraft"} ELSE {}
           C == IF t.op = "ss" THEN {"dequeue", "synctags"} ELSE {}
           D == IF t.new = <<>> THEN {} ELSE IF Links(t) THEN {"link"}
                ELSE IF Cuts(t) THEN {"trunc", "write"} ELSE {"write"}
           E == {"index", "drop"}
<1>1. /\ Rank("rmdraft") = 1 /\ Rank("lndraft") = 2 /\ Rank("dequeue") = 3 /\ Rank("synctags") = 4
      /\ Rank("link") = 5 /\ Rank("trunc") = 6 /\ Rank("write") = 7 /\ Rank("index") = 8 /\ Rank("drop") = 9
    BY DEF Rank
<1>2. {"rmdraft", "lndraft", "dequeue", "synctags", "link", "trunc", "write", "index", "drop"} \subseteq StepName
    BY DEF StepName
<1>3. Ranged(a, 1, 1, A)
    <2>1. Ranged(<<"rmdraft">>, 1, 1, {"rmdraft"})
        BY <1>2, <1>1, RangedOne
    <2> QED BY <2>1, RangedEmpty
<1>4. Ranged(b, 2, 2, B)
    <2>1. Ranged(<<"lndraft">>, 2, 2, {"lndraft"})
        BY <1>2, <1>1, RangedOne
    <2> QED BY <2>1, RangedEmpty
<1>5. ASSUME NEW x \in StepName, NEW y \in StepName, NEW l \in Nat, NEW u \in Nat,
             l <= Rank(x), Rank(x) < Rank(y), Rank(y) <= u, Rank(x) \in Nat, Rank(y) \in Nat
      PROVE  Ranged(<<x, y>>, l, u, {x, y})
    <2>1. Ranged(<<x>>, l, Rank(x), {x}) /\ Ranged(<<y>>, Rank(y), u, {y})
        BY <1>5, RangedOne
    <2>2. Ranged(<<x>> \o <<y>>, l, u, {x} \cup {y})
        BY <1>5, <2>1, RangedConcat
    <2>3. <<x>> \o <<y>> = <<x, y>>
        BY PairIs
    <2>4. {x} \cup {y} = {x, y}
        OBVIOUS
    <2> QED BY <2>2, <2>3, <2>4
<1>6. Ranged(c, 3, 4, C)
    <2>1. Ranged(<<"dequeue", "synctags">>, 3, 4, {"dequeue", "synctags"})
        BY <1>2, <1>1, <1>5
    <2> QED BY <2>1, RangedEmpty
<1>7. Ranged(d, 5, 7, D)
    <2>1. Ranged(<<"link">>, 5, 7, {"link"}) /\ Ranged(<<"write">>, 5, 7, {"write"})
        BY <1>2, <1>1, RangedOne
    <2>2. Ranged(<<"trunc", "write">>, 5, 7, {"trunc", "write"})
        BY <1>2, <1>1, <1>5
    <2>3. Ranged(<<>>, 5, 7, {})
        BY RangedEmpty
    <2>4. CASE t.new = <<>>
        BY <2>3, <2>4
    <2>5. CASE t.new # <<>> /\ t.op \in {"sr", "ss"} /\ t.mid = Tid
        BY <2>1, <2>5 DEF Links
    <2>6. CASE t.new # <<>> /\ t.op \in {"sr", "ss"} /\ t.mid # Tid
        BY <2>1, <2>6 DEF Links, Cuts
    <2>7. CASE t.new # <<>> /\ t.op \notin {"sr", "ss"}
        BY <2>2, <2>7 DEF Links, Cuts
    <2> QED BY <2>4, <2>5, <2>6, <2>7
<1>8. Ranged(e, 8, 9, E)
    BY <1>2, <1>1, <1>5
<1>9. Steps(t) = a \o b \o c \o d \o e
    BY DEF Steps
<1>10. StepSet(t) = A \cup B \cup C \cup D \cup E
    BY DEF StepSet
<1> HIDE DEF a, b, c, d, e, A, B, C, D, E
<1>11. Ranged(a \o b, 1, 2, A \cup B)
    BY <1>3, <1>4, RangedConcat
<1>12. Ranged(a \o b \o c, 1, 4, A \cup B \cup C)
    <2>1. PICK x, X : x = a \o b /\ X = A \cup B
        OBVIOUS
    <2>2. Ranged(x \o c, 1, 4, X \cup C)
        BY <1>6, <1>11, <2>1, RangedConcat
    <2> QED BY <2>1, <2>2
<1>13. Ranged(a \o b \o c \o d, 1, 7, A \cup B \cup C \cup D)
    BY <1>7, <1>12, RangedConcat
<1>14. Ranged(a \o b \o c \o d \o e, 1, 9, A \cup B \cup C \cup D \cup E)
    BY <1>8, <1>13, RangedConcat
<1> QED BY <1>9, <1>10, <1>14

LEMMA RemainingFirst ==
    ASSUME NEW q, NEW S, Ranged(q, 1, 9, S), "drop" \in S
    PROVE  Remaining(q, S)
<1>1. PICK i \in 1..Len(q) : q[i] = "drop"
    BY DEF Ranged, In
<1>2. q \in Seq(StepName) /\ q # <<>>
    BY <1>1 DEF Ranged
<1>3. \A j \in 1..Len(q) : q[j] \in S
    BY DEF Ranged, In
<1> QED BY <1>2, <1>3 DEF Ranged, Remaining

LEMMA RemainingNext ==
    ASSUME NEW q, NEW S, Remaining(q, S), "drop" \in S
    PROVE  /\ Head(q) \in S /\ In(Head(q), q)
           /\ Tail(q) \in Seq(StepName)
           /\ \A s : In(s, Tail(q)) <=> In(s, q) /\ s # Head(q)
           /\ \A s \in S : In(s, q) <=> ~(Rank(s) < Rank(Head(q)))
           /\ Head(q) # "drop" => Remaining(Tail(q), S)
           /\ Head(q) = "drop" => Tail(q) = <<>>
<1> DEFINE h == Head(q)
           r == Tail(q)
<1>1. q \in Seq(StepName) /\ q # <<>>
    BY DEF Remaining
<1>2. PICK n \in Nat : Len(q) = n + 1
    <2>1. Len(q) \in Nat /\ Len(q) # 0
        BY <1>1
    <2>2. Len(q) = (Len(q) - 1) + 1 /\ Len(q) - 1 \in Nat
        BY <2>1
    <2> QED BY <2>2
<1>3. h = q[1] /\ r \in Seq(StepName) /\ Len(r) = n /\ \A i \in 1..n : r[i] = q[i + 1]
    BY <1>1, <1>2, HeadTailProperties
<1> HIDE DEF h, r
<1>4. (\A i \in 1..n : i + 1 \in 1..n + 1) /\ 1 \in 1..n + 1
      /\ \A i \in 1..n + 1 : i = 1 \/ (i - 1 \in 1..n /\ (i - 1) + 1 = i)
    BY <1>2
<1>5. \A i, j \in 1..n + 1 : i < j => Rank(q[i]) < Rank(q[j])
    BY <1>2 DEF Remaining
<1>6. h \in S /\ In(h, q)
    BY <1>2, <1>3, <1>4 DEF Remaining, In
<1>7. \A i \in 1..n : Rank(h) < Rank(r[i])
    BY <1>2, <1>3, <1>4, <1>5
<1>8. \A s : Rank(s) \in Nat
    BY RankIs
<1>9. \A s : In(s, r) <=> In(s, q) /\ s # h
    <2>1. ASSUME NEW s, In(s, r) PROVE In(s, q) /\ s # h
        <3>1. PICK i \in 1..n : r[i] = s
            BY <1>3, <2>1 DEF In
        <3>2. q[i + 1] = s /\ Rank(h) < Rank(s)
            BY <1>3, <1>7, <3>1
        <3>3. s # h
            BY <1>8, <3>2
        <3> QED BY <1>2, <1>4, <3>2, <3>3 DEF In
    <2>2. ASSUME NEW s, In(s, q), s # h PROVE In(s, r)
        <3>1. PICK i \in 1..n + 1 : q[i] = s
            BY <1>2, <2>2 DEF In
        <3>2. i - 1 \in 1..n /\ r[i - 1] = s
            BY <1>3, <1>4, <2>2, <3>1
        <3> QED BY <1>3, <3>2 DEF In
    <2> QED BY <2>1, <2>2
<1>10. ASSUME NEW s \in S PROVE In(s, q) <=> ~(Rank(s) < Rank(h))
    <2>1. In(s, q) \/ Rank(s) < Rank(h)
        BY DEF Remaining, h
    <2>2. ASSUME In(s, q) PROVE ~(Rank(s) < Rank(h))
        <3>1. PICK i \in 1..n + 1 : q[i] = s
            BY <1>2, <2>2 DEF In
        <3>2. s = h \/ Rank(h) < Rank(s)
            BY <1>3, <1>4, <1>5, <3>1
        <3> QED BY <1>8, <3>2
    <2> QED BY <2>1, <2>2
<1>11. ASSUME h # "drop" PROVE Remaining(r, S)
    <2>1. In("drop", q)
        <3>1. Rank("drop") = 9 /\ Rank(h) \in 1..9
            BY RankIs DEF Rank
        <3>2. ~(Rank("drop") < Rank(h))
            BY <3>1
        <3> QED BY <1>10, <3>2
    <2>2. PICK k \in 1..n : r[k] = "drop"
        BY <1>3, <1>9, <1>11, <2>1 DEF In
    <2>3. r # <<>> /\ 1 \in 1..n
        BY <1>3, <2>2
    <2>4. Head(r) = r[1]
        BY <1>3, <2>3
    <2>5. \A i, j \in 1..n : i < j => Rank(r[i]) < Rank(r[j])
        <3> TAKE i, j \in 1..n
        <3>1. i < j => i + 1 < j + 1
            BY <1>2
        <3> QED BY <1>3, <1>4, <1>5, <3>1
    <2>6. ASSUME NEW s \in S PROVE In(s, r) \/ Rank(s) < Rank(Head(r))
        <3>1. CASE In(s, q) /\ s # h
            BY <1>9, <3>1
        <3>2. CASE s = h
            BY <1>7, <2>3, <2>4, <3>2
        <3>3. CASE ~In(s, q)
            <4>1. Rank(s) < Rank(h) /\ Rank(h) < Rank(r[1])
                BY <1>7, <1>10, <2>3, <3>3
            <4> QED BY <1>8, <2>4, <4>1
        <3> QED BY <3>1, <3>2, <3>3
    <2>7. \A i \in 1..n : r[i] \in S
        BY <1>2, <1>3, <1>4 DEF Remaining
    <2> QED BY <1>3, <2>3, <2>5, <2>6, <2>7 DEF Remaining
<1>12. ASSUME h = "drop" PROVE r = <<>>
    <2>1. n = 0
        <3> SUFFICES ASSUME n # 0 PROVE FALSE
            OBVIOUS
        <3>1. 1 \in 1..n
            BY <1>2
        <3>2. 9 < Rank(r[1])
            <4>1. Rank("drop") = 9
                BY DEF Rank
            <4> QED BY <1>7, <1>12, <3>1, <4>1
        <3>3. Rank(r[1]) \in 1..9
            BY RankIs
        <3> QED BY <3>2, <3>3
    <2> QED BY <1>3, <2>1
<1> QED BY <1>3, <1>6, <1>9, <1>10, <1>11, <1>12 DEF h, r

-----------------------------------------------------------------------------
(* The length of an index: a cell for each entry and one for each tag.     *)

Tags(idx) == {i \in 1..Len(idx) : idx[i].tag}

LEMMA CellsLen ==
    ASSUME NEW idx \in Seq(Entries)
    PROVE  /\ IsFiniteSet(Tags(idx)) /\ Cardinality(Tags(idx)) \in Nat
           /\ Len(CellsOf(idx)) = Len(idx) + Cardinality(Tags(idx))
<1> DEFINE n == Len(idx)
           T(k) == {i \in 1..k : idx[i].tag}
<1>1. n \in Nat /\ \A i \in 1..n : idx[i] \in Entries
    OBVIOUS
<1>2. PICK c \in [0..n -> Seq(IndexCell)] :
          /\ c[0] = <<>> /\ \A i \in 1..n : c[i] = c[i - 1] \o IndexCells(idx[i])
          /\ CellsOf(idx) = c[n]
    BY CellsAre
<1> HIDE DEF n
<1> DEFINE P == {k \in 0..n : IsFiniteSet(T(k)) /\ Cardinality(T(k)) \in Nat /\ Len(c[k]) = k + Cardinality(T(k))}
<1>3. 0 \in P
    <2>1. T(0) = {}
        OBVIOUS
    <2>2. IsFiniteSet(T(0)) /\ Cardinality(T(0)) = 0
        <3> HIDE DEF T
        <3> QED BY <2>1, FS_EmptySet
    <2>3. Len(c[0]) = 0
        BY <1>2
    <2> HIDE DEF T
    <2>4. IsFiniteSet(T(0)) /\ Cardinality(T(0)) \in Nat /\ Len(c[0]) = 0 + Cardinality(T(0))
        BY <2>2, <2>3
    <2>5. 0 \in 0..n
        BY <1>1
    <2> QED BY <2>4, <2>5
<1>4. ASSUME NEW k \in 1..n, k - 1 \in P PROVE k \in P
    <2>1. k \in 0..n /\ k - 1 \in 0..n
        BY <1>1
    <2>2. T(k) = (IF idx[k].tag THEN T(k - 1) \cup {k} ELSE T(k - 1)) /\ k \notin T(k - 1)
        <3>1. \A i \in 1..k : i = k \/ i \in 1..(k - 1)
            BY <1>1
        <3>2. k \in 1..k /\ k \notin 1..(k - 1) /\ \A i \in 1..(k - 1) : i \in 1..k
            BY <1>1
        <3> QED BY <3>1, <3>2
    <2> HIDE DEF T
    <2>3. /\ IsFiniteSet(T(k - 1)) /\ Cardinality(T(k - 1)) \in Nat
          /\ Len(c[k - 1]) = k - 1 + Cardinality(T(k - 1))
        BY <1>4
    <2>4. Len(c[k]) = Len(c[k - 1]) + Len(IndexCells(idx[k]))
        <3>1. PICK a, b : a = c[k - 1] /\ b = IndexCells(idx[k])
            OBVIOUS
        <3>2. a \in Seq(IndexCell) /\ b \in Seq(IndexCell)
            BY <1>1, <1>2, <2>1, <3>1, IndexCellsIs
        <3>3. Len(a \o b) = Len(a) + Len(b)
            BY <3>2, ConcatProperties
        <3>4. c[k] = a \o b
            BY <1>2, <3>1
        <3> QED BY <3>1, <3>3, <3>4
    <2>5. CASE idx[k].tag
        <3>1. Len(IndexCells(idx[k])) = 2
            BY <2>5 DEF IndexCells
        <3>2. IsFiniteSet(T(k)) /\ Cardinality(T(k)) = Cardinality(T(k - 1)) + 1
            BY <2>2, <2>3, <2>5, FS_AddElement
        <3>3. Len(c[k]) = k + Cardinality(T(k)) /\ Cardinality(T(k)) \in Nat
            <4>1. k - 1 \in Nat /\ k = (k - 1) + 1
                BY <1>1
            <4>2. PICK l \in Nat : l = k - 1
                BY <4>1
            <4>3. PICK q \in Nat : q = Cardinality(T(k - 1))
                BY <2>3
            <4>4. Len(c[k]) = (l + q) + 2 /\ Cardinality(T(k)) = q + 1 /\ k = l + 1
                BY <2>3, <2>4, <3>1, <3>2, <4>1, <4>2, <4>3
            <4> QED BY <4>4
        <3> QED BY <2>1, <3>2, <3>3
    <2>6. CASE ~idx[k].tag
        <3>1. Len(IndexCells(idx[k])) = 1
            BY <2>6 DEF IndexCells
        <3>2. T(k) = T(k - 1)
            BY <2>2, <2>6
        <3> QED BY <1>1, <2>1, <2>3, <2>4, <3>1, <3>2
    <2> QED BY <2>5, <2>6
<1>5. \A k \in 1..n : k - 1 \in P => k \in P
    BY <1>4
<1>6. \A k \in 0..n : k \in P
    <2> HIDE DEF P
    <2> QED BY <1>1, <1>3, <1>5, Along
<1>7. n \in P
    BY <1>1, <1>6
<1>8. T(n) = Tags(idx)
    BY DEF Tags, n
<1> HIDE DEF T
<1> QED BY <1>2, <1>7, <1>8 DEF n

\* An index with an entry for each entry of another, with the same tag, is as long.
\* g finds a place in b for each entry of a, with the same tag.
Fits(a, b, g) ==
    /\ a \in Seq(Entries) /\ b \in Seq(Entries) /\ g \in [1..Len(a) -> 1..Len(b)]
    /\ \A i, j \in 1..Len(a) : g[i] = g[j] => i = j
    /\ \A i \in 1..Len(a) : b[g[i]].tag = a[i].tag

LEMMA CellsLonger ==
    ASSUME NEW a, NEW b, NEW g, Fits(a, b, g)
    PROVE  Len(CellsOf(a)) <= Len(CellsOf(b))
<1> /\ a \in Seq(Entries) /\ b \in Seq(Entries) /\ g \in [1..Len(a) -> 1..Len(b)]
    /\ \A i, j \in 1..Len(a) : g[i] = g[j] => i = j
    /\ \A i \in 1..Len(a) : b[g[i]].tag = a[i].tag
    BY DEF Fits
<1>1. PICK m, n \in Nat : m = Len(a) /\ n = Len(b)
    OBVIOUS
<1>2. /\ IsFiniteSet(Tags(a)) /\ Cardinality(Tags(a)) \in Nat
      /\ Len(CellsOf(a)) = m + Cardinality(Tags(a))
    BY <1>1, CellsLen
<1>3. /\ IsFiniteSet(Tags(b)) /\ Cardinality(Tags(b)) \in Nat
      /\ Len(CellsOf(b)) = n + Cardinality(Tags(b))
    BY <1>1, CellsLen
<1>4. m <= n
    <2>1. g \in Injection(1..m, 1..n)
        BY <1>1 DEF Injection, IsInjective
    <2>2. ASSUME NEW k \in Nat PROVE IsFiniteSet(1..k) /\ Cardinality(1..k) = k
        <3>1. IsFiniteSet(1..k) /\ Cardinality(1..k) = IF 1 > k THEN 0 ELSE k - 1 + 1
            BY FS_Interval
        <3> QED BY <3>1
    <2>3. Cardinality(1..m) <= Cardinality(1..n)
        BY <2>1, <2>2, FS_Injection
    <2> QED BY <1>1, <2>2, <2>3
<1>5. Cardinality(Tags(a)) <= Cardinality(Tags(b))
    <2> DEFINE h == [i \in Tags(a) |-> g[i]]
    <2>1. h \in [Tags(a) -> Tags(b)]
        BY DEF Tags
    <2>2. \A i, j \in Tags(a) : h[i] = h[j] => i = j
        BY DEF Tags
    <2>3. h \in Injection(Tags(a), Tags(b))
        BY <2>1, <2>2 DEF Injection, IsInjective
    <2> HIDE DEF h
    <2> QED BY <1>3, <2>3, FS_Injection
<1> QED BY <1>1, <1>2, <1>3, <1>4, <1>5

-----------------------------------------------------------------------------
(* Whole files, and writing to them.                                       *)

LEMMA WriteIndexLen ==
    ASSUME NEW idx \in Seq(Entries)
    PROVE  Len(WriteIndex(idx)) = Len(CellsOf(idx)) + 1
<1>1. PICK y : y = CellsOf(idx)
    OBVIOUS
<1>2. y \in Seq(IndexCell)
    BY <1>1, CellsRead
<1>3. WriteIndex(idx) = Append(y, <<"tail", Len(y)>>)
    BY <1>1 DEF WriteIndex, CellsOf
<1>4. Len(Append(y, <<"tail", Len(y)>>)) = Len(y) + 1
    BY <1>2
<1> QED BY <1>1, <1>3, <1>4

LEMMA WholeIs ==
    ASSUME NEW x \in Seq(Cell), NEW idx, NEW pos, Sound(idx, pos + Len(x))
    PROVE  LET f == x \o WriteIndex(idx)
           IN  /\ Whole(f, pos) /\ ReadIndex(f) = idx /\ IndexPos(f) = Len(x)
               /\ f \in Seq(Cell) /\ f # <<>>
<1>1. idx \in Seq(Entries)
    BY DEF Sound
<1>2. PICK f : f = x \o WriteIndex(idx)
    OBVIOUS
<1>3. /\ f \in Seq(Cell) /\ f # <<>> /\ Readable(f) /\ IndexPos(f) = Len(x) /\ ReadIndex(f) = idx
      /\ SubSeq(f, 1, IndexPos(f)) = x
    BY <1>1, <1>2, RoundTrip
<1>4. Len(x) \in Nat
    OBVIOUS
<1>5. Whole(f, pos)
    BY <1>2, <1>3, <1>4 DEF Whole
<1> QED BY <1>2, <1>3, <1>5

LEMMA WholeHas ==
    ASSUME NEW f, NEW pos, Whole(f, pos)
    PROVE  /\ f \in Seq(Cell) /\ f # <<>> /\ ReadIndex(f) \in Seq(Entries)
           /\ IndexPos(f) \in Nat /\ SubSeq(f, 1, IndexPos(f)) \in Seq(Cell)
           /\ Len(SubSeq(f, 1, IndexPos(f))) = IndexPos(f)
           /\ Len(f) = IndexPos(f) + Len(WriteIndex(ReadIndex(f)))
           /\ Len(WriteIndex(ReadIndex(f))) \in Nat \ {0}
           /\ Sound(ReadIndex(f), pos + IndexPos(f))
<1>1. PICK x, idx : x = SubSeq(f, 1, IndexPos(f)) /\ idx = ReadIndex(f)
    OBVIOUS
<1>2. x \in Seq(Cell) /\ idx \in Seq(Entries) /\ f = x \o WriteIndex(idx) /\ f # <<>>
      /\ Sound(ReadIndex(f), pos + IndexPos(f)) /\ IndexPos(f) \in Nat
    BY <1>1 DEF Whole, Sound
<1>3. /\ WriteIndex(idx) \in Seq(Cell) /\ x \o WriteIndex(idx) \in Seq(Cell)
      /\ IndexPos(x \o WriteIndex(idx)) = Len(x)
      /\ Len(WriteIndex(idx)) \in Nat \ {0}
    BY <1>2, RoundTrip
<1>4. Len(x \o WriteIndex(idx)) = Len(x) + Len(WriteIndex(idx))
    BY <1>2, <1>3, ConcatProperties
<1>5. Len(f) = Len(x) + Len(WriteIndex(idx)) /\ IndexPos(f) = Len(x)
    BY <1>2, <1>3, <1>4
<1> QED BY <1>1, <1>2, <1>3, <1>5

\* What is written after the cells y of a file is the index of the file.
LEMMA WholeAfter ==
    ASSUME NEW y \in Seq(Cell), NEW f, Whole(f, Len(y))
    PROVE  Whole(y \o f, 0) /\ ReadIndex(y \o f) = ReadIndex(f)
<1>1. PICK x, idx : x = SubSeq(f, 1, IndexPos(f)) /\ idx = ReadIndex(f)
    OBVIOUS
<1>2. /\ x \in Seq(Cell) /\ idx \in Seq(Entries) /\ f = x \o WriteIndex(idx)
      /\ IndexPos(f) = Len(x) /\ Sound(idx, Len(y) + Len(x)) /\ WriteIndex(idx) \in Seq(Cell)
    BY <1>1, WholeHas, RoundTrip DEF Whole
<1>3. y \o f = (y \o x) \o WriteIndex(idx)
    <2>1. PICK w : w = WriteIndex(idx)
        OBVIOUS
    <2>2. (y \o x) \o w = y \o (x \o w)
        <3>1. x \in Seq(Cell) /\ w \in Seq(Cell)
            BY <1>2, <2>1
        <3> QED BY <3>1, ConcatAssociative
    <2> QED BY <1>2, <2>1, <2>2
<1>4. y \o x \in Seq(Cell) /\ Len(y \o x) = Len(y) + Len(x)
    BY <1>2, ConcatProperties
<1>5. Sound(idx, 0 + Len(y \o x))
    <2>1. Len(y) + Len(x) = 0 + Len(y \o x)
        BY <1>2, <1>4
    <2> QED BY <1>2, <2>1
<1>6. Whole((y \o x) \o WriteIndex(idx), 0) /\ ReadIndex((y \o x) \o WriteIndex(idx)) = idx
    BY <1>4, <1>5, WholeIs
<1> QED BY <1>1, <1>3, <1>6

LEMMA Cut ==
    ASSUME NEW f \in Seq(Cell), NEW n \in Nat, n <= Len(f)
    PROVE  SubSeq(f, 1, n) \in Seq(Cell) /\ Len(SubSeq(f, 1, n)) = n
<1>1. Len(f) \in Nat /\ \A i \in 1..n : f[i] \in Cell
    OBVIOUS
<1>2. SubSeq(f, 1, n) \in Seq(Cell) /\ Len(SubSeq(f, 1, n)) = IF 1 <= n THEN n - 1 + 1 ELSE 0
    BY <1>1, SubSeqProperties
<1> QED BY <1>2

LEMMA FirstCells ==
    ASSUME NEW y \in Seq(Cell), NEW z \in Seq(Cell)
    PROVE  SubSeq(y \o z, 1, Len(y)) = y
<1>1. PICK n \in Nat : n = Len(y)
    OBVIOUS
<1>2. CASE n = 0
    <2>1. y = <<>>
        BY <1>1, <1>2, EmptySeq
    <2>2. SubSeq(y \o z, 1, 0) = <<>>
        BY SubSeqEmpty
    <2> QED BY <1>1, <1>2, <2>1, <2>2
<1>3. CASE n # 0
    <2>1. 1 \in 1..Len(y) /\ Len(y) \in 1..Len(y)
        BY <1>1, <1>3
    <2> HIDE DEF Cell
    <2>2. SubSeq(y \o z, 1, Len(y)) = SubSeq(y, 1, Len(y))
        BY <2>1, SubSeqOfConcat1
    <2> QED BY <2>2, SubSeqFull
<1> QED BY <1>2, <1>3

LEMMA Remainder ==
    ASSUME NEW f \in Seq(Cell), NEW n \in Nat
    PROVE  /\ SubSeq(f, n + 1, Len(f)) \in Seq(Cell)
           /\ Len(SubSeq(f, n + 1, Len(f))) = IF n <= Len(f) THEN Len(f) - n ELSE 0
           /\ n >= Len(f) => SubSeq(f, n + 1, Len(f)) = <<>>
<1>1. PICK m \in Nat : m = Len(f)
    OBVIOUS
<1>2. \A i \in n + 1..m : f[i] \in Cell
    BY <1>1
<1>3. SubSeq(f, n + 1, m) \in Seq(Cell) /\ Len(SubSeq(f, n + 1, m)) = IF n + 1 <= m THEN m - (n + 1) + 1 ELSE 0
    BY <1>1, <1>2, SubSeqProperties
<1>4. n >= m => SubSeq(f, n + 1, m) = <<>>
    BY SubSeqEmpty
<1> QED BY <1>1, <1>3, <1>4

\* A part of the new cells over the file; all of them are the rest of the file
\* if there were no more cells than that.
LEMMA OverlayIs ==
    ASSUME file \in Seq(Cell), temp.pos \in Nat, temp.new \in Seq(Cell), Len(file) >= temp.pos,
           NEW n \in 0..Len(temp.new)
    PROVE  /\ Overlay(n) \in Seq(Cell) /\ Len(Overlay(n)) >= temp.pos
           /\ Len(file) <= temp.pos + Len(temp.new) =>
                Len(Overlay(n)) <= temp.pos + Len(temp.new)
           /\ Len(file) <= temp.pos + Len(temp.new) /\ n = Len(temp.new) =>
                Overlay(n) = SubSeq(file, 1, temp.pos) \o temp.new
<1>1. PICK p, q, k \in Nat : p = temp.pos /\ q = Len(temp.new) /\ k = Len(file)
    OBVIOUS
<1>2. PICK a : a = SubSeq(file, 1, p)
    OBVIOUS
<1>3. PICK b : b = SubSeq(temp.new, 1, n)
    OBVIOUS
<1>4. PICK c : c = SubSeq(file, p + n + 1, k)
    OBVIOUS
<1>5. a \in Seq(Cell) /\ Len(a) = p
    BY <1>1, <1>2, Cut
<1>6. b \in Seq(Cell) /\ Len(b) = n /\ n \in Nat /\ n <= q
    <2>1. n \in Nat /\ n <= q
        BY <1>1
    <2> QED BY <1>1, <1>3, <2>1, Cut
<1>7. c \in Seq(Cell) /\ Len(c) = (IF p + n <= k THEN k - (p + n) ELSE 0) /\ (p + n >= k => c = <<>>)
    <2>1. p + n \in Nat
        BY <1>1, <1>6
    <2> QED BY <1>1, <1>4, <2>1, Remainder
<1>8. Overlay(n) = a \o b \o c
    BY <1>1, <1>2, <1>3, <1>4 DEF Overlay
<1>9. a \o b \in Seq(Cell) /\ Len(a \o b) = p + n
    BY <1>5, <1>6, ConcatProperties
<1>10. (a \o b) \o c \in Seq(Cell) /\ Len((a \o b) \o c) = p + n + Len(c)
    <2>1. PICK d : d = a \o b
        OBVIOUS
    <2>2. d \o c \in Seq(Cell) /\ Len(d \o c) = Len(d) + Len(c)
        <3>1. d \in Seq(Cell)
            BY <1>9, <2>1
        <3>2. c \in Seq(Cell)
            BY <1>7
        <3> HIDE DEF Cell
        <3> QED BY <3>1, <3>2, ConcatProperties
    <2> QED BY <1>9, <2>1, <2>2
<1>11. p + n + Len(c) >= p /\ (k <= p + q => p + n + Len(c) <= p + q)
    BY <1>1, <1>6, <1>7
<1>12. ASSUME k <= p + q, n = q PROVE Overlay(n) = a \o temp.new
    <2>1. c = <<>>
        BY <1>1, <1>6, <1>7, <1>12
    <2>2. (a \o b) \o c = a \o b
        BY <1>9, <2>1, ConcatEmptySeq
    <2>3. b = temp.new
        BY <1>1, <1>3, <1>12, SubSeqFull
    <2> QED BY <1>8, <2>2, <2>3
<1> QED BY <1>1, <1>2, <1>8, <1>10, <1>11, <1>12

-----------------------------------------------------------------------------
(* What happens to an index.                                               *)

LEMMA LeastChosen ==
    ASSUME NEW S \in SUBSET Nat, S # {}
    PROVE  Min(S) \in S /\ \A k \in S : Min(S) <= k
BY LeastIs DEF Min

LEMMA PlaceIs ==
    ASSUME NEW idx \in Seq(Entries), NEW x
    PROVE  /\ Has(idx, x) <=> x \in IdsOf(idx)
           /\ Has(idx, x) => Place(idx, x) \in 1..Len(idx) /\ idx[Place(idx, x)].id = x
           /\ ~Has(idx, x) => Place(idx, x) = 0
<1> DEFINE I == {i \in 1..Len(idx) : idx[i].id = x}
<1>1. Place(idx, x) = IF I # {} THEN Min(I) ELSE 0
    BY DEF Place, SelectInSeq
<1>2. x \in IdsOf(idx) <=> I # {}
    BY DEF IdsOf
<1>3. I \in SUBSET Nat /\ \A i \in I : i \in 1..Len(idx) /\ idx[i].id = x /\ i # 0
    OBVIOUS
<1> HIDE DEF I
<1>4. I # {} => Min(I) \in I
    BY <1>3, LeastChosen
<1> QED BY <1>1, <1>2, <1>3, <1>4 DEF Has

LEMMA RemoveIs ==
    ASSUME NEW S, NEW s \in Seq(S), NEW p \in 1..Len(s)
    PROVE  /\ RemoveAt(s, p) \in Seq(S) /\ Len(RemoveAt(s, p)) = Len(s) - 1
           /\ \A i \in 1..(Len(s) - 1) : RemoveAt(s, p)[i] = IF i < p THEN s[i] ELSE s[i + 1]
<1>1. PICK n \in Nat : n = Len(s)
    OBVIOUS
<1>2. PICK a, b : a = SubSeq(s, 1, p - 1) /\ b = SubSeq(s, p + 1, n)
    OBVIOUS
<1>3. p \in 1..n /\ \A i \in 1..n : s[i] \in S
    BY <1>1
<1>4. a \in Seq(S) /\ Len(a) = p - 1 /\ \A i \in 1..(p - 1) : a[i] = s[i]
    <2>1. \A i \in 1..p - 1 : s[i] \in S
        BY <1>3
    <2>2. /\ a \in Seq(S) /\ Len(a) = (IF 1 <= p - 1 THEN (p - 1) - 1 + 1 ELSE 0)
          /\ \A i \in 1..(p - 1) - 1 + 1 : a[i] = s[1 + i - 1]
        BY <1>2, <1>3, <2>1, SubSeqProperties
    <2> QED BY <1>3, <2>2
<1>5. b \in Seq(S) /\ Len(b) = n - p /\ \A i \in 1..(n - p) : b[i] = s[p + i]
    <2>1. \A i \in p + 1..n : s[i] \in S
        BY <1>3
    <2>2. /\ b \in Seq(S) /\ Len(b) = (IF p + 1 <= n THEN n - (p + 1) + 1 ELSE 0)
          /\ \A i \in 1..n - (p + 1) + 1 : b[i] = s[(p + 1) + i - 1]
        BY <1>2, <1>3, <2>1, SubSeqProperties
    <2> QED BY <1>3, <2>2
<1>6. RemoveAt(s, p) = a \o b
    BY <1>1, <1>2 DEF RemoveAt
<1>7. /\ a \o b \in Seq(S) /\ Len(a \o b) = Len(a) + Len(b)
      /\ \A i \in 1..Len(a) + Len(b) : (a \o b)[i] = IF i <= Len(a) THEN a[i] ELSE b[i - Len(a)]
    BY <1>4, <1>5, ConcatProperties
<1>8. Len(a) + Len(b) = n - 1
    BY <1>3, <1>4, <1>5
<1>9. ASSUME NEW i \in 1..(n - 1) PROVE (a \o b)[i] = IF i < p THEN s[i] ELSE s[i + 1]
    <2>1. (a \o b)[i] = IF i <= p - 1 THEN a[i] ELSE b[i - (p - 1)]
        BY <1>4, <1>7, <1>8
    <2>2. CASE i < p
        <3>1. i <= p - 1 /\ i \in 1..(p - 1)
            BY <1>3, <2>2
        <3> QED BY <1>4, <2>1, <2>2, <3>1
    <2>3. CASE ~(i < p)
        <3>1. ~(i <= p - 1) /\ i - (p - 1) \in 1..(n - p) /\ p + (i - (p - 1)) = i + 1
            BY <1>3, <2>3
        <3> QED BY <1>5, <2>1, <2>3, <3>1
    <2> QED BY <2>2, <2>3
<1> QED BY <1>1, <1>6, <1>7, <1>8, <1>9

\* r is s with e at p, when s has n elements.
Inserted(r, s, n, p, e) ==
    /\ r \in Seq(Entries) /\ Len(r) = n + 1 /\ r[p] = e
    /\ \A i \in 1..n + 1 : (i < p => r[i] = s[i]) /\ (i > p => r[i] = s[i - 1])

LEMMA InsertIs ==
    ASSUME NEW s \in Seq(Entries), NEW n \in Nat, n = Len(s), NEW p \in 1..(n + 1), NEW e \in Entries
    PROVE  Inserted(InsertAt(s, p, e), s, n, p, e)
<1>1. n = Len(s)
    OBVIOUS
<1>2. PICK a, b, c : a = SubSeq(s, 1, p - 1) /\ b = SubSeq(s, p, n) /\ c = <<e>>
    OBVIOUS
<1>3. p \in 1..(n + 1) /\ \A i \in 1..n : s[i] \in Entries
    BY <1>1
<1>4. a \in Seq(Entries) /\ Len(a) = p - 1 /\ \A i \in 1..(p - 1) : a[i] = s[i]
    <2>1. \A i \in 1..p - 1 : s[i] \in Entries
        BY <1>3
    <2>2. /\ a \in Seq(Entries) /\ Len(a) = (IF 1 <= p - 1 THEN (p - 1) - 1 + 1 ELSE 0)
          /\ \A i \in 1..(p - 1) - 1 + 1 : a[i] = s[1 + i - 1]
        BY <1>2, <1>3, <2>1, SubSeqProperties
    <2> QED BY <1>3, <2>2
<1>5. b \in Seq(Entries) /\ Len(b) = n - p + 1 /\ \A i \in 1..(n - p + 1) : b[i] = s[p + i - 1]
    <2>1. \A i \in p..n : s[i] \in Entries
        BY <1>3
    <2>2. /\ b \in Seq(Entries) /\ Len(b) = (IF p <= n THEN n - p + 1 ELSE 0)
          /\ \A i \in 1..n - p + 1 : b[i] = s[p + i - 1]
        BY <1>2, <1>3, <2>1, SubSeqProperties
    <2> QED BY <1>3, <2>2
<1>6. InsertAt(s, p, e) = a \o c \o b
    BY <1>1, <1>2 DEF InsertAt
<1>7. c \in Seq(Entries) /\ Len(c) = 1 /\ c[1] = e
    BY <1>2
<1>8. PICK d : d = a \o c
    OBVIOUS
<1>9. /\ d \in Seq(Entries) /\ Len(d) = p
      /\ \A i \in 1..p : d[i] = IF i <= p - 1 THEN a[i] ELSE c[i - (p - 1)]
    <2>1. /\ d \in Seq(Entries) /\ Len(d) = Len(a) + Len(c)
          /\ \A i \in 1..Len(a) + Len(c) : d[i] = IF i <= Len(a) THEN a[i] ELSE c[i - Len(a)]
        BY <1>4, <1>7, <1>8, ConcatProperties
    <2>2. Len(a) + Len(c) = p
        BY <1>3, <1>4, <1>7
    <2> QED BY <1>4, <2>1, <2>2
<1>10. /\ d \o b \in Seq(Entries) /\ Len(d \o b) = Len(d) + Len(b)
       /\ \A i \in 1..Len(d) + Len(b) : (d \o b)[i] = IF i <= Len(d) THEN d[i] ELSE b[i - Len(d)]
    BY <1>5, <1>9, ConcatProperties
<1>11. Len(d) + Len(b) = n + 1
    BY <1>3, <1>5, <1>9
<1>12. ASSUME NEW i \in 1..(n + 1)
       PROVE  /\ i < p => (d \o b)[i] = s[i]
              /\ i = p => (d \o b)[i] = e
              /\ i > p => (d \o b)[i] = s[i - 1]
    <2>1. (d \o b)[i] = IF i <= p THEN d[i] ELSE b[i - p]
        BY <1>9, <1>10, <1>11
    <2>2. CASE i < p
        <3>1. i <= p /\ i <= p - 1 /\ i \in 1..p /\ i \in 1..(p - 1)
            BY <1>3, <2>2
        <3> QED BY <1>4, <1>9, <2>1, <2>2, <3>1
    <2>3. CASE i = p
        <3>1. i <= p /\ ~(i <= p - 1) /\ i \in 1..p /\ i - (p - 1) = 1 /\ ~(i < p)
            BY <1>3, <2>3
        <3> QED BY <1>7, <1>9, <2>1, <2>3, <3>1
    <2>4. CASE i > p
        <3>1. ~(i <= p) /\ i - p \in 1..(n - p + 1) /\ p + (i - p) - 1 = i - 1 /\ ~(i < p) /\ i # p
            BY <1>3, <2>4
        <3> QED BY <1>5, <2>1, <3>1
    <2>5. i < p \/ i = p \/ i > p
        BY <1>3
    <2> QED BY <2>2, <2>3, <2>4, <2>5
<1>13. (d \o b)[p] = e
    BY <1>3, <1>12
<1> QED BY <1>6, <1>8, <1>10, <1>11, <1>12, <1>13 DEF Inserted

LEMMA EntryFields ==
    ASSUME NEW e \in Entries
    PROVE  e.off \in Int /\ e.size \in Nat /\ e.id \in Ids \cup Drafts /\ e.tag \in BOOLEAN
BY DEF Entries

LEMMA IdsApart == ~\E x : x \in Ids /\ x \in Drafts
BY KindAssumption

LEMMA SoundLonger ==
    ASSUME NEW idx, NEW m \in Int, NEW n \in Int, m <= n, Sound(idx, m)
    PROVE  Sound(idx, n)
<1>1. \A i \in 1..Len(idx) : idx[i].off <= n
    <2> TAKE i \in 1..Len(idx)
    <2>1. idx[i].off <= m /\ idx[i] \in Entries
        BY DEF Sound
    <2>2. idx[i].off \in Int
        BY <2>1, EntryFields
    <2> QED BY <2>1, <2>2
<1> QED BY <1>1 DEF Sound

LEMMA SoundOne ==
    ASSUME NEW e \in Entries, NEW n \in Int, e.id = Tid, Stored(e), e.off <= n
    PROVE  Sound(<<e>>, n) /\ IdsOf(<<e>>) = {Tid}
<1>1. <<e>> \in Seq(Entries) /\ Len(<<e>>) = 1 /\ <<e>>[1] = e
    OBVIOUS
<1>2. Tid \in Ids
    BY IdAssumption DEF Tid, Ids
<1>3. \A i \in 1..1 : i = 1
    OBVIOUS
<1>4. IdsOf(<<e>>) = {Tid}
    BY <1>1, <1>3 DEF IdsOf
<1>5. \A i, j \in 1..1 : i = j /\ ~(i < j)
    OBVIOUS
<1> QED BY <1>1, <1>2, <1>3, <1>4, <1>5 DEF Sound

\* An entry is added at the end: a draft, or a message newer than the others.
LEMMA SoundAppend ==
    ASSUME NEW idx, NEW m \in Int, NEW n \in Int, m <= n, Sound(idx, m),
           NEW e \in Entries, e.id \notin IdsOf(idx), e.off <= n,
           Stored(e) <=> e.id \in Ids,
           e.id \in Ids => \A x \in IdsOf(idx) \cap Ids : x < e.id
    PROVE  Sound(Append(idx, e), n) /\ IdsOf(Append(idx, e)) = IdsOf(idx) \cup {e.id}
<1> DEFINE a == Append(idx, e)
<1>1. idx \in Seq(Entries) /\ Sound(idx, n)
    BY SoundLonger DEF Sound
<1>2. PICK k \in Nat : k = Len(idx)
    BY <1>1
<1>3. a \in Seq(Entries) /\ Len(a) = k + 1 /\ a[k + 1] = e /\ \A i \in 1..k : a[i] = idx[i]
    BY <1>1, <1>2, AppendProperties
<1> HIDE DEF a
<1>4. \A i \in 1..k + 1 : i = k + 1 \/ (i \in 1..k /\ i < k + 1 /\ i # k + 1)
    BY <1>2
<1>5. \A i \in 1..k : i \in 1..k + 1 /\ ~(k + 1 < i)
    BY <1>2
<1>6. k + 1 \in 1..k + 1
    BY <1>2
<1>7. IdsOf(a) = IdsOf(idx) \cup {e.id}
    BY <1>2, <1>3, <1>4, <1>5, <1>6 DEF IdsOf
<1>8. \A i \in 1..k : /\ Stored(idx[i]) <=> idx[i].id \in Ids
                      /\ idx[i].off <= n /\ idx[i].id # e.id /\ idx[i].id \in IdsOf(idx)
    BY <1>1, <1>2 DEF Sound, IdsOf
<1>9. \A i \in 1..k + 1 : (Stored(a[i]) <=> a[i].id \in Ids) /\ a[i].off <= n
    BY <1>3, <1>4, <1>8
<1>10. \A i, j \in 1..k : i # j => idx[i].id # idx[j].id
    BY <1>1, <1>2 DEF Sound
<1>11. \A i, j \in 1..k : i < j /\ Stored(idx[i]) /\ Stored(idx[j]) => idx[i].id < idx[j].id
    BY <1>1, <1>2 DEF Sound
<1>12. ASSUME NEW i \in 1..k + 1, NEW j \in 1..k + 1, i # j PROVE a[i].id # a[j].id
    BY <1>3, <1>4, <1>8, <1>10, <1>12
<1>13. ASSUME NEW i \in 1..k + 1, NEW j \in 1..k + 1, i < j, Stored(a[i]), Stored(a[j])
       PROVE  a[i].id < a[j].id
    <2>1. CASE j = k + 1
        <3>1. i \in 1..k
            BY <1>2, <1>13, <2>1
        <3>2. idx[i].id \in IdsOf(idx) \cap Ids /\ e.id \in Ids /\ a[i] = idx[i] /\ a[j] = e
            BY <1>3, <1>8, <1>13, <2>1, <3>1
        <3> QED BY <3>2
    <2>2. CASE j \in 1..k
        <3>1. i \in 1..k
            BY <1>2, <1>13, <2>2
        <3> QED BY <1>3, <1>11, <1>13, <2>2, <3>1
    <2> QED BY <1>4, <2>1, <2>2
<1>14. Tid \in IdsOf(a)
    BY <1>1, <1>7 DEF Sound
<1>15. Sound(a, n)
    BY <1>3, <1>9, <1>12, <1>13, <1>14 DEF Sound
<1> QED BY <1>7, <1>15 DEF a

LEMMA SoundRemove ==
    ASSUME NEW idx, NEW n \in Int, Sound(idx, n), NEW p \in 1..Len(idx), idx[p].id \in Drafts
    PROVE  Sound(RemoveAt(idx, p), n) /\ IdsOf(RemoveAt(idx, p)) = IdsOf(idx) \ {idx[p].id}
<1> DEFINE r == RemoveAt(idx, p)
           at(i) == IF i < p THEN i ELSE i + 1
<1>1. idx \in Seq(Entries)
    BY DEF Sound
<1>2. PICK k \in Nat : k + 1 = Len(idx)
    <2>1. Len(idx) - 1 \in Nat /\ (Len(idx) - 1) + 1 = Len(idx)
        BY <1>1
    <2> QED BY <2>1
<1>3. r \in Seq(Entries) /\ Len(r) = k /\ \A i \in 1..k : r[i] = IF i < p THEN idx[i] ELSE idx[i + 1]
    <2>1. Len(idx) - 1 = k
        BY <1>2
    <2> QED BY <1>1, <2>1, RemoveIs
<1> HIDE DEF r
<1>4. p \in 1..k + 1
    BY <1>2
<1>5. \A i \in 1..k : at(i) \in 1..k + 1 /\ at(i) # p /\ r[i] = idx[at(i)]
    BY <1>2, <1>3, <1>4
<1>6. \A i, j \in 1..k : i < j => at(i) < at(j)
    BY <1>2, <1>4
<1>7. \A i, j \in 1..k : i # j => at(i) # at(j)
    BY <1>2, <1>4
<1>8. \A j \in 1..k + 1 : j # p => \E i \in 1..k : at(i) = j
    <2> TAKE j \in 1..k + 1
    <2> HAVE j # p
    <2>1. CASE j < p
        <3>1. j \in 1..k /\ at(j) = j
            BY <1>2, <1>4, <2>1
        <3> QED BY <3>1
    <2>2. CASE j > p
        <3>1. j - 1 \in 1..k /\ at(j - 1) = j
            BY <1>2, <1>4, <2>2
        <3> QED BY <3>1
    <2> QED BY <1>2, <1>4, <2>1, <2>2
<1> HIDE DEF at
<1>9. \A i, j \in 1..k + 1 : i # j => idx[i].id # idx[j].id
    BY <1>2 DEF Sound
<1>10. IdsOf(r) = IdsOf(idx) \ {idx[p].id}
    <2>1. ASSUME NEW x \in IdsOf(r) PROVE x \in IdsOf(idx) \ {idx[p].id}
        <3>1. PICK i \in 1..k : x = r[i].id
            BY <1>3 DEF IdsOf
        <3> QED BY <1>2, <1>4, <1>5, <1>9, <3>1 DEF IdsOf
    <2>2. ASSUME NEW x \in IdsOf(idx) \ {idx[p].id} PROVE x \in IdsOf(r)
        <3>1. PICK j \in 1..k + 1 : x = idx[j].id
            BY <1>2 DEF IdsOf
        <3>2. j # p
            BY <2>2, <3>1
        <3>3. PICK i \in 1..k : at(i) = j
            BY <1>8, <3>2
        <3> QED BY <1>3, <1>5, <3>1, <3>3 DEF IdsOf
    <2> QED BY <2>1, <2>2
<1>11. \A i \in 1..k : (Stored(r[i]) <=> r[i].id \in Ids) /\ r[i].off <= n
    BY <1>2, <1>5 DEF Sound
<1>12. \A i, j \in 1..k : i # j => r[i].id # r[j].id
    <2> TAKE i, j \in 1..k
    <2> HAVE i # j
    <2>1. at(i) \in 1..k + 1 /\ at(j) \in 1..k + 1 /\ at(i) # at(j)
        BY <1>5, <1>7
    <2>2. idx[at(i)].id # idx[at(j)].id
        BY <1>9, <2>1
    <2> QED BY <1>5, <2>2
<1>13. \A i, j \in 1..k : i < j /\ Stored(r[i]) /\ Stored(r[j]) => r[i].id < r[j].id
    <2>1. \A i, j \in 1..k + 1 : i < j /\ Stored(idx[i]) /\ Stored(idx[j]) => idx[i].id < idx[j].id
        BY <1>2 DEF Sound
    <2> QED BY <1>5, <1>6, <2>1
<1>14. Tid \in IdsOf(r)
    <2>1. Tid \in Ids /\ Tid \in IdsOf(idx)
        BY IdAssumption DEF Sound, Tid, Ids
    <2> QED BY <1>10, <2>1, IdsApart
<1>15. Sound(r, n)
    BY <1>3, <1>11, <1>12, <1>13, <1>14 DEF Sound
<1> QED BY <1>10, <1>15 DEF r

LEMMA SoundExcept ==
    ASSUME NEW idx, NEW n \in Int, Sound(idx, n), NEW p \in 1..Len(idx), NEW e \in Entries,
           e.id = idx[p].id, e.off <= n, Stored(e) <=> Stored(idx[p])
    PROVE  Sound([idx EXCEPT ![p] = e], n) /\ IdsOf([idx EXCEPT ![p] = e]) = IdsOf(idx)
<1> DEFINE r == [idx EXCEPT ![p] = e]
<1>1. idx \in Seq(Entries)
    BY DEF Sound
<1>2. PICK k \in Nat : k = Len(idx)
    BY <1>1
<1>3. r \in Seq(Entries) /\ Len(r) = k /\ \A i \in 1..k : r[i] = IF i = p THEN e ELSE idx[i]
    BY <1>1, <1>2, ExceptSeq
<1> HIDE DEF r
<1>4. \A i \in 1..k : r[i].id = idx[i].id /\ (Stored(r[i]) <=> Stored(idx[i]))
    BY <1>3
<1>5. \A i \in 1..k : r[i].off <= n
    BY <1>2, <1>3 DEF Sound
<1>6. IdsOf(r) = IdsOf(idx)
    BY <1>2, <1>3, <1>4 DEF IdsOf
<1>7. Sound(r, n)
    BY <1>2, <1>3, <1>4, <1>5, <1>6 DEF Sound
<1> QED BY <1>6, <1>7 DEF r

\* A message is inserted before those with larger ids, whose offsets grow.
LEMMA SoundInsert ==
    ASSUME NEW idx, NEW pos \in Nat, Sound(idx, pos), NEW e \in Entries,
           e.id \in Ids, e.id \notin IdsOf(idx)
    PROVE  LET r == Insert(idx, pos, e)
           IN  /\ Sound(r, pos + e.size) /\ IdsOf(r) = IdsOf(idx) \cup {e.id}
               /\ Len(CellsOf(idx)) <= Len(CellsOf(r))
               /\ r[Place(r, e.id)].off \in Nat /\ r[Place(r, e.id)].off <= pos
<1> DEFINE Follows(x) == Stored(x) /\ x.id >= e.id
           I == {i \in 1..Len(idx) : Follows(idx[i])}
           at == IF \E i \in DOMAIN idx : Follows(idx[i])
                 THEN SelectInSeq(idx, Follows) ELSE Len(idx) + 1
           moved == [i \in DOMAIN idx |->
                        IF i >= at /\ Follows(idx[i])
                        THEN [idx[i] EXCEPT !.off = @ + e.size] ELSE idx[i]]
           off == IF at <= Len(idx) THEN idx[at].off ELSE pos
           el == [e EXCEPT !.off = off]
           r == Insert(idx, pos, e)
<1>1. idx \in Seq(Entries)
    BY DEF Sound
<1>2. PICK k \in Nat : k = Len(idx)
    BY <1>1
<1>3. DOMAIN idx = 1..k /\ \A i \in 1..k : idx[i] \in Entries
    BY <1>1, <1>2
<1>4. r = InsertAt(moved, at, el)
    BY DEF Insert
<1>5. PICK p : p = at
    OBVIOUS
<1>6. /\ p \in 1..k + 1
      /\ p <= k => Follows(idx[p])
      /\ \A i \in 1..k : i < p => ~Follows(idx[i])
    <2>1. SelectInSeq(idx, Follows) = IF I # {} THEN Min(I) ELSE 0
        BY DEF SelectInSeq
    <2>2. CASE I = {}
        <3>1. p = k + 1 /\ \A i \in 1..k : ~Follows(idx[i])
            BY <1>2, <1>3, <1>5, <2>2
        <3> QED BY <1>2, <3>1
    <2>3. CASE I # {}
        <3>1. p = Min(I)
            BY <1>2, <1>3, <1>5, <2>1, <2>3
        <3>2. I \in SUBSET Nat
            OBVIOUS
        <3>3. p \in I /\ \A i \in I : p <= i
            <4> HIDE DEF I
            <4> QED BY <2>3, <3>1, <3>2, LeastChosen
        <3>4. p \in 1..k /\ Follows(idx[p])
            BY <1>2, <3>3
        <3>5. ASSUME NEW i \in 1..k, i < p PROVE ~Follows(idx[i])
            <4> SUFFICES ASSUME Follows(idx[i]) PROVE FALSE
                OBVIOUS
            <4>1. i \in I
                BY <1>2
            <4>2. p <= i /\ p \in Nat
                BY <3>3, <3>4, <4>1
            <4> QED BY <3>5, <4>2
        <3> QED BY <1>2, <3>4, <3>5
    <2> QED BY <2>2, <2>3
<1>7. PICK o : o = off
    OBVIOUS
<1>8. o \in Nat /\ o <= pos
    <2>1. CASE p <= k
        <3>1. p \in 1..k
            BY <1>2, <1>6, <2>1
        <3>2. o = idx[p].off
            BY <1>2, <1>5, <1>7, <2>1
        <3>3. idx[p].off >= 0 /\ idx[p].off <= pos /\ idx[p].off \in Int
            BY <1>2, <1>3, <1>6, <2>1, <3>1, EntryFields DEF Sound, Stored
        <3> QED BY <3>2, <3>3
    <2>2. CASE ~(p <= k)
        BY <1>2, <1>5, <1>7, <2>2
    <2> QED BY <2>1, <2>2
<1>9. PICK m : m = moved
    OBVIOUS
<1>10. e.size \in Nat /\ e.id \in Nat /\ e.off \in Int
    <2>1. e.size \in Nat /\ e.off \in Int
        BY EntryFields
    <2>2. Ids \subseteq Nat
        BY IdAssumption DEF Ids
    <2> QED BY <2>1, <2>2
<1>11. ASSUME NEW x \in Entries
       PROVE  LET y == [x EXCEPT !.off = @ + e.size]
              IN  /\ y \in Entries /\ y.id = x.id /\ y.tag = x.tag /\ y.off = x.off + e.size
    <2>1. PICK n \in Int : n = x.off + e.size
        BY <1>10, EntryFields
    <2>2. PICK y : y = [x EXCEPT !.off = n]
        OBVIOUS
    <2>3. y \in Entries /\ y.id = x.id /\ y.tag = x.tag /\ y.off = n
        BY <2>2 DEF Entries
    <2> QED BY <2>1, <2>2, <2>3
<1>12. /\ m \in Seq(Entries) /\ Len(m) = k
       /\ \A i \in 1..k : /\ m[i] \in Entries /\ m[i].id = idx[i].id /\ m[i].tag = idx[i].tag
                          /\ Stored(m[i]) <=> Stored(idx[i])
                          /\ m[i].off <= pos + e.size
    <2>1. m = [i \in 1..k |-> IF i >= at /\ Follows(idx[i])
                              THEN [idx[i] EXCEPT !.off = @ + e.size] ELSE idx[i]]
        BY <1>3, <1>9
    <2>2. \A i \in 1..k : m[i] = idx[i] \/ (Follows(idx[i]) /\ m[i] = [idx[i] EXCEPT !.off = @ + e.size])
        <3> HIDE DEF at
        <3> QED BY <2>1
    <2>3. \A i \in 1..k : idx[i].off <= pos /\ idx[i].off \in Int
        BY <1>2, <1>3, EntryFields DEF Sound
    <2>4. ASSUME NEW i \in 1..k
          PROVE  /\ m[i] \in Entries /\ m[i].id = idx[i].id /\ m[i].tag = idx[i].tag
                 /\ Stored(m[i]) <=> Stored(idx[i])
                 /\ m[i].off <= pos + e.size
        <3>1. CASE m[i] = idx[i]
            BY <1>3, <1>10, <2>3, <3>1
        <3>2. CASE Follows(idx[i]) /\ m[i] = [idx[i] EXCEPT !.off = @ + e.size]
            <4>1. /\ m[i] \in Entries /\ m[i].id = idx[i].id /\ m[i].tag = idx[i].tag
                  /\ m[i].off = idx[i].off + e.size
                BY <1>3, <1>11, <3>2
            <4>2. idx[i].off >= 0 /\ Stored(idx[i])
                BY <3>2 DEF Stored
            <4> QED BY <1>10, <2>3, <4>1, <4>2 DEF Stored
        <3> QED BY <2>2, <3>1, <3>2
    <2>5. m \in [1..k -> Entries]
        <3>1. DOMAIN m = 1..k /\ m = [i \in 1..k |-> m[i]]
            BY <2>1
        <3> QED BY <2>4, <3>1
    <2>6. m \in Seq(Entries) /\ Len(m) = k
        BY <1>2, <2>5, SeqDef
    <2> QED BY <2>4, <2>6
<1>13. PICK d : d = el
    OBVIOUS
<1>14. d \in Entries /\ d.id = e.id /\ d.off = o /\ Stored(d)
    <2>1. d = [e EXCEPT !.off = o]
        BY <1>7, <1>13
    <2>2. o \in Int
        BY <1>8
    <2>3. d \in Entries /\ d.id = e.id /\ d.off = o
        BY <2>1, <2>2 DEF Entries
    <2> QED BY <1>8, <2>3 DEF Stored
<1>15. r = InsertAt(m, p, d)
    BY <1>4, <1>5, <1>9, <1>13
<1> HIDE DEF r, at, moved, off, el
<1>16. /\ r \in Seq(Entries) /\ Len(r) = k + 1
       /\ \A i \in 1..k + 1 : i < p => r[i] = m[i]
       /\ r[p] = d
       /\ \A i \in 1..k + 1 : i > p => r[i] = m[i - 1]
    <2>1. m \in Seq(Entries) /\ k = Len(m) /\ d \in Entries /\ p \in 1..(k + 1)
        BY <1>6, <1>12, <1>14
    <2>2. Inserted(InsertAt(m, p, d), m, k, p, d)
        BY <2>1, InsertIs
    <2> QED BY <1>15, <2>2 DEF Inserted
<1> DEFINE to(i) == IF i < p THEN i ELSE i + 1
<1>17. \A i \in 1..k : to(i) \in 1..k + 1 /\ to(i) # p /\ r[to(i)] = m[i]
    <2> TAKE i \in 1..k
    <2>1. CASE i < p
        <3>1. i \in 1..k + 1
            BY <1>2
        <3> QED BY <1>2, <1>6, <1>16, <2>1, <3>1
    <2>2. CASE ~(i < p)
        <3>1. i + 1 \in 1..k + 1 /\ i + 1 > p /\ i + 1 # p /\ (i + 1) - 1 = i
            BY <1>2, <1>6, <2>2
        <3> QED BY <1>16, <2>2, <3>1
    <2> QED BY <2>1, <2>2
<1>18. \A j \in 1..k + 1 : j = p \/ \E i \in 1..k : j = to(i)
    <2> TAKE j \in 1..k + 1
    <2>1. CASE j < p
        <3>1. j \in 1..k /\ to(j) = j
            BY <1>2, <1>6, <2>1
        <3> QED BY <3>1
    <2>2. CASE j > p
        <3>1. j - 1 \in 1..k /\ to(j - 1) = j
            BY <1>2, <1>6, <2>2
        <3> QED BY <3>1
    <2> QED BY <1>2, <1>6, <2>1, <2>2
<1>19. /\ \A i, j \in 1..k : to(i) = to(j) => i = j
       /\ \A i, j \in 1..k : to(i) < to(j) => i < j
       /\ \A i \in 1..k : (to(i) < p => i < p) /\ (p < to(i) => ~(i < p))
    BY <1>2, <1>6
<1>20. r[p] = d /\ p \in 1..k + 1
    BY <1>2, <1>6, <1>16
<1> HIDE DEF to
<1>21. IdsOf(r) = IdsOf(idx) \cup {e.id}
    <2>1. ASSUME NEW x \in IdsOf(r) PROVE x \in IdsOf(idx) \cup {e.id}
        <3>1. PICK j \in 1..k + 1 : x = r[j].id
            BY <1>16 DEF IdsOf
        <3>2. CASE j = p
            BY <1>14, <1>20, <3>1, <3>2
        <3>3. CASE \E i \in 1..k : j = to(i)
            <4>1. PICK i \in 1..k : j = to(i)
                BY <3>3
            <4>2. x = idx[i].id
                BY <1>12, <1>17, <3>1, <4>1
            <4> QED BY <1>2, <4>2 DEF IdsOf
        <3> QED BY <1>18, <3>2, <3>3
    <2>2. ASSUME NEW x \in IdsOf(idx) PROVE x \in IdsOf(r)
        <3>1. PICK i \in 1..k : x = idx[i].id
            BY <1>2 DEF IdsOf
        <3>2. x = r[to(i)].id /\ to(i) \in 1..k + 1
            BY <1>12, <1>17, <3>1
        <3> QED BY <1>16, <3>2 DEF IdsOf
    <2>3. e.id \in IdsOf(r)
        BY <1>14, <1>16, <1>20 DEF IdsOf
    <2> QED BY <2>1, <2>2, <2>3
<1>22. Len(CellsOf(idx)) <= Len(CellsOf(r))
    <2> DEFINE g == [i \in 1..k |-> to(i)]
    <2>1. g \in [1..k -> 1..k + 1]
        BY <1>17
    <2>2. \A i, j \in 1..k : g[i] = g[j] => i = j
        BY <1>19
    <2>3. \A i \in 1..k : r[g[i]].tag = idx[i].tag
        BY <1>12, <1>17
    <2> HIDE DEF g
    <2>4. Fits(idx, r, g)
        BY <1>1, <1>2, <1>16, <2>1, <2>2, <2>3 DEF Fits
    <2> QED BY <2>4, CellsLonger
\* The messages before the new one have smaller ids, those after it larger ones.
<1>23. \A i \in 1..k : Stored(idx[i]) => idx[i].id \in Nat /\ idx[i].id # e.id
    <2>1. \A i \in 1..k : (Stored(idx[i]) => idx[i].id \in Ids) /\ idx[i].id \in IdsOf(idx)
        BY <1>2 DEF Sound, IdsOf
    <2>2. Ids \subseteq Nat
        BY IdAssumption DEF Ids
    <2> QED BY <2>1, <2>2
<1>24. \A i, j \in 1..k : i < j /\ Stored(idx[i]) /\ Stored(idx[j]) => idx[i].id < idx[j].id
    BY <1>2 DEF Sound
<1>25. \A i \in 1..k : i < p /\ Stored(idx[i]) => idx[i].id < e.id
    BY <1>6, <1>10, <1>23
<1>26. ASSUME NEW i \in 1..k, ~(i < p), Stored(idx[i]) PROVE e.id < idx[i].id
    <2>1. p \in 1..k /\ p <= k /\ (i = p \/ p < i)
        BY <1>2, <1>6, <1>26
    <2>2. Stored(idx[p]) /\ idx[p].id >= e.id
        BY <1>6, <2>1
    <2>3. e.id < idx[p].id
        BY <1>10, <1>23, <2>1, <2>2
    <2>4. i = p \/ idx[p].id < idx[i].id
        BY <1>24, <1>26, <2>1, <2>2
    <2> QED BY <1>10, <1>23, <1>26, <2>1, <2>2, <2>3, <2>4
<1>27. ASSUME NEW i \in 1..k + 1, NEW j \in 1..k + 1, i < j, Stored(r[i]), Stored(r[j])
       PROVE  r[i].id < r[j].id
    <2>1. CASE i = p
        <3>1. j # p
            BY <1>2, <1>27, <2>1
        <3>2. PICK b \in 1..k : j = to(b)
            BY <1>18, <3>1
        <3>3. r[j] = m[b] /\ Stored(idx[b]) /\ r[j].id = idx[b].id /\ ~(b < p)
            BY <1>12, <1>17, <1>19, <1>27, <2>1, <3>2
        <3> QED BY <1>14, <1>20, <1>26, <2>1, <3>3
    <2>2. CASE j = p
        <3>1. i # p
            BY <1>2, <1>27, <2>2
        <3>2. PICK b \in 1..k : i = to(b)
            BY <1>18, <3>1
        <3>3. r[i] = m[b] /\ Stored(idx[b]) /\ r[i].id = idx[b].id /\ b < p
            BY <1>12, <1>17, <1>19, <1>27, <2>2, <3>2
        <3> QED BY <1>14, <1>20, <1>25, <2>2, <3>3
    <2>3. CASE i # p /\ j # p
        <3>1. PICK b \in 1..k : i = to(b)
            BY <1>18, <2>3
        <3>2. PICK c \in 1..k : j = to(c)
            BY <1>18, <2>3
        <3>3. b < c
            BY <1>19, <1>27, <3>1, <3>2
        <3>4. Stored(idx[b]) /\ Stored(idx[c]) /\ r[i].id = idx[b].id /\ r[j].id = idx[c].id
            BY <1>12, <1>17, <1>27, <3>1, <3>2
        <3> QED BY <1>24, <3>3, <3>4
    <2> QED BY <2>1, <2>2, <2>3
<1>28. ASSUME NEW i \in 1..k + 1, NEW j \in 1..k + 1, i # j PROVE r[i].id # r[j].id
    <2>1. \A a, b \in 1..k : a # b => idx[a].id # idx[b].id
        BY <1>2 DEF Sound
    <2>2. \A a \in 1..k : r[to(a)].id = idx[a].id /\ idx[a].id # e.id
        BY <1>2, <1>12, <1>17 DEF IdsOf
    <2>3. r[p].id = e.id
        BY <1>14, <1>20
    <2>4. CASE i # p /\ j # p
        <3>1. PICK b \in 1..k : i = to(b)
            BY <1>18, <2>4
        <3>2. PICK c \in 1..k : j = to(c)
            BY <1>18, <2>4
        <3> QED BY <1>28, <2>1, <2>2, <3>1, <3>2
    <2>5. CASE i = p \/ j = p
        BY <1>18, <1>28, <2>2, <2>3, <2>5
    <2> QED BY <2>4, <2>5
<1>29. ASSUME NEW i \in 1..k + 1 PROVE (Stored(r[i]) <=> r[i].id \in Ids) /\ r[i].off <= pos + e.size
    <2>1. CASE i = p
        BY <1>8, <1>10, <1>14, <1>20, <2>1
    <2>2. CASE i # p
        <3>1. PICK b \in 1..k : i = to(b)
            BY <1>18, <2>2
        <3>2. r[i] = m[b] /\ (Stored(idx[b]) <=> idx[b].id \in Ids)
            BY <1>2, <1>17, <3>1 DEF Sound
        <3> QED BY <1>12, <3>2
    <2> QED BY <2>1, <2>2
<1>30. Tid \in IdsOf(r)
    BY <1>21 DEF Sound
<1>31. Sound(r, pos + e.size)
    BY <1>16, <1>27, <1>28, <1>29, <1>30 DEF Sound
<1>32. r[Place(r, e.id)] = d
    <2>1. e.id \in IdsOf(r)
        BY <1>21
    <2>2. Place(r, e.id) \in 1..k + 1 /\ r[Place(r, e.id)].id = e.id
        BY <1>16, <2>1, PlaceIs
    <2>3. r[p].id = e.id
        BY <1>14, <1>20
    <2> QED BY <1>20, <1>28, <2>2, <2>3
<1>33. Sound(r, pos + e.size) /\ IdsOf(r) = IdsOf(idx) \cup {e.id}
       /\ Len(CellsOf(idx)) <= Len(CellsOf(r))
       /\ r[Place(r, e.id)].off \in Nat /\ r[Place(r, e.id)].off <= pos
    BY <1>8, <1>14, <1>21, <1>22, <1>31, <1>32
<1> QED BY <1>33 DEF r

-----------------------------------------------------------------------------
(* The index of the thread, and what leaves the store as it is.            *)

\* The index once the transactions P are complete over the file f.
IndexOf(P, f) ==
    IF \E t \in P : t.new # <<>> THEN ReadIndex((CHOOSE t \in P : t.new # <<>>).new) ELSE Idx(f)

LEMMA IndexIs == Index = IndexOf(Pending, file) /\ Index' = IndexOf(Pending', file')
BY DEF Index, IndexOf, Idx

LEMMA IndexOfIs ==
    ASSUME NEW P, NEW f
    PROVE  /\ \A t : P = {t} /\ t.new # <<>> => IndexOf(P, f) = ReadIndex(t.new)
           /\ (\A t \in P : t.new = <<>>) => IndexOf(P, f) = Idx(f)
<1>1. ASSUME NEW t, P = {t}, t.new # <<>> PROVE IndexOf(P, f) = ReadIndex(t.new)
    <2>1. \E s \in P : s.new # <<>>
        BY <1>1
    <2>2. (CHOOSE s \in P : s.new # <<>>) = t
        BY <1>1
    <2> QED BY <2>1, <2>2 DEF IndexOf
<1>2. ASSUME \A t \in P : t.new = <<>> PROVE IndexOf(P, f) = Idx(f)
    BY <1>2 DEF IndexOf
<1> QED BY <1>1, <1>2

\* There is one transaction at most.
LEMMA PendingIs ==
    ASSUME Places
    PROVE  /\ temp # None => Pending = {temp}
           /\ temp = None => Pending = left
           /\ \A s, t \in Pending : s = t
           /\ None \notin Pending
<1>1. CASE temp # None
    BY <1>1 DEF Places, Pending
<1>2. CASE temp = None
    BY <1>2 DEF Places, Pending
<1> QED BY <1>1, <1>2

LEMMA OneIndex ==
    ASSUME Places
    PROVE  /\ \A t \in Pending : t.new # <<>> => Index = ReadIndex(t.new)
           /\ (\A t \in Pending : t.new = <<>>) => Index = Idx(file)
<1>1. ASSUME NEW t \in Pending, t.new # <<>> PROVE Index = ReadIndex(t.new)
    <2>1. Pending = {t}
        BY PendingIs
    <2> QED BY <1>1, <2>1, IndexIs, IndexOfIs
<1>2. ASSUME \A t \in Pending : t.new = <<>> PROVE Index = Idx(file)
    BY <1>2, IndexIs, IndexOfIs
<1> QED BY <1>1, <1>2

\* A step that does not touch the thread or its transactions.
StoreSame == UNCHANGED <<file, drafts, doc, listed, left, temp, todo>>

LEMMA SameStore ==
    ASSUME StoreSame
    PROVE  /\ Pending' = Pending /\ Index' = Index
           /\ \A t, s : Done(t, s)' = Done(t, s)
           /\ FileOK => FileOK'
           /\ DocOK => DocOK'
<1>1. Pending' = Pending
    BY DEF StoreSame, Pending
<1>2. Index' = Index
    <2>1. file' = file
        BY DEF StoreSame
    <2> QED BY <1>1, <2>1, IndexIs
<1>3. \A t, s : Done(t, s)' = Done(t, s)
    BY DEF StoreSame, Done
<1>4. \A t : FileAt(t)' = FileAt(t)
    BY <1>3 DEF StoreSame, FileAt
<1>5. FileOK => FileOK'
    BY <1>1, <1>4 DEF FileOK, StoreSame
<1>6. DocOK => DocOK'
    BY <1>1, <1>3 DEF DocOK, StoreSame
<1> QED BY <1>1, <1>2, <1>3, <1>5, <1>6

\* Where the service is: up with nothing left, or down or recovering with no user.
ModeOK ==
    /\ mode \in {"up", "down", "recover", "quit"}
    /\ mode = "up" => left = {}
    /\ mode = "down" => temp = None
    /\ mode \in {"down", "recover"} => opened = None /\ updt = None

LEMMA SameStoreStep ==
    ASSUME IInv, StoreSame, Types', ModeOK', OpenedOK', FlightOK', NewOK', GotOK',
           \A d \in queued' : d \in queued \/ (d \in drafts /\ \A t \in Pending : t.draft # d),
           \A d \in Drafts : Involved(d)' => Involved(d) \/ \A t \in Pending : t.draft # d
    PROVE  IInv'
<1>1. /\ Pending' = Pending /\ Index' = Index
      /\ \A t, s : Done(t, s)' = Done(t, s)
    BY SameStore
<1>2. FileOK' /\ DocOK'
    BY SameStore DEF IInv
<1>3. Places'
    <2>1. Places /\ ModeOK'
        BY DEF IInv
    <2>2. \A t \in Pending' : TransOK(t)'
        BY <1>1, <2>1 DEF Places, TransOK
    <2> QED BY <1>1, <2>1, <2>2 DEF Places, ModeOK, StoreSame
<1>4. ASSUME NEW d \in Drafts PROVE DraftAt(d)'
    <2>1. DraftAt(d)
        BY DEF IInv
    <2>2. drafts' = drafts /\ listed' = listed
        BY DEF StoreSame
    <2>3. (\A t \in Pending' : t.draft # d) =>
          IF d = NewDraft THEN listed' <=> d \in drafts' ELSE d \in drafts' <=> d \in IdsOf(Index')
        BY <1>1, <2>1, <2>2 DEF DraftAt
    <2>4. d \in queued' => d \in drafts' \/ \E t \in Pending' : t.op = "ss" /\ t.draft = d
        BY <1>1, <2>1, <2>2 DEF DraftAt
    <2>5. ASSUME NEW t \in Pending', t.draft = d
          PROVE  /\ d # NewDraft => (d \in IdsOf(Index') <=> t.op = "ws")
                 /\ Done(t, "rmdraft")' /\ t.op # "ws" => d \notin drafts'
                 /\ Done(t, "rmdraft")' /\ t.op = "ss" /\ d = NewDraft => ~listed'
                 /\ Done(t, "lndraft")' /\ t.op = "ws" => d \in drafts'
                 /\ Done(t, "index")' /\ d = NewDraft /\ t.op # "ss" => (listed' <=> t.op = "ws")
                 /\ t.op # "ss" => ~Involved(d)'
                 /\ d = NewDraft /\ t.op # "ss" => t.new = <<>>
        BY <1>1, <2>1, <2>2, <2>5 DEF DraftAt
    <2>6. ASSUME NEW t \in Pending', t.draft = d, Done(t, "dequeue")', t.op = "ss" PROVE d \notin queued'
        BY <1>1, <2>1, <2>6 DEF DraftAt
    <2> QED BY <2>3, <2>4, <2>5, <2>6 DEF DraftAt
<1> QED BY <1>2, <1>3, <1>4 DEF IInv

\* A step that changes where the service is, what it logs or what the server knows
\* of receipts.
LEMMA AsideStep ==
    ASSUME IInv, StoreSame, UNCHANGED <<queued, acks, ours, nextId, opened>>, ModeOK',
           got' \in SUBSET Ids, got \subseteq got', got' \subseteq IdsOf(Index)
    PROVE  IInv'
<1>1. /\ Pending' = Pending /\ Index' = Index
      /\ drafts' = drafts /\ listed' = listed /\ file' = file
    BY SameStore DEF StoreSame
<1>2. Types'
    BY <1>1 DEF IInv, Types
<1>3. OpenedOK'
    BY <1>1 DEF IInv, OpenedOK
<1>4. FlightOK'
    <2>1. InFlight' = InFlight
        BY DEF InFlight
    <2> QED BY <1>1, <2>1 DEF IInv, FlightOK
<1>5. NewOK'
    BY <1>1 DEF IInv, NewOK
<1>6. GotOK'
    BY <1>1 DEF IInv, GotOK
<1>7. \A d \in Drafts : Involved(d)' = Involved(d)
    BY DEF Involved
<1> QED BY <1>2, <1>3, <1>4, <1>5, <1>6, <1>7, SameStoreStep

LEMMA GotTypes == IInv => got \in SUBSET Ids /\ got \subseteq IdsOf(Index) /\ ModeOK
BY DEF IInv, Types, GotOK, Places, ModeOK

LEMMA StutterStep ==
    ASSUME IInv, UNCHANGED vars
    PROVE  IInv'
<1>1. /\ StoreSame /\ UNCHANGED <<queued, acks, ours, nextId, opened>> /\ ModeOK' /\ got' = got
    BY GotTypes DEF vars, StoreSame, ModeOK
<1> QED BY <1>1, GotTypes, AsideStep

LEMMA QuitStep ==
    ASSUME IInv, Quit
    PROVE  IInv'
<1>1. /\ StoreSame /\ UNCHANGED <<queued, acks, ours, nextId, opened>> /\ ModeOK' /\ got' = got
    BY DEF Quit, disk, server, StoreSame, ModeOK
<1> QED BY <1>1, GotTypes, AsideStep

LEMMA RestartStep ==
    ASSUME IInv, Restart
    PROVE  IInv'
<1>1. /\ StoreSame /\ UNCHANGED <<queued, acks, ours, nextId, opened>> /\ ModeOK' /\ got' = got
    BY DEF Restart, disk, server, StoreSame, ModeOK, IInv, Places
<1> QED BY <1>1, GotTypes, AsideStep

LEMMA RecoveredStep ==
    ASSUME IInv, Recovered
    PROVE  IInv'
<1>1. /\ StoreSame /\ UNCHANGED <<queued, acks, ours, nextId, opened>> /\ ModeOK' /\ got' = got
    BY DEF Recovered, disk, server, StoreSame, ModeOK, IInv, Places
<1> QED BY <1>1, GotTypes, AsideStep

LEMMA UpdateStep ==
    ASSUME IInv,
           \/ \E act \in Acts, x \in Ids \cup Drafts : BeginUpdate(act, x)
           \/ LogUpdate
           \/ EndUpdate
    PROVE  IInv'
<1>1. CASE \E act \in Acts, x \in Ids \cup Drafts : BeginUpdate(act, x)
    <2>1. PICK act \in Acts, x \in Ids \cup Drafts : BeginUpdate(act, x)
        BY <1>1
    <2>2. /\ StoreSame /\ UNCHANGED <<queued, acks, ours, nextId, opened>> /\ ModeOK' /\ got' = got
        BY <2>1, GotTypes DEF BeginUpdate, disk, server, StoreSame, ModeOK, Up
    <2> QED BY <2>2, GotTypes, AsideStep
<1>2. CASE LogUpdate
    <2>1. /\ StoreSame /\ UNCHANGED <<queued, acks, ours, nextId, opened>> /\ ModeOK' /\ got' = got
        BY <1>2, GotTypes DEF LogUpdate, disk, server, StoreSame, ModeOK
    <2> QED BY <2>1, GotTypes, AsideStep
<1>3. CASE EndUpdate
    <2>1. /\ StoreSame /\ UNCHANGED <<queued, acks, ours, nextId, opened>> /\ ModeOK' /\ got' = got
        BY <1>3, GotTypes DEF EndUpdate, disk, server, StoreSame, ModeOK
    <2> QED BY <2>1, GotTypes, AsideStep
<1> QED BY <1>1, <1>2, <1>3

LEMMA PostStep ==
    ASSUME IInv, Post
    PROVE  IInv'
<1>1. /\ StoreSame /\ UNCHANGED <<queued, acks, ours, opened, got>> /\ ModeOK'
      /\ nextId' = nextId + 1 /\ nextId <= MaxId /\ (First = "sent" => nextId > Tid)
    BY GotTypes DEF Post, ClientSame, disk, StoreSame, ModeOK
<1>2. /\ Pending' = Pending /\ Index' = Index
      /\ drafts' = drafts /\ listed' = listed /\ file' = file
    BY <1>1, SameStore DEF StoreSame
<1>3. nextId \in 1..MaxId + 1 /\ MaxId \in Nat
    BY IdAssumption DEF IInv, Types
<1>4. nextId' \in 1..MaxId + 1 /\ nextId' > Tid /\ nextId' # Tid
    BY <1>1, <1>3 DEF Tid
<1>5. Types'
    BY <1>1, <1>2, <1>4 DEF IInv, Types
<1>6. OpenedOK' /\ GotOK'
    BY <1>1, <1>2 DEF IInv, OpenedOK, GotOK
<1>7. FlightOK'
    <2>1. InFlight' = InFlight
        BY <1>1 DEF InFlight
    <2>2. ASSUME NEW m \in Ids, m < nextId PROVE m < nextId'
        <3>1. m \in Nat
            BY <1>3 DEF Ids
        <3> QED BY <1>1, <1>3, <2>2, <3>1
    <2>3. ours \subseteq Ids
        BY DEF IInv, Types
    <2> QED BY <1>1, <1>2, <2>1, <2>2, <2>3 DEF IInv, FlightOK
<1>8. NewOK'
    BY <1>1, <1>2, <1>4 DEF IInv, NewOK
<1>9. \A d \in Drafts : Involved(d)' = Involved(d)
    BY <1>1 DEF Involved
<1> QED BY <1>1, <1>5, <1>6, <1>7, <1>8, <1>9, SameStoreStep

LEMMA LoseAckStep ==
    ASSUME IInv, NEW a \in acks, LoseAck(a)
    PROVE  IInv'
<1>1. /\ StoreSame /\ UNCHANGED <<queued, nextId, ours, opened, got>> /\ ModeOK'
      /\ acks' = acks \ {a}
    BY GotTypes DEF LoseAck, ClientSame, disk, StoreSame, ModeOK
<1>2. /\ Pending' = Pending /\ Index' = Index
      /\ drafts' = drafts /\ listed' = listed /\ file' = file
    BY <1>1, SameStore DEF StoreSame
<1>3. Types'
    BY <1>1, <1>2 DEF IInv, Types
<1>4. OpenedOK' /\ GotOK'
    BY <1>1, <1>2 DEF IInv, OpenedOK, GotOK
<1>5. FlightOK'
    <2>1. InFlight' \subseteq InFlight
        BY <1>1 DEF InFlight
    <2>2. opened' # None => acks' = {}
        BY <1>1 DEF IInv, FlightOK
    <2> QED BY <1>1, <1>2, <2>1, <2>2 DEF IInv, FlightOK
<1>6. NewOK'
    BY <1>1, <1>2 DEF IInv, NewOK
<1>7. \A d \in Drafts : Involved(d)' => Involved(d)
    BY <1>1 DEF Involved
<1> QED BY <1>1, <1>3, <1>4, <1>5, <1>6, <1>7, SameStoreStep

\* A draft that is not the one of the thread comes after the thread.
LEMMA QueuedAfterThread ==
    ASSUME IInv, NEW d \in Drafts, d \in queued, d # NewDraft
    PROVE  nextId # Tid
<1> SUFFICES ASSUME nextId = Tid PROVE FALSE
    OBVIOUS
<1>1. file = <<>> /\ \A t \in Pending : t.new = <<>>
    BY DEF IInv, NewOK
<1>2. Index = <<>>
    <2>1. Index = Idx(file)
        BY <1>1, OneIndex DEF IInv
    <2> QED BY <1>1, <2>1 DEF Idx
<1>3. d \notin IdsOf(Index)
    <2>1. Len(<<>>) = 0 /\ 1..0 = {}
        OBVIOUS
    <2> QED BY <1>2, <2>1 DEF IdsOf
<1>4. \A t \in Pending : t.draft # d
    <2>1. ASSUME NEW t \in Pending, t.draft = d PROVE FALSE
        <3>1. TransOK(t)
            BY DEF IInv, Places
        <3>2. t.op \in {"sr", "sc", "ss", "ws", "ds", "nr"}
            BY <3>1 DEF TransOK, Transactions
        <3> QED BY <1>1, <2>1, <3>1, <3>2 DEF TransOK
    <2> QED BY <2>1
<1>5. DraftAt(d)
    BY DEF IInv
<1> QED BY <1>3, <1>4, <1>5 DEF DraftAt

LEMMA AcceptStep ==
    ASSUME IInv, NEW d \in Drafts, Accept(d)
    PROVE  IInv'
<1>1. PICK m : m = IF d = NewDraft THEN Tid ELSE nextId
    OBVIOUS
<1>2. /\ StoreSame /\ UNCHANGED <<queued, got, opened>> /\ ModeOK'
      /\ d \in queued /\ acks = {} /\ opened = None
      /\ d # NewDraft => nextId <= MaxId
      /\ acks' = acks \cup {<<d, m>>} /\ ours' = ours \cup {m}
      /\ nextId' = IF m = nextId THEN nextId + 1 ELSE nextId
    BY <1>1, GotTypes DEF Accept, ClientSame, disk, StoreSame, ModeOK
<1>3. /\ Pending' = Pending /\ Index' = Index
      /\ drafts' = drafts /\ listed' = listed /\ file' = file
    BY <1>2, SameStore DEF StoreSame
<1>4. nextId \in 1..MaxId + 1 /\ MaxId \in Nat /\ MaxId >= 1 /\ Tid = 1 /\ Ids = 1..MaxId
    BY IdAssumption DEF IInv, Types, Tid, Ids
<1>5. d # NewDraft => m = nextId /\ nextId # Tid
    BY <1>1, <1>2, QueuedAfterThread
<1>6. m \in Ids /\ nextId' \in 1..MaxId + 1 /\ m < nextId' /\ nextId <= nextId' /\ nextId' # Tid
    <2>1. CASE d = NewDraft
        BY <1>1, <1>2, <1>4, <2>1
    <2>2. CASE d # NewDraft
        BY <1>2, <1>4, <1>5, <2>2
    <2> QED BY <2>1, <2>2
<1>7. Types'
    <2>1. acks' \subseteq Drafts \X Ids /\ ours' \subseteq Ids
        BY <1>2, <1>6 DEF IInv, Types
    <2> QED BY <1>2, <1>3, <1>6, <2>1 DEF IInv, Types
<1>8. OpenedOK' /\ GotOK'
    BY <1>2, <1>3 DEF IInv, OpenedOK, GotOK
<1>9. InFlight' = {<<d, m>>}
    BY <1>2 DEF InFlight
<1>10. \A x \in Ids : x < nextId => x < nextId'
    <2> TAKE x \in Ids
    <2>1. x \in Nat /\ nextId \in Nat /\ nextId' \in Nat
        BY <1>4, <1>6
    <2> QED BY <1>6, <2>1
<1>11. FlightOK'
    <2>1. \A x \in IdsOf(Index) \cap Ids : x < nextId
        BY DEF IInv, FlightOK
    <2>2. \A x \in ours' : x < nextId'
        <3>1. \A x \in ours : x < nextId /\ x \in Ids
            BY DEF IInv, FlightOK, Types
        <3> QED BY <1>2, <1>6, <1>10, <3>1
    <2>3. m \in ours'
        BY <1>2
    <2>4. d = NewDraft => m = Tid
        BY <1>1
    <2>5. d # NewDraft => m # Tid /\ \A x \in IdsOf(Index) \cap Ids : x < m
        BY <1>5, <2>1
    <2> QED BY <1>2, <1>3, <1>9, <1>10, <2>1, <2>2, <2>3, <2>4, <2>5 DEF FlightOK
<1>12. NewOK'
    <2>1. NewDraft \in queued => First = "sent"
        BY DEF IInv, NewOK
    <2>2. First = "sent" /\ nextId' > Tid => Tid \in ours'
        <3>1. CASE d = NewDraft
            BY <1>1, <1>2, <3>1
        <3>2. CASE d # NewDraft
            <4>1. nextId > Tid
                BY <1>4, <1>5, <3>2
            <4> QED BY <1>2, <4>1 DEF IInv, NewOK
        <3> QED BY <3>1, <3>2
    <2>3. \A a \in acks' : a[1] = NewDraft => NewDraft \in queued
        BY <1>2
    <2> QED BY <1>2, <1>3, <1>6, <2>1, <2>2, <2>3 DEF IInv, NewOK
<1>13. \A x \in Drafts : Involved(x)' => Involved(x)
    BY <1>2 DEF Involved
<1> QED BY <1>2, <1>7, <1>8, <1>11, <1>12, <1>13, SameStoreStep

LEMMA SendDraftStep ==
    ASSUME IInv, TwoClients = FALSE, NEW d \in Drafts, SendDraft(d)
    PROVE  IInv'
<1>1. CASE d \notin drafts
    <2>1. Quit
        BY <1>1 DEF SendDraft
    <2> QED BY <2>1, QuitStep
<1>2. CASE d \in drafts
    <2>1. /\ StoreSame /\ UNCHANGED <<acks, ours, nextId, got, opened>> /\ ModeOK'
          /\ queued' = queued \cup {d} /\ mode = "up"
          /\ temp # None => temp.draft # d
        BY <1>2, GotTypes DEF SendDraft, Editable, Up, disk, server, StoreSame, ModeOK
    <2>2. /\ Pending' = Pending /\ Index' = Index
          /\ drafts' = drafts /\ listed' = listed /\ file' = file
        BY <2>1, SameStore DEF StoreSame
    <2>3. \A t \in Pending : t.draft # d
        BY <2>1 DEF IInv, Places, Pending
    <2>4. Types'
        BY <2>1, <2>2 DEF IInv, Types
    <2>5. OpenedOK' /\ GotOK'
        BY <2>1, <2>2 DEF IInv, OpenedOK, GotOK
    <2>6. FlightOK'
        <3>1. InFlight' = InFlight
            BY <2>1 DEF InFlight
        <3> QED BY <2>1, <2>2, <3>1 DEF IInv, FlightOK
    <2>7. NewOK'
        BY <1>2, <2>1, <2>2 DEF IInv, NewOK
    <2>8. \A x \in Drafts : Involved(x)' => Involved(x) \/ x = d
        BY <2>1 DEF Involved
    <2> QED BY <1>2, <2>1, <2>3, <2>4, <2>5, <2>6, <2>7, <2>8, SameStoreStep
<1> QED BY <1>1, <1>2

LEMMA ReadAckStep ==
    ASSUME IInv, NEW d \in Drafts, NEW m \in Ids, ReadAck(d, m)
    PROVE  IInv'
<1>1. /\ StoreSame /\ UNCHANGED <<queued, ours, nextId, got>>
      /\ mode = "up" /\ mode' = "up" /\ opened = None
      /\ temp # None => temp.op \in {"ws", "ds", "nr"}
      /\ <<d, m>> \in acks /\ acks' = acks \ {<<d, m>>}
      /\ opened' = IF d \in drafts THEN [draft |-> d, mid |-> m] ELSE None
    BY DEF ReadAck, ReaderFree, Up, disk, StoreSame
<1>2. /\ Pending' = Pending /\ Index' = Index
      /\ drafts' = drafts /\ listed' = listed /\ file' = file
    BY <1>1, SameStore DEF StoreSame
<1>3. ModeOK'
    BY <1>1, <1>2 DEF IInv, Places, ModeOK, StoreSame
<1>4. acks' = {}
    BY <1>1 DEF IInv, FlightOK, InFlight
<1>5. opened' = None \/ (opened' = [draft |-> d, mid |-> m] /\ opened'.draft = d /\ opened'.mid = m /\ d \in drafts)
    BY <1>1
<1>6. Types'
    BY <1>1, <1>2, <1>4, <1>5 DEF IInv, Types
<1>7. InFlight' \subseteq InFlight
    BY <1>1, <1>4, <1>5 DEF InFlight
<1>8. FlightOK'
    BY <1>1, <1>2, <1>4, <1>7 DEF IInv, FlightOK
<1>9. OpenedOK'
    <2>1. ASSUME NEW t \in Pending, t.draft = d PROVE FALSE
        <3>1. t.op \in {"ws", "ds", "nr"}
            BY <1>1 DEF IInv, Places, Pending
        <3>2. Involved(d)
            BY <1>1 DEF Involved
        <3>3. t.op # "ss" => ~Involved(d)
            BY <2>1 DEF IInv, DraftAt
        <3> QED BY <3>1, <3>2, <3>3
    <2> QED BY <1>2, <1>5, <2>1 DEF OpenedOK
<1>10. NewOK'
    BY <1>1, <1>2, <1>4 DEF IInv, NewOK
<1>11. GotOK'
    BY <1>1, <1>2 DEF IInv, GotOK
<1>12. \A x \in Drafts : Involved(x)' => Involved(x)
    BY <1>1, <1>4, <1>5 DEF Involved
<1> QED BY <1>1, <1>3, <1>6, <1>8, <1>9, <1>10, <1>11, <1>12, SameStoreStep

-----------------------------------------------------------------------------
(* The commit of a transaction.                                            *)

\* The rename of the temporary file of t in the running service.
LEMMA CommitIs ==
    ASSUME IInv, mode = "up", temp = None, NEW t, Commit(t), TransOK(t)
    PROVE  /\ temp' = t /\ left = {} /\ left' = {} /\ Pending = {} /\ Pending' = {t}
           /\ todo' = Steps(t) /\ Remaining(todo', StepSet(t))
           /\ \A s \in StepSet(t) : ~Done(t, s)'
           /\ Index = Idx(file)
           /\ IndexOf({t}, file) = IF t.new = <<>> THEN Idx(file) ELSE ReadIndex(t.new)
           /\ IndexOf({t}, file') = IF t.new = <<>> THEN Idx(file') ELSE ReadIndex(t.new)
<1>1. left = {} /\ Pending = {}
    BY DEF IInv, Places, Pending
<1>2. temp' = t /\ todo' = Steps(t) /\ left' = {}
    BY <1>1 DEF Commit
<1>3. t # None
    BY NoneAssumption DEF TransOK
<1>4. Pending' = {t}
    BY <1>2, <1>3 DEF Pending
<1>5. Ranged(Steps(t), 1, 9, StepSet(t))
    BY StepsAre DEF TransOK
<1>6. "drop" \in StepSet(t)
    BY DEF StepSet
<1>7. Remaining(todo', StepSet(t))
    BY <1>2, <1>5, <1>6, RemainingFirst
<1>8. \A s \in StepSet(t) : In(s, todo')
    BY <1>2, <1>5 DEF Ranged
<1>9. \A s \in StepSet(t) : ~Done(t, s)'
    BY <1>8 DEF Done, In
<1>10. Index = Idx(file)
    BY <1>1, OneIndex DEF IInv
<1>11. /\ IndexOf({t}, file) = IF t.new = <<>> THEN Idx(file) ELSE ReadIndex(t.new)
       /\ IndexOf({t}, file') = IF t.new = <<>> THEN Idx(file') ELSE ReadIndex(t.new)
    BY IndexOfIs
<1> QED BY <1>1, <1>2, <1>4, <1>7, <1>9, <1>10, <1>11

\* What a handler that commits t answers for: where the file stands, whose draft it
\* is, and what the new index idx holds.
LEMMA CommitStep ==
    ASSUME IInv, mode = "up", mode' = "up", temp = None, NEW t, Commit(t), TransOK(t),
           UNCHANGED <<file, drafts, queued, doc, listed, nextId, acks, ours, got>>,
           NEW idx, idx = (IF t.new = <<>> THEN Idx(file) ELSE ReadIndex(t.new)),
           IF t.new = <<>> \/ Links(t) THEN file = <<>>
           ELSE file # <<>> /\ Len(file) >= t.pos /\ (Cuts(t) \/ Len(file) <= t.pos + Len(t.new)),
           \/ t.op # "ss" /\ opened' = opened /\ (opened # None => t.draft # opened.draft)
           \/ t.op = "ss" /\ opened # None /\ opened' = None /\ t.draft = opened.draft,
           \A d \in Replies :
              d \in IdsOf(idx) <=> IF d = t.draft THEN t.op = "ws" ELSE d \in IdsOf(Idx(file)),
           IdsOf(Idx(file)) \cap Ids \subseteq IdsOf(idx),
           NewDraft \in IdsOf(idx) => NewDraft \in IdsOf(Idx(file)),
           \A m \in IdsOf(idx) \cap Ids :
              m \in IdsOf(Idx(file)) \/ (m < nextId /\ \A a \in InFlight' : m < a[2]),
           t.op \in {"ws", "ds"} => ~Involved(t.draft),
           t.draft = NewDraft => First = "sent",
           t.new # <<>> => nextId # Tid /\ (NewDraft \in drafts => t.op = "ss" /\ t.draft = NewDraft)
    PROVE  IInv'
<1>1. /\ temp' = t /\ left = {} /\ left' = {} /\ Pending = {} /\ Pending' = {t}
      /\ todo' = Steps(t) /\ Remaining(todo', StepSet(t))
      /\ \A s \in StepSet(t) : ~Done(t, s)'
      /\ Index = Idx(file) /\ Index' = idx
    BY CommitIs, IndexIs
<1>2. t \in Transactions /\ t # None /\ t.op \in {"sr", "sc", "ss", "ws", "ds", "nr"}
    BY NoneAssumption DEF TransOK, Transactions
<1>3. Types'
    BY DEF IInv, Types
<1>4. Places'
    <2>1. TransOK(t)'
        BY DEF TransOK
    <2>2. Remaining(todo, StepSet(temp))'
        BY <1>1 DEF StepSet
    <2> QED BY <1>1, <1>2, <2>1, <2>2 DEF Places
<1>5. FileOK'
    <2>1. file = <<>> \/ file \in Seq(Cell)
        BY <1>1, WholeHas DEF IInv, FileOK
    <2>2. t.new # <<>> => IF Links(t) THEN "link" \in StepSet(t)
                          ELSE "write" \in StepSet(t) /\ (Cuts(t) => "trunc" \in StepSet(t))
        BY DEF StepSet
    <2>3. FileAt(t)'
        <3>1. CASE t.new = <<>>
            BY <3>1 DEF FileAt
        <3>2. CASE t.new # <<>> /\ Links(t)
            BY <1>1, <2>2, <3>2 DEF FileAt
        <3>3. CASE t.new # <<>> /\ ~Links(t)
            BY <1>1, <2>1, <2>2, <3>3 DEF FileAt
        <3> QED BY <3>1, <3>2, <3>3
    <2> QED BY <1>1, <2>3 DEF FileOK
<1>6. \A d \in Drafts : Involved(d)' => Involved(d)
    BY DEF Involved
<1>7. ASSUME NEW d \in Drafts PROVE DraftAt(d)'
    <2>1. /\ IF d = NewDraft THEN listed <=> d \in drafts ELSE d \in drafts <=> d \in IdsOf(Index)
          /\ d \in queued => d \in drafts
        BY <1>1 DEF IInv, DraftAt
    <2>2. d # NewDraft => d \in Replies
        BY DEF Drafts
    <2>3. CASE t.draft # d
        BY <1>1, <2>1, <2>2, <2>3 DEF DraftAt
    <2>4. CASE t.draft = d
        <3>1. t.op \in {"ss", "ws", "ds"}
            <4>1. d # None
                BY KindAssumption
            <4> QED BY <1>2, <2>4, <4>1 DEF TransOK
        <3>2. /\ "rmdraft" \in StepSet(t) /\ "index" \in StepSet(t)
              /\ t.op = "ws" => "lndraft" \in StepSet(t)
              /\ t.op = "ss" => "dequeue" \in StepSet(t)
            BY <3>1 DEF StepSet
        <3>3. d # NewDraft => (d \in IdsOf(Index') <=> t.op = "ws")
            BY <1>1, <2>2, <2>4
        <3>4. t.op # "ss" => ~Involved(d)'
            BY <1>6, <2>4, <3>1
        <3>5. d = NewDraft /\ t.op # "ss" => t.new = <<>>
            BY <2>4, <3>1 DEF TransOK
        <3>6. /\ ~Done(t, "rmdraft")' /\ ~Done(t, "index")'
              /\ t.op = "ws" => ~Done(t, "lndraft")'
              /\ t.op = "ss" => ~Done(t, "dequeue")'
            BY <1>1, <3>2
        <3> QED BY <1>1, <2>1, <2>4, <3>3, <3>4, <3>5, <3>6 DEF DraftAt
    <2> QED BY <2>3, <2>4
<1>8. OpenedOK'
    BY <1>1 DEF IInv, OpenedOK
<1>9. FlightOK'
    <2>1. InFlight' \subseteq InFlight
        BY DEF InFlight
    <2>2. opened' # None => opened' = opened
        OBVIOUS
    <2>3. \A m \in IdsOf(idx) \cap Ids : m < nextId
        BY <1>1 DEF IInv, FlightOK
    <2>4. \A a \in InFlight' : a[1] # NewDraft => \A m \in IdsOf(idx) \cap Ids : m < a[2]
        BY <1>1, <2>1 DEF IInv, FlightOK
    <2> QED BY <1>1, <2>1, <2>2, <2>3, <2>4 DEF IInv, FlightOK
<1>10. NewOK'
    BY <1>1 DEF IInv, NewOK
<1>11. DocOK'
    <2>1. "index" \in StepSet(t)
        BY DEF StepSet
    <2> QED BY <1>1, <2>1 DEF IInv, DocOK
<1>12. GotOK'
    <2>1. got \subseteq Ids
        BY DEF IInv, Types
    <2> QED BY <1>1, <2>1 DEF IInv, GotOK
<1> QED BY <1>3, <1>4, <1>5, <1>7, <1>8, <1>9, <1>10, <1>11, <1>12 DEF IInv

-----------------------------------------------------------------------------
(* The handlers.                                                           *)

\* Between two transactions.
LEMMA RestIs ==
    ASSUME IInv, mode = "up", Idle
    PROVE  /\ temp = None /\ left = {} /\ Pending = {} /\ Index = Idx(file)
           /\ file = <<>> \/ Whole(file, 0)
<1>1. temp = None
    BY DEF IInv, Places, Remaining, Idle
<1>2. left = {} /\ Pending = {}
    BY <1>1 DEF IInv, Places, Pending
<1> QED BY <1>1, <1>2, OneIndex DEF IInv, FileOK

LEMMA NoIds == IdsOf(<<>>) = {} /\ IdsOf(Idx(<<>>)) = {}
<1>1. Len(<<>>) = 0 /\ 1..0 = {}
    OBVIOUS
<1> QED BY <1>1 DEF IdsOf, Idx

LEMMA FileIs ==
    ASSUME Whole(file, 0), NEW idx, idx = ReadIndex(file), NEW pos, pos = IndexPos(file)
    PROVE  /\ file \in Seq(Cell) /\ file # <<>> /\ idx \in Seq(Entries) /\ pos \in Nat
           /\ Len(file) = pos + Len(WriteIndex(idx)) /\ Len(WriteIndex(idx)) \in Nat \ {0}
           /\ Len(file) \in Nat /\ pos <= Len(file)
           /\ Sound(idx, pos) /\ Idx(file) = idx
<1>1. /\ file \in Seq(Cell) /\ file # <<>> /\ idx \in Seq(Entries) /\ pos \in Nat
      /\ Len(file) = pos + Len(WriteIndex(idx)) /\ Len(WriteIndex(idx)) \in Nat \ {0}
      /\ Sound(idx, 0 + pos)
    BY WholeHas
<1>2. 0 + pos = pos /\ pos <= Len(file) /\ Len(file) \in Nat
    BY <1>1
<1>3. Sound(idx, pos)
    BY <1>1, <1>2
<1> QED BY <1>1, <1>2, <1>3 DEF Idx

LEMMA TransactionIs ==
    ASSUME NEW op, NEW d, NEW m, NEW pos, NEW new, NEW local,
           NEW t, t = Transaction(op, d, m, pos, new, local)
    PROVE  /\ t.op = op /\ t.draft = d /\ t.mid = m /\ t.pos = pos /\ t.new = new
           /\ /\ op \in {"sr", "sc", "ss", "ws", "ds", "nr"} /\ d \in Drafts \cup {None}
              /\ m \in Ids \cup {None} /\ pos \in Nat /\ new \in Seq(Cell) /\ local \in BOOLEAN
              => t \in Transactions
BY DEF Transaction, Transactions

\* An index alone, after the cells of a file.
LEMMA IndexAlone ==
    ASSUME NEW pos \in Nat, NEW idx, Sound(idx, pos)
    PROVE  /\ Whole(WriteIndex(idx), pos) /\ ReadIndex(WriteIndex(idx)) = idx
           /\ WriteIndex(idx) \in Seq(Cell) /\ WriteIndex(idx) # <<>>
<1>1. <<>> \in Seq(Cell) /\ Len(<<>>) = 0 /\ pos + 0 = pos
    OBVIOUS
<1>2. idx \in Seq(Entries)
    BY DEF Sound
<1>3. PICK w : w = WriteIndex(idx)
    OBVIOUS
<1>4. w \in Seq(Cell)
    BY <1>2, <1>3, <1>1, RoundTrip
<1>5. <<>> \o w = w
    BY <1>4, ConcatEmptySeq
<1>6. Sound(idx, pos + Len(<<>>))
    BY <1>1
<1>7. /\ Whole(<<>> \o w, pos) /\ ReadIndex(<<>> \o w) = idx /\ <<>> \o w # <<>>
    BY <1>1, <1>3, <1>6, WholeIs
<1> QED BY <1>3, <1>4, <1>5, <1>7

\* The index of the thread is written again, with the same messages.
LEMMA RewriteStep ==
    ASSUME IInv, mode = "up", Idle, file # <<>>,
           UNCHANGED <<file, drafts, queued, doc, listed, opened, mode, nextId, acks, ours, got>>,
           NEW op \in {"ws", "ds", "sc", "nr"}, NEW d, NEW m \in Ids \cup {None}, NEW local \in BOOLEAN,
           NEW old, old = ReadIndex(file), NEW idx, Sound(idx, IndexPos(file)),
           Commit(Transaction(op, d, m, IndexPos(file), WriteIndex(idx), local)),
           IF op \in {"ws", "ds"} THEN d \in Replies /\ ~Involved(d) ELSE d = None,
           IdsOf(idx) = IF op = "ws" THEN IdsOf(old) \cup {d}
                        ELSE IF op = "ds" THEN IdsOf(old) \ {d} ELSE IdsOf(old)
    PROVE  IInv'
<1>1. PICK pos : pos = IndexPos(file)
    OBVIOUS
<1>2. PICK t : t = Transaction(op, d, m, pos, WriteIndex(idx), local)
    OBVIOUS
<1>3. temp = None /\ Index = Idx(file) /\ Whole(file, 0)
    BY RestIs
<1>4. pos \in Nat /\ Idx(file) = old /\ Len(file) >= pos
    BY <1>1, <1>3, FileIs
<1>5. /\ Whole(WriteIndex(idx), pos) /\ ReadIndex(WriteIndex(idx)) = idx
      /\ WriteIndex(idx) \in Seq(Cell) /\ WriteIndex(idx) # <<>>
    BY <1>1, <1>4, IndexAlone
<1>6. d \in Drafts \cup {None} /\ (d = None \/ (d \in Replies /\ d \in Drafts)) /\ None \notin Drafts
    BY KindAssumption DEF Drafts
<1>7. /\ t.op = op /\ t.draft = d /\ t.mid = m /\ t.pos = pos /\ t.new = WriteIndex(idx)
      /\ t \in Transactions
    BY <1>2, <1>4, <1>5, <1>6, TransactionIs
<1>8. ~Links(t) /\ Cuts(t)
    BY <1>7 DEF Links, Cuts
<1>9. d # NewDraft /\ d \notin Ids
    <2>1. NewDraft \notin Replies /\ NewDraft \in Drafts /\ Drafts \cap Ids = {}
        BY KindAssumption DEF Drafts
    <2> QED BY <1>6, <2>1, NoneAssumption
<1>10. TransOK(t)
    <2>1. t.op \in {"ws", "ds"} => t.draft \in Drafts /\ t.draft # NewDraft
        BY <1>7, <1>9 DEF Drafts
    <2>2. t.op \notin {"ws", "ds"} => t.draft = None
        BY <1>7
    <2>3. t.op \notin {"sr", "ss"} /\ t.new # <<>> /\ Whole(t.new, t.pos)
        BY <1>5, <1>7
    <2> QED BY <1>7, <1>8, <2>1, <2>2, <2>3 DEF TransOK
<1>11. \A x \in Replies : x \in IdsOf(idx) <=> IF x = t.draft THEN t.op = "ws" ELSE x \in IdsOf(Idx(file))
    <2>1. None \notin Replies
        BY KindAssumption DEF Drafts
    <2> QED BY <1>4, <1>7, <2>1
<1>12. /\ \A x \in Ids : x \in IdsOf(idx) <=> x \in IdsOf(Idx(file))
       /\ NewDraft \in IdsOf(idx) => NewDraft \in IdsOf(Idx(file))
    BY <1>4, <1>9
<1>13. opened # None => t.draft # opened.draft
    <2>1. opened # None => opened.draft # None
        BY KindAssumption DEF IInv, Types
    <2> QED BY <1>7, <2>1 DEF Involved
<1>14. nextId # Tid /\ NewDraft \notin drafts
    BY DEF IInv, NewOK
<1>15. Commit(t)
    BY <1>1, <1>2
<1> QED BY <1>3, <1>4, <1>5, <1>7, <1>8, <1>9, <1>10, <1>11, <1>12, <1>13, <1>14, <1>15, CommitStep

LEMMA StateFree ==
    ASSUME IInv, TwoClients = FALSE, mode = "up", temp = None, NEW d \in Drafts, Editable(d)
    PROVE  ~Involved(d)
BY DEF Editable, Involved

\* The draft of the thread is saved or discarded: no message is there yet.
LEMMA NewDraftStep ==
    ASSUME IInv, mode = "up", Idle, file = <<>>, First = "sent", ~Involved(NewDraft),
           UNCHANGED <<file, drafts, queued, doc, listed, opened, mode, nextId, acks, ours, got>>,
           NEW op \in {"ws", "ds"}, Commit(Transaction(op, NewDraft, None, 0, <<>>, FALSE))
    PROVE  IInv'
<1>1. PICK local, n, c : local = FALSE /\ n = 0 /\ c = <<>> /\ local \in BOOLEAN /\ n \in Nat /\ c \in Seq(Cell)
    <2>1. FALSE \in BOOLEAN /\ 0 \in Nat /\ <<>> \in Seq(Cell)
        OBVIOUS
    <2> QED BY <2>1
<1>2. temp = None /\ Index = Idx(file)
    BY RestIs
<1>3. NewDraft \in Drafts
    BY DEF Drafts
<1>4. PICK t : t = Transaction(op, NewDraft, None, n, c, local)
    OBVIOUS
<1>5. /\ t.op = op /\ t.draft = NewDraft /\ t.mid = None /\ t.pos = n /\ t.new = c
      /\ t \in Transactions
    <2>1. local \in BOOLEAN /\ n \in Nat /\ c \in Seq(Cell)
        BY <1>1
    <2>2. NewDraft \in Drafts \cup {None} /\ None \in Ids \cup {None}
        BY <1>3
    <2>3. op \in {"sr", "sc", "ss", "ws", "ds", "nr"}
        OBVIOUS
    <2>4. t \in Transactions
        BY <1>4, <2>1, <2>2, <2>3 DEF Transaction, Transactions
    <2> QED BY <1>4, <2>4 DEF Transaction
<1>6. ~Links(t)
    BY <1>5 DEF Links
<1>7. TransOK(t)
    BY <1>1, <1>3, <1>5, <1>6 DEF TransOK
<1>8. IdsOf(Idx(file)) = {} /\ NewDraft \notin Replies
    BY NoIds, KindAssumption
<1>9. opened # None => t.draft # opened.draft
    BY <1>5 DEF Involved
<1>10. Commit(t)
    BY <1>1, <1>4
<1> QED BY <1>1, <1>2, <1>5, <1>7, <1>8, <1>9, <1>10, CommitStep

LEMMA DraftEntryIs ==
    ASSUME NEW d \in Replies, NEW tag \in BOOLEAN
    PROVE  /\ DraftEntry(d, tag) \in Entries /\ DraftEntry(d, tag).id = d
           /\ DraftEntry(d, tag).off = -1 /\ ~Stored(DraftEntry(d, tag)) /\ d \notin Ids
BY KindAssumption DEF DraftEntry, Entry, Entries, Stored, Drafts

LEMMA SaveDraftStep ==
    ASSUME IInv, TwoClients = FALSE, NEW d \in Drafts, SaveDraft(d)
    PROVE  IInv'
<1>1. /\ mode = "up" /\ Idle /\ Editable(d) /\ Drafted(d)
      /\ UNCHANGED <<opened, nextId, acks, ours, got>>
    BY DEF SaveDraft, DraftRequest, Up, server
<1>2. /\ temp = None /\ Index = Idx(file) /\ (file = <<>> \/ Whole(file, 0))
      /\ ~Involved(d)
    BY <1>1, RestIs, StateFree
<1>3. CASE d = NewDraft /\ renamed
    <2>1. Quit
        BY <1>3 DEF SaveDraft
    <2> QED BY <2>1, QuitStep
<1>4. CASE d = NewDraft /\ ~renamed
    <2>1. /\ Commit(Transaction("ws", NewDraft, None, 0, <<>>, FALSE))
          /\ UNCHANGED <<file, drafts, queued, doc, listed, mode>>
        BY <1>4 DEF SaveDraft, disk
    <2>2. file = <<>> /\ First = "sent"
        BY <1>1, <1>4 DEF Drafted
    <2> QED BY <1>1, <1>2, <1>4, <2>1, <2>2, NewDraftStep
<1>5. CASE d # NewDraft
    <2> DEFINE idx == ReadIndex(file)
               i == Place(idx, d)
               new == IF i = 0 THEN Append(idx, DraftEntry(d, FALSE))
                      ELSE [idx EXCEPT ![i] = DraftEntry(d, @.tag)]
    <2>1. file # <<>> /\ d \in Replies
        BY <1>1, <1>5 DEF Drafted, Drafts
    <2>2. /\ Commit(Transaction("ws", d, None, IndexPos(file), WriteIndex(new), FALSE))
          /\ UNCHANGED <<file, drafts, queued, doc, listed, mode>>
        BY <1>5 DEF SaveDraft, disk
    <2>3. PICK old, pos : old = idx /\ pos = IndexPos(file)
        OBVIOUS
    <2>4. pos \in Nat /\ Sound(old, pos) /\ old \in Seq(Entries)
        BY <1>2, <2>1, <2>3, FileIs
    <2>5. -1 <= pos /\ pos \in Int
        BY <2>4
    <2>6. Sound(new, pos) /\ IdsOf(new) = IdsOf(old) \cup {d}
        <3>1. CASE i = 0
            <4>1. d \notin IdsOf(old)
                BY <2>3, <2>4, <3>1, PlaceIs DEF Has
            <4>2. PICK e : e = DraftEntry(d, FALSE)
                OBVIOUS
            <4>3. e \in Entries /\ e.id = d /\ e.off = -1 /\ ~Stored(e) /\ d \notin Ids
                BY <2>1, <4>2, DraftEntryIs
            <4>4. Sound(Append(old, e), pos) /\ IdsOf(Append(old, e)) = IdsOf(old) \cup {e.id}
                BY <2>4, <2>5, <4>1, <4>3, SoundAppend
            <4> QED BY <2>3, <3>1, <4>2, <4>3, <4>4
        <3>2. CASE i # 0
            <4>1. i \in 1..Len(old) /\ old[i].id = d
                BY <2>3, <2>4, <3>2, PlaceIs DEF Has
            <4>2. old[i] \in Entries /\ old[i].tag \in BOOLEAN /\ (Stored(old[i]) <=> d \in Ids)
                BY <2>4, <4>1, EntryFields DEF Sound
            <4>3. PICK e : e = DraftEntry(d, old[i].tag)
                OBVIOUS
            <4>4. e \in Entries /\ e.id = d /\ e.off = -1 /\ ~Stored(e) /\ d \notin Ids
                BY <2>1, <4>2, <4>3, DraftEntryIs
            <4>5. Sound([old EXCEPT ![i] = e], pos) /\ IdsOf([old EXCEPT ![i] = e]) = IdsOf(old)
                BY <2>4, <2>5, <4>1, <4>2, <4>4, SoundExcept
            <4>6. new = [old EXCEPT ![i] = e]
                BY <2>3, <3>2, <4>3
            <4>7. d \in IdsOf(old)
                BY <4>1 DEF IdsOf
            <4> QED BY <4>5, <4>6, <4>7
        <3> QED BY <3>1, <3>2
    <2>7. PICK n : n = new
        OBVIOUS
    <2>8. Commit(Transaction("ws", d, None, IndexPos(file), WriteIndex(n), FALSE))
        BY <2>2, <2>7
    <2>9. Sound(n, IndexPos(file)) /\ IdsOf(n) = IdsOf(old) \cup {d} /\ old = ReadIndex(file)
        BY <2>3, <2>6, <2>7
    <2> QED BY <1>1, <1>2, <2>1, <2>2, <2>8, <2>9, RewriteStep
<1> QED BY <1>3, <1>4, <1>5

LEMMA DiscardDraftStep ==
    ASSUME IInv, TwoClients = FALSE, NEW d \in Drafts, DiscardDraft(d)
    PROVE  IInv'
<1>1. /\ mode = "up" /\ Idle /\ Editable(d) /\ Drafted(d)
      /\ UNCHANGED <<opened, nextId, acks, ours, got>>
    BY DEF DiscardDraft, DraftRequest, Up, server
<1>2. /\ temp = None /\ Index = Idx(file) /\ (file = <<>> \/ Whole(file, 0))
      /\ ~Involved(d)
    BY <1>1, RestIs, StateFree
<1>3. CASE d = NewDraft /\ renamed
    <2>1. Quit
        BY <1>3 DEF DiscardDraft
    <2> QED BY <2>1, QuitStep
<1>4. CASE d = NewDraft /\ ~renamed
    <2>1. /\ Commit(Transaction("ds", NewDraft, None, 0, <<>>, FALSE))
          /\ UNCHANGED <<file, drafts, queued, doc, listed, mode>>
        BY <1>4 DEF DiscardDraft, disk
    <2>2. file = <<>> /\ First = "sent"
        BY <1>1, <1>4 DEF Drafted
    <2> QED BY <1>1, <1>2, <1>4, <2>1, <2>2, NewDraftStep
<1>5. CASE d # NewDraft
    <2> DEFINE idx == ReadIndex(file)
               new == RemoveAt(idx, Place(idx, d))
    <2>1. file # <<>> /\ d \in Replies
        BY <1>1, <1>5 DEF Drafted, Drafts
    <2>2. /\ Commit(Transaction("ds", d, None, IndexPos(file), WriteIndex(new), FALSE))
          /\ UNCHANGED <<file, drafts, queued, doc, listed, mode>>
          /\ Has(idx, d)
        BY <1>5 DEF DiscardDraft, disk
    <2>3. PICK old, pos, i : old = idx /\ pos = IndexPos(file) /\ i = Place(idx, d)
        OBVIOUS
    <2>4. pos \in Nat /\ Sound(old, pos) /\ old \in Seq(Entries)
        BY <1>2, <2>1, <2>3, FileIs
    <2>5. i \in 1..Len(old) /\ old[i].id = d
        BY <2>2, <2>3, <2>4, PlaceIs
    <2>6. Sound(RemoveAt(old, i), pos) /\ IdsOf(RemoveAt(old, i)) = IdsOf(old) \ {d}
        BY <2>4, <2>5, SoundRemove
    <2>7. PICK n : n = RemoveAt(old, i)
        OBVIOUS
    <2>8. Commit(Transaction("ds", d, None, IndexPos(file), WriteIndex(n), FALSE))
        BY <2>2, <2>3, <2>7
    <2>9. Sound(n, IndexPos(file)) /\ IdsOf(n) = IdsOf(old) \ {d} /\ old = ReadIndex(file)
        BY <2>3, <2>6, <2>7
    <2> QED BY <1>1, <1>2, <2>1, <2>2, <2>8, <2>9, RewriteStep
<1> QED BY <1>3, <1>4, <1>5

\* One entry of the index is written again.
LEMMA ReentryStep ==
    ASSUME IInv, mode = "up", Idle, file # <<>>,
           UNCHANGED <<file, drafts, queued, doc, listed, opened, mode, nextId, acks, ours, got>>,
           NEW op \in {"sc", "nr"}, NEW m \in Ids \cup {None}, NEW local \in BOOLEAN,
           NEW x, Has(ReadIndex(file), x),
           NEW e \in Entries, e.id = ReadIndex(file)[Place(ReadIndex(file), x)].id,
           e.off = ReadIndex(file)[Place(ReadIndex(file), x)].off,
           Commit(Transaction(op, None, m, IndexPos(file),
                              WriteIndex([ReadIndex(file) EXCEPT ![Place(ReadIndex(file), x)] = e]), local))
    PROVE  IInv'
<1>1. PICK old, pos, i : old = ReadIndex(file) /\ pos = IndexPos(file) /\ i = Place(old, x)
    OBVIOUS
<1>2. Whole(file, 0)
    BY RestIs
<1>3. pos \in Nat /\ pos \in Int /\ Sound(old, pos) /\ old \in Seq(Entries)
    BY <1>1, <1>2, FileIs
<1>4. i \in 1..Len(old)
    BY <1>1, <1>3, PlaceIs
<1>5. e.id = old[i].id /\ e.off = old[i].off
    BY <1>1
<1>6. e.off <= pos /\ (Stored(e) <=> Stored(old[i]))
    BY <1>3, <1>4, <1>5 DEF Sound, Stored
<1>7. Sound([old EXCEPT ![i] = e], pos) /\ IdsOf([old EXCEPT ![i] = e]) = IdsOf(old)
    BY <1>3, <1>4, <1>5, <1>6, SoundExcept
<1>8. PICK n : n = [old EXCEPT ![i] = e]
    OBVIOUS
<1>9. Commit(Transaction(op, None, m, IndexPos(file), WriteIndex(n), local))
    BY <1>1, <1>8
<1>10. Sound(n, IndexPos(file)) /\ IdsOf(n) = IdsOf(old) /\ old = ReadIndex(file)
    BY <1>1, <1>7, <1>8
<1> QED BY <1>9, <1>10, RewriteStep

LEMMA ConfirmStep ==
    ASSUME IInv, NEW m \in Ids, NEW right \in BOOLEAN, Confirm(m, right)
    PROVE  IInv'
<1> DEFINE idx == ReadIndex(file)
           i == Place(idx, m)
           el == IF right THEN [idx[i] EXCEPT !.fwd = ""]
                 ELSE [idx[i] EXCEPT !.fwd = "failed", !.seen = "no"]
<1>1. /\ mode = "up" /\ Idle /\ m \in Forwarded
      /\ UNCHANGED <<file, drafts, queued, doc, listed, opened, mode, nextId, acks, ours, got>>
      /\ Commit(Transaction("sc", None, m, IndexPos(file), WriteIndex([idx EXCEPT ![i] = el]), FALSE))
    BY DEF Confirm, ReaderFree, Up, disk, server
<1>2. m \in IdsOf(Idx(file))
    BY <1>1, RestIs DEF IInv, GotOK
<1>3. file # <<>>
    BY <1>2, NoIds
<1>4. idx \in Seq(Entries) /\ m \in IdsOf(idx)
    BY <1>1, <1>2, <1>3, RestIs, FileIs
<1>5. Has(idx, m) /\ i \in 1..Len(idx) /\ idx[i] \in Entries
    BY <1>4, PlaceIs
<1>6. el \in Entries /\ el.id = idx[i].id /\ el.off = idx[i].off
    <2>1. PICK e : e = idx[i]
        OBVIOUS
    <2>2. e \in Entries
        BY <1>5, <2>1
    <2> DEFINE f == IF right THEN [e EXCEPT !.fwd = ""] ELSE [e EXCEPT !.fwd = "failed", !.seen = "no"]
    <2>3. f \in Entries /\ f.id = e.id /\ f.off = e.off
        BY <2>2 DEF Entries
    <2> QED BY <2>1, <2>3
<1>7. PICK e : e = el
    OBVIOUS
<1>8. /\ Commit(Transaction("sc", None, m, IndexPos(file), WriteIndex([idx EXCEPT ![i] = e]), FALSE))
      /\ e \in Entries /\ e.id = idx[i].id /\ e.off = idx[i].off
    BY <1>1, <1>6, <1>7
<1> QED BY <1>1, <1>3, <1>5, <1>8, ReentryStep

LEMMA TouchedIs ==
    ASSUME NEW act \in Acts, NEW local \in BOOLEAN, NEW e \in Entries
    PROVE  Touched(act, local, e) \in Entries /\ Touched(act, local, e).id = e.id
           /\ Touched(act, local, e).off = e.off
<1>1. CASE act = "see"
    BY <1>1 DEF Touched, Entries
<1>2. CASE act = "tag"
    BY <1>2 DEF Touched, Entries
<1>3. CASE act = "untag"
    BY <1>3 DEF Touched, Entries
<1> QED BY <1>1, <1>2, <1>3 DEF Acts

LEMMA TouchStep ==
    ASSUME IInv, mode = "up", Idle, NEW act \in Acts, NEW local \in BOOLEAN, NEW x,
           UNCHANGED <<file, drafts, queued, doc, listed, opened, mode, nextId, acks, ours, got>>,
           TouchChanges(act, local, x), CommitTouch(act, local, x)
    PROVE  IInv'
<1> DEFINE idx == ReadIndex(file)
           i == Place(idx, x)
<1>1. file # <<>> /\ Has(idx, x)
    BY DEF TouchChanges
<1>2. idx \in Seq(Entries)
    BY <1>1, RestIs, FileIs
<1>3. i \in 1..Len(idx) /\ idx[i] \in Entries
    BY <1>1, <1>2, PlaceIs
<1>4. PICK e : e = Touched(act, local, idx[i])
    OBVIOUS
<1>5. e \in Entries /\ e.id = idx[i].id /\ e.off = idx[i].off
    BY <1>3, <1>4, TouchedIs
<1>6. Commit(Transaction("nr", None, None, IndexPos(file), WriteIndex([idx EXCEPT ![i] = e]), local))
    BY <1>4 DEF CommitTouch
<1> QED BY <1>1, <1>5, <1>6, ReentryStep

LEMMA ReplicaTouchStep ==
    ASSUME IInv, NEW act \in Acts, NEW x, ReplicaTouch(act, x)
    PROVE  IInv'
<1>1. /\ mode = "up" /\ Idle
      /\ UNCHANGED <<file, drafts, queued, doc, listed, opened, mode, nextId, acks, ours, got>>
      /\ TouchChanges(act, FALSE, x) /\ CommitTouch(act, FALSE, x)
    BY DEF ReplicaTouch, ReaderFree, Up, disk, server
<1> QED BY <1>1, TouchStep

LEMMA CallTouchStep ==
    ASSUME IInv, updt.act \in Acts, CallTouch
    PROVE  IInv'
<1>1. mode = "up" /\ Idle
    BY DEF CallTouch, IInv, Places
<1>2. CASE file # <<>> /\ ~Readable(file)
    <2>1. Quit
        BY <1>2 DEF CallTouch
    <2> QED BY <2>1, QuitStep
<1>3. CASE ~(file # <<>> /\ ~Readable(file)) /\ TouchChanges(updt.act, TRUE, updt.id)
    <2>1. /\ UNCHANGED <<file, drafts, queued, doc, listed, opened, mode, nextId, acks, ours, got>>
          /\ CommitTouch(updt.act, TRUE, updt.id)
        BY <1>3 DEF CallTouch, disk, server
    <2>2. PICK a \in Acts : a = updt.act
        OBVIOUS
    <2>3. PICK x : x = updt.id
        OBVIOUS
    <2> QED BY <1>1, <1>3, <2>1, <2>2, <2>3, TouchStep
<1>4. CASE ~(file # <<>> /\ ~Readable(file)) /\ ~TouchChanges(updt.act, TRUE, updt.id)
    <2>1. /\ StoreSame /\ UNCHANGED <<queued, acks, ours, nextId, opened>> /\ ModeOK' /\ got' = got
        BY <1>1, <1>4, GotTypes DEF CallTouch, disk, server, StoreSame, ModeOK
    <2> QED BY <2>1, GotTypes, AsideStep
<1> QED BY <1>2, <1>3, <1>4

LEMMA BodyIs ==
    ASSUME NEW m \in Ids
    PROVE  Body(m) \in Seq(Cell) /\ Len(Body(m)) = Size[m] /\ Size[m] \in Nat \ {0}
<1>1. Size[m] \in Nat \ {0}
    BY IdAssumption
<1>2. <<"body", m>> \in Cell
    BY DEF Cell
<1>3. PICK n \in Nat : n = Size[m]
    BY <1>1
<1>4. PICK c \in Cell : c = <<"body", m>>
    BY <1>2
<1>5. Body(m) = [i \in 1..n |-> c]
    BY <1>3, <1>4 DEF Body
<1>6. [i \in 1..n |-> c] \in Seq(Cell) /\ Len([i \in 1..n |-> c]) = n
    OBVIOUS
<1> QED BY <1>1, <1>3, <1>5, <1>6

LEMMA MessageIs ==
    ASSUME NEW m \in Ids, NEW off \in Nat, NEW seen \in {"no", "local"}, NEW tag \in BOOLEAN
    PROVE  LET e == [id |-> m, off |-> off, size |-> Size[m], seen |-> seen, tag |-> tag, fwd |-> ""]
           IN  e \in Entries /\ e.id = m /\ e.off = off /\ e.size = Size[m] /\ e.tag = tag /\ Stored(e)
<1>1. Size[m] \in Nat
    BY IdAssumption
<1>2. off \in Int /\ off >= 0
    OBVIOUS
<1>3. PICK e : e = [id |-> m, off |-> off, size |-> Size[m], seen |-> seen, tag |-> tag, fwd |-> ""]
    OBVIOUS
<1>4. /\ e.id = m /\ e.off = off /\ e.size = Size[m] /\ e.tag = tag
      /\ e \in Entries
    BY <1>1, <1>2, <1>3 DEF Entries
<1>5. Stored(e)
    BY <1>2, <1>4 DEF Stored
<1> QED BY <1>3, <1>4, <1>5

\* The first message of a thread makes the file.
LEMMA ThreadStep ==
    ASSUME IInv, mode = "up", Idle, file = <<>>, nextId # Tid,
           UNCHANGED <<file, drafts, queued, doc, listed, mode, nextId, acks, ours, got>>,
           NEW op \in {"sr", "ss"}, NEW d, NEW e \in Entries, e.id = Tid, e.off = 0, Stored(e),
           Commit(Transaction(op, d, Tid, 0, Body(Tid) \o WriteIndex(<<e>>), FALSE)),
           \/ op = "sr" /\ opened' = opened /\ d = None /\ NewDraft \notin drafts
           \/ /\ op = "ss" /\ opened # None /\ opened' = None /\ d = opened.draft
              /\ d = NewDraft /\ First = "sent",
           Tid < nextId, \A a \in InFlight' : Tid < a[2]
    PROVE  IInv'
<1>1. PICK t, new : /\ t = Transaction(op, d, Tid, 0, Body(Tid) \o WriteIndex(<<e>>), FALSE)
                    /\ new = Body(Tid) \o WriteIndex(<<e>>)
    OBVIOUS
<1>2. temp = None /\ Index = Idx(file)
    BY RestIs
<1>3. Tid \in Ids /\ NewDraft \in Drafts /\ None \notin Drafts /\ Drafts \cap Ids = {}
      /\ NewDraft \notin Replies /\ Replies \subseteq Drafts
    BY IdAssumption, KindAssumption DEF Tid, Ids, Drafts
<1>4. Body(Tid) \in Seq(Cell) /\ Len(Body(Tid)) \in Nat
    BY <1>3, BodyIs
<1>5. Sound(<<e>>, 0 + Len(Body(Tid))) /\ IdsOf(<<e>>) = {Tid}
    <2>1. PICK n \in Int : n = 0 + Len(Body(Tid)) /\ 0 <= n
        BY <1>4
    <2> QED BY <2>1, SoundOne
<1>6. /\ Whole(new, 0) /\ ReadIndex(new) = <<e>> /\ new \in Seq(Cell) /\ new # <<>>
    BY <1>1, <1>4, <1>5, WholeIs
<1>7. d \in Drafts \cup {None}
    BY <1>3
<1>8. /\ t.op = op /\ t.draft = d /\ t.mid = Tid /\ t.pos = 0 /\ t.new = new
      /\ t \in Transactions
    <2>1. FALSE \in BOOLEAN /\ 0 \in Nat /\ op \in {"sr", "sc", "ss", "ws", "ds", "nr"}
          /\ Tid \in Ids \cup {None}
        BY <1>3
    <2>2. t = Transaction(op, d, Tid, 0, new, FALSE)
        BY <1>1
    <2> QED BY <1>6, <1>7, <2>1, <2>2 DEF Transaction, Transactions
<1>9. Links(t) /\ t.new # <<>>
    BY <1>6, <1>8 DEF Links
<1>10. TransOK(t)
    <2>1. t.op \in {"sr", "ss"} /\ t.mid \in Ids /\ t.mid = Tid /\ t.pos = 0
        BY <1>3, <1>8
    <2>2. t.mid \in IdsOf(ReadIndex(t.new)) /\ Whole(t.new, t.pos)
        BY <1>5, <1>6, <1>8
    <2>3. (t.op = "sr" => t.draft = None) /\ (t.op = "ss" => t.draft \in Drafts /\ t.draft = NewDraft)
        BY <1>3, <1>8
    <2> QED BY <1>8, <1>9, <2>1, <2>2, <2>3 DEF TransOK
<1>11. IdsOf(Idx(file)) = {}
    BY NoIds
<1>12. \A x \in Replies : x \notin IdsOf(<<e>>) /\ x # t.draft
    BY <1>3, <1>5, <1>8
<1>13. \/ t.op # "ss" /\ opened' = opened /\ (opened # None => t.draft # opened.draft)
       \/ t.op = "ss" /\ opened # None /\ opened' = None /\ t.draft = opened.draft
    <2>1. opened # None => opened.draft # None
        BY KindAssumption DEF IInv, Types
    <2> QED BY <1>8, <2>1
<1>14. Commit(t)
    BY <1>1
<1>15. t.draft = NewDraft => First = "sent"
    BY <1>3, <1>8
<1>16. NewDraft \in drafts => t.op = "ss" /\ t.draft = NewDraft
    BY <1>8
<1>17. NewDraft \notin IdsOf(<<e>>) /\ \A m \in IdsOf(<<e>>) \cap Ids : m = Tid
    BY <1>3, <1>5
<1>18. t.op \notin {"ws", "ds"}
    BY <1>8
<1>19. ReadIndex(t.new) = <<e>>
    BY <1>6, <1>8
<1> HIDE DEF Transaction
<1> QED BY <1>2, <1>9, <1>10, <1>11, <1>12, <1>13, <1>14, <1>15, <1>16, <1>17, <1>18, <1>19, CommitStep

\* A message is written at the place at of a thread that is there, over the cells
\* that follow it.
LEMMA MessageStep ==
    ASSUME IInv, mode = "up", Idle, file # <<>>,
           UNCHANGED <<file, drafts, queued, doc, listed, mode, nextId, acks, ours, got>>,
           NEW op \in {"sr", "ss"}, NEW d, NEW m \in Ids, m # Tid, NEW at \in Nat,
           NEW pos, pos = IndexPos(file), NEW old, old = ReadIndex(file),
           NEW x \in Seq(Cell), at <= pos, Len(x) = (pos - at) + Size[m],
           NEW idx, Sound(idx, pos + Size[m]),
           Commit(Transaction(op, d, m, at, x \o WriteIndex(idx), FALSE)),
           \/ op = "sr" /\ opened' = opened /\ d = None
           \/ op = "ss" /\ opened # None /\ opened' = None /\ d = opened.draft /\ d \in Replies,
           IdsOf(idx) = (IdsOf(old) \ {d}) \cup {m}, Len(CellsOf(old)) <= Len(CellsOf(idx)),
           m < nextId, \A a \in InFlight' : m < a[2]
    PROVE  IInv'
<1>1. PICK t, new : /\ t = Transaction(op, d, m, at, x \o WriteIndex(idx), FALSE)
                    /\ new = x \o WriteIndex(idx)
    OBVIOUS
<1>2. temp = None /\ Index = Idx(file) /\ Whole(file, 0)
    BY RestIs
<1>3. /\ pos \in Nat /\ old \in Seq(Entries) /\ Idx(file) = old
      /\ Len(file) = pos + Len(WriteIndex(old)) /\ pos <= Len(file) /\ Len(file) \in Nat
    BY <1>2, FileIs
<1>4. NewDraft \in Drafts /\ None \notin Drafts /\ Drafts \cap Ids = {} /\ NewDraft \notin Replies
      /\ Replies \subseteq Drafts
    BY KindAssumption DEF Drafts
<1>5. Size[m] \in Nat /\ idx \in Seq(Entries)
    BY IdAssumption DEF Sound
<1>6. Sound(idx, at + Len(x))
    <2>1. at + Len(x) = pos + Size[m]
        BY <1>3, <1>5
    <2> QED BY <2>1
<1>7. /\ Whole(new, at) /\ ReadIndex(new) = idx /\ new \in Seq(Cell) /\ new # <<>>
    BY <1>1, <1>6, WholeIs
<1>8. Len(file) <= at + Len(new)
    <2>1. WriteIndex(idx) \in Seq(Cell) /\ Len(WriteIndex(idx)) \in Nat
        BY <1>5, RoundTrip
    <2>2. Len(new) = Len(x) + Len(WriteIndex(idx))
        BY <1>1, <2>1, ConcatProperties
    <2>3. Len(WriteIndex(old)) <= Len(WriteIndex(idx))
        <3>1. /\ Len(WriteIndex(old)) = Len(CellsOf(old)) + 1
              /\ Len(WriteIndex(idx)) = Len(CellsOf(idx)) + 1
            BY <1>3, <1>5, WriteIndexLen
        <3>2. Len(CellsOf(old)) \in Nat /\ Len(CellsOf(idx)) \in Nat
            BY <1>3, <1>5, CellsRead
        <3> QED BY <3>1, <3>2
    <2>4. Len(WriteIndex(old)) \in Nat
        BY <1>2, <1>3, FileIs
    <2>5. PICK a, b, s \in Nat : a = Len(WriteIndex(old)) /\ b = Len(WriteIndex(idx)) /\ s = Size[m]
        BY <1>5, <2>1, <2>4
    <2>6. Len(file) = pos + a /\ Len(new) = (pos - at + s) + b /\ a <= b
        BY <1>3, <2>2, <2>3, <2>5
    <2>7. a <= b
        BY <2>6
    <2>8. \A i, j \in Nat : i + a <= j + ((i - j + s) + b)
        BY <2>7
    <2>9. pos \in Nat /\ at \in Nat
        BY <1>3
    <2>10. pos + a <= at + ((pos - at + s) + b)
        BY <2>8, <2>9
    <2> QED BY <2>6, <2>10
<1>9. d \in Drafts \cup {None} /\ d # NewDraft /\ d \notin Ids
    BY <1>4, NoneAssumption
<1>10. /\ t.op = op /\ t.draft = d /\ t.mid = m /\ t.pos = at /\ t.new = new
       /\ t \in Transactions
    <2>1. FALSE \in BOOLEAN /\ op \in {"sr", "sc", "ss", "ws", "ds", "nr"} /\ m \in Ids \cup {None}
        OBVIOUS
    <2>2. t = Transaction(op, d, m, at, new, FALSE)
        BY <1>1
    <2> QED BY <1>7, <1>9, <2>1, <2>2 DEF Transaction, Transactions
<1>11. ~Links(t) /\ ~Cuts(t) /\ t.new # <<>>
    BY <1>7, <1>10 DEF Links, Cuts
<1>12. TransOK(t)
    <2>1. t.op \in {"sr", "ss"} /\ t.mid \in Ids /\ t.mid # Tid
        BY <1>10
    <2>2. t.mid \in IdsOf(ReadIndex(t.new)) /\ Whole(t.new, t.pos)
        BY <1>7, <1>10
    <2>3. (t.op = "sr" => t.draft = None) /\ (t.op = "ss" => t.draft \in Drafts /\ t.draft # NewDraft)
        BY <1>4, <1>10
    <2> QED BY <1>10, <1>11, <2>1, <2>2, <2>3 DEF TransOK
<1>13. \A y \in Replies : y \in IdsOf(idx) <=> IF y = t.draft THEN t.op = "ws" ELSE y \in IdsOf(Idx(file))
    <2>1. \A y \in Replies : y # m
        BY <1>4
    <2> QED BY <1>3, <1>10, <2>1
<1>14. IdsOf(Idx(file)) \cap Ids \subseteq IdsOf(idx)
    BY <1>3, <1>9
<1>15. /\ \A y \in IdsOf(idx) \cap Ids : y \in IdsOf(Idx(file)) \/ y = m
       /\ NewDraft \in IdsOf(idx) => NewDraft \in IdsOf(Idx(file))
    BY <1>3, <1>4
<1>16. \/ t.op # "ss" /\ opened' = opened /\ (opened # None => t.draft # opened.draft)
       \/ t.op = "ss" /\ opened # None /\ opened' = None /\ t.draft = opened.draft
    <2>1. opened # None => opened.draft # None
        BY KindAssumption DEF IInv, Types
    <2> QED BY <1>10, <2>1
<1>17. Commit(t) /\ t.op \notin {"ws", "ds"} /\ t.draft # NewDraft
    BY <1>1, <1>9, <1>10
<1>18. nextId # Tid /\ NewDraft \notin drafts
    BY DEF IInv, NewOK
<1>19. Len(file) >= t.pos /\ Len(file) <= t.pos + Len(t.new) /\ ReadIndex(t.new) = idx
    BY <1>3, <1>7, <1>8, <1>10
<1> QED BY <1>2, <1>11, <1>12, <1>13, <1>14, <1>15, <1>16, <1>17, <1>18, <1>19, CommitStep

LEMMA ReceiveStep ==
    ASSUME IInv, LateAcks = FALSE, NEW m \in Ids, Receive(m)
    PROVE  IInv'
<1> DEFINE old == ReadIndex(file)
           pos == IndexPos(file)
           seen == IF m \in Own THEN "local" ELSE "no"
           e == Entry(m, 0, Size[m], seen, FALSE, "")
           idx == IF m = Tid THEN <<e>> ELSE Insert(old, pos, e)
           at == idx[Place(idx, m)].off
           moved == IF m = Tid THEN <<>> ELSE SubSeq(file, at + 1, pos)
<1>1. /\ mode = "up" /\ Idle /\ opened = None /\ m < nextId
      /\ m # Tid => file # <<>>
      /\ \A a \in acks : a[2] > m
      /\ m \notin ours
      /\ UNCHANGED <<file, drafts, queued, doc, listed, opened, mode, nextId, acks, ours>>
    BY DEF Receive, ReaderFree, InOrder, Up, disk
<1>2. /\ temp = None /\ left = {} /\ Index = Idx(file) /\ (file = <<>> \/ Whole(file, 0))
    BY <1>1, RestIs
<1>3. file # <<>> => /\ old \in Seq(Entries) /\ Idx(file) = old /\ Sound(old, pos) /\ pos \in Nat
                     /\ Has(old, m) <=> m \in IdsOf(old)
    BY <1>2, FileIs, PlaceIs
<1>4. CASE Discards(m)
    <2>1. /\ StoreSame /\ UNCHANGED <<queued, acks, ours, nextId, opened>>
          /\ got' = got \cup {m}
        BY <1>1, <1>4 DEF Receive, StoreSame, disk
    <2>2. ModeOK'
        BY <1>1, <1>2, <2>1 DEF StoreSame, ModeOK
    <2>3. m \in IdsOf(Index)
        BY <1>1, <1>2, <1>3, <1>4 DEF Discards, Sound
    <2>4. got' \in SUBSET Ids /\ got \subseteq got' /\ got' \subseteq IdsOf(Index)
        BY <2>1, <2>3, GotTypes
    <2> QED BY <2>1, <2>2, <2>4, AsideStep
<1>5. CASE ~Discards(m)
    <2>1. /\ Commit(Transaction("sr", None, m, at, Body(m) \o moved \o WriteIndex(idx), FALSE))
          /\ got' = got
        BY <1>5 DEF Receive
    <2>2. \A a \in InFlight' : m < a[2]
        <3>1. InFlight' = acks
            BY <1>1 DEF InFlight
        <3>2. acks \subseteq Drafts \X Ids /\ Ids \subseteq Nat
            BY IdAssumption DEF IInv, Types, Ids
        <3>3. ASSUME NEW a \in acks PROVE m < a[2]
            <4>1. a[2] > m /\ a[2] \in Nat /\ m \in Nat
                BY <1>1, <3>2
            <4> QED BY <4>1
        <3> QED BY <3>1, <3>3
    <2>3. /\ e \in Entries /\ e.id = m /\ e.off = 0 /\ e.size = Size[m] /\ Stored(e)
        <3>1. PICK sn \in {"no", "local"} : sn = seen
            OBVIOUS
        <3>2. PICK f : f = [id |-> m, off |-> 0, size |-> Size[m], seen |-> sn, tag |-> FALSE, fwd |-> ""]
            OBVIOUS
        <3>3. f \in Entries /\ f.id = m /\ f.off = 0 /\ f.size = Size[m] /\ Stored(f)
            <4>1. Size[m] \in Nat
                BY IdAssumption
            <4>2. 0 \in Int /\ 0 >= 0
                OBVIOUS
            <4>3. f.id = m /\ f.off = 0 /\ f.size = Size[m] /\ f \in Entries
                BY <3>2, <4>1, <4>2 DEF Entries
            <4>4. Stored(f)
                BY <4>2, <4>3 DEF Stored
            <4> QED BY <4>3, <4>4
        <3> QED BY <3>1, <3>2, <3>3 DEF Entry
    <2>4. CASE m = Tid
        <3>1. PICK f : f = e
            OBVIOUS
        <3>2. f \in Entries /\ f.id = Tid /\ f.off = 0 /\ Stored(f)
            BY <2>3, <2>4, <3>1
        <3>3. idx = <<f>>
            BY <2>4, <3>1
        <3>4. at = 0
            <4>1. <<f>> \in Seq(Entries) /\ Len(<<f>>) = 1 /\ <<f>>[1] = f
                BY <3>2
            <4>2. m \in IdsOf(<<f>>)
                <5>1. 1 \in 1..1
                    OBVIOUS
                <5> QED BY <2>4, <3>2, <4>1, <5>1 DEF IdsOf
            <4>3. Place(<<f>>, m) \in 1..1
                BY <4>1, <4>2, PlaceIs
            <4>4. <<f>>[Place(<<f>>, m)].off = 0
                BY <3>2, <4>1, <4>3
            <4> QED BY <3>3, <4>4
        <3>5. Body(Tid) \o moved = Body(Tid)
            <4>1. PICK b \in Seq(Cell) : b = Body(Tid)
                BY <2>4, BodyIs
            <4>2. b \o <<>> = b
                BY <4>1, ConcatEmptySeq
            <4> QED BY <2>4, <4>1, <4>2
        <3>6. Commit(Transaction("sr", None, Tid, 0, Body(Tid) \o WriteIndex(<<f>>), FALSE))
            BY <2>1, <2>4, <3>3, <3>4, <3>5
        <3>7. file = <<>>
            BY <1>5, <2>4 DEF Discards
        <3>8. nextId # Tid /\ nextId > Tid
            <4>1. nextId \in 1..MaxId + 1 /\ MaxId \in Nat
                BY IdAssumption DEF IInv, Types
            <4> QED BY <1>1, <2>4, <4>1 DEF Tid
        <3>9. NewDraft \notin drafts
            BY <1>1, <2>4, <3>8 DEF IInv, NewOK
        <3> HIDE DEF e, seen, old, pos, idx, at, moved
        <3>10. Tid < nextId /\ \A a \in InFlight' : Tid < a[2]
            BY <1>1, <2>2, <2>4
        <3> QED BY <1>1, <2>1, <3>2, <3>6, <3>7, <3>8, <3>9, <3>10, ThreadStep
    <2>5. CASE m # Tid
        <3>1. file # <<>> /\ m \notin IdsOf(old)
            BY <1>1, <1>3, <1>5, <2>5 DEF Discards
        <3>2. old \in Seq(Entries) /\ Sound(old, pos) /\ pos \in Nat
            BY <1>3, <3>1
        <3>3. PICK s \in Nat, f \in Entries, p \in Nat, o \in Seq(Entries) : s = Size[m] /\ f = e /\ p = pos /\ o = old
            BY <2>3, <3>2, IdAssumption
        <3>4. PICK r : r = Insert(o, p, f)
            OBVIOUS
        <3>5. /\ Sound(r, p + s) /\ IdsOf(r) = IdsOf(o) \cup {m}
              /\ Len(CellsOf(o)) <= Len(CellsOf(r))
              /\ r[Place(r, m)].off \in Nat /\ r[Place(r, m)].off <= p
            <4>1. Sound(o, p) /\ f.id = m /\ f.id \in Ids /\ f.id \notin IdsOf(o) /\ f.size = s
                BY <2>3, <3>1, <3>2, <3>3
            <4>2. /\ Sound(r, p + f.size) /\ IdsOf(r) = IdsOf(o) \cup {f.id}
                  /\ Len(CellsOf(o)) <= Len(CellsOf(r))
                  /\ r[Place(r, f.id)].off \in Nat /\ r[Place(r, f.id)].off <= p
                BY <3>4, <4>1, SoundInsert
            <4> QED BY <4>1, <4>2
        <3>6. idx = r /\ at = r[Place(r, m)].off
            BY <2>5, <3>3, <3>4
        <3>7. PICK n \in Nat : n = r[Place(r, m)].off /\ n <= p
            BY <3>5
        <3>8. moved = SubSeq(file, n + 1, p) /\ at = n
            BY <2>5, <3>3, <3>6, <3>7
        <3>9. PICK mv : mv = SubSeq(file, n + 1, p)
            OBVIOUS
        <3>10. mv \in Seq(Cell) /\ Len(mv) = p - n
            <4>1. file \in Seq(Cell) /\ p <= Len(file) /\ Len(file) \in Nat
                BY <1>2, <3>1, <3>3, FileIs
            <4>2. \A i \in n + 1..p : file[i] \in Cell
                BY <4>1
            <4>3. mv \in Seq(Cell) /\ Len(mv) = IF n + 1 <= p THEN p - (n + 1) + 1 ELSE 0
                BY <3>9, <4>2, SubSeqProperties
            <4>4. (IF n + 1 <= p THEN p - (n + 1) + 1 ELSE 0) = p - n
                BY <3>7
            <4> QED BY <4>3, <4>4
        <3>11. PICK b : b = Body(m)
            OBVIOUS
        <3>12. b \in Seq(Cell) /\ Len(b) = s
            BY <3>3, <3>11, BodyIs
        <3>13. PICK x : x = b \o mv
            OBVIOUS
        <3>14. x \in Seq(Cell) /\ Len(x) = (p - n) + s
            <4>1. x \in Seq(Cell) /\ Len(x) = Len(b) + Len(mv)
                BY <3>10, <3>12, <3>13, ConcatProperties
            <4>2. s + (p - n) = (p - n) + s
                BY <3>7
            <4> QED BY <3>10, <3>12, <4>1, <4>2
        <3>15. Commit(Transaction("sr", None, m, n, x \o WriteIndex(r), FALSE))
            BY <2>1, <3>6, <3>8, <3>9, <3>11, <3>13
        <3>16. IdsOf(r) = (IdsOf(o) \ {None}) \cup {m}
            <4>1. None \notin IdsOf(o)
                <5>1. None \notin Ids \cup Drafts
                    BY KindAssumption, NoneAssumption
                <5>2. o \in Seq(Entries)
                    BY <3>2, <3>3
                <5>3. \A i \in 1..Len(o) : o[i] \in Entries
                    BY <5>2
                <5>4. \A i \in 1..Len(o) : o[i].id # None
                    BY <5>1, <5>3, EntryFields
                <5> QED BY <5>4 DEF IdsOf
            <4> QED BY <3>5, <4>1
        <3>17. p = IndexPos(file) /\ o = ReadIndex(file)
            BY <3>3
        <3> HIDE DEF e, seen, old, pos, idx, at, moved
        <3>18. Len(x) = (p - n) + Size[m] /\ Sound(r, p + Size[m])
            BY <3>3, <3>5, <3>14
        <3> QED BY <1>1, <2>1, <2>2, <2>5, <3>1, <3>5, <3>7, <3>14, <3>15, <3>16, <3>17, <3>18, MessageStep
    <2> QED BY <2>4, <2>5
<1> QED BY <1>4, <1>5

\* The draft p of idx becomes the message e at its end.
Sendable(idx, p, e, pos) ==
    /\ Sound(idx, pos) /\ p \in 1..Len(idx) /\ idx[p].id \in Drafts
    /\ e \in Entries /\ e.id \in Ids /\ e.off = pos /\ Stored(e) /\ e.tag = idx[p].tag
    /\ \A x \in IdsOf(idx) \cap Ids : x < e.id

SentIs(r, idx, p, e, end) ==
    /\ Sound(r, end) /\ IdsOf(r) = (IdsOf(idx) \ {idx[p].id}) \cup {e.id}
    /\ Len(CellsOf(idx)) <= Len(CellsOf(r))

LEMMA SoundSent ==
    ASSUME NEW idx, NEW pos \in Nat, NEW p, NEW n \in Nat, NEW e, Sendable(idx, p, e, pos)
    PROVE  SentIs(Append(RemoveAt(idx, p), e), idx, p, e, pos + n)
<1> /\ Sound(idx, pos) /\ p \in 1..Len(idx) /\ idx[p].id \in Drafts
    /\ e \in Entries /\ e.id \in Ids /\ e.off = pos /\ Stored(e)
    /\ \A x \in IdsOf(idx) \cap Ids : x < e.id
    BY DEF Sendable
<1>1. e.tag = idx[p].tag
    BY DEF Sendable
<1>2. PICK r : r = RemoveAt(idx, p)
    OBVIOUS
<1>3. pos \in Int /\ pos + n \in Int /\ pos <= pos + n /\ Ids \subseteq Nat
    BY IdAssumption DEF Ids
<1>4. Sound(r, pos) /\ IdsOf(r) = IdsOf(idx) \ {idx[p].id}
    BY <1>2, <1>3, SoundRemove
<1>5. e.id \notin IdsOf(r) /\ \A x \in IdsOf(r) \cap Ids : x < e.id
    <2>1. e.id \notin IdsOf(idx)
        <3>1. PICK x \in Nat : x = e.id
            BY <1>3
        <3>2. ~(x < x)
            OBVIOUS
        <3> QED BY <3>1, <3>2
    <2> QED BY <1>4, <2>1
<1>6. Sound(Append(r, e), pos + n) /\ IdsOf(Append(r, e)) = IdsOf(r) \cup {e.id}
    BY <1>3, <1>4, <1>5, SoundAppend
<1>7. Len(CellsOf(idx)) <= Len(CellsOf(Append(r, e)))
    <2>1. idx \in Seq(Entries)
        BY DEF Sound
    <2>2. PICK k \in Nat : k + 1 = Len(idx)
        <3>1. Len(idx) - 1 \in Nat /\ (Len(idx) - 1) + 1 = Len(idx)
            BY <2>1
        <3> QED BY <3>1
    <2>3. r \in Seq(Entries) /\ Len(r) = k /\ \A i \in 1..k : r[i] = IF i < p THEN idx[i] ELSE idx[i + 1]
        <3>1. Len(idx) - 1 = k
            BY <2>2
        <3>2. p \in 1..Len(idx) /\ r = RemoveAt(idx, p)
            BY <1>2
        <3>3. r \in Seq(Entries) /\ Len(r) = Len(idx) - 1
            BY <2>1, <3>2, RemoveIs
        <3>4. \A i \in 1..(Len(idx) - 1) : r[i] = IF i < p THEN idx[i] ELSE idx[i + 1]
            <4>1. p \in 1..Len(idx)
                BY <3>2
            <4>2. \A i \in 1..(Len(idx) - 1) : RemoveAt(idx, p)[i] = IF i < p THEN idx[i] ELSE idx[i + 1]
                <5> HIDE DEF Sendable
                <5> QED BY <2>1, <4>1, RemoveIs
            <4> QED BY <3>2, <4>2
        <3> QED BY <3>1, <3>3, <3>4
    <2>4. PICK a : a = Append(r, e)
        OBVIOUS
    <2>5. a \in Seq(Entries) /\ Len(a) = k + 1 /\ a[k + 1] = e /\ \A i \in 1..k : a[i] = r[i]
        BY <2>3, <2>4, AppendProperties
    <2>6. p \in 1..k + 1 /\ k + 1 \in 1..k + 1
        BY <2>2
    <2> DEFINE to(i) == IF i < p THEN i ELSE IF i = p THEN k + 1 ELSE i - 1
               g == [i \in 1..k + 1 |-> to(i)]
    <2>7. \A i \in 1..k + 1 : to(i) \in 1..k + 1
        BY <2>2, <2>6
    <2>8. \A i, j \in 1..k + 1 : to(i) = to(j) => i = j
        BY <2>2, <2>6
    <2>9. ASSUME NEW i \in 1..k + 1 PROVE a[to(i)].tag = idx[i].tag
        <3>1. CASE i < p
            <4>1. i \in 1..k /\ to(i) = i
                BY <2>2, <2>6, <3>1
            <4> QED BY <2>3, <2>5, <3>1, <4>1
        <3>2. CASE i = p
            <4>1. to(i) = k + 1
                BY <2>2, <2>6, <3>2
            <4> QED BY <1>1, <2>5, <3>2, <4>1
        <3>3. CASE i > p
            <4>1. i - 1 \in 1..k /\ to(i) = i - 1 /\ ~(i - 1 < p) /\ (i - 1) + 1 = i
                BY <2>2, <2>6, <3>3
            <4> QED BY <2>3, <2>5, <4>1
        <3>4. i < p \/ i = p \/ i > p
            BY <2>2, <2>6
        <3> QED BY <3>1, <3>2, <3>3, <3>4
    <2>10. g \in [1..k + 1 -> 1..k + 1]
        BY <2>7
    <2>11. \A i \in 1..k + 1 : g[i] = to(i)
        OBVIOUS
    <2> HIDE DEF to, g
    <2>12. \A i, j \in 1..k + 1 : g[i] = g[j] => i = j
        BY <2>8, <2>11
    <2>13. \A i \in 1..k + 1 : a[g[i]].tag = idx[i].tag
        BY <2>9, <2>11
    <2>14. PICK h \in Nat : h = k + 1
        BY <2>2
    <2>15. /\ h = Len(idx) /\ h = Len(a) /\ g \in [1..h -> 1..h]
           /\ \A i, j \in 1..h : g[i] = g[j] => i = j
           /\ \A i \in 1..h : a[g[i]].tag = idx[i].tag
        BY <2>2, <2>5, <2>10, <2>12, <2>13, <2>14
    <2>16. Len(CellsOf(idx)) <= Len(CellsOf(a))
        <3>1. Fits(idx, a, g)
            BY <2>1, <2>5, <2>15 DEF Fits
        <3> QED BY <3>1, CellsLonger
    <2> QED BY <2>4, <2>16
<1> QED BY <1>2, <1>4, <1>6, <1>7 DEF SentIs

LEMMA StoreSentStep ==
    ASSUME IInv, StoreSent
    PROVE  IInv'
<1>1. PICK d, m, old, pos, at : /\ d = opened.draft /\ m = opened.mid
                                /\ old = ReadIndex(file) /\ pos = IndexPos(file) /\ at = PlaceOrLast(old, d)
    OBVIOUS
<1>2. /\ mode = "up" /\ Idle /\ opened # None
    BY DEF StoreSent, Up
<1>3. CASE d = NewDraft /\ renamed
    <2>1. Quit
        BY <1>1, <1>3 DEF StoreSent
    <2> QED BY <2>1, QuitStep
<1>4. CASE ~(d = NewDraft /\ renamed)
    <2> DEFINE el == Entry(m, pos, Size[m], "local", old[at].tag, "")
               first == Entry(m, 0, Size[m], "local", TRUE, "")
               new == IF d = NewDraft THEN WriteIndex(<<first>>)
                      ELSE WriteIndex(Append(RemoveAt(old, at), el))
    <2>1. /\ Commit(Transaction("ss", d, m, IF d = NewDraft THEN 0 ELSE pos, Body(m) \o new, FALSE))
          /\ opened' = None /\ mode' = mode
          /\ UNCHANGED <<file, drafts, queued, doc, listed, nextId, acks, ours, got>>
        BY <1>1, <1>4 DEF StoreSent, disk, server
    <2>2. d \in Drafts /\ m \in Ids /\ d \in drafts
        BY <1>1, <1>2 DEF IInv, Types, OpenedOK
    <2>3. acks = {} /\ InFlight' = {} /\ <<d, m>> \in InFlight
        BY <1>1, <1>2, <2>1 DEF IInv, FlightOK, InFlight
    <2>4. /\ m \in ours /\ m < nextId
          /\ d = NewDraft => m = Tid
          /\ d # NewDraft => m # Tid /\ \A x \in IdsOf(Index) \cap Ids : x < m
        BY <2>3 DEF IInv, FlightOK
    <2>5. temp = None /\ Pending = {} /\ Index = Idx(file)
        BY <1>2, RestIs
    <2>6. nextId # Tid
        <3>1. nextId \in 1..MaxId + 1 /\ MaxId \in Nat /\ Ids = 1..MaxId
            BY IdAssumption DEF IInv, Types, Ids
        <3> QED BY <2>2, <2>4, <3>1 DEF Tid
    <2>7. CASE d = NewDraft
        <3>1. file = <<>> /\ First = "sent"
            BY <2>2, <2>7 DEF IInv, NewOK
        <3>2. m = Tid
            BY <2>4, <2>7
        <3>3. PICK f : f = first
            OBVIOUS
        <3>4. f \in Entries /\ f.id = Tid /\ f.off = 0 /\ Stored(f)
            <4>1. Size[m] \in Nat
                BY <2>2, IdAssumption
            <4>2. 0 \in Int /\ 0 >= 0
                OBVIOUS
            <4>3. f = [id |-> m, off |-> 0, size |-> Size[m], seen |-> "local", tag |-> TRUE, fwd |-> ""]
                BY <3>3 DEF Entry
            <4>4. f \in Entries /\ f.id = m /\ f.off = 0
                BY <2>2, <4>1, <4>2, <4>3 DEF Entries
            <4> QED BY <3>2, <4>2, <4>4 DEF Stored
        <3>5. Commit(Transaction("ss", d, Tid, 0, Body(Tid) \o WriteIndex(<<f>>), FALSE))
            BY <2>1, <2>7, <3>2, <3>3
        <3> HIDE DEF el, first, new
        <3>6. d = opened.draft
            BY <1>1
        <3> QED BY <1>2, <2>1, <2>3, <2>4, <2>6, <2>7, <3>1, <3>2, <3>4, <3>5, <3>6, ThreadStep
    <2>8. CASE d # NewDraft
        <3>1. d \in IdsOf(Idx(file)) /\ d \in Replies
            BY <2>2, <2>5, <2>8 DEF IInv, DraftAt, Drafts
        <3>2. file # <<>>
            BY <3>1, NoIds
        <3>3. old \in Seq(Entries) /\ Idx(file) = old /\ Sound(old, pos) /\ pos \in Nat
            BY <1>1, <1>2, <3>2, RestIs, FileIs
        <3>4. at \in 1..Len(old) /\ old[at].id = d
            <4>1. Has(old, d) /\ Place(old, d) \in 1..Len(old) /\ old[Place(old, d)].id = d
                BY <3>1, <3>3, PlaceIs
            <4> QED BY <1>1, <4>1 DEF PlaceOrLast
        <3>5. PICK f : f = el
            OBVIOUS
        <3>6. f \in Entries /\ f.id = m /\ f.off = pos /\ f.tag = old[at].tag /\ Stored(f)
            <4>1. PICK b \in BOOLEAN : b = old[at].tag
                <5>1. old[at] \in Entries
                    BY <3>3, <3>4
                <5> QED BY <5>1, EntryFields
            <4>2. PICK g : g = [id |-> m, off |-> pos, size |-> Size[m], seen |-> "local", tag |-> b, fwd |-> ""]
                OBVIOUS
            <4>3. g \in Entries /\ g.id = m /\ g.off = pos /\ g.tag = b /\ Stored(g)
                <5>1. "local" \in {"no", "local"} /\ pos \in Nat /\ m \in Ids
                    BY <2>2, <3>3
                <5> QED BY <4>2, <5>1, MessageIs
            <4>4. f = g
                BY <3>5, <4>1, <4>2 DEF Entry
            <4> QED BY <4>1, <4>3, <4>4
        <3>7. PICK s \in Nat : s = Size[m]
            BY <2>2, IdAssumption
        <3>8. PICK r : r = Append(RemoveAt(old, at), f)
            OBVIOUS
        <3>9. /\ Sound(r, pos + s) /\ IdsOf(r) = (IdsOf(old) \ {d}) \cup {m}
              /\ Len(CellsOf(old)) <= Len(CellsOf(r))
            <4>1. \A x \in IdsOf(old) \cap Ids : x < m
                BY <2>4, <2>5, <2>8, <3>3
            <4>2. /\ old[at].id \in Drafts /\ f.id \in Ids /\ f.off = pos /\ f.tag = old[at].tag
                  /\ \A x \in IdsOf(old) \cap Ids : x < f.id
                BY <2>2, <3>4, <3>6, <4>1
            <4>3. /\ Sound(r, pos + s) /\ IdsOf(r) = (IdsOf(old) \ {old[at].id}) \cup {f.id}
                  /\ Len(CellsOf(old)) <= Len(CellsOf(r))
                <5>1. Sendable(old, at, f, pos)
                    BY <3>3, <3>4, <3>6, <4>2 DEF Sendable
                <5>2. SentIs(Append(RemoveAt(old, at), f), old, at, f, pos + s)
                    BY <3>3, <5>1, SoundSent
                <5> QED BY <3>8, <5>2 DEF SentIs
            <4> QED BY <3>4, <3>6, <4>3
        <3>10. PICK b : b = Body(m)
            OBVIOUS
        <3>11. b \in Seq(Cell) /\ Len(b) = (pos - pos) + Size[m]
            <4>1. b \in Seq(Cell) /\ Len(b) = s
                BY <2>2, <3>7, <3>10, BodyIs
            <4>2. (pos - pos) + s = s
                BY <3>3
            <4> QED BY <3>7, <4>1, <4>2
        <3>12. Commit(Transaction("ss", d, m, pos, b \o WriteIndex(r), FALSE))
            BY <2>1, <2>8, <3>5, <3>8, <3>10
        <3> HIDE DEF el, first, new
        <3>13. /\ d = opened.draft /\ pos = IndexPos(file) /\ old = ReadIndex(file)
               /\ pos <= pos /\ Sound(r, pos + Size[m])
            BY <1>1, <3>3, <3>7, <3>9
        <3> QED BY <1>2, <2>1, <2>2, <2>3, <2>4, <2>8, <3>1, <3>2, <3>3, <3>9, <3>11, <3>12, <3>13, MessageStep
    <2> QED BY <2>7, <2>8
<1> QED BY <1>3, <1>4

-----------------------------------------------------------------------------
(* The steps of a transaction.                                             *)

\* The step s of the transaction is done next.
Takes(s) ==
    /\ temp # None /\ Head(todo) = s /\ todo' = Tail(todo)
    /\ UNCHANGED <<left, temp, opened, mode, updt, nextId, acks, ours, got>>

LEMMA TakesIs ==
    ASSUME IInv, NEW s, s # "drop", Takes(s)
    PROVE  /\ Pending = {temp} /\ Pending' = {temp} /\ TransOK(temp) /\ s \in StepSet(temp)
           /\ \A x : Done(temp, x)' <=> Done(temp, x) \/ x = s
           /\ \A x \in StepSet(temp) : Done(temp, x) <=> Rank(x) < Rank(s)
           /\ Places'
           /\ temp.new # <<>> => Index' = Index
           /\ temp.new = <<>> => Index = Idx(file) /\ Index' = Idx(file')
           /\ temp.new # <<>> => Index = ReadIndex(temp.new)
<1>1. temp # None /\ temp' = temp /\ left = {} /\ left' = {} /\ Pending = {temp} /\ Pending' = {temp}
    BY DEF IInv, Places, Takes, Pending
<1>2. TransOK(temp)
    BY <1>1 DEF IInv, Places
<1>3. Remaining(todo, StepSet(temp)) /\ "drop" \in StepSet(temp)
    BY <1>1 DEF IInv, Places, StepSet
<1>4. /\ s \in StepSet(temp) /\ In(s, todo)
      /\ \A x : In(x, todo') <=> In(x, todo) /\ x # s
      /\ \A x \in StepSet(temp) : In(x, todo) <=> ~(Rank(x) < Rank(s))
      /\ Remaining(todo', StepSet(temp))
    BY <1>3, RemainingNext DEF Takes
<1>5. \A x : Done(temp, x)' <=> Done(temp, x) \/ x = s
    <2>1. \A x : Done(temp, x) <=> ~In(x, todo)
        BY DEF Done
    <2>2. \A x : Done(temp, x)' <=> ~In(x, todo')
        BY <1>1 DEF Done, In
    <2> QED BY <1>4, <2>1, <2>2
<1>6. \A x \in StepSet(temp) : Done(temp, x) <=> Rank(x) < Rank(s)
    BY <1>4 DEF Done
<1>7. Places'
    <2>1. TransOK(temp)'
        BY <1>1, <1>2 DEF TransOK
    <2>2. Remaining(todo, StepSet(temp))'
        BY <1>1, <1>4 DEF StepSet
    <2>3. ModeOK'
        BY <1>1 DEF IInv, Places, ModeOK, Takes
    <2> QED BY <1>1, <2>1, <2>2, <2>3 DEF Places, ModeOK
<1>8. temp.new # <<>> => Index = ReadIndex(temp.new) /\ Index' = ReadIndex(temp.new)
    BY <1>1, IndexIs, IndexOfIs
<1>9. temp.new = <<>> => Index = Idx(file) /\ Index' = Idx(file')
    BY <1>1, IndexIs, IndexOfIs
<1> QED BY <1>1, <1>2, <1>4, <1>5, <1>6, <1>7, <1>8, <1>9

\* What a step answers for.
LEMMA StepStep ==
    ASSUME IInv, NEW s, s # "drop", Takes(s),
           drafts' \subseteq Drafts, queued' \subseteq queued, listed' \in BOOLEAN,
           temp.new = <<>> => file' = file, FileAt(temp)',
           \A d \in Drafts : DraftAt(d)',
           opened # None => opened.draft \in drafts',
           NewOK', DocOK'
    PROVE  IInv'
<1>1. /\ Pending = {temp} /\ Pending' = {temp} /\ Places' /\ Index' = Index
    BY TakesIs
<1>2. /\ temp' = temp /\ opened' = opened /\ mode' = mode /\ nextId' = nextId /\ acks' = acks
      /\ ours' = ours /\ got' = got
    BY DEF Takes
<1>3. Types'
    BY <1>2 DEF IInv, Types
<1>4. FileOK'
    BY <1>1, <1>2 DEF FileOK, FileAt, Links, Cuts, Done
<1>5. OpenedOK'
    BY <1>1, <1>2 DEF IInv, OpenedOK
<1>6. FlightOK'
    <2>1. InFlight' = InFlight
        BY <1>2 DEF InFlight
    <2> QED BY <1>1, <1>2, <2>1 DEF IInv, FlightOK
<1>7. GotOK'
    BY <1>1, <1>2 DEF IInv, GotOK
<1> QED BY <1>1, <1>3, <1>4, <1>5, <1>6, <1>7 DEF IInv

LEMMA RankValues ==
    /\ Rank("rmdraft") = 1 /\ Rank("lndraft") = 2 /\ Rank("dequeue") = 3 /\ Rank("synctags") = 4
    /\ Rank("link") = 5 /\ Rank("trunc") = 6 /\ Rank("write") = 7 /\ Rank("index") = 8 /\ Rank("drop") = 9
BY DEF Rank

\* The draft of no transaction is not touched.
LEMMA DraftApart ==
    ASSUME IInv, NEW s, s # "drop", Takes(s), NEW d \in Drafts, temp.draft # d,
           d \in drafts' <=> d \in drafts, d \in queued' => d \in queued,
           d = NewDraft => listed' = listed,
           temp.new = <<>> => file' = file
    PROVE  DraftAt(d)'
<1>1. Pending = {temp} /\ Pending' = {temp} /\ Index' = Index /\ temp' = temp
    BY TakesIs DEF Takes
<1>2. DraftAt(d)
    BY DEF IInv
<1> QED BY <1>1, <1>2 DEF DraftAt

\* The draft of the transaction, and the steps that leave it alone.
LEMMA DraftSame ==
    ASSUME IInv, NEW s \in {"synctags", "link", "trunc", "write"}, Takes(s), NEW d \in Drafts,
           drafts' = drafts, queued' = queued, listed' = listed,
           temp.new = <<>> => file' = file
    PROVE  DraftAt(d)'
<1>1. s # "drop"
    OBVIOUS
<1>2. CASE temp.draft # d
    BY <1>1, <1>2, DraftApart
<1>3. CASE temp.draft = d
    <2>1. /\ Pending = {temp} /\ Pending' = {temp} /\ Index' = Index /\ temp' = temp
          /\ \A x : Done(temp, x)' <=> Done(temp, x) \/ x = s
        BY <1>1, TakesIs DEF Takes
    <2>2. /\ Done(temp, "rmdraft")' = Done(temp, "rmdraft") /\ Done(temp, "lndraft")' = Done(temp, "lndraft")
          /\ Done(temp, "dequeue")' = Done(temp, "dequeue") /\ Done(temp, "index")' = Done(temp, "index")
        BY <2>1 DEF Done
    <2>3. DraftAt(d)
        BY DEF IInv
    <2>4. Involved(d)' = Involved(d)
        BY DEF Involved, Takes
    <2> QED BY <1>3, <2>1, <2>2, <2>3, <2>4 DEF DraftAt
<1> QED BY <1>2, <1>3

\* The transactions whose draft is the one of the thread.
LEMMA OfNewDraft ==
    ASSUME IInv, temp # None, TransOK(temp)
    PROVE  /\ temp.new = <<>> => temp.draft = NewDraft /\ temp.op \in {"ws", "ds"}
           /\ temp.draft = NewDraft /\ temp.op # "ss" => temp.new = <<>>
           /\ temp.op = "ss" => temp.new # <<>> /\ temp.draft \in Drafts
           /\ temp.op \in {"ws", "ds"} => temp.draft \in Drafts
           /\ temp.op \in {"ss", "ws", "ds"} \/ temp.draft \notin Drafts
<1>1. temp.op \in {"sr", "sc", "ss", "ws", "ds", "nr"}
    BY DEF TransOK, Transactions
<1>2. None \notin Drafts /\ NewDraft \in Drafts
    BY KindAssumption DEF Drafts
<1>3. temp.op \in {"sr", "sc", "nr"} => temp.draft \notin Drafts /\ temp.draft # NewDraft /\ temp.new # <<>>
    BY <1>2 DEF TransOK
<1>4. temp.op = "ss" => temp.new # <<>> /\ temp.draft \in Drafts
    BY DEF TransOK
<1>5. temp.op \in {"ws", "ds"} => temp.draft \in Drafts /\ (temp.draft = NewDraft <=> temp.new = <<>>)
    BY DEF TransOK
<1> QED BY <1>1, <1>3, <1>4, <1>5

LEMMA RemoveDraftStep ==
    ASSUME IInv, RemoveDraft
    PROVE  IInv'
<1>1. /\ Takes("rmdraft") /\ "rmdraft" # "drop"
      /\ drafts' = drafts \ {temp.draft} /\ UNCHANGED <<file, queued, doc>>
      /\ listed' = IF temp.op = "ss" /\ temp.draft = NewDraft THEN FALSE ELSE listed
    BY DEF RemoveDraft, Takes, Step, StepDone, Rest, server, IInv, Places, Idle
<1>2. /\ Pending = {temp} /\ Pending' = {temp} /\ TransOK(temp) /\ "rmdraft" \in StepSet(temp)
      /\ \A x : Done(temp, x)' <=> Done(temp, x) \/ x = "rmdraft"
      /\ \A x \in StepSet(temp) : Done(temp, x) <=> Rank(x) < Rank("rmdraft")
      /\ Index' = Index /\ temp' = temp
    BY <1>1, TakesIs DEF Takes
<1>3. temp.op \in {"ss", "ws", "ds"}
    BY <1>2 DEF StepSet
<1>4. \A x \in StepSet(temp) : x # "rmdraft" => ~Done(temp, x)'
    BY <1>2, RankValues DEF StepSet
<1>5. FileAt(temp)'
    <2>1. /\ Done(temp, "link")' = Done(temp, "link") /\ Done(temp, "trunc")' = Done(temp, "trunc")
          /\ Done(temp, "write")' = Done(temp, "write")
        BY <1>2 DEF Done
    <2> QED BY <1>1, <1>2, <2>1 DEF IInv, FileOK, FileAt, Links, Cuts
<1>6. ASSUME NEW d \in Drafts PROVE DraftAt(d)'
    <2>1. CASE temp.draft # d
        BY <1>1, <2>1, DraftApart
    <2>2. CASE temp.draft = d
        <3>1. DraftAt(d)
            BY DEF IInv
        <3>2. Involved(d)' = Involved(d)
            BY <1>1 DEF Involved, Takes
        <3>3. /\ ~Done(temp, "index")'
              /\ temp.op = "ws" => ~Done(temp, "lndraft")'
              /\ temp.op = "ss" => ~Done(temp, "dequeue")'
            BY <1>4 DEF StepSet
        <3>4. d \in queued' => temp.op = "ss"
            BY <1>1, <1>2, <2>2, <3>1 DEF DraftAt, Involved
        <3> QED BY <1>1, <1>2, <1>3, <2>2, <3>1, <3>2, <3>3, <3>4 DEF DraftAt
    <2> QED BY <2>1, <2>2
<1>7. opened # None => opened.draft \in drafts'
    BY <1>1, <1>2 DEF IInv, OpenedOK
<1>8. NewOK'
    BY <1>1, <1>2 DEF IInv, NewOK, Takes
<1>9. DocOK'
    <2>1. ~Done(temp, "index")'
        BY <1>4 DEF StepSet
    <2> QED BY <1>1, <1>2, <2>1 DEF IInv, DocOK
<1>10. drafts' \subseteq Drafts /\ queued' \subseteq queued /\ listed' \in BOOLEAN
    BY <1>1 DEF IInv, Types
<1> QED BY <1>1, <1>5, <1>6, <1>7, <1>8, <1>9, <1>10, StepStep

\* The file, the search document and the thread's draft, under a step that leaves
\* them alone.
LEMMA StepsApart ==
    ASSUME IInv, NEW s, s # "drop", Takes(s)
    PROVE  /\ s \notin {"link", "trunc", "write"} /\ file' = file => FileAt(temp)'
           /\ s # "index" /\ doc' = doc /\ (temp.new = <<>> => file' = file) => DocOK'
           /\ drafts' = drafts /\ queued' \subseteq queued
              /\ (NewDraft \in drafts => file' = file) /\ (nextId = Tid => file' = file) => NewOK'
<1>1. /\ Pending = {temp} /\ Pending' = {temp} /\ temp' = temp
      /\ nextId' = nextId /\ ours' = ours /\ acks' = acks
      /\ \A x : Done(temp, x)' <=> Done(temp, x) \/ x = s
    BY TakesIs DEF Takes
<1>2. ASSUME s \notin {"link", "trunc", "write"}, file' = file PROVE FileAt(temp)'
    <2>1. /\ Done(temp, "link")' <=> Done(temp, "link")
          /\ Done(temp, "trunc")' <=> Done(temp, "trunc")
          /\ Done(temp, "write")' <=> Done(temp, "write")
        BY <1>1, <1>2
    <2> QED BY <1>1, <1>2, <2>1 DEF IInv, FileOK, FileAt, Links, Cuts
<1>3. ASSUME s # "index", doc' = doc, temp.new = <<>> => file' = file PROVE DocOK'
    <2>1. Done(temp, "index")' <=> Done(temp, "index")
        BY <1>1, <1>3
    <2> QED BY <1>1, <1>3, <2>1 DEF IInv, DocOK
<1>4. ASSUME drafts' = drafts, queued' \subseteq queued, NewDraft \in drafts => file' = file,
             nextId = Tid => file' = file
      PROVE  NewOK'
    BY <1>1, <1>4 DEF IInv, NewOK
<1> QED BY <1>2, <1>3, <1>4

LEMMA LinkDraftStep ==
    ASSUME IInv, LinkDraft
    PROVE  IInv'
<1>1. /\ Takes("lndraft") /\ "lndraft" # "drop" /\ "lndraft" \notin {"link", "trunc", "write", "index"}
      /\ drafts' = drafts \cup {temp.draft} /\ UNCHANGED <<file, queued, doc, listed>>
    BY DEF LinkDraft, Takes, Step, StepDone, Rest, server, IInv, Places, Idle
<1>2. /\ Pending = {temp} /\ Pending' = {temp} /\ TransOK(temp) /\ "lndraft" \in StepSet(temp)
      /\ \A x : Done(temp, x)' <=> Done(temp, x) \/ x = "lndraft"
      /\ Index' = Index /\ temp' = temp /\ temp # None
    BY <1>1, TakesIs DEF Takes
<1>3. temp.op = "ws"
    BY <1>2 DEF StepSet
<1>4. temp.draft \in Drafts /\ (temp.draft = NewDraft => temp.new = <<>> /\ file = <<>>)
    BY <1>2, <1>3, OfNewDraft DEF IInv, FileOK, FileAt
<1>5. FileAt(temp)' /\ DocOK'
    BY <1>1, StepsApart
<1>6. ASSUME NEW d \in Drafts PROVE DraftAt(d)'
    <2>1. CASE temp.draft # d
        BY <1>1, <2>1, DraftApart
    <2>2. CASE temp.draft = d
        <3>1. DraftAt(d)
            BY DEF IInv
        <3>2. Involved(d)' = Involved(d)
            BY <1>1 DEF Involved, Takes
        <3>3. Done(temp, "index")' <=> Done(temp, "index")
            BY <1>2
        <3> QED BY <1>1, <1>2, <1>3, <2>2, <3>1, <3>2, <3>3 DEF DraftAt
    <2> QED BY <2>1, <2>2
<1>7. opened # None => opened.draft \in drafts'
    BY <1>1 DEF IInv, OpenedOK
<1>8. NewOK'
    BY <1>1, <1>2, <1>3, <1>4 DEF IInv, NewOK, Takes
<1>9. drafts' \subseteq Drafts /\ queued' \subseteq queued /\ listed' \in BOOLEAN
    BY <1>1, <1>4 DEF IInv, Types
<1> QED BY <1>1, <1>5, <1>6, <1>7, <1>8, <1>9, StepStep

LEMMA DequeueStep ==
    ASSUME IInv, Dequeue
    PROVE  IInv'
<1>1. /\ Takes("dequeue") /\ "dequeue" # "drop" /\ "dequeue" \notin {"link", "trunc", "write", "index"}
      /\ queued' = queued \ {temp.draft} /\ UNCHANGED <<file, drafts, doc, listed>>
    BY DEF Dequeue, Takes, Step, StepDone, Rest, server, IInv, Places, Idle
<1>2. /\ Pending = {temp} /\ Pending' = {temp} /\ TransOK(temp) /\ "dequeue" \in StepSet(temp)
      /\ \A x : Done(temp, x)' <=> Done(temp, x) \/ x = "dequeue"
      /\ Index' = Index /\ temp' = temp /\ temp # None
    BY <1>1, TakesIs DEF Takes
<1>3. temp.op = "ss"
    BY <1>2 DEF StepSet
<1>4. FileAt(temp)' /\ DocOK' /\ NewOK'
    BY <1>1, StepsApart
<1>5. ASSUME NEW d \in Drafts PROVE DraftAt(d)'
    <2>1. CASE temp.draft # d
        BY <1>1, <2>1, DraftApart
    <2>2. CASE temp.draft = d
        <3>1. DraftAt(d)
            BY DEF IInv
        <3>2. (Done(temp, "rmdraft")' <=> Done(temp, "rmdraft")) /\ d \notin queued'
            BY <1>1, <1>2, <2>2
        <3> QED BY <1>1, <1>2, <1>3, <2>2, <3>1, <3>2 DEF DraftAt
    <2> QED BY <2>1, <2>2
<1>6. opened # None => opened.draft \in drafts'
    BY <1>1 DEF IInv, OpenedOK
<1>7. drafts' \subseteq Drafts /\ queued' \subseteq queued /\ listed' \in BOOLEAN
    BY <1>1 DEF IInv, Types
<1> QED BY <1>1, <1>4, <1>5, <1>6, <1>7, StepStep

LEMMA SyncTagsStep ==
    ASSUME IInv, SyncTags
    PROVE  IInv'
<1>1. /\ Takes("synctags") /\ "synctags" # "drop" /\ "synctags" \notin {"link", "trunc", "write", "index"}
      /\ UNCHANGED <<file, drafts, queued, doc, listed>>
    BY DEF SyncTags, Takes, Step, StepDone, Rest, server, disk, IInv, Places, Idle
<1>2. FileAt(temp)' /\ DocOK' /\ NewOK'
    BY <1>1, StepsApart
<1>3. ASSUME NEW d \in Drafts PROVE DraftAt(d)'
    BY <1>1, DraftSame
<1>4. opened # None => opened.draft \in drafts'
    BY <1>1 DEF IInv, OpenedOK
<1>5. drafts' \subseteq Drafts /\ queued' \subseteq queued /\ listed' \in BOOLEAN
    BY <1>1 DEF IInv, Types
<1> QED BY <1>1, <1>2, <1>3, <1>4, <1>5, StepStep

\* The steps that change the thread file.
LEMMA FileStep ==
    ASSUME IInv, NEW s \in {"link", "trunc", "write"}, Takes(s), UNCHANGED <<drafts, queued, doc, listed>>,
           FileAt(temp)'
    PROVE  IInv'
<1>1. /\ Pending = {temp} /\ TransOK(temp) /\ s \in StepSet(temp) /\ temp # None /\ s # "drop" /\ s # "index"
      /\ \A x \in StepSet(temp) : Done(temp, x) <=> Rank(x) < Rank(s)
    BY TakesIs DEF Takes
<1>2. temp.new # <<>> /\ nextId # Tid
    BY <1>1 DEF StepSet, IInv, NewOK
<1>3. NewDraft \notin drafts
    <2>1. CASE temp.op = "ss" /\ temp.draft = NewDraft
        <3>1. Done(temp, "rmdraft")
            BY <1>1, <2>1, RankValues DEF StepSet
        <3>2. NewDraft \in Drafts
            BY DEF Drafts
        <3> QED BY <1>1, <2>1, <3>1, <3>2 DEF IInv, DraftAt
    <2>2. CASE ~(temp.op = "ss" /\ temp.draft = NewDraft)
        BY <1>1, <1>2, <2>2 DEF IInv, NewOK
    <2> QED BY <2>1, <2>2
<1>4. DocOK' /\ NewOK'
    BY <1>1, <1>2, <1>3, StepsApart
<1>5. ASSUME NEW d \in Drafts PROVE DraftAt(d)'
    BY <1>2, DraftSame
<1>6. opened # None => opened.draft \in drafts'
    BY DEF IInv, OpenedOK
<1>7. drafts' \subseteq Drafts /\ queued' \subseteq queued /\ listed' \in BOOLEAN
    BY DEF IInv, Types
<1> QED BY <1>1, <1>2, <1>4, <1>5, <1>6, <1>7, StepStep

LEMMA LinkThreadStep ==
    ASSUME IInv, LinkThread
    PROVE  IInv'
<1>1. /\ Takes("link") /\ "link" # "drop" /\ UNCHANGED <<drafts, queued, doc, listed>>
      /\ file' = IF file = <<>> THEN temp.new ELSE file
    BY DEF LinkThread, Takes, Step, StepDone, Rest, server, IInv, Places, Idle
<1>2. /\ Pending = {temp} /\ "link" \in StepSet(temp) /\ temp' = temp
    BY <1>1, TakesIs DEF Takes
<1>3. Links(temp) /\ temp.new # <<>>
    BY <1>2 DEF StepSet
<1>4. file \in {<<>>, temp.new}
    BY <1>2, <1>3 DEF IInv, FileOK, FileAt
<1>5. FileAt(temp)'
    BY <1>1, <1>2, <1>3, <1>4 DEF FileAt, Links
<1> QED BY <1>1, <1>5, FileStep

LEMMA TruncateStep ==
    ASSUME IInv, Truncate
    PROVE  IInv'
<1>1. /\ Takes("trunc") /\ "trunc" # "drop" /\ UNCHANGED <<drafts, queued, doc, listed>>
      /\ file' = SubSeq(file, 1, temp.pos)
    BY DEF Truncate, Takes, Step, StepDone, Rest, server, IInv, Places, Idle
<1>2. /\ Pending = {temp} /\ "trunc" \in StepSet(temp) /\ temp' = temp /\ TransOK(temp)
      /\ \A x : Done(temp, x)' <=> Done(temp, x) \/ x = "trunc"
      /\ \A x \in StepSet(temp) : Done(temp, x) <=> Rank(x) < Rank("trunc")
    BY <1>1, TakesIs DEF Takes
<1>3. ~Links(temp) /\ temp.new # <<>> /\ "write" \in StepSet(temp)
    BY <1>2 DEF StepSet
<1>4. ~Done(temp, "write")'
    BY <1>2, <1>3, RankValues
<1>5. file \in Seq(Cell) /\ temp.pos \in Nat /\ temp.pos <= Len(file) /\ temp.new \in Seq(Cell)
    BY <1>2, <1>3 DEF IInv, FileOK, FileAt, TransOK, Transactions
<1>6. file' \in Seq(Cell) /\ Len(file') = temp.pos
    BY <1>1, <1>5, Cut
<1>7. temp.pos >= temp.pos /\ temp.pos <= temp.pos + Len(temp.new)
    BY <1>5
<1>8. FileAt(temp)'
    BY <1>2, <1>3, <1>4, <1>6, <1>7 DEF FileAt, Links
<1> QED BY <1>1, <1>8, FileStep

LEMMA WriteThreadStep ==
    ASSUME IInv, WriteThread
    PROVE  IInv'
<1>1. /\ Takes("write") /\ "write" # "drop" /\ UNCHANGED <<drafts, queued, doc, listed>>
      /\ file' = Overlay(Len(temp.new))
    BY DEF WriteThread, Takes, Step, StepDone, Rest, server, IInv, Places, Idle
<1>2. /\ Pending = {temp} /\ "write" \in StepSet(temp) /\ temp' = temp /\ TransOK(temp)
      /\ \A x \in StepSet(temp) : Done(temp, x) <=> Rank(x) < Rank("write")
    BY <1>1, TakesIs DEF Takes
<1>3. ~Links(temp) /\ temp.new # <<>> /\ (Cuts(temp) => "trunc" \in StepSet(temp))
    BY <1>2 DEF StepSet
<1>4. Cuts(temp) => Done(temp, "trunc")
    BY <1>2, <1>3, RankValues
<1>5. /\ file \in Seq(Cell) /\ temp.pos \in Nat /\ temp.new \in Seq(Cell)
      /\ Len(file) >= temp.pos /\ Len(file) <= temp.pos + Len(temp.new)
    BY <1>2, <1>3, <1>4 DEF IInv, FileOK, FileAt, TransOK, Transactions
<1>6. PICK y : y = SubSeq(file, 1, temp.pos)
    OBVIOUS
<1>7. y \in Seq(Cell) /\ Len(y) = temp.pos
    BY <1>5, <1>6, Cut
<1>8. Len(temp.new) \in 0..Len(temp.new)
    BY <1>5
<1>9. file' \in Seq(Cell) /\ Len(file') >= temp.pos /\ Len(file') <= temp.pos + Len(temp.new)
      /\ file' = y \o temp.new
    BY <1>1, <1>5, <1>6, <1>8, OverlayIs
<1>10. SubSeq(file', 1, temp.pos) = y
    BY <1>5, <1>7, <1>9, FirstCells
<1>11. FileAt(temp)'
    BY <1>2, <1>3, <1>9, <1>10 DEF FileAt, Links, Cuts
<1> QED BY <1>1, <1>11, FileStep

\* Once it is written the thread file holds the new index.
LEMMA FileAfter ==
    ASSUME IInv, temp # None, Head(todo) \in {"index", "drop"}
    PROVE  /\ temp.new # <<>> => /\ Whole(file, 0) /\ file # <<>>
                                 /\ ReadIndex(file) = ReadIndex(temp.new)
           /\ temp.new = <<>> => file = <<>>
           /\ Pending = {temp} /\ TransOK(temp)
           /\ \A x \in StepSet(temp) : Rank(x) < Rank(Head(todo)) => Done(temp, x)
<1>1. Pending = {temp} /\ TransOK(temp) /\ Remaining(todo, StepSet(temp)) /\ "drop" \in StepSet(temp)
    BY PendingIs DEF IInv, Places, StepSet
<1>2. \A x \in StepSet(temp) : Rank(x) < Rank(Head(todo)) => Done(temp, x)
    BY <1>1, RemainingNext DEF Done
<1>3. FileAt(temp)
    BY <1>1 DEF IInv, FileOK
<1>4. ASSUME temp.new # <<>>
      PROVE  Whole(file, 0) /\ file # <<>> /\ ReadIndex(file) = ReadIndex(temp.new)
    <2>1. Whole(temp.new, temp.pos) /\ (Links(temp) => temp.pos = 0) /\ temp.pos \in Nat /\ temp.new \in Seq(Cell)
        BY <1>1, <1>4 DEF TransOK, Transactions
    <2>2. CASE Links(temp)
        <3>1. "link" \in StepSet(temp)
            BY <1>4, <2>2 DEF StepSet
        <3>2. file = temp.new
            BY <1>2, <1>3, <1>4, <2>2, <3>1, RankValues DEF FileAt
        <3> QED BY <1>4, <2>1, <2>2, <3>2
    <2>3. CASE ~Links(temp)
        <3>1. "write" \in StepSet(temp)
            BY <1>4, <2>3 DEF StepSet
        <3>2. PICK y : y = SubSeq(file, 1, temp.pos)
            OBVIOUS
        <3>3. Done(temp, "write")
            BY <1>2, <3>1, RankValues
        <3>4. file = y \o temp.new /\ file \in Seq(Cell) /\ Len(file) >= temp.pos
            BY <1>3, <1>4, <2>3, <3>2, <3>3 DEF FileAt
        <3>5. y \in Seq(Cell) /\ Len(y) = temp.pos
            BY <2>1, <3>2, <3>4, Cut
        <3>6. Whole(y \o temp.new, 0) /\ ReadIndex(y \o temp.new) = ReadIndex(temp.new)
            BY <2>1, <3>5, WholeAfter
        <3> QED BY <3>4, <3>6, WholeHas
    <2> QED BY <2>2, <2>3
<1>5. temp.new = <<>> => file = <<>>
    BY <1>3 DEF FileAt
<1> QED BY <1>1, <1>2, <1>4, <1>5

LEMMA IndexThreadStep ==
    ASSUME IInv, IndexThread
    PROVE  IInv'
<1>1. CASE Quit
    BY <1>1, QuitStep
<1>2. CASE ~Quit
    <2>1. /\ Takes("index") /\ "index" # "drop" /\ "index" \notin {"link", "trunc", "write"}
          /\ UNCHANGED <<file, drafts, queued>>
          /\ doc' = IF temp.new # <<>> THEN Summary(ReadIndex(file)) ELSE doc
          /\ listed' = IF temp.new # <<>> THEN listed ELSE temp.op = "ws"
        BY <1>2 DEF IndexThread, Takes, Step, StepDone, Rest, server, IInv, Places, Idle
    <2>2. /\ Pending = {temp} /\ Pending' = {temp} /\ TransOK(temp) /\ temp' = temp /\ temp # None
          /\ \A x : Done(temp, x)' <=> Done(temp, x) \/ x = "index"
          /\ Index' = Index
        BY <2>1, TakesIs DEF Takes
    <2>3. temp.new # <<>> => ReadIndex(file) = ReadIndex(temp.new)
        BY <2>1, FileAfter DEF Takes
    <2>4. FileAt(temp)' /\ NewOK'
        BY <2>1, StepsApart
    <2>5. DocOK'
        BY <2>1, <2>2, <2>3 DEF IInv, DocOK
    <2>6. /\ temp.new = <<>> => temp.draft = NewDraft /\ temp.op \in {"ws", "ds"}
          /\ temp.draft = NewDraft /\ temp.op # "ss" => temp.new = <<>>
          /\ temp.op = "ss" => temp.new # <<>>
        BY <2>2, OfNewDraft
    <2>7. ASSUME NEW d \in Drafts PROVE DraftAt(d)'
        <3>1. CASE temp.draft # d
            <4>1. d = NewDraft => listed' = listed
                BY <2>1, <2>6, <3>1
            <4> QED BY <2>1, <3>1, <4>1, DraftApart
        <3>2. CASE temp.draft = d
            <4>1. DraftAt(d)
                BY DEF IInv
            <4>2. Involved(d)' = Involved(d)
                BY <2>1 DEF Involved, Takes
            <4>3. /\ Done(temp, "rmdraft")' <=> Done(temp, "rmdraft")
                  /\ Done(temp, "lndraft")' <=> Done(temp, "lndraft")
                  /\ Done(temp, "dequeue")' <=> Done(temp, "dequeue")
                BY <2>2
            <4>4. temp.op = "ss" => listed' = listed
                BY <2>1, <2>6
            <4>5. d = NewDraft /\ temp.op # "ss" => (listed' <=> temp.op = "ws")
                BY <2>1, <2>6, <3>2
            <4> QED BY <2>1, <2>2, <3>2, <4>1, <4>2, <4>3, <4>4, <4>5 DEF DraftAt
        <3> QED BY <3>1, <3>2
    <2>8. opened # None => opened.draft \in drafts'
        BY <2>1 DEF IInv, OpenedOK
    <2>9. drafts' \subseteq Drafts /\ queued' \subseteq queued /\ listed' \in BOOLEAN
        BY <2>1 DEF IInv, Types
    <2> QED BY <2>1, <2>4, <2>5, <2>7, <2>8, <2>9, StepStep
<1> QED BY <1>1, <1>2

LEMMA DropTempStep ==
    ASSUME IInv, DropTemp
    PROVE  IInv'
<1>1. /\ Head(todo) = "drop" /\ todo # <<>> /\ todo' = Tail(todo) /\ temp' = None
      /\ got' = IF temp.op = "ss" \/ (temp.op = "sr" /\ Up) THEN got \cup {temp.mid} ELSE got
      /\ updt = None => updt' = None
      /\ UNCHANGED <<file, drafts, queued, doc, listed, left, opened, mode, nextId, acks, ours>>
    BY DEF DropTemp, Step, StepDone, disk, Idle
<1>2. temp # None /\ left = {}
    BY <1>1 DEF IInv, Places
<1>3. /\ temp.new # <<>> => Whole(file, 0) /\ file # <<>> /\ ReadIndex(file) = ReadIndex(temp.new)
      /\ temp.new = <<>> => file = <<>>
      /\ Pending = {temp} /\ TransOK(temp)
      /\ \A x \in StepSet(temp) : Rank(x) < Rank("drop") => Done(temp, x)
    BY <1>1, <1>2, FileAfter
<1>4. todo' = <<>>
    <2>1. Remaining(todo, StepSet(temp)) /\ "drop" \in StepSet(temp)
        BY <1>2 DEF IInv, Places, StepSet
    <2> QED BY <1>1, <2>1, RemainingNext
<1>5. Pending' = {}
    BY <1>1, <1>2 DEF Pending
<1>6. Index' = Index
    <2>1. Index' = Idx(file')
        BY <1>5, IndexIs, IndexOfIs
    <2>2. Index = Idx(file)
        BY <1>3, OneIndex DEF IInv, Idx
    <2> QED BY <1>1, <2>1, <2>2
<1>7. got' \subseteq Ids /\ got \subseteq got' /\ got' \subseteq IdsOf(Index)
    <2>1. temp.op \in {"sr", "ss"} => temp.mid \in Ids /\ temp.mid \in IdsOf(Index)
        BY <1>3, OneIndex DEF IInv, TransOK
    <2> QED BY <1>1, <2>1 DEF IInv, Types, GotOK
<1>8. Types'
    BY <1>1, <1>7 DEF IInv, Types
<1>9. Places'
    BY <1>1, <1>2, <1>4, <1>5 DEF IInv, Places
<1>10. FileOK'
    <2>1. file = <<>> \/ Whole(file, 0)
        BY <1>3
    <2> QED BY <1>1, <1>5, <2>1 DEF FileOK
<1>11. ASSUME NEW d \in Drafts PROVE DraftAt(d)'
    <2>1. DraftAt(d)
        BY DEF IInv
    <2>2. CASE temp.draft # d
        BY <1>1, <1>3, <1>5, <1>6, <2>1, <2>2 DEF DraftAt
    <2>3. CASE temp.draft = d
        <3>1. temp.op \in {"ss", "ws", "ds"}
            BY <1>2, <1>3, <2>3, OfNewDraft
        <3>2. /\ "rmdraft" \in StepSet(temp) /\ "index" \in StepSet(temp)
              /\ temp.op = "ws" => "lndraft" \in StepSet(temp)
              /\ temp.op = "ss" => "dequeue" \in StepSet(temp)
            BY <3>1 DEF StepSet
        <3>3. /\ Done(temp, "rmdraft") /\ Done(temp, "index")
              /\ temp.op = "ws" => Done(temp, "lndraft")
              /\ temp.op = "ss" => Done(temp, "dequeue")
            BY <1>3, <3>2, RankValues
        <3>4. temp.op # "ss" => d \notin queued
            BY <1>3, <2>1, <2>3 DEF DraftAt, Involved
        <3> QED BY <1>1, <1>3, <1>5, <1>6, <2>1, <2>3, <3>1, <3>3, <3>4 DEF DraftAt
    <2> QED BY <2>2, <2>3
<1>12. OpenedOK'
    BY <1>1, <1>5 DEF IInv, OpenedOK
<1>13. FlightOK'
    <2>1. InFlight' = InFlight
        BY <1>1 DEF InFlight
    <2> QED BY <1>1, <1>6, <2>1 DEF IInv, FlightOK
<1>14. NewOK'
    BY <1>1, <1>5 DEF IInv, NewOK
<1>15. DocOK'
    <2>1. doc = IF file = <<>> THEN None ELSE Summary(ReadIndex(file))
        <3>1. CASE temp.new = <<>>
            BY <1>3, <3>1 DEF IInv, DocOK
        <3>2. CASE temp.new # <<>>
            <4>1. "index" \in StepSet(temp)
                BY DEF StepSet
            <4>2. Done(temp, "index")
                BY <1>3, <4>1, RankValues
            <4> QED BY <1>3, <3>2, <4>2 DEF IInv, DocOK
        <3> QED BY <3>1, <3>2
    <2> QED BY <1>1, <1>5, <2>1 DEF DocOK
<1>16. GotOK'
    BY <1>6, <1>7 DEF IInv, GotOK
<1> QED BY <1>8, <1>9, <1>10, <1>11, <1>12, <1>13, <1>14, <1>15, <1>16 DEF IInv

-----------------------------------------------------------------------------
(* Crashes and recovery.                                                   *)

LEMMA CrashStep ==
    ASSUME IInv, UpdateCrash = FALSE, ReplyCrash = FALSE, Crash
    PROVE  IInv'
<1>1. /\ mode' = "down" /\ temp' = None /\ todo' = <<>> /\ opened' = None /\ updt' = None
      /\ left' = IF temp = None THEN left ELSE left \cup {temp}
      /\ UNCHANGED <<drafts, queued, doc, listed, nextId, acks, ours, got>>
    BY DEF Crash, server
<1>2. left' = Pending /\ Pending' = Pending
    <2>1. None \notin left /\ (temp # None => left = {})
        BY DEF IInv, Places
    <2> QED BY <1>1, <2>1 DEF Pending
<1>3. \/ file' = file
      \/ /\ Pending = {temp} /\ TransOK(temp) /\ temp.new # <<>> /\ ~Links(temp)
         /\ NewDraft \notin drafts /\ nextId # Tid
         /\ \E n \in 0..Len(temp.new) : file' = Overlay(n)
    <2>1. file' = file \/ (Step("write") /\ \E n \in 0..Len(temp.new) : file' = Overlay(n))
        BY DEF Crash
    <2>2. ASSUME Step("write")
          PROVE  /\ Pending = {temp} /\ TransOK(temp) /\ temp.new # <<>> /\ ~Links(temp)
                 /\ NewDraft \notin drafts /\ nextId # Tid
        <3>1. temp # None /\ Head(todo) = "write"
            BY <2>2 DEF Step, Idle, IInv, Places
        <3>2. Pending = {temp} /\ TransOK(temp) /\ Remaining(todo, StepSet(temp)) /\ "drop" \in StepSet(temp)
            BY <3>1, PendingIs DEF IInv, Places, StepSet
        <3>3. /\ "write" \in StepSet(temp)
              /\ \A x \in StepSet(temp) : Rank(x) < Rank("write") => Done(temp, x)
            BY <3>1, <3>2, RemainingNext DEF Done
        <3>4. temp.new # <<>> /\ ~Links(temp)
            BY <3>3 DEF StepSet
        <3>5. NewDraft \notin drafts
            <4>1. CASE temp.op = "ss" /\ temp.draft = NewDraft
                <5>1. Done(temp, "rmdraft")
                    BY <3>3, <4>1, RankValues DEF StepSet
                <5>2. NewDraft \in Drafts
                    BY DEF Drafts
                <5> QED BY <3>2, <4>1, <5>1, <5>2 DEF IInv, DraftAt
            <4>2. CASE ~(temp.op = "ss" /\ temp.draft = NewDraft)
                BY <3>2, <3>4, <4>2 DEF IInv, NewOK
            <4> QED BY <4>1, <4>2
        <3>6. nextId # Tid
            BY <3>2, <3>4 DEF IInv, NewOK
        <3> QED BY <3>2, <3>4, <3>5, <3>6
    <2> QED BY <2>1, <2>2
<1>4. Index' = Index
    <2>1. CASE file' = file
        BY <1>2, <2>1, IndexIs
    <2>2. CASE Pending = {temp} /\ temp.new # <<>>
        <3>1. PICK t : t = temp
            OBVIOUS
        <3>2. Pending = {t} /\ Pending' = {t} /\ t.new # <<>>
            BY <1>2, <2>2, <3>1
        <3> QED BY <3>2, IndexIs, IndexOfIs
    <2> QED BY <1>3, <2>1, <2>2
<1>5. \A t \in Pending : TransOK(t) /\ t # None /\ \A x : ~Done(t, x)'
    BY <1>1, PendingIs DEF IInv, Places, Done
<1>6. Types'
    BY <1>1 DEF IInv, Types
<1>7. Places'
    <2>1. \A t \in Pending' : TransOK(t)'
        BY <1>2, <1>5 DEF TransOK
    <2>2. None \notin left' /\ \A s, t \in left' : s = t
        BY <1>2, PendingIs DEF IInv
    <2>3. \A t \in left' : ~SentReply(t)
        <3>1. temp # None => ~SentReply(temp)
            BY DEF Crash
        <3> QED BY <1>1, <3>1 DEF IInv, Places
    <2> QED BY <1>1, <2>1, <2>2, <2>3 DEF Places
<1>8. ASSUME NEW t \in Pending PROVE FileAt(t)'
    <2>1. FileAt(t)
        BY DEF IInv, FileOK
    <2>2. \A x : ~Done(t, x)'
        BY <1>5
    <2>3. CASE file' = file
        <3>1. CASE t.new = <<>>
            BY <2>1, <2>3, <3>1 DEF FileAt
        <3>2. CASE t.new # <<>> /\ Links(t)
            BY <2>1, <2>2, <2>3, <3>2 DEF FileAt, Links
        <3>3. CASE t.new # <<>> /\ ~Links(t)
            BY <2>1, <2>2, <2>3, <3>3 DEF FileAt, Links, Cuts
        <3> QED BY <3>1, <3>2, <3>3
    <2>4. CASE file' # file
        <3>1. /\ t = temp /\ TransOK(t) /\ t.new # <<>> /\ ~Links(t)
            BY <1>3, <2>4
        <3>2. PICK n \in 0..Len(temp.new) : file' = Overlay(n)
            BY <1>3, <2>4
        <3>3. /\ file \in Seq(Cell) /\ temp.pos \in Nat /\ temp.new \in Seq(Cell)
              /\ Len(file) >= temp.pos
              /\ ~Cuts(t) => Len(file) <= temp.pos + Len(temp.new)
            BY <2>1, <3>1 DEF FileAt, TransOK, Transactions
        <3>4. /\ file' \in Seq(Cell) /\ Len(file') >= temp.pos
              /\ Len(file) <= temp.pos + Len(temp.new) => Len(file') <= temp.pos + Len(temp.new)
            BY <3>2, <3>3, OverlayIs
        <3> QED BY <2>2, <3>1, <3>3, <3>4 DEF FileAt, Links, Cuts
    <2> QED BY <2>3, <2>4
<1>9. FileOK'
    <2>1. Pending = {} => file' = file
        BY <1>3
    <2> QED BY <1>2, <1>8, <2>1 DEF IInv, FileOK
<1>10. \A d \in Drafts : Involved(d)' => Involved(d)
    BY <1>1 DEF Involved
<1>11. ASSUME NEW d \in Drafts PROVE DraftAt(d)'
    <2>1. DraftAt(d)
        BY DEF IInv
    <2> QED BY <1>1, <1>2, <1>4, <1>5, <1>10, <2>1 DEF DraftAt
<1>12. OpenedOK'
    BY <1>1 DEF OpenedOK
<1>13. FlightOK'
    <2>1. InFlight' \subseteq InFlight
        BY <1>1 DEF InFlight
    <2> QED BY <1>1, <1>4, <2>1 DEF IInv, FlightOK
<1>14. NewOK'
    BY <1>1, <1>2, <1>3 DEF IInv, NewOK
<1>15. DocOK'
    <2>1. (\A t \in Pending : t.new = <<>>) => file' = file
        BY <1>3
    <2> QED BY <1>1, <1>2, <1>5, <2>1 DEF IInv, DocOK
<1>16. GotOK'
    BY <1>1, <1>4 DEF IInv, GotOK
<1> QED BY <1>6, <1>7, <1>9, <1>11, <1>12, <1>13, <1>14, <1>15, <1>16 DEF IInv

LEMMA ResumeStep ==
    ASSUME IInv, NEW t \in left, Resume(t)
    PROVE  IInv'
<1>1. /\ temp' = t /\ todo' = Steps(t) /\ left' = left \ {t} /\ mode = "recover"
      /\ UNCHANGED <<file, drafts, queued, doc, listed, opened, updt, mode, nextId, acks, ours, got>>
    BY DEF Resume, Reopened, disk, server, IInv, Places
<1>2. temp = None /\ Pending = {t} /\ Pending' = {t} /\ t # None /\ left' = {} /\ TransOK(t)
    <2>1. temp = None /\ left = {t} /\ t # None
        BY DEF IInv, Places
    <2>2. Pending = {t} /\ Pending' = {t}
        BY <1>1, <2>1 DEF Pending
    <2> QED BY <1>1, <2>1, <2>2 DEF IInv, Places
<1>3. Index' = Index
    BY <1>1, <1>2, IndexIs
<1>4. Ranged(Steps(t), 1, 9, StepSet(t)) /\ "drop" \in StepSet(t)
    BY <1>2, StepsAre DEF TransOK, StepSet
<1>5. Remaining(todo', StepSet(t))
    BY <1>1, <1>4, RemainingFirst
<1>6. \A x \in StepSet(t) : ~Done(t, x)'
    <2>1. \A x \in StepSet(t) : In(x, todo')
        BY <1>1, <1>4 DEF Ranged
    <2> QED BY <2>1 DEF Done, In
<1>7. Types'
    BY <1>1 DEF IInv, Types
<1>8. Places'
    <2>1. TransOK(t)'
        BY <1>2 DEF TransOK
    <2>2. Remaining(todo, StepSet(temp))'
        BY <1>1, <1>5 DEF StepSet
    <2>3. Places
        BY DEF IInv
    <2> QED BY <1>1, <1>2, <2>1, <2>2, <2>3 DEF Places
<1>9. FileOK'
    <2>1. t.new # <<>> => IF Links(t) THEN "link" \in StepSet(t)
                          ELSE "write" \in StepSet(t) /\ (Cuts(t) => "trunc" \in StepSet(t))
        BY DEF StepSet
    <2>2. FileAt(t)
        BY <1>2 DEF IInv, FileOK
    <2>3. FileAt(t)'
        <3>1. CASE t.new = <<>>
            BY <1>1, <2>2, <3>1 DEF FileAt
        <3>2. CASE t.new # <<>> /\ Links(t)
            BY <1>1, <1>6, <2>1, <2>2, <3>2 DEF FileAt, Links
        <3>3. CASE t.new # <<>> /\ ~Links(t)
            BY <1>1, <1>6, <2>1, <2>2, <3>3 DEF FileAt, Links, Cuts
        <3> QED BY <3>1, <3>2, <3>3
    <2> QED BY <1>2, <2>3 DEF FileOK
<1>10. ASSUME NEW d \in Drafts PROVE DraftAt(d)'
    <2>1. DraftAt(d)
        BY DEF IInv
    <2>2. Involved(d)' = Involved(d)
        BY <1>1 DEF Involved
    <2>3. CASE t.draft # d
        BY <1>1, <1>2, <1>3, <2>1, <2>3 DEF DraftAt
    <2>4. CASE t.draft = d
        <3>1. t.op \in {"ss", "ws", "ds"}
            <4>1. d # None /\ t.op \in {"sr", "sc", "ss", "ws", "ds", "nr"}
                BY <1>2, KindAssumption DEF TransOK, Transactions
            <4> QED BY <1>2, <2>4, <4>1 DEF TransOK
        <3>2. /\ "rmdraft" \in StepSet(t) /\ "index" \in StepSet(t)
              /\ t.op = "ws" => "lndraft" \in StepSet(t)
              /\ t.op = "ss" => "dequeue" \in StepSet(t)
            BY <3>1 DEF StepSet
        <3>3. /\ ~Done(t, "rmdraft")' /\ ~Done(t, "index")'
              /\ t.op = "ws" => ~Done(t, "lndraft")'
              /\ t.op = "ss" => ~Done(t, "dequeue")'
            BY <1>6, <3>2
        <3> QED BY <1>1, <1>2, <1>3, <2>1, <2>2, <2>4, <3>3 DEF DraftAt
    <2> QED BY <2>3, <2>4
<1>11. OpenedOK'
    BY <1>1, <1>2 DEF IInv, OpenedOK
<1>12. FlightOK'
    <2>1. InFlight' = InFlight
        BY <1>1 DEF InFlight
    <2> QED BY <1>1, <1>3, <2>1 DEF IInv, FlightOK
<1>13. NewOK'
    BY <1>1, <1>2 DEF IInv, NewOK
<1>14. DocOK'
    <2>1. "index" \in StepSet(t)
        BY DEF StepSet
    <2> QED BY <1>1, <1>2, <1>6, <2>1 DEF IInv, DocOK
<1>15. GotOK'
    BY <1>1, <1>3 DEF IInv, GotOK
<1> QED BY <1>7, <1>8, <1>9, <1>10, <1>11, <1>12, <1>13, <1>14, <1>15 DEF IInv

-----------------------------------------------------------------------------
(* The thread that was forwarded.                                          *)

LEMMA BodiesAre ==
    ASSUME NEW n \in Nat, \A m \in 1..n : m \in Ids
    PROVE  \E c \in [0..n -> Seq(Cell)] :
               /\ c[0] = <<>> /\ FlattenSeq([m \in 1..n |-> Body(m)]) = c[n]
               /\ \A k \in 1..n : c[k] = c[k - 1] \o Body(k) /\ Len(c[k]) = Len(c[k - 1]) + Size[k]
               /\ \A k \in 0..n : Len(c[k]) \in Nat /\ Len(c[k]) <= Len(c[n])
<1> DEFINE s == [m \in 1..n |-> Body(m)]
<1>1. \A m \in 1..n : Body(m) \in Seq(Cell) /\ Len(Body(m)) = Size[m] /\ Size[m] \in Nat
    BY BodyIs
<1>2. s \in Seq(Seq(Cell)) /\ Len(s) = n /\ \A m \in 1..n : s[m] = Body(m)
    <2>1. s \in [1..n -> Seq(Cell)]
        BY <1>1
    <2>2. s \in Seq(Seq(Cell))
        BY <2>1, SeqDef
    <2> QED BY <2>1, <2>2
<1> HIDE DEF s
<1>3. PICK c \in [0..n -> Seq(Cell)] :
          /\ c[0] = <<>> /\ \A i \in 1..n : c[i] = c[i - 1] \o s[i]
          /\ FlattenSeq(s) = c[n]
    <2>1. \E c \in [0..Len(s) -> Seq(Cell)] :
             /\ c[0] = <<>> /\ \A i \in 1..Len(s) : c[i] = c[i - 1] \o s[i]
             /\ FlattenSeq(s) = c[Len(s)]
        BY <1>2, FlattenIs
    <2> QED BY <1>2, <2>1
<1>4. ASSUME NEW k \in 1..n PROVE Len(c[k]) = Len(c[k - 1]) + Size[k]
    <2>1. k - 1 \in 0..n
        OBVIOUS
    <2>2. PICK a, b : a = c[k - 1] /\ b = Body(k)
        OBVIOUS
    <2>3. a \in Seq(Cell) /\ b \in Seq(Cell) /\ c[k] = a \o b /\ Len(b) = Size[k]
        BY <1>1, <1>2, <1>3, <2>1, <2>2
    <2>4. Len(a \o b) = Len(a) + Len(b)
        <3> HIDE DEF Cell
        <3> QED BY <2>3, ConcatProperties
    <2> QED BY <2>2, <2>3, <2>4
<1>5. \A k \in 0..n : Len(c[k]) \in Nat
    <2>1. \A q \in Seq(Cell) : Len(q) \in Nat
        OBVIOUS
    <2> QED BY <1>3, <2>1
<1> DEFINE P == {d \in 0..n : Len(c[n - d]) <= Len(c[n])}
<1>6. 0 \in P
    <2>1. n - 0 = n /\ n \in 0..n
        OBVIOUS
    <2> QED BY <1>5, <2>1
<1>7. ASSUME NEW d \in 1..n, d - 1 \in P PROVE d \in P
    <2>1. PICK k : k = n - (d - 1)
        OBVIOUS
    <2>2. k \in 1..n /\ k - 1 = n - d /\ k \in 0..n /\ k - 1 \in 0..n /\ n \in 0..n /\ d \in 0..n
        BY <2>1
    <2>3. PICK x, y, z \in Nat : x = Len(c[k - 1]) /\ y = Len(c[k]) /\ z = Len(c[n])
        BY <1>5, <2>2
    <2>4. y = x + Size[k] /\ Size[k] \in Nat /\ y <= z
        BY <1>1, <1>4, <1>7, <2>1, <2>2, <2>3
    <2>5. x <= z
        BY <2>3, <2>4
    <2> QED BY <2>2, <2>3, <2>5
<1> HIDE DEF P
<1>8. \A d \in 0..n : d \in P
    <2>1. \A d \in 1..n : d - 1 \in P => d \in P
        BY <1>7
    <2> QED BY <1>6, <2>1, Along
<1>9. \A k \in 0..n : Len(c[k]) <= Len(c[n])
    <2> TAKE k \in 0..n
    <2>1. n - k \in 0..n /\ n - (n - k) = k
        OBVIOUS
    <2> QED BY <1>8, <2>1 DEF P
<1>10. \A k \in 1..n : c[k] = c[k - 1] \o Body(k)
    BY <1>2, <1>3
<1> QED BY <1>3, <1>4, <1>5, <1>9, <1>10 DEF s

\* An entry of a forwarded message.
Copy(m, off) == Entry(m, off, Size[m], "no", FALSE, "by")

LEMMA CopyIs ==
    ASSUME NEW m \in Ids, NEW off \in Nat
    PROVE  /\ Copy(m, off) \in Entries /\ Copy(m, off).id = m /\ Copy(m, off).off = off
           /\ Stored(Copy(m, off))
<1>1. Size[m] \in Nat
    BY IdAssumption
<1>2. PICK tag \in BOOLEAN : tag = FALSE
    OBVIOUS
<1>3. PICK e : e = [id |-> m, off |-> off, size |-> Size[m], seen |-> "no", tag |-> tag, fwd |-> "by"]
    OBVIOUS
<1>4. e \in Entries /\ e.id = m /\ e.off = off
    BY <1>1, <1>3 DEF Entries
<1>5. Copy(m, off) = e
    BY <1>2, <1>3 DEF Copy, Entry
<1> QED BY <1>4, <1>5 DEF Stored

LEMMA CopiesAre ==
    ASSUME NEW n \in Nat, n >= 1, \A m \in 1..n : m \in Ids,
           NEW x \in Seq(Cell), NEW off \in [1..n -> Nat], \A m \in 1..n : off[m] <= Len(x)
    PROVE  LET idx == [m \in 1..n |-> Copy(m, off[m])]
           IN  Sound(idx, Len(x)) /\ IdsOf(idx) = 1..n
<1> DEFINE idx == [m \in 1..n |-> Copy(m, off[m])]
<1>1. \A m \in 1..n : /\ Copy(m, off[m]) \in Entries /\ Copy(m, off[m]).id = m
                      /\ Copy(m, off[m]).off = off[m] /\ Stored(Copy(m, off[m]))
    BY CopyIs
<1>2. idx \in Seq(Entries) /\ Len(idx) = n /\ \A m \in 1..n : idx[m] = Copy(m, off[m])
    <2>1. idx \in [1..n -> Entries] /\ \A m \in 1..n : idx[m] = Copy(m, off[m])
        BY <1>1
    <2> HIDE DEF idx
    <2>2. idx \in Seq(Entries)
        BY <2>1, SeqDef
    <2> QED BY <2>1, <2>2
<1> HIDE DEF idx
<1>3. \A m \in 1..n : idx[m].id = m /\ idx[m].off = off[m] /\ Stored(idx[m])
    BY <1>1, <1>2
<1>4. IdsOf(idx) = 1..n
    BY <1>2, <1>3 DEF IdsOf
<1>5. Tid \in 1..n
    BY DEF Tid
<1>6. \A i, j \in 1..n : i # j => idx[i].id # idx[j].id
    BY <1>3
<1>7. \A i, j \in 1..n : i < j => idx[i].id < idx[j].id
    BY <1>3
<1>8. \A i \in 1..n : (Stored(idx[i]) <=> idx[i].id \in Ids) /\ idx[i].off <= Len(x)
    BY <1>3
<1> QED BY <1>2, <1>4, <1>5, <1>6, <1>7, <1>8 DEF Sound, idx

\* The forwarded messages are 1..n.
LEMMA ForwardedAre ==
    /\ Cardinality(Forwarded) \in Nat /\ Cardinality(Forwarded) <= MaxId
    /\ First # "forwarded" => Forwarded = {} /\ Cardinality(Forwarded) = 0
    /\ First = "forwarded" => Forwarded = 1..Cardinality(Forwarded) /\ Cardinality(Forwarded) >= 1
<1> DEFINE n == Cardinality(Forwarded)
<1>1. First # "forwarded" => Forwarded = {} /\ n = 0
    BY KindAssumption, FS_EmptySet
<1>2. First = "forwarded" => Forwarded = 1..n /\ Forwarded # {}
    BY KindAssumption
<1>3. Forwarded \subseteq 1..MaxId /\ MaxId \in Nat
    BY KindAssumption, IdAssumption DEF Ids
<1>4. n \in Nat
    <2>1. IsFiniteSet(1..MaxId)
        BY <1>3, FS_Interval
    <2> QED BY <1>3, <2>1, FS_Subset, FS_CardinalityType
<1> HIDE DEF n
<1>5. CASE First = "forwarded"
    <2>1. n >= 1
        BY <1>2, <1>4, <1>5
    <2>2. n \in 1..MaxId
        BY <1>2, <1>3, <1>4, <1>5, <2>1
    <2> QED BY <1>2, <1>3, <1>4, <1>5, <2>1, <2>2 DEF n
<1>6. CASE First # "forwarded"
    BY <1>1, <1>3, <1>4, <1>6 DEF n
<1> QED BY <1>5, <1>6

\* The file of a forwarded thread: the bodies of its messages, c[k] those of the
\* first k, and an entry for each at its place.
Copied(n, c, off) ==
    /\ c \in [0..n -> Seq(Cell)] /\ c[0] = <<>>
    /\ \A k \in 1..n : c[k] = c[k - 1] \o Body(k) /\ Len(c[k]) = Len(c[k - 1]) + Size[k]
    /\ \A k \in 0..n : Len(c[k]) \in Nat
    /\ off \in [1..n -> Nat]
    /\ \A m \in 1..n : off[m] = Len(c[m - 1]) /\ off[m] <= Len(c[n])
    /\ file = c[n] \o WriteIndex([m \in 1..n |-> Copy(m, off[m])])

LEMMA CopiedIs ==
    ASSUME Init, First = "forwarded"
    PROVE  \E c, off : Copied(Cardinality(Forwarded), c, off)
<1> DEFINE n == Cardinality(Forwarded)
           Sol(f) == f = [m \in 1..n |-> IF m = 1 THEN 0 ELSE f[m - 1] + Size[m - 1]]
<1>1. n \in Nat /\ n >= 1 /\ Forwarded = 1..n /\ n <= MaxId
    BY ForwardedAre
<1>2. \A m \in 1..n : m \in Ids
    BY <1>1, KindAssumption
<1>3. PICK off : off = CHOOSE f : Sol(f)
    OBVIOUS
<1>4. file = FlattenSeq([m \in 1..n |-> Body(m)]) \o WriteIndex([m \in 1..n |-> Copy(m, off[m])])
    BY <1>3 DEF Init, Copy
<1> HIDE DEF n
<1>5. PICK c \in [0..n -> Seq(Cell)] :
          /\ c[0] = <<>> /\ FlattenSeq([m \in 1..n |-> Body(m)]) = c[n]
          /\ \A k \in 1..n : c[k] = c[k - 1] \o Body(k) /\ Len(c[k]) = Len(c[k - 1]) + Size[k]
          /\ \A k \in 0..n : Len(c[k]) \in Nat /\ Len(c[k]) <= Len(c[n])
    BY <1>1, <1>2, BodiesAre
<1>6. Sol(off)
    <2> DEFINE g == [m \in 1..n |-> Len(c[m - 1])]
               val(m) == IF m = 1 THEN 0 ELSE g[m - 1] + Size[m - 1]
    <2>1. ASSUME NEW m \in 1..n PROVE g[m] = val(m)
        <3>1. CASE m = 1
            <4>1. m - 1 = 0 /\ Len(<<>>) = 0
                BY <3>1
            <4> QED BY <1>5, <3>1, <4>1
        <3>2. CASE m # 1
            <4>1. m - 1 \in 1..n
                BY <1>1, <3>2
            <4> QED BY <1>5, <3>2, <4>1
        <3> QED BY <3>1, <3>2
    <2>2. g = [m \in 1..n |-> val(m)]
        <3> HIDE DEF val
        <3> QED BY <2>1
    <2>3. Sol(g)
        BY <2>2
    <2> HIDE DEF g
    <2> QED BY <1>3, <2>3
<1>7. \A m \in 1..n : off[m] = IF m = 1 THEN 0 ELSE off[m - 1] + Size[m - 1]
    <2> DEFINE val(m) == IF m = 1 THEN 0 ELSE off[m - 1] + Size[m - 1]
    <2>1. off = [m \in 1..n |-> val(m)]
        BY <1>6
    <2>2. \A m \in 1..n : off[m] = val(m)
        <3> HIDE DEF val
        <3> QED BY <2>1
    <2> QED BY <2>2
<1>8. DOMAIN off = 1..n
    BY <1>6
<1> HIDE DEF Sol
<1> DEFINE P == {k \in 0..n : k = 0 \/ off[k] = Len(c[k - 1])}
<1>9. 0 \in P
    BY <1>1
<1>10. ASSUME NEW k \in 1..n, k - 1 \in P PROVE k \in P
    <2>1. CASE k = 1
        <3>1. k - 1 = 0 /\ Len(<<>>) = 0 /\ k \in 0..n
            BY <1>1, <2>1
        <3>2. off[k] = 0
            BY <1>7, <2>1
        <3> QED BY <1>5, <3>1, <3>2
    <2>2. CASE k # 1
        <3>1. k - 1 \in 1..n /\ k - 1 # 0 /\ k \in 0..n
            BY <1>1, <2>2
        <3>2. off[k - 1] = Len(c[(k - 1) - 1])
            BY <1>10, <3>1
        <3>3. off[k] = off[k - 1] + Size[k - 1]
            BY <1>7, <2>2
        <3>4. Len(c[k - 1]) = Len(c[(k - 1) - 1]) + Size[k - 1]
            BY <1>5, <3>1
        <3> QED BY <3>1, <3>2, <3>3, <3>4
    <2> QED BY <2>1, <2>2
<1> HIDE DEF P
<1>11. \A k \in 0..n : k \in P
    <2>1. \A k \in 1..n : k - 1 \in P => k \in P
        BY <1>10
    <2> QED BY <1>1, <1>9, <2>1, Along
<1>12. \A m \in 1..n : off[m] \in Nat /\ off[m] = Len(c[m - 1]) /\ off[m] <= Len(c[n])
    <2> TAKE m \in 1..n
    <2>1. m \in 0..n /\ m # 0 /\ m - 1 \in 0..n
        BY <1>1
    <2>2. off[m] = Len(c[m - 1])
        BY <1>11, <2>1 DEF P
    <2> QED BY <1>5, <2>1, <2>2
<1>13. off \in [1..n -> Nat]
    <2>1. off = [m \in 1..n |-> off[m]]
        BY <1>6, <1>8 DEF Sol
    <2> QED BY <1>12, <2>1
<1>14. file = c[n] \o WriteIndex([m \in 1..n |-> Copy(m, off[m])])
    BY <1>4, <1>5
<1>15. Copied(n, c, off)
    BY <1>5, <1>12, <1>13, <1>14 DEF Copied
<1> QED BY <1>15 DEF n

LEMMA InitFile ==
    ASSUME Init, First = "forwarded"
    PROVE  Whole(file, 0) /\ file # <<>> /\ IdsOf(ReadIndex(file)) = Forwarded
<1>1. PICK n : n = Cardinality(Forwarded)
    OBVIOUS
<1>2. n \in Nat /\ n >= 1 /\ Forwarded = 1..n
    BY <1>1, ForwardedAre
<1>3. \A m \in 1..n : m \in Ids
    BY <1>2, KindAssumption
<1>4. PICK c, off : Copied(n, c, off)
    BY <1>1, CopiedIs
<1>5. PICK x, idx : x = c[n] /\ idx = [m \in 1..n |-> Copy(m, off[m])]
    OBVIOUS
<1>6. x \in Seq(Cell) /\ file = x \o WriteIndex(idx)
    BY <1>2, <1>4, <1>5 DEF Copied
<1>7. Sound(idx, Len(x)) /\ IdsOf(idx) = 1..n
    BY <1>2, <1>3, <1>4, <1>5, <1>6, CopiesAre DEF Copied
<1>8. Sound(idx, 0 + Len(x))
    BY <1>6, <1>7
<1>9. /\ Whole(x \o WriteIndex(idx), 0) /\ ReadIndex(x \o WriteIndex(idx)) = idx
      /\ x \o WriteIndex(idx) # <<>>
    BY <1>6, <1>8, WholeIs
<1> QED BY <1>2, <1>6, <1>7, <1>9

LEMMA InvInit == Init => IInv
<1> SUFFICES ASSUME Init PROVE IInv
    OBVIOUS
<1>1. /\ doc = IF file = <<>> THEN None ELSE Summary(ReadIndex(file))
      /\ drafts = {} /\ queued = {} /\ listed = FALSE
      /\ left = {} /\ temp = None /\ todo = <<>>
      /\ updt = None /\ opened = None /\ mode = "up"
      /\ nextId = Cardinality(Forwarded) + 1
      /\ acks = {} /\ ours = {} /\ got = Forwarded
      /\ First # "forwarded" => file = <<>>
    BY DEF Init
<1>2. /\ Cardinality(Forwarded) \in Nat /\ Cardinality(Forwarded) <= MaxId
      /\ First # "forwarded" => Forwarded = {} /\ Cardinality(Forwarded) = 0
      /\ First = "forwarded" => Forwarded = 1..Cardinality(Forwarded) /\ Cardinality(Forwarded) >= 1
    BY ForwardedAre
<1>3. First = "forwarded" => Whole(file, 0) /\ file # <<>> /\ IdsOf(ReadIndex(file)) = Forwarded
    BY InitFile
<1>4. Pending = {} /\ InFlight = {}
    BY <1>1 DEF Pending, InFlight
<1>5. Index = Idx(file)
    BY <1>4, IndexIs, IndexOfIs
<1>6. IdsOf(Index) = Forwarded
    <2>1. CASE First = "forwarded"
        BY <1>3, <1>5, <2>1 DEF Idx
    <2>2. CASE First # "forwarded"
        BY <1>1, <1>2, <1>5, <2>2, NoIds
    <2> QED BY <2>1, <2>2
<1>7. Forwarded \subseteq Ids /\ Drafts \cap Ids = {}
    BY KindAssumption
<1>8. Types
    <2>1. nextId \in 1..(MaxId + 1)
        BY <1>1, <1>2, IdAssumption
    <2> QED BY <1>1, <1>7, <2>1 DEF Types
<1>9. Places
    BY <1>1, <1>4 DEF Places
<1>10. FileOK
    BY <1>1, <1>3, <1>4 DEF FileOK
<1>11. \A d \in Drafts : DraftAt(d)
    BY <1>1, <1>4, <1>6, <1>7 DEF DraftAt
<1>12. OpenedOK
    BY <1>1 DEF OpenedOK
<1>13. \A m \in Forwarded : m < nextId
    BY <1>1, <1>2
<1>14. FlightOK
    BY <1>1, <1>4, <1>6, <1>13 DEF FlightOK
<1>15. NewOK
    <2>1. nextId = Tid => First # "forwarded"
        BY <1>1, <1>2 DEF Tid
    <2>2. First = "sent" => nextId = Tid
        BY <1>1, <1>2 DEF Tid
    <2>3. ~(Tid > Tid)
        BY DEF Tid
    <2> QED BY <1>1, <1>4, <2>1, <2>2, <2>3 DEF NewOK
<1>16. DocOK
    BY <1>1, <1>4 DEF DocOK
<1>17. GotOK
    <2>1. NewDraft \notin Forwarded
        BY <1>7 DEF Drafts
    <2> QED BY <1>1, <1>6, <2>1 DEF GotOK
<1> QED BY <1>8, <1>9, <1>10, <1>11, <1>12, <1>14, <1>15, <1>16, <1>17 DEF IInv

-----------------------------------------------------------------------------
(* The theorems.                                                           *)

UpdateOK == updt # None => updt \in [act: Acts, id: Ids \cup Drafts,
                                     at: {"call", "wait", "log", "end", "none"}]

LEMMA UpdateKept ==
    ASSUME UpdateOK, [Next]_vars
    PROVE  UpdateOK'
<1>1. ASSUME updt # None, NEW at \in {"call", "wait", "log", "end", "none"}, updt' = [updt EXCEPT !.at = at]
      PROVE  UpdateOK'
    BY <1>1 DEF UpdateOK
<1>2. ASSUME updt' = updt \/ updt' = None PROVE UpdateOK'
    BY <1>2 DEF UpdateOK
<1>3. CASE UNCHANGED vars
    BY <1>2, <1>3 DEF vars
<1>4. CASE Complete
    <2>1. CASE DropTemp
        <3>1. updt' = updt \/ (updt # None /\ updt' = [updt EXCEPT !.at = "log"])
            BY <2>1 DEF DropTemp
        <3> QED BY <1>1, <1>2, <3>1
    <2>2. CASE ~DropTemp
        <3>1. updt' = updt
            BY <1>4, <2>2 DEF Complete, RemoveDraft, LinkDraft, Dequeue, SyncTags, LinkThread, Truncate,
                              WriteThread, IndexThread, Quit, Rest
        <3> QED BY <1>2, <3>1
    <2> QED BY <2>1, <2>2
<1>5. CASE Reader
    <2>1. updt' = updt
        BY <1>5 DEF Reader, Receive, Confirm, ReadAck, StoreSent, Quit
    <2> QED BY <1>2, <2>1
<1>6. CASE \E d \in Drafts : User(d)
    <2>1. updt' = updt
        BY <1>6 DEF User, SaveDraft, DiscardDraft, SendDraft, DraftRequest, Quit
    <2> QED BY <1>2, <2>1
<1>7. CASE Touch
    <2>1. CASE \E act \in Acts, x \in Ids \cup Drafts : BeginUpdate(act, x)
        <3>1. PICK act \in Acts, x \in Ids \cup Drafts : updt' = [act |-> act, id |-> x, at |-> "call"]
            BY <2>1 DEF BeginUpdate
        <3> QED BY <3>1 DEF UpdateOK
    <2>2. CASE \E act \in Acts, x \in Ids \cup Drafts : ReplicaTouch(act, x)
        <3>1. updt' = updt
            BY <2>2 DEF ReplicaTouch
        <3> QED BY <1>2, <3>1
    <2>3. CASE CallTouch
        <3>1. updt # None /\ \/ updt' = updt \/ updt' = [updt EXCEPT !.at = "wait"]
                             \/ updt' = [updt EXCEPT !.at = "none"] \/ updt' = [updt EXCEPT !.at = "log"]
            BY <2>3 DEF CallTouch, Quit
        <3> QED BY <1>1, <1>2, <3>1
    <2>4. CASE LogUpdate
        <3>1. updt # None /\ updt' = [updt EXCEPT !.at = "end"]
            BY <2>4 DEF LogUpdate
        <3> QED BY <1>1, <3>1
    <2>5. CASE EndUpdate
        <3>1. updt' = None
            BY <2>5 DEF EndUpdate
        <3> QED BY <1>2, <3>1
    <2> QED BY <1>7, <2>1, <2>2, <2>3, <2>4, <2>5 DEF Touch
<1>8. CASE Crash
    <2>1. updt' = None \/ (updt # None /\ updt' = [updt EXCEPT !.at = "call"])
        BY <1>8 DEF Crash
    <2> QED BY <1>1, <1>2, <2>1
<1>9. CASE Recovery
    <2>1. updt' = updt
        BY <1>9 DEF Recovery, Resume, Recovered, Restart
    <2> QED BY <1>2, <2>1
<1>10. CASE Server
    <2>1. updt' = updt
        BY <1>10 DEF Server, Post, Accept, LoseAck, ClientSame
    <2> QED BY <1>2, <2>1
<1> QED BY <1>3, <1>4, <1>5, <1>6, <1>7, <1>8, <1>9, <1>10 DEF Next

LEMMA InvNext ==
    ASSUME UpdateCrash = FALSE, ReplyCrash = FALSE, LateAcks = FALSE, TwoClients = FALSE, IInv, UpdateOK, [Next]_vars
    PROVE  IInv'
<1>1. CASE UNCHANGED vars
    BY <1>1, StutterStep
<1>2. CASE Complete
    BY <1>2, RemoveDraftStep, LinkDraftStep, DequeueStep, SyncTagsStep, LinkThreadStep, TruncateStep,
       WriteThreadStep, IndexThreadStep, DropTempStep DEF Complete
<1>3. CASE Reader
    <2>1. ASSUME NEW m \in Ids, Receive(m) PROVE IInv'
        BY <2>1, ReceiveStep
    <2>2. ASSUME NEW m \in Ids, NEW right \in BOOLEAN, Confirm(m, right) PROVE IInv'
        BY <2>2, ConfirmStep
    <2>3. ASSUME NEW d \in Drafts, NEW m \in Ids, ReadAck(d, m) PROVE IInv'
        BY <2>3, ReadAckStep
    <2>4. CASE StoreSent
        BY <2>4, StoreSentStep
    <2> QED BY <1>3, <2>1, <2>2, <2>3, <2>4 DEF Reader
<1>4. ASSUME NEW d \in Drafts, User(d) PROVE IInv'
    BY <1>4, SaveDraftStep, DiscardDraftStep, SendDraftStep DEF User
<1>5. CASE Touch
    <2>1. ASSUME NEW act \in Acts, NEW x \in Ids \cup Drafts, ReplicaTouch(act, x) PROVE IInv'
        BY <2>1, ReplicaTouchStep
    <2>2. ASSUME NEW act \in Acts, NEW x \in Ids \cup Drafts, BeginUpdate(act, x) PROVE IInv'
        BY <2>2, UpdateStep
    <2>3. CASE CallTouch
        <3>1. updt.act \in Acts
            BY <2>3 DEF CallTouch, UpdateOK
        <3> QED BY <2>3, <3>1, CallTouchStep
    <2>4. CASE LogUpdate \/ EndUpdate
        BY <2>4, UpdateStep
    <2> QED BY <1>5, <2>1, <2>2, <2>3, <2>4 DEF Touch
<1>6. CASE Crash
    BY <1>6, CrashStep
<1>7. CASE Recovery
    BY <1>7, ResumeStep, RecoveredStep, RestartStep DEF Recovery
<1>8. CASE Server
    BY <1>8, PostStep, AcceptStep, LoseAckStep DEF Server
<1> QED BY <1>1, <1>2, <1>3, <1>4, <1>5, <1>6, <1>7, <1>8 DEF Next

\* The invariant of the thread store, for a service whose crashes come between two
\* updates of seen marks and tags (UpdateCrash) and not in the storing of a sent reply
\* (ReplyCrash), a server that orders its acks (LateAcks) and one client at a time for
\* each draft (TwoClients).
LEMMA StoreInv ==
    ASSUME UpdateCrash = FALSE, ReplyCrash = FALSE, LateAcks = FALSE, TwoClients = FALSE
    PROVE  Spec => [](IInv /\ UpdateOK)
<1>1. Init => IInv /\ UpdateOK
    BY InvInit DEF Init, UpdateOK
<1>2. IInv /\ UpdateOK /\ [Next]_vars => (IInv /\ UpdateOK)'
    BY InvNext, UpdateKept
<1> QED BY <1>1, <1>2, PTL DEF Spec

\* The index of the thread, in whatever state it is, is sound.
LEMMA IndexSound ==
    ASSUME IInv
    PROVE  Index = <<>> \/ \E end : Sound(Index, end)
<1>1. CASE \E t \in Pending : t.new # <<>>
    <2>1. PICK t \in Pending : t.new # <<>>
        BY <1>1
    <2>2. Whole(t.new, t.pos) /\ Index = ReadIndex(t.new)
        BY <2>1, OneIndex DEF IInv, Places, TransOK
    <2> QED BY <2>2 DEF Whole
<1>2. CASE \A t \in Pending : t.new = <<>>
    <2>1. Index = Idx(file)
        BY <1>2, OneIndex DEF IInv
    <2>2. file = <<>> \/ Whole(file, 0)
        BY <1>2 DEF IInv, FileOK, FileAt
    <2> QED BY <2>1, <2>2 DEF Idx, Whole
<1> QED BY <1>1, <1>2

\* Whatever order the messages come in, and through crashes and recoveries, the
\* index of the thread has them in the order of their ids: an ack places a message
\* at the end of the index, a receipt before those with larger ids.  Here as in the
\* next two theorems no crash falls into the storing of a sent reply.
THEOREM MessagesStayInOrder ==
    ASSUME UpdateCrash = FALSE, ReplyCrash = FALSE, LateAcks = FALSE, TwoClients = FALSE
    PROVE  Spec => []MessagesInOrder
<1>1. IInv => MessagesInOrder
    <2> SUFFICES ASSUME IInv PROVE MessagesInOrder
        OBVIOUS
    <2>1. CASE Index = <<>>
        BY <2>1 DEF MessagesInOrder
    <2>2. CASE \E end : Sound(Index, end)
        BY <2>2 DEF MessagesInOrder, Sound
    <2> QED BY <2>1, <2>2, IndexSound
<1> QED BY <1>1, StoreInv, PTL

\* Between two transactions the drafts of replies are the same in the directory and
\* in the index, a queued draft has its file, and the draft of a thread is found by
\* a search exactly as long as it is there.
THEOREM DraftsStayInStep ==
    ASSUME UpdateCrash = FALSE, ReplyCrash = FALSE, LateAcks = FALSE, TwoClients = FALSE
    PROVE  Spec => []DraftsAgree
<1>1. IInv => DraftsAgree
    <2> SUFFICES ASSUME IInv, AtRest PROVE DraftsAgree
        BY DEF DraftsAgree
    <2>1. Pending = {}
        BY RestIs DEF AtRest, Up
    <2>2. \A d \in Drafts : /\ IF d = NewDraft THEN listed <=> d \in drafts
                               ELSE d \in drafts <=> d \in IdsOf(Index)
                            /\ d \in queued => d \in drafts
        BY <2>1 DEF IInv, DraftAt
    <2>3. NewDraft \in Drafts /\ Replies \subseteq Drafts /\ NewDraft \notin Replies /\ Drafts \cap Ids = {}
        BY KindAssumption DEF Drafts
    <2>4. queued \subseteq drafts
        BY <2>2 DEF IInv, Types
    <2>5. listed <=> NewDraft \in drafts
        BY <2>2, <2>3
    <2>6. {e.id : e \in {x \in Elements : ~Stored(x)}} = IdsOf(Index) \cap Replies
        <3>1. CASE Index = <<>>
            BY <3>1, NoIds DEF Elements
        <3>2. CASE \E end : Sound(Index, end)
            <4>1. /\ Index \in Seq(Entries)
                  /\ \A i \in 1..Len(Index) : Stored(Index[i]) <=> Index[i].id \in Ids
                BY <3>2 DEF Sound
            <4>2. \A i \in 1..Len(Index) : Index[i].id \in Ids \cup Drafts
                BY <4>1, EntryFields
            <4>3. NewDraft \notin IdsOf(Index)
                BY DEF IInv, GotOK
            <4>4. DOMAIN Index = 1..Len(Index)
                BY <4>1
            <4> QED BY <2>3, <4>1, <4>2, <4>3, <4>4 DEF Elements, IdsOf, Drafts
        <3> QED BY <3>1, <3>2, IndexSound
    <2>7. drafts \cap Replies = IdsOf(Index) \cap Replies
        BY <2>2, <2>3
    <2> QED BY <2>4, <2>5, <2>6, <2>7 DEF DraftsAgree
<1> QED BY <1>1, StoreInv, PTL

\* Between two transactions the search document of the thread is the summary of its
\* index, or there is no thread and no document.
THEOREM SearchStaysInStep ==
    ASSUME UpdateCrash = FALSE, ReplyCrash = FALSE, LateAcks = FALSE, TwoClients = FALSE
    PROVE  Spec => []SearchAgrees
<1>1. IInv => SearchAgrees
    <2> SUFFICES ASSUME IInv, AtRest PROVE SearchAgrees
        BY DEF SearchAgrees
    <2>1. Pending = {}
        BY RestIs DEF AtRest, Up
    <2> QED BY <2>1 DEF IInv, DocOK, SearchAgrees
<1> QED BY <1>1, StoreInv, PTL
=============================================================================
