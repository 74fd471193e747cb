--------------------------- MODULE ThreadLogProofs ---------------------------
(***************************************************************************)
(* Theorems about what the thread store holds: where the bodies are in the *)
(* file, which marks the entries carry, and that both are what ThreadLog   *)
(* promises.                                                               *)
(*                                                                         *)
(* The invariant IInv of ThreadStoreProofs says which messages and drafts  *)
(* the index has; Tidy adds where they are and what is said of them.  The  *)
(* order of the entries does not matter for that, so an index is taken as  *)
(* the set of its entries.  A step of the store has an Effect on this set: *)
(* none, or that of the one transaction that it commits.  The theorems     *)
(* follow from the effects, whatever file the step wrote.                  *)
(***************************************************************************)
EXTENDS ThreadStoreProofs

\* The entries of an index, whatever their order.
ElemsOf(idx) == {idx[i] : i \in 1..Len(idx)}

\* Where a message is in the file.
Spot(e) == [id |-> e.id, off |-> e.off, size |-> e.size]
Spots(E) == {Spot(e) : e \in {x \in E : Stored(x)}}

\* The bodies at S fill the first end cells of f, in the order of their ids.
Laid(S, f, end) ==
    /\ \A x \in S : /\ x.off \in Nat /\ x.size \in Nat \ {0} /\ x.off + x.size <= end
                   /\ x.size = Size[x.id]
    /\ \A x, y \in S : x.id < y.id => x.off + x.size <= y.off
    /\ \A c \in 1..end : \E x \in S : x.off < c /\ c <= x.off + x.size /\ f[c] = <<"body", x.id>>

\* The bodies in the file once t is complete.
After(t) == [c \in 1..(t.pos + IndexPos(t.new)) |-> IF c <= t.pos THEN file[c] ELSE t.new[c - t.pos]]

\* The bodies are in the places that the index gives, or will be.
LaidOK ==
    /\ \A t \in Pending : t.new # <<>> =>
          Laid(Spots(ElemsOf(ReadIndex(t.new))), After(t), t.pos + IndexPos(t.new))
    /\ Pending = {} /\ file # <<>> => Laid(Spots(ElemsOf(ReadIndex(file))), file, IndexPos(file))

\* Seen marks: one that was made here is on the log for the other replicas, or the
\* update that made it is still under way.  A draft has none.
Logging(x) == updt # None /\ updt.act = "see" /\ updt.id = x /\ updt.at \in {"wait", "log"}
SeenOK ==
    /\ \A e \in ElemsOf(Index) : /\ ~Stored(e) => e.seen = "local"
                                 /\ e.seen = "here" => <<"see", e.id>> \in synced \/ Logging(e.id)
    /\ updt # None /\ updt.act = "see" => updt.id \in Ids

\* The door of the thread has its id once the thread has a file, or will have it.
DoorOK == renamed => file # <<>> \/ \E t \in Pending : t.new # <<>>

\* The rest of the types, and no step that ended the process.
OthersOK ==
    /\ doc # None => doc \in [count: Nat, unread: BOOLEAN, tagged: BOOLEAN]
    /\ synced \subseteq Acts \X Ids /\ renamed \in BOOLEAN /\ shown \subseteq Drafts
    /\ crashes \in 0..MaxCrash /\ mode # "quit"

Tidy == LaidOK /\ SeenOK /\ DoorOK /\ OthersOK

-----------------------------------------------------------------------------
(* The entries of an index.                                                *)

\* What the operations on sequences do to the set of entries.
LEMMA ElemsAppend ==
    ASSUME NEW s \in Seq(Entries), NEW e \in Entries
    PROVE  ElemsOf(Append(s, e)) = ElemsOf(s) \cup {e}
<1>1. PICK n \in Nat, a \in {Append(s, e)} : n = Len(s) /\ a = Append(s, e)
    OBVIOUS
<1>2. Len(a) = n + 1 /\ a[n + 1] = e /\ \A i \in 1..n : a[i] = s[i]
    BY <1>1, AppendProperties
<1>3. \A i \in 1..n + 1 : i = n + 1 \/ i \in 1..n
    BY <1>1
<1>4. \A i \in 1..n : i \in 1..n + 1
    BY <1>1
<1>5. n + 1 \in 1..n + 1
    BY <1>1
<1> QED BY <1>1, <1>2, <1>3, <1>4, <1>5 DEF ElemsOf

LEMMA ElemsOne ==
    ASSUME NEW e \in Entries
    PROVE  ElemsOf(<<e>>) = {e}
<1>1. Len(<<e>>) = 1 /\ <<e>>[1] = e /\ 1..1 = {1}
    OBVIOUS
<1> QED BY <1>1 DEF ElemsOf

LEMMA ElemsNone == ElemsOf(<<>>) = {}
<1>1. Len(<<>>) = 0 /\ 1..0 = {}
    OBVIOUS
<1> QED BY <1>1 DEF ElemsOf

\* No two entries are the same, when they have ids of their own.
LEMMA ElemsRemove ==
    ASSUME NEW s \in Seq(Entries), NEW p \in 1..Len(s),
           \A i, j \in 1..Len(s) : i # j => s[i].id # s[j].id
    PROVE  ElemsOf(RemoveAt(s, p)) = ElemsOf(s) \ {s[p]}
<1>1. PICK n, r : n \in Nat /\ n = Len(s) /\ r = RemoveAt(s, p)
    OBVIOUS
<1>2. p \in 1..n /\ Len(r) = n - 1 /\ \A i \in 1..(n - 1) : r[i] = IF i < p THEN s[i] ELSE s[i + 1]
    BY <1>1, RemoveIs
<1> DEFINE at(i) == IF i < p THEN i ELSE i + 1
<1>3. \A i \in 1..(n - 1) : at(i) \in 1..n /\ at(i) # p /\ r[i] = s[at(i)]
    BY <1>1, <1>2
<1>4. \A j \in 1..n : j # p => \E i \in 1..(n - 1) : at(i) = j
    <2> TAKE j \in 1..n
    <2> HAVE j # p
    <2>1. CASE j < p
        <3>1. j \in 1..(n - 1) /\ at(j) = j
            BY <1>1, <1>2, <2>1
        <3> QED BY <3>1
    <2>2. CASE j > p
        <3>1. j - 1 \in 1..(n - 1) /\ at(j - 1) = j
            BY <1>1, <1>2, <2>2
        <3> QED BY <3>1
    <2> QED BY <1>1, <1>2, <2>1, <2>2
<1> HIDE DEF at
<1>5. \A i \in 1..n : s[i] = s[p] => i = p
    BY <1>1, <1>2
<1>6. ASSUME NEW x \in ElemsOf(r) PROVE x \in ElemsOf(s) \ {s[p]}
    <2>1. PICK i \in 1..(n - 1) : x = r[i]
        BY <1>2 DEF ElemsOf
    <2> QED BY <1>1, <1>3, <1>5, <2>1 DEF ElemsOf
<1>7. ASSUME NEW x \in ElemsOf(s) \ {s[p]} PROVE x \in ElemsOf(r)
    <2>1. PICK j \in 1..n : x = s[j]
        BY <1>1 DEF ElemsOf
    <2>2. j # p
        BY <1>7, <2>1
    <2>3. PICK i \in 1..(n - 1) : at(i) = j
        BY <1>4, <2>2
    <2> QED BY <1>2, <1>3, <2>1, <2>3 DEF ElemsOf
<1> QED BY <1>1, <1>6, <1>7

LEMMA ElemsExcept ==
    ASSUME NEW s \in Seq(Entries), NEW p \in 1..Len(s), NEW e \in Entries,
           \A i, j \in 1..Len(s) : i # j => s[i].id # s[j].id
    PROVE  ElemsOf([s EXCEPT ![p] = e]) = (ElemsOf(s) \ {s[p]}) \cup {e}
<1>1. PICK n \in Nat, r \in {[s EXCEPT ![p] = e]} : n = Len(s) /\ r = [s EXCEPT ![p] = e]
    OBVIOUS
<1>2. p \in 1..n /\ Len(r) = n /\ \A i \in 1..n : r[i] = IF i = p THEN e ELSE s[i]
    BY <1>1, ExceptSeq
<1>3. \A i \in 1..n : i # p => s[i] # s[p]
    BY <1>1, <1>2
<1>4. ElemsOf(r) = {r[i] : i \in 1..n} /\ ElemsOf(s) = {s[i] : i \in 1..n}
    BY <1>1, <1>2 DEF ElemsOf
<1>5. ASSUME NEW x \in ElemsOf(r) PROVE x \in (ElemsOf(s) \ {s[p]}) \cup {e}
    BY <1>2, <1>3, <1>4
<1>6. ASSUME NEW x \in (ElemsOf(s) \ {s[p]}) \cup {e} PROVE x \in ElemsOf(r)
    <2>1. CASE x = e
        BY <1>2, <1>4, <2>1
    <2>2. CASE x # e
        <3>1. PICK i \in 1..n : x = s[i] /\ i # p
            BY <1>4, <1>6, <2>2
        <3> QED BY <1>2, <1>4, <3>1
    <2> QED BY <2>1, <2>2
<1> QED BY <1>1, <1>5, <1>6

\* What an inserted message e does to an entry that was there.
Shifted(x, e) == IF Stored(x) /\ x.id >= e.id THEN [x EXCEPT !.off = @ + e.size] ELSE x

\* The place o of e: that of the first message with a larger id, or the end.
Gap(E, e, pos, o) ==
    \/ o = pos /\ \A x \in E : ~(Stored(x) /\ x.id >= e.id)
    \/ \E x \in E : /\ Stored(x) /\ x.id >= e.id /\ x.off = o
                    /\ \A y \in E : Stored(y) /\ y.id >= e.id => x.id <= y.id

LEMMA ElemsInsert ==
    ASSUME NEW idx, NEW pos \in Nat, Sound(idx, pos), NEW e \in Entries,
           e.id \in Ids, e.id \notin IdsOf(idx),
           NEW r, r = Insert(idx, pos, e), NEW o, o = r[Place(r, e.id)].off
    PROVE  /\ ElemsOf(r) = {Shifted(x, e) : x \in ElemsOf(idx)} \cup {[e EXCEPT !.off = o]}
           /\ Gap(ElemsOf(idx), e, pos, o)
<1> DEFINE Follows(x) == Stored(x) /\ x.id >= e.id
           I == {i \in 1..Len(idx) : Follows(idx[i])}
           at == IF \E i \in DOMAIN idx : Follows(idx[i])
                 THEN SelectInSeq(idx, Follows) ELSE Len(idx) + 1
           moved == [i \in DOMAIN idx |->
                        IF i >= at /\ Follows(idx[i])
                        THEN [idx[i] EXCEPT !.off = @ + e.size] ELSE idx[i]]
           off == IF at <= Len(idx) THEN idx[at].off ELSE pos
           el == [e EXCEPT !.off = off]
<1>1. idx \in Seq(Entries)
    BY DEF Sound
<1>2. PICK k \in Nat : k = Len(idx)
    BY <1>1
<1>3. DOMAIN idx = 1..k /\ \A i \in 1..k : idx[i] \in Entries
    BY <1>1, <1>2
<1>4. r = InsertAt(moved, at, el)
    BY DEF Insert
<1>5. PICK p : p = at
    OBVIOUS
<1>6. /\ p \in 1..k + 1
      /\ p <= k => Follows(idx[p])
      /\ \A i \in 1..k : i < p => ~Follows(idx[i])
    <2>1. SelectInSeq(idx, Follows) = IF I # {} THEN Min(I) ELSE 0
        BY DEF SelectInSeq
    <2>2. CASE I = {}
        <3>1. p = k + 1 /\ \A i \in 1..k : ~Follows(idx[i])
            BY <1>2, <1>3, <1>5, <2>2
        <3> QED BY <1>2, <3>1
    <2>3. CASE I # {}
        <3>1. p = Min(I)
            BY <1>2, <1>3, <1>5, <2>1, <2>3
        <3>2. I \in SUBSET Nat
            OBVIOUS
        <3>3. p \in I /\ \A i \in I : p <= i
            <4> HIDE DEF I
            <4> QED BY <2>3, <3>1, <3>2, LeastChosen
        <3>4. p \in 1..k /\ Follows(idx[p])
            BY <1>2, <3>3
        <3>5. ASSUME NEW i \in 1..k, i < p PROVE ~Follows(idx[i])
            <4> SUFFICES ASSUME Follows(idx[i]) PROVE FALSE
                OBVIOUS
            <4>1. i \in I
                BY <1>2
            <4>2. p <= i /\ p \in Nat
                BY <3>3, <3>4, <4>1
            <4> QED BY <3>5, <4>2
        <3> QED BY <1>2, <3>4, <3>5
    <2> QED BY <2>2, <2>3
<1>7. PICK v : v = off
    OBVIOUS
<1>8. v = IF p <= k THEN idx[p].off ELSE pos
    BY <1>2, <1>5, <1>7
<1>9. v \in Int /\ e.size \in Nat
    <2>1. p <= k => p \in 1..k
        BY <1>2, <1>6
    <2>2. p <= k => idx[p].off \in Int
        BY <1>3, <2>1, EntryFields
    <2> QED BY <1>8, <2>2, EntryFields
<1>10. PICK m : m = moved
    OBVIOUS
<1>11. /\ m \in Seq(Entries) /\ Len(m) = k
       /\ \A i \in 1..k : m[i] = Shifted(idx[i], e) /\ m[i].id = idx[i].id
    <2>1. m = [i \in 1..k |-> IF i >= at /\ Follows(idx[i])
                              THEN [idx[i] EXCEPT !.off = @ + e.size] ELSE idx[i]]
        BY <1>3, <1>10
    <2>2. ASSUME NEW i \in 1..k PROVE m[i] = Shifted(idx[i], e)
        <3>1. i < p \/ i >= p
            BY <1>2, <1>6
        <3>2. m[i] = IF i >= p /\ Follows(idx[i]) THEN [idx[i] EXCEPT !.off = @ + e.size] ELSE idx[i]
            <4> HIDE DEF at
            <4> QED BY <1>5, <2>1
        <3> QED BY <1>6, <3>1, <3>2 DEF Shifted
    <2>3. ASSUME NEW i \in 1..k PROVE Shifted(idx[i], e) \in Entries /\ Shifted(idx[i], e).id = idx[i].id
        <3>1. PICK x : x = idx[i]
            OBVIOUS
        <3>2. PICK n \in Int : n = x.off + e.size
            BY <1>3, <1>9, <3>1, EntryFields
        <3>3. PICK y : y = [x EXCEPT !.off = n]
            OBVIOUS
        <3>4. y \in Entries /\ y.id = x.id
            BY <1>3, <3>1, <3>3 DEF Entries
        <3> QED BY <1>3, <3>1, <3>2, <3>3, <3>4 DEF Shifted
    <2>4. m \in [1..k -> Entries]
        <3>1. DOMAIN m = 1..k /\ m = [i \in 1..k |-> m[i]]
            BY <2>1
        <3> QED BY <2>2, <2>3, <3>1
    <2>5. m \in Seq(Entries) /\ Len(m) = k
        BY <1>2, <2>4, SeqDef
    <2> QED BY <2>2, <2>3, <2>5
<1>12. PICK d : d = el
    OBVIOUS
<1>13. d \in Entries /\ d.id = e.id /\ d.off = v /\ d = [e EXCEPT !.off = v]
    <2>1. d = [e EXCEPT !.off = v]
        BY <1>7, <1>12
    <2> HIDE DEF el, off
    <2> QED BY <1>9, <2>1 DEF Entries
<1>14. r = InsertAt(m, p, d)
    BY <1>4, <1>5, <1>10, <1>12
<1> HIDE DEF at, moved, off, el
<1>15. /\ r \in Seq(Entries) /\ Len(r) = k + 1
       /\ \A i \in 1..k + 1 : i < p => r[i] = m[i]
       /\ r[p] = d
       /\ \A i \in 1..k + 1 : i > p => r[i] = m[i - 1]
    <2>1. m \in Seq(Entries) /\ k = Len(m) /\ d \in Entries /\ p \in 1..(k + 1)
        BY <1>6, <1>11, <1>13
    <2>2. Inserted(InsertAt(m, p, d), m, k, p, d)
        BY <2>1, InsertIs
    <2> QED BY <1>14, <2>2 DEF Inserted
<1>16. ElemsOf(r) = {Shifted(x, e) : x \in ElemsOf(idx)} \cup {d}
    <2>1. ASSUME NEW x \in ElemsOf(r) PROVE x \in {Shifted(y, e) : y \in ElemsOf(idx)} \cup {d}
        <3>1. PICK j \in 1..k + 1 : x = r[j]
            BY <1>15, <2>1 DEF ElemsOf
        <3>2. j = p \/ (j < p /\ j \in 1..k) \/ (j > p /\ j - 1 \in 1..k)
            BY <1>2, <1>6
        <3>3. j = p \/ \E i \in 1..k : x = m[i]
            BY <1>15, <3>1, <3>2
        <3> QED BY <1>2, <1>11, <1>15, <3>1, <3>3 DEF ElemsOf
    <2>2. ASSUME NEW i \in 1..k PROVE Shifted(idx[i], e) \in ElemsOf(r)
        <3>1. (i < p /\ i \in 1..k + 1) \/ (i + 1 > p /\ i + 1 \in 1..k + 1 /\ (i + 1) - 1 = i)
            BY <1>2, <1>6
        <3>2. \E j \in 1..k + 1 : r[j] = m[i]
            BY <1>15, <3>1
        <3> QED BY <1>11, <1>15, <3>2 DEF ElemsOf
    <2>3. d \in ElemsOf(r)
        BY <1>6, <1>15 DEF ElemsOf
    <2>4. ASSUME NEW y \in ElemsOf(idx) PROVE Shifted(y, e) \in ElemsOf(r)
        <3>1. PICK i \in 1..k : y = idx[i]
            BY <1>2 DEF ElemsOf
        <3> QED BY <2>2, <3>1
    <2>5. {Shifted(y, e) : y \in ElemsOf(idx)} \cup {d} \subseteq ElemsOf(r)
        BY <2>3, <2>4
    <2> QED BY <2>1, <2>5
<1>17. o = v
    <2>1. \A i \in 1..k : idx[i].id # e.id
        BY <1>2 DEF IdsOf
    <2>2. \A j \in 1..k + 1 : r[j].id = e.id => j = p
        <3> TAKE j \in 1..k + 1
        <3>1. j = p \/ (j < p /\ j \in 1..k) \/ (j > p /\ j - 1 \in 1..k)
            BY <1>2, <1>6
        <3>2. j = p \/ \E i \in 1..k : r[j] = m[i]
            BY <1>15, <3>1
        <3> QED BY <1>11, <2>1, <3>2
    <2>3. e.id \in IdsOf(r)
        BY <1>6, <1>13, <1>15 DEF IdsOf
    <2>4. Place(r, e.id) \in 1..k + 1 /\ r[Place(r, e.id)].id = e.id
        BY <1>15, <2>3, PlaceIs
    <2> QED BY <1>13, <1>15, <2>2, <2>4
<1>18. Gap(ElemsOf(idx), e, pos, v)
    <2>1. CASE p <= k
        <3>1. p \in 1..k /\ Follows(idx[p]) /\ v = idx[p].off
            BY <1>2, <1>6, <1>8, <2>1
        <3>2. ASSUME NEW i \in 1..k, Follows(idx[i]) PROVE idx[p].id <= idx[i].id
            <4>1. i = p \/ p < i
                BY <1>2, <1>6, <3>1, <3>2
            <4>2. idx[p].id \in Nat
                <5>1. idx[p].id \in Ids
                    BY <1>2, <3>1 DEF Sound
                <5> QED BY <5>1, IdAssumption DEF Ids
            <4>3. idx[i].id \in Nat
                <5>1. idx[i].id \in Ids
                    BY <1>2, <3>2 DEF Sound
                <5> QED BY <5>1, IdAssumption DEF Ids
            <4>4. p < i => idx[p].id < idx[i].id
                BY <1>2, <3>1, <3>2 DEF Sound
            <4> QED BY <4>1, <4>2, <4>3, <4>4
        <3> QED BY <1>2, <3>1, <3>2 DEF Gap, ElemsOf
    <2>2. CASE ~(p <= k)
        <3>1. \A i \in 1..k : ~Follows(idx[i])
            BY <1>2, <1>6, <2>2
        <3> QED BY <1>2, <1>8, <2>2, <3>1 DEF Gap, ElemsOf
    <2> QED BY <2>1, <2>2
<1> QED BY <1>13, <1>16, <1>17, <1>18

-----------------------------------------------------------------------------
(* Where the bodies are.                                                   *)

LEMMA LargestChosen ==
    ASSUME NEW n \in Nat, NEW S \in SUBSET (1..n), S # {}
    PROVE  Max(S) \in S /\ \A k \in S : Max(S) >= k
<1> DEFINE R == {n - k : k \in S}
<1>1. R \in SUBSET Nat /\ R # {}
    <2>1. \A k \in S : k \in 1..n /\ n - k \in Nat
        OBVIOUS
    <2>2. PICK k : k \in S
        OBVIOUS
    <2> QED BY <2>1, <2>2
<1>2. PICK m \in R : \A k \in R : m <= k
    <2> HIDE DEF R
    <2> QED BY <1>1, LeastIs
<1>3. PICK x \in S : m = n - x
    OBVIOUS
<1>4. \A k \in S : x >= k
    <2> TAKE k \in S
    <2>1. n - x <= n - k
        BY <1>2, <1>3
    <2> QED BY <2>1
<1> QED BY <1>4 DEF Max

\* The messages of an index that is laid out as E, by their positions.
LEMMA LaidAt ==
    ASSUME NEW idx, NEW end \in Nat, NEW f, Sound(idx, end), Laid(Spots(ElemsOf(idx)), f, end)
    PROVE  /\ \A i \in 1..Len(idx) : Stored(idx[i]) =>
                 /\ idx[i].off \in Nat /\ idx[i].size \in Nat \ {0} /\ idx[i].off + idx[i].size <= end
                 /\ idx[i].id \in Nat /\ idx[i].size = Size[idx[i].id]
           /\ \A i, j \in 1..Len(idx) : i < j /\ Stored(idx[i]) /\ Stored(idx[j]) =>
                 idx[i].off + idx[i].size <= idx[j].off
           /\ \A c \in 1..end : \E i \in 1..Len(idx) :
                 /\ Stored(idx[i]) /\ idx[i].off < c /\ c <= idx[i].off + idx[i].size
                 /\ f[c] = <<"body", idx[i].id>>
<1> DEFINE S == Spots(ElemsOf(idx))
<1>1. \A i \in 1..Len(idx) : Stored(idx[i]) => Spot(idx[i]) \in S
    BY DEF Spots, ElemsOf
<1>2. \A x \in S : \E i \in 1..Len(idx) : Stored(idx[i]) /\ x = Spot(idx[i])
    BY DEF Spots, ElemsOf
<1>3. \A e : Spot(e).id = e.id /\ Spot(e).off = e.off /\ Spot(e).size = e.size
    BY DEF Spot
<1>4. Ids \subseteq Nat
    BY IdAssumption DEF Ids
<1>5. \A i \in 1..Len(idx) : Stored(idx[i]) => idx[i].id \in Nat
    BY <1>4 DEF Sound
<1> HIDE DEF S
<1>6. /\ \A x \in S : /\ x.off \in Nat /\ x.size \in Nat \ {0} /\ x.off + x.size <= end
                     /\ x.size = Size[x.id]
      /\ \A x, y \in S : x.id < y.id => x.off + x.size <= y.off
      /\ \A c \in 1..end : \E x \in S : x.off < c /\ c <= x.off + x.size /\ f[c] = <<"body", x.id>>
    BY DEF Laid, S
<1>7. ASSUME NEW i \in 1..Len(idx), Stored(idx[i])
      PROVE  /\ idx[i].off \in Nat /\ idx[i].size \in Nat \ {0} /\ idx[i].off + idx[i].size <= end
             /\ idx[i].size = Size[idx[i].id]
    BY <1>1, <1>3, <1>6, <1>7
<1>8. ASSUME NEW i \in 1..Len(idx), NEW j \in 1..Len(idx), i < j, Stored(idx[i]), Stored(idx[j])
      PROVE  idx[i].off + idx[i].size <= idx[j].off
    <2>1. idx[i].id < idx[j].id
        BY <1>8 DEF Sound
    <2> QED BY <1>1, <1>3, <1>6, <1>8, <2>1
<1>9. ASSUME NEW c \in 1..end
      PROVE  \E i \in 1..Len(idx) : /\ Stored(idx[i]) /\ idx[i].off < c /\ c <= idx[i].off + idx[i].size
                                    /\ f[c] = <<"body", idx[i].id>>
    <2>1. PICK x \in S : x.off < c /\ c <= x.off + x.size /\ f[c] = <<"body", x.id>>
        BY <1>6
    <2>2. PICK i \in 1..Len(idx) : Stored(idx[i]) /\ x = Spot(idx[i])
        BY <1>2
    <2> QED BY <1>3, <2>1, <2>2
<1> QED BY <1>5, <1>7, <1>8, <1>9

\* Each message begins where the one before it ends.
LEMMA LaidContiguous ==
    ASSUME NEW idx, NEW end \in Nat, NEW f, Sound(idx, end), Laid(Spots(ElemsOf(idx)), f, end)
    PROVE  Contiguous(idx)
<1> DEFINE off(i) == idx[i].off
           size(i) == idx[i].size
           st(i) == Stored(idx[i])
<1>1. PICK n \in Nat : n = Len(idx)
    BY DEF Sound
<1>2. DOMAIN idx = 1..n
    BY <1>1 DEF Sound
<1>3. /\ \A i \in 1..n : st(i) => off(i) \in Nat /\ size(i) \in Nat \ {0} /\ off(i) + size(i) <= end
      /\ \A i, j \in 1..n : i < j /\ st(i) /\ st(j) => off(i) + size(i) <= off(j)
      /\ \A c \in 1..end : \E i \in 1..n : st(i) /\ off(i) < c /\ c <= off(i) + size(i)
    BY <1>1, LaidAt
<1> HIDE DEF off, size, st
<1>4. ASSUME NEW i \in 1..n, st(i), NEW B, B = {j \in 1..i - 1 : st(j)}
      PROVE  IF B = {} THEN off(i) = 0 ELSE off(i) = off(Max(B)) + size(Max(B))
    <2>1. off(i) \in Nat /\ size(i) \in Nat \ {0} /\ off(i) <= end
        BY <1>3, <1>4
    \* What covers the cell before the message is one of those before it.
    <2>2. ASSUME off(i) # 0
          PROVE  \E j \in B : off(j) < off(i) /\ off(i) <= off(j) + size(j)
        <3>1. off(i) \in 1..end
            BY <2>1, <2>2
        <3>2. PICK j \in 1..n : st(j) /\ off(j) < off(i) /\ off(i) <= off(j) + size(j)
            BY <1>3, <3>1
        <3>3. off(j) \in Nat
            BY <1>3, <3>2
        <3>4. j # i
            BY <2>1, <3>2
        <3>5. ~(i < j)
            <4> SUFFICES ASSUME i < j PROVE FALSE
                OBVIOUS
            <4>1. off(i) + size(i) <= off(j)
                BY <1>3, <1>4, <3>2
            <4> QED BY <2>1, <3>2, <3>3, <4>1
        <3>6. j \in B
            BY <1>4, <3>2, <3>4, <3>5
        <3> QED BY <3>2, <3>6
    <2>3. CASE B = {}
        BY <2>2, <2>3
    <2>4. CASE B # {}
        <3>1. B \in SUBSET (1..n)
            BY <1>4
        <3>2. PICK p : p = Max(B)
            OBVIOUS
        <3>3. p \in B /\ \A j \in B : p >= j
            BY <2>4, <3>1, <3>2, LargestChosen
        <3>4. p \in 1..n /\ st(p) /\ p < i
            BY <1>4, <3>3
        <3>5. off(p) \in Nat /\ size(p) \in Nat \ {0} /\ off(p) + size(p) <= off(i)
            BY <1>3, <1>4, <3>4
        <3>6. off(i) # 0
            BY <2>1, <3>5
        <3>7. PICK j \in B : off(j) < off(i) /\ off(i) <= off(j) + size(j)
            BY <2>2, <3>6
        <3>8. CASE j = p
            BY <2>1, <3>2, <3>5, <3>7, <3>8, <2>4
        <3>9. CASE j # p
            <4>1. j \in 1..n /\ st(j) /\ j < p
                BY <1>4, <3>3, <3>4, <3>7, <3>9
            <4>2. off(j) \in Nat /\ size(j) \in Nat /\ off(j) + size(j) <= off(p)
                BY <1>3, <3>4, <4>1
            <4> QED BY <2>1, <3>5, <3>7, <4>2
        <3> QED BY <3>8, <3>9
    <2> QED BY <2>3, <2>4
<1> QED BY <1>2, <1>4 DEF Contiguous, off, size, st

\* A message of size n with id m is put at o: those with larger ids move.
Moved(x, m, n) ==
    [id |-> x.id, off |-> IF x.id >= m THEN x.off + n ELSE x.off, size |-> x.size]
Opens(S, m, end, o) ==
    \/ o = end /\ \A x \in S : ~(x.id >= m)
    \/ \E x \in S : x.id >= m /\ x.off = o /\ \A y \in S : y.id >= m => x.id <= y.id

\* The cells g are those of f with the message at o.
Puts(S, f, end, m, n, o, g) ==
    /\ Laid(S, f, end) /\ Opens(S, m, end, o) /\ n = Size[m]
    /\ \A x \in S : x.id \in Nat /\ x.id # m
    /\ \A x, y \in S : x.id = y.id => x = y
    /\ \A c \in 1..end : c <= o => g[c] = f[c]
    /\ \A c \in 1..(end + n) : o < c /\ c <= o + n => g[c] = <<"body", m>>
    /\ \A c \in 1..(end + n) : o + n < c => g[c] = f[c - n]

\* The bodies from o on move by n cells, and m fills the gap.
LEMMA LaidInsert ==
    ASSUME NEW S, NEW f, NEW end \in Nat, NEW m \in Nat, NEW n \in Nat \ {0}, NEW o, NEW g,
           Puts(S, f, end, m, n, o, g)
    PROVE  /\ Laid({Moved(x, m, n) : x \in S} \cup {[id |-> m, off |-> o, size |-> n]}, g, end + n)
           /\ o \in Nat /\ o <= end
<1> DEFINE new == [id |-> m, off |-> o, size |-> n]
           T == {Moved(x, m, n) : x \in S} \cup {new}
<1> /\ Laid(S, f, end) /\ Opens(S, m, end, o) /\ n = Size[m]
    /\ \A x \in S : x.id \in Nat /\ x.id # m
    /\ \A x, y \in S : x.id = y.id => x = y
    /\ \A c \in 1..end : c <= o => g[c] = f[c]
    /\ \A c \in 1..(end + n) : o < c /\ c <= o + n => g[c] = <<"body", m>>
    /\ \A c \in 1..(end + n) : o + n < c => g[c] = f[c - n]
    BY DEF Puts
<1>1. \A x \in S : /\ x.off \in Nat /\ x.size \in Nat \ {0} /\ x.off + x.size <= end
                   /\ x.size = Size[x.id]
    BY DEF Laid
<1>2. \A x, y \in S : x.id < y.id => x.off + x.size <= y.off
    BY DEF Laid
<1>3. \A c \in 1..end : \E x \in S : x.off < c /\ c <= x.off + x.size /\ f[c] = <<"body", x.id>>
    BY DEF Laid
<1>4. /\ o \in Nat /\ o <= end
      /\ \A y \in S : y.id < m => y.off + y.size <= o
      /\ \A y \in S : y.id >= m => y.off >= o
    <2>1. CASE o = end /\ \A x \in S : ~(x.id >= m)
        BY <1>1, <2>1
    <2>2. CASE \E x \in S : x.id >= m /\ x.off = o /\ \A y \in S : y.id >= m => x.id <= y.id
        <3>1. PICK x \in S : x.id >= m /\ x.off = o /\ \A y \in S : y.id >= m => x.id <= y.id
            BY <2>2
        <3>2. o \in Nat /\ x.size \in Nat /\ o + x.size <= end /\ x.id \in Nat /\ x.id >= m
            BY <1>1, <3>1
        <3>3. ASSUME NEW y \in S, y.id < m PROVE y.off + y.size <= o
            <4>1. y.id < x.id
                BY <3>2, <3>3
            <4> QED BY <1>2, <3>1, <4>1
        <3>4. ASSUME NEW y \in S, y.id >= m PROVE y.off >= o
            <4>1. x.id = y.id \/ x.id < y.id
                BY <3>1, <3>2, <3>4
            <4>2. CASE x.id = y.id
                <5>1. y = x
                    BY <4>2
                <5> QED BY <3>1, <3>2, <5>1
            <4>3. CASE x.id < y.id
                <5>1. x.off + x.size <= y.off /\ y.off \in Nat
                    BY <1>1, <1>2, <4>3
                <5> QED BY <3>1, <3>2, <5>1
            <4> QED BY <4>1, <4>2, <4>3
        <3>5. o <= end
            BY <3>2
        <3> QED BY <3>2, <3>3, <3>4, <3>5
    <2> QED BY <2>1, <2>2 DEF Opens
<1>5. new.id = m /\ new.off = o /\ new.size = n
    OBVIOUS
<1>6. \A x \in S : /\ Moved(x, m, n).id = x.id /\ Moved(x, m, n).size = x.size
                   /\ x.id < m => Moved(x, m, n).off = x.off
                   /\ x.id >= m => Moved(x, m, n).off = x.off + n
    BY DEF Moved
<1>7. \A t \in T : t = new \/ \E x \in S : t = Moved(x, m, n)
    OBVIOUS
<1>8. new \in T /\ \A x \in S : Moved(x, m, n) \in T
    OBVIOUS
<1> HIDE DEF new, T
<1>9. \A x \in S : x.id < m \/ x.id >= m
    OBVIOUS
<1>10. ASSUME NEW t \in T PROVE t.off \in Nat /\ t.size \in Nat \ {0} /\ t.off + t.size <= end + n
    <2>1. CASE t = new
        BY <1>4, <1>5, <2>1
    <2>2. ASSUME NEW x \in S, t = Moved(x, m, n)
          PROVE  t.off \in Nat /\ t.size \in Nat \ {0} /\ t.off + t.size <= end + n
        <3>1. x.off \in Nat /\ x.size \in Nat \ {0} /\ x.off + x.size <= end
            BY <1>1
        <3>2. t.size = x.size /\ (t.off = x.off \/ t.off = x.off + n)
            BY <1>6, <1>9, <2>2
        <3> QED BY <3>1, <3>2
    <2> QED BY <1>7, <2>1, <2>2
<1>11. ASSUME NEW t \in T, NEW u \in T, t.id < u.id PROVE t.off + t.size <= u.off
    <2>1. CASE t = new /\ u = new
        BY <1>5, <1>11, <2>1
    <2>2. ASSUME NEW x \in S, t = Moved(x, m, n), u = new PROVE t.off + t.size <= u.off
        <3>1. t.id = x.id /\ t.size = x.size /\ x.id < m /\ t.off = x.off
            BY <1>5, <1>6, <1>11, <2>2
        <3> QED BY <1>4, <1>5, <2>2, <3>1
    <2>3. ASSUME NEW y \in S, u = Moved(y, m, n), t = new PROVE t.off + t.size <= u.off
        <3>1. m < y.id /\ y.id \in Nat
            BY <1>5, <1>6, <1>11, <2>3
        <3>2. y.id >= m
            BY <3>1
        <3>3. u.off = y.off + n /\ y.off >= o /\ y.off \in Nat
            BY <1>1, <1>4, <1>6, <2>3, <3>2
        <3> QED BY <1>4, <1>5, <2>3, <3>3
    <2>4. ASSUME NEW x \in S, t = Moved(x, m, n), NEW y \in S, u = Moved(y, m, n)
          PROVE  t.off + t.size <= u.off
        <3>1. x.id < y.id /\ t.size = x.size
            BY <1>6, <1>11, <2>4
        <3>2. x.off + x.size <= y.off /\ x.off \in Nat /\ x.size \in Nat /\ y.off \in Nat
            BY <1>1, <1>2, <3>1
        <3>3. x.id \in Nat /\ y.id \in Nat
            OBVIOUS
        <3>4. CASE x.id >= m
            <4>1. y.id >= m
                BY <3>1, <3>3, <3>4
            <4>2. t.off = x.off + n /\ u.off = y.off + n
                BY <1>6, <2>4, <3>4, <4>1
            <4> QED BY <3>1, <3>2, <4>2
        <3>5. CASE x.id < m
            <4>1. t.off = x.off /\ (u.off = y.off \/ u.off = y.off + n)
                BY <1>6, <1>9, <2>4, <3>5
            <4> QED BY <3>1, <3>2, <4>1
        <3> QED BY <1>9, <3>4, <3>5
    <2> QED BY <1>7, <2>1, <2>2, <2>3, <2>4
<1>12. ASSUME NEW c \in 1..(end + n)
       PROVE  \E t \in T : t.off < c /\ c <= t.off + t.size /\ g[c] = <<"body", t.id>>
    <2>1. CASE c <= o
        <3>1. c \in 1..end /\ g[c] = f[c]
            BY <1>4, <2>1
        <3>2. PICK x \in S : x.off < c /\ c <= x.off + x.size /\ f[c] = <<"body", x.id>>
            BY <1>3, <3>1
        <3>3. x.id < m
            <4> SUFFICES ASSUME x.id >= m PROVE FALSE
                BY <1>9
            <4>1. x.off >= o /\ x.off \in Nat
                BY <1>1, <1>4
            <4> QED BY <1>4, <2>1, <3>2, <4>1
        <3> QED BY <1>6, <1>8, <3>1, <3>2, <3>3
    <2>2. CASE o < c /\ c <= o + n
        BY <1>5, <1>8, <2>2
    <2>3. CASE o + n < c
        <3>1. c - n \in 1..end /\ g[c] = f[c - n]
            BY <1>4, <2>3
        <3>2. PICK x \in S : x.off < c - n /\ c - n <= x.off + x.size /\ f[c - n] = <<"body", x.id>>
            BY <1>3, <3>1
        <3>3. x.off \in Nat /\ x.size \in Nat
            BY <1>1
        <3>4. x.id >= m
            <4> SUFFICES ASSUME x.id < m PROVE FALSE
                BY <1>9
            <4>1. x.off + x.size <= o
                BY <1>4
            <4> QED BY <1>4, <2>3, <3>2, <3>3, <4>1
        <3>5. Moved(x, m, n).off = x.off + n
            BY <1>6, <3>4
        <3>6. x.off + n < c /\ c <= x.off + n + x.size
            BY <3>2, <3>3
        <3> QED BY <1>6, <1>8, <3>1, <3>2, <3>5, <3>6
    <2> QED BY <1>4, <2>1, <2>2, <2>3
<1>13. ASSUME NEW t \in T PROVE t.size = Size[t.id]
    BY <1>1, <1>5, <1>6, <1>7
<1>14. Laid(T, g, end + n)
    BY <1>10, <1>11, <1>12, <1>13 DEF Laid
<1> QED BY <1>4, <1>14 DEF T, new

\* The cells that matter are those of the bodies.
LEMMA LaidSame ==
    ASSUME NEW S, NEW f, NEW end, Laid(S, f, end), NEW g, \A c \in 1..end : g[c] = f[c]
    PROVE  Laid(S, g, end)
BY DEF Laid

-----------------------------------------------------------------------------
(* The bodies of the messages of an index.                                 *)

LEMMA SpotIs == \A e : Spot(e).id = e.id /\ Spot(e).off = e.off /\ Spot(e).size = e.size
BY DEF Spot

LEMMA SpotsOf ==
    ASSUME NEW E, NEW F
    PROVE  /\ \A x \in E : Stored(x) => Spot(x) \in Spots(E)
           /\ \A s \in Spots(E) : \E x \in E : Stored(x) /\ s = Spot(x)
           /\ Spots(E \cup F) = Spots(E) \cup Spots(F)
BY DEF Spots

\* Entries without a body, and the same bodies under other marks.
LEMMA SpotsSame ==
    ASSUME NEW E, NEW x \in E, NEW y, Spot(y) = Spot(x)
    PROVE  Spots((E \ {x}) \cup {y}) \subseteq Spots(E) /\ Spots(E) \subseteq Spots((E \ {x}) \cup {y})
<1>1. y.id = x.id /\ y.off = x.off /\ y.size = x.size
    BY SpotIs
<1>2. Stored(y) <=> Stored(x)
    BY <1>1 DEF Stored
<1> QED BY <1>2 DEF Spots

LEMMA SpotsApart ==
    ASSUME NEW E, NEW F, NEW G, \A x \in F \cup G : ~Stored(x), F \subseteq E
    PROVE  Spots((E \ F) \cup G) = Spots(E)
BY DEF Spots

LEMMA OneEach ==
    ASSUME NEW idx, NEW end, Sound(idx, end)
    PROVE  /\ \A x \in ElemsOf(idx) : x \in Entries /\ x.id \in IdsOf(idx) /\ (Stored(x) <=> x.id \in Ids)
           /\ \A x, y \in ElemsOf(idx) : x.id = y.id => x = y
           /\ \A m \in IdsOf(idx) : \E x \in ElemsOf(idx) : x.id = m
<1>1. \A x \in ElemsOf(idx) : x \in Entries /\ x.id \in IdsOf(idx) /\ (Stored(x) <=> x.id \in Ids)
    BY DEF Sound, ElemsOf, IdsOf
<1>2. \A x, y \in ElemsOf(idx) : x.id = y.id => x = y
    BY DEF Sound, ElemsOf
<1>3. \A m \in IdsOf(idx) : \E x \in ElemsOf(idx) : x.id = m
    BY DEF ElemsOf, IdsOf
<1> QED BY <1>1, <1>2, <1>3

LEMMA SpotsOneEach ==
    ASSUME NEW idx, NEW end, Sound(idx, end)
    PROVE  /\ \A s \in Spots(ElemsOf(idx)) : s.id \in Nat /\ s.id \in IdsOf(idx)
           /\ \A s, u \in Spots(ElemsOf(idx)) : s.id = u.id => s = u
<1>1. Ids \subseteq Nat
    BY IdAssumption DEF Ids
<1>2. \A s \in Spots(ElemsOf(idx)) : \E x \in ElemsOf(idx) : Stored(x) /\ s = Spot(x) /\ s.id = x.id
    BY SpotsOf, SpotIs
<1>3. \A x \in ElemsOf(idx) : Stored(x) => x.id \in Nat /\ x.id \in IdsOf(idx)
    BY <1>1, OneEach
<1>4. \A x, y \in ElemsOf(idx) : x.id = y.id => x = y
    BY OneEach
<1> QED BY <1>2, <1>3, <1>4

\* What is inserted, and what it moves.
LEMMA ShiftedIs ==
    ASSUME NEW x \in Entries, NEW e \in Entries
    PROVE  /\ Shifted(x, e) \in [id: {x.id}, off: Int, size: {x.size}, seen: {x.seen}, tag: {x.tag}, fwd: {x.fwd}]
           /\ Stored(Shifted(x, e)) <=> Stored(x)
           /\ Stored(x) => Spot(Shifted(x, e)) = Moved(Spot(x), e.id, e.size)
<1>1. x.off \in Int /\ e.size \in Nat
    BY EntryFields
<1>2. PICK n \in Int : n = x.off + e.size
    BY <1>1
<1>3. PICK y : y = [x EXCEPT !.off = n]
    OBVIOUS
<1>4. /\ y.id = x.id /\ y.off = n /\ y.size = x.size
      /\ y \in [id: {x.id}, off: Int, size: {x.size}, seen: {x.seen}, tag: {x.tag}, fwd: {x.fwd}]
    BY <1>3 DEF Entries
<1>5. x \in [id: {x.id}, off: Int, size: {x.size}, seen: {x.seen}, tag: {x.tag}, fwd: {x.fwd}]
    BY DEF Entries
<1>6. CASE Stored(x) /\ x.id >= e.id
    <2>1. Shifted(x, e) = y
        BY <1>2, <1>3, <1>6 DEF Shifted
    <2>2. n >= 0
        BY <1>1, <1>2, <1>6 DEF Stored
    <2>3. Spot(y) = Moved(Spot(x), e.id, e.size)
        BY <1>2, <1>4, <1>6, SpotIs DEF Moved, Spot
    <2> QED BY <1>4, <1>6, <2>1, <2>2, <2>3 DEF Stored
<1>7. CASE ~(Stored(x) /\ x.id >= e.id)
    <2>1. Shifted(x, e) = x
        BY <1>7 DEF Shifted
    <2>2. Stored(x) => Spot(x) = Moved(Spot(x), e.id, e.size)
        BY <1>7, SpotIs DEF Moved, Spot
    <2> QED BY <1>5, <2>1, <2>2
<1> QED BY <1>6, <1>7

LEMMA SpotsInsert ==
    ASSUME NEW E, \A x \in E : x \in Entries, NEW e \in Entries, NEW o \in Nat
    PROVE  Spots({Shifted(x, e) : x \in E} \cup {[e EXCEPT !.off = o]})
             = {Moved(s, e.id, e.size) : s \in Spots(E)} \cup {[id |-> e.id, off |-> o, size |-> e.size]}
<1>1. PICK d : d = [e EXCEPT !.off = o]
    OBVIOUS
<1>2. d.id = e.id /\ d.off = o /\ d.size = e.size
    BY <1>1 DEF Entries
<1>3. Stored(d) /\ Spot(d) = [id |-> e.id, off |-> o, size |-> e.size]
    BY <1>2 DEF Stored, Spot
<1>4. Spots({d}) = {[id |-> e.id, off |-> o, size |-> e.size]}
    BY <1>3 DEF Spots
<1>5. \A x \in E : /\ Stored(Shifted(x, e)) <=> Stored(x)
                   /\ Stored(x) => Spot(Shifted(x, e)) = Moved(Spot(x), e.id, e.size)
    BY ShiftedIs
<1>6. Spots({Shifted(x, e) : x \in E}) = {Moved(s, e.id, e.size) : s \in Spots(E)}
    <2>1. ASSUME NEW s \in Spots({Shifted(x, e) : x \in E}) PROVE \E u \in Spots(E) : s = Moved(u, e.id, e.size)
        <3>1. PICK x \in E : Stored(Shifted(x, e)) /\ s = Spot(Shifted(x, e))
            BY <2>1 DEF Spots
        <3> QED BY <1>5, <3>1, SpotsOf
    <2>2. ASSUME NEW u \in Spots(E) PROVE Moved(u, e.id, e.size) \in Spots({Shifted(x, e) : x \in E})
        <3>1. PICK x \in E : Stored(x) /\ u = Spot(x)
            BY SpotsOf
        <3> QED BY <1>5, <3>1 DEF Spots
    <2> QED BY <2>1, <2>2
<1>7. PICK A : A = {Shifted(x, e) : x \in E}
    OBVIOUS
<1>8. Spots(A \cup {d}) = Spots(A) \cup Spots({d})
    BY SpotsOf
<1> QED BY <1>1, <1>4, <1>6, <1>7, <1>8

LEMMA GapOpens ==
    ASSUME NEW E, NEW e, NEW pos, NEW o, Gap(E, e, pos, o)
    PROVE  Opens(Spots(E), e.id, pos, o)
<1>1. \A s \in Spots(E) : \E x \in E : Stored(x) /\ s = Spot(x) /\ s.id = x.id /\ s.off = x.off
    BY SpotsOf, SpotIs
<1>2. \A x \in E : Stored(x) => Spot(x) \in Spots(E) /\ Spot(x).id = x.id /\ Spot(x).off = x.off
    BY SpotsOf, SpotIs
<1>3. CASE o = pos /\ \A x \in E : ~(Stored(x) /\ x.id >= e.id)
    BY <1>1, <1>3 DEF Opens
<1>4. CASE \E x \in E : /\ Stored(x) /\ x.id >= e.id /\ x.off = o
                        /\ \A y \in E : Stored(y) /\ y.id >= e.id => x.id <= y.id
    <2>1. PICK x \in E : /\ Stored(x) /\ x.id >= e.id /\ x.off = o
                         /\ \A y \in E : Stored(y) /\ y.id >= e.id => x.id <= y.id
        BY <1>4
    <2>2. \A u \in Spots(E) : u.id >= e.id => x.id <= u.id
        BY <1>1, <2>1
    <2> QED BY <1>2, <2>1, <2>2 DEF Opens
<1> QED BY <1>3, <1>4 DEF Gap

-----------------------------------------------------------------------------
(* What a transaction writes.                                              *)

\* The cells mv of the file, from at to the end of its bodies.
Room(pos, at, mv) ==
    /\ pos \in Nat /\ at \in Nat /\ at <= pos
    /\ mv \in Seq(Cell) /\ Len(mv) = pos - at /\ \A i \in 1..(pos - at) : mv[i] = file[at + i]

\* The bodies of the file, without the message m, and the place of m.
Fit(S, pos, m, at) ==
    /\ Laid(S, file, pos) /\ Opens(S, m, pos, at)
    /\ \A x \in S : x.id \in Nat /\ x.id # m
    /\ \A x, y \in S : x.id = y.id => x = y

\* The index r of the temporary file of t, and the bodies once it is complete.
Written(t, r, S, m, at) ==
    /\ ReadIndex(t.new) = r /\ t.new # <<>>
    /\ Laid({Moved(x, m, Size[m]) : x \in S} \cup {[id |-> m, off |-> at, size |-> Size[m]]},
            After(t), t.pos + IndexPos(t.new))

\* A message is written at its place, and the cells that were there after it.
LEMMA LaidPut ==
    ASSUME NEW pos, NEW at, NEW m \in Ids, NEW mv, Room(pos, at, mv), NEW r \in Seq(Entries),
           NEW t, t.pos = at, t.new = (Body(m) \o mv) \o WriteIndex(r),
           NEW S, Fit(S, pos, m, at)
    PROVE  Written(t, r, S, m, at)
<1> /\ pos \in Nat /\ at \in Nat /\ at <= pos
    /\ mv \in Seq(Cell) /\ Len(mv) = pos - at /\ \A i \in 1..(pos - at) : mv[i] = file[at + i]
    BY DEF Room
<1>1. PICK n \in Nat \ {0}, b \in Seq(Cell) : n = Size[m] /\ b = Body(m)
    BY BodyIs
<1>2. Len(b) = n /\ \A i \in 1..n : b[i] = <<"body", m>>
    BY <1>1, BodyIs DEF Body
<1>3. PICK k \in Nat : k = pos - at
    <2>1. pos - at \in Nat
        OBVIOUS
    <2> QED BY <2>1
<1>4. PICK x \in Seq(Cell) : x = b \o mv
    BY ConcatProperties
<1>5. /\ Len(x) = n + k
      /\ \A i \in 1..(n + k) : x[i] = IF i <= n THEN b[i] ELSE mv[i - n]
    <2>1. Len(b) = n /\ Len(mv) = k
        BY <1>2, <1>3
    <2>2. /\ Len(x) = Len(b) + Len(mv)
          /\ \A i \in 1..(Len(b) + Len(mv)) : x[i] = IF i <= Len(b) THEN b[i] ELSE mv[i - Len(b)]
        BY <1>4, ConcatProperties
    <2> QED BY <2>1, <2>2
<1>6. PICK w : w = WriteIndex(r)
    OBVIOUS
<1>7. PICK f : f = x \o w
    OBVIOUS
<1>8. /\ w \in Seq(Cell) /\ f \in Seq(Cell) /\ f # <<>> /\ IndexPos(f) = n + k /\ ReadIndex(f) = r
    BY <1>5, <1>6, <1>7, RoundTrip
<1>9. \A i \in 1..(n + k) : f[i] = x[i]
    <2>1. \A i \in 1..(Len(x) + Len(w)) : f[i] = IF i <= Len(x) THEN x[i] ELSE w[i - Len(x)]
        BY <1>7, <1>8, ConcatProperties
    <2>2. PICK l \in Nat : l = Len(w)
        BY <1>8
    <2>3. \A i \in 1..(n + k) : i \in 1..((n + k) + l) /\ i <= n + k
        OBVIOUS
    <2> QED BY <1>5, <2>1, <2>2, <2>3
<1>10. t.new = f
    BY <1>1, <1>4, <1>6, <1>7
<1>11. t.pos + IndexPos(t.new) = pos + n
    BY <1>3, <1>8, <1>10
<1>12. PICK g : g = After(t)
    OBVIOUS
<1>13. \A c \in 1..(pos + n) : g[c] = IF c <= at THEN file[c] ELSE f[c - at]
    BY <1>10, <1>11, <1>12 DEF After
<1>14. \A c \in 1..pos : c <= at => g[c] = file[c]
    <2>1. \A c \in 1..pos : c \in 1..(pos + n)
        BY <1>1
    <2> QED BY <1>13, <2>1
<1>15. ASSUME NEW c \in 1..(pos + n), at < c, c <= at + n PROVE g[c] = <<"body", m>>
    <2>1. c - at \in 1..n /\ c - at \in 1..(n + k) /\ c - at <= n
        BY SMTT(30), <1>1, <1>3, <1>15
    <2>2. ~(c <= at)
        BY <1>15
    <2>3. g[c] = f[c - at]
        BY <1>13, <2>2
    <2>4. f[c - at] = b[c - at]
        BY <1>5, <1>9, <2>1
    <2> QED BY <1>2, <2>1, <2>3, <2>4
<1>16. ASSUME NEW c \in 1..(pos + n), at + n < c PROVE g[c] = file[c - n]
    <2>1. PICK i \in Nat : i = (c - at) - n
        BY <1>16
    <2>2. /\ c - at \in 1..(n + k) /\ ~(c - at <= n) /\ ~(c <= at)
          /\ i \in 1..(pos - at) /\ at + i = c - n
        <3>1. pos \in Nat /\ at \in Nat /\ n \in Nat /\ c \in 1..(pos + n) /\ at + n < c
            BY <1>1, <1>16
        <3>2. c - at <= n + k /\ c - at >= 1 /\ i >= 1 /\ i <= pos - at
            BY <1>3, <2>1, <3>1
        <3> QED BY <1>3, <2>1, <3>1, <3>2
    <2>3. g[c] = f[c - at]
        BY <1>13, <2>2
    <2>4. f[c - at] = mv[i]
        BY <1>5, <1>9, <2>1, <2>2
    <2>5. mv[i] = file[at + i]
        BY <2>2
    <2> QED BY <2>2, <2>3, <2>4, <2>5
<1>17. Laid({Moved(s, m, n) : s \in S} \cup {[id |-> m, off |-> at, size |-> n]}, g, pos + n)
    <2>1. m \in Nat
        BY IdAssumption DEF Ids
    <2>2. \A c \in 1..(pos + n) : at < c /\ c <= at + n => g[c] = <<"body", m>>
        BY <1>15
    <2>3. \A c \in 1..(pos + n) : at + n < c => g[c] = file[c - n]
        BY <1>16
    <2>4. PICK f0 : f0 = file
        OBVIOUS
    <2>5. Puts(S, f0, pos, m, n, at, g)
        BY <1>1, <1>14, <2>2, <2>3, <2>4 DEF Puts, Fit
    <2> QED BY <2>1, <2>5, LaidInsert
<1> QED BY <1>1, <1>8, <1>10, <1>11, <1>12, <1>17 DEF Written

\* A new index for the bodies that are there.
LEMMA LaidRewritten ==
    ASSUME NEW pos \in Nat, NEW r \in Seq(Entries), NEW t, t.pos = pos, t.new = WriteIndex(r),
           NEW S, Laid(S, file, pos)
    PROVE  /\ ReadIndex(t.new) = r /\ t.new # <<>>
           /\ Laid(S, After(t), t.pos + IndexPos(t.new))
<1>1. PICK w : w = WriteIndex(r)
    OBVIOUS
<1>2. <<>> \in Seq(Cell) /\ Len(<<>>) = 0
    OBVIOUS
<1>3. w \in Seq(Cell)
    BY <1>1, <1>2, RoundTrip
<1>4. <<>> \o w = w
    BY <1>3, ConcatEmptySeq
<1>5. w # <<>> /\ IndexPos(w) = 0 /\ ReadIndex(w) = r
    <2>1. PICK e \in Seq(Cell) : e = <<>>
        BY <1>2
    <2>2. e \o w # <<>> /\ IndexPos(e \o w) = Len(e) /\ ReadIndex(e \o w) = r
        BY <1>1, RoundTrip
    <2> QED BY <1>2, <1>4, <2>1, <2>2
<1>6. t.pos + IndexPos(t.new) = pos
    BY <1>1, <1>5
<1>7. \A c \in 1..pos : After(t)[c] = file[c]
    BY <1>6 DEF After
<1>8. Laid(S, After(t), pos)
    BY <1>7, LaidSame
<1> QED BY <1>1, <1>5, <1>6, <1>8

-----------------------------------------------------------------------------
(* The steps that leave the index as it is.                                *)

LEMMA CutCells ==
    ASSUME NEW f \in Seq(Cell), NEW n \in Nat, n <= Len(f)
    PROVE  \A c \in 1..n : SubSeq(f, 1, n)[c] = f[c]
<1>1. PICK l \in Nat : l = Len(f)
    OBVIOUS
<1>2. \A i \in 1..n : f[i] \in Cell
    BY <1>1
<1>3. \A i \in 1..(n - 1 + 1) : SubSeq(f, 1, n)[i] = f[1 + i - 1]
    BY <1>2, SubSeqProperties
<1>4. \A i \in 1..n : i \in 1..(n - 1 + 1) /\ 1 + i - 1 = i
    OBVIOUS
<1> QED BY <1>3, <1>4

LEMMA OverlayCells ==
    ASSUME file \in Seq(Cell), temp.pos \in Nat, temp.new \in Seq(Cell), Len(file) >= temp.pos,
           NEW n \in 0..Len(temp.new)
    PROVE  \A c \in 1..temp.pos : Overlay(n)[c] = file[c]
<1>1. PICK p \in Nat, f \in Seq(Cell), w \in Seq(Cell) : p = temp.pos /\ f = file /\ w = temp.new
    OBVIOUS
<1>2. PICK a, b, d : /\ a = SubSeq(f, 1, p) /\ b = SubSeq(w, 1, n)
                     /\ d = SubSeq(f, p + n + 1, Len(f))
    OBVIOUS
<1>3. PICK k \in Nat : k = p + n
    BY <1>1
<1>4. Overlay(n) = a \o b \o d
    BY <1>1, <1>2 DEF Overlay
<1>5. a \in Seq(Cell) /\ Len(a) = p /\ \A c \in 1..p : a[c] = f[c]
    BY <1>1, <1>2, Cut, CutCells
<1>6. b \in Seq(Cell)
    <2>1. n \in Nat /\ n <= Len(w)
        BY <1>1
    <2> QED BY <1>2, <2>1, Cut
<1>7. d \in Seq(Cell)
    BY <1>2, <1>3, Remainder
<1>8. PICK ab : ab = a \o b
    OBVIOUS
<1>9. /\ ab \in Seq(Cell) /\ Len(ab) = p + Len(b)
      /\ \A i \in 1..(p + Len(b)) : ab[i] = IF i <= p THEN a[i] ELSE b[i - p]
    BY ZenonT(40), <1>5, <1>6, <1>8, ConcatProperties
<1>10. \A i \in 1..(Len(ab) + Len(d)) : (ab \o d)[i] = IF i <= Len(ab) THEN ab[i] ELSE d[i - Len(ab)]
    BY <1>7, <1>9, ConcatProperties
<1>11. PICK l \in Nat, q \in Nat : l = Len(b) /\ q = Len(d)
    BY <1>6, <1>7
<1>12. \A c \in 1..p : c \in 1..(p + l) /\ c \in 1..((p + l) + q) /\ c <= p + l /\ c <= p
    OBVIOUS
<1>13. \A c \in 1..p : (ab \o d)[c] = a[c]
    BY <1>9, <1>10, <1>11, <1>12
<1> QED BY <1>1, <1>4, <1>5, <1>8, <1>13

\* What is written after the cells y of a file ends where its bodies end.
LEMMA AfterCells ==
    ASSUME NEW y \in Seq(Cell), NEW f, Whole(f, Len(y))
    PROVE  /\ IndexPos(y \o f) = Len(y) + IndexPos(f)
           /\ \A c \in 1..(Len(y) + IndexPos(f)) : (y \o f)[c] = IF c <= Len(y) THEN y[c] ELSE f[c - Len(y)]
<1>1. PICK x, idx : x = SubSeq(f, 1, IndexPos(f)) /\ idx = ReadIndex(f)
    OBVIOUS
<1>2. /\ x \in Seq(Cell) /\ idx \in Seq(Entries) /\ f = x \o WriteIndex(idx) /\ f \in Seq(Cell)
      /\ IndexPos(f) = Len(x) /\ IndexPos(f) \in Nat /\ Len(f) = IndexPos(f) + Len(WriteIndex(idx))
      /\ Len(WriteIndex(idx)) \in Nat
    BY <1>1, WholeHas DEF Whole
<1>3. PICK w \in Seq(Cell) : w = WriteIndex(idx)
    BY <1>2, RoundTrip
<1>4. y \o f = (y \o x) \o w
    BY SMTT(30), <1>2, <1>3, ConcatAssociative
<1>5. y \o x \in Seq(Cell) /\ Len(y \o x) = Len(y) + Len(x)
    BY <1>2, ConcatProperties
<1>6. IndexPos((y \o x) \o w) = Len(y \o x)
    BY <1>2, <1>3, <1>5, RoundTrip
<1>7. PICK n \in Nat, p \in Nat, l \in Nat : n = Len(y) /\ p = IndexPos(f) /\ l = Len(w)
    BY <1>2, <1>3
<1>8. \A c \in 1..(n + Len(f)) : (y \o f)[c] = IF c <= n THEN y[c] ELSE f[c - n]
    BY <1>2, <1>7, ConcatProperties
<1>9. Len(f) = p + l
    BY <1>2, <1>3, <1>7
<1>10. \A c \in 1..(n + p) : c \in 1..(n + (p + l))
    OBVIOUS
<1> QED BY <1>2, <1>4, <1>5, <1>6, <1>7, <1>8, <1>9, <1>10

\* Once it is written the thread file holds the bodies.
LEMMA LaidComplete ==
    ASSUME IInv, LaidOK, temp # None, Head(todo) \in {"index", "drop"}, temp.new # <<>>
    PROVE  /\ Laid(Spots(ElemsOf(ReadIndex(file))), file, IndexPos(file))
           /\ Sound(ReadIndex(file), IndexPos(file)) /\ IndexPos(file) \in Nat
           /\ Index = ReadIndex(file)
<1>1. /\ Whole(file, 0) /\ file # <<>> /\ ReadIndex(file) = ReadIndex(temp.new)
      /\ Pending = {temp} /\ TransOK(temp)
      /\ \A x \in StepSet(temp) : Rank(x) < Rank(Head(todo)) => Done(temp, x)
    BY FileAfter
<1>2. FileAt(temp)
    BY <1>1 DEF IInv, FileOK
<1>3. PICK pos \in Nat, new \in Seq(Cell) : pos = temp.pos /\ new = temp.new
    BY <1>1 DEF TransOK, Transactions
<1>4. Whole(new, pos) /\ (Links(temp) => pos = 0)
    BY <1>1, <1>3 DEF TransOK
<1>5. PICK y \in Seq(Cell) : Len(y) = pos /\ file = y \o new
    <2>1. CASE Links(temp)
        <3>1. "link" \in StepSet(temp)
            BY <2>1 DEF StepSet
        <3>2. file = new
            BY <1>1, <1>2, <1>3, <2>1, <3>1, RankValues DEF FileAt
        <3>3. <<>> \in Seq(Cell) /\ Len(<<>>) = 0 /\ <<>> \o new = new
            BY ConcatEmptySeq
        <3> QED BY <1>4, <2>1, <3>2, <3>3
    <2>2. CASE ~Links(temp)
        <3>1. "write" \in StepSet(temp)
            BY <2>2 DEF StepSet
        <3>2. PICK z : z = SubSeq(file, 1, temp.pos)
            OBVIOUS
        <3>3. Done(temp, "write")
            BY <1>1, <3>1, RankValues
        <3>4. file = z \o temp.new /\ file \in Seq(Cell) /\ Len(file) >= temp.pos
            BY <1>2, <2>2, <3>2, <3>3 DEF FileAt
        <3>5. z \in Seq(Cell) /\ Len(z) = temp.pos
            BY <1>3, <3>2, <3>4, Cut
        <3> QED BY <1>3, <3>4, <3>5
    <2> QED BY <2>1, <2>2
<1>6. PICK p \in Nat : p = IndexPos(new)
    BY <1>4, WholeHas
<1>7. /\ IndexPos(file) = pos + p
      /\ \A c \in 1..(pos + p) : file[c] = IF c <= pos THEN y[c] ELSE new[c - pos]
    BY <1>4, <1>5, <1>6, AfterCells
<1>8. \A c \in 1..(pos + p) : file[c] = After(temp)[c]
    BY <1>3, <1>6, <1>7 DEF After
<1>9. Laid(Spots(ElemsOf(ReadIndex(file))), After(temp), pos + p)
    BY <1>1, <1>3, <1>6 DEF LaidOK
<1>10. Laid(Spots(ElemsOf(ReadIndex(file))), file, pos + p)
    BY <1>8, <1>9, LaidSame
<1>11. Sound(ReadIndex(file), IndexPos(file)) /\ IndexPos(file) \in Nat
    BY <1>1, FileIs
<1>12. Index = ReadIndex(file)
    BY <1>1, OneIndex DEF IInv
<1> QED BY <1>7, <1>10, <1>11, <1>12

\* The transactions stay, and the cells of the file before their bodies.
Kept ==
    /\ Pending' = Pending
    /\ Pending = {} => file' = file
    /\ \A t \in Pending : t.new # <<>> => \A c \in 1..t.pos : file'[c] = file[c]

\* Steps that keep the transaction, and the bodies before the part it rewrites.
LEMMA KeptIs ==
    ASSUME IInv, IInv', LaidOK, Kept
    PROVE  LaidOK' /\ Index' = Index
<1>1. ASSUME NEW t \in Pending, t.new # <<>>
      PROVE  Laid(Spots(ElemsOf(ReadIndex(t.new))), After(t)', t.pos + IndexPos(t.new))
    <2>1. Whole(t.new, t.pos) /\ t.pos \in Nat
        BY <1>1 DEF IInv, Places, TransOK, Transactions
    <2>2. PICK p \in Nat, n \in Nat : p = t.pos /\ n = t.pos + IndexPos(t.new)
        BY <2>1, WholeHas
    <2>3. PICK f, g : f = After(t) /\ g = After(t)'
        OBVIOUS
    <2>4. \A c \in 1..n : f[c] = IF c <= p THEN file[c] ELSE t.new[c - p]
        BY <2>2, <2>3 DEF After
    <2>5. \A c \in 1..n : g[c] = IF c <= p THEN file'[c] ELSE t.new[c - p]
        BY <2>2, <2>3 DEF After
    <2>6. \A c \in 1..p : file'[c] = file[c]
        BY <1>1, <2>2 DEF Kept
    <2>7. \A c \in 1..n : c <= p => c \in 1..p
        OBVIOUS
    <2>8. \A c \in 1..n : g[c] = f[c]
        BY <2>4, <2>5, <2>6, <2>7
    <2>9. Laid(Spots(ElemsOf(ReadIndex(t.new))), f, n)
        BY <1>1, <2>2, <2>3 DEF LaidOK
    <2>10. Laid(Spots(ElemsOf(ReadIndex(t.new))), g, n)
        BY <2>8, <2>9, LaidSame
    <2> QED BY <2>2, <2>3, <2>10
<1>2. LaidOK'
    <2>1. Pending' = {} /\ file' # <<>> => Laid(Spots(ElemsOf(ReadIndex(file'))), file', IndexPos(file'))
        BY DEF Kept, LaidOK
    <2>2. \A t \in Pending' : t.new # <<>> =>
              Laid(Spots(ElemsOf(ReadIndex(t.new))), After(t)', t.pos + IndexPos(t.new))
        BY <1>1 DEF Kept
    <2> QED BY <2>1, <2>2 DEF LaidOK
<1>3. Index' = Index
    <2>1. CASE \E t \in Pending : t.new # <<>>
        <3>1. PICK t \in Pending : t.new # <<>>
            BY <2>1
        <3>2. Pending = {t} /\ Pending' = {t}
            BY PendingIs DEF IInv, Kept
        <3> QED BY <3>1, <3>2, IndexIs, IndexOfIs
    <2>2. CASE Pending = {}
        <3>1. file' = file /\ Pending' = Pending
            BY <2>2 DEF Kept
        <3> QED BY <3>1, IndexIs
    <2>3. CASE Pending # {} /\ \A t \in Pending : t.new = <<>>
        <3>1. file = <<>>
            BY <2>3 DEF IInv, FileOK, FileAt
        <3>2. file' = <<>>
            BY <2>3 DEF IInv, FileOK, FileAt, Kept
        <3>3. Pending' = Pending
            BY DEF Kept
        <3> QED BY <3>1, <3>2, <3>3, IndexIs
    <2> QED BY <2>1, <2>2, <2>3
<1> QED BY <1>2, <1>3

\* A step that leaves the index, its bodies and the drafts of the user as they are.
Still == Kept /\ UserDrafts' = UserDrafts /\ (renamed' => renamed)

\* What such a step leaves as it was.
SameLog == LaidOK' /\ DoorOK' /\ Index' = Index /\ UserDrafts' = UserDrafts

\* Such a step changes nothing that ThreadLog speaks of.
LEMMA StillIs ==
    ASSUME IInv, IInv', LaidOK, DoorOK, Still
    PROVE  SameLog
<1>1. Kept /\ UserDrafts' = UserDrafts /\ (renamed' => renamed)
    BY DEF Still
<1>2. LaidOK' /\ Index' = Index
    BY <1>1, KeptIs
<1>3. DoorOK'
    <2>1. CASE \E t \in Pending : t.new # <<>>
        BY <1>1, <2>1 DEF Kept, DoorOK
    <2>2. CASE Pending = {}
        BY <1>1, <2>2 DEF Kept, DoorOK
    <2>3. CASE Pending # {} /\ \A t \in Pending : t.new = <<>>
        <3>1. file = <<>>
            BY <2>3 DEF IInv, FileOK, FileAt
        <3> QED BY <1>1, <2>3, <3>1 DEF DoorOK
    <2> QED BY <2>1, <2>2, <2>3
<1> QED BY <1>1, <1>2, <1>3 DEF SameLog

LEMMA SameIsStill ==
    ASSUME StoreSame, renamed' => renamed
    PROVE  Still
<1>1. Pending' = Pending /\ file' = file /\ drafts' = drafts
    BY SameStore DEF StoreSame
<1>2. Kept
    BY <1>1 DEF Kept
<1>3. UserDrafts' = UserDrafts
    BY <1>1 DEF UserDrafts
<1> QED BY <1>2, <1>3 DEF Still

\* The drafts of the user when t is pending.
LEMMA DraftsOf ==
    ASSUME NEW t
    PROVE  /\ Pending = {t} => UserDrafts = (drafts \cup (IF t.op = "ws" THEN {t.draft} ELSE {}))
                                               \ (IF t.op \in {"ds", "ss"} THEN {t.draft} ELSE {})
           /\ Pending' = {t} => UserDrafts' = (drafts' \cup (IF t.op = "ws" THEN {t.draft} ELSE {}))
                                               \ (IF t.op \in {"ds", "ss"} THEN {t.draft} ELSE {})
           /\ Pending = {} => UserDrafts = drafts
           /\ Pending' = {} => UserDrafts' = drafts'
<1>1. ASSUME Pending = {t}
      PROVE  UserDrafts = (drafts \cup (IF t.op = "ws" THEN {t.draft} ELSE {}))
                              \ (IF t.op \in {"ds", "ss"} THEN {t.draft} ELSE {})
    BY <1>1 DEF UserDrafts
<1>2. ASSUME Pending' = {t}
      PROVE  UserDrafts' = (drafts' \cup (IF t.op = "ws" THEN {t.draft} ELSE {}))
                              \ (IF t.op \in {"ds", "ss"} THEN {t.draft} ELSE {})
    BY <1>2 DEF UserDrafts
<1>3. ASSUME Pending = {} PROVE UserDrafts = drafts
    BY <1>3 DEF UserDrafts
<1>4. ASSUME Pending' = {} PROVE UserDrafts' = drafts'
    BY <1>4 DEF UserDrafts
<1> QED BY <1>1, <1>2, <1>3, <1>4

\* A step of the transaction under way, but the last.
LEMMA WorkIsStill ==
    ASSUME IInv, NEW s, s # "drop", Takes(s), renamed' = renamed,
           \A c \in 1..temp.pos : file'[c] = file[c],
           \/ drafts' = drafts
           \/ drafts' = drafts \ {temp.draft} /\ temp.op \in {"ss", "ws", "ds"}
           \/ drafts' = drafts \cup {temp.draft} /\ temp.op = "ws"
    PROVE  Still
<1>1. Pending = {temp} /\ Pending' = {temp}
    BY TakesIs
<1>2. Kept
    BY <1>1 DEF Kept
<1>3. UserDrafts' = UserDrafts
    <2>1. PICK t : t = temp
        OBVIOUS
    <2>2. Pending = {t} /\ Pending' = {t}
        BY <1>1, <2>1
    <2>3. /\ UserDrafts = (drafts \cup (IF t.op = "ws" THEN {t.draft} ELSE {}))
                              \ (IF t.op \in {"ds", "ss"} THEN {t.draft} ELSE {})
          /\ UserDrafts' = (drafts' \cup (IF t.op = "ws" THEN {t.draft} ELSE {}))
                              \ (IF t.op \in {"ds", "ss"} THEN {t.draft} ELSE {})
        BY <2>2, DraftsOf
    <2> QED BY <2>1, <2>3
<1> QED BY <1>2, <1>3 DEF Still

\* The steps of a transaction but the last one.
LEMMA CompleteIsStill ==
    ASSUME IInv, Complete, ~DropTemp
    PROVE  Still
<1>1. CASE RemoveDraft
    <2>1. /\ Takes("rmdraft") /\ "rmdraft" # "drop" /\ renamed' = renamed
          /\ drafts' = drafts \ {temp.draft} /\ file' = file
        BY <1>1 DEF RemoveDraft, Takes, Step, StepDone, Rest, server, IInv, Places, Idle
    <2>2. "rmdraft" \in StepSet(temp)
        BY <2>1, TakesIs
    <2>3. temp.op \in {"ss", "ws", "ds"}
        BY <2>2 DEF StepSet
    <2> QED BY <2>1, <2>3, WorkIsStill
<1>2. CASE LinkDraft
    <2>1. /\ Takes("lndraft") /\ "lndraft" # "drop" /\ renamed' = renamed
          /\ drafts' = drafts \cup {temp.draft} /\ file' = file
        BY <1>2 DEF LinkDraft, Takes, Step, StepDone, Rest, server, IInv, Places, Idle
    <2>2. "lndraft" \in StepSet(temp)
        BY <2>1, TakesIs
    <2>3. temp.op = "ws"
        BY <2>2 DEF StepSet
    <2> QED BY <2>1, <2>3, WorkIsStill
<1>3. CASE Dequeue
    <2>1. Takes("dequeue") /\ "dequeue" # "drop" /\ renamed' = renamed /\ drafts' = drafts /\ file' = file
        BY <1>3 DEF Dequeue, Takes, Step, StepDone, Rest, server, IInv, Places, Idle
    <2> QED BY <2>1, WorkIsStill
<1>4. CASE SyncTags
    <2>1. Takes("synctags") /\ "synctags" # "drop" /\ renamed' = renamed /\ drafts' = drafts /\ file' = file
        BY <1>4 DEF SyncTags, Takes, Step, StepDone, Rest, server, disk, IInv, Places, Idle
    <2> QED BY <2>1, WorkIsStill
<1>5. CASE LinkThread
    <2>1. Takes("link") /\ "link" # "drop" /\ renamed' = renamed /\ drafts' = drafts
        BY <1>5 DEF LinkThread, Takes, Step, StepDone, Rest, server, IInv, Places, Idle
    <2>2. "link" \in StepSet(temp) /\ TransOK(temp)
        BY <2>1, TakesIs
    <2>3. temp.pos = 0
        BY <2>2 DEF StepSet, TransOK
    <2>4. \A c \in 1..temp.pos : file'[c] = file[c]
        BY <2>3
    <2> QED BY <2>1, <2>4, WorkIsStill
<1>6. CASE Truncate
    <2>1. /\ Takes("trunc") /\ "trunc" # "drop" /\ renamed' = renamed /\ drafts' = drafts
          /\ file' = SubSeq(file, 1, temp.pos)
        BY <1>6 DEF Truncate, Takes, Step, StepDone, Rest, server, IInv, Places, Idle
    <2>2. Pending = {temp} /\ "trunc" \in StepSet(temp) /\ TransOK(temp)
        BY <2>1, TakesIs
    <2>3. ~Links(temp) /\ temp.new # <<>>
        BY <2>2 DEF StepSet
    <2>4. file \in Seq(Cell) /\ temp.pos \in Nat /\ temp.pos <= Len(file)
        BY <2>2, <2>3 DEF IInv, FileOK, FileAt, TransOK, Transactions
    <2>5. PICK f, p : f = file /\ p = temp.pos
        OBVIOUS
    <2>6. \A c \in 1..p : SubSeq(f, 1, p)[c] = f[c]
        BY <2>4, <2>5, CutCells
    <2>7. \A c \in 1..temp.pos : file'[c] = file[c]
        BY <2>1, <2>5, <2>6
    <2> QED BY <2>1, <2>7, WorkIsStill
<1>7. CASE WriteThread
    <2>1. /\ Takes("write") /\ "write" # "drop" /\ renamed' = renamed /\ drafts' = drafts
          /\ file' = Overlay(Len(temp.new))
        BY <1>7 DEF WriteThread, Takes, Step, StepDone, Rest, server, IInv, Places, Idle
    <2>2. Pending = {temp} /\ "write" \in StepSet(temp) /\ TransOK(temp)
        BY <2>1, TakesIs
    <2>3. ~Links(temp) /\ temp.new # <<>>
        BY <2>2 DEF StepSet
    <2>4. file \in Seq(Cell) /\ temp.pos \in Nat /\ temp.pos <= Len(file) /\ temp.new \in Seq(Cell)
        BY <2>2, <2>3 DEF IInv, FileOK, FileAt, TransOK, Transactions
    <2>5. Len(temp.new) \in 0..Len(temp.new)
        BY <2>4
    <2>6. \A c \in 1..temp.pos : Overlay(Len(temp.new))[c] = file[c]
        BY <2>4, <2>5, OverlayCells
    <2> QED BY <2>1, <2>6, WorkIsStill
<1>8. CASE IndexThread
    <2>1. CASE Quit
        <3>1. StoreSame /\ renamed' = renamed
            BY <2>1 DEF Quit, disk, StoreSame
        <3> QED BY <3>1, SameIsStill
    <2>2. CASE ~Quit
        <3>1. Takes("index") /\ "index" # "drop" /\ renamed' = renamed /\ drafts' = drafts /\ file' = file
            BY <1>8, <2>2 DEF IndexThread, Takes, Step, StepDone, Rest, server, IInv, Places, Idle
        <3> QED BY <3>1, WorkIsStill
    <2> QED BY <2>1, <2>2
<1> QED BY <1>1, <1>2, <1>3, <1>4, <1>5, <1>6, <1>7, <1>8 DEF Complete

\* A crash, whatever it left of a copy into the thread file.
LEMMA CrashIsStill ==
    ASSUME IInv, Crash
    PROVE  Still
<1>1. temp' = None /\ drafts' = drafts /\ renamed' = FALSE
      /\ left' = IF temp = None THEN left ELSE left \cup {temp}
    BY DEF Crash
<1>2. Pending' = Pending
    <2>1. None \notin left /\ (temp # None => left = {})
        BY DEF IInv, Places
    <2> QED BY <1>1, <2>1 DEF Pending
<1>3. file' = file \/ (Step("write") /\ \E n \in 0..Len(temp.new) : file' = Overlay(n))
    BY DEF Crash
<1>4. ASSUME Step("write"), NEW n \in 0..Len(temp.new), file' = Overlay(n)
      PROVE  Pending = {temp} /\ \A c \in 1..temp.pos : file'[c] = file[c]
    <2>1. temp # None /\ Head(todo) = "write"
        BY <1>4 DEF Step, Idle, IInv, Places
    <2>2. Pending = {temp} /\ TransOK(temp) /\ Remaining(todo, StepSet(temp)) /\ "drop" \in StepSet(temp)
        BY <2>1, PendingIs DEF IInv, Places, StepSet
    <2>3. "write" \in StepSet(temp)
        BY <2>1, <2>2, RemainingNext
    <2>4. ~Links(temp) /\ temp.new # <<>>
        BY <2>3 DEF StepSet
    <2>5. file \in Seq(Cell) /\ temp.pos \in Nat /\ temp.pos <= Len(file) /\ temp.new \in Seq(Cell)
        BY <2>2, <2>4 DEF IInv, FileOK, FileAt, TransOK, Transactions
    <2> QED BY <1>4, <2>2, <2>5, OverlayCells
<1>5. Kept
    BY <1>2, <1>3, <1>4 DEF Kept
<1>6. UserDrafts' = UserDrafts
    BY <1>1, <1>2 DEF UserDrafts
<1> QED BY <1>1, <1>5, <1>6 DEF Still

LEMMA RecoveryIsStill ==
    ASSUME IInv, Recovery
    PROVE  Still
<1>1. CASE Recovered \/ Restart
    <2>1. StoreSame /\ renamed' = renamed
        BY <1>1 DEF Recovered, Restart, disk, StoreSame
    <2> QED BY <2>1, SameIsStill
<1>2. ASSUME NEW t \in left, Resume(t) PROVE Still
    <2>1. temp' = t /\ left' = left \ {t} /\ file' = file /\ drafts' = drafts /\ renamed' = renamed
        BY <1>2 DEF Resume, Reopened, disk, IInv, Places
    <2>2. Pending' = Pending
        <3>1. temp = None /\ left = {t} /\ t # None
            BY DEF IInv, Places
        <3> QED BY <2>1, <3>1 DEF Pending
    <2>3. Kept
        BY <2>1, <2>2 DEF Kept
    <2>4. UserDrafts' = UserDrafts
        BY <2>1, <2>2 DEF UserDrafts
    <2> QED BY <2>1, <2>3, <2>4 DEF Still
<1> QED BY <1>1, <1>2 DEF Recovery

\* The transaction under way ends.
LEMMA DropIs ==
    ASSUME IInv, IInv', LaidOK, DoorOK, DropTemp
    PROVE  SameLog
<1>1. /\ Head(todo) = "drop" /\ todo # <<>> /\ temp' = None
      /\ UNCHANGED <<file, drafts, left, renamed>>
    BY DEF DropTemp, Step, StepDone, disk, Idle
<1>2. temp # None /\ left = {}
    BY <1>1 DEF IInv, Places
<1>3. /\ temp.new # <<>> => file # <<>>
      /\ temp.new = <<>> => file = <<>>
      /\ Pending = {temp} /\ TransOK(temp)
      /\ \A x \in StepSet(temp) : Rank(x) < Rank("drop") => Done(temp, x)
    BY <1>1, <1>2, FileAfter
<1>4. Pending' = {}
    BY <1>1, <1>2 DEF Pending
<1>5. temp.new # <<>> => Laid(Spots(ElemsOf(ReadIndex(file))), file, IndexPos(file)) /\ Index = ReadIndex(file)
    BY <1>1, <1>2, LaidComplete
<1>6. LaidOK'
    BY <1>1, <1>3, <1>4, <1>5 DEF LaidOK
<1>7. Index' = Index
    <2>1. Index' = Idx(file)
        BY <1>1, <1>4, IndexIs, IndexOfIs
    <2>2. Index = Idx(file)
        BY <1>3, <1>5, OneIndex DEF IInv, Idx
    <2> QED BY <2>1, <2>2
<1>8. DoorOK'
    BY <1>1, <1>3, <1>4 DEF DoorOK
<1>9. UserDrafts' = UserDrafts
    <2>1. PICK t : t = temp
        OBVIOUS
    <2>2. UserDrafts' = drafts
        BY <1>1, <1>4, DraftsOf
    <2>3. UserDrafts = (drafts \cup (IF t.op = "ws" THEN {t.draft} ELSE {}))
                              \ (IF t.op \in {"ds", "ss"} THEN {t.draft} ELSE {})
        BY <1>3, <2>1, DraftsOf
    <2>4. CASE t.op \in {"ws", "ds", "ss"}
        <3>1. "rmdraft" \in StepSet(temp) /\ (temp.op = "ws" => "lndraft" \in StepSet(temp))
            BY <2>1, <2>4 DEF StepSet
        <3>2. Done(temp, "rmdraft") /\ (temp.op = "ws" => Done(temp, "lndraft"))
            BY <1>3, <3>1, RankValues
        <3>3. temp.draft \in Drafts
            BY <1>2, <1>3, <2>1, <2>4, OfNewDraft
        <3>4. IF temp.op = "ws" THEN temp.draft \in drafts ELSE temp.draft \notin drafts
            BY <1>3, <2>1, <2>4, <3>2, <3>3 DEF IInv, DraftAt
        <3> QED BY <2>1, <2>2, <2>3, <3>4
    <2>5. CASE t.op \notin {"ws", "ds", "ss"}
        BY <2>2, <2>3, <2>5
    <2> QED BY <2>4, <2>5
<1> QED BY <1>6, <1>7, <1>8, <1>9 DEF SameLog

-----------------------------------------------------------------------------
(* The commits, and what they do to the log.                               *)

\* The service commits t, whose transaction is then the one pending.
LEMMA CommitOf ==
    ASSUME IInv, IInv', DoorOK, mode = "up", Idle, NEW t, Commit(t),
           t.op \in {"sr", "ss"} => t.new # <<>>,
           file' = file, drafts' = drafts, renamed' => renamed \/ t.new # <<>>
    PROVE  /\ Pending = {} /\ Pending' = {t} /\ TransOK(t)
           /\ Index = Idx(file) /\ (file = <<>> \/ Whole(file, 0))
           /\ Index' = IF t.new = <<>> THEN Idx(file) ELSE ReadIndex(t.new)
           /\ UserDrafts = drafts
           /\ UserDrafts' = (drafts \cup (IF t.op = "ws" THEN {t.draft} ELSE {}))
                               \ (IF t.op \in {"ds", "ss"} THEN {t.draft} ELSE {})
           /\ DoorOK'
           /\ (t.new # <<>> => Laid(Spots(ElemsOf(ReadIndex(t.new))), After(t), t.pos + IndexPos(t.new)))
                 => LaidOK'
<1>1. temp = None /\ Pending = {} /\ left = {} /\ Index = Idx(file) /\ (file = <<>> \/ Whole(file, 0))
    BY RestIs
<1>2. temp' = t /\ todo' = Steps(t) /\ left' = {}
    BY <1>1 DEF Commit
<1>3. t # None
    <2>1. Ranged(Steps(t), 1, 9, StepSet(t)) /\ "drop" \in StepSet(t)
        BY StepsAre DEF StepSet
    <2>2. In("drop", Steps(t))
        BY <2>1 DEF Ranged
    <2>3. Steps(t) # <<>>
        BY <2>2 DEF In
    <2> QED BY <1>2, <2>3 DEF IInv, Places
<1>4. Pending' = {t}
    BY <1>2, <1>3 DEF Pending
<1>5. TransOK(t)
    <2>1. TransOK(t)'
        BY <1>4 DEF IInv, Places
    <2> QED BY <2>1 DEF TransOK
<1>6. Index' = IF t.new = <<>> THEN Idx(file) ELSE ReadIndex(t.new)
    BY <1>4, IndexIs, IndexOfIs
<1>7. /\ UserDrafts = drafts
      /\ UserDrafts' = (drafts \cup (IF t.op = "ws" THEN {t.draft} ELSE {}))
                          \ (IF t.op \in {"ds", "ss"} THEN {t.draft} ELSE {})
    BY <1>1, <1>4, DraftsOf
<1>8. DoorOK'
    BY <1>1, <1>4 DEF DoorOK
<1>9. ASSUME t.new # <<>> => Laid(Spots(ElemsOf(ReadIndex(t.new))), After(t), t.pos + IndexPos(t.new))
      PROVE  LaidOK'
    <2>1. After(t)' = After(t)
        BY DEF After
    <2> QED BY <1>4, <1>9, <2>1 DEF LaidOK
<1> QED BY <1>1, <1>4, <1>5, <1>6, <1>7, <1>8, <1>9

\* The index is written again, with the bodies where they are.
LEMMA RewriteIs ==
    ASSUME IInv, IInv', LaidOK, DoorOK, mode = "up", Idle, file # <<>>,
           file' = file, drafts' = drafts, renamed' = renamed,
           NEW op \in {"ws", "ds", "sc", "nr"}, NEW d, NEW m, NEW local,
           NEW r \in Seq(Entries), NEW old, old = ReadIndex(file),
           Commit(Transaction(op, d, m, IndexPos(file), WriteIndex(r), local)),
           Spots(ElemsOf(r)) = Spots(ElemsOf(old))
    PROVE  /\ LaidOK' /\ DoorOK' /\ Index = old /\ Index' = r
           /\ UserDrafts' = IF op = "ws" THEN UserDrafts \cup {d}
                            ELSE IF op = "ds" THEN UserDrafts \ {d} ELSE UserDrafts
<1>1. PICK pos : pos = IndexPos(file)
    OBVIOUS
<1>2. PICK t : t = Transaction(op, d, m, pos, WriteIndex(r), local)
    OBVIOUS
<1>3. t.op = op /\ t.draft = d /\ t.pos = pos /\ t.new = WriteIndex(r)
    BY <1>2, TransactionIs
<1>4. Pending = {} /\ Whole(file, 0)
    BY RestIs
<1>5. pos \in Nat /\ Idx(file) = old
    BY <1>1, <1>4, FileIs
<1>6. Laid(Spots(ElemsOf(r)), file, pos)
    BY <1>1, <1>4 DEF LaidOK
<1>7. /\ ReadIndex(t.new) = r /\ t.new # <<>>
      /\ Laid(Spots(ElemsOf(r)), After(t), t.pos + IndexPos(t.new))
    <2>1. PICK S : S = Spots(ElemsOf(r))
        OBVIOUS
    <2> QED BY <1>3, <1>5, <1>6, <2>1, LaidRewritten
<1>8. Commit(t) /\ t.op \notin {"sr", "ss"}
    BY <1>1, <1>2, <1>3
<1>9. /\ Index = Idx(file)
      /\ Index' = IF t.new = <<>> THEN Idx(file) ELSE ReadIndex(t.new)
      /\ UserDrafts = drafts
      /\ UserDrafts' = (drafts \cup (IF t.op = "ws" THEN {t.draft} ELSE {}))
                          \ (IF t.op \in {"ds", "ss"} THEN {t.draft} ELSE {})
      /\ DoorOK'
      /\ (t.new # <<>> => Laid(Spots(ElemsOf(ReadIndex(t.new))), After(t), t.pos + IndexPos(t.new)))
            => LaidOK'
    BY <1>8, CommitOf
<1> QED BY <1>3, <1>5, <1>7, <1>9

\* The draft of the thread has no index.
LEMMA NoRewriteIs ==
    ASSUME IInv, IInv', LaidOK, DoorOK, mode = "up", Idle,
           file' = file, drafts' = drafts, renamed' = renamed,
           NEW op \in {"ws", "ds"}, NEW d,
           Commit(Transaction(op, d, None, 0, <<>>, FALSE))
    PROVE  /\ LaidOK' /\ DoorOK' /\ Index' = Index
           /\ UserDrafts' = IF op = "ws" THEN UserDrafts \cup {d} ELSE UserDrafts \ {d}
<1>1. PICK t : t = Transaction(op, d, None, 0, <<>>, FALSE)
    OBVIOUS
<1>2. t.op = op /\ t.draft = d /\ t.new = <<>>
    BY <1>1 DEF Transaction
<1>3. Commit(t) /\ t.op \notin {"sr", "ss"}
    BY <1>1, <1>2
<1>4. /\ Index = Idx(file)
      /\ Index' = IF t.new = <<>> THEN Idx(file) ELSE ReadIndex(t.new)
      /\ UserDrafts = drafts
      /\ UserDrafts' = (drafts \cup (IF t.op = "ws" THEN {t.draft} ELSE {}))
                          \ (IF t.op \in {"ds", "ss"} THEN {t.draft} ELSE {})
      /\ DoorOK'
      /\ (t.new # <<>> => Laid(Spots(ElemsOf(ReadIndex(t.new))), After(t), t.pos + IndexPos(t.new)))
            => LaidOK'
    BY <1>3, CommitOf
<1> QED BY <1>2, <1>4

\* The entries of the log, and the tag of one of them.
Log == ElemsOf(Index)
HasTag(E, x) == \E e \in E : e.id = x /\ e.tag

\* What a commit does to the log and to the drafts of the user.
Saved(d) ==
    /\ UserDrafts' = UserDrafts \cup {d}
    /\ \/ d = NewDraft /\ Log' = Log
       \/ \E e \in Entries : /\ d \in Replies /\ e.id = d /\ ~Stored(e) /\ e.seen = "local"
                             /\ e.tag <=> HasTag(Log, d)
                             /\ Log' = {x \in Log : x.id # d} \cup {e}
Discarded(d) ==
    /\ UserDrafts' = UserDrafts \ {d}
    /\ \/ d = NewDraft /\ Log' = Log
       \/ d \in Replies /\ Log' = {x \in Log : x.id # d}
Marked(x, y) ==
    /\ x \in Log /\ x \in Entries /\ y.id = x.id /\ y.off = x.off /\ y.size = x.size
    /\ Log' = (Log \ {x}) \cup {y} /\ UserDrafts' = UserDrafts
Confirmed(m, right) ==
    \E x \in Log, y \in Entries :
        /\ Marked(x, y) /\ x.id = m /\ m \in Forwarded
        /\ y = IF right THEN [x EXCEPT !.fwd = ""] ELSE [x EXCEPT !.fwd = "failed", !.seen = "no"]
Touches(act, local, i) ==
    \E x \in Log, y \in Entries : Marked(x, y) /\ x.id = i /\ y = Touched(act, local, x) /\ y # x

\* Entries of an index under the door.
LEMMA RemoveDraftEntry ==
    ASSUME NEW idx, NEW end, Sound(idx, end), NEW d \in Replies, NEW G, \A x \in G : ~Stored(x)
    PROVE  Spots({x \in ElemsOf(idx) : x.id # d} \cup G) = Spots(ElemsOf(idx))
<1>1. d \notin Ids
    BY DraftEntryIs
<1>2. PICK E, F : E = ElemsOf(idx) /\ F = {x \in ElemsOf(idx) : x.id = d}
    OBVIOUS
<1>3. F \subseteq E /\ \A x \in F \cup G : ~Stored(x)
    BY <1>1, <1>2, OneEach
<1>4. Spots((E \ F) \cup G) = Spots(E)
    BY ZenonT(40), <1>2, <1>3, SpotsApart
<1>5. E \ F = {x \in ElemsOf(idx) : x.id # d}
    BY <1>2
<1> QED BY <1>2, <1>4, <1>5

\* The commits of the user, of the reader and of the server, one by one.
LEMMA SaveIs ==
    ASSUME IInv, IInv', LaidOK, DoorOK, NEW d \in Drafts, SaveDraft(d), ~(d = NewDraft /\ renamed)
    PROVE  LaidOK' /\ DoorOK' /\ Saved(d)
<1>1. /\ mode = "up" /\ Idle /\ Drafted(d) /\ renamed' = renamed /\ file' = file /\ drafts' = drafts
    BY DEF SaveDraft, DraftRequest, Up, disk
<1>2. file = <<>> \/ Whole(file, 0)
    BY <1>1, RestIs
<1>3. CASE d = NewDraft
    <2>1. Commit(Transaction("ws", NewDraft, None, 0, <<>>, FALSE))
        BY <1>3 DEF SaveDraft
    <2>2. LaidOK' /\ DoorOK' /\ Index' = Index /\ UserDrafts' = UserDrafts \cup {NewDraft}
        BY <1>1, <2>1, NoRewriteIs
    <2> QED BY <1>3, <2>2 DEF Saved, Log
<1>4. CASE d # NewDraft
    <2> DEFINE idx == ReadIndex(file)
               i == Place(idx, d)
               new == IF i = 0 THEN Append(idx, DraftEntry(d, FALSE))
                      ELSE [idx EXCEPT ![i] = DraftEntry(d, @.tag)]
    <2>1. file # <<>> /\ d \in Replies
        BY <1>1, <1>4 DEF Drafted, Drafts
    <2>2. Commit(Transaction("ws", d, None, IndexPos(file), WriteIndex(new), FALSE))
        BY <1>4 DEF SaveDraft
    <2>3. PICK old, pos : old = idx /\ pos = IndexPos(file)
        OBVIOUS
    <2>4. pos \in Nat /\ Sound(old, pos) /\ old \in Seq(Entries)
        BY <1>2, <2>1, <2>3, FileIs
    <2>5. /\ \A x \in ElemsOf(old) : x.id \in IdsOf(old)
          /\ \A x, y \in ElemsOf(old) : x.id = y.id => x = y
        BY <2>4, OneEach
    <2>6. PICK r \in Seq(Entries), e \in Entries :
              /\ r = new /\ e.id = d /\ ~Stored(e) /\ e.seen = "local"
              /\ e.tag <=> HasTag(ElemsOf(old), d)
              /\ ElemsOf(r) = {x \in ElemsOf(old) : x.id # d} \cup {e}
        <3>1. CASE i = 0
            <4>1. d \notin IdsOf(old)
                BY <2>3, <2>4, <3>1, PlaceIs DEF Has
            <4>2. PICK e : e = DraftEntry(d, FALSE)
                OBVIOUS
            <4>3. e \in Entries /\ e.id = d /\ ~Stored(e)
                BY <2>1, <4>2, DraftEntryIs
            <4>4. e.tag = FALSE /\ e.seen = "local"
                BY <4>2 DEF DraftEntry, Entry
            <4>5. ElemsOf(Append(old, e)) = ElemsOf(old) \cup {e} /\ Append(old, e) \in Seq(Entries)
                BY <2>4, <4>3, ElemsAppend
            <4>6. ElemsOf(old) = {x \in ElemsOf(old) : x.id # d} /\ ~HasTag(ElemsOf(old), d)
                BY <2>5, <4>1 DEF HasTag
            <4> QED BY <2>3, <3>1, <4>2, <4>3, <4>4, <4>5, <4>6
        <3>2. CASE i # 0
            <4>1. i \in 1..Len(old) /\ old[i].id = d
                BY <2>3, <2>4, <3>2, PlaceIs DEF Has
            <4>2. old[i] \in Entries /\ old[i].tag \in BOOLEAN
                BY <2>4, <4>1, EntryFields
            <4>3. PICK e : e = DraftEntry(d, old[i].tag)
                OBVIOUS
            <4>4. e \in Entries /\ e.id = d /\ ~Stored(e)
                BY <2>1, <4>2, <4>3, DraftEntryIs
            <4>5. e.tag = old[i].tag /\ e.seen = "local"
                BY <4>3 DEF DraftEntry, Entry
            <4>6. PICK p : p = i
                OBVIOUS
            <4>7. \A j, k \in 1..Len(old) : j # k => old[j].id # old[k].id
                BY <2>4 DEF Sound
            <4>8. PICK r : r = [old EXCEPT ![p] = e]
                OBVIOUS
            <4>9. ElemsOf(r) = (ElemsOf(old) \ {old[p]}) \cup {e}
                <5>1. p \in 1..Len(old)
                    BY <4>1, <4>6
                <5>2. ElemsOf([old EXCEPT ![p] = e]) = (ElemsOf(old) \ {old[p]}) \cup {e}
                    BY <2>4, <4>4, <4>7, <5>1, ElemsExcept
                <5> QED BY <4>8, <5>2
            <4>10. r \in Seq(Entries)
                BY <2>4, <4>1, <4>4, <4>6, <4>8, ExceptSeq
            <4>11. old[p] \in ElemsOf(old)
                BY <4>1, <4>6 DEF ElemsOf
            <4>12. ElemsOf(old) \ {old[p]} = {x \in ElemsOf(old) : x.id # d}
                BY <2>5, <4>1, <4>6, <4>11
            <4>13. e.tag <=> HasTag(ElemsOf(old), d)
                BY <2>5, <4>1, <4>2, <4>5, <4>6, <4>11 DEF HasTag
            <4>14. r = new
                BY <2>3, <3>2, <4>3, <4>6, <4>8
            <4> QED BY <4>4, <4>5, <4>9, <4>10, <4>12, <4>13, <4>14
        <3> QED BY <3>1, <3>2
    <2>7. Spots(ElemsOf(r)) = Spots(ElemsOf(old))
        <3>1. PICK G : G = {e}
            OBVIOUS
        <3>2. \A x \in G : ~Stored(x)
            BY <2>6, <3>1
        <3>3. Spots({x \in ElemsOf(old) : x.id # d} \cup G) = Spots(ElemsOf(old))
            BY <2>1, <2>4, <3>2, RemoveDraftEntry
        <3> QED BY <2>6, <3>1, <3>3
    <2>8. PICK local : local = FALSE
        OBVIOUS
    <2>9. Commit(Transaction("ws", d, None, IndexPos(file), WriteIndex(r), local)) /\ old = ReadIndex(file)
        BY <2>2, <2>3, <2>6, <2>8
    <2> HIDE DEF new
    <2>10. PICK op \in {"ws", "ds", "sc", "nr"} : op = "ws"
        OBVIOUS
    <2>11. Commit(Transaction(op, d, None, IndexPos(file), WriteIndex(r), local))
        BY <2>9, <2>10
    <2>12. /\ LaidOK' /\ DoorOK' /\ Index = old /\ Index' = r
           /\ UserDrafts' = IF op = "ws" THEN UserDrafts \cup {d}
                            ELSE IF op = "ds" THEN UserDrafts \ {d} ELSE UserDrafts
        BY <1>1, <2>1, <2>6, <2>7, <2>9, <2>11, RewriteIs
    <2> QED BY <2>1, <2>6, <2>10, <2>12 DEF Saved, Log
<1> QED BY <1>3, <1>4

LEMMA DiscardIs ==
    ASSUME IInv, IInv', LaidOK, DoorOK, NEW d \in Drafts, DiscardDraft(d), ~(d = NewDraft /\ renamed)
    PROVE  LaidOK' /\ DoorOK' /\ Discarded(d)
<1>1. /\ mode = "up" /\ Idle /\ Drafted(d) /\ renamed' = renamed /\ file' = file /\ drafts' = drafts
    BY DEF DiscardDraft, DraftRequest, Up, disk
<1>2. file = <<>> \/ Whole(file, 0)
    BY <1>1, RestIs
<1>3. CASE d = NewDraft
    <2>1. Commit(Transaction("ds", NewDraft, None, 0, <<>>, FALSE))
        BY <1>3 DEF DiscardDraft
    <2>2. LaidOK' /\ DoorOK' /\ Index' = Index /\ UserDrafts' = UserDrafts \ {NewDraft}
        BY <1>1, <2>1, NoRewriteIs
    <2> QED BY <1>3, <2>2 DEF Discarded, Log
<1>4. CASE d # NewDraft
    <2> DEFINE idx == ReadIndex(file)
               new == RemoveAt(idx, Place(idx, d))
    <2>1. file # <<>> /\ d \in Replies
        BY <1>1, <1>4 DEF Drafted, Drafts
    <2>2. Commit(Transaction("ds", d, None, IndexPos(file), WriteIndex(new), FALSE)) /\ Has(idx, d)
        BY <1>4 DEF DiscardDraft
    <2>3. PICK old, pos, i : old = idx /\ pos = IndexPos(file) /\ i = Place(idx, d)
        OBVIOUS
    <2>4. pos \in Nat /\ Sound(old, pos) /\ old \in Seq(Entries)
        BY <1>2, <2>1, <2>3, FileIs
    <2>5. i \in 1..Len(old) /\ old[i].id = d
        BY <2>2, <2>3, <2>4, PlaceIs
    <2>6. PICK r : r = RemoveAt(old, i)
        OBVIOUS
    <2>7. ElemsOf(r) = {x \in ElemsOf(old) : x.id # d}
        <3>1. \A j, k \in 1..Len(old) : j # k => old[j].id # old[k].id
            BY <2>4 DEF Sound
        <3>2. ElemsOf(r) = ElemsOf(old) \ {old[i]}
            BY <2>4, <2>5, <2>6, <3>1, ElemsRemove
        <3>3. old[i] \in ElemsOf(old)
            BY <2>5 DEF ElemsOf
        <3>4. \A x, y \in ElemsOf(old) : x.id = y.id => x = y
            BY <2>4, OneEach
        <3> QED BY <2>5, <3>2, <3>3, <3>4
    <2>8. r \in Seq(Entries)
        BY <2>4, <2>5, <2>6, RemoveIs
    <2>9. Spots(ElemsOf(r)) = Spots(ElemsOf(old))
        <3>1. PICK G : G = {}
            OBVIOUS
        <3>2. \A x \in G : ~Stored(x)
            BY <3>1
        <3>3. Spots({x \in ElemsOf(old) : x.id # d} \cup G) = Spots(ElemsOf(old))
            BY <2>1, <2>4, <3>2, RemoveDraftEntry
        <3> QED BY <2>7, <3>1, <3>3
    <2>10. PICK local \in BOOLEAN, op \in {"ws", "ds", "sc", "nr"} : local = FALSE /\ op = "ds"
        OBVIOUS
    <2>11. Commit(Transaction(op, d, None, IndexPos(file), WriteIndex(r), local)) /\ old = ReadIndex(file)
        BY <2>2, <2>3, <2>6, <2>10
    <2>12. /\ LaidOK' /\ DoorOK' /\ Index = old /\ Index' = r
           /\ UserDrafts' = IF op = "ws" THEN UserDrafts \cup {d}
                            ELSE IF op = "ds" THEN UserDrafts \ {d} ELSE UserDrafts
        BY <1>1, <2>1, <2>8, <2>9, <2>11, RewriteIs
    <2> QED BY <2>1, <2>7, <2>10, <2>12 DEF Discarded, Log
<1> QED BY <1>3, <1>4

\* One entry of the index is written again.
LEMMA ReentryIs ==
    ASSUME IInv, IInv', LaidOK, DoorOK, mode = "up", Idle, file # <<>>,
           file' = file, drafts' = drafts, renamed' = renamed,
           NEW op \in {"sc", "nr"}, NEW m, NEW local,
           NEW x, Has(ReadIndex(file), x),
           NEW z, z = ReadIndex(file)[Place(ReadIndex(file), x)],
           NEW e \in Entries, e.id = z.id, e.off = z.off, e.size = z.size,
           Commit(Transaction(op, None, m, IndexPos(file),
                              WriteIndex([ReadIndex(file) EXCEPT ![Place(ReadIndex(file), x)] = e]), local))
    PROVE  LaidOK' /\ DoorOK' /\ z.id = x /\ z \in Log /\ Marked(z, e)
<1>1. PICK old, i : old = ReadIndex(file) /\ i = Place(old, x)
    OBVIOUS
<1>2. Whole(file, 0)
    BY RestIs
<1>3. PICK pos \in Nat : Sound(old, pos) /\ old \in Seq(Entries)
    BY <1>1, <1>2, FileIs
<1>4. i \in 1..Len(old) /\ old[i] = z /\ z.id = x
    BY <1>1, <1>3, PlaceIs
<1>5. PICK r : r = [old EXCEPT ![i] = e]
    OBVIOUS
<1>6. \A j, k \in 1..Len(old) : j # k => old[j].id # old[k].id
    BY <1>3 DEF Sound
<1>7. ElemsOf(r) = (ElemsOf(old) \ {z}) \cup {e}
    <2>1. ElemsOf([old EXCEPT ![i] = e]) = (ElemsOf(old) \ {old[i]}) \cup {e}
        BY <1>3, <1>4, <1>6, ElemsExcept
    <2> QED BY <1>4, <1>5, <2>1
<1>8. r \in Seq(Entries)
    BY <1>3, <1>4, <1>5, ExceptSeq
<1>9. z \in ElemsOf(old) /\ z \in Entries
    BY <1>3, <1>4 DEF ElemsOf
<1>10. Spot(e) = Spot(z)
    BY DEF Spot
<1>11. Spots(ElemsOf(r)) = Spots(ElemsOf(old))
    <2>1. PICK E : E = ElemsOf(old)
        OBVIOUS
    <2>2. Spots((E \ {z}) \cup {e}) \subseteq Spots(E) /\ Spots(E) \subseteq Spots((E \ {z}) \cup {e})
        BY SMTT(30), <1>9, <1>10, <2>1, SpotsSame
    <2> QED BY <1>7, <2>1, <2>2
<1>12. Commit(Transaction(op, None, m, IndexPos(file), WriteIndex(r), local))
    BY <1>1, <1>5
<1>13. /\ LaidOK' /\ DoorOK' /\ Index = old /\ Index' = r
       /\ UserDrafts' = IF op = "ws" THEN UserDrafts \cup {None}
                        ELSE IF op = "ds" THEN UserDrafts \ {None} ELSE UserDrafts
    BY <1>1, <1>8, <1>11, <1>12, RewriteIs
<1>14. UserDrafts' = UserDrafts
    BY <1>13
<1> QED BY <1>4, <1>7, <1>9, <1>13, <1>14 DEF Marked, Log

LEMMA ConfirmIs ==
    ASSUME IInv, IInv', LaidOK, DoorOK, NEW m \in Ids, NEW right \in BOOLEAN, Confirm(m, right)
    PROVE  LaidOK' /\ DoorOK' /\ Confirmed(m, right)
<1> DEFINE idx == ReadIndex(file)
           i == Place(idx, m)
           el == IF right THEN [idx[i] EXCEPT !.fwd = ""]
                 ELSE [idx[i] EXCEPT !.fwd = "failed", !.seen = "no"]
<1>1. /\ mode = "up" /\ Idle /\ m \in Forwarded
      /\ file' = file /\ drafts' = drafts /\ renamed' = renamed
      /\ Commit(Transaction("sc", None, m, IndexPos(file), WriteIndex([idx EXCEPT ![i] = el]), FALSE))
    BY DEF Confirm, ReaderFree, Up, disk
<1>2. m \in IdsOf(Idx(file))
    BY <1>1, RestIs DEF IInv, GotOK
<1>3. file # <<>>
    BY <1>2, NoIds
<1>4. idx \in Seq(Entries) /\ m \in IdsOf(idx)
    BY <1>1, <1>2, <1>3, RestIs, FileIs
<1>5. Has(idx, m) /\ i \in 1..Len(idx) /\ idx[i] \in Entries
    BY <1>4, PlaceIs
<1>6. PICK z : z = idx[i]
    OBVIOUS
<1>7. z \in Entries
    BY <1>5, <1>6
<1>8. PICK e : e = IF right THEN [z EXCEPT !.fwd = ""] ELSE [z EXCEPT !.fwd = "failed", !.seen = "no"]
    OBVIOUS
<1>9. e \in Entries /\ e.id = z.id /\ e.off = z.off /\ e.size = z.size
    BY <1>7, <1>8 DEF Entries
<1>10. Commit(Transaction("sc", None, m, IndexPos(file), WriteIndex([idx EXCEPT ![i] = e]), FALSE))
    BY <1>1, <1>6, <1>8
<1>11. LaidOK' /\ DoorOK' /\ z.id = m /\ z \in Log /\ Marked(z, e)
    <2>1. PICK op \in {"sc", "nr"}, local \in BOOLEAN : op = "sc" /\ local = FALSE
        OBVIOUS
    <2>2. Commit(Transaction(op, None, m, IndexPos(file), WriteIndex([idx EXCEPT ![i] = e]), local))
        BY <1>10, <2>1
    <2> HIDE DEF el
    <2> QED BY <1>1, <1>3, <1>5, <1>6, <1>9, <2>2, ReentryIs
<1> QED BY <1>1, <1>8, <1>9, <1>11 DEF Confirmed

LEMMA TouchIs ==
    ASSUME IInv, IInv', LaidOK, DoorOK, mode = "up", Idle, NEW act \in Acts, NEW local \in BOOLEAN, NEW x,
           file' = file, drafts' = drafts, renamed' = renamed,
           TouchChanges(act, local, x), CommitTouch(act, local, x)
    PROVE  LaidOK' /\ DoorOK' /\ Touches(act, local, x)
<1> DEFINE idx == ReadIndex(file)
           i == Place(idx, x)
<1>1. file # <<>> /\ Has(idx, x) /\ Touched(act, local, idx[i]) # idx[i]
    BY DEF TouchChanges
<1>2. idx \in Seq(Entries)
    BY <1>1, RestIs, FileIs
<1>3. i \in 1..Len(idx) /\ idx[i] \in Entries
    BY <1>1, <1>2, PlaceIs
<1>4. PICK z, e : z = idx[i] /\ e = Touched(act, local, z)
    OBVIOUS
<1>5. e \in Entries /\ e.id = z.id /\ e.off = z.off
    BY <1>3, <1>4, TouchedIs
<1>6. e.size = z.size
    BY <1>3, <1>4 DEF Touched, Acts, Entries
<1>7. Commit(Transaction("nr", None, None, IndexPos(file), WriteIndex([idx EXCEPT ![i] = e]), local))
    BY <1>4 DEF CommitTouch
<1>8. LaidOK' /\ DoorOK' /\ z.id = x /\ z \in Log /\ Marked(z, e)
    BY <1>1, <1>4, <1>5, <1>6, <1>7, ReentryIs
<1> QED BY <1>1, <1>4, <1>5, <1>8 DEF Touches

\* A message comes, from somebody else or in the place of a draft.
Received(m) ==
    /\ UserDrafts' = UserDrafts
    /\ \E e \in Entries, o \in Nat :
          /\ e.id = m /\ m \notin IdsOf(Index) /\ e.off = 0
          /\ e.seen \in {"no", "local"} /\ e.tag = FALSE
          /\ Log' = {Shifted(x, e) : x \in Log} \cup {[e EXCEPT !.off = o]}
Replaced(d, m) ==
    /\ UserDrafts' = UserDrafts \ {d} /\ d \in UserDrafts
    /\ \E e \in Entries :
          /\ e.id = m /\ m \notin IdsOf(Index) /\ Stored(e) /\ e.seen = "local"
          /\ e.tag <=> (d = NewDraft \/ HasTag(Log, d))
          /\ (d = NewDraft => Log = {})
          /\ Log' = {x \in Log : x.id # d} \cup {e}

\* The message m goes to at, before the cells mv, and r is the new index.
Placing(pos, at, m, mv, r) ==
    /\ Room(pos, at, mv) /\ IF file = <<>> THEN pos = 0 ELSE pos = IndexPos(file)
    /\ m \in Ids /\ m \notin IdsOf(Idx(file)) /\ r \in Seq(Entries)
    /\ Opens(Spots(ElemsOf(Idx(file))), m, pos, at)
    /\ Spots(ElemsOf(r)) = {Moved(x, m, Size[m]) : x \in Spots(ElemsOf(Idx(file)))}
                              \cup {[id |-> m, off |-> at, size |-> Size[m]]}

LEMMA PutIs ==
    ASSUME IInv, IInv', LaidOK, DoorOK, mode = "up", Idle,
           file' = file, drafts' = drafts,
           NEW op \in {"sr", "ss"}, renamed' => renamed \/ op = "ss", NEW d, NEW local,
           NEW pos, NEW at, NEW m, NEW mv, NEW r, Placing(pos, at, m, mv, r),
           Commit(Transaction(op, d, m, at, (Body(m) \o mv) \o WriteIndex(r), local))
    PROVE  /\ LaidOK' /\ DoorOK' /\ Index = Idx(file) /\ Index' = r /\ UserDrafts = drafts
           /\ UserDrafts' = IF op = "ss" THEN UserDrafts \ {d} ELSE UserDrafts
<1>1. PICK new, t : new = (Body(m) \o mv) \o WriteIndex(r) /\ t = Transaction(op, d, m, at, new, local)
    OBVIOUS
<1>2. t.op = op /\ t.draft = d /\ t.pos = at /\ t.new = (Body(m) \o mv) \o WriteIndex(r)
    BY <1>1 DEF Transaction
<1>3. Room(pos, at, mv) /\ m \in Ids /\ r \in Seq(Entries)
    BY DEF Placing
<1>4. /\ IF file = <<>> THEN pos = 0 ELSE pos = IndexPos(file)
      /\ m \notin IdsOf(Idx(file))
      /\ Opens(Spots(ElemsOf(Idx(file))), m, pos, at)
      /\ Spots(ElemsOf(r)) = {Moved(x, m, Size[m]) : x \in Spots(ElemsOf(Idx(file)))}
                                \cup {[id |-> m, off |-> at, size |-> Size[m]]}
    BY DEF Placing
<1>5. Pending = {} /\ (file = <<>> \/ Whole(file, 0))
    BY RestIs
<1>6. PICK S : S = Spots(ElemsOf(Idx(file)))
    OBVIOUS
<1>7. /\ Laid(S, file, pos)
      /\ \A x \in S : x.id \in Nat /\ x.id # m
      /\ \A x, y \in S : x.id = y.id => x = y
    <2>1. CASE file = <<>>
        <3>1. S = {}
            BY <1>6, <2>1, ElemsNone DEF Idx, Spots
        <3>2. pos = 0 /\ 1..0 = {}
            BY <1>4, <2>1
        <3> QED BY <3>1, <3>2 DEF Laid
    <2>2. CASE file # <<>>
        <3>1. pos = IndexPos(file) /\ Idx(file) = ReadIndex(file) /\ Sound(ReadIndex(file), pos)
            BY <1>5, <1>4, <2>2, FileIs
        <3>2. Laid(S, file, pos)
            BY <1>5, <1>6, <2>2, <3>1 DEF LaidOK
        <3>3. /\ \A x \in S : x.id \in Nat /\ x.id \in IdsOf(Idx(file))
              /\ \A x, y \in S : x.id = y.id => x = y
            BY <1>6, <3>1, SpotsOneEach
        <3> QED BY <1>4, <3>2, <3>3
    <2> QED BY <2>1, <2>2
<1>8. /\ ReadIndex(t.new) = r /\ t.new # <<>>
      /\ Laid({Moved(x, m, Size[m]) : x \in S} \cup {[id |-> m, off |-> at, size |-> Size[m]]},
              After(t), t.pos + IndexPos(t.new))
    <2>1. Fit(S, pos, m, at)
        BY <1>6, <1>7, <1>4 DEF Fit
    <2>2. m \in Ids /\ r \in Seq(Entries) /\ Room(pos, at, mv)
        BY <1>3
    <2>3. Written(t, r, S, m, at)
        BY <1>2, <2>1, <2>2, LaidPut
    <2> QED BY <2>3 DEF Written
<1>9. Laid(Spots(ElemsOf(ReadIndex(t.new))), After(t), t.pos + IndexPos(t.new))
    BY <1>6, <1>8, <1>4
<1>10. Commit(t)
    BY <1>1
<1>11. /\ Index = Idx(file)
       /\ Index' = IF t.new = <<>> THEN Idx(file) ELSE ReadIndex(t.new)
       /\ UserDrafts = drafts
       /\ UserDrafts' = (drafts \cup (IF t.op = "ws" THEN {t.draft} ELSE {}))
                           \ (IF t.op \in {"ds", "ss"} THEN {t.draft} ELSE {})
       /\ DoorOK'
       /\ (t.new # <<>> => Laid(Spots(ElemsOf(ReadIndex(t.new))), After(t), t.pos + IndexPos(t.new)))
            => LaidOK'
    BY <1>8, <1>10, CommitOf
<1> QED BY <1>2, <1>8, <1>9, <1>11

\* The first message of a thread.
LEMMA FirstIs ==
    ASSUME IInv, IInv', LaidOK, DoorOK, mode = "up", Idle, file = <<>>,
           file' = file, drafts' = drafts,
           NEW op \in {"sr", "ss"}, renamed' => renamed \/ op = "ss", NEW d, NEW local,
           NEW e \in Entries, e.id = Tid, e.off = 0, e.size = Size[Tid],
           Commit(Transaction(op, d, Tid, 0, Body(Tid) \o WriteIndex(<<e>>), local))
    PROVE  /\ LaidOK' /\ DoorOK' /\ Index = <<>> /\ Index' = <<e>> /\ UserDrafts = drafts
           /\ UserDrafts' = IF op = "ss" THEN UserDrafts \ {d} ELSE UserDrafts
<1>1. PICK m \in Ids : m = Tid
    BY IdAssumption DEF Tid, Ids
<1>2. PICK n \in Nat, mv \in Seq(Cell) : n = 0 /\ mv = <<>> /\ Len(mv) = n - n
    <2>1. 0 \in Nat /\ <<>> \in Seq(Cell) /\ Len(<<>>) = 0 - 0
        OBVIOUS
    <2> QED BY <2>1
<1>3. Idx(file) = <<>> /\ IdsOf(Idx(file)) = {} /\ ElemsOf(Idx(file)) = {}
    BY NoIds, ElemsNone DEF Idx
<1>4. PICK r \in Seq(Entries) : r = <<e>>
    <2>1. <<e>> \in Seq(Entries)
        OBVIOUS
    <2> QED BY <2>1
<1>5. Spots(ElemsOf(Idx(file))) = {}
    BY <1>3 DEF Spots
<1>6. Opens(Spots(ElemsOf(Idx(file))), m, n, n)
    BY <1>5 DEF Opens
<1>7. Spots(ElemsOf(r)) = {Moved(x, m, Size[m]) : x \in Spots(ElemsOf(Idx(file)))}
                             \cup {[id |-> m, off |-> n, size |-> Size[m]]}
    <2>1. ElemsOf(r) = {e}
        BY <1>4, ElemsOne
    <2>2. Stored(e) /\ Spot(e) = [id |-> m, off |-> n, size |-> Size[m]]
        BY <1>1, <1>2 DEF Stored, Spot
    <2>3. Spots({e}) = {Spot(e)}
        BY <2>2 DEF Spots
    <2> QED BY <1>5, <2>1, <2>2, <2>3
<1>8. PICK b \in Seq(Cell) : b = Body(m) /\ b \o <<>> = b
    BY BodyIs, ConcatEmptySeq
<1>9. Commit(Transaction(op, d, m, n, (Body(m) \o mv) \o WriteIndex(r), local))
    BY <1>1, <1>2, <1>4, <1>8
<1>10. /\ n <= n /\ Len(mv) = n - n /\ \A i \in 1..(n - n) : mv[i] = file[n + i]
       /\ m \notin IdsOf(Idx(file))
       /\ IF file = <<>> THEN n = 0 ELSE n = IndexPos(file)
    <2>1. n - n = 0 /\ 1..0 = {}
        OBVIOUS
    <2> QED BY <1>2, <1>3, <2>1
<1>11. /\ LaidOK' /\ DoorOK' /\ Index = Idx(file) /\ Index' = r /\ UserDrafts = drafts
       /\ UserDrafts' = IF op = "ss" THEN UserDrafts \ {d} ELSE UserDrafts
    <2>1. Placing(n, n, m, mv, r)
        BY <1>6, <1>7, <1>10 DEF Placing, Room
    <2> QED BY <1>9, <2>1, PutIs
<1> QED BY <1>3, <1>4, <1>11

LEMMA ReceiveIs ==
    ASSUME IInv, IInv', LaidOK, DoorOK, LateAcks = FALSE, NEW m \in Ids, Receive(m), ~Discards(m)
    PROVE  LaidOK' /\ DoorOK' /\ Received(m)
<1> DEFINE old == ReadIndex(file)
           pos == IndexPos(file)
           seen == IF m \in Own THEN "local" ELSE "no"
           e == Entry(m, 0, Size[m], seen, FALSE, "")
           idx == IF m = Tid THEN <<e>> ELSE Insert(old, pos, e)
           at == idx[Place(idx, m)].off
           moved == IF m = Tid THEN <<>> ELSE SubSeq(file, at + 1, pos)
<1>1. /\ mode = "up" /\ Idle
      /\ m # Tid => file # <<>>
      /\ file' = file /\ drafts' = drafts /\ renamed' = renamed
    BY DEF Receive, ReaderFree, InOrder, Up, disk
<1>2. Commit(Transaction("sr", None, m, at, Body(m) \o moved \o WriteIndex(idx), FALSE))
    BY DEF Receive
<1>3. Index = Idx(file) /\ (file = <<>> \/ Whole(file, 0))
    BY <1>1, RestIs
<1>4. PICK f : f = e
    OBVIOUS
<1>5. /\ f \in Entries /\ f.id = m /\ f.off = 0 /\ f.size = Size[m] /\ Stored(f)
      /\ f.seen \in {"no", "local"} /\ f.tag = FALSE
    <2>1. f = [id |-> m, off |-> 0, size |-> Size[m], seen |-> seen, tag |-> FALSE, fwd |-> ""]
        BY <1>4 DEF Entry
    <2>2. seen \in {"no", "local"} /\ Size[m] \in Nat /\ 0 \in Int /\ 0 >= 0
        BY IdAssumption
    <2> HIDE DEF seen
    <2>3. /\ f \in Entries /\ f.id = m /\ f.off = 0 /\ f.size = Size[m]
          /\ f.seen \in {"no", "local"} /\ f.tag = FALSE
        BY <2>1, <2>2 DEF Entries
    <2> QED BY <2>2, <2>3 DEF Stored
<1>6. PICK op \in {"sr", "ss"}, local \in {FALSE} : op = "sr" /\ local = FALSE
    OBVIOUS
<1>7. CASE m = Tid
    <2>1. file = <<>>
        BY <1>7 DEF Discards
    <2>2. idx = <<f>>
        BY <1>4, <1>7
    <2>3. at = 0
        <3>1. <<f>> \in Seq(Entries) /\ Len(<<f>>) = 1 /\ <<f>>[1] = f
            BY <1>5
        <3>2. m \in IdsOf(<<f>>)
            <4>1. 1 \in 1..1
                OBVIOUS
            <4> QED BY <1>5, <3>1, <4>1 DEF IdsOf
        <3>3. Place(<<f>>, m) \in 1..1
            BY <3>1, <3>2, PlaceIs
        <3>4. <<f>>[Place(<<f>>, m)].off = 0
            BY <1>5, <3>1, <3>3
        <3> QED BY <2>2, <3>4
    <2>4. Body(Tid) \o moved = Body(Tid)
        <3>1. PICK b \in Seq(Cell) : b = Body(Tid)
            BY <1>7, BodyIs
        <3>2. b \o <<>> = b
            BY <3>1, ConcatEmptySeq
        <3> QED BY <1>7, <3>1, <3>2
    <2>5. Commit(Transaction(op, None, Tid, 0, Body(Tid) \o WriteIndex(<<f>>), local))
        BY <1>2, <1>6, <1>7, <2>2, <2>3, <2>4
    <2>6. f.id = Tid /\ f.size = Size[Tid]
        BY <1>5, <1>7
    <2> HIDE DEF e, seen, old, pos, idx, at, moved
    <2>7. /\ LaidOK' /\ DoorOK' /\ Index = <<>> /\ Index' = <<f>> /\ UserDrafts = drafts
          /\ UserDrafts' = IF op = "ss" THEN UserDrafts \ {None} ELSE UserDrafts
        BY ZenonT(40), <1>1, <1>5, <2>1, <2>5, <2>6, FirstIs
    <2>8. Log = {} /\ Log' = {f} /\ m \notin IdsOf(Index)
        BY <1>5, <2>7, ElemsNone, ElemsOne, NoIds DEF Log
    <2>9. [f EXCEPT !.off = 0] = f
        BY <1>5 DEF Entries
    <2>10. PICK o \in Nat : o = 0
        OBVIOUS
    <2>11. Log' = {Shifted(x, f) : x \in Log} \cup {[f EXCEPT !.off = o]}
        BY <2>8, <2>9, <2>10
    <2>12. UserDrafts' = UserDrafts
        BY <1>6, <2>7
    <2> QED BY <1>5, <2>7, <2>8, <2>11, <2>12 DEF Received
<1>8. CASE m # Tid
    <2>1. file # <<>> /\ Whole(file, 0)
        BY <1>1, <1>3, <1>8
    <2>2. PICK p, q : p = pos /\ q = old
        OBVIOUS
    <2>3. /\ file \in Seq(Cell) /\ q \in Seq(Entries) /\ p \in Nat /\ p <= Len(file) /\ Len(file) \in Nat
          /\ Sound(q, p) /\ Idx(file) = q
        BY <2>1, <2>2, FileIs
    <2>4. m \notin IdsOf(q)
        BY <1>8, <2>2, <2>3, PlaceIs DEF Discards
    <2>5. PICK r : r = Insert(q, p, f)
        OBVIOUS
    <2>6. PICK n : n = r[Place(r, m)].off
        OBVIOUS
    <2>7. n \in Nat /\ n <= p /\ r \in Seq(Entries)
        <3>1. /\ Sound(r, p + f.size) /\ r[Place(r, f.id)].off \in Nat /\ r[Place(r, f.id)].off <= p
            BY <1>5, <2>3, <2>4, <2>5, SoundInsert
        <3> QED BY <1>5, <2>6, <3>1 DEF Sound
    <2>8. idx = r /\ at = n
        BY <1>4, <1>8, <2>2, <2>5, <2>6
    <2>9. PICK mv : mv = SubSeq(file, n + 1, p)
        OBVIOUS
    <2>10. moved = mv
        BY <1>8, <2>2, <2>8, <2>9
    <2>11. Room(p, n, mv)
        <3>1. PICK k \in Nat : k = p - n
            BY <2>3, <2>7
        <3>2. \A i \in n + 1..p : file[i] \in Cell
            <4>1. \A i \in n + 1..p : i \in 1..Len(file)
                BY <2>3, <2>7
            <4> QED BY <2>3, <4>1
        <3>3. /\ mv \in Seq(Cell) /\ Len(mv) = IF n + 1 <= p THEN p - (n + 1) + 1 ELSE 0
              /\ \A i \in 1..(p - (n + 1) + 1) : mv[i] = file[(n + 1) + i - 1]
            BY <2>3, <2>7, <2>9, <3>2, SubSeqProperties
        <3>4. (IF n + 1 <= p THEN p - (n + 1) + 1 ELSE 0) = p - n /\ p - (n + 1) + 1 = p - n
            BY <2>3, <2>7
        <3>5. \A i \in 1..(p - n) : (n + 1) + i - 1 = n + i
            BY <2>7
        <3> QED BY <2>3, <2>7, <3>3, <3>4, <3>5 DEF Room
    <2>12. /\ ElemsOf(r) = {Shifted(x, f) : x \in ElemsOf(q)} \cup {[f EXCEPT !.off = n]}
           /\ Gap(ElemsOf(q), f, p, n)
        <3>1. f.id \in Ids /\ f.id \notin IdsOf(q) /\ n = r[Place(r, f.id)].off
            BY <1>5, <2>4, <2>6
        <3> HIDE DEF e, seen, old, pos, idx, at, moved
        <3> QED BY <1>5, <2>3, <2>5, <3>1, ElemsInsert
    <2>13. Opens(Spots(ElemsOf(q)), m, p, n)
        BY <1>5, <2>12, GapOpens
    <2>14. Spots(ElemsOf(r)) = {Moved(s, m, Size[m]) : s \in Spots(ElemsOf(q))}
                                  \cup {[id |-> m, off |-> n, size |-> Size[m]]}
        <3>1. PICK E : E = ElemsOf(q)
            OBVIOUS
        <3>2. \A x \in E : x \in Entries
            BY <2>3, <3>1, OneEach
        <3>3. Spots({Shifted(x, f) : x \in E} \cup {[f EXCEPT !.off = n]})
                 = {Moved(s, f.id, f.size) : s \in Spots(E)} \cup {[id |-> f.id, off |-> n, size |-> f.size]}
            BY <1>5, <2>7, <3>2, SpotsInsert
        <3> QED BY <1>5, <2>12, <3>1, <3>3
    <2>15. Placing(p, n, m, mv, r)
        BY <2>1, <2>2, <2>3, <2>4, <2>7, <2>11, <2>13, <2>14 DEF Placing
    <2>16. Commit(Transaction(op, None, m, n, (Body(m) \o mv) \o WriteIndex(r), local))
        BY <1>2, <1>6, <2>8, <2>10
    <2> HIDE DEF e, seen, old, pos, idx, at, moved
    <2>17. /\ LaidOK' /\ DoorOK' /\ Index = Idx(file) /\ Index' = r /\ UserDrafts = drafts
           /\ UserDrafts' = IF op = "ss" THEN UserDrafts \ {None} ELSE UserDrafts
        BY <1>1, <2>15, <2>16, PutIs
    <2>18. Index = q /\ UserDrafts' = UserDrafts
        BY <1>6, <2>3, <2>17
    <2>19. Log' = {Shifted(x, f) : x \in Log} \cup {[f EXCEPT !.off = n]}
        BY <2>12, <2>17, <2>18 DEF Log
    <2>20. m \notin IdsOf(Index)
        BY <2>4, <2>18
    <2> QED BY <1>5, <2>7, <2>17, <2>18, <2>19, <2>20 DEF Received
<1> QED BY <1>7, <1>8

\* The draft of an ack becomes a message at the end of the file.
LEMMA ReplacedIs ==
    ASSUME IInv, IInv', LaidOK, DoorOK, StoreSent, ~(opened.draft = NewDraft /\ renamed)
    PROVE  /\ opened.draft \in Drafts /\ opened.mid \in Ids
           /\ LaidOK' /\ DoorOK' /\ Replaced(opened.draft, opened.mid)
<1>1. PICK d, m, old, pos, at : /\ d = opened.draft /\ m = opened.mid
                                /\ old = ReadIndex(file) /\ pos = IndexPos(file) /\ at = PlaceOrLast(old, d)
    OBVIOUS
<1> DEFINE el == Entry(m, pos, Size[m], "local", old[at].tag, "")
           first == Entry(m, 0, Size[m], "local", TRUE, "")
           new == IF d = NewDraft THEN WriteIndex(<<first>>)
                  ELSE WriteIndex(Append(RemoveAt(old, at), el))
<1>2. /\ mode = "up" /\ Idle /\ opened # None
      /\ Commit(Transaction("ss", d, m, IF d = NewDraft THEN 0 ELSE pos, Body(m) \o new, FALSE))
      /\ file' = file /\ drafts' = drafts /\ (renamed' => renamed \/ d = NewDraft)
    BY <1>1 DEF StoreSent, Up, disk
<1>3. d \in Drafts /\ m \in Ids /\ d \in drafts
    BY <1>1, <1>2 DEF IInv, Types, OpenedOK
<1>4. /\ <<d, m>> \in InFlight
      /\ d = NewDraft => m = Tid
      /\ d # NewDraft => m # Tid /\ \A x \in IdsOf(Index) \cap Ids : x < m
    <2>1. <<d, m>> \in InFlight
        BY <1>1, <1>2 DEF InFlight
    <2> QED BY <2>1 DEF IInv, FlightOK
<1>5. Index = Idx(file) /\ (file = <<>> \/ Whole(file, 0)) /\ Pending = {}
    BY <1>2, RestIs
<1>6. PICK op \in {"sr", "ss"}, local \in {FALSE} : op = "ss" /\ local = FALSE
    OBVIOUS
<1>7. CASE d = NewDraft
    <2>1. file = <<>> /\ m = Tid
        BY <1>3, <1>4, <1>7 DEF IInv, NewOK
    <2>2. PICK f : f = first
        OBVIOUS
    <2>3. /\ f \in Entries /\ f.id = Tid /\ f.off = 0 /\ f.size = Size[Tid] /\ Stored(f)
          /\ f.seen = "local" /\ f.tag = TRUE
        <3>1. Size[m] \in Nat /\ 0 \in Int /\ 0 >= 0
            BY <1>3, IdAssumption
        <3>2. f = [id |-> m, off |-> 0, size |-> Size[m], seen |-> "local", tag |-> TRUE, fwd |-> ""]
            BY <2>2 DEF Entry
        <3>3. f \in Entries /\ f.id = m /\ f.off = 0 /\ f.size = Size[m] /\ f.seen = "local" /\ f.tag = TRUE
            BY <1>3, <3>1, <3>2 DEF Entries
        <3> QED BY <2>1, <3>1, <3>3 DEF Stored
    <2>4. Commit(Transaction(op, d, Tid, 0, Body(Tid) \o WriteIndex(<<f>>), local))
        BY <1>2, <1>6, <1>7, <2>1, <2>2
    <2> HIDE DEF el, first, new
    <2>5. /\ LaidOK' /\ DoorOK' /\ Index = <<>> /\ Index' = <<f>> /\ UserDrafts = drafts
          /\ UserDrafts' = IF op = "ss" THEN UserDrafts \ {d} ELSE UserDrafts
        BY <1>2, <1>6, <2>1, <2>3, <2>4, FirstIs
    <2>6. Log = {} /\ Log' = {f} /\ m \notin IdsOf(Index)
        BY <2>3, <2>5, ElemsNone, ElemsOne, NoIds DEF Log
    <2>7. Log' = {x \in Log : x.id # d} \cup {f}
        BY <2>6
    <2>8. UserDrafts' = UserDrafts \ {d} /\ d \in UserDrafts
        BY <1>3, <1>6, <2>5
    <2>9. f.id = m /\ (f.tag <=> (d = NewDraft \/ HasTag(Log, d)))
        BY <1>7, <2>1, <2>3
    <2>10. Replaced(d, m)
        BY <2>3, <2>6, <2>7, <2>8, <2>9 DEF Replaced
    <2> QED BY <1>1, <1>3, <2>5, <2>10
<1>8. CASE d # NewDraft
    <2>1. d \in IdsOf(Idx(file)) /\ d \in Replies
        BY <1>3, <1>5, <1>8 DEF IInv, DraftAt, Drafts
    <2>2. file # <<>>
        BY <2>1, NoIds
    <2>3. /\ file \in Seq(Cell) /\ old \in Seq(Entries) /\ Idx(file) = old /\ Sound(old, pos) /\ pos \in Nat
        BY <1>1, <1>5, <2>2, FileIs
    <2>4. at \in 1..Len(old) /\ old[at].id = d
        <3>1. Has(old, d) /\ Place(old, d) \in 1..Len(old) /\ old[Place(old, d)].id = d
            BY <2>1, <2>3, PlaceIs
        <3> QED BY <1>1, <3>1 DEF PlaceOrLast
    <2>5. PICK b \in BOOLEAN : b = old[at].tag
        <3>1. old[at] \in Entries
            BY <2>3, <2>4
        <3> QED BY <3>1, EntryFields
    <2>6. PICK f : f = el
        OBVIOUS
    <2>7. /\ f \in Entries /\ f.id = m /\ f.off = pos /\ f.size = Size[m] /\ f.tag = b
          /\ f.seen = "local" /\ Stored(f)
        <3>1. f = [id |-> m, off |-> pos, size |-> Size[m], seen |-> "local", tag |-> b, fwd |-> ""]
            BY <2>5, <2>6 DEF Entry
        <3>2. Size[m] \in Nat /\ pos \in Int /\ pos >= 0
            BY <1>3, <2>3, IdAssumption
        <3>3. /\ f \in Entries /\ f.id = m /\ f.off = pos /\ f.size = Size[m] /\ f.tag = b
              /\ f.seen = "local"
            BY <1>3, <3>1, <3>2 DEF Entries
        <3> QED BY <3>2, <3>3 DEF Stored
    <2>8. PICK s : s = RemoveAt(old, at)
        OBVIOUS
    <2>9. PICK r : r = Append(s, f)
        OBVIOUS
    <2>10. s \in Seq(Entries) /\ ElemsOf(s) = ElemsOf(old) \ {old[at]}
        <3>1. \A i, j \in 1..Len(old) : i # j => old[i].id # old[j].id
            BY <2>3 DEF Sound
        <3> QED BY <2>3, <2>4, <2>8, <3>1, ElemsRemove, RemoveIs
    <2>11. r \in Seq(Entries) /\ ElemsOf(r) = (ElemsOf(old) \ {old[at]}) \cup {f}
        BY <2>7, <2>9, <2>10, ElemsAppend
    <2>12. /\ \A x \in ElemsOf(old) : x \in Entries /\ x.id \in IdsOf(old) /\ (Stored(x) <=> x.id \in Ids)
           /\ \A x, y \in ElemsOf(old) : x.id = y.id => x = y
        BY <2>3, OneEach
    <2>13. old[at] \in ElemsOf(old)
        BY <2>4 DEF ElemsOf
    <2>14. ElemsOf(old) \ {old[at]} = {x \in ElemsOf(old) : x.id # d}
        BY <2>4, <2>12, <2>13
    <2>15. \A x \in IdsOf(old) \cap Ids : x < m
        BY <1>4, <1>5, <1>8, <2>3
    <2>16. m \in Nat /\ m \notin IdsOf(old) /\ d \notin Ids
        <3>1. m \in Nat /\ ~(m < m)
            BY <1>3, IdAssumption DEF Ids
        <3> QED BY <1>3, <2>1, <2>15, <3>1, DraftEntryIs
    <2>17. \A x \in Spots(ElemsOf(old)) : x.id \in Nat /\ x.id < m
        <3>1. \A x \in Spots(ElemsOf(old)) : x.id \in IdsOf(old) /\ x.id \in Nat
            BY <2>3, SpotsOneEach
        <3>2. \A x \in Spots(ElemsOf(old)) : x.id \in Ids
            BY <2>12, SpotsOf, SpotIs
        <3> QED BY <2>15, <3>1, <3>2
    <2>18. Opens(Spots(ElemsOf(old)), m, pos, pos)
        <3>1. \A x \in Spots(ElemsOf(old)) : ~(x.id >= m)
            BY <2>16, <2>17
        <3> QED BY <3>1 DEF Opens
    <2>19. Spots(ElemsOf(r)) = Spots(ElemsOf(old)) \cup {[id |-> m, off |-> pos, size |-> Size[m]]}
        <3>1. PICK A, G : A = {x \in ElemsOf(old) : x.id # d} /\ G = {}
            OBVIOUS
        <3>2. Spots(A \cup G) = Spots(ElemsOf(old))
            BY <2>1, <2>3, <3>1, RemoveDraftEntry
        <3>3. A \cup G = A
            BY <3>1
        <3>4. Spots(A \cup {f}) = Spots(A) \cup Spots({f})
            BY SpotsOf
        <3>5. Spots({f}) = {[id |-> m, off |-> pos, size |-> Size[m]]}
            BY <2>7 DEF Spots, Spot
        <3> QED BY <2>11, <2>14, <3>1, <3>2, <3>3, <3>4, <3>5
    <2>20. {Moved(x, m, Size[m]) : x \in Spots(ElemsOf(old))} = Spots(ElemsOf(old))
        <3>1. PICK S : S = Spots(ElemsOf(old))
            OBVIOUS
        <3>2. ASSUME NEW x \in S PROVE Moved(x, m, Size[m]) = x
            <4>1. PICK y : x = Spot(y)
                BY <3>1 DEF Spots
            <4>2. ~(x.id >= m)
                BY <2>16, <2>17, <3>1
            <4>3. x = [id |-> y.id, off |-> y.off, size |-> y.size]
                BY <4>1 DEF Spot
            <4> QED BY <4>2, <4>3 DEF Moved
        <3> QED BY <3>1, <3>2
    <2>21. PICK mv : mv = <<>>
        OBVIOUS
    <2>22. Room(pos, pos, mv)
        <3>1. mv \in Seq(Cell) /\ Len(mv) = 0 /\ pos - pos = 0 /\ pos <= pos /\ 1..0 = {}
            BY <2>3, <2>21
        <3> QED BY <2>3, <3>1 DEF Room
    <2>23. Placing(pos, pos, m, mv, r)
        BY <1>1, <1>3, <2>2, <2>3, <2>11, <2>16, <2>18, <2>19, <2>20, <2>22 DEF Placing
    <2>24. Commit(Transaction(op, d, m, pos, (Body(m) \o mv) \o WriteIndex(r), local))
        <3>1. Body(m) \o mv = Body(m)
            BY <1>3, <2>21, BodyIs, ConcatEmptySeq
        <3> QED BY <1>2, <1>6, <1>8, <2>6, <2>8, <2>9, <3>1
    <2> HIDE DEF el, first, new
    <2>25. /\ LaidOK' /\ DoorOK' /\ Index = Idx(file) /\ Index' = r /\ UserDrafts = drafts
           /\ UserDrafts' = IF op = "ss" THEN UserDrafts \ {d} ELSE UserDrafts
        BY <1>2, <1>6, <2>23, <2>24, PutIs
    <2>26. Log = ElemsOf(old) /\ Log' = {x \in Log : x.id # d} \cup {f}
        BY <2>3, <2>11, <2>14, <2>25 DEF Log
    <2>27. f.tag <=> HasTag(Log, d)
        BY <2>4, <2>5, <2>7, <2>12, <2>13, <2>26 DEF HasTag
    <2>28. /\ m \notin IdsOf(Index) /\ d \in UserDrafts /\ UserDrafts' = UserDrafts \ {d}
        BY <1>3, <1>6, <2>3, <2>16, <2>25
    <2>29. Replaced(d, m)
        BY <1>8, <2>7, <2>26, <2>27, <2>28 DEF Replaced
    <2> QED BY <1>1, <1>3, <2>25, <2>29
<1> QED BY <1>7, <1>8

-----------------------------------------------------------------------------
(* Every step leaves the log as it is, or is one of those above.           *)

Effect ==
    \/ SameLog
    \/ /\ LaidOK' /\ DoorOK'
       /\ \/ \E d \in Drafts : Saved(d) \/ Discarded(d)
          \/ \E m \in Ids : Received(m)
          \/ \E m \in Ids, right \in BOOLEAN : Confirmed(m, right)
          \/ \E d \in Drafts, m \in Ids : Replaced(d, m)
          \/ \E act \in Acts, local \in BOOLEAN, x \in Ids \cup Drafts :
                Touches(act, local, x) /\ (act = "see" /\ local => Logging(x)')

LEMMA AsideIs ==
    ASSUME IInv, IInv', LaidOK, DoorOK, StoreSame, renamed' = renamed
    PROVE  Effect
<1>1. Still
    BY SameIsStill
<1> QED BY <1>1, StillIs DEF Effect

LEMMA QuitIs ==
    ASSUME IInv, IInv', LaidOK, DoorOK, Quit
    PROVE  Effect
<1>1. StoreSame /\ renamed' = renamed
    BY DEF Quit, disk, StoreSame
<1> QED BY <1>1, AsideIs

LEMMA ReaderIs ==
    ASSUME IInv, IInv', LaidOK, DoorOK, LateAcks = FALSE, Reader
    PROVE  Effect
<1>1. ASSUME NEW m \in Ids, Receive(m) PROVE Effect
    <2>1. CASE Discards(m)
        <3>1. StoreSame /\ renamed' = renamed
            BY <1>1, <2>1 DEF Receive, disk, StoreSame
        <3> QED BY <3>1, AsideIs
    <2>2. CASE ~Discards(m)
        <3>1. LaidOK' /\ DoorOK' /\ Received(m)
            BY <1>1, <2>2, ReceiveIs
        <3> QED BY <3>1 DEF Effect
    <2> QED BY <2>1, <2>2
<1>2. ASSUME NEW m \in Ids, NEW right \in BOOLEAN, Confirm(m, right) PROVE Effect
    <2>1. LaidOK' /\ DoorOK' /\ Confirmed(m, right)
        BY <1>2, ConfirmIs
    <2> QED BY <2>1 DEF Effect
<1>3. ASSUME NEW d \in Drafts, NEW m \in Ids, ReadAck(d, m) PROVE Effect
    <2>1. StoreSame /\ renamed' = renamed
        BY <1>3 DEF ReadAck, disk, StoreSame
    <2> QED BY <2>1, AsideIs
<1>4. CASE StoreSent
    <2>1. CASE opened.draft = NewDraft /\ renamed
        <3>1. Quit
            BY <1>4, <2>1 DEF StoreSent
        <3> QED BY <3>1, QuitIs
    <2>2. CASE ~(opened.draft = NewDraft /\ renamed)
        <3>1. /\ opened.draft \in Drafts /\ opened.mid \in Ids
              /\ LaidOK' /\ DoorOK' /\ Replaced(opened.draft, opened.mid)
            BY <1>4, <2>2, ReplacedIs
        <3>2. PICK d \in Drafts, m \in Ids : d = opened.draft /\ m = opened.mid
            BY <3>1
        <3>3. Replaced(d, m)
            BY <3>1, <3>2
        <3> QED BY <3>1, <3>3 DEF Effect
    <2> QED BY <2>1, <2>2
<1>5. Reader => (\E m \in Ids : Receive(m) \/ (\E right \in BOOLEAN : Confirm(m, right)))
                 \/ (\E d \in Drafts, m \in Ids : ReadAck(d, m)) \/ StoreSent
    BY DEF Reader
<1> QED BY <1>1, <1>2, <1>3, <1>4, <1>5

LEMMA UserIs ==
    ASSUME IInv, IInv', LaidOK, DoorOK, NEW d \in Drafts, User(d)
    PROVE  Effect
<1>1. CASE SaveDraft(d)
    <2>1. CASE d = NewDraft /\ renamed
        <3>1. Quit
            BY <1>1, <2>1 DEF SaveDraft
        <3> QED BY <3>1, QuitIs
    <2>2. CASE ~(d = NewDraft /\ renamed)
        <3>1. LaidOK' /\ DoorOK' /\ Saved(d)
            BY <1>1, <2>2, SaveIs
        <3> QED BY <3>1 DEF Effect
    <2> QED BY <2>1, <2>2
<1>2. CASE DiscardDraft(d)
    <2>1. CASE d = NewDraft /\ renamed
        <3>1. Quit
            BY <1>2, <2>1 DEF DiscardDraft
        <3> QED BY <3>1, QuitIs
    <2>2. CASE ~(d = NewDraft /\ renamed)
        <3>1. LaidOK' /\ DoorOK' /\ Discarded(d)
            BY <1>2, <2>2, DiscardIs
        <3> QED BY <3>1 DEF Effect
    <2> QED BY <2>1, <2>2
<1>3. CASE SendDraft(d)
    <2>1. StoreSame /\ renamed' = renamed
        BY <1>3 DEF SendDraft, Quit, disk, StoreSame
    <2> QED BY <2>1, AsideIs
<1> QED BY <1>1, <1>2, <1>3 DEF User

LEMMA TouchStepIs ==
    ASSUME IInv, IInv', LaidOK, DoorOK, UpdateOK, Touch
    PROVE  Effect
<1>1. ASSUME NEW act \in Acts, NEW x \in Ids \cup Drafts, ReplicaTouch(act, x) PROVE Effect
    <2>1. /\ mode = "up" /\ Idle /\ file' = file /\ drafts' = drafts /\ renamed' = renamed
          /\ TouchChanges(act, FALSE, x) /\ CommitTouch(act, FALSE, x)
        BY <1>1 DEF ReplicaTouch, ReaderFree, Up, disk
    <2>2. PICK local \in BOOLEAN : local = FALSE
        OBVIOUS
    <2>3. LaidOK' /\ DoorOK' /\ Touches(act, local, x)
        BY <2>1, <2>2, TouchIs
    <2> QED BY <2>2, <2>3 DEF Effect
<1>2. ASSUME NEW act \in Acts, NEW x \in Ids \cup Drafts, BeginUpdate(act, x) PROVE Effect
    <2>1. StoreSame /\ renamed' = renamed
        BY <1>2 DEF BeginUpdate, disk, StoreSame
    <2> QED BY <2>1, AsideIs
<1>3. CASE CallTouch
    <2>1. mode = "up" /\ Idle /\ updt # None
        BY <1>3 DEF CallTouch, IInv, Places
    <2>2. CASE file # <<>> /\ ~Readable(file)
        <3>1. Quit
            BY <1>3, <2>2 DEF CallTouch
        <3> QED BY <3>1, QuitIs
    <2>3. CASE ~(file # <<>> /\ ~Readable(file)) /\ TouchChanges(updt.act, TRUE, updt.id)
        <3>1. PICK act \in Acts, x \in Ids \cup Drafts, local \in BOOLEAN :
                  act = updt.act /\ x = updt.id /\ local = TRUE
            BY <2>1 DEF UpdateOK
        <3>2. /\ file' = file /\ drafts' = drafts /\ renamed' = renamed
              /\ CommitTouch(act, local, x) /\ TouchChanges(act, local, x)
              /\ updt' = [updt EXCEPT !.at = "wait"]
            BY <1>3, <2>3, <3>1 DEF CallTouch, disk
        <3>3. LaidOK' /\ DoorOK' /\ Touches(act, local, x)
            BY <2>1, <3>2, TouchIs
        <3>4. act = "see" => Logging(x)'
            <4>1. updt \in [act: Acts, id: Ids \cup Drafts, at: {"call", "wait", "log", "end", "none"}]
                BY <2>1 DEF UpdateOK
            <4>2. /\ updt' \in [act: Acts, id: Ids \cup Drafts, at: {"call", "wait", "log", "end", "none"}]
                  /\ updt'.act = act /\ updt'.id = x /\ updt'.at = "wait"
                BY <3>1, <3>2, <4>1
            <4>3. updt' # None
                BY <4>2, NoneAssumption
            <4> QED BY <4>2, <4>3 DEF Logging
        <3> QED BY <3>3, <3>4 DEF Effect
    <2>4. CASE ~(file # <<>> /\ ~Readable(file)) /\ ~TouchChanges(updt.act, TRUE, updt.id)
        <3>1. StoreSame /\ renamed' = renamed
            BY <1>3, <2>4 DEF CallTouch, disk, StoreSame
        <3> QED BY <3>1, AsideIs
    <2> QED BY <2>2, <2>3, <2>4
<1>4. CASE LogUpdate \/ EndUpdate
    <2>1. StoreSame /\ renamed' = renamed
        BY <1>4 DEF LogUpdate, EndUpdate, disk, StoreSame
    <2> QED BY <2>1, AsideIs
<1> QED BY <1>1, <1>2, <1>3, <1>4 DEF Touch

\* Every step of the store has an effect.
LEMMA EffectIs ==
    ASSUME IInv, IInv', LaidOK, DoorOK, UpdateOK, LateAcks = FALSE, [Next]_vars
    PROVE  Effect
<1>1. CASE UNCHANGED vars
    <2>1. StoreSame /\ renamed' = renamed
        BY <1>1 DEF vars, StoreSame
    <2> QED BY <2>1, AsideIs
<1>2. CASE Complete
    <2>1. CASE DropTemp
        BY <2>1, DropIs DEF Effect
    <2>2. CASE ~DropTemp
        BY <1>2, <2>2, CompleteIsStill, StillIs DEF Effect
    <2> QED BY <2>1, <2>2
<1>3. CASE Reader
    BY <1>3, ReaderIs
<1>4. ASSUME NEW d \in Drafts, User(d) PROVE Effect
    BY <1>4, UserIs
<1>5. CASE Touch
    BY <1>5, TouchStepIs
<1>6. CASE Crash
    BY <1>6, CrashIsStill, StillIs DEF Effect
<1>7. CASE Recovery
    BY <1>7, RecoveryIsStill, StillIs DEF Effect
<1>8. CASE Server
    <2>1. StoreSame /\ renamed' = renamed
        BY <1>8 DEF Server, Post, Accept, LoseAck, ClientSame, disk, StoreSame
    <2> QED BY <2>1, AsideIs
<1> QED BY <1>1, <1>2, <1>3, <1>4, <1>5, <1>6, <1>7, <1>8 DEF Next

\* What is logged, or about to be.
SeenKept ==
    /\ \A x : <<"see", x>> \in synced \/ Logging(x) => <<"see", x>> \in synced' \/ Logging(x)'
    /\ updt' # None /\ updt'.act = "see" => updt'.id \in Ids

\* A seen mark on its way to the log gets there.
LEMMA SeenKeptIs ==
    ASSUME UpdateCrash = FALSE, UpdateOK, SeenOK, [Next]_vars
    PROVE  SeenKept
<1>1. ASSUME synced \subseteq synced', updt' = updt PROVE SeenKept
    BY <1>1 DEF SeenKept, Logging, SeenOK
<1>2. ASSUME updt # None, NEW at \in {"call", "wait", "log", "end", "none"}, updt' = [updt EXCEPT !.at = at],
             synced \subseteq synced',
             \A x : Logging(x) => <<"see", x>> \in synced' \/ at = "log"
      PROVE  SeenKept
    <2>1. updt \in [act: Acts, id: Ids \cup Drafts, at: {"call", "wait", "log", "end", "none"}]
        BY <1>2 DEF UpdateOK
    <2>2. /\ updt' \in [act: Acts, id: Ids \cup Drafts, at: {"call", "wait", "log", "end", "none"}]
          /\ updt'.act = updt.act /\ updt'.id = updt.id /\ updt'.at = at
        BY <1>2, <2>1
    <2>3. updt' # None
        BY <2>2, NoneAssumption
    <2>4. updt'.act = "see" => updt'.id \in Ids
        BY <1>2, <2>2 DEF SeenOK
    <2>5. ASSUME NEW x, Logging(x), at = "log" PROVE Logging(x)'
        BY <2>2, <2>3, <2>5 DEF Logging
    <2> QED BY <1>2, <2>4, <2>5 DEF SeenKept
<1>3. ASSUME synced' = synced, updt' = None, \A x : ~Logging(x) PROVE SeenKept
    BY <1>3 DEF SeenKept
<1>4. CASE UNCHANGED vars
    BY <1>1, <1>4 DEF vars
<1>5. CASE Complete
    <2>1. CASE DropTemp
        <3>1. synced' = synced /\ \/ updt' = updt
                                  \/ updt # None /\ updt' = [updt EXCEPT !.at = "log"]
            BY <2>1 DEF DropTemp
        <3>2. synced \subseteq synced'
            BY <3>1
        <3>3. PICK at \in {"call", "wait", "log", "end", "none"} : at = "log"
            OBVIOUS
        <3>4. ASSUME updt # None, updt' = [updt EXCEPT !.at = "log"] PROVE SeenKept
            BY <1>2, <3>2, <3>3, <3>4
        <3> QED BY <1>1, <3>1, <3>2, <3>4
    <2>2. CASE ~DropTemp
        <3>1. updt' = updt /\ synced \subseteq synced'
            BY <1>5, <2>2 DEF Complete, RemoveDraft, LinkDraft, Dequeue, SyncTags, LinkThread, Truncate,
                              WriteThread, IndexThread, Quit, Rest
        <3> QED BY <1>1, <3>1
    <2> QED BY <2>1, <2>2
<1>6. CASE Reader
    <2>1. updt' = updt /\ synced' = synced
        BY <1>6 DEF Reader, Receive, Confirm, ReadAck, StoreSent, Quit
    <2> QED BY <1>1, <2>1
<1>7. CASE \E d \in Drafts : User(d)
    <2>1. updt' = updt /\ synced' = synced
        BY <1>7 DEF User, SaveDraft, DiscardDraft, SendDraft, DraftRequest, Quit
    <2> QED BY <1>1, <2>1
<1>8. CASE Touch
    <2>1. CASE \E act \in Acts, x \in Ids \cup Drafts : BeginUpdate(act, x)
        <3>1. PICK act \in Acts, x \in Ids \cup Drafts :
                  /\ updt' = [act |-> act, id |-> x, at |-> "call"] /\ updt = None /\ synced' = synced
                  /\ x \in Drafts => act # "see"
            BY <2>1 DEF BeginUpdate
        <3>2. updt'.act = "see" => updt'.id \in Ids
            BY <3>1
        <3> QED BY <3>1, <3>2 DEF SeenKept, Logging
    <2>2. CASE \E act \in Acts, x \in Ids \cup Drafts : ReplicaTouch(act, x)
        <3>1. updt' = updt /\ synced' = synced
            BY <2>2 DEF ReplicaTouch
        <3> QED BY <1>1, <3>1
    <2>3. CASE CallTouch
        <3>1. /\ updt # None /\ updt.at = "call" /\ synced' = synced
              /\ \/ updt' = updt
                 \/ \E at \in {"call", "wait", "log", "end", "none"} : updt' = [updt EXCEPT !.at = at]
            BY <2>3 DEF CallTouch, Quit
        <3>2. \A x : ~Logging(x)
            BY <3>1 DEF Logging
        <3>3. synced \subseteq synced'
            BY <3>1
        <3> QED BY <1>1, <1>2, <3>1, <3>2, <3>3
    <2>4. CASE LogUpdate
        <3>1. /\ updt # None /\ updt' = [updt EXCEPT !.at = "end"]
              /\ synced' = IF updt.id \in Ids THEN synced \cup {<<updt.act, updt.id>>} ELSE synced
            BY <2>4 DEF LogUpdate
        <3>2. PICK at \in {"call", "wait", "log", "end", "none"} : at = "end"
            OBVIOUS
        <3>3. synced \subseteq synced'
            BY <3>1
        <3>4. ASSUME NEW x, Logging(x) PROVE <<"see", x>> \in synced'
            <4>1. updt.act = "see" /\ updt.id = x /\ x \in Ids
                BY <3>4 DEF Logging, SeenOK
            <4> QED BY <3>1, <4>1
        <3> QED BY <1>2, <3>1, <3>2, <3>3, <3>4
    <2>5. CASE EndUpdate
        <3>1. updt' = None /\ updt.at \in {"end", "none"} /\ synced' = synced
            BY <2>5 DEF EndUpdate
        <3>2. \A x : ~Logging(x)
            BY <3>1 DEF Logging
        <3> QED BY <1>3, <3>1, <3>2
    <2> QED BY <1>8, <2>1, <2>2, <2>3, <2>4, <2>5 DEF Touch
<1>9. CASE Crash
    <2>1. updt = None /\ updt' = None /\ synced' = synced
        BY <1>9 DEF Crash
    <2> QED BY <1>3, <2>1 DEF Logging
<1>10. CASE Recovery
    <2>1. updt' = updt /\ synced' = synced
        BY <1>10 DEF Recovery, Resume, Recovered, Restart
    <2> QED BY <1>1, <2>1
<1>11. CASE Server
    <2>1. updt' = updt /\ synced' = synced
        BY <1>11 DEF Server, Post, Accept, LoseAck, ClientSame
    <2> QED BY <1>1, <2>1
<1> QED BY <1>4, <1>5, <1>6, <1>7, <1>8, <1>9, <1>10, <1>11 DEF Next

\* The entries of the log.
LEMMA LogIs ==
    ASSUME IInv
    PROVE  /\ \A x \in Log : x \in Entries /\ x.id \in IdsOf(Index) /\ (Stored(x) <=> x.id \in Ids)
           /\ \A x, y \in Log : x.id = y.id => x = y
           /\ \A m \in IdsOf(Index) : \E x \in Log : x.id = m
<1>1. CASE Index = <<>>
    BY <1>1, ElemsNone, NoIds DEF Log
<1>2. CASE \E end : Sound(Index, end)
    BY <1>2, OneEach DEF Log
<1> QED BY <1>1, <1>2, IndexSound

\* The mark of a message opened here, or on another replica.
OpenedMark(local) == IF local THEN "here" ELSE "there"

LEMMA TouchedSeen ==
    ASSUME NEW act \in Acts, NEW local \in BOOLEAN, NEW x \in Entries
    PROVE  /\ ~(act = "see" /\ x.seen = "no") => Touched(act, local, x).seen = x.seen
           /\ act = "see" /\ x.seen = "no" => Touched(act, local, x).seen = OpenedMark(local)
           /\ act = "see" /\ x.seen # "no" => Touched(act, local, x) = x
BY DEF Touched, Acts, Entries, OpenedMark

LEMMA TouchedTag ==
    ASSUME NEW act \in Acts, NEW local \in BOOLEAN, NEW x \in Entries
    PROVE  /\ act = "see" => (Touched(act, local, x).tag <=> x.tag)
           /\ act = "tag" => Touched(act, local, x).tag
           /\ act = "untag" => ~Touched(act, local, x).tag
BY DEF Touched, Acts, Entries

\* With these, the marks stay as SeenOK says.
LEMMA SeenStays ==
    ASSUME IInv, IInv', SeenOK, Effect, SeenKept
    PROVE  SeenOK'
<1> DEFINE Fine(e) == /\ ~Stored(e) => e.seen = "local"
                      /\ e.seen = "here" => <<"see", e.id>> \in synced' \/ Logging(e.id)'
<1>1. \A e \in Log : Fine(e)
    BY DEF SeenOK, SeenKept, Log
<1>2. \A x \in Log : x \in Entries /\ x.id \in IdsOf(Index) /\ (Stored(x) <=> x.id \in Ids)
    BY LogIs
<1>3. \A e \in Log' : Fine(e)
    <2>1. CASE Log' \subseteq Log
        BY <1>1, <2>1
    <2>2. ASSUME NEW d \in Drafts, Saved(d) PROVE \A e \in Log' : Fine(e)
        BY <1>1, <2>2 DEF Saved
    <2>3. ASSUME NEW d \in Drafts, Discarded(d) PROVE Log' \subseteq Log
        BY <2>3 DEF Discarded
    <2>4. ASSUME NEW m \in Ids, Received(m) PROVE \A e \in Log' : Fine(e)
        <3>1. PICK e \in Entries, o \in Nat :
                  /\ e.seen \in {"no", "local"}
                  /\ Log' = {Shifted(x, e) : x \in Log} \cup {[e EXCEPT !.off = o]}
            BY <2>4 DEF Received
        <3>2. ASSUME NEW x \in Log PROVE Fine(Shifted(x, e))
            <4>1. /\ Shifted(x, e).id = x.id /\ Shifted(x, e).seen = x.seen
                  /\ Stored(Shifted(x, e)) <=> Stored(x)
                BY <1>2, ShiftedIs
            <4> QED BY <1>1, <4>1
        <3>3. PICK f : f = [e EXCEPT !.off = o]
            OBVIOUS
        <3>4. f.off = o /\ f.seen = e.seen
            BY <3>3 DEF Entries
        <3>5. Fine(f)
            BY <3>1, <3>4 DEF Stored
        <3> HIDE DEF Fine
        <3> QED BY <3>1, <3>2, <3>3, <3>5
    <2>5. ASSUME NEW m \in Ids, NEW right \in BOOLEAN, Confirmed(m, right) PROVE \A e \in Log' : Fine(e)
        <3>1. PICK x \in Log, y \in Entries :
                  /\ Marked(x, y) /\ x.id = m
                  /\ y = IF right THEN [x EXCEPT !.fwd = ""] ELSE [x EXCEPT !.fwd = "failed", !.seen = "no"]
            BY <2>5 DEF Confirmed
        <3>2. x \in Entries /\ Log' = (Log \ {x}) \cup {y} /\ y.id = x.id /\ y.off = x.off
            BY <3>1 DEF Marked
        <3>3. y.seen = x.seen \/ y.seen = "no"
            BY <3>1, <3>2 DEF Entries
        <3>4. Stored(y)
            BY <1>2, <3>1, <3>2 DEF Stored
        <3>5. Fine(y)
            BY <1>1, <3>1, <3>2, <3>3, <3>4
        <3> HIDE DEF Fine
        <3> QED BY <1>1, <3>2, <3>5
    <2>6. ASSUME NEW d \in Drafts, NEW m \in Ids, Replaced(d, m) PROVE \A e \in Log' : Fine(e)
        BY <1>1, <2>6 DEF Replaced
    <2>7. ASSUME NEW act \in Acts, NEW local \in BOOLEAN, NEW i \in Ids \cup Drafts,
                 Touches(act, local, i), act = "see" /\ local => Logging(i)'
          PROVE  \A e \in Log' : Fine(e)
        <3>1. PICK x \in Log, y \in Entries : Marked(x, y) /\ x.id = i /\ y = Touched(act, local, x) /\ y # x
            BY <2>7 DEF Touches
        <3>2. x \in Entries /\ Log' = (Log \ {x}) \cup {y} /\ y.id = x.id /\ y.off = x.off
            BY <3>1 DEF Marked
        <3>3. CASE act = "see" /\ x.seen = "no"
            <4>1. Stored(y)
                BY <1>1, <3>1, <3>2, <3>3 DEF Stored
            <4>2. y.seen = IF local THEN "here" ELSE "there"
                <5>1. x \in Entries
                    BY <3>2
                <5>2. Touched(act, local, x).seen = OpenedMark(local)
                    BY <3>3, <5>1, TouchedSeen
                <5> QED BY <3>1, <5>2 DEF OpenedMark
            <4>3. Fine(y)
                BY <2>7, <3>1, <3>2, <3>3, <4>1, <4>2
            <4> HIDE DEF Fine
            <4> QED BY <1>1, <3>2, <4>3
        <3>4. CASE ~(act = "see" /\ x.seen = "no")
            <4>1. y.seen = x.seen
                <5>1. x \in Entries
                    BY <3>2
                <5>2. Touched(act, local, x).seen = x.seen
                    BY <3>4, <5>1, TouchedSeen
                <5> QED BY <3>1, <5>2
            <4>2. Fine(y)
                BY <1>1, <3>1, <3>2, <4>1 DEF Stored
            <4> HIDE DEF Fine
            <4> QED BY <1>1, <3>2, <4>2
        <3> QED BY <3>3, <3>4
    <2>8. SameLog => Log' \subseteq Log
        BY DEF SameLog, Log
    <2> HIDE DEF Fine
    <2> QED BY <2>1, <2>2, <2>3, <2>4, <2>5, <2>6, <2>7, <2>8 DEF Effect
<1> QED BY <1>3 DEF SeenOK, SeenKept, Log

-----------------------------------------------------------------------------
(* No step ends the process.                                               *)

\* The drafts of the index are in the directory: the file of a reply that is
\* written or kept is there when the thread file is read.
LEMMA RepliesThere ==
    ASSUME IInv, NEW d \in Replies, d \in IdsOf(Index),
           Pending = {} \/ (temp # None /\ Head(todo) \in {"index", "drop"})
    PROVE  d \in drafts
<1>1. d \in Drafts /\ d # NewDraft /\ DraftAt(d)
    BY KindAssumption DEF IInv, Drafts
<1>2. CASE \A t \in Pending : t.draft # d
    BY <1>1, <1>2 DEF DraftAt
<1>3. CASE \E t \in Pending : t.draft = d
    <2>1. temp # None /\ Head(todo) \in {"index", "drop"} /\ Pending = {temp}
        BY <1>3, FileAfter
    <2>2. temp.draft = d /\ temp.op = "ws"
        BY <1>1, <1>3, <2>1 DEF DraftAt
    <2>3. "lndraft" \in StepSet(temp)
        BY <2>2 DEF StepSet
    <2>4. Rank("lndraft") < Rank(Head(todo))
        BY <2>1, RankValues
    <2>5. Done(temp, "lndraft")
        BY <2>1, <2>3, <2>4, FileAfter
    <2> QED BY <1>1, <2>1, <2>2, <2>5 DEF DraftAt
<1> QED BY <1>2, <1>3

\* _newThreadStream and Read can follow an index whose messages are laid out in
\* the file, and find every draft.
LEMMA StreamIs ==
    ASSUME IInv, NEW idx, idx = ReadIndex(file), NEW end \in Nat, Sound(idx, end), Index = idx,
           Laid(Spots(ElemsOf(idx)), file, end), Len(file) \in Nat, end <= Len(file),
           Pending = {} \/ (temp # None /\ Head(todo) \in {"index", "drop"})
    PROVE  Streamable(idx)
<1>1. Contiguous(idx)
    BY LaidContiguous
<1>2. ASSUME NEW i \in 1..Len(idx), ~Stored(idx[i])
      PROVE  idx[i].id \in drafts
    <2>1. idx[i] \in Entries /\ idx[i].id \notin Ids
        BY <1>2 DEF Sound
    <2>2. idx[i].id \in Drafts /\ idx[i].id \in IdsOf(Index)
        BY <2>1, EntryFields DEF IdsOf
    <2>3. idx[i].id \in Replies
        BY <2>2 DEF Drafts, IInv, GotOK
    <2> QED BY <2>2, <2>3, RepliesThere
<1>3. ASSUME NEW i \in 1..Len(idx), Stored(idx[i])
      PROVE  idx[i].off + idx[i].size <= Len(file)
    <2>1. idx[i].off \in Nat /\ idx[i].size \in Nat /\ idx[i].off + idx[i].size <= end
        BY <1>3, LaidAt
    <2> QED BY <2>1
<1>4. DOMAIN idx = 1..Len(idx)
    BY DEF Sound
<1> QED BY <1>1, <1>2, <1>3, <1>4 DEF Streamable

LEMMA IndexGoesOn ==
    ASSUME IInv, LaidOK, IndexThread
    PROVE  mode' = mode
<1>1. CASE temp.new = <<>>
    BY <1>1 DEF IndexThread, Rest
<1>2. CASE temp.new # <<>>
    <2>1. temp # None /\ Head(todo) \in {"index", "drop"}
        BY DEF IndexThread, Step, Idle, IInv, Places
    <2>2. /\ Laid(Spots(ElemsOf(ReadIndex(file))), file, IndexPos(file))
          /\ Sound(ReadIndex(file), IndexPos(file)) /\ IndexPos(file) \in Nat
          /\ Index = ReadIndex(file)
        BY <1>2, <2>1, LaidComplete
    <2>3. Readable(file) /\ Len(file) \in Nat /\ IndexPos(file) <= Len(file)
        BY <1>2, <2>1, FileAfter, FileIs DEF Whole
    <2>4. Streamable(ReadIndex(file))
        BY <2>1, <2>2, <2>3, StreamIs
    <2> QED BY <2>3, <2>4 DEF IndexThread, Rest
<1> QED BY <1>1, <1>2

\* The door of the thread is renamed when the thread has a file; its draft has
\* none by then.
LEMMA DoorThere ==
    ASSUME IInv, DoorOK, mode = "up", Idle, NewDraft \in drafts \/ file = <<>>
    PROVE  ~renamed
<1>1. Pending = {}
    BY RestIs
<1>2. file = <<>>
    BY DEF IInv, NewOK
<1> QED BY <1>1, <1>2 DEF DoorOK

LEMMA DoorGoesOn ==
    ASSUME IInv, DoorOK, TwoClients = FALSE,
           StoreSent \/ \E d \in Drafts : SaveDraft(d) \/ DiscardDraft(d)
    PROVE  mode' = mode
<1>1. CASE StoreSent
    <2>1. mode = "up" /\ Idle /\ opened # None
        BY <1>1 DEF StoreSent, Up
    <2>2. opened.draft \in drafts
        BY <2>1 DEF IInv, OpenedOK
    <2>3. ~(opened.draft = NewDraft /\ renamed)
        BY <2>1, <2>2, DoorThere
    <2> QED BY <1>1, <2>3 DEF StoreSent
<1>2. ASSUME NEW d \in Drafts, SaveDraft(d) \/ DiscardDraft(d)
      PROVE  mode' = mode
    <2>1. mode = "up" /\ Idle /\ (d = NewDraft => file = <<>>)
        BY <1>2 DEF SaveDraft, DiscardDraft, DraftRequest, Up, Drafted
    <2>2. ~(d = NewDraft /\ renamed)
        BY <2>1, DoorThere
    <2> QED BY <1>2, <2>2 DEF SaveDraft, DiscardDraft
<1> QED BY <1>1, <1>2

LEMMA TouchGoesOn ==
    ASSUME IInv, CallTouch
    PROVE  mode' = mode
<1>1. mode = "up" /\ Idle
    BY DEF CallTouch, IInv, Places
<1>2. ~(file # <<>> /\ ~Readable(file))
    BY <1>1, RestIs DEF Whole
<1> QED BY <1>2 DEF CallTouch

\* No step of the store meets what the code takes for impossible.
LEMMA GoesOn ==
    ASSUME IInv, IInv', LaidOK, DoorOK, mode # "quit", TwoClients = FALSE, [Next]_vars
    PROVE  mode' # "quit"
<1>1. CASE UNCHANGED vars
    BY <1>1 DEF vars
<1>2. CASE Complete
    <2>1. CASE IndexThread
        BY <2>1, IndexGoesOn
    <2>2. CASE RemoveDraft \/ LinkDraft \/ Dequeue \/ SyncTags
        BY <2>2 DEF RemoveDraft, LinkDraft, Dequeue, SyncTags, Rest
    <2>3. CASE LinkThread \/ Truncate \/ WriteThread \/ DropTemp
        BY <2>3 DEF LinkThread, Truncate, WriteThread, DropTemp, Rest
    <2> QED BY <1>2, <2>1, <2>2, <2>3 DEF Complete
<1>3. CASE StoreSent \/ \E d \in Drafts : SaveDraft(d) \/ DiscardDraft(d)
    BY <1>3, DoorGoesOn
<1>4. ASSUME NEW m \in Ids, Receive(m) \/ Confirm(m, TRUE) \/ Confirm(m, FALSE)
      PROVE  mode' # "quit"
    BY <1>4 DEF Receive, Confirm
<1>5. ASSUME NEW d \in Drafts, NEW m \in Ids, ReadAck(d, m)
      PROVE  mode' # "quit"
    BY <1>5 DEF ReadAck
<1>6. ASSUME NEW d \in Drafts, SendDraft(d)
      PROVE  mode' # "quit"
    BY <1>6 DEF SendDraft, Offered
<1>7. CASE CallTouch
    BY <1>7, TouchGoesOn
<1>8. ASSUME NEW act \in Acts, NEW x \in Ids \cup Drafts, ReplicaTouch(act, x) \/ BeginUpdate(act, x)
      PROVE  mode' # "quit"
    BY <1>8 DEF ReplicaTouch, BeginUpdate
<1>9. CASE LogUpdate \/ EndUpdate
    BY <1>9 DEF LogUpdate, EndUpdate
<1>10. CASE Crash
    BY <1>10 DEF Crash
<1>11. CASE Recovery
    BY <1>11 DEF Recovery, Resume, Recovered, Restart
<1>12. CASE Server
    BY <1>12 DEF Server, Post, Accept, LoseAck, ClientSame
<1> QED BY <1>1, <1>2, <1>3, <1>4, <1>5, <1>6, <1>7, <1>8, <1>9, <1>10, <1>11, <1>12
    DEF Next, Reader, User, Touch

-----------------------------------------------------------------------------
(* The rest of the types.                                                  *)

LEMMA SummaryIs ==
    ASSUME NEW idx \in Seq(Entries)
    PROVE  Summary(idx) \in [count: Nat, unread: BOOLEAN, tagged: BOOLEAN]
<1>1. PICK S : S = {i \in DOMAIN idx : Stored(idx[i])}
    OBVIOUS
<1>2. S \subseteq 1..Len(idx) /\ IsFiniteSet(1..Len(idx))
    BY <1>1, FS_Interval
<1>3. Cardinality(S) \in Nat
    BY <1>2, FS_Subset, FS_CardinalityType
<1>4. Summary(idx) = [count |-> Cardinality(S), unread |-> \E i \in DOMAIN idx : idx[i].seen = "no",
                      tagged |-> \E i \in DOMAIN idx : idx[i].tag]
    BY <1>1 DEF Summary
<1>5. (\E i \in DOMAIN idx : idx[i].seen = "no") \in BOOLEAN /\ (\E i \in DOMAIN idx : idx[i].tag) \in BOOLEAN
    OBVIOUS
<1> QED BY <1>3, <1>4, <1>5

LEMMA DocTyped ==
    ASSUME IInv, IndexThread, doc # None => doc \in [count: Nat, unread: BOOLEAN, tagged: BOOLEAN]
    PROVE  doc' # None => doc' \in [count: Nat, unread: BOOLEAN, tagged: BOOLEAN]
<1>1. CASE temp.new = <<>>
    BY <1>1 DEF IndexThread, Quit, disk
<1>2. CASE temp.new # <<>>
    <2>1. temp # None /\ Head(todo) \in {"index", "drop"}
        BY DEF IndexThread, Step, Idle, IInv, Places
    <2>2. ReadIndex(file) \in Seq(Entries)
        BY <1>2, <2>1, FileAfter, WholeHas
    <2>3. doc' \in {doc, Summary(ReadIndex(file))}
        BY <1>2 DEF IndexThread, Quit, disk
    <2> QED BY <2>2, <2>3, SummaryIs
<1> QED BY <1>1, <1>2

\* What the user asks for, and what is written down of it, are acts on messages.
LEMMA SyncedTyped ==
    ASSUME IInv, UpdateOK, synced \subseteq Acts \X Ids, [Next]_vars
    PROVE  synced' \subseteq Acts \X Ids
<1>1. CASE UNCHANGED vars
    BY <1>1 DEF vars
<1>2. CASE Complete
    <2>1. CASE SyncTags
        <3>1. temp # None /\ Head(todo) = "synctags" /\ Remaining(todo, StepSet(temp)) /\ TransOK(temp)
            BY <2>1, PendingIs DEF SyncTags, Step, Idle, IInv, Places
        <3>2. "synctags" \in StepSet(temp)
            BY <3>1, RemainingNext DEF StepSet
        <3>3. temp.op = "ss"
            BY <3>2 DEF StepSet
        <3>4. temp.mid \in Ids /\ "tag" \in Acts
            BY <3>1, <3>3 DEF TransOK, Acts
        <3> QED BY <2>1, <3>4 DEF SyncTags
    <2>2. CASE RemoveDraft \/ LinkDraft \/ Dequeue \/ IndexThread
        BY <2>2 DEF RemoveDraft, LinkDraft, Dequeue, IndexThread, Quit
    <2>3. CASE LinkThread \/ Truncate \/ WriteThread \/ DropTemp
        BY <2>3 DEF LinkThread, Truncate, WriteThread, DropTemp
    <2> QED BY <1>2, <2>1, <2>2, <2>3 DEF Complete
<1>3. CASE LogUpdate
    <2>1. updt.act \in Acts
        BY <1>3 DEF LogUpdate, UpdateOK
    <2> QED BY <1>3, <2>1 DEF LogUpdate
<1>4. CASE Reader
    BY <1>4 DEF Reader, Receive, Confirm, ReadAck, StoreSent, Quit
<1>5. ASSUME NEW d \in Drafts, User(d)
      PROVE  synced' = synced
    BY <1>5 DEF User, SaveDraft, DiscardDraft, SendDraft, DraftRequest, Quit
<1>6. ASSUME NEW act \in Acts, NEW x \in Ids \cup Drafts, ReplicaTouch(act, x) \/ BeginUpdate(act, x)
      PROVE  synced' = synced
    BY <1>6 DEF ReplicaTouch, BeginUpdate
<1>7. CASE CallTouch \/ EndUpdate
    BY <1>7 DEF CallTouch, EndUpdate, Quit
<1>8. CASE Crash \/ Recovery
    BY <1>8 DEF Crash, Recovery, Resume, Recovered, Restart
<1>9. CASE Server
    BY <1>9 DEF Server, Post, Accept, LoseAck, ClientSame
<1> QED BY <1>1, <1>2, <1>3, <1>4, <1>5, <1>6, <1>7, <1>8, <1>9 DEF Next, Touch

LEMMA PagesTyped ==
    ASSUME IInv, shown \subseteq Drafts, renamed \in BOOLEAN, crashes \in 0..MaxCrash, [Next]_vars
    PROVE  shown' \subseteq Drafts /\ renamed' \in BOOLEAN /\ crashes' \in 0..MaxCrash
<1>1. CASE UNCHANGED vars
    BY <1>1 DEF vars
<1>2. CASE DropTemp
    <2>1. temp # None /\ Head(todo) \in {"index", "drop"}
        BY <1>2 DEF DropTemp, Step, Idle, IInv, Places
    <2>2. temp.op = "ws" => temp.draft \in Drafts
        BY <2>1, FileAfter DEF TransOK
    <2> QED BY <1>2, <2>2 DEF DropTemp
<1>3. CASE RemoveDraft \/ LinkDraft \/ Dequeue \/ SyncTags
    BY <1>3 DEF RemoveDraft, LinkDraft, Dequeue, SyncTags, Rest, pages
<1>4. CASE LinkThread \/ Truncate \/ WriteThread \/ IndexThread
    BY <1>4 DEF LinkThread, Truncate, WriteThread, IndexThread, Rest, pages, Quit
<1>5. ASSUME NEW m \in Ids, Receive(m) \/ Confirm(m, TRUE) \/ Confirm(m, FALSE)
      PROVE  UNCHANGED <<shown, renamed, crashes>>
    BY <1>5 DEF Receive, Confirm, pages
<1>6. ASSUME NEW d \in Drafts, NEW m \in Ids, ReadAck(d, m)
      PROVE  UNCHANGED <<shown, renamed, crashes>>
    BY <1>6 DEF ReadAck, pages
<1>7. CASE StoreSent
    BY <1>7 DEF StoreSent, pages, Quit
<1>8. ASSUME NEW d \in Drafts, User(d)
      PROVE  UNCHANGED <<shown, renamed, crashes>>
    BY <1>8 DEF User, SaveDraft, DiscardDraft, SendDraft, DraftRequest, Quit, pages
<1>9. ASSUME NEW act \in Acts, NEW x \in Ids \cup Drafts, ReplicaTouch(act, x) \/ BeginUpdate(act, x)
      PROVE  UNCHANGED <<shown, renamed, crashes>>
    BY <1>9 DEF ReplicaTouch, BeginUpdate, pages
<1>10. CASE CallTouch \/ EndUpdate \/ LogUpdate
    BY <1>10 DEF CallTouch, EndUpdate, LogUpdate, Quit, pages
<1>11. CASE Crash
    <2>1. crashes + 1 \in 0..MaxCrash
        BY <1>11, BoundAssumption DEF Crash
    <2> QED BY <1>11, <2>1 DEF Crash
<1>12. CASE Recovery
    BY <1>12 DEF Recovery, Resume, Recovered, Restart, pages
<1>13. CASE Server
    BY <1>13 DEF Server, Post, Accept, LoseAck, ClientSame, pages
<1> QED BY <1>1, <1>2, <1>3, <1>4, <1>5, <1>6, <1>7, <1>8, <1>9, <1>10, <1>11, <1>12, <1>13
    DEF Next, Complete, Reader, Touch

LEMMA DocStays ==
    ASSUME ~IndexThread, [Next]_vars
    PROVE  doc' = doc
<1>1. CASE UNCHANGED vars
    BY <1>1 DEF vars
<1>2. CASE Complete
    <2>1. CASE RemoveDraft \/ LinkDraft \/ Dequeue \/ SyncTags
        BY <2>1 DEF RemoveDraft, LinkDraft, Dequeue, SyncTags, disk
    <2>2. CASE LinkThread \/ Truncate \/ WriteThread \/ DropTemp
        BY <2>2 DEF LinkThread, Truncate, WriteThread, DropTemp, disk
    <2> QED BY <1>2, <2>1, <2>2 DEF Complete
<1>3. CASE Reader
    BY <1>3 DEF Reader, Receive, Confirm, ReadAck, StoreSent, Quit, disk
<1>4. ASSUME NEW d \in Drafts, User(d)
      PROVE  doc' = doc
    BY <1>4 DEF User, SaveDraft, DiscardDraft, SendDraft, DraftRequest, Quit, disk
<1>5. ASSUME NEW act \in Acts, NEW x \in Ids \cup Drafts, ReplicaTouch(act, x) \/ BeginUpdate(act, x)
      PROVE  doc' = doc
    BY <1>5 DEF ReplicaTouch, BeginUpdate, disk
<1>6. CASE CallTouch \/ EndUpdate \/ LogUpdate
    BY <1>6 DEF CallTouch, EndUpdate, LogUpdate, Quit, disk
<1>7. CASE Crash \/ Recovery
    BY <1>7 DEF Crash, Recovery, Resume, Recovered, Restart, disk
<1>8. CASE Server
    BY <1>8 DEF Server, Post, Accept, LoseAck, ClientSame, disk
<1> QED BY <1>1, <1>2, <1>3, <1>4, <1>5, <1>6, <1>7, <1>8 DEF Next, Touch

\* The step of the invariant, and then its start.
LEMMA TidyNext ==
    ASSUME UpdateCrash = FALSE, ReplyCrash = FALSE, LateAcks = FALSE, TwoClients = FALSE,
           IInv, IInv', UpdateOK, Tidy, [Next]_vars
    PROVE  Tidy'
<1>1. Effect
    BY EffectIs DEF Tidy
<1>2. LaidOK' /\ DoorOK'
    BY <1>1 DEF Effect, SameLog
<1>3. SeenKept
    BY SeenKeptIs DEF Tidy
<1>4. SeenOK'
    BY <1>1, <1>3, SeenStays DEF Tidy
<1>5. mode' # "quit"
    BY GoesOn DEF Tidy, OthersOK
<1>6. doc' # None => doc' \in [count: Nat, unread: BOOLEAN, tagged: BOOLEAN]
    <2>1. CASE IndexThread
        BY <2>1, DocTyped DEF Tidy, OthersOK
    <2>2. CASE ~IndexThread
        BY <2>2, DocStays DEF Tidy, OthersOK
    <2> QED BY <2>1, <2>2
<1>7. synced' \subseteq Acts \X Ids
    BY SyncedTyped DEF Tidy, OthersOK
<1>8. shown' \subseteq Drafts /\ renamed' \in BOOLEAN /\ crashes' \in 0..MaxCrash
    BY PagesTyped DEF Tidy, OthersOK
<1> QED BY <1>2, <1>4, <1>5, <1>6, <1>7, <1>8 DEF Tidy, OthersOK

-----------------------------------------------------------------------------
(* The copies of a forwarded thread are laid out in its first file.        *)

CopyAt(c, off, k, j) == \E m \in 1..k : off[m] < j /\ j <= off[m] + Size[m] /\ c[k][j] = <<"body", m>>

LEMMA CopiedCells ==
    ASSUME NEW n \in Nat, \A m \in 1..n : m \in Ids, NEW c, NEW off, Copied(n, c, off)
    PROVE  /\ \A j \in 1..Len(c[n]) : CopyAt(c, off, n, j)
           /\ \A i, j \in 0..n : i <= j => Len(c[i]) <= Len(c[j])
<1> DEFINE P == {k \in 0..n : \A j \in 1..Len(c[k]) : CopyAt(c, off, k, j)}
           Q == {k \in 0..n : \A i \in 0..k : Len(c[i]) <= Len(c[k])}
<1>1. /\ \A k \in 0..n : c[k] \in Seq(Cell) /\ Len(c[k]) \in Nat
      /\ c[0] = <<>> /\ \A k \in 1..n : c[k] = c[k - 1] \o Body(k) /\ Len(c[k]) = Len(c[k - 1]) + Size[k]
      /\ \A m \in 1..n : off[m] = Len(c[m - 1])
    BY DEF Copied
<1>2. 0 \in P /\ 0 \in Q
    <2>1. 0 \in 0..n /\ Len(c[0]) = 0 /\ 0..0 = {0} /\ 1..0 = {}
        BY <1>1
    <2>2. \A j \in 1..Len(c[0]) : CopyAt(c, off, 0, j)
        BY <2>1
    <2>3. \A i \in 0..0 : Len(c[i]) <= Len(c[0])
        BY <2>1
    <2> QED BY <2>1, <2>2, <2>3
<1>3. ASSUME NEW k \in 1..n, k - 1 \in P
      PROVE  k \in P
    <2>1. k \in 0..n /\ k - 1 \in 0..n
        OBVIOUS
    <2>2. PICK a, b : a = c[k - 1] /\ b = Body(k)
        OBVIOUS
    <2>3. a \in Seq(Cell) /\ b \in Seq(Cell) /\ Len(b) = Size[k] /\ Size[k] \in Nat /\ Len(a) \in Nat
        BY <1>1, <2>1, <2>2, BodyIs
    <2>4. c[k] = a \o b /\ off[k] = Len(a)
        BY <1>1, <2>2
    <2>5. /\ Len(a \o b) = Len(a) + Len(b)
          /\ \A j \in 1..(Len(a) + Len(b)) : (a \o b)[j] = IF j <= Len(a) THEN a[j] ELSE b[j - Len(a)]
        <3> HIDE DEF Cell
        <3> QED BY <2>3, ConcatProperties
    <2>6. ASSUME NEW j \in 1..Len(c[k])
          PROVE  CopyAt(c, off, k, j)
        <3>1. CASE j <= Len(a)
            <4>1. c[k][j] = a[j] /\ j \in 1..Len(a)
                BY <2>3, <2>4, <2>5, <2>6, <3>1
            <4>2. CopyAt(c, off, k - 1, j)
                BY <1>3, <2>2, <4>1
            <4>3. PICK m \in 1..(k - 1) : off[m] < j /\ j <= off[m] + Size[m] /\ a[j] = <<"body", m>>
                BY <2>2, <4>2 DEF CopyAt
            <4>4. m \in 1..k
                OBVIOUS
            <4> QED BY <4>1, <4>3, <4>4 DEF CopyAt
        <3>2. CASE ~(j <= Len(a))
            <4>1. c[k][j] = b[j - Len(a)] /\ j - Len(a) \in 1..Size[k]
                BY <2>3, <2>4, <2>5, <2>6, <3>2
            <4>2. b[j - Len(a)] = <<"body", k>>
                BY <2>2, <4>1 DEF Body
            <4>3. off[k] < j /\ j <= off[k] + Size[k]
                BY <2>3, <2>4, <2>5, <2>6, <3>2
            <4>4. k \in 1..k
                OBVIOUS
            <4> QED BY <4>1, <4>2, <4>3, <4>4 DEF CopyAt
        <3> QED BY <3>1, <3>2
    <2> QED BY <2>1, <2>6
<1>4. ASSUME NEW k \in 1..n, k - 1 \in Q
      PROVE  k \in Q
    <2>1. k \in 0..n /\ k - 1 \in 0..n /\ k \in Ids
        OBVIOUS
    <2>2. Len(c[k]) = Len(c[k - 1]) + Size[k] /\ Size[k] \in Nat /\ Len(c[k - 1]) \in Nat
        BY <1>1, <2>1, BodyIs
    <2>3. ASSUME NEW i \in 0..k
          PROVE  Len(c[i]) <= Len(c[k])
        <3>1. Len(c[i]) \in Nat /\ Len(c[k]) \in Nat
            BY <1>1, <2>1
        <3>2. CASE i = k
            BY <3>1, <3>2
        <3>3. CASE i # k
            <4>1. i \in 0..(k - 1)
                BY <3>3
            <4>2. Len(c[i]) <= Len(c[k - 1])
                BY <1>4, <4>1
            <4> QED BY <2>2, <3>1, <4>2
        <3> QED BY <3>2, <3>3
    <2> QED BY <2>1, <2>3
<1> HIDE DEF P, Q
<1>5. \A k \in 0..n : k \in P
    <2>1. \A k \in 1..n : k - 1 \in P => k \in P
        BY <1>3
    <2> QED BY <1>2, <2>1, Along
<1>6. \A k \in 0..n : k \in Q
    <2>1. \A k \in 1..n : k - 1 \in Q => k \in Q
        BY <1>4
    <2> QED BY <1>2, <2>1, Along
<1>7. \A j \in 1..Len(c[n]) : CopyAt(c, off, n, j)
    <2>1. n \in P
        BY <1>5
    <2> QED BY <2>1 DEF P
<1>8. ASSUME NEW i \in 0..n, NEW j \in 0..n, i <= j
      PROVE  Len(c[i]) <= Len(c[j])
    <2>1. j \in Q /\ i \in 0..j
        BY <1>6, <1>8
    <2> QED BY <2>1 DEF Q
<1> QED BY <1>7, <1>8

LEMMA CopiesLaid ==
    ASSUME NEW n \in Nat, \A m \in 1..n : m \in Ids, NEW c, NEW off, Copied(n, c, off),
           NEW idx, idx = [m \in 1..n |-> Copy(m, off[m])], Len(idx) = n, NEW f,
           \A j \in 1..Len(c[n]) : f[j] = c[n][j]
    PROVE  Laid(Spots(ElemsOf(idx)), f, Len(c[n]))
<1>1. \A m \in 1..n : /\ idx[m].id = m /\ idx[m].off = off[m] /\ idx[m].size = Size[m] /\ Stored(idx[m])
                      /\ off[m] \in Nat /\ off[m] = Len(c[m - 1])
    <2> TAKE m \in 1..n
    <2>1. off[m] \in Nat /\ off[m] = Len(c[m - 1]) /\ m \in Ids /\ idx[m] = Copy(m, off[m])
        BY DEF Copied
    <2>2. idx[m].size = Size[m]
        BY <2>1 DEF Copy, Entry
    <2> QED BY <2>1, <2>2, CopyIs
<1>2. \A m \in 1..n : Size[m] \in Nat \ {0} /\ off[m] + Size[m] = Len(c[m]) /\ Len(c[m]) \in Nat
    <2> TAKE m \in 1..n
    <2>1. Size[m] \in Nat \ {0} /\ m \in 0..n
        BY BodyIs
    <2> QED BY <1>1, <2>1 DEF Copied
<1>3. \A s \in Spots(ElemsOf(idx)) : \E m \in 1..n : s.id = m /\ s.off = off[m] /\ s.size = Size[m]
    BY SMTT(30), <1>1, SpotIs DEF Spots, ElemsOf
<1>4. \A m \in 1..n : Spot(idx[m]) \in Spots(ElemsOf(idx))
    BY <1>1 DEF Spots, ElemsOf
<1>5. \A i, j \in 0..n : i <= j => Len(c[i]) <= Len(c[j])
    BY CopiedCells
<1>6. ASSUME NEW s \in Spots(ElemsOf(idx))
      PROVE  /\ s.off \in Nat /\ s.size \in Nat \ {0} /\ s.off + s.size <= Len(c[n])
             /\ s.size = Size[s.id]
    <2>1. PICK m \in 1..n : s.id = m /\ s.off = off[m] /\ s.size = Size[m]
        BY <1>3
    <2>2. m \in 0..n /\ n \in 0..n
        OBVIOUS
    <2>3. Len(c[m]) <= Len(c[n])
        BY <1>5, <2>2
    <2> QED BY <1>1, <1>2, <2>1, <2>3
<1>7. ASSUME NEW s \in Spots(ElemsOf(idx)), NEW u \in Spots(ElemsOf(idx)), s.id < u.id
      PROVE  s.off + s.size <= u.off
    <2>1. PICK m \in 1..n : s.id = m /\ s.off = off[m] /\ s.size = Size[m]
        BY <1>3
    <2>2. PICK k \in 1..n : u.id = k /\ u.off = off[k] /\ u.size = Size[k]
        BY <1>3
    <2>3. m \in 0..n /\ k - 1 \in 0..n /\ m <= k - 1
        BY <1>7, <2>1, <2>2
    <2>4. Len(c[m]) <= Len(c[k - 1])
        BY <1>5, <2>3
    <2> QED BY <1>1, <1>2, <2>1, <2>2, <2>4
<1>8. ASSUME NEW j \in 1..Len(c[n])
      PROVE  \E s \in Spots(ElemsOf(idx)) : s.off < j /\ j <= s.off + s.size /\ f[j] = <<"body", s.id>>
    <2>1. CopyAt(c, off, n, j)
        BY CopiedCells
    <2>2. PICK m \in 1..n : off[m] < j /\ j <= off[m] + Size[m] /\ c[n][j] = <<"body", m>>
        BY <2>1 DEF CopyAt
    <2>3. PICK s : s = Spot(idx[m])
        OBVIOUS
    <2>4. s \in Spots(ElemsOf(idx)) /\ s.id = m /\ s.off = off[m] /\ s.size = Size[m]
        BY <1>1, <1>4, <2>3, SpotIs
    <2> QED BY <2>2, <2>4
<1> QED BY <1>6, <1>7, <1>8 DEF Laid

LEMMA LaidInit ==
    ASSUME Init, First = "forwarded"
    PROVE  /\ Laid(Spots(ElemsOf(ReadIndex(file))), file, IndexPos(file))
           /\ \A e \in ElemsOf(ReadIndex(file)) : e.seen = "no" /\ Stored(e) /\ ~e.tag
<1>1. PICK n : n = Cardinality(Forwarded)
    OBVIOUS
<1>2. n \in Nat /\ n >= 1 /\ Forwarded = 1..n
    BY <1>1, ForwardedAre
<1>3. \A m \in 1..n : m \in Ids
    BY <1>2, KindAssumption
<1>4. PICK c, off : Copied(n, c, off)
    BY <1>1, CopiedIs
<1>5. PICK x, idx : x = c[n] /\ idx = [m \in 1..n |-> Copy(m, off[m])]
    OBVIOUS
<1>6. x \in Seq(Cell) /\ file = x \o WriteIndex(idx)
    BY <1>2, <1>4, <1>5 DEF Copied
<1>7. Sound(idx, Len(x)) /\ IdsOf(idx) = 1..n
    BY <1>2, <1>3, <1>4, <1>5, <1>6, CopiesAre DEF Copied
<1>8. idx \in Seq(Entries) /\ Sound(idx, 0 + Len(x)) /\ Len(x) \in Nat
    BY <1>6, <1>7 DEF Sound
<1>9. ReadIndex(file) = idx /\ IndexPos(file) = Len(x)
    BY <1>6, <1>8, WholeIs
<1>10. \A j \in 1..Len(x) : file[j] = x[j]
    <2>1. PICK w : w = WriteIndex(idx)
        OBVIOUS
    <2>2. w \in Seq(Cell) /\ Len(w) \in Nat
        BY <1>6, <1>8, <2>1, RoundTrip
    <2>3. \A j \in 1..(Len(x) + Len(w)) : (x \o w)[j] = IF j <= Len(x) THEN x[j] ELSE w[j - Len(x)]
        <3> HIDE DEF Cell
        <3> QED BY <1>6, <2>2, ConcatProperties
    <2>4. \A j \in 1..Len(x) : j \in 1..(Len(x) + Len(w))
        BY <1>8, <2>2
    <2> QED BY <1>6, <2>1, <2>3, <2>4
<1>11. Len(idx) = n
    <2>1. DOMAIN idx = 1..n
        BY <1>5
    <2> QED BY <1>2, <1>8, <2>1
<1>12. Laid(Spots(ElemsOf(idx)), file, Len(x))
    BY <1>2, <1>3, <1>4, <1>5, <1>10, <1>11, CopiesLaid
<1>13. ASSUME NEW e \in ElemsOf(idx)
       PROVE  e.seen = "no" /\ Stored(e) /\ ~e.tag
    <2>1. PICK m \in 1..n : e = idx[m]
        BY <1>11 DEF ElemsOf
    <2>2. e = Copy(m, off[m]) /\ off[m] \in Nat /\ m \in Ids
        BY <1>3, <1>4, <1>5, <2>1 DEF Copied
    <2>3. ~e.tag
        BY <2>2 DEF Copy, Entry
    <2>4. e.seen = "no" /\ Stored(e)
        BY <2>2, CopyIs DEF Copy, Entry
    <2> QED BY <2>3, <2>4
<1> QED BY <1>9, <1>12, <1>13

LEMMA TidyInit == Init => Tidy
<1> SUFFICES ASSUME Init PROVE Tidy
    OBVIOUS
<1>1. /\ doc = IF file = <<>> THEN None ELSE Summary(ReadIndex(file))
      /\ left = {} /\ temp = None /\ updt = None /\ synced = {} /\ renamed = FALSE /\ mode = "up"
      /\ shown = {} /\ crashes = 0
      /\ First # "forwarded" => file = <<>>
    BY DEF Init
<1>2. Pending = {} /\ Index = Idx(file)
    BY <1>1, IndexIs, IndexOfIs DEF Pending
<1>3. ASSUME file # <<>>
      PROVE  /\ ReadIndex(file) \in Seq(Entries)
             /\ Laid(Spots(ElemsOf(ReadIndex(file))), file, IndexPos(file))
             /\ \A e \in ElemsOf(ReadIndex(file)) : e.seen = "no" /\ Stored(e)
    <2>1. First = "forwarded"
        BY <1>1, <1>3
    <2>2. Whole(file, 0)
        BY <2>1, InitFile
    <2> QED BY <2>1, <2>2, WholeHas, LaidInit
<1>4. LaidOK
    BY <1>2, <1>3 DEF LaidOK
<1>5. \A e \in ElemsOf(Index) : e.seen = "no" /\ Stored(e)
    <2>1. CASE file = <<>>
        BY <1>2, <2>1, ElemsNone DEF Idx
    <2>2. CASE file # <<>>
        BY <1>2, <1>3, <2>2 DEF Idx
    <2> QED BY <2>1, <2>2
<1>6. SeenOK
    BY <1>1, <1>5 DEF SeenOK
<1>7. DoorOK
    BY <1>1 DEF DoorOK
<1>8. doc # None => doc \in [count: Nat, unread: BOOLEAN, tagged: BOOLEAN]
    BY <1>1, <1>3, SummaryIs
<1>9. OthersOK
    <2>1. crashes \in 0..MaxCrash
        BY <1>1, BoundAssumption
    <2>2. renamed \in BOOLEAN
        BY <1>1
    <2>3. synced \subseteq Acts \X Ids /\ shown \subseteq Drafts /\ mode # "quit"
        BY <1>1
    <2> QED BY <1>8, <2>1, <2>2, <2>3 DEF OthersOK
<1> QED BY <1>4, <1>6, <1>7, <1>9 DEF Tidy

-----------------------------------------------------------------------------
(* The invariant, and what it says of the file and of the marks.           *)

\* The invariant of the thread store with the layout and the marks.
LEMMA TidyInv ==
    ASSUME UpdateCrash = FALSE, ReplyCrash = FALSE, LateAcks = FALSE, TwoClients = FALSE
    PROVE  Spec => [](IInv /\ UpdateOK /\ Tidy)
<1>1. Init => Tidy
    BY TidyInit
<1>2. (IInv /\ UpdateOK) /\ Tidy /\ [Next]_vars /\ (IInv /\ UpdateOK)' => Tidy'
    BY TidyNext
<1>3. Spec => [](IInv /\ UpdateOK)
    BY StoreInv
<1> QED BY <1>1, <1>2, <1>3, PTL DEF Spec

\* No step of the store meets what its code takes for impossible and ends the
\* process: an index it cannot read or follow in the file, a body that ends before
\* its entry says, the entry of a draft without a file, the door of a thread that was
\* renamed; and a restart does not end it in its turn.  The crashes are all but those
\* in the storing of a sent reply, whose recovery leaves the body out.
THEOREM StoreGoesOn ==
    ASSUME UpdateCrash = FALSE, ReplyCrash = FALSE, LateAcks = FALSE, TwoClients = FALSE
    PROVE  Spec => []NoFatal
<1>1. IInv /\ UpdateOK /\ Tidy => NoFatal
    BY DEF IInv, Places, Tidy, OthersOK, NoFatal
<1> QED BY <1>1, TidyInv, PTL

LEMMA TypesHold ==
    ASSUME IInv, UpdateOK, Tidy
    PROVE  TypeOK
<1>1. Places /\ Types /\ \A t \in Pending : TransOK(t)
    BY DEF IInv, Places
<1>2. \A t \in Pending : t \in Transactions /\ (t.new # <<>> => Whole(t.new, t.pos))
    BY <1>1 DEF TransOK
<1>3. Pending \subseteq Transactions /\ \A t \in Pending : t.new # <<>> => Readable(t.new)
    BY <1>2 DEF Whole
<1>4. file \in Seq(Cell)
    <2>1. CASE Pending = {}
        BY <2>1, WholeHas, EmptySeq DEF IInv, FileOK
    <2>2. CASE Pending # {}
        <3>1. PICK t \in Pending : FileAt(t)
            BY <2>2 DEF IInv, FileOK
        <3>2. t.new \in Seq(Cell)
            BY <1>2 DEF Transactions
        <3> QED BY <3>1, <3>2, EmptySeq DEF FileAt
    <2> QED BY <2>1, <2>2
<1>5. Range(todo) \subseteq {"rmdraft", "lndraft", "dequeue", "synctags", "link",
                             "trunc", "write", "index", "drop"}
    <2>1. todo = <<>> \/ todo \in Seq(StepName)
        BY <1>1 DEF Places, Remaining
    <2>2. todo \in Seq(StepName)
        BY <2>1, EmptySeq
    <2>3. \A i \in DOMAIN todo : todo[i] \in StepName
        BY <2>2
    <2> QED BY <2>3 DEF Range, StepName
<1>6. temp = None <=> Idle
    BY <1>1 DEF Places, Remaining, Idle
<1>7. mode \in {"up", "down", "recover", "quit", "panic"}
    BY <1>1 DEF Places
<1> QED BY <1>1, <1>3, <1>4, <1>5, <1>6, <1>7 DEF TypeOK, Types, UpdateOK, Tidy, OthersOK

\* Between two transactions the thread file is an index in the order of the
\* bodies, which fill it up to the index: every cell of it belongs to the message
\* whose entry covers it, whatever was inserted before it, kept, moved or cut by
\* a crash, and each draft of the index has its file.  A crash in the storing of a
\* sent reply is excluded: its recovery writes the index where the body belongs.
THEOREM FileStaysWellFormed ==
    ASSUME UpdateCrash = FALSE, ReplyCrash = FALSE, LateAcks = FALSE, TwoClients = FALSE
    PROVE  Spec => []WellFormed
<1>1. ASSUME IInv, UpdateOK, Tidy PROVE WellFormed
    <2>1. TypeOK
        BY <1>1, TypesHold
    <2>2. ASSUME AtRest, file # <<>>,
                 NEW idx, idx = ReadIndex(file), NEW end, end = IndexPos(file)
          PROVE  /\ Readable(file) /\ Streamable(idx)
                 /\ IsInjective([i \in DOMAIN idx |-> idx[i].id])
                 /\ \A c \in 1..end : \E i \in DOMAIN idx :
                       (Stored(idx[i]) /\ idx[i].off < c /\ c <= idx[i].off + idx[i].size)
                       /\ file[c] = <<"body", idx[i].id>>
        <3>1. Pending = {} /\ Whole(file, 0) /\ Index = idx
            BY <1>1, <2>2, RestIs DEF AtRest, Up, Idx
        <3>2. Sound(idx, end) /\ end \in Nat /\ Readable(file)
            BY <2>2, <3>1, FileIs DEF Whole
        <3>3. Laid(Spots(ElemsOf(idx)), file, end)
            BY <1>1, <2>2, <3>1 DEF Tidy, LaidOK
        <3>4. Streamable(idx)
            <4>1. Len(file) \in Nat /\ end <= Len(file)
                BY <2>2, <3>1, FileIs
            <4> QED BY <1>1, <2>2, <3>1, <3>2, <3>3, <4>1, StreamIs
        <3>5. DOMAIN idx = 1..Len(idx)
            BY <3>2 DEF Sound
        <3>6. \A c \in 1..end : \E i \in 1..Len(idx) :
                  /\ Stored(idx[i]) /\ idx[i].off < c /\ c <= idx[i].off + idx[i].size
                  /\ file[c] = <<"body", idx[i].id>>
            BY <3>2, <3>3, LaidAt
        <3>7. IsInjective([i \in DOMAIN idx |-> idx[i].id])
            BY <3>2, <3>5 DEF Sound, IsInjective
        <3> QED BY <3>2, <3>4, <3>5, <3>6, <3>7
    <2>3. AtRest /\ file # <<>> =>
              LET idx == ReadIndex(file)
                  Covers(i, c) == Stored(idx[i]) /\ idx[i].off < c /\ c <= idx[i].off + idx[i].size
              IN  /\ Readable(file) /\ Streamable(idx)
                  /\ IsInjective([i \in DOMAIN idx |-> idx[i].id])
                  /\ \A c \in 1..IndexPos(file) :
                        \E i \in DOMAIN idx : Covers(i, c) /\ file[c] = <<"body", idx[i].id>>
        BY <2>2
    <2> QED BY <2>1, <2>3 DEF WellFormed
<1> QED BY <1>1, TidyInv, PTL

\* A message that was opened here is on the log for the other replicas, as soon as
\* no update is under way: the mark and the record of it are never apart for good,
\* whatever else the thread is used for between the two, and across crashes that
\* do not fall into an update or into the storing of a sent reply.
THEOREM SeenStaysSynced ==
    ASSUME UpdateCrash = FALSE, ReplyCrash = FALSE, LateAcks = FALSE, TwoClients = FALSE
    PROVE  Spec => []SeenIsSynced
<1>1. ASSUME IInv, SeenOK PROVE SeenIsSynced
    <2>1. Elements = Log
        <3>1. DOMAIN Index = 1..Len(Index)
            <4>1. Index = <<>> \/ Index \in Seq(Entries)
                BY <1>1, IndexSound DEF Sound
            <4> QED BY <4>1
        <3> QED BY <3>1 DEF Elements, Log, ElemsOf
    <2>2. ASSUME Up, updt = None, NEW e \in Elements, e.seen = "here"
          PROVE  <<"see", e.id>> \in synced
        BY <1>1, <2>1, <2>2 DEF SeenOK, Logging, Log
    <2> QED BY <2>2 DEF SeenIsSynced
<1>2. IInv /\ UpdateOK /\ Tidy => SeenIsSynced
    BY <1>1 DEF Tidy
<1> QED BY <1>2, TidyInv, PTL

-----------------------------------------------------------------------------
(* The bodies that the index points at.                                    *)

\* A message of a file that is laid out as E has its body.
LEMMA LaidHolds ==
    ASSUME NEW f \in Seq(Cell), NEW end \in Nat, end <= Len(f), NEW E, Laid(Spots(E), f, end),
           \A x \in E : Stored(x) => x.id \in Ids, NEW e \in E, Stored(e)
    PROVE  Holds(f, e)
<1>1. PICK a, n, m : a = e.off /\ n = e.size /\ m = e.id
    OBVIOUS
<1>2. PICK S : S = Spots(E)
    OBVIOUS
<1>3. \A x \in S : x.id \in Nat
    <2>1. Ids \subseteq Nat
        BY IdAssumption DEF Ids
    <2>2. ASSUME NEW x \in S PROVE x.id \in Ids
        <3>1. PICK y \in E : Stored(y) /\ x = Spot(y)
            BY <1>2, SpotsOf
        <3> QED BY <3>1, SpotIs
    <2> QED BY <2>1, <2>2
<1>4. PICK s \in S : s.id = m /\ s.off = a /\ s.size = n
    BY <1>1, <1>2, SpotIs, SpotsOf
<1>5. /\ \A x \in S : /\ x.off \in Nat /\ x.size \in Nat \ {0} /\ x.off + x.size <= end
                     /\ x.size = Size[x.id]
      /\ \A x, y \in S : x.id < y.id => x.off + x.size <= y.off
      /\ \A c \in 1..end : \E x \in S : x.off < c /\ c <= x.off + x.size /\ f[c] = <<"body", x.id>>
    BY <1>2 DEF Laid
<1>6. a \in Nat /\ n \in Nat \ {0} /\ a + n <= end /\ n = Size[m] /\ m \in Nat
    BY <1>3, <1>4, <1>5
<1>7. ASSUME NEW c \in Int, a < c, c <= a + n
      PROVE  f[c] = <<"body", m>>
    <2>1. c \in 1..end
        BY <1>6, <1>7
    <2>2. PICK x \in S : x.off < c /\ c <= x.off + x.size /\ f[c] = <<"body", x.id>>
        BY <1>5, <2>1
    <2>3. x.off \in Nat /\ x.size \in Nat /\ x.id \in Nat
        BY <1>3, <1>5
    <2>4. ~(x.id < m)
        <3> SUFFICES ASSUME x.id < m PROVE FALSE
            OBVIOUS
        <3>1. x.off + x.size <= a
            BY <1>4, <1>5
        <3> QED BY <1>6, <1>7, <2>2, <2>3, <3>1
    <2>5. ~(m < x.id)
        <3> SUFFICES ASSUME m < x.id PROVE FALSE
            OBVIOUS
        <3>1. a + n <= x.off
            BY <1>4, <1>5
        <3> QED BY <1>6, <1>7, <2>2, <2>3, <3>1
    <2>6. x.id = m
        BY <1>6, <2>3, <2>4, <2>5
    <2> QED BY <2>2, <2>6
<1>8. PICK l \in Nat : l = Len(f)
    OBVIOUS
<1>9. PICK b : b = SubSeq(f, a + 1, a + n)
    OBVIOUS
<1>10. b \in Seq(Cell) /\ Len(b) = n /\ \A i \in 1..n : b[i] = f[a + i]
    <2>1. PICK p \in Int, q \in Int : p = a + 1 /\ q = a + n
        BY <1>6
    <2>2. \A i \in p..q : f[i] \in Cell
        BY <1>6, <1>8, <2>1
    <2>3. p <= q /\ q - p + 1 = n /\ \A i \in 1..n : p + i - 1 = a + i
        BY <1>6, <2>1
    <2>4. /\ b \in Seq(Cell)
          /\ Len(b) = IF p <= q THEN q - p + 1 ELSE 0
          /\ \A i \in 1..(q - p + 1) : b[i] = f[p + i - 1]
        BY <1>9, <2>1, <2>2, SubSeqProperties
    <2> QED BY <2>3, <2>4
<1>11. b = Body(m)
    <2>1. b = [i \in 1..n |-> b[i]]
        BY <1>10
    <2>2. \A i \in 1..n : b[i] = <<"body", m>>
        <3> TAKE i \in 1..n
        <3>1. a + i \in Int /\ a < a + i /\ a + i <= a + n
            BY <1>6
        <3> QED BY <1>7, <1>10, <3>1
    <2>3. b = [i \in 1..n |-> <<"body", m>>]
        BY <2>1, <2>2
    <2> QED BY <1>6, <2>3 DEF Body
<1>12. a + n <= Len(f)
    BY <1>6, <1>8
<1> QED BY <1>1, <1>9, <1>11, <1>12 DEF Holds

\* A temporary file with an index is what the thread file will be from its place on.
LEMMA CompletedIs ==
    ASSUME IInv, NEW t \in Pending, t.new # <<>>
    PROVE  /\ Completed = SubSeq(file, 1, t.pos) \o t.new /\ Completed \in Seq(Cell)
           /\ t.pos + IndexPos(t.new) \in Nat /\ t.pos + IndexPos(t.new) <= Len(Completed)
           /\ \A c \in 1..(t.pos + IndexPos(t.new)) : Completed[c] = After(t)[c]
<1>1. Pending = {t} /\ Whole(t.new, t.pos) /\ t.pos \in Nat /\ t.new \in Seq(Cell)
      /\ (Links(t) => t.pos = 0) /\ FileAt(t)
    BY PendingIs DEF IInv, Places, FileOK, TransOK, Transactions
<1>2. PICK pos \in Nat, new \in Seq(Cell) : pos = t.pos /\ new = t.new
    BY <1>1
<1>3. file \in Seq(Cell) /\ pos <= Len(file)
    <2>1. CASE Links(t)
        <3>1. file \in Seq(Cell)
            BY <1>1, <2>1, EmptySeq DEF FileAt
        <3> QED BY <1>1, <1>2, <2>1, <3>1
    <2>2. CASE ~Links(t)
        BY <1>1, <1>2, <2>2 DEF FileAt
    <2> QED BY <2>1, <2>2
<1>4. PICK y : y = SubSeq(file, 1, pos)
    OBVIOUS
<1>5. y \in Seq(Cell) /\ Len(y) = pos /\ \A c \in 1..pos : y[c] = file[c]
    BY <1>3, <1>4, Cut, CutCells
<1>6. Completed = y \o new
    <2>1. \E s \in Pending : s.new # <<>>
        OBVIOUS
    <2>2. (CHOOSE s \in Pending : s.new # <<>>) = t
        BY <1>1
    <2> QED BY <1>2, <1>4, <2>1, <2>2 DEF Completed
<1>7. PICK p \in Nat, l \in Nat : p = IndexPos(new) /\ Len(new) = p + l
    BY <1>1, <1>2, WholeHas
<1>8. \A c \in 1..(pos + p) : (y \o new)[c] = IF c <= pos THEN y[c] ELSE new[c - pos]
    <2>1. Whole(new, Len(y))
        BY <1>1, <1>2, <1>5
    <2>2. \A c \in 1..(Len(y) + IndexPos(new)) :
              (y \o new)[c] = IF c <= Len(y) THEN y[c] ELSE new[c - Len(y)]
        BY <1>5, <2>1, AfterCells
    <2> QED BY <1>5, <1>7, <2>2
<1>9. \A c \in 1..(pos + p) : After(t)[c] = IF c <= pos THEN file[c] ELSE new[c - pos]
    BY <1>2, <1>7 DEF After
<1>10. \A c \in 1..(pos + p) : Completed[c] = After(t)[c]
    <2> TAKE c \in 1..(pos + p)
    <2>1. c <= pos => c \in 1..pos
        BY <1>2
    <2> QED BY <1>5, <1>6, <1>8, <1>9, <2>1
<1>11. Completed \in Seq(Cell) /\ Len(Completed) = pos + (p + l)
    BY <1>5, <1>6, <1>7, ConcatProperties
<1>12. pos + p \in Nat /\ pos + p <= Len(Completed)
    BY <1>11
<1> QED BY <1>2, <1>4, <1>6, <1>7, <1>10, <1>11, <1>12

\* Every message of the index has its body.
LEMMA BodiesHeld ==
    ASSUME IInv, LaidOK, NEW e \in Log, Stored(e)
    PROVE  Holds(Completed, e)
<1>1. \A x \in Log : Stored(x) => x.id \in Ids
    BY LogIs
<1>2. ASSUME NEW t \in Pending, t.new # <<>> PROVE Holds(Completed, e)
    <2>1. Log = ElemsOf(ReadIndex(t.new))
        BY <1>2, OneIndex DEF IInv, Log
    <2>2. PICK end \in Nat : end = t.pos + IndexPos(t.new)
        BY <1>2, CompletedIs
    <2>3. Laid(Spots(Log), After(t), end)
        BY <1>2, <2>1, <2>2 DEF LaidOK
    <2>4. /\ Completed \in Seq(Cell) /\ end <= Len(Completed)
          /\ \A c \in 1..end : Completed[c] = After(t)[c]
        BY <1>2, <2>2, CompletedIs
    <2>5. Laid(Spots(Log), Completed, end)
        BY <2>3, <2>4, LaidSame
    <2> QED BY <1>1, <2>4, <2>5, LaidHolds
<1>3. CASE \A t \in Pending : t.new = <<>>
    <2>1. Completed = file /\ Index = Idx(file)
        BY <1>3, OneIndex DEF IInv, Completed
    <2>2. file # <<>>
        BY <2>1, ElemsNone DEF Log, Idx
    <2>3. Pending = {}
        BY <1>3, <2>2 DEF IInv, FileOK, FileAt
    <2>4. Whole(file, 0)
        BY <2>2, <2>3 DEF IInv, FileOK
    <2>5. file \in Seq(Cell) /\ IndexPos(file) \in Nat /\ IndexPos(file) <= Len(file)
        BY <2>4, FileIs
    <2>6. Laid(Spots(Log), file, IndexPos(file))
        BY <2>1, <2>2, <2>3 DEF LaidOK, Log, Idx
    <2> QED BY <1>1, <2>1, <2>5, <2>6, LaidHolds
<1> QED BY <1>2, <1>3

-----------------------------------------------------------------------------
(* The store implements ThreadLog.                                         *)

MsgIn(E, i) == \E e \in E : Stored(e) /\ e.id = i
UnseenIn(E, i) == \E e \in E : e.seen = "no" /\ e.id = i

\* The abstract state, in the entries of the index.
LEMMA LogMaps ==
    IInv /\ LaidOK =>
        /\ \A i : i \in Messages <=> MsgIn(Log, i)
        /\ \A i : i \in Unseen <=> UnseenIn(Log, i)
        /\ \A i : i \in Tagged <=> HasTag(Log, i) \/ (i = NewDraft /\ NewDraft \in UserDrafts)
<1> SUFFICES ASSUME IInv, LaidOK
             PROVE  /\ \A i : i \in Messages <=> MsgIn(Log, i)
                    /\ \A i : i \in Unseen <=> UnseenIn(Log, i)
                    /\ \A i : i \in Tagged <=> HasTag(Log, i) \/ (i = NewDraft /\ NewDraft \in UserDrafts)
    OBVIOUS
<1>1. Elements = Log
    <2>1. Index = <<>> \/ Index \in Seq(Entries)
        BY IndexSound DEF Sound
    <2>2. DOMAIN Index = 1..Len(Index)
        BY <2>1
    <2> QED BY <2>2 DEF Elements, Log, ElemsOf
<1>2. \A i : i \in Messages <=> MsgIn(Log, i)
    BY <1>1, BodiesHeld DEF Messages, MsgIn
<1>3. \A i : i \in Unseen <=> UnseenIn(Log, i)
    BY <1>1 DEF Unseen, UnseenIn
<1>4. \A i : i \in Tagged <=> HasTag(Log, i) \/ (i = NewDraft /\ NewDraft \in UserDrafts)
    BY <1>1 DEF Tagged, HasTag
<1> QED BY <1>2, <1>3, <1>4

LEMMA LogMapsNext ==
    (IInv /\ LaidOK)' =>
        /\ \A i : i \in Messages' <=> MsgIn(Log', i)
        /\ \A i : i \in Unseen' <=> UnseenIn(Log', i)
        /\ \A i : i \in Tagged' <=> HasTag(Log', i) \/ (i = NewDraft /\ NewDraft \in UserDrafts')
<1>1. (IInv /\ LaidOK)' =>
          (/\ \A i : i \in Messages <=> MsgIn(Log, i)
           /\ \A i : i \in Unseen <=> UnseenIn(Log, i)
           /\ \A i : i \in Tagged <=> HasTag(Log, i) \/ (i = NewDraft /\ NewDraft \in UserDrafts))'
    BY LogMaps, PTL
<1> QED BY <1>1

\* What was received, or was in the thread from the start, is in the index of the
\* thread, and its body is in the file where the entry says, or will be once the
\* transaction under way is complete: through every other change of the thread, and
\* through crashes other than in the storing of a sent reply.
THEOREM MessagesAreKept ==
    ASSUME UpdateCrash = FALSE, ReplyCrash = FALSE, LateAcks = FALSE, TwoClients = FALSE
    PROVE  Spec => []NothingLost
<1>1. ASSUME IInv, Tidy PROVE NothingLost
    <2>1. LaidOK
        BY <1>1 DEF Tidy
    <2>2. \A i : i \in Messages <=> MsgIn(Log, i)
        BY <1>1, <2>1, LogMaps
    <2>3. ASSUME NEW m \in got PROVE m \in Messages
        <3>1. m \in IdsOf(Index) /\ m \in Ids
            BY <1>1 DEF IInv, GotOK, Types
        <3>2. PICK x \in Log : x.id = m
            BY <1>1, <3>1, LogIs
        <3>3. Stored(x)
            BY <1>1, <3>1, <3>2, LogIs
        <3> QED BY <2>2, <3>2, <3>3 DEF MsgIn
    <2> QED BY <2>3 DEF NothingLost
<1>2. IInv /\ UpdateOK /\ Tidy => NothingLost
    BY <1>1
<1> QED BY <1>2, TidyInv, PTL

\* What the abstract state owes to the entries and to the drafts.
LEMMA MapsSame ==
    ASSUME IInv, IInv', LaidOK, LaidOK'
    PROVE  /\ (\A i : MsgIn(Log', i) <=> MsgIn(Log, i)) => Messages' = Messages
           /\ (\A i : UnseenIn(Log', i) <=> UnseenIn(Log, i)) => Unseen' = Unseen
           /\ (\A i : HasTag(Log', i) <=> HasTag(Log, i)) /\ (NewDraft \in UserDrafts' <=> NewDraft \in UserDrafts)
                 => Tagged' = Tagged
<1>1. /\ \A i : i \in Messages <=> MsgIn(Log, i)
      /\ \A i : i \in Unseen <=> UnseenIn(Log, i)
      /\ \A i : i \in Tagged <=> HasTag(Log, i) \/ (i = NewDraft /\ NewDraft \in UserDrafts)
    BY LogMaps
<1>2. /\ \A i : i \in Messages' <=> MsgIn(Log', i)
      /\ \A i : i \in Unseen' <=> UnseenIn(Log', i)
      /\ \A i : i \in Tagged' <=> HasTag(Log', i) \/ (i = NewDraft /\ NewDraft \in UserDrafts')
    BY LogMapsNext
<1>3. \A A, B : (\A i : i \in A <=> i \in B) => A = B
    OBVIOUS
<1>4. ASSUME \A i : MsgIn(Log', i) <=> MsgIn(Log, i) PROVE Messages' = Messages
    <2>1. \A i : i \in Messages' <=> i \in Messages
        BY <1>1, <1>2, <1>4
    <2> QED BY <1>3, <2>1
<1>5. ASSUME \A i : UnseenIn(Log', i) <=> UnseenIn(Log, i) PROVE Unseen' = Unseen
    <2>1. \A i : i \in Unseen' <=> i \in Unseen
        BY <1>1, <1>2, <1>5
    <2> QED BY <1>3, <2>1
<1>6. ASSUME \A i : HasTag(Log', i) <=> HasTag(Log, i), NewDraft \in UserDrafts' <=> NewDraft \in UserDrafts
      PROVE  Tagged' = Tagged
    <2>1. \A i : i \in Tagged' <=> i \in Tagged
        BY <1>1, <1>2, <1>6
    <2> QED BY <1>3, <2>1
<1> QED BY <1>4, <1>5, <1>6

LEMMA LogHas ==
    ASSUME IInv, SeenOK
    PROVE  /\ \A x \in Log : /\ x \in Entries /\ x.id \in IdsOf(Index) /\ (Stored(x) <=> x.id \in Ids)
                             /\ x.id \in Ids \cup Replies /\ (x.seen = "no" => x.id \in Ids)
           /\ \A x, y \in Log : x.id = y.id => x = y
           /\ ~HasTag(Log, NewDraft)
<1>1. /\ \A x \in Log : x \in Entries /\ x.id \in IdsOf(Index) /\ (Stored(x) <=> x.id \in Ids)
      /\ \A x, y \in Log : x.id = y.id => x = y
    BY LogIs
<1>2. NewDraft \notin IdsOf(Index)
    BY DEF IInv, GotOK
<1>3. ASSUME NEW x \in Log PROVE x.id \in Ids \cup Replies /\ (x.seen = "no" => x.id \in Ids)
    <2>1. x \in Entries /\ x.id \in IdsOf(Index)
        BY <1>1
    <2>2. x.id \in Ids \cup Replies
        BY <1>2, <2>1, EntryFields DEF Drafts
    <2>3. ~Stored(x) => x.seen = "local"
        BY DEF SeenOK, Log
    <2> QED BY <1>1, <2>2, <2>3
<1> QED BY <1>1, <1>2, <1>3 DEF HasTag

\* A reply of the index is a draft of the user, whether its transaction is under
\* way or not.
LEMMA RepliesOfUser ==
    ASSUME IInv, NEW d \in Replies, d \in IdsOf(Index)
    PROVE  d \in UserDrafts
<1>1. d \in Drafts /\ d # NewDraft /\ DraftAt(d)
    BY KindAssumption DEF IInv, Drafts
<1>2. \A s, t \in Pending : s = t
    BY PendingIs DEF IInv
<1>3. CASE \A t \in Pending : t.draft # d
    BY <1>1, <1>3 DEF DraftAt, UserDrafts
<1>4. CASE \E t \in Pending : t.draft = d
    <2>1. PICK t \in Pending : t.draft = d
        BY <1>4
    <2>2. t.op = "ws"
        BY <1>1, <2>1 DEF DraftAt
    <2> QED BY <1>2, <2>1, <2>2 DEF UserDrafts
<1> QED BY <1>3, <1>4

\* Each effect is the step of ThreadLog that it stands for.
LEMMA SameMaps ==
    ASSUME IInv, IInv', LaidOK, LaidOK', Log' = Log, UserDrafts' = UserDrafts
    PROVE  UNCHANGED Abstract!vars
<1>1. Messages' = Messages /\ Unseen' = Unseen /\ Tagged' = Tagged
    BY MapsSame
<1> QED BY <1>1 DEF Abstract!vars

LEMMA SavedMaps ==
    ASSUME IInv, IInv', LaidOK, LaidOK', SeenOK, NEW d \in Drafts, Saved(d)
    PROVE  Abstract!Save(d)
<1>1. UserDrafts' = UserDrafts \cup {d}
    BY DEF Saved
<1>2. CASE d = NewDraft /\ Log' = Log
    <2>1. Messages' = Messages /\ Unseen' = Unseen
        BY <1>2, MapsSame
    <2>2. \A i : i \in Tagged <=> HasTag(Log, i) \/ (i = NewDraft /\ NewDraft \in UserDrafts)
        BY LogMaps
    <2>3. \A i : i \in Tagged' <=> HasTag(Log, i) \/ i = NewDraft
        BY <1>1, <1>2, LogMapsNext
    <2>4. Tagged' = Tagged \cup {d}
        BY <1>2, <2>2, <2>3
    <2>5. d \in UserDrafts => Tagged' = Tagged
        BY <1>2, <2>2, <2>4
    <2> QED BY <1>1, <2>1, <2>4, <2>5 DEF Abstract!Save
<1>3. CASE \E e \in Entries : /\ d \in Replies /\ e.id = d /\ ~Stored(e) /\ e.seen = "local"
                              /\ e.tag <=> HasTag(Log, d)
                              /\ Log' = {x \in Log : x.id # d} \cup {e}
    <2>1. PICK e \in Entries : /\ d \in Replies /\ e.id = d /\ ~Stored(e) /\ e.seen = "local"
                               /\ e.tag <=> HasTag(Log, d)
                               /\ Log' = {x \in Log : x.id # d} \cup {e}
        BY <1>3
    <2>2. d \notin Ids /\ d # NewDraft
        BY <2>1, IdsApart, KindAssumption
    <2>3. \A i : MsgIn(Log', i) <=> MsgIn(Log, i)
        BY <2>1, <2>2, LogHas DEF MsgIn
    <2>4. \A i : UnseenIn(Log', i) <=> UnseenIn(Log, i)
        BY <2>1, <2>2, LogHas DEF UnseenIn
    <2>5. \A i : HasTag(Log', i) <=> HasTag(Log, i)
        BY <2>1 DEF HasTag
    <2>6. NewDraft \in UserDrafts' <=> NewDraft \in UserDrafts
        BY <1>1, <2>2
    <2>7. Messages' = Messages /\ Unseen' = Unseen /\ Tagged' = Tagged
        BY <2>3, <2>4, <2>5, <2>6, MapsSame
    <2> QED BY <1>1, <2>7 DEF Abstract!Save
<1> QED BY <1>2, <1>3 DEF Saved

LEMMA DiscardedMaps ==
    ASSUME IInv, IInv', LaidOK, LaidOK', SeenOK, NEW d \in Drafts, Discarded(d)
    PROVE  Abstract!Discard(d)
<1>1. UserDrafts' = UserDrafts \ {d}
    BY DEF Discarded
<1>2. \A i : i \in Tagged <=> HasTag(Log, i) \/ (i = NewDraft /\ NewDraft \in UserDrafts)
    BY LogMaps
<1>3. \A i : i \in Tagged' <=> HasTag(Log', i) \/ (i = NewDraft /\ NewDraft \in UserDrafts')
    BY LogMapsNext
<1>4. CASE d = NewDraft /\ Log' = Log
    <2>1. Messages' = Messages /\ Unseen' = Unseen
        BY <1>4, MapsSame
    <2>2. ~HasTag(Log, d)
        BY <1>4, LogHas
    <2>3. Tagged' = Tagged \ {d}
        BY <1>1, <1>2, <1>3, <1>4, <2>2
    <2> QED BY <1>1, <2>1, <2>3 DEF Abstract!Discard
<1>5. CASE d \in Replies /\ Log' = {x \in Log : x.id # d}
    <2>1. d \notin Ids /\ d # NewDraft
        BY <1>5, IdsApart, KindAssumption
    <2>2. \A i : MsgIn(Log', i) <=> MsgIn(Log, i)
        BY <1>5, <2>1, LogHas DEF MsgIn
    <2>3. \A i : UnseenIn(Log', i) <=> UnseenIn(Log, i)
        BY <1>5, <2>1, LogHas DEF UnseenIn
    <2>4. \A i : HasTag(Log', i) <=> HasTag(Log, i) /\ i # d
        BY <1>5 DEF HasTag
    <2>5. Messages' = Messages /\ Unseen' = Unseen
        BY <2>2, <2>3, MapsSame
    <2>6. Tagged' = Tagged \ {d}
        BY <1>1, <1>2, <1>3, <2>1, <2>4
    <2> QED BY <1>1, <2>5, <2>6 DEF Abstract!Discard
<1> QED BY <1>4, <1>5 DEF Discarded

LEMMA ReceivedMaps ==
    ASSUME IInv, IInv', LaidOK, LaidOK', SeenOK, NEW m \in Ids, Received(m)
    PROVE  Abstract!Store(m)
<1>1. PICK e \in Entries, o \in Nat :
          /\ e.id = m /\ m \notin IdsOf(Index)
          /\ e.seen \in {"no", "local"} /\ e.tag = FALSE
          /\ Log' = {Shifted(x, e) : x \in Log} \cup {[e EXCEPT !.off = o]}
    BY DEF Received
<1>2. UserDrafts' = UserDrafts
    BY DEF Received
<1>3. PICK f : f = [e EXCEPT !.off = o]
    OBVIOUS
<1>4. f.id = m /\ Stored(f) /\ f.seen = e.seen
    <2>1. f.id = e.id /\ f.off = o /\ f.seen = e.seen
        BY <1>3 DEF Entries
    <2> QED BY <1>1, <2>1 DEF Stored
<1>5. ~f.tag
    <2>1. f.tag = e.tag
        BY <1>3 DEF Entries
    <2> QED BY <1>1, <2>1
<1>6. ASSUME NEW x \in Log
      PROVE  /\ Shifted(x, e).id = x.id /\ Shifted(x, e).seen = x.seen
             /\ Stored(Shifted(x, e)) <=> Stored(x)
    BY LogHas, ShiftedIs
<1>7. ASSUME NEW x \in Log
      PROVE  Shifted(x, e).tag <=> x.tag
    <2>1. Shifted(x, e).tag = x.tag
        BY LogHas, ShiftedIs
    <2> QED BY <2>1
<1>8. \A y \in Log' : y = f \/ \E x \in Log : y = Shifted(x, e)
    BY <1>1, <1>3
<1>9. f \in Log' /\ \A x \in Log : Shifted(x, e) \in Log'
    BY <1>1, <1>3
<1>10. \A i : MsgIn(Log', i) <=> MsgIn(Log, i) \/ i = m
    BY <1>4, <1>6, <1>8, <1>9 DEF MsgIn
<1>11. \A i : UnseenIn(Log', i) <=> UnseenIn(Log, i) \/ (i = m /\ e.seen = "no")
    BY <1>4, <1>6, <1>8, <1>9 DEF UnseenIn
<1>12. \A i : HasTag(Log', i) <=> HasTag(Log, i)
    BY <1>5, <1>6, <1>7, <1>8, <1>9 DEF HasTag
<1>13. Tagged' = Tagged
    BY <1>2, <1>12, MapsSame
<1>14. \A i : i \in Messages <=> MsgIn(Log, i)
    BY LogMaps
<1>15. \A i : i \in Messages' <=> MsgIn(Log', i)
    BY LogMapsNext
<1>16. \A i : i \in Unseen <=> UnseenIn(Log, i)
    BY LogMaps
<1>17. \A i : i \in Unseen' <=> UnseenIn(Log', i)
    BY LogMapsNext
<1>18. Messages' = Messages \cup {m}
    BY <1>10, <1>14, <1>15
<1>19. m \notin Messages
    BY <1>1, <1>14, LogHas DEF MsgIn
<1>20. Unseen' \in {Unseen, Unseen \cup {m}}
    <2>1. CASE e.seen = "no"
        <3>1. Unseen' = Unseen \cup {m}
            BY <1>11, <1>16, <1>17, <2>1
        <3> QED BY <3>1
    <2>2. CASE e.seen # "no"
        <3>1. Unseen' = Unseen
            BY <1>11, <1>16, <1>17, <2>2
        <3> QED BY <3>1
    <2> QED BY <2>1, <2>2
<1> QED BY <1>2, <1>13, <1>18, <1>19, <1>20 DEF Abstract!Store

\* A change of the marks of one entry.
LEMMA MarkedMaps ==
    ASSUME IInv, LaidOK, SeenOK, NEW x, NEW y, Marked(x, y)
    PROVE  /\ \A i : MsgIn(Log', i) <=> MsgIn(Log, i)
           /\ \A i : i # x.id => (UnseenIn(Log', i) <=> UnseenIn(Log, i))
           /\ \A i : i # x.id => (HasTag(Log', i) <=> HasTag(Log, i))
           /\ UnseenIn(Log, x.id) <=> x.seen = "no"
           /\ UnseenIn(Log', x.id) <=> y.seen = "no"
           /\ HasTag(Log, x.id) <=> x.tag
           /\ HasTag(Log', x.id) <=> y.tag
           /\ UserDrafts' = UserDrafts
<1>1. /\ x \in Log /\ y.id = x.id /\ y.off = x.off
      /\ Log' = (Log \ {x}) \cup {y} /\ UserDrafts' = UserDrafts
    BY DEF Marked
<1>2. \A z \in Log : z.id = x.id => z = x
    BY <1>1, LogHas
<1>3. Stored(y) <=> Stored(x)
    BY <1>1 DEF Stored
<1>4. \A i : MsgIn(Log', i) <=> MsgIn(Log, i)
    BY <1>1, <1>3 DEF MsgIn
<1>5. \A i : i # x.id => (UnseenIn(Log', i) <=> UnseenIn(Log, i))
    BY <1>1 DEF UnseenIn
<1>6. \A i : i # x.id => (HasTag(Log', i) <=> HasTag(Log, i))
    BY <1>1 DEF HasTag
<1>7. (UnseenIn(Log, x.id) <=> x.seen = "no") /\ (UnseenIn(Log', x.id) <=> y.seen = "no")
    BY <1>1, <1>2 DEF UnseenIn
<1>8. (HasTag(Log, x.id) <=> x.tag) /\ (HasTag(Log', x.id) <=> y.tag)
    BY <1>1, <1>2 DEF HasTag
<1> QED BY <1>1, <1>4, <1>5, <1>6, <1>7, <1>8

LEMMA ConfirmedMaps ==
    ASSUME IInv, IInv', LaidOK, LaidOK', SeenOK, NEW m \in Ids, NEW right \in BOOLEAN, Confirmed(m, right)
    PROVE  Abstract!Confirm(m) \/ UNCHANGED Abstract!vars
<1>1. PICK x \in Log, y \in Entries :
          /\ Marked(x, y) /\ x.id = m
          /\ y = IF right THEN [x EXCEPT !.fwd = ""] ELSE [x EXCEPT !.fwd = "failed", !.seen = "no"]
    BY DEF Confirmed
<1>2. x \in Entries
    BY <1>1 DEF Marked
<1>3. y.tag = x.tag /\ y.seen = IF right THEN x.seen ELSE "no"
    <2>1. CASE right
        BY <1>1, <1>2, <2>1 DEF Entries
    <2>2. CASE ~right
        BY <1>1, <1>2, <2>2 DEF Entries
    <2> QED BY <2>1, <2>2
<1>4. y.tag <=> x.tag
    BY <1>3
<1>5. \A i : HasTag(Log', i) <=> HasTag(Log, i)
    <2> TAKE i
    <2>1. CASE i = x.id
        BY <1>1, <1>4, <2>1, MarkedMaps
    <2>2. CASE i # x.id
        BY <1>1, <2>2, MarkedMaps
    <2> QED BY <2>1, <2>2
<1>6. /\ \A i : MsgIn(Log', i) <=> MsgIn(Log, i)
      /\ UserDrafts' = UserDrafts
    BY <1>1, MarkedMaps
<1>7. Messages' = Messages /\ Tagged' = Tagged
    BY <1>5, <1>6, MapsSame
<1>8. CASE right
    <2>1. \A i : UnseenIn(Log', i) <=> UnseenIn(Log, i)
        <3> TAKE i
        <3>1. CASE i = x.id
            BY <1>1, <1>3, <1>8, <3>1, MarkedMaps
        <3>2. CASE i # x.id
            BY <1>1, <3>2, MarkedMaps
        <3> QED BY <3>1, <3>2
    <2>2. Unseen' = Unseen
        BY <2>1, MapsSame
    <2> QED BY <1>6, <1>7, <2>2 DEF Abstract!vars
<1>9. CASE ~right
    <2>1. \A i : UnseenIn(Log', i) <=> UnseenIn(Log, i) \/ i = m
        <3> TAKE i
        <3>1. CASE i = x.id
            <4>1. y.seen = "no"
                BY <1>3, <1>9
            <4>2. UnseenIn(Log', x.id)
                BY <1>1, <4>1, MarkedMaps
            <4> QED BY <1>1, <3>1, <4>2
        <3>2. CASE i # x.id
            BY <1>1, <3>2, MarkedMaps
        <3> QED BY <3>1, <3>2
    <2>2. Unseen' = Unseen \cup {m}
        <3>1. (\A i : i \in Unseen <=> UnseenIn(Log, i)) /\ (\A i : i \in Unseen' <=> UnseenIn(Log', i))
            BY LogMaps, LogMapsNext
        <3> QED BY <2>1, <3>1
    <2>3. m \in Messages
        <3>1. Stored(x) /\ x \in Log
            BY <1>1, LogHas
        <3> QED BY <1>1, <3>1, LogMaps DEF MsgIn
    <2> QED BY <1>6, <1>7, <2>2, <2>3 DEF Abstract!Confirm
<1> QED BY <1>8, <1>9

LEMMA TouchesMaps ==
    ASSUME IInv, IInv', LaidOK, LaidOK', SeenOK, NEW act \in Acts, NEW local \in BOOLEAN, NEW j \in Ids \cup Drafts,
           Touches(act, local, j)
    PROVE  (j \in Ids /\ Abstract!See(j)) \/ Abstract!Tag(j)
<1>1. PICK x \in Log, y \in Entries : Marked(x, y) /\ x.id = j /\ y = Touched(act, local, x) /\ y # x
    BY DEF Touches
<1>2. x \in Entries
    BY <1>1 DEF Marked
<1>3. /\ \A i : MsgIn(Log', i) <=> MsgIn(Log, i)
      /\ \A i : i # j => (UnseenIn(Log', i) <=> UnseenIn(Log, i))
      /\ \A i : i # j => (HasTag(Log', i) <=> HasTag(Log, i))
      /\ UnseenIn(Log, j) <=> x.seen = "no"
      /\ UnseenIn(Log', j) <=> y.seen = "no"
      /\ HasTag(Log, j) <=> x.tag
      /\ HasTag(Log', j) <=> y.tag
      /\ UserDrafts' = UserDrafts
    BY <1>1, MarkedMaps
<1>4. Messages' = Messages
    BY <1>3, MapsSame
<1>5. CASE act = "see"
    <2>1. x.seen = "no"
        BY <1>1, <1>2, <1>5, TouchedSeen
    <2>2. y.seen = OpenedMark(local)
        <3>1. Touched(act, local, x).seen = OpenedMark(local)
            BY <1>2, <1>5, <2>1, TouchedSeen
        <3> QED BY <1>1, <3>1
    <2>3. y.seen # "no"
        BY <2>2 DEF OpenedMark
    <2>4. y.tag <=> x.tag
        BY <1>1, <1>2, <1>5, TouchedTag
    <2>5. \A i : HasTag(Log', i) <=> HasTag(Log, i)
        <3> TAKE i
        <3>1. CASE i = j
            BY <1>3, <2>4, <3>1
        <3> QED BY <1>3, <3>1
    <2>6. Tagged' = Tagged
        BY <1>3, <2>5, MapsSame
    <2>7. /\ \A i : i \in Unseen <=> UnseenIn(Log, i)
          /\ \A i : i \in Unseen' <=> UnseenIn(Log', i)
        BY LogMaps, LogMapsNext
    <2>8. j \in Unseen /\ Unseen' = Unseen \ {j}
        BY <1>3, <2>1, <2>3, <2>7
    <2>9. j \in Ids
        BY <1>1, <2>1, LogHas
    <2> QED BY <1>3, <1>4, <2>6, <2>8, <2>9 DEF Abstract!See
<1>6. CASE act \in {"tag", "untag"}
    <2>1. y.seen = x.seen
        <3>1. Touched(act, local, x).seen = x.seen
            BY <1>2, <1>6, TouchedSeen
        <3> QED BY <1>1, <3>1
    <2>2. \A i : UnseenIn(Log', i) <=> UnseenIn(Log, i)
        <3> TAKE i
        <3>1. CASE i = j
            BY <1>3, <2>1, <3>1
        <3> QED BY <1>3, <3>1
    <2>3. Unseen' = Unseen
        BY <2>2, MapsSame
    <2>4. j \in Messages \cup UserDrafts
        <3>1. CASE j \in Ids
            <4>1. Stored(x)
                BY <1>1, <3>1, LogHas
            <4> QED BY <1>1, <4>1, LogMaps DEF MsgIn
        <3>2. CASE j \in Replies
            <4>1. j \in IdsOf(Index)
                BY <1>1, LogHas
            <4> QED BY <3>2, <4>1, RepliesOfUser
        <3> QED BY <1>1, <3>1, <3>2, LogHas
    <2>5. j # NewDraft
        BY <1>1, LogHas, IdsApart, KindAssumption DEF Drafts
    <2>6. /\ \A i : i \in Tagged <=> HasTag(Log, i) \/ (i = NewDraft /\ NewDraft \in UserDrafts)
          /\ \A i : i \in Tagged' <=> HasTag(Log', i) \/ (i = NewDraft /\ NewDraft \in UserDrafts)
        BY <1>3, LogMaps, LogMapsNext
    <2>7. Tagged' \in {Tagged \cup {j}, Tagged \ {j}}
        <3>1. CASE y.tag
            <4>1. \A i : HasTag(Log', i) <=> HasTag(Log, i) \/ i = j
                BY <1>3, <3>1
            <4>2. Tagged' = Tagged \cup {j}
                BY <2>6, <4>1
            <4> QED BY <4>2
        <3>2. CASE ~y.tag
            <4>1. \A i : HasTag(Log', i) <=> HasTag(Log, i) /\ i # j
                BY <1>3, <3>2
            <4>2. Tagged' = Tagged \ {j}
                BY <2>5, <2>6, <4>1
            <4> QED BY <4>2
        <3> QED BY <3>1, <3>2
    <2> QED BY <1>3, <1>4, <2>3, <2>4, <2>7 DEF Abstract!Tag
<1> QED BY <1>5, <1>6 DEF Acts

LEMMA ReplacedMaps ==
    ASSUME IInv, IInv', LaidOK, LaidOK', SeenOK, NEW d \in Drafts, NEW m \in Ids, Replaced(d, m)
    PROVE  Abstract!Sent(d, m)
<1>1. PICK e \in Entries :
          /\ e.id = m /\ m \notin IdsOf(Index) /\ Stored(e) /\ e.seen = "local"
          /\ e.tag <=> (d = NewDraft \/ HasTag(Log, d))
          /\ (d = NewDraft => Log = {})
          /\ Log' = {x \in Log : x.id # d} \cup {e}
    BY DEF Replaced
<1>2. UserDrafts' = UserDrafts \ {d} /\ d \in UserDrafts
    BY DEF Replaced
<1>3. d \notin Ids /\ m # d /\ m # NewDraft
    BY IdsApart DEF Drafts
<1>4. ~HasTag(Log, m) /\ ~MsgIn(Log, m)
    BY <1>1, LogHas DEF HasTag, MsgIn
<1>5. \A i : MsgIn(Log', i) <=> MsgIn(Log, i) \/ i = m
    BY <1>1, <1>3, LogHas DEF MsgIn
<1>6. \A i : UnseenIn(Log', i) <=> UnseenIn(Log, i)
    BY <1>1, <1>3, LogHas DEF UnseenIn
<1>7. \A i : HasTag(Log', i) <=> (HasTag(Log, i) /\ i # d) \/ (i = m /\ (d = NewDraft \/ HasTag(Log, d)))
    BY <1>1 DEF HasTag
<1>8. Unseen' = Unseen
    BY <1>6, MapsSame
<1>9. /\ \A i : i \in Messages <=> MsgIn(Log, i)
      /\ \A i : i \in Messages' <=> MsgIn(Log', i)
    BY LogMaps, LogMapsNext
<1>10. m \notin Messages /\ Messages' = Messages \cup {m}
    BY <1>4, <1>5, <1>9
<1>11. /\ \A i : i \in Tagged <=> HasTag(Log, i) \/ (i = NewDraft /\ NewDraft \in UserDrafts)
       /\ \A i : i \in Tagged' <=> HasTag(Log', i) \/ (i = NewDraft /\ NewDraft \in UserDrafts')
    BY LogMaps, LogMapsNext
<1>12. d \in Tagged <=> d = NewDraft \/ HasTag(Log, d)
    BY <1>2, <1>11
<1>13. Tagged' = IF d \in Tagged THEN (Tagged \ {d}) \cup {m} ELSE Tagged
    <2>1. CASE d \in Tagged
        <3>1. \A i : i \in Tagged' <=> (i \in Tagged /\ i # d) \/ i = m
            BY <1>2, <1>7, <1>11, <1>12, <2>1
        <3> QED BY <2>1, <3>1
    <2>2. CASE d \notin Tagged
        <3>1. \A i : i \in Tagged' <=> i \in Tagged
            BY <1>2, <1>7, <1>11, <1>12, <2>2
        <3> QED BY <2>2, <3>1
    <2> QED BY <2>1, <2>2
<1> QED BY <1>2, <1>8, <1>10, <1>13 DEF Abstract!Sent

\* A step of the store is a step of the abstract log, or no step at all.
LEMMA EffectMaps ==
    ASSUME IInv, IInv', LaidOK, LaidOK', SeenOK, Effect
    PROVE  [Abstract!Next]_(Abstract!vars)
<1>1. CASE SameLog
    BY <1>1, SameMaps DEF SameLog, Log
<1>2. ASSUME NEW d \in Drafts, Saved(d) \/ Discarded(d) PROVE Abstract!Next
    BY <1>2, SavedMaps, DiscardedMaps DEF Abstract!Next
<1>3. ASSUME NEW m \in Ids, Received(m) PROVE Abstract!Next
    BY <1>3, ReceivedMaps DEF Abstract!Next
<1>4. ASSUME NEW m \in Ids, NEW right \in BOOLEAN, Confirmed(m, right)
      PROVE  [Abstract!Next]_(Abstract!vars)
    <2>1. Abstract!Confirm(m) \/ UNCHANGED Abstract!vars
        BY <1>4, ConfirmedMaps
    <2> QED BY <2>1 DEF Abstract!Next
<1>5. ASSUME NEW d \in Drafts, NEW m \in Ids, Replaced(d, m) PROVE Abstract!Next
    BY <1>5, ReplacedMaps DEF Abstract!Next
<1>6. ASSUME NEW act \in Acts, NEW local \in BOOLEAN, NEW x \in Ids \cup Drafts, Touches(act, local, x)
      PROVE  Abstract!Next
    <2>1. (x \in Ids /\ Abstract!See(x)) \/ Abstract!Tag(x)
        BY <1>6, TouchesMaps
    <2> QED BY <2>1 DEF Abstract!Next
<1> QED BY <1>1, <1>2, <1>3, <1>4, <1>5, <1>6 DEF Effect

LEMMA InitMaps ==
    ASSUME Init
    PROVE  Abstract!Init
<1>1. /\ left = {} /\ temp = None /\ drafts = {}
      /\ First # "forwarded" => file = <<>>
    BY DEF Init
<1>2. Pending = {} /\ Index = Idx(file)
    BY <1>1, IndexIs, IndexOfIs DEF Pending
<1>3. UserDrafts = {}
    BY <1>1, <1>2 DEF UserDrafts
<1>4. IInv /\ LaidOK /\ SeenOK
    BY InvInit, TidyInit DEF Tidy
<1>5. \A e \in Log : e.seen = "no" /\ Stored(e) /\ ~e.tag
    <2>1. CASE file = <<>>
        BY <1>2, <2>1, ElemsNone DEF Idx, Log
    <2>2. CASE file # <<>>
        BY <1>1, <1>2, <2>2, LaidInit DEF Idx, Log
    <2> QED BY <2>1, <2>2
<1>6. Tagged = {}
    BY <1>3, <1>4, <1>5, LogMaps DEF HasTag
<1>7. Unseen = Messages
    <2>1. \A i : i \in Unseen <=> i \in Messages
        BY <1>4, <1>5, LogMaps DEF MsgIn, UnseenIn
    <2> QED BY <2>1
<1>8. Messages \subseteq Ids
    BY <1>4, LogMaps, LogHas DEF MsgIn
<1> QED BY <1>3, <1>6, <1>7, <1>8 DEF Abstract!Init

\* The store keeps the promises of ThreadLog for any thread, any drafts and any
\* number of crashes: a transaction takes effect at once, when its temporary file
\* is renamed, and no step of its completion, no crash and no recovery changes
\* what the thread holds, bodies included, unless the crash falls into the storing of
\* a sent reply, where the code loses the body.  A draft that is sent becomes a message in one step, and
\* a seen mark or a tag stays with the message it was given to.
THEOREM StoreImplementsLog ==
    ASSUME UpdateCrash = FALSE, ReplyCrash = FALSE, LateAcks = FALSE, TwoClients = FALSE
    PROVE  Spec => ImplementsLog
<1>1. Init => Abstract!Init
    BY InitMaps
<1>2. ASSUME IInv, IInv', UpdateOK, Tidy, [Next]_vars
      PROVE  [Abstract!Next]_(Abstract!vars)
    <2>1. Effect
        BY <1>2, EffectIs DEF Tidy
    <2>2. LaidOK'
        BY <2>1 DEF Effect, SameLog
    <2> QED BY <1>2, <2>1, <2>2, EffectMaps DEF Tidy
<1>3. Spec => [](IInv /\ UpdateOK /\ Tidy)
    BY TidyInv
<1> QED BY <1>1, <1>2, <1>3, PTL DEF Spec, ImplementsLog, Abstract!Spec

=============================================================================
