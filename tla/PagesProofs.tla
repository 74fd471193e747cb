----------------------------- MODULE PagesProofs -----------------------------
(***************************************************************************)
(* Theorems about what the pages of an account keep: ClientTabs, for any   *)
(* clients, terms and bounds, and ClientHistory, for any clients, threads  *)
(* and lengths.                                                            *)
(***************************************************************************)
EXTENDS ClientHistory, ClientTabs, SequenceTheorems, FiniteSetTheorems, WellFoundedInduction, TLAPS

-----------------------------------------------------------------------------
(* Sequences *)

\* What is left of a sequence without one of its elements.
LEMMA RemoveIs ==
    ASSUME NEW S, NEW s \in Seq(S), NEW p \in 1..Len(s)
    PROVE  /\ RemoveAt(s, p) \in Seq(S) /\ Len(RemoveAt(s, p)) = Len(s) - 1
           /\ \A i \in 1..(Len(s) - 1) : RemoveAt(s, p)[i] = IF i < p THEN s[i] ELSE s[i + 1]
<1>1. PICK n \in Nat : n = Len(s)
    OBVIOUS
<1>2. PICK a, b : a = SubSeq(s, 1, p - 1) /\ b = SubSeq(s, p + 1, n)
    OBVIOUS
<1>3. p \in 1..n /\ \A i \in 1..n : s[i] \in S
    BY <1>1
<1>4. a \in Seq(S) /\ Len(a) = p - 1 /\ \A i \in 1..(p - 1) : a[i] = s[i]
    <2>1. \A i \in 1..p - 1 : s[i] \in S
        BY <1>3
    <2>2. /\ a \in Seq(S) /\ Len(a) = (IF 1 <= p - 1 THEN (p - 1) - 1 + 1 ELSE 0)
          /\ \A i \in 1..(p - 1) - 1 + 1 : a[i] = s[1 + i - 1]
        BY <1>2, <1>3, <2>1, SubSeqProperties
    <2> QED BY <1>3, <2>2
<1>5. b \in Seq(S) /\ Len(b) = n - p /\ \A i \in 1..(n - p) : b[i] = s[p + i]
    <2>1. \A i \in p + 1..n : s[i] \in S
        BY <1>3
    <2>2. /\ b \in Seq(S) /\ Len(b) = (IF p + 1 <= n THEN n - (p + 1) + 1 ELSE 0)
          /\ \A i \in 1..n - (p + 1) + 1 : b[i] = s[(p + 1) + i - 1]
        BY <1>2, <1>3, <2>1, SubSeqProperties
    <2> QED BY <1>3, <2>2
<1>6. RemoveAt(s, p) = a \o b
    BY <1>1, <1>2 DEF RemoveAt
<1>7. /\ a \o b \in Seq(S) /\ Len(a \o b) = Len(a) + Len(b)
      /\ \A i \in 1..Len(a) + Len(b) : (a \o b)[i] = IF i <= Len(a) THEN a[i] ELSE b[i - Len(a)]
    BY <1>4, <1>5, ConcatProperties
<1>8. Len(a) + Len(b) = n - 1
    BY <1>3, <1>4, <1>5
<1>9. ASSUME NEW i \in 1..(n - 1) PROVE (a \o b)[i] = IF i < p THEN s[i] ELSE s[i + 1]
    <2>1. (a \o b)[i] = IF i <= p - 1 THEN a[i] ELSE b[i - (p - 1)]
        BY <1>4, <1>7, <1>8
    <2>2. CASE i < p
        <3>1. i <= p - 1 /\ i \in 1..(p - 1)
            BY <1>3, <2>2
        <3> QED BY <1>4, <2>1, <2>2, <3>1
    <2>3. CASE ~(i < p)
        <3>1. ~(i <= p - 1) /\ i - (p - 1) \in 1..(n - p) /\ p + (i - (p - 1)) = i + 1
            BY <1>3, <2>3
        <3> QED BY <1>5, <2>1, <2>3, <3>1
    <2> QED BY <2>2, <2>3
<1> QED BY <1>1, <1>6, <1>7, <1>8, <1>9

\* No element is lost but the one removed.
LEMMA RemoveKeeps ==
    ASSUME NEW S, NEW s \in Seq(S), NEW p \in 1..Len(s), NEW t \in Range(s), t # s[p]
    PROVE  t \in Range(RemoveAt(s, p))
<1>1. PICK i \in 1..Len(s) : s[i] = t
    BY DEF Range
<1>2. PICK r \in Seq(S) : r = RemoveAt(s, p)
    BY RemoveIs
<1>3. Len(r) = Len(s) - 1 /\ \A j \in 1..(Len(s) - 1) : r[j] = IF j < p THEN s[j] ELSE s[j + 1]
    BY <1>2, RemoveIs
<1>4. CASE i < p
    <2>1. i \in 1..Len(s) - 1 /\ r[i] = t
        BY <1>1, <1>3, <1>4
    <2> QED BY <1>2, <1>3, <2>1 DEF Range
<1>5. CASE i > p
    <2>1. i - 1 \in 1..Len(s) - 1 /\ ~(i - 1 < p) /\ (i - 1) + 1 = i
        BY <1>5
    <2>2. r[i - 1] = t
        BY <1>1, <1>3, <2>1
    <2> QED BY <1>2, <1>3, <2>1, <2>2 DEF Range
<1> QED BY <1>1, <1>4, <1>5
-----------------------------------------------------------------------------
(* Tabs *)

Ops == {"none", "pin", "unlist", "log", "drop"}
Tabs == [posFor : PosFor, pos : Nat \ {0}, terms : Seq(Term)]
Doings == [op : Ops, at : Nat, terms : SUBSET Term]

\* A client that pins a tab has one of its own selected until that leaves its
\* list; the position it then takes is one there was.
TabsInv ==
    /\ pinned \in Seq(Term) /\ shown \in [TabClient -> Seq(Term)]
    /\ updt \in [TabClient -> BOOLEAN] /\ stopped \in BOOLEAN
    /\ tabs \in [TabClient -> Tabs] /\ doing \in [TabClient -> Doings]
    /\ \A c \in TabClient :
         /\ tabs[c].posFor = "default" => tabs[c].pos <= NumDefault
         /\ tabs[c].posFor = "terms" => tabs[c].pos <= Len(tabs[c].terms)
         /\ doing[c].op \in {"pin", "unlist"} => tabs[c].posFor = "terms"
         /\ doing[c].op = "unlist" => doing[c].at # 0
    /\ PinnedOnce

Begins(s, p) == Len(s) <= Len(p) /\ \A i \in 1..Len(s) : s[i] = p[i]
Distinct(s) == \A i, j \in 1..Len(s) : s[i] = s[j] => i = j

\* A tab is added to the pinned ones at their end, when it is not there.
LEMMA PinnedIs ==
    ASSUME pinned \in Seq(Term), PinnedOnce, NEW t \in Term, NEW new, new = Pinned(t)
    PROVE  /\ new \in Seq(Term) /\ Begins(pinned, new)
           /\ IndexIn(new, t) \in 1..Len(new) /\ new[IndexIn(new, t)] = t
           /\ Distinct(new)
<1> DEFINE at == IndexIn(new, t)
<1>1. \A i, j \in 1..Len(pinned) : pinned[i] = pinned[j] => i = j
    BY DEF PinnedOnce
<1>2. /\ new \in Seq(Term) /\ Len(new) >= Len(pinned)
      /\ \A i \in 1..Len(pinned) : new[i] = pinned[i]
      /\ \E i \in 1..Len(new) : new[i] = t
      /\ \A i, j \in 1..Len(new) : new[i] = new[j] => i = j
    <2>1. CASE t \in Range(pinned)
        <3>1. new = pinned
            BY <2>1 DEF Pinned
        <3>2. \E i \in 1..Len(pinned) : pinned[i] = t
            BY <2>1 DEF Range
        <3> QED BY <1>1, <3>1, <3>2
    <2>2. CASE t \notin Range(pinned)
        <3>1. new = Append(pinned, t)
            BY <2>2 DEF Pinned
        <3>2. \A i \in 1..Len(pinned) : pinned[i] # t
            BY <2>2 DEF Range
        <3>3. /\ new \in Seq(Term) /\ Len(new) = Len(pinned) + 1 /\ new[Len(pinned) + 1] = t
              /\ \A i \in 1..Len(pinned) : new[i] = pinned[i]
            BY <3>1, AppendProperties
        <3>4. \E i \in 1..Len(new) : new[i] = t
            BY <3>3
        <3>5. ASSUME NEW i \in 1..Len(new), NEW j \in 1..Len(new), new[i] = new[j]
              PROVE  i = j
            <4>1. CASE i = Len(pinned) + 1 /\ j = Len(pinned) + 1
                BY <4>1
            <4>2. CASE i \in 1..Len(pinned) /\ j \in 1..Len(pinned)
                BY <1>1, <3>3, <3>5, <4>2
            <4>3. CASE i \in 1..Len(pinned) /\ j = Len(pinned) + 1
                BY <3>2, <3>3, <3>5, <4>3
            <4>4. CASE i = Len(pinned) + 1 /\ j \in 1..Len(pinned)
                BY <3>2, <3>3, <3>5, <4>4
            <4> QED BY <3>3, <4>1, <4>2, <4>3, <4>4
        <3> QED BY <3>3, <3>4, <3>5
    <2> QED BY <2>1, <2>2
<1>3. at \in 1..Len(new) /\ new[at] = t
    <2>1. DOMAIN new = 1..Len(new)
        BY <1>2
    <2> QED BY <1>2, <2>1 DEF IndexIn
<1> QED BY <1>2, <1>3 DEF Distinct, Begins

LEMMA PinnedRemoved ==
    ASSUME pinned \in Seq(Term), PinnedOnce, NEW p \in 1..Len(pinned)
    PROVE  \A i, j \in DOMAIN RemoveAt(pinned, p) :
             RemoveAt(pinned, p)[i] = RemoveAt(pinned, p)[j] => i = j
<1>1. \A i, j \in 1..Len(pinned) : pinned[i] = pinned[j] => i = j
    BY DEF PinnedOnce
<1>2. PICK r : r = RemoveAt(pinned, p)
    OBVIOUS
<1>3. /\ r \in Seq(Term) /\ Len(r) = Len(pinned) - 1
      /\ \A i \in 1..(Len(pinned) - 1) : r[i] = IF i < p THEN pinned[i] ELSE pinned[i + 1]
    BY <1>2, RemoveIs
<1>4. ASSUME NEW i \in 1..Len(r), NEW j \in 1..Len(r), r[i] = r[j] PROVE i = j
    <2>1. PICK a, b : a = (IF i < p THEN i ELSE i + 1) /\ b = (IF j < p THEN j ELSE j + 1)
        OBVIOUS
    <2>2. /\ a \in 1..Len(pinned) /\ b \in 1..Len(pinned)
          /\ r[i] = pinned[a] /\ r[j] = pinned[b]
        BY <1>3, <2>1
    <2>3. a = b
        BY <1>1, <1>4, <2>2
    <2> QED BY <1>3, <2>1, <2>3
<1>5. DOMAIN r = 1..Len(r)
    BY <1>3
<1> QED BY <1>2, <1>4, <1>5

LEMMA TabsStart == TabsInit => TabsInv
<1> SUFFICES ASSUME TabsInit PROVE TabsInv
    OBVIOUS
<1>1. PICK t : t = [posFor |-> "default", pos |-> 1, terms |-> <<>>]
    OBVIOUS
<1>2. t \in Tabs /\ t.posFor = "default" /\ t.pos = 1
    BY <1>1 DEF Tabs, PosFor
<1>3. Idle \in Doings /\ Idle.op = "none"
    BY DEF Doings, Idle, Ops
<1>4. /\ tabs = [c \in TabClient |-> t] /\ doing = [c \in TabClient |-> Idle]
    BY <1>1 DEF TabsInit
<1>5. pinned = <<>> /\ PinnedOnce
    BY DEF TabsInit, PinnedOnce
<1>6. /\ pinned \in Seq(Term) /\ shown \in [TabClient -> Seq(Term)]
      /\ updt \in [TabClient -> BOOLEAN] /\ stopped \in BOOLEAN
    <2>1. \A c \in TabClient : shown[c] = <<>>
        BY DEF TabsInit
    <2>2. shown \in [TabClient -> Seq(Term)]
        BY <2>1 DEF TabsInit
    <2>3. updt \in [TabClient -> BOOLEAN] /\ stopped \in BOOLEAN
        BY DEF TabsInit
    <2> QED BY <1>5, <2>2, <2>3
<1> QED BY <1>2, <1>3, <1>4, <1>5, <1>6 DEF TabsInv, NumDefault

\* What a step of a client does, when it leaves the pinned tabs alone or changes
\* them as allowed: the parts of the invariant that are about that client.
TabsOk(t, d) ==
    /\ t \in Tabs /\ d \in Doings
    /\ t.posFor = "default" => t.pos <= NumDefault
    /\ t.posFor = "terms" => t.pos <= Len(t.terms)
    /\ d.op \in {"pin", "unlist"} => t.posFor = "terms"
    /\ d.op = "unlist" => d.at # 0

LEMMA TabsSplit ==
    TabsInv <=>
      /\ pinned \in Seq(Term) /\ PinnedOnce
      /\ shown \in [TabClient -> Seq(Term)]
      /\ updt \in [TabClient -> BOOLEAN] /\ stopped \in BOOLEAN
      /\ tabs \in [TabClient -> Tabs] /\ doing \in [TabClient -> Doings]
      /\ \A c \in TabClient : TabsOk(tabs[c], doing[c])
BY DEF TabsInv, TabsOk

\* The pages stay what they are, or show what the account has pinned.
ShownOk == shown' \in [TabClient -> Seq(Term)]

LEMMA TabsMove ==
    ASSUME TabsInv, pinned' \in Seq(Term), PinnedOnce', ShownOk,
           updt' \in [TabClient -> BOOLEAN], stopped' \in BOOLEAN,
           NEW c \in TabClient, NEW t, NEW d, TabsOk(t, d),
           tabs' = [tabs EXCEPT ![c] = t], doing' = [doing EXCEPT ![c] = d]
    PROVE  TabsInv'
<1>1. /\ tabs \in [TabClient -> Tabs] /\ doing \in [TabClient -> Doings]
      /\ \A x \in TabClient : TabsOk(tabs[x], doing[x])
    BY TabsSplit
<1>2. t \in Tabs /\ d \in Doings
    BY DEF TabsOk
<1>3. /\ tabs' \in [TabClient -> Tabs] /\ doing' \in [TabClient -> Doings]
      /\ tabs'[c] = t /\ doing'[c] = d
      /\ \A x \in TabClient : x # c => tabs'[x] = tabs[x] /\ doing'[x] = doing[x]
    BY <1>1, <1>2
<1>4. \A x \in TabClient : TabsOk(tabs'[x], doing'[x])
    BY <1>1, <1>3
<1> QED BY <1>3, <1>4 DEF TabsInv, TabsOk, ShownOk

LEMMA ShownStays ==
    ASSUME TabsInv, pinned' \in Seq(Term),
           \/ UNCHANGED shown
           \/ \E c \in TabClient : shown' = [shown EXCEPT ![c] = pinned']
    PROVE  ShownOk
<1>1. shown \in [TabClient -> Seq(Term)]
    BY DEF TabsInv
<1> QED BY <1>1 DEF ShownOk

LEMMA TabsKeep ==
    ASSUME TabsInv, NEW c \in TabClient
    PROVE  /\ TabsOk(tabs[c], doing[c]) /\ tabs[c] \in Tabs /\ doing[c] \in Doings
           /\ tabs[c].terms \in Seq(Term) /\ tabs[c].pos \in Nat \ {0} /\ tabs[c].posFor \in PosFor
           /\ tabs = [tabs EXCEPT ![c] = tabs[c]] /\ doing = [doing EXCEPT ![c] = doing[c]]
           /\ pinned \in Seq(Term) /\ shown[c] \in Seq(Term)
           /\ UNCHANGED pinned => PinnedOnce'
<1>1. /\ tabs \in [TabClient -> Tabs] /\ doing \in [TabClient -> Doings] /\ PinnedOnce
      /\ TabsOk(tabs[c], doing[c]) /\ pinned \in Seq(Term) /\ shown \in [TabClient -> Seq(Term)]
    BY TabsSplit
<1>2. /\ tabs[c] \in Tabs /\ doing[c] \in Doings
      /\ tabs = [tabs EXCEPT ![c] = tabs[c]] /\ doing = [doing EXCEPT ![c] = doing[c]]
    BY <1>1
<1>3. UNCHANGED pinned => PinnedOnce'
    BY <1>1 DEF PinnedOnce
<1> QED BY <1>1, <1>2, <1>3 DEF Tabs

LEMMA AddTabStep ==
    ASSUME TabsInv, NEW c \in TabClient, NEW t \in Term, AddTab(c, t)
    PROVE  TabsInv'
<1>1. PICK n : n = Append(tabs[c].terms, t)
    OBVIOUS
<1>2. PICK new : new = [posFor |-> "terms", pos |-> Len(tabs[c].terms) + 1, terms |-> n]
    OBVIOUS
<1>3. /\ tabs' = [tabs EXCEPT ![c] = new] /\ UNCHANGED <<pinned, doing, updt, stopped>>
      /\ shown' = [shown EXCEPT ![c] = pinned'] /\ doing[c] = Idle
    BY <1>1, <1>2 DEF AddTab, Select, Show, Ready
<1>4. TabsOk(tabs[c], doing[c]) /\ tabs[c].terms \in Seq(Term) /\ doing[c] \in Doings
    BY TabsKeep
<1>5. n \in Seq(Term) /\ Len(n) = Len(tabs[c].terms) + 1
    BY <1>1, <1>4, AppendProperties
<1>6. TabsOk(new, doing[c])
    BY <1>2, <1>3, <1>4, <1>5 DEF TabsOk, Tabs, PosFor, Idle
<1>7. doing' = [doing EXCEPT ![c] = doing[c]] /\ pinned' \in Seq(Term) /\ PinnedOnce'
    BY <1>3, TabsKeep
<1>8. ShownOk
    BY <1>3, <1>7, ShownStays
<1>9. updt' \in [TabClient -> BOOLEAN] /\ stopped' \in BOOLEAN
    BY <1>3 DEF TabsInv
<1> QED BY <1>3, <1>6, <1>7, <1>8, <1>9, TabsMove

LEMMA SetTabStep ==
    ASSUME TabsInv, NEW c \in TabClient, NEW f \in PosFor, NEW p \in 1..NumDefault + MaxTabs,
           SetTab(c, f, p)
    PROVE  TabsInv'
<1>1. /\ TabsOk(tabs[c], doing[c]) /\ tabs[c] \in Tabs /\ tabs[c].terms \in Seq(Term)
      /\ pinned \in Seq(Term) /\ PinnedOnce'
      /\ tabs = [tabs EXCEPT ![c] = tabs[c]] /\ doing = [doing EXCEPT ![c] = doing[c]]
    BY TabsKeep DEF SetTab
<1>2. UNCHANGED <<pinned, doing, updt>> /\ doing[c] = Idle /\ p \in Nat \ {0}
    BY TabsAssumption DEF SetTab, Ready, NumDefault
<1>3. stopped' \in BOOLEAN /\ updt' \in [TabClient -> BOOLEAN]
    BY <1>2 DEF SetTab, TabsInv
<1>4. CASE p > SetLen(c, f, pinned)
    <2>1. UNCHANGED <<tabs, shown>>
        BY <1>4 DEF SetTab
    <2> QED BY <1>1, <1>2, <1>3, <2>1, ShownStays, TabsMove
<1>5. CASE ~(p > SetLen(c, f, pinned))
    <2>1. PICK new : new = [posFor |-> f, pos |-> p, terms |-> tabs[c].terms]
        OBVIOUS
    <2>2. tabs' = [tabs EXCEPT ![c] = new] /\ shown' = [shown EXCEPT ![c] = pinned']
        BY <1>2, <1>5, <2>1 DEF SetTab, Select
    <2>3. /\ f = "default" => p <= NumDefault
          /\ f = "terms" => p <= Len(tabs[c].terms)
        BY <1>1, <1>2, <1>5 DEF SetLen, NumDefault
    <2>4. TabsOk(new, doing[c])
        BY <1>1, <1>2, <2>1, <2>3 DEF TabsOk, Tabs, Idle
    <2> QED BY <1>1, <1>2, <1>3, <2>2, <2>4, ShownStays, TabsMove
<1> QED BY <1>4, <1>5

LEMMA DropTabStep ==
    ASSUME TabsInv, NEW c \in TabClient, DropTab(c)
    PROVE  TabsInv'
<1>1. PICK n : n = IF tabs[c].posFor = "terms" THEN RemoveAt(tabs[c].terms, tabs[c].pos)
                   ELSE tabs[c].terms
    OBVIOUS
<1>2. PICK new : new = [posFor |-> "default", pos |-> 1, terms |-> n]
    OBVIOUS
<1>3. PICK seen : seen = {shown[c][i] : i \in {tabs[c].pos} \cap DOMAIN shown[c]}
    OBVIOUS
<1>4. PICK d : d = IF tabs[c].posFor = "terms" THEN doing[c]
                   ELSE [op |-> "drop", at |-> tabs[c].pos, terms |-> seen]
    OBVIOUS
<1>5. /\ TabsOk(tabs[c], doing[c]) /\ tabs[c] \in Tabs /\ doing[c] \in Doings
      /\ tabs[c].terms \in Seq(Term) /\ tabs[c].pos \in Nat \ {0}
      /\ pinned \in Seq(Term) /\ shown[c] \in Seq(Term)
      /\ doing = [doing EXCEPT ![c] = doing[c]] /\ (UNCHANGED pinned => PinnedOnce')
    BY TabsKeep
<1>6. /\ tabs' = [tabs EXCEPT ![c] = new] /\ doing' = [doing EXCEPT ![c] = d]
      /\ UNCHANGED <<pinned, shown, updt, stopped>> /\ doing[c] = Idle
    <2>1. /\ tabs' = [tabs EXCEPT ![c] = new]
          /\ UNCHANGED <<pinned, shown, updt, stopped>> /\ doing[c] = Idle
        BY <1>1, <1>2 DEF DropTab, Select, Ready
    <2>2. doing' = IF tabs[c].posFor = "terms" THEN doing
                   ELSE [doing EXCEPT ![c] = [op |-> "drop", at |-> tabs[c].pos, terms |-> seen]]
        BY <1>3 DEF DropTab
    <2>3. CASE tabs[c].posFor = "terms"
        BY <1>4, <1>5, <2>1, <2>2, <2>3
    <2>4. CASE tabs[c].posFor # "terms"
        BY <1>4, <2>1, <2>2, <2>4
    <2> QED BY <2>3, <2>4
<1>7. n \in Seq(Term)
    <2>1. CASE tabs[c].posFor = "terms"
        <3>1. tabs[c].pos \in 1..Len(tabs[c].terms)
            BY <1>5, <2>1 DEF TabsOk
        <3> QED BY <1>1, <1>5, <2>1, <3>1, RemoveIs
    <2> QED BY <1>1, <1>5, <2>1
<1>8. seen \in SUBSET Term
    BY <1>3, <1>5
<1>9. d \in Doings /\ d.op \in {"none", "drop"}
    BY <1>4, <1>5, <1>6, <1>8 DEF Doings, Ops, Idle
<1>10. TabsOk(new, d)
    BY <1>2, <1>7, <1>9 DEF TabsOk, Tabs, PosFor, NumDefault
<1>11. updt' \in [TabClient -> BOOLEAN] /\ stopped' \in BOOLEAN
    BY <1>6 DEF TabsInv
<1> QED BY <1>5, <1>6, <1>10, <1>11, ShownStays, TabsMove

\* The other steps of a request: its place changes, and a list of pinned tabs.
LEMMA DoingStep ==
    ASSUME TabsInv, NEW c \in TabClient,
           Refresh(c) \/ DropShared(c) \/ PinStart(c) \/ PinLog(c) \/ Redo(c)
    PROVE  TabsInv'
<1>1. /\ TabsOk(tabs[c], doing[c]) /\ tabs[c] \in Tabs /\ doing[c] \in Doings
      /\ pinned \in Seq(Term) /\ tabs = [tabs EXCEPT ![c] = tabs[c]]
      /\ doing = [doing EXCEPT ![c] = doing[c]] /\ (UNCHANGED pinned => PinnedOnce')
    BY TabsKeep
<1>2. UNCHANGED tabs
    BY DEF Refresh, DropShared, PinStart, PinLog, Redo
<1>3. updt' \in [TabClient -> BOOLEAN] /\ stopped' \in BOOLEAN
    <2>1. updt \in [TabClient -> BOOLEAN] /\ stopped \in BOOLEAN
        BY DEF TabsInv
    <2> QED BY <2>1 DEF Refresh, DropShared, PinStart, PinLog, Redo
<1>4. pinned' \in Seq(Term) /\ PinnedOnce'
    <2>1. CASE UNCHANGED pinned
        BY <1>1, <2>1
    <2>2. CASE ~UNCHANGED pinned
        <3>1. doing[c].at \in 1..Len(pinned) /\ pinned' = RemoveAt(pinned, doing[c].at)
            BY <1>1, <2>2 DEF Refresh, DropShared, PinStart, PinLog, Redo
        <3>2. PinnedOnce
            BY DEF TabsInv
        <3>3. PinnedOnce'
            BY <1>1, <3>1, <3>2, PinnedRemoved DEF PinnedOnce
        <3> QED BY <1>1, <3>1, <3>3, RemoveIs
    <2> QED BY <2>1, <2>2
<1>5. ShownOk
    <2>1. UNCHANGED shown \/ shown' = [shown EXCEPT ![c] = pinned']
        BY DEF Refresh, DropShared, PinStart, PinLog, Redo, Show
    <2> QED BY <1>4, <2>1, ShownStays
<1>6. \E d : TabsOk(tabs[c], d) /\ doing' = [doing EXCEPT ![c] = d]
    <2>1. PICK d : d = [op |-> "pin", at |-> 0, terms |-> {}]
        OBVIOUS
    <2>2. d \in Doings /\ Idle \in Doings /\ d.op = "pin" /\ Idle.op = "none"
        BY <2>1 DEF Doings, Ops, Idle
    <2>3. TabsOk(tabs[c], Idle) /\ (tabs[c].posFor = "terms" => TabsOk(tabs[c], d))
        BY <1>1, <2>2 DEF TabsOk
    <2>4. \/ UNCHANGED doing \/ doing' = [doing EXCEPT ![c] = Idle]
          \/ tabs[c].posFor = "terms" /\ doing' = [doing EXCEPT ![c] = d]
        BY <2>1 DEF Refresh, DropShared, PinStart, PinLog, Redo
    <2> QED BY <1>1, <2>3, <2>4
<1> QED BY <1>1, <1>2, <1>3, <1>4, <1>5, <1>6, TabsMove

LEMMA PinStep ==
    ASSUME TabsInv, NEW c \in TabClient, PinShared(c) \/ PinOwn(c)
    PROVE  TabsInv'
<1>1. /\ TabsOk(tabs[c], doing[c]) /\ tabs[c] \in Tabs /\ doing[c] \in Doings
      /\ tabs[c].terms \in Seq(Term) /\ tabs[c].pos \in Nat \ {0}
      /\ pinned \in Seq(Term) /\ tabs = [tabs EXCEPT ![c] = tabs[c]]
      /\ doing = [doing EXCEPT ![c] = doing[c]] /\ (UNCHANGED pinned => PinnedOnce')
    BY TabsKeep
<1>2. tabs[c].posFor = "terms" /\ tabs[c].pos \in 1..Len(tabs[c].terms)
    BY <1>1 DEF TabsOk, PinShared, PinOwn
<1>3. updt' \in [TabClient -> BOOLEAN] /\ stopped' \in BOOLEAN
    <2>1. updt \in [TabClient -> BOOLEAN] /\ stopped \in BOOLEAN
        BY DEF TabsInv
    <2> QED BY <2>1 DEF PinShared, PinOwn
<1>4. CASE PinShared(c)
    <2>1. PICK t : t = tabs[c].terms[tabs[c].pos]
        OBVIOUS
    <2>2. t \in Term /\ PinnedOnce
        BY <1>1, <1>2, <2>1 DEF TabsInv
    <2>3. PICK d : d = [op |-> "unlist", at |-> IndexIn(pinned', t), terms |-> {}]
        OBVIOUS
    <2>4. /\ pinned' = Pinned(t) /\ doing' = [doing EXCEPT ![c] = d]
          /\ UNCHANGED <<shown, tabs, updt>>
        BY <1>4, <2>1, <2>3 DEF PinShared
    <2>5. /\ pinned' \in Seq(Term) /\ IndexIn(pinned', t) \in 1..Len(pinned')
          /\ \A i, j \in 1..Len(pinned') : pinned'[i] = pinned'[j] => i = j
        <3>1. PICK new : new = Pinned(t)
            OBVIOUS
        <3>2. /\ new \in Seq(Term) /\ IndexIn(new, t) \in 1..Len(new)
              /\ Distinct(new)
            BY <1>1, <2>2, <3>1, PinnedIs
        <3> QED BY <2>4, <3>1, <3>2 DEF Distinct
    <2>6. PinnedOnce'
        BY <2>5 DEF PinnedOnce
    <2>7. IndexIn(pinned', t) \in Nat \ {0}
        BY <2>5
    <2>8. TabsOk(tabs[c], d)
        BY <1>1, <1>2, <2>3, <2>7 DEF TabsOk, Doings, Ops
    <2> QED BY <1>1, <1>3, <2>4, <2>5, <2>6, <2>8, ShownStays, TabsMove
<1>5. CASE PinOwn(c)
    <2>1. PICK n : n = RemoveAt(tabs[c].terms, tabs[c].pos)
        OBVIOUS
    <2>2. PICK new : new = [posFor |-> "pinned", pos |-> doing[c].at, terms |-> n]
        OBVIOUS
    <2>3. PICK d : d = [doing[c] EXCEPT !.op = "log"]
        OBVIOUS
    <2>4. /\ UNCHANGED <<pinned, shown, updt>> /\ doing[c].op = "unlist"
          /\ tabs' = [tabs EXCEPT ![c] = new] /\ doing' = [doing EXCEPT ![c] = d]
        BY <1>5, <2>1, <2>2, <2>3 DEF PinOwn, Select
    <2>5. doing[c].at \in Nat \ {0}
        BY <1>1, <2>4 DEF TabsOk, Doings
    <2>6. d \in Doings /\ d.op = "log"
        BY <1>1, <2>3 DEF Doings, Ops
    <2>7. n \in Seq(Term)
        BY <1>1, <1>2, <2>1, RemoveIs
    <2>8. TabsOk(new, d)
        BY <2>2, <2>5, <2>6, <2>7 DEF TabsOk, Tabs, PosFor
    <2> QED BY <1>1, <1>3, <2>4, <2>8, ShownStays, TabsMove
<1> QED BY <1>4, <1>5

LEMMA AccountStep ==
    ASSUME TabsInv, (\E t \in Term : TabPinSync(t)) \/ TabsRestart
    PROVE  TabsInv'
<1>1. /\ pinned \in Seq(Term) /\ PinnedOnce /\ shown \in [TabClient -> Seq(Term)]
      /\ updt \in [TabClient -> BOOLEAN] /\ stopped \in BOOLEAN
      /\ tabs \in [TabClient -> Tabs] /\ doing \in [TabClient -> Doings]
      /\ \A c \in TabClient : TabsOk(tabs[c], doing[c])
    BY TabsSplit
<1>2. ASSUME NEW t \in Term, TabPinSync(t) PROVE TabsInv'
    <2>1. pinned' = Pinned(t) /\ UNCHANGED <<shown, tabs, doing, updt, stopped>>
        BY <1>2 DEF TabPinSync
    <2>2. /\ pinned' \in Seq(Term)
          /\ \A i, j \in 1..Len(pinned') : pinned'[i] = pinned'[j] => i = j
        <3>1. PICK new : new = Pinned(t)
            OBVIOUS
        <3>2. /\ new \in Seq(Term) /\ Distinct(new)
            BY <1>1, <3>1, PinnedIs
        <3> QED BY <2>1, <3>1, <3>2 DEF Distinct
    <2>3. PinnedOnce'
        BY <2>2 DEF PinnedOnce
    <2> QED BY <1>1, <2>1, <2>2, <2>3 DEF TabsInv, TabsOk
<1>3. CASE TabsRestart
    <2>1. /\ doing' = [c \in TabClient |-> Idle] /\ shown' = [c \in TabClient |-> pinned]
          /\ stopped' = FALSE /\ UNCHANGED <<pinned, tabs, updt>>
        BY <1>3 DEF TabsRestart
    <2>2. Idle \in Doings /\ Idle.op = "none"
        BY DEF Doings, Ops, Idle
    <2>3. doing' \in [TabClient -> Doings] /\ shown' \in [TabClient -> Seq(Term)] /\ PinnedOnce'
        BY <1>1, <2>1, <2>2 DEF PinnedOnce
    <2>4. \A c \in TabClient : doing'[c].op = "none"
        BY <2>1, <2>2
    <2> QED BY <1>1, <2>1, <2>3, <2>4 DEF TabsInv, TabsOk
<1> QED BY <1>2, <1>3

LEMMA TabsStep ==
    ASSUME TabsInv, [TabsNext]_tabVars
    PROVE  TabsInv'
<1>1. CASE UNCHANGED tabVars
    BY <1>1 DEF tabVars, TabsInv, PinnedOnce
<1>2. CASE TabsNext
    BY <1>2, AddTabStep, SetTabStep, DropTabStep, DoingStep, PinStep, AccountStep DEF TabsNext
<1> QED BY <1>1, <1>2

\* A client's choice is a tab there is, of its own lists, and no tab is pinned
\* twice: by clients at once, again after a crash, or by a replica
\* (state.go:178-243, service.go:424-436).
THEOREM TabsStaySound == TabsSpec => []TabsSound
<1>1. TabsInit => TabsInv
    BY TabsStart
<1>2. TabsInv /\ [TabsNext]_tabVars => TabsInv'
    BY TabsStep
<1>3. TabsInv => TabsSound
    <2> SUFFICES ASSUME TabsInv PROVE TabsTypeOK /\ PinnedOnce
        BY DEF TabsSound
    <2>1. ASSUME NEW c \in TabClient
          PROVE  /\ tabs[c].posFor \in PosFor /\ tabs[c].pos \in Nat \ {0} /\ tabs[c].terms \in Seq(Term)
                 /\ tabs[c].posFor # "pinned" => tabs[c].pos <= SetLen(c, tabs[c].posFor, <<>>)
                 /\ doing[c].op \in Ops /\ doing[c].terms \subseteq Term
        <3>1. TabsOk(tabs[c], doing[c]) /\ tabs[c] \in Tabs /\ doing[c] \in Doings
            BY TabsKeep
        <3> QED BY <3>1 DEF TabsOk, Tabs, Doings, PosFor, SetLen
    <2> QED BY <2>1 DEF TabsInv, TabsTypeOK, Ops
<1> QED BY <1>1, <1>2, <1>3, PTL DEF TabsSpec

\* Of an account with one client: its page shows the pinned tabs, but for those
\* that came last; its choice of one is on its page, but while it is pinned; a tab
\* it pins is on the list before it leaves its own, and a tab it drops is where
\* it was.
OneClient == \A c, d \in TabClient : c = d

OneOk(p, s, t, d) ==
    /\ Begins(s, p)
    /\ t.posFor = "pinned" => t.pos <= IF d.op = "log" THEN Len(p) ELSE Len(s)
    /\ d.op = "unlist" => d.at \in 1..Len(p) /\ p[d.at] = t.terms[t.pos]
    /\ d.op = "drop" => d.at \in 1..Len(s) /\ s[d.at] \in d.terms /\ t.posFor = "default"

TabsOne == \A c \in TabClient : OneOk(pinned, shown[c], tabs[c], doing[c])

\* What a step may take from a list of tabs.
TabKept ==
    /\ \A c \in TabClient : \A t \in Range(tabs[c].terms) \ Range(tabs'[c].terms) :
         t \in Range(pinned') \/ (tabs[c].posFor = "terms" /\ tabs'[c].posFor = "default"
                                   /\ t = tabs[c].terms[tabs[c].pos])
    /\ \A t \in Range(pinned) \ Range(pinned') :
         \E c \in TabClient : doing[c].op = "drop" /\ t \in doing[c].terms

LEMMA BeginsRange ==
    ASSUME NEW s \in Seq(Term), NEW p \in Seq(Term), Begins(s, p)
    PROVE  Range(s) \ Range(p) = {}
BY DEF Begins, Range

LEMMA OneMove ==
    ASSUME OneClient, NEW c \in TabClient,
           OneOk(pinned', shown'[c], tabs'[c], doing'[c]),
           \A t \in Range(tabs[c].terms) \ Range(tabs'[c].terms) :
             t \in Range(pinned') \/ (tabs[c].posFor = "terms" /\ tabs'[c].posFor = "default"
                                       /\ t = tabs[c].terms[tabs[c].pos]),
           \A t \in Range(pinned) \ Range(pinned') : doing[c].op = "drop" /\ t \in doing[c].terms
    PROVE  TabsOne' /\ TabKept
<1>1. \A d \in TabClient : d = c
    BY DEF OneClient
<1>2. TabsOne'
    BY <1>1 DEF TabsOne
<1>3. TabKept
    BY <1>1 DEF TabKept
<1> QED BY <1>2, <1>3

\* The steps that leave both lists of tabs as they are.
LEMMA OneOwn ==
    ASSUME OneClient, TabsInv, TabsOne, NEW c \in TabClient, NEW s \in Seq(Term),
           NEW t \in Tabs, NEW d \in Doings, t.terms = tabs[c].terms,
           OneOk(pinned, s, t, d), UNCHANGED pinned,
           shown' = [shown EXCEPT ![c] = s],
           tabs' = [tabs EXCEPT ![c] = t], doing' = [doing EXCEPT ![c] = d]
    PROVE  TabsOne' /\ TabKept
<1>1. shown'[c] = s /\ tabs'[c] = t /\ doing'[c] = d
    BY DEF TabsInv
<1>2. OneOk(pinned', shown'[c], tabs'[c], doing'[c])
    BY <1>1
<1> QED BY <1>1, <1>2, OneMove

LEMMA AddTabOne ==
    ASSUME OneClient, TabsInv, TabsOne, NEW c \in TabClient, NEW t \in Term, AddTab(c, t)
    PROVE  TabsOne' /\ TabKept
<1>1. PICK n : n = Append(tabs[c].terms, t)
    OBVIOUS
<1>2. /\ tabs[c].terms \in Seq(Term) /\ pinned \in Seq(Term)
      /\ tabs \in [TabClient -> Tabs] /\ shown \in [TabClient -> Seq(Term)]
    BY TabsKeep DEF TabsInv
<1>3. /\ tabs'[c].posFor = "terms" /\ tabs'[c].terms = n /\ shown'[c] = pinned
      /\ UNCHANGED pinned /\ doing'[c] = Idle
    BY <1>1, <1>2 DEF AddTab, Select, Show, Ready
<1>4. /\ n \in Seq(Term) /\ Len(n) = Len(tabs[c].terms) + 1
      /\ \A i \in 1..Len(tabs[c].terms) : n[i] = tabs[c].terms[i]
    BY <1>1, <1>2, AppendProperties
<1>5. Range(tabs[c].terms) \ Range(n) = {}
    <2>1. Begins(tabs[c].terms, n)
        BY <1>2, <1>4 DEF Begins
    <2> QED BY <1>2, <1>4, <2>1, BeginsRange
<1>6. OneOk(pinned', shown'[c], tabs'[c], doing'[c])
    BY <1>2, <1>3 DEF OneOk, Begins, Idle
<1> QED BY <1>3, <1>5, <1>6, OneMove

LEMMA PageOne ==
    ASSUME OneClient, TabsInv, TabsOne, NEW c \in TabClient,
           \/ \E f \in PosFor, p \in 1..NumDefault + MaxTabs : SetTab(c, f, p)
           \/ Refresh(c) \/ PinStart(c) \/ PinLog(c) \/ Redo(c)
    PROVE  TabsOne' /\ TabKept
<1>1. /\ TabsOk(tabs[c], doing[c]) /\ tabs[c] \in Tabs /\ doing[c] \in Doings
      /\ tabs[c].terms \in Seq(Term) /\ tabs[c].pos \in Nat \ {0}
      /\ pinned \in Seq(Term) /\ shown[c] \in Seq(Term)
      /\ tabs = [tabs EXCEPT ![c] = tabs[c]] /\ doing = [doing EXCEPT ![c] = doing[c]]
    BY TabsKeep
<1>2. shown = [shown EXCEPT ![c] = shown[c]]
    BY DEF TabsInv
<1>3. OneOk(pinned, shown[c], tabs[c], doing[c]) /\ Begins(pinned, pinned)
    BY <1>1 DEF TabsOne, Begins
<1>4. ASSUME NEW f \in PosFor, NEW p \in 1..NumDefault + MaxTabs, SetTab(c, f, p)
      PROVE  TabsOne' /\ TabKept
    <2>1. UNCHANGED <<pinned, doing>> /\ p \in Nat \ {0} /\ doing[c].op = "none"
        BY <1>4, TabsAssumption DEF SetTab, NumDefault, Ready, Idle
    <2>2. CASE p > SetLen(c, f, pinned)
        <3>1. UNCHANGED <<tabs, shown>>
            BY <1>4, <2>2 DEF SetTab
        <3> QED BY <1>1, <1>2, <1>3, <2>1, <3>1, OneOwn
    <2>3. CASE ~(p > SetLen(c, f, pinned))
        <3>1. PICK t : t = [posFor |-> f, pos |-> p, terms |-> tabs[c].terms]
            OBVIOUS
        <3>2. t \in Tabs /\ t.terms = tabs[c].terms
            BY <1>1, <2>1, <3>1 DEF Tabs
        <3>3. tabs' = [tabs EXCEPT ![c] = t] /\ shown' = [shown EXCEPT ![c] = pinned]
            BY <1>4, <2>3, <3>1 DEF SetTab, Select
        <3>4. f = "pinned" => p <= Len(pinned)
            BY <1>1, <2>1, <2>3 DEF SetLen
        <3>5. OneOk(pinned, pinned, t, doing[c])
            BY <1>3, <2>1, <3>1, <3>4 DEF OneOk
        <3> QED BY <1>1, <2>1, <3>2, <3>3, <3>5, OneOwn
    <2> QED BY <2>2, <2>3
<1>5. CASE Refresh(c)
    <2>1. UNCHANGED <<pinned, tabs, doing>> /\ shown' = [shown EXCEPT ![c] = pinned]
        BY <1>5 DEF Refresh
    <2>2. OneOk(pinned, pinned, tabs[c], doing[c])
        BY <1>1, <1>3 DEF OneOk, Begins
    <2> QED BY <1>1, <2>1, <2>2, OneOwn
<1>6. CASE PinStart(c) \/ Redo(c)
    <2>1. PICK d : d = [op |-> "pin", at |-> 0, terms |-> {}]
        OBVIOUS
    <2>2. d \in Doings /\ d.op = "pin"
        BY <2>1 DEF Doings, Ops
    <2>3. UNCHANGED <<pinned, tabs, shown>> /\ (doing' = doing \/ doing' = [doing EXCEPT ![c] = d])
        BY <1>6, <2>1 DEF PinStart, Redo
    <2>4. doing[c] = Idle
        BY <1>6 DEF PinStart, Redo, Ready
    <2>5. OneOk(pinned, shown[c], tabs[c], d)
        BY <1>3, <2>2, <2>4 DEF OneOk, Idle
    <2> QED BY <1>1, <1>2, <1>3, <2>2, <2>3, <2>5, OneOwn
<1>7. CASE PinLog(c)
    <2>1. /\ UNCHANGED <<pinned, tabs>> /\ shown' = [shown EXCEPT ![c] = pinned]
          /\ doing' = [doing EXCEPT ![c] = Idle] /\ doing[c].op = "log"
        BY <1>7 DEF PinLog, Show
    <2>2. Idle \in Doings /\ Idle.op = "none"
        BY DEF Doings, Ops, Idle
    <2>3. OneOk(pinned, pinned, tabs[c], Idle)
        BY <1>3, <2>1, <2>2 DEF OneOk
    <2> QED BY <1>1, <2>1, <2>2, <2>3, OneOwn
<1> QED BY <1>4, <1>5, <1>6, <1>7

LEMMA DropOne ==
    ASSUME OneClient, TabsInv, TabsOne, NEW c \in TabClient, DropTab(c) \/ DropShared(c)
    PROVE  TabsOne' /\ TabKept
<1>1. /\ TabsOk(tabs[c], doing[c]) /\ tabs[c] \in Tabs /\ doing[c] \in Doings
      /\ tabs[c].terms \in Seq(Term) /\ tabs[c].pos \in Nat \ {0} /\ tabs[c].posFor \in PosFor
      /\ pinned \in Seq(Term) /\ shown[c] \in Seq(Term)
    BY TabsKeep
<1>2. /\ shown \in [TabClient -> Seq(Term)] /\ tabs \in [TabClient -> Tabs]
      /\ doing \in [TabClient -> Doings]
    BY DEF TabsInv
<1>3. OneOk(pinned, shown[c], tabs[c], doing[c]) /\ Begins(shown[c], pinned)
    BY DEF TabsOne, OneOk
<1>4. CASE DropTab(c)
    <2>1. /\ UNCHANGED <<pinned, shown>> /\ doing[c].op = "none" /\ tabs[c].posFor # "default"
          /\ tabs'[c].posFor = "default"
          /\ tabs'[c].terms = IF tabs[c].posFor = "terms" THEN RemoveAt(tabs[c].terms, tabs[c].pos)
                              ELSE tabs[c].terms
        BY <1>2, <1>4 DEF DropTab, Select, Ready, Idle
    <2>2. CASE tabs[c].posFor = "terms"
        <3>1. tabs[c].pos \in 1..Len(tabs[c].terms)
            BY <1>1, <2>2 DEF TabsOk
        <3>2. \A t \in Range(tabs[c].terms) \ Range(tabs'[c].terms) : t = tabs[c].terms[tabs[c].pos]
            <4>1. PICK n : n = tabs[c].terms
                OBVIOUS
            <4>2. n \in Seq(Term) /\ tabs[c].pos \in 1..Len(n)
                BY <1>1, <3>1, <4>1
            <4>3. \A t \in Range(n) : t # n[tabs[c].pos] => t \in Range(RemoveAt(n, tabs[c].pos))
                BY <4>2, RemoveKeeps
            <4> QED BY <2>1, <2>2, <4>1, <4>3
        <3>3. UNCHANGED doing
            BY <1>4, <2>2 DEF DropTab
        <3>4. OneOk(pinned', shown'[c], tabs'[c], doing'[c])
            BY <1>3, <2>1, <3>3 DEF OneOk
        <3> QED BY <2>1, <2>2, <3>2, <3>4, OneMove
    <2>3. CASE tabs[c].posFor = "pinned"
        <3>1. tabs[c].pos \in 1..Len(shown[c])
            BY <1>1, <1>3, <2>1, <2>3 DEF OneOk
        <3>2. shown[c][tabs[c].pos] \in {shown[c][i] : i \in {tabs[c].pos} \cap DOMAIN shown[c]}
            BY <1>1, <3>1
        <3>3. PICK seen : seen = {shown[c][i] : i \in {tabs[c].pos} \cap DOMAIN shown[c]}
            OBVIOUS
        <3>4. doing' = [doing EXCEPT ![c] = [op |-> "drop", at |-> tabs[c].pos, terms |-> seen]]
            BY <1>4, <2>3, <3>3 DEF DropTab
        <3>5. doing'[c].op = "drop" /\ doing'[c].at = tabs[c].pos /\ doing'[c].terms = seen
            BY <1>2, <3>4
        <3>6. shown[c][tabs[c].pos] \in seen
            BY <3>2, <3>3
        <3>7. OneOk(pinned', shown'[c], tabs'[c], doing'[c])
            BY <1>3, <2>1, <3>1, <3>5, <3>6 DEF OneOk
        <3> QED BY <2>1, <2>3, <3>7, OneMove
    <2> QED BY <1>1, <2>1, <2>2, <2>3 DEF PosFor
<1>5. CASE DropShared(c)
    <2>1. doing[c].op = "drop" /\ doing'[c].op = "none" /\ UNCHANGED tabs /\ shown'[c] = pinned'
        BY <1>2, <1>5 DEF DropShared, Show, Idle
    <2>2. /\ doing[c].at \in 1..Len(pinned) /\ tabs[c].posFor = "default"
          /\ pinned[doing[c].at] \in doing[c].terms
        BY <1>1, <1>3, <2>1 DEF OneOk, Begins
    <2>3. PICK k : k = doing[c].at
        OBVIOUS
    <2>4. pinned' = RemoveAt(pinned, k)
        BY <1>1, <1>5, <2>2, <2>3 DEF DropShared
    <2>5. pinned' \in Seq(Term)
        BY <1>1, <2>2, <2>3, <2>4, RemoveIs
    <2>6. \A t \in Range(pinned) \ Range(pinned') : t = pinned[k]
        <3>1. \A t \in Range(pinned) : t # pinned[k] => t \in Range(RemoveAt(pinned, k))
            BY <1>1, <2>2, <2>3, RemoveKeeps
        <3> QED BY <2>4, <3>1
    <2>7. OneOk(pinned', shown'[c], tabs'[c], doing'[c])
        BY <2>1, <2>2, <2>5 DEF OneOk, Begins
    <2> QED BY <2>1, <2>2, <2>3, <2>6, <2>7, OneMove
<1> QED BY <1>4, <1>5

LEMMA PinOne ==
    ASSUME OneClient, TabsInv, TabsOne, NEW c \in TabClient, PinShared(c) \/ PinOwn(c)
    PROVE  TabsOne' /\ TabKept
<1>1. /\ TabsOk(tabs[c], doing[c]) /\ tabs[c] \in Tabs /\ doing[c] \in Doings
      /\ tabs[c].terms \in Seq(Term) /\ tabs[c].pos \in Nat \ {0}
      /\ pinned \in Seq(Term) /\ shown[c] \in Seq(Term)
    BY TabsKeep
<1>2. /\ shown \in [TabClient -> Seq(Term)] /\ tabs \in [TabClient -> Tabs]
      /\ doing \in [TabClient -> Doings]
    BY DEF TabsInv
<1>3. OneOk(pinned, shown[c], tabs[c], doing[c]) /\ Begins(shown[c], pinned)
    BY DEF TabsOne, OneOk
<1>4. tabs[c].posFor = "terms" /\ tabs[c].pos \in 1..Len(tabs[c].terms)
    BY <1>1 DEF TabsOk, PinShared, PinOwn
<1>5. PICK t : t = tabs[c].terms[tabs[c].pos]
    OBVIOUS
<1>6. CASE PinShared(c)
    <2>1. t \in Term /\ PinnedOnce
        BY <1>1, <1>4, <1>5 DEF TabsInv
    <2>2. PICK new : new = Pinned(t)
        OBVIOUS
    <2>3. /\ pinned' = new /\ UNCHANGED <<tabs, shown>>
          /\ doing'[c].op = "unlist" /\ doing'[c].at = IndexIn(new, t)
        BY <1>2, <1>5, <1>6, <2>2 DEF PinShared
    <2>4. /\ new \in Seq(Term) /\ Begins(pinned, new)
          /\ IndexIn(new, t) \in 1..Len(new) /\ new[IndexIn(new, t)] = t
        BY <1>1, <2>1, <2>2, PinnedIs
    <2>5. Begins(shown[c], new)
        BY <1>1, <1>3, <2>4 DEF Begins
    <2>6. OneOk(pinned', shown'[c], tabs'[c], doing'[c])
        BY <1>4, <1>5, <2>3, <2>4, <2>5 DEF OneOk
    <2>7. Range(pinned) \ Range(new) = {}
        BY <1>1, <2>4, BeginsRange
    <2> QED BY <2>3, <2>6, <2>7, OneMove
<1>7. CASE PinOwn(c)
    <2>1. /\ UNCHANGED <<pinned, shown>> /\ doing[c].op = "unlist" /\ doing'[c].op = "log"
          /\ tabs'[c].posFor = "pinned" /\ tabs'[c].pos = doing[c].at
          /\ tabs'[c].terms = RemoveAt(tabs[c].terms, tabs[c].pos)
        BY <1>2, <1>7 DEF PinOwn, Select, Doings
    <2>2. doing[c].at \in 1..Len(pinned) /\ pinned[doing[c].at] = t
        BY <1>3, <1>5, <2>1 DEF OneOk
    <2>3. \A x \in Range(tabs[c].terms) \ Range(tabs'[c].terms) : x = t
        <3>1. PICK n : n = tabs[c].terms
            OBVIOUS
        <3>2. \A x \in Range(n) : x # n[tabs[c].pos] => x \in Range(RemoveAt(n, tabs[c].pos))
            BY <1>1, <1>4, <3>1, RemoveKeeps
        <3> QED BY <1>5, <2>1, <3>1, <3>2
    <2>4. t \in Range(pinned')
        BY <1>1, <2>1, <2>2 DEF Range
    <2>5. OneOk(pinned', shown'[c], tabs'[c], doing'[c])
        BY <1>3, <2>1, <2>2 DEF OneOk
    <2> QED BY <2>1, <2>3, <2>4, <2>5, OneMove
<1> QED BY <1>6, <1>7

LEMMA AccountOne ==
    ASSUME OneClient, TabsInv, TabsOne, (\E t \in Term : TabPinSync(t)) \/ TabsRestart
    PROVE  TabsOne' /\ TabKept
<1>1. /\ pinned \in Seq(Term) /\ PinnedOnce /\ shown \in [TabClient -> Seq(Term)]
      /\ doing \in [TabClient -> Doings]
    BY DEF TabsInv
<1>2. ASSUME NEW t \in Term, TabPinSync(t) PROVE TabsOne' /\ TabKept
    <2>1. PICK new : new = Pinned(t)
        OBVIOUS
    <2>2. pinned' = new /\ UNCHANGED <<shown, tabs, doing>>
        BY <1>2, <2>1 DEF TabPinSync
    <2>3. new \in Seq(Term) /\ Begins(pinned, new)
        BY <1>1, <2>1, PinnedIs
    <2>4. ASSUME NEW c \in TabClient PROVE OneOk(new, shown[c], tabs[c], doing[c])
        <3>1. OneOk(pinned, shown[c], tabs[c], doing[c]) /\ shown[c] \in Seq(Term)
            BY <1>1 DEF TabsOne
        <3>2. Begins(shown[c], new)
            <4>1. Begins(shown[c], pinned)
                BY <3>1 DEF OneOk
            <4> QED BY <1>1, <2>3, <3>1, <4>1 DEF Begins
        <3>3. tabs[c].posFor = "pinned" => tabs[c].pos <= IF doing[c].op = "log" THEN Len(new) ELSE Len(shown[c])
            <4>1. tabs[c].pos \in Nat
                BY TabsKeep
            <4> QED BY <1>1, <2>3, <3>1, <4>1 DEF OneOk, Begins
        <3> QED BY <1>1, <2>3, <3>1, <3>2, <3>3 DEF OneOk, Begins
    <2>5. Range(pinned) \ Range(new) = {}
        BY <1>1, <2>3, BeginsRange
    <2> QED BY <2>2, <2>4, <2>5 DEF TabsOne, TabKept
<1>3. CASE TabsRestart
    <2>1. /\ \A c \in TabClient : doing'[c].op = "none" /\ shown'[c] = pinned
          /\ UNCHANGED <<pinned, tabs>>
        BY <1>3 DEF TabsRestart, Idle
    <2>2. ASSUME NEW c \in TabClient PROVE OneOk(pinned, pinned, tabs[c], doing'[c])
        <3>1. OneOk(pinned, shown[c], tabs[c], doing[c]) /\ tabs[c].pos \in Nat /\ shown[c] \in Seq(Term)
            BY TabsKeep DEF TabsOne
        <3> QED BY <1>1, <2>1, <3>1 DEF OneOk, Begins
    <2> QED BY <2>1, <2>2 DEF TabsOne, TabKept
<1> QED BY <1>2, <1>3

LEMMA OneStep ==
    ASSUME OneClient, TabsInv, TabsOne, [TabsNext]_tabVars
    PROVE  TabsOne' /\ [TabKept]_tabVars
<1>1. CASE UNCHANGED tabVars
    BY <1>1 DEF tabVars, TabsOne
<1>2. CASE TabsNext
    BY <1>2, AddTabOne, PageOne, DropOne, PinOne, AccountOne DEF TabsNext
<1> QED BY <1>1, <1>2

\* With one client, no tab is lost: it leaves the client's list only when its user
\* drops it or when it is pinned, and a pinned one only when the user drops that
\* very tab, whatever crash comes between the two files (state.go:212-243).
THEOREM TabsAreKept ==
    ASSUME OneClient
    PROVE  TabsSpec => NoTabLost
<1>1. TabsInit => TabsInv
    BY TabsStart
<1>2. TabsInit => TabsOne
    <2> SUFFICES ASSUME TabsInit, NEW c \in TabClient PROVE OneOk(pinned, shown[c], tabs[c], doing[c])
        BY DEF TabsOne
    <2>1. pinned = <<>> /\ shown[c] = <<>> /\ tabs[c].posFor = "default" /\ doing[c].op = "none"
        BY DEF TabsInit, Idle
    <2> QED BY <2>1 DEF OneOk, Begins
<1>3. TabsInv /\ [TabsNext]_tabVars => TabsInv'
    BY TabsStep
<1>4. TabsInv /\ TabsOne /\ [TabsNext]_tabVars => TabsOne' /\ [TabKept]_tabVars
    BY OneStep
<1>5. NoTabLost <=> [][TabKept]_tabVars
    BY DEF NoTabLost, TabKept
<1> QED BY <1>1, <1>2, <1>3, <1>4, <1>5, PTL DEF TabsSpec
-----------------------------------------------------------------------------
(* Histories *)

\* The page state of a client knows the id that the server gave a thread only
\* once it is sent and no handler has that name yet to tell the client; there is
\* one such handler at most.
Renames(k, t) == k.op = "rename" /\ k.id = LocalId(t)
CallsInv ==
    /\ calls \subseteq Call /\ \A k \in calls : k.begun \/ k.left = {}
    /\ \A k \in calls : k.op = "rename" => \E t \in Topic : Renames(k, t) /\ place[t] = "sent"
    /\ \A k, m \in calls : \A t \in Topic : Renames(k, t) /\ Renames(m, t) => k = m
NamedInv ==
    \A c \in Client : \A t \in Topic : MsgId(t) \in DOMAIN refs[c] =>
      place[t] = "sent" /\ \A k \in calls : Renames(k, t) => ~Awaits(k, c)

\* A client's part.
PageOk(h, p, r) ==
    /\ h \in Seq(Id)
    /\ r \in [DOMAIN r -> Nat \ {0}]
    /\ IF h = <<>> THEN p = 0 ELSE p \in 1..Len(h)
    /\ \A id \in Range(h) : id \in DOMAIN r /\ r[id] >= Count(id, h)
    /\ \A i \in 1..Len(h) - 1 : h[i] # h[i + 1]

HistInv ==
    /\ place \in [Topic -> {"absent", "draft", "sent", "gone"}]
    /\ hmax \in [Client -> HistoryLen] /\ online \subseteq Client
    /\ hist \in [Client -> Seq(Id)] /\ hpos \in [Client -> Nat]
    /\ refs = [c \in Client |-> refs[c]]
    /\ \A c \in Client : PageOk(hist[c], hpos[c], refs[c])
    /\ CallsInv /\ NamedInv

\* How often an id is in a sequence.
LEMMA CountIs ==
    ASSUME NEW S, NEW s \in Seq(S), NEW x
    PROVE  /\ Count(x, s) \in Nat
           /\ x \in Range(s) <=> Count(x, s) # 0
           /\ IsFiniteSet({i \in DOMAIN s : s[i] = x})
<1>1. IsFiniteSet(1..Len(s)) /\ DOMAIN s = 1..Len(s)
    BY FS_Interval
<1>2. IsFiniteSet({i \in DOMAIN s : s[i] = x})
    BY <1>1, FS_Subset
<1>3. x \in Range(s) <=> {i \in DOMAIN s : s[i] = x} # {}
    BY DEF Range
<1> QED BY <1>2, <1>3, FS_CardinalityType, FS_EmptySet DEF Count

LEMMA CountConcat ==
    ASSUME NEW S, NEW s \in Seq(S), NEW t \in Seq(S), NEW x
    PROVE  Count(x, s \o t) = Count(x, s) + Count(x, t)
<1>1. PICK n \in Nat, m \in Nat : n = Len(s) /\ m = Len(t)
    OBVIOUS
<1>2. PICK u : u = s \o t
    OBVIOUS
<1>3. /\ u \in Seq(S) /\ Len(u) = n + m
      /\ \A i \in 1..n + m : u[i] = IF i <= n THEN s[i] ELSE t[i - n]
    BY <1>1, <1>2, ConcatProperties
<1>4. PICK A, B, C : /\ A = {i \in DOMAIN s : s[i] = x} /\ B = {i \in DOMAIN t : t[i] = x}
                     /\ C = {i \in 1..n + m : i > n /\ t[i - n] = x}
    OBVIOUS
<1>5. IsFiniteSet(A) /\ IsFiniteSet(B)
    BY <1>4, CountIs
<1>6. {i \in DOMAIN u : u[i] = x} = A \cup C
    <2>1. DOMAIN u = 1..n + m /\ DOMAIN s = 1..n
        BY <1>1, <1>3
    <2>2. ASSUME NEW i PROVE i \in {j \in DOMAIN u : u[j] = x} <=> i \in A \cup C
        <3>1. CASE i \in 1..n
            <4>1. i \in 1..n + m /\ u[i] = s[i] /\ ~(i > n)
                BY <1>3, <3>1
            <4> QED BY <1>4, <2>1, <3>1, <4>1
        <3>2. CASE i \in 1..n + m /\ i \notin 1..n
            <4>1. i > n /\ ~(i <= n)
                BY <3>2
            <4>2. u[i] = t[i - n]
                BY <1>3, <3>2, <4>1
            <4> QED BY <1>4, <2>1, <3>2, <4>1, <4>2
        <3>3. CASE i \notin 1..n + m
            <4>1. i \notin 1..n
                BY <3>3
            <4> QED BY <1>4, <2>1, <3>3, <4>1
        <3> QED BY <3>1, <3>2, <3>3
    <2> QED BY <2>2
<1>7. A \cap C = {}
    BY <1>1, <1>4
<1>8. IsFiniteSet(C) /\ Cardinality(C) = Cardinality(B)
    <2> DEFINE f == [i \in B |-> i + n]
    <2>1. B = {i \in 1..m : t[i] = x}
        BY <1>1, <1>4
    <2>2. f \in [B -> C]
        <3>1. ASSUME NEW i \in B PROVE i + n \in C
            <4>1. i \in 1..m /\ t[i] = x
                BY <2>1
            <4>2. i + n \in 1..n + m /\ i + n > n /\ (i + n) - n = i
                BY <4>1
            <4> QED BY <1>4, <4>1, <4>2
        <3> QED BY <3>1
    <2>3. \A i, j \in B : f[i] = f[j] => i = j
        BY <2>1
    <2>4. \A k \in C : \E i \in B : f[i] = k
        <3>1. ASSUME NEW k \in C PROVE \E i \in B : f[i] = k
            <4>1. k \in 1..n + m /\ k > n /\ t[k - n] = x
                BY <1>4
            <4>2. k - n \in 1..m /\ (k - n) + n = k
                BY <4>1
            <4>3. k - n \in B
                BY <2>1, <4>1, <4>2
            <4> QED BY <4>2, <4>3
        <3> QED BY <3>1
    <2>5. f \in Bijection(B, C)
        BY <2>2, <2>3, <2>4 DEF Bijection, Injection, Surjection, IsInjective
    <2> QED BY <1>5, <2>5, FS_Bijection DEF ExistsBijection
<1>9. Cardinality(A \cup C) = Cardinality(A) + Cardinality(C) - Cardinality(A \cap C)
    BY <1>5, <1>8, FS_Union
<1>10. Cardinality(A \cup C) = Cardinality(A) + Cardinality(B)
    <2>1. Cardinality(A) \in Nat /\ Cardinality(B) \in Nat
        BY <1>5, FS_CardinalityType
    <2>2. Cardinality(A \cap C) = 0
        BY <1>7, FS_EmptySet
    <2> QED BY <1>8, <1>9, <2>1, <2>2
<1> QED BY <1>2, <1>4, <1>6, <1>10 DEF Count

LEMMA CountOne ==
    ASSUME NEW e, NEW x
    PROVE  Count(x, <<e>>) = IF x = e THEN 1 ELSE 0
<1>1. {i \in DOMAIN <<e>> : <<e>>[i] = x} = IF x = e THEN {1} ELSE {}
    OBVIOUS
<1> QED BY <1>1, FS_EmptySet, FS_Singleton DEF Count

LEMMA CountAppend ==
    ASSUME NEW S, NEW s \in Seq(S), NEW e \in S, NEW x
    PROVE  Count(x, Append(s, e)) = Count(x, s) + IF x = e THEN 1 ELSE 0
<1>1. <<e>> \in Seq(S) /\ Append(s, e) = s \o <<e>>
    BY AppendIsConcat
<1>2. Count(x, s \o <<e>>) = Count(x, s) + Count(x, <<e>>)
    BY <1>1, CountConcat
<1>3. Count(x, <<e>>) = IF x = e THEN 1 ELSE 0
    BY CountOne
<1> QED BY <1>1, <1>2, <1>3

LEMMA CountTail ==
    ASSUME NEW S, NEW s \in Seq(S), s # <<>>, NEW x
    PROVE  Count(x, s) = Count(x, Tail(s)) + IF x = s[1] THEN 1 ELSE 0
<1>1. Tail(s) \in Seq(S) /\ s[1] \in S /\ <<s[1]>> \in Seq(S)
    BY HeadTailProperties
<1>2. s = <<s[1]>> \o Tail(s)
    <2>1. PICK t : t = Tail(s)
        OBVIOUS
    <2>2. /\ t \in Seq(S) /\ Len(t) = Len(s) - 1
          /\ \A i \in 1..Len(t) : t[i] = s[i + 1]
        BY <2>1, HeadTailProperties
    <2>3. PICK u : u = <<s[1]>> \o t
        OBVIOUS
    <2>4. PICK v : v = <<s[1]>>
        OBVIOUS
    <2>5. v \in Seq(S) /\ Len(v) = 1 /\ v[1] = s[1]
        BY <1>1, <2>4
    <2>6. /\ u \in Seq(S) /\ Len(u) = 1 + Len(t)
          /\ \A i \in 1..1 + Len(t) : u[i] = IF i <= 1 THEN v[i] ELSE t[i - 1]
        BY <2>2, <2>3, <2>4, <2>5, ConcatProperties
    <2>7. Len(u) = Len(s)
        BY <2>2, <2>6
    <2>8. ASSUME NEW i \in 1..Len(u) PROVE u[i] = s[i]
        <3>1. CASE i = 1
            BY <2>5, <2>6, <3>1
        <3>2. CASE i # 1
            <4>1. i - 1 \in 1..Len(t) /\ (i - 1) + 1 = i /\ ~(i <= 1)
                BY <2>6, <3>2
            <4> QED BY <2>2, <2>6, <4>1
        <3> QED BY <3>1, <3>2
    <2> QED BY <2>1, <2>3, <2>6, <2>7, <2>8, SeqEqual
<1>3. Count(x, <<s[1]>> \o Tail(s)) = Count(x, <<s[1]>>) + Count(x, Tail(s))
    BY <1>1, CountConcat
<1>4. Count(x, Tail(s)) \in Nat
    BY <1>1, CountIs
<1>5. Count(x, <<s[1]>>) = IF x = s[1] THEN 1 ELSE 0
    BY CountOne
<1>6. Count(x, s) = Count(x, <<s[1]>>) + Count(x, Tail(s))
    <2>1. PICK u : u = <<s[1]>> \o Tail(s)
        OBVIOUS
    <2>2. u = s
        BY <1>2, <2>1
    <2> QED BY <1>3, <2>1, <2>2
<1> QED BY <1>4, <1>5, <1>6

\* A sequence is what is before a position and the rest.
LEMMA Parts ==
    ASSUME NEW S, NEW s \in Seq(S), NEW q \in 1..Len(s) + 1
    PROVE  /\ SubSeq(s, 1, q - 1) \in Seq(S) /\ SubSeq(s, q, Len(s)) \in Seq(S)
           /\ Len(SubSeq(s, 1, q - 1)) = q - 1
           /\ \A i \in 1..q - 1 : SubSeq(s, 1, q - 1)[i] = s[i]
           /\ Len(SubSeq(s, q, Len(s))) = Len(s) - q + 1
           /\ \A i \in 1..Len(s) - q + 1 : SubSeq(s, q, Len(s))[i] = s[q + i - 1]
           /\ \A x : Count(x, s) = Count(x, SubSeq(s, 1, q - 1)) + Count(x, SubSeq(s, q, Len(s)))
<1>1. PICK n \in Nat : n = Len(s)
    OBVIOUS
<1>2. PICK a, b : a = SubSeq(s, 1, q - 1) /\ b = SubSeq(s, q, n)
    OBVIOUS
<1>3. \A i \in 1..n : s[i] \in S
    BY <1>1
<1>4. a \in Seq(S) /\ Len(a) = q - 1 /\ \A i \in 1..q - 1 : a[i] = s[i]
    <2>1. \A i \in 1..q - 1 : s[i] \in S
        BY <1>1, <1>3
    <2>2. /\ a \in Seq(S) /\ Len(a) = (IF 1 <= q - 1 THEN (q - 1) - 1 + 1 ELSE 0)
          /\ \A i \in 1..(q - 1) - 1 + 1 : a[i] = s[1 + i - 1]
        BY <1>2, <2>1, SubSeqProperties
    <2> QED BY <1>1, <2>2
<1>5. b \in Seq(S) /\ Len(b) = n - q + 1 /\ \A i \in 1..n - q + 1 : b[i] = s[q + i - 1]
    <2>1. \A i \in q..n : s[i] \in S
        BY <1>1, <1>3
    <2>2. /\ b \in Seq(S) /\ Len(b) = (IF q <= n THEN n - q + 1 ELSE 0)
          /\ \A i \in 1..n - q + 1 : b[i] = s[q + i - 1]
        BY <1>2, <2>1, SubSeqProperties
    <2> QED BY <1>1, <2>2
<1>6. s = a \o b
    <2>1. SubSeq(s, 1, q - 1) \o SubSeq(s, (q - 1) + 1, n) = SubSeq(s, 1, n)
        <3>1. 1 \in 1..Len(s) + 1 /\ q - 1 \in 1 - 1..Len(s) /\ n \in q - 1..Len(s)
            BY <1>1
        <3> QED BY <3>1, ConcatAdjacentSubSeq
    <2>2. (q - 1) + 1 = q
        OBVIOUS
    <2> QED BY <1>1, <1>2, <2>1, <2>2, SubSeqFull
<1>7. ASSUME NEW x PROVE Count(x, s) = Count(x, a) + Count(x, b)
    BY <1>4, <1>5, <1>6, CountConcat
<1> QED BY <1>1, <1>2, <1>4, <1>5, <1>7

\* The references of a client: one more of an id, and fewer of those in a
\* sequence.
Counted(r) == r \in [DOMAIN r -> Nat \ {0}]

Added(a, r, id) ==
    /\ Counted(a) /\ DOMAIN a = DOMAIN r \cup {id}
    /\ \A x \in DOMAIN r : x # id => a[x] = r[x]
    /\ a[id] = IF id \in DOMAIN r THEN r[id] + 1 ELSE 1
Dropped(d, a, seq) ==
    /\ Counted(d) /\ DOMAIN d \subseteq DOMAIN a
    /\ \A x \in DOMAIN a : a[x] - Count(x, seq) > 0 =>
         x \in DOMAIN d /\ d[x] = a[x] - Count(x, seq)

LEMMA AddRefIs ==
    ASSUME NEW r, Counted(r), NEW id
    PROVE  Added(AddRef(r, id), r, id)
BY DEF AddRef, Counted, Added

LEMMA DropRefsIs ==
    ASSUME NEW a, Counted(a), NEW S, NEW seq \in Seq(S)
    PROVE  Dropped(DropRefs(a, seq), a, seq)
<1> DEFINE d == DropRefs(a, seq)
<1>1. \A x : Count(x, seq) \in Nat
    BY CountIs
<1>2. d = [x \in {y \in DOMAIN a : a[y] - Count(y, seq) > 0} |-> a[x] - Count(x, seq)]
    BY DEF DropRefs
<1>3. \A x \in DOMAIN a : a[x] \in Nat
    BY DEF Counted
<1> HIDE DEF d
<1>4. Dropped(d, a, seq)
    BY <1>1, <1>2, <1>3 DEF Counted, Dropped
<1> QED BY <1>4 DEF d

\* Where a thread that is opened goes: after the one that was shown.
LEMMA NextPosIs ==
    ASSUME NEW h \in Seq(Id), NEW p \in Nat, NEW id, IF h = <<>> THEN p = 0 ELSE p \in 1..Len(h),
           p # 0 => id # h[p], \A i \in 1..Len(h) - 1 : h[i] # h[i + 1],
           NEW q, q = NextPos(h, p, id)
    PROVE  /\ q \in 1..Len(h) + 1 /\ (p = 0 => q = 1 /\ h = <<>>)
           /\ p # 0 => q > 1 /\ h[q - 1] = h[p]
           /\ q > 1 => h[q - 1] # id
<1>1. CASE p >= 3 /\ id = h[p - 1] /\ h[p] = h[p - 2]
    <2>1. q = p - 1 /\ p \in 1..Len(h) /\ q - 1 = p - 2
        BY <1>1 DEF NextPos
    <2> QED BY <1>1, <2>1
<1>2. CASE ~(p >= 3 /\ id = h[p - 1] /\ h[p] = h[p - 2])
    <2>1. q = p + 1
        BY <1>2 DEF NextPos
    <2>2. CASE h = <<>>
        BY <2>1, <2>2
    <2>3. CASE h # <<>>
        <3>1. p \in 1..Len(h) /\ q - 1 = p
            BY <2>1, <2>3
        <3> QED BY <2>1, <2>3, <3>1
    <2> QED BY <2>2, <2>3
<1> QED BY <1>1, <1>2

\* What _addThread makes of a page: it cuts what is after the new place, and the
\* oldest entry if there are too many.
Opened(h, p, r, id, max, h2, p2, r2) ==
    LET q == NextPos(h, p, id)
        cut == SubSeq(h, q, Len(h))
        new == Append(SubSeq(h, 1, q - 1), id)
    IN  /\ h2 = IF q > max THEN Tail(new) ELSE new
        /\ p2 = IF q > max THEN q - 1 ELSE q
        /\ r2 = DropRefs(AddRef(r, id), IF q > max THEN Append(cut, new[1]) ELSE cut)

LEMMA AddPage ==
    ASSUME NEW h, NEW p, NEW r, PageOk(h, p, r), NEW id \in Id, NEW max \in HistoryLen,
           p # 0 => id # h[p],
           NEW h2, NEW p2, NEW r2, Opened(h, p, r, id, max, h2, p2, r2)
    PROVE  /\ PageOk(h2, p2, r2) /\ DOMAIN r2 \subseteq DOMAIN r \cup {id}
           /\ h2[p2] = id /\ (p # 0 => p2 > 1 /\ h2[p2 - 1] = h[p])
           /\ Len(h2) > Len(h) => Len(h2) <= max
<1>0. PICK q, cut, new, pre, a :
        /\ q = NextPos(h, p, id) /\ cut = SubSeq(h, q, Len(h)) /\ pre = SubSeq(h, 1, q - 1)
        /\ new = Append(pre, id) /\ a = AddRef(r, id)
    OBVIOUS
<1>o. /\ h2 = IF q > max THEN Tail(new) ELSE new
      /\ p2 = IF q > max THEN q - 1 ELSE q
      /\ r2 = DropRefs(a, IF q > max THEN Append(cut, new[1]) ELSE cut)
    BY <1>0 DEF Opened
<1>1. /\ h \in Seq(Id) /\ p \in Nat /\ Counted(r)
      /\ IF h = <<>> THEN p = 0 ELSE p \in 1..Len(h)
      /\ \A i \in 1..Len(h) - 1 : h[i] # h[i + 1]
      /\ \A x \in Range(h) : x \in DOMAIN r /\ r[x] >= Count(x, h)
    BY DEF PageOk, Counted
<1>2. /\ q \in 1..Len(h) + 1 /\ (p = 0 => q = 1 /\ h = <<>>)
      /\ p # 0 => q > 1 /\ h[q - 1] = h[p]
      /\ q > 1 => h[q - 1] # id
    BY <1>0, <1>1, NextPosIs
<1>3. max \in Nat /\ max >= 2 /\ q \in Nat /\ q >= 1 /\ Len(h) \in Nat /\ q <= Len(h) + 1
    <2>1. Len(h) \in Nat
        BY <1>1
    <2>2. max \in Nat /\ max >= 2
        BY HistoryAssumption
    <2> QED BY <1>2, <2>1, <2>2
<1>5. /\ pre \in Seq(Id) /\ cut \in Seq(Id) /\ Len(pre) = q - 1
      /\ \A i \in 1..q - 1 : pre[i] = h[i]
    BY <1>0, <1>1, <1>2, Parts
<1>6. \A x : Count(x, h) = Count(x, pre) + Count(x, cut)
    BY <1>0, <1>1, <1>2, Parts
<1>7. /\ new \in Seq(Id) /\ Len(new) = q /\ new[q] = id /\ new # <<>>
      /\ \A i \in 1..q - 1 : new[i] = h[i]
    <2>1. new = Append(pre, id)
        BY <1>0
    <2> QED BY <1>2, <1>5, <2>1, AppendProperties
<1>8. ASSUME NEW x PROVE Count(x, new) = Count(x, pre) + IF x = id THEN 1 ELSE 0
    <2>1. new = Append(pre, id)
        BY <1>0
    <2>2. Count(x, Append(pre, id)) = Count(x, pre) + IF x = id THEN 1 ELSE 0
        BY <1>5, CountAppend
    <2> QED BY <2>1, <2>2
<1>9. \A i \in 1..q - 1 : new[i] # new[i + 1]
    <2> SUFFICES ASSUME NEW i \in 1..q - 1 PROVE new[i] # new[i + 1]
        OBVIOUS
    <2>1. CASE i = q - 1
        BY <1>2, <1>7, <2>1
    <2>2. CASE i # q - 1
        <3>1. i + 1 \in 1..q - 1 /\ i \in 1..Len(h) - 1
            BY <1>3, <2>2
        <3> QED BY <1>1, <1>7, <3>1
    <2> QED BY <2>1, <2>2
<1>11. /\ Counted(a) /\ DOMAIN a = DOMAIN r \cup {id}
       /\ \A x \in DOMAIN r : x # id => a[x] = r[x]
       /\ a[id] = IF id \in DOMAIN r THEN r[id] + 1 ELSE 1
    <2>1. Added(a, r, id)
        BY <1>0, <1>1, AddRefIs
    <2> QED BY <2>1 DEF Added
<1>12. \A x : Count(x, pre) \in Nat /\ Count(x, cut) \in Nat /\ Count(x, new) \in Nat /\ Count(x, h) \in Nat
    BY <1>1, <1>5, <1>7, CountIs
\* Of each id in the new history, there were references enough.
<1>13. ASSUME NEW x, Count(x, new) # 0
       PROVE  x \in DOMAIN a /\ a[x] \in Nat /\ a[x] >= Count(x, new) + Count(x, cut)
    <2>1. CASE Count(x, h) # 0
        <3>1. x \in DOMAIN r /\ r[x] >= Count(x, h) /\ r[x] \in Nat
            BY <1>1, <2>1, CountIs DEF Counted
        <3>2. CASE x = id
            <4>1. a[x] = r[x] + 1
                BY <1>11, <3>1, <3>2
            <4>2. Count(x, new) = Count(x, pre) + 1 /\ Count(x, h) = Count(x, pre) + Count(x, cut)
                BY <1>6, <1>8, <3>2
            <4> QED BY <1>11, <1>12, <3>1, <4>1, <4>2
        <3>3. CASE x # id
            <4>1. a[x] = r[x]
                BY <1>11, <3>1, <3>3
            <4> QED BY <1>6, <1>8, <1>11, <1>12, <3>1, <3>3, <4>1
        <3> QED BY <3>2, <3>3
    <2>2. CASE Count(x, h) = 0
        <3>1. Count(x, pre) = 0 /\ Count(x, cut) = 0
            BY <1>6, <1>12, <2>2
        <3>2. x = id /\ Count(x, new) = 1
            BY <1>8, <1>13, <3>1
        <3>3. a[x] \in Nat \ {0} /\ x \in DOMAIN a
            BY <1>11, <3>2 DEF Counted
        <3> QED BY <3>1, <3>2, <3>3
    <2> QED BY <2>1, <2>2
<1>14. CASE q > max
    <2>1. h2 = Tail(new) /\ p2 = q - 1 /\ q > 2
        BY <1>3, <1>14, <1>o
    <2>2. /\ h2 \in Seq(Id) /\ Len(h2) = q - 1 /\ \A i \in 1..q - 1 : h2[i] = new[i + 1]
        <3>1. /\ Tail(new) \in Seq(Id) /\ Len(Tail(new)) = Len(new) - 1
              /\ \A i \in 1..Len(Tail(new)) : Tail(new)[i] = new[i + 1]
            BY <1>7, HeadTailProperties
        <3> QED BY <1>3, <1>7, <2>1, <3>1
    <2>3. PICK gone : gone = Append(cut, new[1])
        OBVIOUS
    <2>4. new[1] \in Id
        BY <1>7, <2>1
    <2>5. gone \in Seq(Id)
        BY <1>5, <2>3, <2>4, AppendProperties
    <2>6. ASSUME NEW x PROVE Count(x, new) + Count(x, cut) = Count(x, h2) + Count(x, gone)
        <3>1. Count(x, gone) = Count(x, cut) + IF x = new[1] THEN 1 ELSE 0
            <4>1. Count(x, Append(cut, new[1])) = Count(x, cut) + IF x = new[1] THEN 1 ELSE 0
                BY <1>5, <2>4, CountAppend
            <4> QED BY <2>3, <4>1
        <3>2. Count(x, new) = Count(x, h2) + IF x = new[1] THEN 1 ELSE 0
            <4>1. Count(x, new) = Count(x, Tail(new)) + IF x = new[1] THEN 1 ELSE 0
                BY <1>7, CountTail
            <4> QED BY <2>1, <4>1
        <3>3. Count(x, cut) \in Nat /\ Count(x, h2) \in Nat
            BY <1>5, <2>2, CountIs
        <3> QED BY <3>1, <3>2, <3>3
    <2>6a. \A x : Count(x, h2) # 0 => Count(x, new) # 0
        <3>1. ASSUME NEW x, Count(x, h2) # 0 PROVE Count(x, new) # 0
            <4>1. Count(x, new) = Count(x, Tail(new)) + IF x = new[1] THEN 1 ELSE 0
                BY <1>7, CountTail
            <4>2. Count(x, h2) \in Nat
                BY <2>2, CountIs
            <4> QED BY <2>1, <3>1, <4>1, <4>2
        <3> QED BY <3>1
    <2>7. \A x : Count(x, h2) \in Nat /\ Count(x, gone) \in Nat
        BY <2>2, <2>5, CountIs
    <2>8. r2 = DropRefs(a, gone)
        BY <1>14, <1>o, <2>3
    <2>9. /\ Counted(r2) /\ DOMAIN r2 \subseteq DOMAIN a
          /\ \A x \in DOMAIN a : a[x] - Count(x, gone) > 0 =>
               x \in DOMAIN r2 /\ r2[x] = a[x] - Count(x, gone)
        BY <1>11, <2>5, <2>8, DropRefsIs DEF Dropped
    <2>10. ASSUME NEW x \in Range(h2) PROVE x \in DOMAIN r2 /\ r2[x] >= Count(x, h2)
        <3>1. Count(x, h2) # 0
            BY <2>2, CountIs
        <3>2. Count(x, new) # 0
            BY <2>6a, <3>1
        <3>3. x \in DOMAIN a /\ a[x] \in Nat /\ a[x] >= Count(x, new) + Count(x, cut)
            BY <1>13, <3>2
        <3>4. a[x] >= Count(x, h2) + Count(x, gone)
            <4>1. Count(x, new) + Count(x, cut) = Count(x, h2) + Count(x, gone)
                BY <2>6
            <4> QED BY <3>3, <4>1
        <3>5. a[x] - Count(x, gone) > 0
            <4>1. Count(x, h2) \in Nat /\ Count(x, gone) \in Nat
                BY <2>7
            <4> QED BY <3>1, <3>3, <3>4, <4>1
        <3> QED BY <2>7, <2>9, <3>3, <3>4, <3>5
    <2>11. ASSUME NEW i \in 1..Len(h2) - 1 PROVE h2[i] # h2[i + 1]
        <3>1. i + 1 \in 1..q - 1 /\ i \in 1..q - 1 /\ (i + 1) + 1 \in 1..q
            BY <1>2, <2>2
        <3> QED BY <1>9, <2>2, <3>1
    <2>12. p2 \in 1..Len(h2) /\ h2 # <<>>
        BY <1>3, <2>1, <2>2
    <2>13. PageOk(h2, p2, r2)
        BY <2>2, <2>9, <2>10, <2>11, <2>12 DEF PageOk, Counted
    <2>14. h2[p2] = id /\ h2[p2 - 1] = new[q - 1] /\ p2 > 1
        <3>1. q - 1 \in 1..q - 1 /\ q - 2 \in 1..q - 1 /\ (q - 1) + 1 = q /\ (q - 2) + 1 = q - 1
            BY <1>3, <2>1
        <3>2. p2 - 1 = q - 2
            BY <1>2, <2>1
        <3> QED BY <1>7, <2>1, <2>2, <3>1, <3>2
    <2>15. p # 0 => h2[p2 - 1] = h[p]
        <3>1. q - 1 \in 1..q - 1
            BY <1>2, <2>1
        <3> QED BY <1>2, <1>7, <2>14, <3>1
    <2>16. ~(Len(h2) > Len(h))
        BY <1>2, <2>2
    <2> QED BY <1>11, <2>9, <2>13, <2>14, <2>15, <2>16
<1>15. CASE ~(q > max)
    <2>1. h2 = new /\ p2 = q
        BY <1>15, <1>o
    <2>8. r2 = DropRefs(a, cut)
        BY <1>15, <1>o
    <2>9. /\ Counted(r2) /\ DOMAIN r2 \subseteq DOMAIN a
          /\ \A x \in DOMAIN a : a[x] - Count(x, cut) > 0 =>
               x \in DOMAIN r2 /\ r2[x] = a[x] - Count(x, cut)
        BY <1>5, <1>11, <2>8, DropRefsIs DEF Dropped
    <2>10. ASSUME NEW x \in Range(h2) PROVE x \in DOMAIN r2 /\ r2[x] >= Count(x, h2)
        <3>1. Count(x, new) # 0
            BY <1>7, <2>1, CountIs
        <3>2. x \in DOMAIN a /\ a[x] \in Nat /\ a[x] >= Count(x, new) + Count(x, cut)
            BY <1>13, <3>1
        <3>3. Count(x, cut) \in Nat /\ Count(x, new) \in Nat
            BY <1>12
        <3>4. a[x] - Count(x, cut) > 0
            BY <3>1, <3>2, <3>3
        <3> QED BY <2>1, <2>9, <3>2, <3>3, <3>4
    <2>11. \A i \in 1..Len(h2) - 1 : h2[i] # h2[i + 1]
        BY <1>7, <1>9, <2>1
    <2>12. p2 \in 1..Len(h2) /\ h2 # <<>>
        BY <1>2, <1>7, <2>1
    <2>13. PageOk(h2, p2, r2)
        BY <1>7, <2>1, <2>9, <2>10, <2>11, <2>12 DEF PageOk, Counted
    <2>14. h2[p2] = id /\ (p # 0 => p2 > 1 /\ h2[p2 - 1] = h[p])
        <3>1. p # 0 => q - 1 \in 1..q - 1
            BY <1>2
        <3> QED BY <1>2, <1>7, <2>1, <3>1
    <2>15. Len(h2) <= max
        BY <1>2, <1>3, <1>7, <1>15, <2>1
    <2> QED BY <1>11, <2>9, <2>13, <2>14, <2>15
<1> QED BY <1>14, <1>15

\* What is left of a sequence when some of its elements next to each other go:
\* the rest, in order.
CutOut(g, h, a, n) ==
    /\ g \in Seq(Id) /\ Len(g) = Len(h) - n
    /\ \A i \in 1..a - 1 : g[i] = h[i]
    /\ \A i \in a..Len(h) - n : g[i] = h[i + n]

Left(h, a, n) == SubSeq(h, 1, a - 1) \o SubSeq(h, a + n, Len(h))

LEMMA CutOutIs ==
    ASSUME NEW h \in Seq(Id), NEW a \in 1..Len(h), NEW n \in {1, 2}, a + n - 1 <= Len(h),
           NEW g, g = Left(h, a, n)
    PROVE  CutOut(g, h, a, n) /\ \A x : Count(x, g) <= Count(x, h)
<1>0. Len(h) \in Nat /\ a \in Nat /\ n \in Nat /\ a >= 1 /\ n >= 1
    OBVIOUS
<1>1. PICK b, d, m : b = SubSeq(h, 1, a - 1) /\ d = SubSeq(h, a + n, Len(h)) /\ m = SubSeq(h, a, Len(h))
    OBVIOUS
<1>2. /\ b \in Seq(Id) /\ m \in Seq(Id) /\ Len(b) = a - 1 /\ \A i \in 1..a - 1 : b[i] = h[i]
      /\ \A x : Count(x, h) = Count(x, b) + Count(x, m)
    <2>1. a \in 1..Len(h) + 1
        BY <1>0
    <2> QED BY <1>1, <2>1, Parts
<1>3. /\ d \in Seq(Id) /\ Len(d) = Len(h) - (a + n) + 1
      /\ \A i \in 1..Len(h) - (a + n) + 1 : d[i] = h[(a + n) + i - 1]
    <2>1. a + n \in 1..Len(h) + 1
        BY <1>0
    <2> QED BY <1>1, <2>1, Parts
<1>4. \A x : Count(x, d) <= Count(x, m)
    <2>1. PICK k : k = SubSeq(h, a, a + n - 1)
        OBVIOUS
    <2>2. k \in Seq(Id)
        <3>1. \A i \in a..a + n - 1 : h[i] \in Id
            BY <1>0
        <3>2. a \in Int /\ a + n - 1 \in Int
            BY <1>0
        <3> QED BY <2>1, <3>1, <3>2, SubSeqProperties
    <2>3. k \o d = m
        <3>1. /\ a \in 1..Len(h) + 1 /\ a + n - 1 \in a - 1..Len(h)
              /\ Len(h) \in a + n - 1..Len(h) /\ (a + n - 1) + 1 = a + n
            BY <1>0
        <3>2. SubSeq(h, a, a + n - 1) \o SubSeq(h, (a + n - 1) + 1, Len(h)) = SubSeq(h, a, Len(h))
            BY <3>1, ConcatAdjacentSubSeq
        <3> QED BY <1>1, <2>1, <3>1, <3>2
    <2>4. ASSUME NEW x PROVE Count(x, d) <= Count(x, m)
        <3>1. Count(x, k \o d) = Count(x, k) + Count(x, d)
            BY <1>3, <2>2, CountConcat
        <3>2. Count(x, k) \in Nat /\ Count(x, d) \in Nat
            BY <1>3, <2>2, CountIs
        <3> QED BY <2>3, <3>1, <3>2
    <2> QED BY <2>4
<1>5. g = b \o d
    BY <1>1 DEF Left
<1>6. /\ g \in Seq(Id) /\ Len(g) = Len(b) + Len(d)
      /\ \A i \in 1..Len(b) + Len(d) : g[i] = IF i <= Len(b) THEN b[i] ELSE d[i - Len(b)]
    <2>1. /\ b \o d \in Seq(Id) /\ Len(b \o d) = Len(b) + Len(d)
          /\ \A i \in 1..Len(b) + Len(d) : (b \o d)[i] = IF i <= Len(b) THEN b[i] ELSE d[i - Len(b)]
        BY <1>2, <1>3, ConcatProperties
    <2> QED BY <1>5, <2>1
<1>7. Len(g) = Len(h) - n
    BY <1>0, <1>2, <1>3, <1>6
<1>8. ASSUME NEW i \in 1..a - 1 PROVE g[i] = h[i]
    <2>1. i \in 1..Len(b) + Len(d) /\ i <= Len(b)
        BY <1>0, <1>2, <1>3
    <2> QED BY <1>2, <1>6, <2>1
<1>9. ASSUME NEW i \in a..Len(h) - n PROVE g[i] = h[i + n]
    <2>1. i \in 1..Len(b) + Len(d) /\ ~(i <= Len(b)) /\ i - Len(b) = i - a + 1
        BY <1>0, <1>2, <1>3
    <2>2. g[i] = d[i - a + 1]
        BY <1>6, <2>1
    <2>3. i - a + 1 \in 1..Len(h) - (a + n) + 1 /\ (a + n) + (i - a + 1) - 1 = i + n
        BY <1>0
    <2> QED BY <1>3, <2>2, <2>3
<1>10. ASSUME NEW x PROVE Count(x, g) <= Count(x, h)
    <2>1. Count(x, g) = Count(x, b) + Count(x, d)
        BY <1>2, <1>3, <1>5, CountConcat
    <2>2. Count(x, b) \in Nat /\ Count(x, d) \in Nat /\ Count(x, m) \in Nat
        BY <1>2, <1>3, CountIs
    <2>3. Count(x, h) = Count(x, b) + Count(x, m) /\ Count(x, d) <= Count(x, m)
        BY <1>2, <1>4
    <2> QED BY <2>1, <2>2, <2>3
<1> QED BY <1>6, <1>7, <1>8, <1>9, <1>10 DEF CutOut

\* How far discardThread is when it has looked at the entries from a on: none of
\* them is the id's; no id is there more often than it was in h.
Done(s, a, id, h) ==
    /\ s.h \in Seq(Id) /\ Len(s.h) >= a - 1 /\ Len(s.h) <= Len(h)
    /\ IF s.h = <<>> THEN s.p = 0 ELSE s.p \in 1..Len(s.h)
    /\ \A i \in 1..Len(s.h) - 1 : s.h[i] # s.h[i + 1]
    /\ \A i \in a..Len(s.h) : s.h[i] # id
    /\ \A x : Count(x, s.h) <= Count(x, h)

LEMMA DiscardAtDone ==
    ASSUME NEW h \in Seq(Id), NEW id, NEW a \in Nat \ {0}, NEW s, Done(s, a + 1, id, h)
    PROVE  Done(DiscardAt(s, a, id), a, id, h)
<1>1. PICK g, p : g = s.h /\ p = s.p
    OBVIOUS
<1>2. /\ g \in Seq(Id) /\ Len(g) \in Nat /\ Len(g) >= a /\ Len(g) <= Len(h) /\ Len(h) \in Nat
      /\ p \in 1..Len(g) /\ g # <<>>
      /\ \A i \in 1..Len(g) - 1 : g[i] # g[i + 1]
      /\ \A i \in a + 1..Len(g) : g[i] # id
      /\ \A x : Count(x, g) <= Count(x, h)
    BY <1>1 DEF Done
<1>3. CASE g[a] # id
    <2>1. DiscardAt(s, a, id) = s
        BY <1>1, <1>3 DEF DiscardAt
    <2>2. \A i \in a..Len(g) : g[i] # id
        <3>1. \A i \in a..Len(g) : i = a \/ i \in a + 1..Len(g)
            BY <1>2
        <3> QED BY <1>2, <1>3, <3>1
    <2> QED BY <1>1, <1>2, <2>1, <2>2 DEF Done
<1>4. CASE g[a] = id
    <2>1. PICK n : n = IF a > 1 /\ a < Len(g) /\ g[a - 1] = g[a + 1] THEN 2 ELSE 1
        OBVIOUS
    <2>2. PICK e : e = Left(g, a, n)
        OBVIOUS
    <2>3. PICK q : q = IF p = a THEN a - 1 ELSE IF p > a THEN p - n ELSE p
        OBVIOUS
    <2>4. PICK z : z = IF q < 1 /\ e # <<>> THEN 1 ELSE q
        OBVIOUS
    <2>5. DiscardAt(s, a, id) = [h |-> e, p |-> z]
        BY <1>1, <1>4, <2>1, <2>2, <2>3, <2>4 DEF DiscardAt, Left
    <2>6. n \in {1, 2} /\ a \in 1..Len(g) /\ a + n - 1 <= Len(g)
        BY <1>2, <2>1
    <2>7a. CutOut(e, g, a, n) /\ \A x : Count(x, e) <= Count(x, g)
        BY <1>2, <2>2, <2>6, CutOutIs
    <2>7. /\ e \in Seq(Id) /\ Len(e) = Len(g) - n
          /\ \A i \in 1..a - 1 : e[i] = g[i]
          /\ \A i \in a..Len(g) - n : e[i] = g[i + n]
          /\ \A x : Count(x, e) <= Count(x, g)
        BY <2>7a DEF CutOut
    <2>8. \A x : Count(x, e) <= Count(x, h)
        <3>1. \A x : Count(x, e) \in Nat /\ Count(x, g) \in Nat /\ Count(x, h) \in Nat
            BY <1>2, <2>7, CountIs
        <3> QED BY <1>2, <2>7, <3>1
    <2>9. Len(e) >= a - 1 /\ Len(e) \in Nat /\ Len(e) <= Len(h)
        BY <1>2, <2>6, <2>7
    <2>10. ASSUME NEW i \in a..Len(e) PROVE e[i] # id
        <3>1. i \in a..Len(g) - n /\ i + n \in a + 1..Len(g)
            BY <1>2, <2>6, <2>7
        <3> QED BY <1>2, <2>7, <3>1
    <2>11. ASSUME NEW i \in 1..Len(e) - 1 PROVE e[i] # e[i + 1]
        <3>1. CASE i + 1 <= a - 1
            <4>1. i \in 1..a - 1 /\ i + 1 \in 1..a - 1 /\ i \in 1..Len(g) - 1
                BY <1>2, <2>6, <2>7, <3>1
            <4> QED BY <1>2, <2>7, <4>1
        <3>2. CASE i >= a
            <4>1. /\ i \in a..Len(g) - n /\ i + 1 \in a..Len(g) - n
                  /\ i + n \in 1..Len(g) - 1 /\ (i + 1) + n = (i + n) + 1
                BY <1>2, <2>6, <2>7, <3>2
            <4> QED BY <1>2, <2>7, <4>1
        <3>3. CASE i = a - 1
            <4>1. /\ i \in 1..a - 1 /\ i + 1 = a /\ a \in a..Len(g) - n /\ a > 1 /\ a < Len(g)
                  /\ i \in 1..Len(g) - 1
                BY <1>2, <2>6, <2>7, <3>3
            <4>2. e[i] = g[a - 1] /\ e[i + 1] = g[a + n]
                BY <2>7, <3>3, <4>1
            <4>3. CASE n = 1
                BY <2>1, <4>1, <4>2, <4>3
            <4>4. CASE n = 2
                <5>1. g[a - 1] = g[a + 1] /\ a + 1 \in 1..Len(g) - 1 /\ (a + 1) + 1 = a + 2
                    BY <1>2, <2>1, <2>6, <4>1, <4>4
                <5> QED BY <1>2, <4>2, <4>4, <5>1
            <4> QED BY <2>6, <4>3, <4>4
        <3> QED BY <1>2, <2>6, <2>7, <3>1, <3>2, <3>3
    <2>12. e # <<>> <=> Len(e) # 0
        BY <2>7
    <2>13. IF e = <<>> THEN z = 0 ELSE z \in 1..Len(e)
        <3>1. q \in Nat /\ q <= Len(e)
            <4>1. CASE p = a
                BY <2>3, <2>9, <4>1
            <4>2. CASE p > a
                <5>1. q = p - n
                    BY <1>2, <2>3, <4>2
                <5>2. p \in Nat /\ p <= Len(g)
                    BY <1>2
                <5> QED BY <2>6, <2>7, <4>2, <5>1, <5>2
            <4>3. CASE p < a
                BY <1>2, <2>3, <2>9, <4>3
            <4> QED BY <1>2, <4>1, <4>2, <4>3
        <3> QED BY <2>4, <2>9, <2>12, <3>1
    <2>14. [h |-> e, p |-> z].h = e /\ [h |-> e, p |-> z].p = z
        OBVIOUS
    <2>15. PICK w : w = [h |-> e, p |-> z]
        OBVIOUS
    <2>16. Done(w, a, id, h)
        BY <2>7, <2>8, <2>9, <2>10, <2>11, <2>13, <2>14, <2>15 DEF Done
    <2> QED BY <2>5, <2>15, <2>16
<1> QED BY <1>3, <1>4

\* What holds at 0 and passes from each number to the next holds at all of them.
LEMMA LeastIs ==
    ASSUME NEW S \in SUBSET Nat, S # {}
    PROVE  \E m \in S : \A k \in S : m <= k
<1> DEFINE R == OpToRel(<, Nat)
<1>1. IsWellFoundedOn(R, Nat)
    BY NatLessThanWellFounded
<1>2. \A x, y \in Nat : <<x, y>> \in R <=> x < y
    BY DEF OpToRel
<1> HIDE DEF R
<1>3. PICK m \in S : \A k \in S : ~(<<k, m>> \in R)
    BY <1>1, WFMin
<1>4. ASSUME NEW k \in S PROVE m <= k
    <2>1. m \in Nat /\ k \in Nat /\ ~(k < m)
        BY <1>2, <1>3
    <2> QED BY <2>1
<1> QED BY <1>4

LEMMA Along ==
    ASSUME NEW n \in Nat, NEW P, 0 \in P, \A i \in 1..n : i - 1 \in P => i \in P
    PROVE  \A i \in 0..n : i \in P
<1> DEFINE S == {k \in 0..n : k \notin P}
<1> SUFFICES ASSUME S # {} PROVE FALSE
    OBVIOUS
<1>1. S \in SUBSET Nat
    OBVIOUS
<1>2. PICK k \in S : \A j \in S : k <= j
    BY <1>1, LeastIs
<1>3. k \in 1..n /\ k - 1 \in 0..n /\ ~(k <= k - 1)
    OBVIOUS
<1>4. k - 1 \notin S
    BY <1>2, <1>3
<1> QED BY <1>3, <1>4

\* The loop of discardThread, from the end of the history, n long, down to b.
Loop(f, b, n, s, id) ==
    f = [a \in b..n + 1 |-> IF a > n THEN s ELSE DiscardAt(f[a + 1], a, id)]

LEMMA LoopExists ==
    ASSUME NEW n \in Nat, NEW s, NEW id
    PROVE  \E f : Loop(f, 1, n, s, id)
<1> DEFINE P == {j \in 0..n : \E f : Loop(f, n + 1 - j, n, s, id)}
<1>1. 0 \in P
    <2>1. PICK f : f = [a \in n + 1..n + 1 |-> s]
        OBVIOUS
    <2> DEFINE val(a) == IF a > n THEN s ELSE DiscardAt(f[a + 1], a, id)
    <2>2. \A a \in n + 1..n + 1 : val(a) = s
        OBVIOUS
    <2>3. f = [a \in n + 1..n + 1 |-> val(a)]
        <3> HIDE DEF val
        <3> QED BY <2>1, <2>2
    <2>4. Loop(f, n + 1, n, s, id)
        BY <2>3 DEF Loop
    <2>5. n + 1 - 0 = n + 1 /\ 0 \in 0..n
        OBVIOUS
    <2> QED BY <2>4, <2>5
<1>2. ASSUME NEW j \in 1..n, j - 1 \in P PROVE j \in P
    <2>1. PICK b : b = n + 1 - j
        OBVIOUS
    <2>2. b \in 1..n /\ n + 1 - (j - 1) = b + 1
        BY <2>1
    <2>3. PICK f : Loop(f, b + 1, n, s, id)
        BY <1>2, <2>2
    <2> DEFINE val(a) == IF a > n THEN s ELSE DiscardAt(f[a + 1], a, id)
    <2>4. PICK g : g = [a \in b..n + 1 |-> val(a)]
        OBVIOUS
    <2>5. f = [a \in b + 1..n + 1 |-> val(a)]
        BY <2>3 DEF Loop
    <2> DEFINE new(a) == IF a > n THEN s ELSE DiscardAt(g[a + 1], a, id)
    <2>6. \A a \in b + 1..n + 1 : g[a] = f[a]
        <3> HIDE DEF val
        <3>1. \A a \in b + 1..n + 1 : a \in b..n + 1
            BY <2>2
        <3> QED BY <2>4, <2>5, <3>1
    <2>7. ASSUME NEW a \in b..n + 1 PROVE val(a) = new(a)
        <3>1. CASE a > n
            BY <3>1
        <3>2. CASE ~(a > n)
            <4>1. a + 1 \in b + 1..n + 1
                BY <2>2, <3>2
            <4>2. g[a + 1] = f[a + 1]
                BY <2>6, <4>1
            <4> QED BY <3>2, <4>2
        <3> QED BY <3>1, <3>2
    <2>8. g = [a \in b..n + 1 |-> new(a)]
        <3> HIDE DEF val, new
        <3> QED BY <2>4, <2>7
    <2>9. Loop(g, b, n, s, id)
        BY <2>8 DEF Loop
    <2>10. j \in 0..n
        OBVIOUS
    <2> QED BY <2>1, <2>9, <2>10
<1> HIDE DEF P
<1>3. \A j \in 0..n : j \in P
    <2>1. \A i \in 1..n : i - 1 \in P => i \in P
        BY <1>2
    <2> QED BY <1>1, <2>1, Along
<1>4. n \in P
    BY <1>3
<1>5. n + 1 - n = 1
    OBVIOUS
<1> QED BY <1>4, <1>5 DEF P

LEMMA DiscardPage ==
    ASSUME NEW h, NEW p, NEW r, PageOk(h, p, r), NEW id, id \in DOMAIN r,
           NEW f, f = CHOOSE g : Loop(g, 1, Len(h), [h |-> h, p |-> p], id),
           NEW r2, r2 = Without(r, {id})
    PROVE  /\ PageOk(f[1].h, f[1].p, r2) /\ DOMAIN r2 \subseteq DOMAIN r
           /\ id \notin Range(f[1].h) /\ Len(f[1].h) <= Len(h)
<1>1. PICK n \in Nat : n = Len(h)
    BY DEF PageOk
<1>2. PICK s : s = [h |-> h, p |-> p]
    OBVIOUS
<1>3. Loop(f, 1, n, s, id)
    BY <1>1, <1>2, LoopExists
<1>4. h \in Seq(Id) /\ s.h = h /\ s.p = p
    BY <1>2 DEF PageOk
<1> DEFINE val(a) == IF a > n THEN s ELSE DiscardAt(f[a + 1], a, id)
<1>5. \A a \in 1..n + 1 : f[a] = val(a)
    <2>1. f = [a \in 1..n + 1 |-> val(a)]
        BY <1>3 DEF Loop
    <2> HIDE DEF val
    <2> QED BY <2>1
<1>6. f[n + 1] = s
    <2>1. n + 1 \in 1..n + 1 /\ n + 1 > n
        OBVIOUS
    <2> QED BY <1>5, <2>1
<1>7. \A a \in 1..n : f[a] = DiscardAt(f[a + 1], a, id)
    <2>1. \A a \in 1..n : a \in 1..n + 1 /\ ~(a > n)
        OBVIOUS
    <2> QED BY <1>5, <2>1
<1> HIDE DEF val
<1> DEFINE P == {j \in 0..n : Done(f[n + 1 - j], n + 1 - j, id, h)}
<1>8. 0 \in P
    <2>1. \A i \in n + 1..Len(h) : FALSE
        BY <1>1
    <2>2. \A x : Count(x, h) <= Count(x, h)
        <3>1. \A x : Count(x, h) \in Nat
            BY <1>4, CountIs
        <3> QED BY <3>1
    <2>3. Done(s, n + 1, id, h)
        BY <1>1, <1>4, <2>1, <2>2 DEF Done, PageOk
    <2>4. n + 1 - 0 = n + 1 /\ 0 \in 0..n
        OBVIOUS
    <2> QED BY <1>6, <2>3, <2>4
<1>9. ASSUME NEW j \in 1..n, j - 1 \in P PROVE j \in P
    <2>1. PICK a : a = n + 1 - j
        OBVIOUS
    <2>2. a \in 1..n /\ a \in Nat \ {0} /\ n + 1 - (j - 1) = a + 1 /\ j \in 0..n
        BY <2>1
    <2>3. Done(f[a + 1], a + 1, id, h)
        BY <1>9, <2>2
    <2>4. Done(DiscardAt(f[a + 1], a, id), a, id, h)
        BY <1>4, <2>2, <2>3, DiscardAtDone
    <2> QED BY <1>7, <2>1, <2>2, <2>4
<1> HIDE DEF P
<1>10. n \in P
    <2>1. \A i \in 1..n : i - 1 \in P => i \in P
        BY <1>9
    <2>2. \A j \in 0..n : j \in P
        BY <1>8, <2>1, Along
    <2> QED BY <2>2
<1>11. PICK g, q : g = f[1].h /\ q = f[1].p
    OBVIOUS
<1>12. /\ g \in Seq(Id) /\ Len(g) <= Len(h) /\ (IF g = <<>> THEN q = 0 ELSE q \in 1..Len(g))
       /\ \A i \in 1..Len(g) - 1 : g[i] # g[i + 1]
       /\ \A i \in 1..Len(g) : g[i] # id
       /\ \A x : Count(x, g) <= Count(x, h)
    <2>1. n + 1 - n = 1
        OBVIOUS
    <2> QED BY <1>10, <1>11, <2>1 DEF P, Done
<1>13. id \notin Range(g)
    BY <1>12 DEF Range
<1>14. r2 \in [DOMAIN r2 -> Nat \ {0}] /\ DOMAIN r2 = DOMAIN r \ {id} /\ \A x \in DOMAIN r2 : r2[x] = r[x]
    BY DEF Without, PageOk
<1>15. ASSUME NEW x \in Range(g) PROVE x \in DOMAIN r2 /\ r2[x] >= Count(x, g)
    <2>1. Count(x, g) # 0 /\ Count(x, g) \in Nat /\ Count(x, h) \in Nat /\ Count(x, g) <= Count(x, h)
        BY <1>4, <1>12, <1>15, CountIs
    <2>2. x \in Range(h)
        <3>1. Count(x, h) # 0
            BY <2>1
        <3> QED BY <1>4, <3>1, CountIs
    <2>3. x \in DOMAIN r /\ r[x] >= Count(x, h) /\ r[x] \in Nat
        BY <2>2 DEF PageOk
    <2>4. x \in DOMAIN r2 /\ r2[x] = r[x]
        BY <1>13, <1>14, <1>15, <2>3
    <2> QED BY <2>1, <2>3, <2>4
<1>16. PageOk(g, q, r2)
    BY <1>12, <1>14, <1>15 DEF PageOk
<1> QED BY <1>11, <1>12, <1>13, <1>14, <1>16

LEMMA RenamePage ==
    ASSUME NEW h, NEW p, NEW r, PageOk(h, p, r), NEW t \in Topic,
           LocalId(t) \in DOMAIN r, MsgId(t) \notin DOMAIN r,
           NEW h2, h2 = [i \in DOMAIN h |-> IF h[i] = LocalId(t) THEN MsgId(t) ELSE h[i]],
           NEW r2, r2 = Renamed(r, LocalId(t), MsgId(t))
    PROVE  /\ PageOk(h2, p, r2) /\ DOMAIN r2 \subseteq DOMAIN r \cup {MsgId(t)}
           /\ LocalId(t) \notin Range(h2) /\ Len(h2) = Len(h)
<1>1. PICK old, new : old = LocalId(t) /\ new = MsgId(t)
    OBVIOUS
<1>2. old \in Id /\ new \in Id /\ old # new
    BY <1>1 DEF Id, LocalId, MsgId
<1>3. /\ h \in Seq(Id) /\ r \in [DOMAIN r -> Nat \ {0}]
      /\ IF h = <<>> THEN p = 0 ELSE p \in 1..Len(h)
      /\ \A id \in Range(h) : id \in DOMAIN r /\ r[id] >= Count(id, h)
      /\ \A i \in 1..Len(h) - 1 : h[i] # h[i + 1]
    BY DEF PageOk
<1>4. old \in DOMAIN r /\ new \notin DOMAIN r
    BY <1>1
<1>5. DOMAIN h = 1..Len(h) /\ Len(h) \in Nat /\ \A i \in 1..Len(h) : h[i] \in Range(h) /\ h[i] \in Id
    BY <1>3 DEF Range
<1>6. \A i \in 1..Len(h) : h[i] # new
    BY <1>3, <1>4, <1>5
<1>7. h2 = [i \in 1..Len(h) |-> IF h[i] = old THEN new ELSE h[i]]
    BY <1>1, <1>5
<1>8. h2 \in Seq(Id) /\ Len(h2) = Len(h) /\ \A i \in 1..Len(h) : h2[i] = IF h[i] = old THEN new ELSE h[i]
    BY <1>2, <1>5, <1>7
<1>9. r2 = [x \in {new} \cup (DOMAIN r \ {old}) |-> IF x = new THEN r[old] ELSE r[x]]
    <2>1. r2 = [x \in (DOMAIN r \cup {new}) \ {old} |-> IF x = new THEN r[old] ELSE r[x]]
        BY <1>1 DEF Renamed
    <2>2. (DOMAIN r \cup {new}) \ {old} = {new} \cup (DOMAIN r \ {old})
        BY <1>2
    <2> QED BY <2>1, <2>2
<1>10. /\ r2 \in [DOMAIN r2 -> Nat \ {0}] /\ DOMAIN r2 = {new} \cup (DOMAIN r \ {old})
       /\ r2[new] = r[old] /\ \A x \in DOMAIN r \ {old} : r2[x] = r[x]
    BY <1>3, <1>4, <1>9
<1>11. old \notin Range(h2)
    BY <1>2, <1>8 DEF Range
<1>12. ASSUME NEW x \in Range(h2) PROVE x \in DOMAIN r2 /\ r2[x] >= Count(x, h2)
    <2>1. PICK i \in 1..Len(h) : h2[i] = x
        BY <1>8 DEF Range
    <2>2. DOMAIN h2 = 1..Len(h)
        BY <1>7
    <2>3. CASE x = new
        <3>1. h[i] = old
            BY <1>6, <1>8, <2>1, <2>3
        <3>2. {j \in DOMAIN h2 : h2[j] = new} = {j \in DOMAIN h : h[j] = old}
            BY <1>5, <1>6, <1>8, <2>2
        <3>3. Count(new, h2) = Count(old, h)
            BY <3>2 DEF Count
        <3>4. r[old] >= Count(old, h)
            BY <1>3, <1>5, <3>1
        <3> QED BY <1>10, <2>3, <3>3, <3>4
    <2>4. CASE x # new
        <3>1. h[i] = x /\ x # old
            BY <1>8, <1>11, <2>1, <2>4
        <3>2. {j \in DOMAIN h2 : h2[j] = x} = {j \in DOMAIN h : h[j] = x}
            BY <1>5, <1>8, <2>2, <2>4, <3>1
        <3>3. Count(x, h2) = Count(x, h)
            BY <3>2 DEF Count
        <3>4. x \in DOMAIN r /\ r[x] >= Count(x, h)
            BY <1>3, <1>5, <3>1
        <3> QED BY <1>10, <3>1, <3>3, <3>4
    <2> QED BY <2>3, <2>4
<1>13. ASSUME NEW i \in 1..Len(h2) - 1 PROVE h2[i] # h2[i + 1]
    <2>1. i \in 1..Len(h) /\ i + 1 \in 1..Len(h) /\ h[i] # h[i + 1]
        BY <1>3, <1>5, <1>8
    <2> QED BY <1>6, <1>8, <2>1
<1>14. IF h2 = <<>> THEN p = 0 ELSE p \in 1..Len(h2)
    BY <1>3, <1>8
<1>15. PageOk(h2, p, r2)
    BY <1>8, <1>10, <1>12, <1>13, <1>14 DEF PageOk
<1> QED BY <1>1, <1>8, <1>10, <1>11, <1>15

\* What a step does to one client's page.
Becomes(c, h, p, r) ==
    /\ PageOk(h, p, r)
    /\ hist' = [hist EXCEPT ![c] = h] /\ hpos' = [hpos EXCEPT ![c] = p]
    /\ refs' = [refs EXCEPT ![c] = r]
    /\ Len(h) > Len(hist[c]) => Len(h) <= hmax[c]

\* May the page of c learn of id now?
NameOk(c, id) == \A t \in Topic : id = MsgId(t) =>
    place[t] = "sent" /\ \A k \in calls : Renames(k, t) => ~Awaits(k, c)

Grows == \A c \in Client : Len(hist'[c]) > Len(hist[c]) => Len(hist'[c]) <= hmax[c]

Places == [Topic -> {"absent", "draft", "sent", "gone"}]
StaysSent == place' \in Places /\ \A t \in Topic : place[t] = "sent" => place'[t] = "sent"

LEMMA PageNow ==
    ASSUME HistInv, NEW c \in Client
    PROVE  /\ PageOk(hist[c], hpos[c], refs[c]) /\ hist[c] \in Seq(Id) /\ Len(hist[c]) \in Nat
           /\ hpos[c] \in Nat /\ (hist[c] = <<>> <=> hpos[c] = 0)
           /\ hpos[c] # 0 => hpos[c] \in 1..Len(hist[c]) /\ Current(c) = hist[c][hpos[c]]
           /\ hpos[c] # 0 => Current(c) \in Id /\ Current(c) \in DOMAIN refs[c]
           /\ hist = [hist EXCEPT ![c] = hist[c]] /\ hpos = [hpos EXCEPT ![c] = hpos[c]]
           /\ refs = [refs EXCEPT ![c] = refs[c]]
           /\ hmax[c] \in HistoryLen
<1>1. PageOk(hist[c], hpos[c], refs[c]) /\ hmax[c] \in HistoryLen
    BY DEF HistInv
<1>2. /\ hist[c] \in Seq(Id) /\ IF hist[c] = <<>> THEN hpos[c] = 0 ELSE hpos[c] \in 1..Len(hist[c])
      /\ \A id \in Range(hist[c]) : id \in DOMAIN refs[c]
    BY <1>1 DEF PageOk
<1>3. hist[c] = <<>> <=> Len(hist[c]) = 0
    BY <1>2
<1>4. hpos[c] # 0 => Current(c) \in Range(hist[c]) /\ Current(c) = hist[c][hpos[c]] /\ Current(c) \in Id
    BY <1>2 DEF Current, Range
<1>5. /\ hist \in [Client -> Seq(Id)] /\ hpos \in [Client -> Nat]
      /\ refs = [d \in Client |-> refs[d]]
    BY DEF HistInv
<1>6. /\ hist = [hist EXCEPT ![c] = hist[c]] /\ hpos = [hpos EXCEPT ![c] = hpos[c]]
      /\ refs = [refs EXCEPT ![c] = refs[c]]
    BY <1>5
<1> QED BY <1>1, <1>2, <1>3, <1>4, <1>6

\* A step that changes one page at most.
LEMMA PageStep ==
    ASSUME HistInv, NEW c \in Client, NEW h, NEW p, NEW r, Becomes(c, h, p, r),
           place' \in Places, hmax' \in [Client -> HistoryLen], online' \subseteq Client,
           CallsInv', NamedInv'
    PROVE  HistInv' /\ Grows
<1>1. /\ hist \in [Client -> Seq(Id)] /\ hpos \in [Client -> Nat]
      /\ refs = [d \in Client |-> refs[d]]
      /\ \A d \in Client : PageOk(hist[d], hpos[d], refs[d])
    BY DEF HistInv
<1>2. PageOk(h, p, r) /\ (Len(h) > Len(hist[c]) => Len(h) <= hmax[c])
    BY DEF Becomes
<1>3. h \in Seq(Id) /\ p \in Nat
    BY <1>2 DEF PageOk
<1>4. hist' = [hist EXCEPT ![c] = h] /\ hpos' = [hpos EXCEPT ![c] = p] /\ refs' = [refs EXCEPT ![c] = r]
    BY DEF Becomes
<1>5. /\ hist' \in [Client -> Seq(Id)] /\ hpos' \in [Client -> Nat]
      /\ refs' = [d \in Client |-> refs'[d]]
    BY <1>1, <1>3, <1>4
<1>6. ASSUME NEW d \in Client
      PROVE  PageOk(hist'[d], hpos'[d], refs'[d]) /\ (Len(hist'[d]) > Len(hist[d]) => Len(hist'[d]) <= hmax[d])
    <2>1. CASE d = c
        <3>1. hist'[d] = h /\ hpos'[d] = p /\ refs'[d] = r
            BY <1>1, <1>4, <2>1
        <3> QED BY <1>2, <2>1, <3>1
    <2>2. CASE d # c
        <3>1. hist'[d] = hist[d] /\ hpos'[d] = hpos[d] /\ refs'[d] = refs[d]
            BY <1>1, <1>4, <2>2
        <3>2. hist[d] \in Seq(Id)
            BY <1>1
        <3> QED BY <1>1, <3>1, <3>2
    <2> QED BY <2>1, <2>2
<1>7. HistInv'
    BY <1>5, <1>6 DEF HistInv, Places
<1> QED BY <1>6, <1>7 DEF Grows

LEMMA PageStays ==
    ASSUME HistInv, UNCHANGED <<hist, hpos, refs>>,
           place' \in Places, hmax' \in [Client -> HistoryLen], online' \subseteq Client,
           CallsInv', NamedInv'
    PROVE  HistInv' /\ Grows
<1>1. HistInv'
    BY DEF HistInv, Places
<1>2. \A c \in Client : Len(hist[c]) \in Nat
    BY DEF HistInv
<1> QED BY <1>1, <1>2 DEF Grows

\* The handlers stay as they are, and no thread is unsent.
LEMMA CallsStay ==
    ASSUME HistInv, calls' = calls, StaysSent
    PROVE  CallsInv'
<1>1. CallsInv
    BY DEF HistInv
<1>2. \A k, t : Renames(k, t)' <=> Renames(k, t)
    BY DEF Renames
<1> QED BY <1>1, <1>2 DEF CallsInv, StaysSent, Renames

LEMMA NamesStay ==
    ASSUME HistInv, calls' = calls, StaysSent, refs' = refs
    PROVE  NamedInv'
<1>1. NamedInv
    BY DEF HistInv
<1> QED BY <1>1 DEF NamedInv, StaysSent, Renames, Awaits

LEMMA NamesGrow ==
    ASSUME HistInv, calls' = calls, StaysSent, NEW c \in Client, NEW r, refs' = [refs EXCEPT ![c] = r],
           \A x \in DOMAIN r : x \in DOMAIN refs[c] \/ NameOk(c, x)
    PROVE  NamedInv'
<1>1. NamedInv /\ refs = [d \in Client |-> refs[d]]
    BY DEF HistInv
<1>2. SUFFICES ASSUME NEW d \in Client, NEW t \in Topic, MsgId(t) \in DOMAIN refs'[d]
               PROVE  place'[t] = "sent" /\ \A k \in calls : Renames(k, t) => ~Awaits(k, d)
    BY DEF NamedInv, Renames, Awaits
<1>3. place[t] = "sent" /\ \A k \in calls : Renames(k, t) => ~Awaits(k, d)
    <2>1. CASE MsgId(t) \in DOMAIN refs[d]
        BY <1>1, <2>1 DEF NamedInv
    <2>2. CASE MsgId(t) \notin DOMAIN refs[d]
        <3>1. d = c /\ MsgId(t) \in DOMAIN r
            BY <1>1, <1>2, <2>2
        <3> QED BY <2>2, <3>1 DEF NameOk
    <2> QED BY <2>1, <2>2
<1> QED BY <1>3 DEF StaysSent

\* What addThread does to the page.
LEMMA AddThreadIs ==
    ASSUME HistInv, NEW c \in Client, NEW id \in Id, AddThread(c, id)
    PROVE  \E h, p, r :
             /\ Becomes(c, h, p, r) /\ DOMAIN r \subseteq DOMAIN refs[c] \cup {id}
             /\ hpos[c] # 0 /\ Current(c) # id => (h[p] = id /\ p > 1 /\ h[p - 1] = Current(c))
<1>1. /\ PageOk(hist[c], hpos[c], refs[c]) /\ hist[c] \in Seq(Id) /\ hmax[c] \in HistoryLen
      /\ hist = [hist EXCEPT ![c] = hist[c]] /\ hpos = [hpos EXCEPT ![c] = hpos[c]]
      /\ refs = [refs EXCEPT ![c] = refs[c]]
      /\ hpos[c] # 0 => Current(c) = hist[c][hpos[c]]
      /\ hpos[c] # 0 => Current(c) \in DOMAIN refs[c]
    BY PageNow
<1>2. CASE id \in DOMAIN refs[c] /\ id = Current(c)
    <2>1. UNCHANGED <<hist, hpos, refs>>
        BY <1>2 DEF AddThread
    <2>2. Becomes(c, hist[c], hpos[c], refs[c])
        BY <1>1, <2>1 DEF Becomes
    <2> QED BY <1>2, <2>2
<1>3. CASE ~(id \in DOMAIN refs[c] /\ id = Current(c))
    <2> DEFINE q == NextPos(hist[c], hpos[c], id)
               cut == SubSeq(hist[c], q, Len(hist[c]))
               new == Append(SubSeq(hist[c], 1, q - 1), id)
    <2>1. PICK h, p, r :
            /\ h = IF q > hmax[c] THEN Tail(new) ELSE new
            /\ p = IF q > hmax[c] THEN q - 1 ELSE q
            /\ r = DropRefs(AddRef(refs[c], id), IF q > hmax[c] THEN Append(cut, new[1]) ELSE cut)
        OBVIOUS
    <2>2. Opened(hist[c], hpos[c], refs[c], id, hmax[c], h, p, r)
        BY <2>1 DEF Opened
    <2>3. /\ hist' = [hist EXCEPT ![c] = h] /\ hpos' = [hpos EXCEPT ![c] = p]
          /\ refs' = [refs EXCEPT ![c] = r]
        BY <1>3, <2>1 DEF AddThread, IsFull
    <2> HIDE DEF q, cut, new
    <2>4. hpos[c] # 0 => id # hist[c][hpos[c]]
        BY <1>1, <1>3
    <2>5. /\ PageOk(h, p, r) /\ DOMAIN r \subseteq DOMAIN refs[c] \cup {id}
          /\ h[p] = id /\ (hpos[c] # 0 => p > 1 /\ h[p - 1] = hist[c][hpos[c]])
          /\ Len(h) > Len(hist[c]) => Len(h) <= hmax[c]
        BY <1>1, <2>2, <2>4, AddPage
    <2>6. Becomes(c, h, p, r)
        BY <2>3, <2>5 DEF Becomes
    <2> QED BY <1>1, <2>5, <2>6
<1> QED BY <1>2, <1>3

LEMMA OpenStep ==
    ASSUME HistInv, NEW c \in Client, NEW id \in Id, AddThread(c, id), NameOk(c, id),
           StaysSent, UNCHANGED <<online, hmax, calls>>
    PROVE  HistInv' /\ Grows
<1>1. PICK h, p, r : Becomes(c, h, p, r) /\ DOMAIN r \subseteq DOMAIN refs[c] \cup {id}
    BY AddThreadIs
<1>2. CallsInv'
    BY CallsStay
<1>3. NamedInv'
    <2>1. refs' = [refs EXCEPT ![c] = r]
        BY <1>1 DEF Becomes
    <2>2. \A x \in DOMAIN r : x \in DOMAIN refs[c] \/ NameOk(c, x)
        BY <1>1
    <2> QED BY <2>1, <2>2, NamesGrow
<1>4. place' \in Places /\ hmax' \in [Client -> HistoryLen] /\ online' \subseteq Client
    BY DEF HistInv, StaysSent
<1> QED BY <1>1, <1>2, <1>3, <1>4, PageStep

\* The page offers an id its client has been told of, or a thread's local id.
LEMMA OfferedIs ==
    ASSUME Hasty = FALSE, NEW c \in Client, NEW id \in Id, Offered(c, id)
    PROVE  NameOk(c, id)
<1> SUFFICES ASSUME NEW t \in Topic, id = MsgId(t)
             PROVE  place[t] = "sent" /\ \A k \in calls : Renames(k, t) => ~Awaits(k, c)
    BY DEF NameOk
<1>1. id[1] = t /\ id[2] = "sent"
    BY DEF MsgId
<1>2. \A k \in calls : Awaits(k, c) => k.id # LocalId(t)
    BY <1>1 DEF Offered
<1>3. place[t] = "sent"
    BY <1>1, <1>2 DEF Offered, Listed
<1> QED BY <1>2, <1>3 DEF Renames

LEMMA NewDraftStep ==
    ASSUME HistInv, NEW c \in Client, NEW t \in Topic, NewDraft(c, t)
    PROVE  HistInv' /\ Grows
<1>1. LocalId(t) \in Id /\ NameOk(c, LocalId(t))
    BY DEF NameOk, Id, LocalId, MsgId
<1>2. StaysSent
    BY DEF NewDraft, HistInv, StaysSent, Places
<1>3. AddThread(c, LocalId(t)) /\ UNCHANGED <<online, hmax, calls>>
    BY DEF NewDraft
<1> QED BY <1>1, <1>2, <1>3, OpenStep

LEMMA SamePlaces ==
    ASSUME HistInv, place' = place
    PROVE  StaysSent
BY DEF HistInv, StaysSent, Places

LEMMA NavigateStep ==
    ASSUME Hasty = FALSE, HistInv, NEW c \in Client, NEW id \in Id, Navigate(c, id) \/ GoLink(c, id)
    PROVE  AddThread(c, id) /\ HistInv' /\ Grows
<1>1. AddThread(c, id) /\ Offered(c, id) /\ UNCHANGED <<place, online, hmax, calls>>
    BY DEF Navigate, GoLink
<1>2. NameOk(c, id)
    BY <1>1, OfferedIs
<1> QED BY <1>1, <1>2, OpenStep, SamePlaces

\* goThread moves in the history only.
LEMMA GoStep ==
    ASSUME HistInv, NEW c \in Client, NEW e \in {-1, 1}, GoThread(c, e)
    PROVE  HistInv' /\ Grows
<1>1. /\ PageOk(hist[c], hpos[c], refs[c]) /\ hist[c] \in Seq(Id) /\ hpos[c] \in Nat
      /\ hist = [hist EXCEPT ![c] = hist[c]] /\ refs = [refs EXCEPT ![c] = refs[c]]
    BY PageNow
<1>2. PICK p : p = hpos[c] + e
    OBVIOUS
<1>3. /\ p \in 1..Len(hist[c]) /\ hpos' = [hpos EXCEPT ![c] = p]
      /\ UNCHANGED <<place, online, hist, refs, hmax, calls>>
    BY <1>1, <1>2 DEF GoThread
<1>4. PageOk(hist[c], p, refs[c])
    BY <1>1, <1>3 DEF PageOk
<1>5. Becomes(c, hist[c], p, refs[c])
    BY <1>1, <1>3, <1>4 DEF Becomes
<1>6. CallsInv' /\ NamedInv' /\ StaysSent
    BY <1>3, SamePlaces, CallsStay, NamesStay
<1>7. place' \in Places /\ hmax' \in [Client -> HistoryLen] /\ online' \subseteq Client
    BY <1>3, <1>6 DEF HistInv, StaysSent
<1> QED BY <1>5, <1>6, <1>7, PageStep

\* Steps that leave pages and handlers alone.
LEMMA QuietStep ==
    ASSUME HistInv, UNCHANGED <<hist, hpos, refs, calls>>, StaysSent,
           hmax' \in [Client -> HistoryLen], online' \subseteq Client
    PROVE  HistInv' /\ Grows
<1>1. CallsInv' /\ NamedInv'
    BY CallsStay, NamesStay
<1> QED BY <1>1, PageStays DEF StaysSent

LEMMA ConnectStep ==
    ASSUME HistInv, NEW c \in Client, Connect(c) \/ Disconnect(c)
    PROVE  HistInv' /\ Grows
<1>1. UNCHANGED <<place, hist, hpos, refs, calls>>
    BY DEF Connect, Disconnect
<1>2. hmax' \in [Client -> HistoryLen] /\ online' \subseteq Client
    BY DEF Connect, Disconnect, HistInv
<1> QED BY <1>1, <1>2, QuietStep, SamePlaces

LEMMA RestartStep ==
    ASSUME HistInv, Restart
    PROVE  HistInv' /\ Grows
<1>1. UNCHANGED <<place, hist, hpos, refs, hmax>> /\ calls' = {} /\ online' = {}
    BY DEF Restart
<1>2. CallsInv' /\ NamedInv'
    BY <1>1 DEF HistInv, CallsInv, NamedInv
<1>3. place' \in Places /\ hmax' \in [Client -> HistoryLen] /\ online' \subseteq Client
    BY <1>1 DEF HistInv, Places
<1> QED BY <1>1, <1>2, <1>3, PageStays

LEMMA LengthStep ==
    ASSUME HistInv, NEW c \in Client, NEW n \in HistoryLen, SetHistoryMax(c, n)
    PROVE  HistInv' /\ Grows
<1>1. UNCHANGED <<place, online, hist, hpos, refs, calls>>
    BY DEF SetHistoryMax
<1>2. hmax' \in [Client -> HistoryLen] /\ online' \subseteq Client
    BY DEF SetHistoryMax, HistInv
<1> QED BY <1>1, <1>2, QuietStep, SamePlaces

LEMMA DraftElsewhereStep ==
    ASSUME HistInv, NEW t \in Topic, NewDraftElsewhere(t)
    PROVE  HistInv' /\ Grows
<1>1. StaysSent /\ UNCHANGED <<hist, hpos, refs, calls>>
    BY DEF NewDraftElsewhere, HistInv, StaysSent, Places
<1>2. hmax' \in [Client -> HistoryLen] /\ online' \subseteq Client
    BY DEF NewDraftElsewhere, HistInv
<1> QED BY <1>1, <1>2, QuietStep

\* A handler that has a name to tell begins once the thread is sent.
LEMMA StoreSentStep ==
    ASSUME HistInv, NEW t \in Topic, StoreSent(t)
    PROVE  HistInv' /\ Grows
<1>1. PICK k : k = NewCall("rename", LocalId(t), "other")
    OBVIOUS
<1>2. /\ place[t] = "draft" /\ place' = [place EXCEPT ![t] = "sent"] /\ calls' = calls \cup {k}
      /\ UNCHANGED <<online, hist, hpos, refs, hmax>>
    BY <1>1 DEF StoreSent
<1>3. k \in Call /\ k.op = "rename" /\ k.id = LocalId(t) /\ k.left = {}
    BY <1>1 DEF NewCall, Call, Id, LocalId
<1>4. CallsInv /\ NamedInv /\ place \in Places
    BY DEF HistInv, Places
<1>5. place' \in Places /\ place'[t] = "sent" /\ \A u \in Topic : u # t => place'[u] = place[u]
    BY <1>2, <1>4 DEF Places
<1>6. \A m \in calls : ~Renames(m, t)
    BY <1>2, <1>4 DEF CallsInv, Renames, LocalId
<1>7. \A u \in Topic : Renames(k, u) <=> u = t
    BY <1>3 DEF Renames, LocalId
<1>8. CallsInv'
    <2>1. calls' \subseteq Call /\ \A m \in calls' : m.begun \/ m.left = {}
        BY <1>2, <1>3, <1>4 DEF CallsInv
    <2>2. ASSUME NEW m \in calls', m.op = "rename"
          PROVE  \E u \in Topic : Renames(m, u) /\ place'[u] = "sent"
        <3>1. CASE m = k
            BY <1>5, <1>7, <3>1
        <3>2. CASE m \in calls
            BY <1>4, <1>5, <2>2, <3>2 DEF CallsInv
        <3> QED BY <1>2, <3>1, <3>2
    <2>3. ASSUME NEW m \in calls', NEW n \in calls', NEW u \in Topic, Renames(m, u), Renames(n, u)
          PROVE  m = n
        <3>1. m \in calls \/ m = k
            BY <1>2
        <3>2. n \in calls \/ n = k
            BY <1>2
        <3>3. m \in calls /\ n \in calls => m = n
            BY <1>4, <2>3 DEF CallsInv
        <3> QED BY <1>6, <1>7, <2>3, <3>1, <3>2, <3>3
    <2> QED BY <2>1, <2>2, <2>3 DEF CallsInv, Renames
<1>9. NamedInv'
    <2> SUFFICES ASSUME NEW d \in Client, NEW u \in Topic, MsgId(u) \in DOMAIN refs[d]
                 PROVE  place'[u] = "sent" /\ \A m \in calls' : Renames(m, u) => ~Awaits(m, d)
        BY <1>2 DEF NamedInv, Renames, Awaits
    <2>1. place[u] = "sent" /\ \A m \in calls : Renames(m, u) => ~Awaits(m, d)
        BY <1>4 DEF NamedInv
    <2>2. u # t
        BY <1>2, <2>1
    <2> QED BY <1>2, <1>5, <1>7, <2>1, <2>2
<1> QED BY <1>2, <1>5, <1>8, <1>9, PageStays DEF HistInv

\* A thread that is discarded is not one that is sent, and there is no name to tell.
LEMMA DiscardStarts ==
    ASSUME HistInv, NEW id \in Id, NEW by \in Client \cup {"other"},
           StaysSent, calls' = calls \cup {NewCall("discard", id, by)},
           UNCHANGED <<online, hist, hpos, refs, hmax>>
    PROVE  HistInv' /\ Grows
<1>1. PICK k : k = NewCall("discard", id, by)
    OBVIOUS
<1>2. k \in Call /\ k.op = "discard" /\ k.left = {} /\ calls' = calls \cup {k}
    BY <1>1 DEF NewCall, Call
<1>3. CallsInv /\ NamedInv
    BY DEF HistInv
<1>4. \A u : ~Renames(k, u)
    BY <1>2 DEF Renames
<1>5. place' \in Places /\ \A u \in Topic : place[u] = "sent" => place'[u] = "sent"
    BY DEF StaysSent
<1>6. CallsInv'
    <2>1. calls' \subseteq Call /\ \A m \in calls' : m.begun \/ m.left = {}
        BY <1>2, <1>3 DEF CallsInv
    <2>2. \A m \in calls' : m.op = "rename" => m \in calls
        BY <1>2
    <2>3. \A m \in calls' : \A u \in Topic : Renames(m, u) => m \in calls
        BY <1>2, <1>4
    <2>4. \A m \in calls' : m.op = "rename" => \E u \in Topic : Renames(m, u) /\ place'[u] = "sent"
        BY <1>3, <1>5, <2>2 DEF CallsInv
    <2>5. \A m, n \in calls' : \A u \in Topic : Renames(m, u) /\ Renames(n, u) => m = n
        BY <1>3, <2>3 DEF CallsInv
    <2> QED BY <2>1, <2>4, <2>5 DEF CallsInv, Renames
<1>7. NamedInv'
    <2> SUFFICES ASSUME NEW d \in Client, NEW u \in Topic, MsgId(u) \in DOMAIN refs[d]
                 PROVE  place'[u] = "sent" /\ \A m \in calls' : Renames(m, u) => ~Awaits(m, d)
        BY DEF NamedInv, Renames, Awaits
    <2>1. place[u] = "sent" /\ \A m \in calls : Renames(m, u) => ~Awaits(m, d)
        BY <1>3 DEF NamedInv
    <2> QED BY <1>2, <1>4, <1>5, <2>1
<1> QED BY <1>5, <1>6, <1>7, PageStays DEF HistInv

LEMMA DiscardStep ==
    ASSUME HistInv, NEW c \in Client, NEW t \in Topic, Discard(c, t)
    PROVE  HistInv' /\ Grows
<1>1. hpos[c] # 0 /\ calls' = calls \cup {NewCall("discard", Current(c), c)}
      /\ UNCHANGED <<online, hist, hpos, refs, hmax>>
    BY DEF Discard
<1>2. Current(c) \in Id
    BY <1>1, PageNow
<1>3. StaysSent
    BY DEF Discard, HistInv, StaysSent, Places
<1>4. c \in Client \cup {"other"}
    OBVIOUS
<1> QED BY <1>1, <1>2, <1>3, <1>4, DiscardStarts

LEMMA DiscardElsewhereStep ==
    ASSUME HistInv, NEW t \in Topic, DiscardElsewhere(t)
    PROVE  HistInv' /\ Grows
<1>1. calls' = calls \cup {NewCall("discard", LocalId(t), "other")}
      /\ UNCHANGED <<online, hist, hpos, refs, hmax>>
    BY DEF DiscardElsewhere
<1>2. LocalId(t) \in Id /\ "other" \in Client \cup {"other"}
    BY DEF LocalId, Id
<1>3. StaysSent
    BY DEF DiscardElsewhere, HistInv, StaysSent, Places
<1> QED BY <1>1, <1>2, <1>3, DiscardStarts

\* A handler that goes on has the same thing to tell, to no more clients.
LEMMA CallsMove ==
    ASSUME HistInv, NEW k \in calls, NEW m \in Call, m.op = k.op, m.id = k.id, m.begun,
           NEW X, X \subseteq {m}, calls' = (calls \ {k}) \cup X, place' = place
    PROVE  /\ CallsInv'
           /\ \A n \in calls' : n = m \/ n \in calls \ {k}
<1>1. CallsInv
    BY DEF HistInv
<1>2. \A n \in calls' : n = m \/ n \in calls \ {k}
    OBVIOUS
<1>3. \A u : Renames(m, u) <=> Renames(k, u)
    BY DEF Renames
<1>4. calls' \subseteq Call /\ \A n \in calls' : n.begun \/ n.left = {}
    BY <1>1, <1>2 DEF CallsInv
<1>5. ASSUME NEW n \in calls', n.op = "rename" PROVE \E u \in Topic : Renames(n, u) /\ place'[u] = "sent"
    <2>1. CASE n = m
        BY <1>1, <1>3, <1>5, <2>1 DEF CallsInv
    <2>2. CASE n \in calls
        BY <1>1, <1>5, <2>2 DEF CallsInv
    <2> QED BY <1>2, <2>1, <2>2
<1>6. ASSUME NEW n \in calls', NEW o \in calls', NEW u \in Topic, Renames(n, u), Renames(o, u) PROVE n = o
    <2>1. \A a, b \in calls : Renames(a, u) /\ Renames(b, u) => a = b
        BY <1>1 DEF CallsInv
    <2> QED BY <1>2, <1>3, <1>6, <2>1
<1>7. CallsInv'
    BY <1>4, <1>5, <1>6 DEF CallsInv, Renames
<1> QED BY <1>2, <1>7

LEMMA BeginStep ==
    ASSUME HistInv, NEW k \in calls, Begin(k)
    PROVE  HistInv' /\ Grows
<1>1. PICK m : m = [k EXCEPT !.begun = TRUE, !.left = online]
    OBVIOUS
<1>2. CallsInv /\ NamedInv /\ online \subseteq Client
    BY DEF HistInv
<1>3. k \in Call
    BY <1>2 DEF CallsInv
<1>4. m \in Call /\ m.op = k.op /\ m.id = k.id /\ m.begun
    BY <1>1, <1>2, <1>3 DEF Call
<1>5. PICK X : X = IF online = {} THEN {} ELSE {m}
    OBVIOUS
<1>6. ~k.begun /\ X \subseteq {m} /\ calls' = (calls \ {k}) \cup X
      /\ UNCHANGED <<place, online, hist, hpos, refs, hmax>>
    BY <1>1, <1>5 DEF Begin
<1>7. CallsInv' /\ \A n \in calls' : n = m \/ n \in calls \ {k}
    BY <1>4, <1>6, CallsMove
<1>8. NamedInv'
    <2> SUFFICES ASSUME NEW d \in Client, NEW u \in Topic, MsgId(u) \in DOMAIN refs[d]
                 PROVE  place[u] = "sent" /\ \A n \in calls' : Renames(n, u) => ~Awaits(n, d)
        BY <1>6 DEF NamedInv, Renames, Awaits
    <2>1. place[u] = "sent" /\ \A n \in calls : Renames(n, u) => ~Awaits(n, d)
        BY <1>2 DEF NamedInv
    <2>2. Awaits(k, d)
        BY <1>6 DEF Awaits
    <2>3. ~Renames(k, u)
        BY <2>1, <2>2
    <2>4. ~Renames(m, u)
        BY <1>4, <2>3 DEF Renames
    <2> QED BY <1>7, <2>1, <2>4
<1> QED BY <1>6, <1>7, <1>8, PageStays DEF HistInv, Places

\* A client that is told is awaited no more; the others are as before.
LEMMA ToldIs ==
    ASSUME HistInv, NEW k \in calls, NEW c \in Client, c \in k.left, Told(k, c), place' = place
    PROVE  /\ CallsInv'
           /\ \A u \in Topic : \A d \in Client :
                (\A n \in calls : Renames(n, u) => ~Awaits(n, d)) =>
                  \A n \in calls' : Renames(n, u) => ~Awaits(n, d)
           /\ \A u \in Topic : Renames(k, u) => \A n \in calls' : Renames(n, u) => ~Awaits(n, c)
<1>1. PICK m : m = [k EXCEPT !.left = @ \ {c}]
    OBVIOUS
<1>2. CallsInv
    BY DEF HistInv
<1>3. k \in Call /\ (k.begun \/ k.left = {})
    BY <1>2 DEF CallsInv
<1>4. m \in Call /\ m.op = k.op /\ m.id = k.id /\ m.begun /\ k.begun /\ m.left = k.left \ {c}
    BY <1>1, <1>3 DEF Call
<1>5. PICK X : X = IF k.left = {c} THEN {} ELSE {m}
    OBVIOUS
<1>6. X \subseteq {m} /\ calls' = (calls \ {k}) \cup X
    BY <1>1, <1>5 DEF Told
<1>7. CallsInv' /\ \A n \in calls' : n = m \/ n \in calls \ {k}
    BY <1>4, <1>6, CallsMove
<1>8. \A d : Awaits(m, d) => Awaits(k, d) /\ d # c
    BY <1>4 DEF Awaits
<1>9. \A u : Renames(m, u) <=> Renames(k, u)
    BY <1>4 DEF Renames
<1>10. ASSUME NEW u \in Topic, NEW d \in Client, \A n \in calls : Renames(n, u) => ~Awaits(n, d)
       PROVE  \A n \in calls' : Renames(n, u) => ~Awaits(n, d)
    BY <1>7, <1>8, <1>9, <1>10
<1>11. ASSUME NEW u \in Topic, Renames(k, u), NEW n \in calls', Renames(n, u) PROVE ~Awaits(n, c)
    <2>1. \A o \in calls : Renames(o, u) => o = k
        BY <1>2, <1>11 DEF CallsInv
    <2> QED BY <1>7, <1>8, <1>11, <2>1
<1> QED BY <1>7, <1>10, <1>11

\* A handler that tells c changes its page only, and what it tells is right.
LEMMA ToldStep ==
    ASSUME HistInv, NEW k \in calls, NEW c \in Client, c \in k.left, Told(k, c),
           UNCHANGED <<place, online, hmax>>,
           NEW h, NEW p, NEW r, Becomes(c, h, p, r),
           \A x \in DOMAIN r : x \in DOMAIN refs[c] \/ \E t \in Topic : Renames(k, t) /\ x = MsgId(t)
    PROVE  HistInv' /\ Grows
<1>1. CallsInv /\ NamedInv /\ refs = [d \in Client |-> refs[d]]
    BY DEF HistInv
<1>2. /\ CallsInv'
      /\ \A u \in Topic : \A d \in Client :
           (\A n \in calls : Renames(n, u) => ~Awaits(n, d)) =>
             \A n \in calls' : Renames(n, u) => ~Awaits(n, d)
      /\ \A u \in Topic : Renames(k, u) => \A n \in calls' : Renames(n, u) => ~Awaits(n, c)
    BY ToldIs
<1>3. refs' = [refs EXCEPT ![c] = r]
    BY DEF Becomes
<1>4. NamedInv'
    <2> SUFFICES ASSUME NEW d \in Client, NEW u \in Topic, MsgId(u) \in DOMAIN refs'[d]
                 PROVE  place[u] = "sent" /\ \A n \in calls' : Renames(n, u) => ~Awaits(n, d)
        BY DEF NamedInv, Renames, Awaits
    <2>1. CASE MsgId(u) \in DOMAIN refs[d]
        <3>1. place[u] = "sent" /\ \A n \in calls : Renames(n, u) => ~Awaits(n, d)
            BY <1>1, <2>1 DEF NamedInv
        <3> QED BY <1>2, <3>1
    <2>2. CASE MsgId(u) \notin DOMAIN refs[d]
        <3>1. d = c /\ MsgId(u) \in DOMAIN r
            BY <1>1, <1>3, <2>2
        <3>2. PICK t \in Topic : Renames(k, t) /\ MsgId(u) = MsgId(t)
            BY <2>2, <3>1
        <3>3. t = u
            BY <3>2 DEF MsgId
        <3>4. k.op = "rename"
            BY <3>2 DEF Renames
        <3>5. PICK v \in Topic : Renames(k, v) /\ place[v] = "sent"
            BY <1>1, <3>4 DEF CallsInv
        <3>6. v = u
            BY <3>2, <3>3, <3>5 DEF Renames, LocalId
        <3> QED BY <1>2, <3>1, <3>5, <3>6
    <2> QED BY <2>1, <2>2
<1>5. place' \in Places /\ hmax' \in [Client -> HistoryLen] /\ online' \subseteq Client
    BY DEF HistInv, Places
<1> QED BY <1>2, <1>4, <1>5, PageStep

\* The old id is not in a history without its page state.
LEMMA NotThere ==
    ASSUME HistInv, NEW c \in Client, NEW id, id \notin DOMAIN refs[c]
    PROVE  id \notin Range(hist[c])
BY PageNow DEF PageOk

LEMMA RenameStep ==
    ASSUME HistInv, NEW k \in calls, NEW c \in Client, RenameThread(k, c)
    PROVE  HistInv' /\ Grows /\ k.id \notin Range(hist'[c])
<1>1. k.op = "rename" /\ c \in k.left /\ Told(k, c) /\ UNCHANGED <<place, online, hpos, hmax>>
    BY DEF RenameThread
<1>2. /\ PageOk(hist[c], hpos[c], refs[c])
      /\ hist = [hist EXCEPT ![c] = hist[c]] /\ hpos = [hpos EXCEPT ![c] = hpos[c]]
      /\ refs = [refs EXCEPT ![c] = refs[c]]
    BY PageNow
<1>3. CASE k.id \notin DOMAIN refs[c]
    <2>1. UNCHANGED <<hist, refs>>
        BY <1>3 DEF RenameThread
    <2>2. Becomes(c, hist[c], hpos[c], refs[c])
        BY <1>1, <1>2, <2>1 DEF Becomes
    <2>3. HistInv' /\ Grows
        BY <1>1, <2>2, ToldStep
    <2> QED BY <1>3, <2>1, <2>3, NotThere
<1>4. CASE k.id \in DOMAIN refs[c]
    <2>1. PICK t \in Topic : Renames(k, t)
        BY <1>1 DEF HistInv, CallsInv
    <2>2. k.id = LocalId(t) /\ MsgId(k.id[1]) = MsgId(t)
        BY <2>1 DEF Renames, LocalId
    <2>3. MsgId(t) \notin DOMAIN refs[c]
        BY <1>1, <2>1 DEF HistInv, NamedInv, Awaits
    <2>4. PICK h, r : /\ h = [i \in DOMAIN hist[c] |-> IF hist[c][i] = LocalId(t) THEN MsgId(t) ELSE hist[c][i]]
                      /\ r = Renamed(refs[c], LocalId(t), MsgId(t))
        OBVIOUS
    <2>5. /\ PageOk(h, hpos[c], r) /\ DOMAIN r \subseteq DOMAIN refs[c] \cup {MsgId(t)}
          /\ LocalId(t) \notin Range(h) /\ Len(h) = Len(hist[c])
        BY <1>2, <1>4, <2>2, <2>3, <2>4, RenamePage
    <2>6. hist' = [hist EXCEPT ![c] = h]
        <3>1. \A id \in Range(hist[c]) : id = k.id => MsgId(id[1]) = MsgId(t)
            BY <2>2
        <3>2. h = [i \in DOMAIN hist[c] |-> IF hist[c][i] = k.id THEN MsgId(hist[c][i][1]) ELSE hist[c][i]]
            BY <2>2, <2>4
        <3> QED BY <1>4, <3>2 DEF RenameThread
    <2>7. refs' = [refs EXCEPT ![c] = r]
        BY <1>4, <2>2, <2>4 DEF RenameThread
    <2>8. Becomes(c, h, hpos[c], r)
        <3>1. Len(h) \in Nat
            BY <2>5 DEF PageOk
        <3> QED BY <1>1, <1>2, <2>5, <2>6, <2>7, <3>1 DEF Becomes
    <2>9. \A x \in DOMAIN r : x \in DOMAIN refs[c] \/ \E u \in Topic : Renames(k, u) /\ x = MsgId(u)
        BY <2>1, <2>5
    <2>10. HistInv' /\ Grows
        BY <1>1, <2>8, <2>9, ToldStep
    <2>11. hist'[c] = h
        BY <2>6 DEF HistInv
    <2> QED BY <2>2, <2>5, <2>10, <2>11
<1> QED BY <1>3, <1>4

LEMMA DiscardThreadStep ==
    ASSUME HistInv, NEW k \in calls, NEW c \in Client, DiscardThread(k, c)
    PROVE  HistInv' /\ Grows /\ k.id \notin Range(hist'[c])
<1>1. k.op = "discard" /\ c \in k.left /\ Told(k, c) /\ UNCHANGED <<place, online, hmax>>
    BY DEF DiscardThread
<1>2. /\ PageOk(hist[c], hpos[c], refs[c]) /\ hist[c] \in Seq(Id)
      /\ hist = [hist EXCEPT ![c] = hist[c]] /\ hpos = [hpos EXCEPT ![c] = hpos[c]]
      /\ refs = [refs EXCEPT ![c] = refs[c]]
    BY PageNow
<1>3. CASE k.id \notin DOMAIN refs[c]
    <2>1. UNCHANGED <<hist, hpos, refs>>
        BY <1>3 DEF DiscardThread
    <2>2. Becomes(c, hist[c], hpos[c], refs[c])
        BY <1>2, <2>1 DEF Becomes
    <2>3. HistInv' /\ Grows
        BY <1>1, <2>2, ToldStep
    <2> QED BY <1>3, <2>1, <2>3, NotThere
<1>4. CASE k.id \in DOMAIN refs[c]
    <2>1. PICK f : f = CHOOSE g : Loop(g, 1, Len(hist[c]), [h |-> hist[c], p |-> hpos[c]], k.id)
        OBVIOUS
    <2>2. PICK r : r = Without(refs[c], {k.id})
        OBVIOUS
    <2>3. /\ PageOk(f[1].h, f[1].p, r) /\ DOMAIN r \subseteq DOMAIN refs[c]
          /\ k.id \notin Range(f[1].h) /\ Len(f[1].h) <= Len(hist[c])
        BY <1>2, <1>4, <2>1, <2>2, DiscardPage
    <2>4. /\ hist' = [hist EXCEPT ![c] = f[1].h] /\ hpos' = [hpos EXCEPT ![c] = f[1].p]
          /\ refs' = [refs EXCEPT ![c] = r]
        BY <1>4, <2>1, <2>2 DEF DiscardThread, Loop
    <2>5. Becomes(c, f[1].h, f[1].p, r)
        <3>1. Len(f[1].h) \in Nat /\ Len(hist[c]) \in Nat
            BY <1>2, <2>3 DEF PageOk
        <3> QED BY <2>3, <2>4, <3>1 DEF Becomes
    <2>6. HistInv' /\ Grows
        BY <1>1, <2>3, <2>5, ToldStep
    <2>7. hist'[c] = f[1].h
        BY <2>4 DEF HistInv
    <2> QED BY <2>3, <2>6, <2>7
<1> QED BY <1>3, <1>4

LEMMA HistoryStart == HistoryInit => HistInv
<1> SUFFICES ASSUME HistoryInit PROVE HistInv
    OBVIOUS
<1>1. Sent \subseteq Topic
    BY HistoryAssumption
<1>2. place \in [Topic -> {"absent", "draft", "sent", "gone"}] /\ hmax \in [Client -> HistoryLen]
      /\ online = {} /\ calls = {}
    BY DEF HistoryInit
<1>3. /\ hist = [c \in Client |-> <<>>] /\ hpos = [c \in Client |-> 0]
      /\ refs = [c \in Client |-> [x \in {} |-> 0]]
    BY DEF HistoryInit
<1>4. \A c \in Client : hist[c] = <<>> /\ hpos[c] = 0 /\ DOMAIN refs[c] = {} /\ refs[c] = [x \in {} |-> 0]
    BY <1>3
<1>5. hist \in [Client -> Seq(Id)] /\ hpos \in [Client -> Nat] /\ refs = [c \in Client |-> refs[c]]
    BY <1>3
<1>6. ASSUME NEW c \in Client PROVE PageOk(hist[c], hpos[c], refs[c])
    <2>1. refs[c] \in [DOMAIN refs[c] -> Nat \ {0}]
        BY <1>4
    <2>2. <<>> \in Seq(Id) /\ Range(<<>>) = {} /\ \A i \in 1..Len(<<>>) - 1 : FALSE
        BY DEF Range
    <2> QED BY <1>4, <2>1, <2>2 DEF PageOk
<1>7. CallsInv /\ NamedInv
    BY <1>2, <1>4 DEF CallsInv, NamedInv
<1> QED BY <1>2, <1>5, <1>6, <1>7 DEF HistInv

\* What the steps do to the pages.
ToldRight ==
    \A k \in calls, c \in Client :
      RenameThread(k, c) \/ DiscardThread(k, c) => k.id \notin Range(hist'[c])
BackRight ==
    \A c \in Client, id \in Id :
      hpos[c] # 0 /\ Current(c) # id /\ (Navigate(c, id) \/ GoLink(c, id)) =>
        hist'[c][hpos'[c]] = id /\ hpos'[c] > 1 /\ hist'[c][hpos'[c] - 1] = Current(c)

LEMMA BackIs ==
    ASSUME Hasty = FALSE, HistInv, NEW c \in Client, NEW id \in Id, hpos[c] # 0, Current(c) # id,
           Navigate(c, id) \/ GoLink(c, id)
    PROVE  hist'[c][hpos'[c]] = id /\ hpos'[c] > 1 /\ hist'[c][hpos'[c] - 1] = Current(c)
<1>1. AddThread(c, id)
    BY NavigateStep
<1>2. PICK h, p, r :
        /\ Becomes(c, h, p, r)
        /\ hpos[c] # 0 /\ Current(c) # id => (h[p] = id /\ p > 1 /\ h[p - 1] = Current(c))
    BY <1>1, AddThreadIs
<1>3. hist'[c] = h /\ hpos'[c] = p
    BY <1>2 DEF Becomes, HistInv
<1> QED BY <1>2, <1>3

LEMMA HistoryStep ==
    ASSUME Hasty = FALSE, HistInv, [HistoryNext]_histVars
    PROVE  HistInv' /\ Grows /\ ToldRight /\ BackRight
<1>1. ASSUME HistoryNext PROVE HistInv' /\ Grows
    BY <1>1, ConnectStep, RestartStep, NewDraftStep, DiscardStep, NavigateStep, GoStep, LengthStep,
       StoreSentStep, DraftElsewhereStep, DiscardElsewhereStep, BeginStep, RenameStep,
       DiscardThreadStep DEF HistoryNext
<1>2. ASSUME UNCHANGED histVars PROVE HistInv' /\ Grows
    <2>1. UNCHANGED <<hist, hpos, refs, calls, place, online, hmax>>
        BY <1>2 DEF histVars
    <2>2. hmax' \in [Client -> HistoryLen] /\ online' \subseteq Client
        BY <2>1 DEF HistInv
    <2> QED BY <2>1, <2>2, QuietStep, SamePlaces
<1>3. HistInv' /\ Grows
    BY <1>1, <1>2
<1>4. ToldRight
    BY RenameStep, DiscardThreadStep DEF ToldRight
<1>5. BackRight
    BY BackIs DEF BackRight
<1> QED BY <1>3, <1>4, <1>5

LEMMA HistorySoundIs == HistInv => HistorySound
<1> SUFFICES ASSUME HistInv PROVE HistorySound
    OBVIOUS
<1>1. /\ place \in [Topic -> {"absent", "draft", "sent", "gone"}]
      /\ hmax \in [Client -> HistoryLen] /\ online \subseteq Client /\ calls \subseteq Call
    BY DEF HistInv, CallsInv
<1>2. \A c \in Client : PageOk(hist[c], hpos[c], refs[c])
    BY DEF HistInv
<1>3. \A c \in Client : DOMAIN hist[c] = 1..Len(hist[c])
    BY <1>2 DEF PageOk
<1>4. HistoryTypeOK
    BY <1>1, <1>2, <1>3 DEF HistoryTypeOK, PageOk
<1>5. HistoryHasState
    BY <1>2 DEF HistoryHasState, PageOk
<1>6. NoRepeat
    BY <1>2 DEF NoRepeat, PageOk
<1> QED BY <1>4, <1>5, <1>6 DEF HistorySound

\* A client's history is whole: its position is in it, every thread of it has page
\* state that counts it at least as often as it is there, and none follows itself,
\* whatever clients, threads and lengths there are and however drafts are renamed
\* and discarded (state.go _addThread, renameThread, discardThread).  It is so when
\* a page offers what its client was told of.
THEOREM HistoryStaysSound ==
    ASSUME Hasty = FALSE
    PROVE  HistorySpec => []HistorySound
<1>1. HistoryInit => HistInv
    BY HistoryStart
<1>2. HistInv /\ [HistoryNext]_histVars => HistInv'
    BY HistoryStep
<1>3. HistInv => HistorySound
    BY HistorySoundIs
<1> QED BY <1>1, <1>2, <1>3, PTL DEF HistorySpec

\* Every step treats the histories rightly: one step back from a thread that was
\* opened is the one shown before, a client that is told of a new name or a discard
\* keeps no place of the old id, and no history grows past its maximum.
THEOREM HistoryMovesRight ==
    ASSUME Hasty = FALSE
    PROVE  HistorySpec => HistoryMoves
<1>1. HistoryInit => HistInv
    BY HistoryStart
<1>2. HistInv /\ [HistoryNext]_histVars => HistInv'
    BY HistoryStep
<1>3. HistInv /\ [HistoryNext]_histVars => [Grows]_histVars /\ [ToldRight]_histVars /\ [BackRight]_histVars
    BY HistoryStep
<1>4. /\ NeverGrowsPast <=> [][Grows]_histVars
      /\ ToldForgets <=> [][ToldRight]_histVars
      /\ BackIsPrevious <=> [][BackRight]_histVars
    BY DEF NeverGrowsPast, Grows, ToldForgets, ToldRight, BackIsPrevious, BackRight
<1>5. HistoryMoves <=> BackIsPrevious /\ ToldForgets /\ NeverGrowsPast
    BY DEF HistoryMoves
<1> QED BY <1>1, <1>2, <1>3, <1>4, <1>5, PTL DEF HistorySpec
=============================================================================
