---------------------------- MODULE NodesProofs ----------------------------
(***************************************************************************)
(* Theorems about Nodes, for any names, addresses, requests and bounds: a   *)
(* replica is what was asked for, and adding one comes to its end.          *)
(***************************************************************************)
EXTENDS Nodes, FiniteSetTheorems, SequenceTheorems, WellFoundedInduction, TLAPS

\* The parts of the assumption that the steps need.
LEMMA ConstantsAre == MaxNodeAdds \in Nat /\ "none" \notin NodeName
BY NodesAssumption

USE ConstantsAre

Statuses == {"none", "pending", "sent", "allowed", "ready", "active"}
Request == [name : NodeName \union {"none"}, addr : NodeAddr \union {"none"},
            found : Statuses,
            step : {"new", "found", "pin", "tell", "drop", "ready", "start", "done"}]
Event == [op : {"user", "ack", "error"}, name : NodeName]

NodeTypes ==
    /\ nodeFault \in AllNodeFaults
    /\ nodeSet \in [NodeName -> Statuses]
    /\ toNode \in [addr : NodeAddr \union {"none"}, busy : {0, 1, 2}, client : BOOLEAN]
    /\ adding \in [1..MaxNodeAdds -> Request]
    /\ nodeRecs \subseteq NodeName /\ waiting \subseteq NodeName
    /\ nodeSent \in NodeName \union {"none"}
    /\ nodeMail \in Seq(Event)
    /\ toSelf \in Seq(NodeName) /\ Len(toSelf) <= 1
    /\ copying \in {NoCopy} \union [step : {"copy", "made", "start"}, name : NodeName]
    /\ replica \in [NodeAddr -> [name : NodeName \union {"none"}, st : {"none", "made", "started"}]]
    /\ registered \subseteq NodeName /\ nodeQuit \in BOOLEAN
    /\ failures \in Nat /\ nodeCrashes \in Nat /\ namesakes \in Nat

At(step) == {i \in 1..MaxNodeAdds : adding[i].step = step}
UsersOf(mail) == {mail[k].name : k \in {j \in 1..Len(mail) : mail[j].op = "user"}}
Users == UsersOf(nodeMail)
InSelf == {toSelf[k] : k \in 1..Len(toSelf)}

(* The address is one that was asked for, *)
Addressed ==
    /\ \A i \in 1..MaxNodeAdds : Busy(i) => /\ adding[i].name \in NodeName /\ adding[i].addr \in NodeAddr
                                            /\ <<adding[i].name, adding[i].addr>> \in asked
    /\ toNode.busy # 0 \/ copying # NoCopy => toNode.addr \in NodeAddr
    /\ \A i \in At("start") : adding[i].addr = toNode.addr
    /\ \A i \in At("tell") : toNode.busy = 1 /\ nodeCrashes + namesakes = 0 => adding[i].addr = toNode.addr

(* and in use by one. *)
InUse ==
    /\ toNode.busy = 2 <=> Copies \/ At("start") # {}
    /\ \A i, j \in At("start") : i = j
    /\ Copies => At("start") = {}

(* What the server tells, it tells once; one record is answered at a time. *)
OnceEach(mail) ==
    \A j, k \in 1..Len(mail) : mail[j].op = "user" /\ mail[k].op = "user" /\ mail[j].name = mail[k].name => j = k
OneAnswer(mail, sent) ==
    /\ \A j, k \in 1..Len(mail) : mail[j].op # "user" /\ mail[k].op # "user" => j = k
    /\ \A k \in 1..Len(mail) : mail[k].op # "user" => mail[k].name = sent
ToldOnce ==
    /\ OnceEach(nodeMail) /\ OneAnswer(nodeMail, nodeSent)
    /\ nodeSent # "none" => nodeSent \in nodeRecs /\ nodeSent \in registered
    /\ Users \subseteq registered /\ waiting \subseteq registered
    /\ Users \intersect waiting = {}

(* Names on their way to be copied: not more than claims, crashes and namesakes account for. *)
Underway == nodeRecs \union Users \union waiting
Claimed == IF toNode.busy = 1 THEN 1 ELSE 0
Counted ==
    /\ IsFiniteSet(Underway)
    /\ Cardinality(Underway) + Len(toSelf) + Cardinality(At("tell")) <= Claimed + nodeCrashes + namesakes

(* What is beyond sent is registered. *)
Allowed == {"allowed", "ready", "active"}
Beyond == {"sent", "allowed", "ready", "active"}
Registered ==
    /\ \A n \in NodeName : nodeSet[n] \in Beyond => n \in registered
    /\ \A i \in 1..MaxNodeAdds : Busy(i) /\ adding[i].found \in Beyond => adding[i].name \in registered
    /\ InSelf \subseteq registered
    /\ copying # NoCopy => copying.name \in registered
    /\ \A i \in 1..MaxNodeAdds : adding[i].step = "pin" => adding[i].found \in {"none", "pending", "allowed"}
    /\ \A i \in 1..MaxNodeAdds : adding[i].step = "tell" => adding[i].found \in {"none", "pending", "allowed"}
    /\ \A i \in 1..MaxNodeAdds : adding[i].step \in {"ready", "start"} => adding[i].found = "ready"
    /\ \A i \in 1..MaxNodeAdds : adding[i].step = "drop" => adding[i].found = "none"
    /\ nodeFault # "crash" => nodeCrashes = 0
    /\ nodeFault # "namesake" => namesakes = 0

(* A name that is asked for is in the file when it was found or added, *)
InFile ==
    nodeFault # "twice" =>
        /\ \A i, j \in 1..MaxNodeAdds : Busy(i) /\ Busy(j) /\ adding[i].name = adding[j].name => i = j
        /\ \A i \in 1..MaxNodeAdds : Busy(i) /\ (adding[i].step # "found" \/ adding[i].found # "none") =>
             nodeSet[adding[i].name] # "none"

(* and one that is under way, unless it is a namesake's. *)
OnTheWay(n) == n \in Underway \union InSelf \/ copying.name = n
Known ==
    nodeFault # "twice" /\ namesakes = 0 =>
        /\ \A n \in NodeName : OnTheWay(n) => nodeSet[n] # "none"
        /\ \A i \in 1..MaxNodeAdds : adding[i].step = "found" /\ adding[i].found = "none" =>
             nodeSet[adding[i].name] = "none"
        /\ \A i \in 1..MaxNodeAdds, n \in NodeName :
             adding[i].step \in {"pin", "drop"} /\ adding[i].found = "none" /\ adding[i].name = n =>
               nodeSet[n] = "pending" /\ ~OnTheWay(n)

(* Without a crash or a namesake the address was claimed for the names under way. *)
AskedFor ==
    nodeCrashes + namesakes = 0 =>
        /\ toNode.busy = 1 => \A n \in Underway \union InSelf : <<n, toNode.addr>> \in asked
        /\ copying.step = "copy" => <<copying.name, toNode.addr>> \in asked
        /\ copying.step = "made" /\ toNode.busy = 0 /\ toNode.client => <<copying.name, toNode.addr>> \in asked
        /\ copying.step = "start" /\ ~nodeQuit => <<copying.name, toNode.addr>> \in asked
        /\ \A x \in NodeAddr : replica[x].st # "none" => <<replica[x].name, x>> \in asked

(* The receiver's client is there, unless it is dropped meanwhile. *)
ClientThere ==
    /\ toNode.busy = 1 => toNode.client
    /\ copying.step = "copy" => toNode.client
    /\ nodeFault # "meanwhile" /\ copying.step = "made" => toNode.client /\ At("start") = {}

Started ==
    nodeFault \notin {"crash", "twice"} /\ namesakes = 0 =>
        \A n \in NodeName : nodeSet[n] = "active" =>
            \E x \in NodeAddr : <<n, x>> \in asked /\ replica[x].st = "started"

NoAssert == nodeFault \notin {"twice", "namesake", "meanwhile"} => ~nodeQuit

(* Without refusals, what the server tells is awaited; *)
New == {"none", "pending"}
Awaited ==
    nodeFault = "meanwhile" =>
        /\ \A k \in 1..Len(nodeMail) : nodeMail[k].op # "error"
        /\ \A n \in Users : nodeSet[n] \in {"pending", "sent"}
        /\ \A n \in registered : nodeSet[n] \in New => n \in Users
        /\ nodeSent # "none" => nodeSent \in Users \union waiting

(* what it is asked to register is new; *)
Unregistered ==
    nodeFault = "meanwhile" =>
        /\ nodeRecs \intersect registered \subseteq {nodeSent}
        /\ \A i \in At("tell") : adding[i].found \in New => adding[i].name \notin registered
        /\ \A i \in At("found") \union At("pin") : adding[i].found \in New =>
             adding[i].name \notin registered \/ toNode.busy = 1 \/ copying.step = "copy"

(* what it allowed stays allowed; *)
StaysAllowed ==
    nodeFault = "meanwhile" =>
        /\ \A n \in waiting \union InSelf : nodeSet[n] \in Allowed
        /\ copying # NoCopy => nodeSet[copying.name] \in Allowed
        /\ \A i \in 1..MaxNodeAdds : Busy(i) /\ adding[i].found \in Allowed => nodeSet[adding[i].name] \in Allowed

(* and a name that is claimed for comes to the receiver. *)
Comes ==
    nodeFault = "meanwhile" =>
        (toNode.busy = 1 /\ ~nodeQuit => Underway # {} \/ toSelf # <<>> \/ At("tell") # {})

NodesInv == /\ NodeTypes /\ Addressed /\ InUse /\ ToldOnce /\ Counted /\ Registered /\ InFile /\ Known
            /\ AskedFor /\ ClientThere /\ Started /\ NoAssert
            /\ Awaited /\ Unregistered /\ StaysAllowed /\ Comes

-----------------------------------------------------------------------------
(* Requests and the mail. *)

Steps == {"new", "found", "pin", "tell", "drop", "ready", "start", "done"}

\* A step of a request leaves the others alone, and its name and address.
LEMMA StepIs ==
    ASSUME NodeTypes, NEW i \in 1..MaxNodeAdds, NEW from \in Steps, NEW to \in Steps, Step(i, from, to)
    PROVE  /\ adding' \in [1..MaxNodeAdds -> Request]
           /\ adding'[i].name = adding[i].name /\ adding'[i].addr = adding[i].addr
           /\ adding'[i].found = adding[i].found /\ adding'[i].step = to
           /\ \A j \in 1..MaxNodeAdds : j # i => adding'[j] = adding[j]
           /\ adding[i].step = from /\ ~nodeQuit
<1>1. adding \in [1..MaxNodeAdds -> Request] /\ adding' = [adding EXCEPT ![i].step = to]
    BY DEF NodeTypes, Step
<1>2. adding[i] \in Request /\ adding'[i] = [adding[i] EXCEPT !.step = to]
    BY <1>1
<1>3. adding'[i] \in Request
    BY <1>2 DEF Request, Steps
<1>4. \A j \in 1..MaxNodeAdds : j # i => adding'[j] = adding[j]
    BY <1>1
<1>5. adding' \in [1..MaxNodeAdds -> Request]
    BY <1>1, <1>3, <1>4
<1>6. /\ adding'[i].name = adding[i].name /\ adding'[i].addr = adding[i].addr
      /\ adding'[i].found = adding[i].found /\ adding'[i].step = to
    BY <1>2 DEF Request
<1> QED BY <1>4, <1>5, <1>6 DEF Step

\* A request that goes from one step to another leaves the one set and enters the other.
LEMMA StepAt ==
    ASSUME NodeTypes, NEW i \in 1..MaxNodeAdds, NEW from \in Steps, NEW to \in Steps, from # to, Step(i, from, to)
    PROVE  /\ At(to)' = At(to) \union {i} /\ i \notin At(to)
           /\ At(from)' = At(from) \ {i} /\ i \in At(from)
           /\ \A s : s # from /\ s # to => At(s)' = At(s)
<1>1. /\ adding'[i].step = to /\ adding[i].step = from
      /\ \A j \in 1..MaxNodeAdds : j # i => adding'[j] = adding[j]
    BY StepIs
<1> QED BY <1>1 DEF At

\* The mail of the link, taken from the front and added to at the end.
LEMMA Mail ==
    ASSUME NEW s \in Seq(Event), s # <<>>
    PROVE  /\ Tail(s) \in Seq(Event) /\ Len(s) \in Nat /\ Len(s) >= 1 /\ Len(Tail(s)) = Len(s) - 1
           /\ \A k \in 1..(Len(s) - 1) : Tail(s)[k] = s[k + 1]
           /\ Head(s) = s[1] /\ s[1] \in Event
OBVIOUS

\* What is added to the mail is its last element; the rest stays.
LEMMA MailAppend ==
    ASSUME NEW s \in Seq(Event), NEW e \in Event
    PROVE  /\ Append(s, e) \in Seq(Event) /\ Len(s) \in Nat /\ Len(Append(s, e)) = Len(s) + 1
           /\ \A k \in 1..Len(s) : Append(s, e)[k] = s[k]
           /\ Append(s, e)[Len(s) + 1] = e
OBVIOUS

\* What the server tells last.
LEMMA UsersAppend ==
    ASSUME NEW s \in Seq(Event), NEW e \in Event
    PROVE  UsersOf(Append(s, e)) = UsersOf(s) \union (IF e.op = "user" THEN {e.name} ELSE {})
<1>1. PICK a : a = Append(s, e)
    OBVIOUS
<1>2. /\ Len(s) \in Nat /\ Len(a) = Len(s) + 1 /\ a[Len(s) + 1] = e
      /\ \A k \in 1..Len(s) : a[k] = s[k]
    BY <1>1, MailAppend
<1>3. \A k : k \in 1..Len(a) <=> k \in 1..Len(s) \/ k = Len(s) + 1
    BY <1>2
<1>4. \A n : n \in UsersOf(a) <=> \E k \in 1..Len(a) : a[k].op = "user" /\ n = a[k].name
    BY DEF UsersOf
<1>5. \A n : n \in UsersOf(s) <=> \E k \in 1..Len(s) : s[k].op = "user" /\ n = s[k].name
    BY DEF UsersOf
<1>6. \A n : n \in UsersOf(a) <=> n \in UsersOf(s) \/ (e.op = "user" /\ n = e.name)
    BY <1>2, <1>3, <1>4, <1>5
<1>7. UsersOf(a) = UsersOf(s) \union (IF e.op = "user" THEN {e.name} ELSE {})
    BY <1>6
<1> QED BY <1>1, <1>7

\* A name that was not told yet may be told.
LEMMA OnceAppend ==
    ASSUME NEW s \in Seq(Event), NEW e \in Event, OnceEach(s), e.op = "user" => e.name \notin UsersOf(s)
    PROVE  OnceEach(Append(s, e))
<1>1. PICK a : a = Append(s, e)
    OBVIOUS
<1>2. /\ Len(s) \in Nat /\ Len(a) = Len(s) + 1 /\ a[Len(s) + 1] = e
      /\ \A k \in 1..Len(s) : a[k] = s[k]
    BY <1>1, MailAppend
<1>3. \A k : k \in 1..Len(a) <=> k \in 1..Len(s) \/ k = Len(s) + 1
    BY <1>2
<1>4. \A k \in 1..Len(s) : s[k].op = "user" => s[k].name \in UsersOf(s)
    BY DEF UsersOf
<1>5. OnceEach(a)
    BY <1>2, <1>3, <1>4 DEF OnceEach
<1> QED BY <1>1, <1>5

\* An answer is told when none is on its way.
LEMMA AnswerAppend ==
    ASSUME NEW s \in Seq(Event), NEW e \in Event, NEW sent, OneAnswer(s, sent),
           e.op = "user" \/ (e.name = sent /\ \A k \in 1..Len(s) : s[k].op = "user")
    PROVE  OneAnswer(Append(s, e), sent)
<1>1. PICK a : a = Append(s, e)
    OBVIOUS
<1>2. /\ Len(s) \in Nat /\ Len(a) = Len(s) + 1 /\ a[Len(s) + 1] = e
      /\ \A k \in 1..Len(s) : a[k] = s[k]
    BY <1>1, MailAppend
<1>3. \A k : k \in 1..Len(a) <=> k \in 1..Len(s) \/ k = Len(s) + 1
    BY <1>2
<1>4. OneAnswer(a, sent)
    BY <1>2, <1>3 DEF OneAnswer
<1> QED BY <1>1, <1>4

\* What the server tells of one name to all, and its answer to a record.
LEMMA UserAppend ==
    ASSUME NEW s \in Seq(Event), OnceEach(s), NEW n \in NodeName, n \notin UsersOf(s)
    PROVE  /\ Append(s, FromServer("user", n)) \in Seq(Event) /\ OnceEach(Append(s, FromServer("user", n)))
           /\ UsersOf(Append(s, FromServer("user", n))) = UsersOf(s) \union {n}
           /\ (\A k \in 1..Len(s) : s[k].op = "user") =>
                \A k \in 1..Len(Append(s, FromServer("user", n))) : Append(s, FromServer("user", n))[k].op = "user"
           /\ \A sent : OneAnswer(s, sent) => OneAnswer(Append(s, FromServer("user", n)), sent)
<1>0. PICK e : e = FromServer("user", n)
    OBVIOUS
<1>1. e \in Event /\ e = FromServer("user", n) /\ e.op = "user" /\ e.name = n
    BY <1>0 DEF FromServer, Event
<1>2. PICK a : a = Append(s, e)
    OBVIOUS
<1>3. a \in Seq(Event) /\ OnceEach(a) /\ UsersOf(a) = UsersOf(s) \union {n}
    BY <1>1, <1>2, MailAppend, OnceAppend, UsersAppend
<1>4. ASSUME \A k \in 1..Len(s) : s[k].op = "user" PROVE \A k \in 1..Len(a) : a[k].op = "user"
    <2>1. /\ Len(s) \in Nat /\ Len(a) = Len(s) + 1 /\ a[Len(s) + 1] = e
          /\ \A k \in 1..Len(s) : a[k] = s[k]
        BY <1>2, MailAppend
    <2>2. \A k : k \in 1..Len(a) => k \in 1..Len(s) \/ k = Len(s) + 1
        BY <2>1
    <2> QED BY <1>1, <1>4, <2>1, <2>2
<1>5. \A sent : OneAnswer(s, sent) => OneAnswer(a, sent)
    BY <1>1, <1>2, AnswerAppend
<1> QED BY <1>1, <1>2, <1>3, <1>4, <1>5

\* An answer of the server is the only one in the mail, and tells no name.
LEMMA AnswerAlone ==
    ASSUME NEW s \in Seq(Event), OnceEach(s), \A k \in 1..Len(s) : s[k].op = "user",
           NEW n \in NodeName, NEW op \in {"ack", "error"}
    PROVE  /\ Append(s, FromServer(op, n)) \in Seq(Event) /\ OnceEach(Append(s, FromServer(op, n)))
           /\ UsersOf(Append(s, FromServer(op, n))) = UsersOf(s)
           /\ OneAnswer(Append(s, FromServer(op, n)), n)
           /\ op = "ack" => \A k \in 1..Len(Append(s, FromServer(op, n))) : Append(s, FromServer(op, n))[k].op # "error"
<1>0. PICK e : e = FromServer(op, n)
    OBVIOUS
<1>1. e \in Event /\ e = FromServer(op, n) /\ e.op = op /\ e.name = n /\ e.op # "user"
    BY <1>0 DEF FromServer, Event
<1>2. PICK a : a = Append(s, e)
    OBVIOUS
<1>3. a \in Seq(Event) /\ OnceEach(a) /\ UsersOf(a) = UsersOf(s)
    <2>1. UsersOf(a) = UsersOf(s) \union {}
        BY <1>1, <1>2, UsersAppend
    <2> QED BY <1>1, <1>2, <2>1, MailAppend, OnceAppend
<1>4. op = "ack" => \A k \in 1..Len(a) : a[k].op # "error"
    <2>1. /\ Len(s) \in Nat /\ Len(a) = Len(s) + 1 /\ a[Len(s) + 1] = e
          /\ \A k \in 1..Len(s) : a[k] = s[k]
        BY <1>2, MailAppend
    <2>2. \A k : k \in 1..Len(a) => k \in 1..Len(s) \/ k = Len(s) + 1
        BY <2>1
    <2> QED BY <1>1, <2>1, <2>2
<1>5. OneAnswer(s, n)
    BY DEF OneAnswer
<1>6. OneAnswer(a, n)
    BY <1>1, <1>2, <1>5, AnswerAppend
<1> QED BY <1>1, <1>2, <1>3, <1>4, <1>6

\* What the process reads first.
LEMMA UsersTail ==
    ASSUME NEW s \in Seq(Event), s # <<>>, OnceEach(s)
    PROVE  /\ UsersOf(Tail(s)) = UsersOf(s) \ (IF s[1].op = "user" THEN {s[1].name} ELSE {})
           /\ s[1].op = "user" => s[1].name \in UsersOf(s)
           /\ OnceEach(Tail(s))
           /\ \A sent : OneAnswer(s, sent) =>
                /\ OneAnswer(Tail(s), sent)
                /\ s[1].op # "user" => \A k \in 1..Len(Tail(s)) : Tail(s)[k].op = "user"
<1>1. PICK t : t = Tail(s)
    OBVIOUS
<1>2. /\ Len(s) \in Nat /\ Len(s) >= 1 /\ Len(t) = Len(s) - 1
      /\ \A k \in 1..(Len(s) - 1) : t[k] = s[k + 1]
    BY <1>1, Mail
<1>3. \A k : k \in 1..Len(t) => k + 1 \in 1..Len(s) /\ k + 1 # 1 /\ t[k] = s[k + 1]
    BY <1>2
<1>4. 1 \in 1..Len(s) /\ \A k \in 1..Len(s) : k # 1 => k - 1 \in 1..Len(t) /\ t[k - 1] = s[k]
    BY <1>2
<1>5. \A n : n \in UsersOf(t) <=> \E k \in 1..Len(t) : t[k].op = "user" /\ n = t[k].name
    BY DEF UsersOf
<1>6. \A n : n \in UsersOf(s) <=> \E k \in 1..Len(s) : s[k].op = "user" /\ n = s[k].name
    BY DEF UsersOf
<1>7. ASSUME NEW n PROVE n \in UsersOf(t) <=> n \in UsersOf(s) /\ ~(s[1].op = "user" /\ n = s[1].name)
    <2>1. ASSUME n \in UsersOf(t) PROVE n \in UsersOf(s) /\ ~(s[1].op = "user" /\ n = s[1].name)
        <3>1. PICK k \in 1..Len(t) : t[k].op = "user" /\ n = t[k].name
            BY <1>5, <2>1
        <3>2. k + 1 \in 1..Len(s) /\ k + 1 # 1 /\ s[k + 1].op = "user" /\ n = s[k + 1].name
            BY <1>3, <3>1
        <3> QED BY <1>4, <1>6, <3>2 DEF OnceEach
    <2>2. ASSUME n \in UsersOf(s), ~(s[1].op = "user" /\ n = s[1].name) PROVE n \in UsersOf(t)
        <3>1. PICK k \in 1..Len(s) : s[k].op = "user" /\ n = s[k].name
            BY <1>6, <2>2
        <3>2. k # 1
            BY <2>2, <3>1
        <3> QED BY <1>4, <1>5, <3>1, <3>2
    <2> QED BY <2>1, <2>2
<1>8. UsersOf(t) = UsersOf(s) \ (IF s[1].op = "user" THEN {s[1].name} ELSE {})
    BY <1>7
<1>9. OnceEach(t)
    <2> SUFFICES ASSUME NEW j \in 1..Len(t), NEW k \in 1..Len(t),
                        t[j].op = "user", t[k].op = "user", t[j].name = t[k].name
                 PROVE  j = k
        BY DEF OnceEach
    <2>1. j + 1 = k + 1
        BY <1>3 DEF OnceEach
    <2> QED BY <2>1
<1>10. ASSUME NEW sent, OneAnswer(s, sent)
       PROVE  OneAnswer(t, sent) /\ (s[1].op # "user" => \A k \in 1..Len(t) : t[k].op = "user")
    <2>1. ASSUME NEW j \in 1..Len(t), NEW k \in 1..Len(t), t[j].op # "user", t[k].op # "user" PROVE j = k
        <3>1. j + 1 \in 1..Len(s) /\ k + 1 \in 1..Len(s) /\ s[j + 1].op # "user" /\ s[k + 1].op # "user"
            BY <1>3, <2>1
        <3>2. j + 1 = k + 1
            BY <1>10, <3>1 DEF OneAnswer
        <3> QED BY <3>2
    <2>2. \A k \in 1..Len(t) : t[k].op # "user" => t[k].name = sent
        BY <1>3, <1>10 DEF OneAnswer
    <2>3. s[1].op # "user" => \A k \in 1..Len(t) : t[k].op = "user"
        BY <1>3, <1>4, <1>10 DEF OneAnswer
    <2> QED BY <2>1, <2>2, <2>3 DEF OneAnswer
<1>11. s[1].op = "user" => s[1].name \in UsersOf(s)
    BY <1>4, <1>6
<1> QED BY <1>1, <1>8, <1>9, <1>10, <1>11

\* One step of StillTold, and a function that follows it up to n.
Told(mail, k, before) == IF mail[k].op = "user" THEN Append(before, mail[k]) ELSE before
Tells(mail, f, n) ==
    /\ f \in [0..n -> Seq(Event)] /\ f[0] = <<>>
    /\ \A k \in 1..n : f[k] = Told(mail, k, f[k - 1])

\* A set of numbers that is not empty has a least one.
LEMMA LeastNode ==
    ASSUME NEW S \in SUBSET Nat, S # {}
    PROVE  \E m \in S : \A k \in S : m <= k
<1> DEFINE R == OpToRel(<, Nat)
<1>1. IsWellFoundedOn(R, Nat)
    BY NatLessThanWellFounded
<1>2. \A x, y \in Nat : <<x, y>> \in R <=> x < y
    BY DEF OpToRel
<1> HIDE DEF R
<1>3. PICK m \in S : \A k \in S : ~(<<k, m>> \in R)
    BY <1>1, WFMin
<1>4. ASSUME NEW k \in S PROVE m <= k
    <2>1. m \in Nat /\ k \in Nat /\ ~(k < m)
        BY <1>2, <1>3
    <2> QED BY <2>1
<1> QED BY <1>4

\* What is still told after a crash can be taken one element further.
LEMMA TellsMore ==
    ASSUME NEW mail \in Seq(Event), NEW n \in 1..Len(mail), NEW f, Tells(mail, f, n - 1)
    PROVE  \E g : Tells(mail, g, n)
<1>1. n \in Nat /\ n >= 1 /\ n - 1 \in 0..(n - 1) /\ mail[n] \in Event
    OBVIOUS
<1>2. \A k \in 0..(n - 1) : f[k] \in Seq(Event)
    BY DEF Tells
<1>3. Told(mail, n, f[n - 1]) \in Seq(Event)
    BY <1>1, <1>2, MailAppend DEF Told
<1> DEFINE g == [k \in 0..n |-> IF k = n THEN Told(mail, n, f[n - 1]) ELSE f[k]]
<1>4. \A k \in 0..n : k = n \/ k \in 0..(n - 1)
    BY <1>1
<1>5. g \in [0..n -> Seq(Event)]
    BY <1>2, <1>3, <1>4
<1>6. g[n] = Told(mail, n, f[n - 1]) /\ \A k \in 0..(n - 1) : g[k] = f[k]
    BY <1>1
<1> HIDE DEF g
<1>7. g[0] = <<>>
    BY <1>1, <1>6 DEF Tells
<1>8. ASSUME NEW k \in 1..n PROVE g[k] = Told(mail, k, g[k - 1])
    <2>1. k - 1 \in 0..(n - 1) /\ (k = n \/ (k \in 1..(n - 1) /\ k \in 0..(n - 1)))
        BY <1>1
    <2>2. CASE k = n
        BY <1>6, <2>1, <2>2
    <2>3. CASE k \in 1..(n - 1)
        <3>1. f[k] = Told(mail, k, f[k - 1])
            BY <2>3 DEF Tells
        <3> QED BY <1>6, <2>1, <2>3, <3>1
    <2> QED BY <2>1, <2>2, <2>3
<1> QED BY <1>5, <1>7, <1>8 DEF Tells

\* What is still told after a crash is defined for any mail.
LEMMA TellsExists ==
    ASSUME NEW mail \in Seq(Event)
    PROVE  \E f : Tells(mail, f, Len(mail))
<1>1. Len(mail) \in Nat
    OBVIOUS
<1> DEFINE S == {n \in 0..Len(mail) : ~\E f : Tells(mail, f, n)}
<1> SUFFICES ASSUME S # {} PROVE FALSE
    BY <1>1
<1>2. S \in SUBSET Nat
    BY <1>1
<1>3. PICK n \in S : \A k \in S : n <= k
    BY <1>2, LeastNode
<1>4. CASE n = 0
    <2> DEFINE f == [k \in 0..0 |-> <<>>]
    <2>1. f \in [0..0 -> Seq(Event)] /\ f[0] = <<>> /\ 1..0 = {}
        OBVIOUS
    <2>2. Tells(mail, f, 0)
        BY <2>1 DEF Tells
    <2> QED BY <1>3, <1>4, <2>2
<1>5. CASE n # 0
    <2>1. n \in 1..Len(mail) /\ n - 1 \in 0..Len(mail) /\ ~(n <= n - 1)
        BY <1>1, <1>3, <1>5
    <2>2. PICK f : Tells(mail, f, n - 1)
        BY <1>3, <2>1
    <2>3. \E g : Tells(mail, g, n)
        BY <2>1, <2>2, TellsMore
    <2> QED BY <1>3, <2>3
<1> QED BY <1>4, <1>5

\* StillTold is the end of such a function.
LEMMA StillToldIs ==
    ASSUME NEW m \in Seq(Event)
    PROVE  \E f : Tells(m, f, Len(m)) /\ StillTold(m) = f[Len(m)]
<1>0. Len(m) \in Nat
    OBVIOUS
<1> DEFINE Sol(f) == f = [k \in 0..Len(m) |->
                            IF k = 0 THEN <<>>
                            ELSE IF m[k].op = "user" THEN Append(f[k - 1], m[k]) ELSE f[k - 1]]
<1>1. PICK f : f = CHOOSE h : Sol(h)
    OBVIOUS
<1>2. StillTold(m) = f[Len(m)]
    BY <1>1 DEF StillTold
<1>3. PICK g : Tells(m, g, Len(m))
    BY TellsExists
<1>4. Sol(g)
    <2> DEFINE val(k) == IF k = 0 THEN <<>>
                         ELSE IF m[k].op = "user" THEN Append(g[k - 1], m[k]) ELSE g[k - 1]
    <2>1. \A k \in 0..Len(m) : g[k] = val(k)
        <3> TAKE k \in 0..Len(m)
        <3>1. CASE k = 0
            BY <1>3, <3>1 DEF Tells
        <3>2. CASE k # 0
            <4>1. k \in 1..Len(m)
                BY <1>0, <3>2
            <4> QED BY <1>3, <3>2, <4>1 DEF Tells, Told
        <3> QED BY <3>1, <3>2
    <2> HIDE DEF val
    <2>2. g = [k \in 0..Len(m) |-> g[k]]
        BY <1>3 DEF Tells
    <2>3. g = [k \in 0..Len(m) |-> val(k)]
        BY <2>1, <2>2
    <2> QED BY <2>3 DEF val
<1>5. Sol(f)
    BY <1>1, <1>4, Zenon
<1>6. f[0] = <<>> /\ \A k \in 1..Len(m) : f[k] = Told(m, k, f[k - 1])
    <2> DEFINE val(k) == IF k = 0 THEN <<>>
                         ELSE IF m[k].op = "user" THEN Append(f[k - 1], m[k]) ELSE f[k - 1]
    <2>1. f = [k \in 0..Len(m) |-> val(k)]
        BY <1>5
    <2> HIDE DEF val
    <2>2. \A k \in 0..Len(m) : f[k] = val(k)
        BY <2>1
    <2>3. 0 \in 0..Len(m) /\ \A k \in 1..Len(m) : k \in 0..Len(m) /\ k # 0
        BY <1>0
    <2> QED BY <2>2, <2>3 DEF val, Told
<1>7. f \in [0..Len(m) -> Seq(Event)]
    <2> DEFINE D == {k \in 0..Len(m) : f[k] \notin Seq(Event)}
    <2>1. D = {}
        <3> SUFFICES ASSUME D # {} PROVE FALSE
            OBVIOUS
        <3>1. D \in SUBSET Nat
            BY <1>0
        <3>2. PICK k \in D : \A j \in D : k <= j
            BY <3>1, LeastNode
        <3>3. k # 0
            <4>1. f[0] \in Seq(Event)
                BY <1>6
            <4> QED BY <3>2, <4>1
        <3>4. k \in 1..Len(m) /\ k - 1 \in 0..Len(m) /\ ~(k <= k - 1)
            BY <1>0, <3>3
        <3>5. f[k - 1] \in Seq(Event) /\ m[k] \in Event
            BY <3>2, <3>4
        <3>6. Told(m, k, f[k - 1]) \in Seq(Event)
            BY <3>5, MailAppend DEF Told
        <3> QED BY <1>6, <3>2, <3>4, <3>6
    <2>2. \A k \in 0..Len(m) : f[k] \in Seq(Event)
        BY <2>1
    <2> DEFINE val(k) == IF k = 0 THEN <<>>
                         ELSE IF m[k].op = "user" THEN Append(f[k - 1], m[k]) ELSE f[k - 1]
    <2>3. f = [k \in 0..Len(m) |-> val(k)]
        BY <1>5
    <2> HIDE DEF val
    <2> QED BY <2>2, <2>3
<1> QED BY <1>2, <1>6, <1>7 DEF Tells

\* After a crash the server tells of the same names, each once, and answers nothing.
LEMMA StillToldKeeps ==
    ASSUME NEW m \in Seq(Event), OnceEach(m)
    PROVE  /\ StillTold(m) \in Seq(Event) /\ OnceEach(StillTold(m))
           /\ \A k \in 1..Len(StillTold(m)) : StillTold(m)[k].op = "user"
           /\ UsersOf(StillTold(m)) = UsersOf(m)
<1>0. Len(m) \in Nat
    OBVIOUS
<1>1. PICK f : Tells(m, f, Len(m)) /\ StillTold(m) = f[Len(m)]
    BY StillToldIs
<1> DEFINE UpTo(k) == {m[j].name : j \in {l \in 1..k : m[l].op = "user"}}
           Good(k) == /\ OnceEach(f[k]) /\ UsersOf(f[k]) = UpTo(k)
                      /\ \A j \in 1..Len(f[k]) : f[k][j].op = "user"
           D == {k \in 0..Len(m) : ~Good(k)}
<1>2. D = {}
    <2> SUFFICES ASSUME D # {} PROVE FALSE
        OBVIOUS
    <2>1. D \in SUBSET Nat
        BY <1>0
    <2> HIDE DEF Good
    <2>2. PICK k \in D : \A j \in D : k <= j
        BY <2>1, LeastNode
    <2>3. CASE k = 0
        <3>1. f[0] = <<>> /\ 1..0 = {}
            BY <1>1 DEF Tells
        <3>2. UsersOf(f[0]) = {} /\ UpTo(0) = {}
            BY <3>1 DEF UsersOf
        <3>3. OnceEach(f[0]) /\ \A j \in 1..Len(f[0]) : f[0][j].op = "user"
            BY <3>1 DEF OnceEach
        <3> QED BY <2>2, <2>3, <3>2, <3>3 DEF Good
    <2>4. CASE k # 0
        <3>1. k \in 1..Len(m) /\ k - 1 \in 0..Len(m) /\ ~(k <= k - 1)
            BY <1>0, <2>2, <2>4
        <3>2. Good(k - 1)
            BY <2>2, <3>1
        <3>3. f[k] = Told(m, k, f[k - 1]) /\ f[k - 1] \in Seq(Event) /\ m[k] \in Event
            BY <1>1, <3>1 DEF Tells
        <3>4. \A l : l \in 1..k <=> l \in 1..(k - 1) \/ l = k
            BY <3>1
        <3>5. \A i : /\ i \in UpTo(k) <=> \E l \in 1..k : m[l].op = "user" /\ i = m[l].name
                     /\ i \in UpTo(k - 1) <=> \E l \in 1..(k - 1) : m[l].op = "user" /\ i = m[l].name
            OBVIOUS
        <3>6. UpTo(k) = UpTo(k - 1) \union (IF m[k].op = "user" THEN {m[k].name} ELSE {})
            BY <3>4, <3>5
        <3>7. m[k].op = "user" => m[k].name \notin UpTo(k - 1)
            <4> SUFFICES ASSUME m[k].op = "user", m[k].name \in UpTo(k - 1) PROVE FALSE
                OBVIOUS
            <4>1. PICK l \in 1..(k - 1) : m[l].op = "user" /\ m[k].name = m[l].name
                BY <3>5
            <4>2. l \in 1..Len(m) /\ l # k
                BY <1>0, <3>1
            <4> QED BY <3>1, <4>1, <4>2 DEF OnceEach
        <3> HIDE DEF UpTo
        <3>8. CASE m[k].op = "user"
            <4>1. PICK a : a = Append(f[k - 1], m[k])
                OBVIOUS
            <4>2. f[k] = a
                BY <3>3, <3>8, <4>1 DEF Told
            <4>3. UsersOf(a) = UpTo(k)
                BY <3>2, <3>3, <3>6, <3>8, <4>1, UsersAppend DEF Good
            <4>4. OnceEach(a)
                BY <3>2, <3>3, <3>7, <4>1, OnceAppend DEF Good
            <4>5. \A j \in 1..Len(a) : a[j].op = "user"
                <5>1. /\ Len(f[k - 1]) \in Nat /\ Len(a) = Len(f[k - 1]) + 1 /\ a[Len(f[k - 1]) + 1] = m[k]
                      /\ \A j \in 1..Len(f[k - 1]) : a[j] = f[k - 1][j]
                    BY <3>3, <4>1, MailAppend
                <5>2. \A j : j \in 1..Len(a) => j \in 1..Len(f[k - 1]) \/ j = Len(f[k - 1]) + 1
                    BY <5>1
                <5> QED BY <3>2, <3>8, <5>1, <5>2 DEF Good
            <4> QED BY <2>2, <4>2, <4>3, <4>4, <4>5 DEF Good
        <3>9. CASE m[k].op # "user"
            <4>1. f[k] = f[k - 1] /\ UpTo(k) = UpTo(k - 1)
                BY <3>3, <3>6, <3>9 DEF Told
            <4> QED BY <2>2, <3>2, <4>1 DEF Good
        <3> QED BY <3>8, <3>9
    <2> QED BY <2>3, <2>4
<1>3. Good(Len(m))
    <2> HIDE DEF Good
    <2> QED BY <1>0, <1>2
<1>4. f[Len(m)] \in Seq(Event)
    BY <1>0, <1>1 DEF Tells
<1>5. UsersOf(m) = UpTo(Len(m))
    BY DEF UsersOf
<1> QED BY <1>1, <1>3, <1>4, <1>5

-----------------------------------------------------------------------------
(* Counting. *)

\* A part of a finite set has at most its size.
LEMMA CountSubset ==
    ASSUME NEW S, IsFiniteSet(S), NEW T, T \subseteq S
    PROVE  IsFiniteSet(T) /\ Cardinality(T) \in Nat /\ Cardinality(T) <= Cardinality(S)
BY FS_Subset, FS_CardinalityType

\* One element more adds at most one to the size.
LEMMA CountMore ==
    ASSUME NEW S, IsFiniteSet(S), NEW T, NEW n, T \subseteq S \union {n}
    PROVE  IsFiniteSet(T) /\ Cardinality(T) \in Nat /\ Cardinality(T) <= Cardinality(S) + 1
<1>1. Cardinality(S) \in Nat
    BY FS_CardinalityType
<1>2. IsFiniteSet(S \union {n}) /\ Cardinality(S \union {n}) \in Nat
    BY FS_AddElement, FS_CardinalityType
<1>3. Cardinality(S \union {n}) <= Cardinality(S) + 1
    <2>1. CASE n \in S
        <3>1. Cardinality(S \union {n}) = Cardinality(S)
            BY <2>1, FS_AddElement
        <3> QED BY <1>1, <3>1
    <2>2. CASE n \notin S
        <3>1. Cardinality(S \union {n}) = Cardinality(S) + 1
            BY <2>2, FS_AddElement
        <3> QED BY <1>1, <3>1
    <2> QED BY <2>1, <2>2
<1>4. IsFiniteSet(T) /\ Cardinality(T) \in Nat /\ Cardinality(T) <= Cardinality(S \union {n})
    BY <1>2, CountSubset
<1> QED BY <1>1, <1>2, <1>3, <1>4

\* One element less takes one from the size.
LEMMA CountLess ==
    ASSUME NEW S, IsFiniteSet(S), NEW T, NEW n \in S, T \subseteq S \ {n}
    PROVE  IsFiniteSet(T) /\ Cardinality(T) \in Nat /\ Cardinality(T) <= Cardinality(S) - 1
<1>1. Cardinality(S) \in Nat
    BY FS_CardinalityType
<1>2. IsFiniteSet(S \ {n}) /\ Cardinality(S \ {n}) \in Nat /\ Cardinality(S \ {n}) = Cardinality(S) - 1
    BY FS_RemoveElement, FS_CardinalityType
<1>3. IsFiniteSet(T) /\ Cardinality(T) \in Nat /\ Cardinality(T) <= Cardinality(S \ {n})
    BY <1>2, CountSubset
<1> QED BY <1>1, <1>2, <1>3

\* The requests at a step can be counted.
LEMMA AtCount ==
    ASSUME NEW s
    PROVE  IsFiniteSet(At(s)) /\ Cardinality(At(s)) \in Nat /\ (Cardinality(At(s)) = 0 => At(s) = {})
<1>1. IsFiniteSet(1..MaxNodeAdds) /\ At(s) \subseteq 1..MaxNodeAdds
    BY FS_Interval DEF At
<1>2. IsFiniteSet(At(s))
    BY <1>1, FS_Subset
<1> QED BY <1>2, FS_CardinalityType, FS_EmptySet

\* A request that goes on is counted where it comes to.
LEMMA AtMoves ==
    ASSUME NodeTypes, NEW i \in 1..MaxNodeAdds, NEW from \in Steps, NEW to \in Steps, from # to, Step(i, from, to)
    PROVE  /\ Cardinality(At(to)') = Cardinality(At(to)) + 1
           /\ Cardinality(At(from)') = Cardinality(At(from)) - 1
<1>1. /\ At(to)' = At(to) \union {i} /\ i \notin At(to)
      /\ At(from)' = At(from) \ {i} /\ i \in At(from)
    BY StepAt
<1>2. IsFiniteSet(At(to)) /\ IsFiniteSet(At(from))
    BY AtCount
<1>3. Cardinality(At(to) \union {i}) = Cardinality(At(to)) + 1
    BY <1>1, <1>2, FS_AddElement
<1>4. Cardinality(At(from) \ {i}) = Cardinality(At(from)) - 1
    BY <1>1, <1>2, FS_RemoveElement
<1> QED BY <1>1, <1>3, <1>4

\* Crashes and namesakes are only counted where they are the fault.
LEMMA FaultsAre ==
    ASSUME NodesInv
    PROVE  /\ nodeFault # "crash" => nodeCrashes = 0
           /\ nodeFault # "namesake" => namesakes = 0
           /\ nodeFault \notin {"crash", "namesake"} => nodeCrashes + namesakes = 0
           /\ nodeCrashes + namesakes = 0 <=> nodeCrashes = 0 /\ namesakes = 0
BY DEF NodesInv, NodeTypes, Registered

\* The numbers of Counted are numbers.
LEMMA CountsAre ==
    ASSUME NodesInv
    PROVE  /\ IsFiniteSet(Underway) /\ Cardinality(Underway) \in Nat
           /\ Cardinality(At("tell")) \in Nat /\ Len(toSelf) \in Nat /\ Claimed \in Nat /\ Claimed <= 1
           /\ nodeCrashes \in Nat /\ namesakes \in Nat
           /\ Cardinality(Underway) + Len(toSelf) + Cardinality(At("tell")) <= Claimed + nodeCrashes + namesakes
<1>1. IsFiniteSet(Underway) /\ Cardinality(Underway) \in Nat
    BY FS_CardinalityType DEF NodesInv, Counted
<1>2. Cardinality(At("tell")) \in Nat
    BY AtCount
<1> QED BY <1>1, <1>2 DEF NodesInv, NodeTypes, Counted, Claimed

\* Without crashes and namesakes a claim accounts for one name under way, and no more.
LEMMA OneForAClaim ==
    ASSUME NodesInv, nodeCrashes + namesakes = 0
    PROVE  /\ toNode.busy # 1 => Underway = {} /\ toSelf = <<>> /\ At("tell") = {}
           /\ Underway # {} => toNode.busy = 1 /\ toSelf = <<>> /\ At("tell") = {}
           /\ toSelf # <<>> => toNode.busy = 1 /\ Underway = {} /\ At("tell") = {}
           /\ At("tell") # {} => toNode.busy = 1 /\ Underway = {} /\ toSelf = <<>>
<1>1. Cardinality(Underway) + Len(toSelf) + Cardinality(At("tell")) <= Claimed
    BY CountsAre
<1>2. Cardinality(Underway) \in Nat /\ (Cardinality(Underway) = 0 => Underway = {})
    BY CountsAre, FS_EmptySet
<1>3. Cardinality(At("tell")) \in Nat /\ (Cardinality(At("tell")) = 0 => At("tell") = {})
    BY AtCount
<1>4. Len(toSelf) \in Nat /\ (Len(toSelf) = 0 => toSelf = <<>>)
    BY DEF NodesInv, NodeTypes
<1> QED BY <1>1, <1>2, <1>3, <1>4 DEF Claimed

\* What the process reads leaves the mail.
LEMMA ReadsIs ==
    ASSUME NodesInv, NEW op \in {"user", "ack", "error"}, Reads(op)
    PROVE  /\ ~nodeQuit /\ copying = NoCopy
           /\ nodeMail' \in Seq(Event) /\ OnceEach(nodeMail') /\ OneAnswer(nodeMail', nodeSent)
           /\ (\A k \in 1..Len(nodeMail) : nodeMail[k].op # "error") =>
                op # "error" /\ \A k \in 1..Len(nodeMail') : nodeMail'[k].op # "error"
           /\ \E n \in NodeName :
                /\ n = Head(nodeMail).name
                /\ op = "user" => n \in Users /\ n \in registered /\ Users' = Users \ {n}
                /\ op # "user" => /\ n = nodeSent /\ Users' = Users
                                  /\ OneAnswer(nodeMail', "none")
<1>1. /\ ~nodeQuit /\ copying = NoCopy /\ nodeMail # <<>> /\ Head(nodeMail).op = op /\ nodeMail' = Tail(nodeMail)
      /\ nodeMail \in Seq(Event) /\ OnceEach(nodeMail) /\ OneAnswer(nodeMail, nodeSent) /\ Users \subseteq registered
    BY DEF Reads, NodesInv, NodeTypes, ToldOnce
<1>2. PICK t : t = Tail(nodeMail)
    OBVIOUS
<1>3. /\ t \in Seq(Event) /\ Len(nodeMail) \in Nat /\ Len(nodeMail) >= 1 /\ Len(t) = Len(nodeMail) - 1
      /\ \A k \in 1..(Len(nodeMail) - 1) : t[k] = nodeMail[k + 1]
      /\ Head(nodeMail) = nodeMail[1] /\ nodeMail[1] \in Event /\ 1 \in 1..Len(nodeMail)
    BY <1>1, <1>2, Mail
<1>4. nodeMail[1].op = op /\ nodeMail[1].name \in NodeName
    BY <1>1, <1>3 DEF Event
<1>5. /\ UsersOf(t) = UsersOf(nodeMail) \ (IF op = "user" THEN {nodeMail[1].name} ELSE {})
      /\ op = "user" => nodeMail[1].name \in UsersOf(nodeMail)
      /\ OnceEach(t) /\ OneAnswer(t, nodeSent)
      /\ op # "user" => \A k \in 1..Len(t) : t[k].op = "user"
    BY <1>1, <1>2, <1>4, UsersTail
<1>6. op # "user" => nodeMail[1].name = nodeSent /\ UsersOf(t) = UsersOf(nodeMail) /\ OneAnswer(t, "none")
    BY <1>1, <1>3, <1>4, <1>5 DEF OneAnswer
<1>7. (\A k \in 1..Len(nodeMail) : nodeMail[k].op # "error") => op # "error" /\ \A k \in 1..Len(t) : t[k].op # "error"
    <2>1. \A k \in 1..Len(t) : k \in 1..(Len(nodeMail) - 1) /\ k + 1 \in 1..Len(nodeMail)
        BY <1>3
    <2> QED BY <1>3, <1>4, <2>1
<1> QED BY <1>1, <1>2, <1>3, <1>4, <1>5, <1>6, <1>7 DEF Users


\* NodesInv through a request that looks for the name in the file (service.go).
LEMMA FindKeeps ==
    ASSUME NodesInv, NEW i \in 1..MaxNodeAdds, NEW n \in NodeName, NEW x \in NodeAddr, FindNode(i, n, x)
    PROVE  NodesInv'
<1>0. /\ nodeFault' = nodeFault /\ nodeSet' = nodeSet /\ toNode' = toNode /\ nodeRecs' = nodeRecs
      /\ nodeSent' = nodeSent /\ nodeMail' = nodeMail /\ waiting' = waiting /\ toSelf' = toSelf
      /\ copying' = copying /\ replica' = replica /\ registered' = registered /\ nodeQuit' = nodeQuit
      /\ failures' = failures /\ nodeCrashes' = nodeCrashes /\ namesakes' = namesakes
    BY DEF FindNode, conf, memory, server, tally

<1>1. /\ adding' \in [1..MaxNodeAdds -> Request]
      /\ adding'[i] = [name |-> n, addr |-> x, found |-> nodeSet[n], step |-> "found"]
      /\ \A j \in 1..MaxNodeAdds : j # i => adding'[j] = adding[j]
      /\ adding[i].step = "new" /\ ~nodeQuit /\ asked' = asked \union {<<n, x>>}
    BY DEF FindNode, NodesInv, NodeTypes, Request, Statuses
<1>2. \A s : s # "new" /\ s # "found" => At(s)' = At(s)
    BY <1>1 DEF At
<1>3. nodeFault # "twice" => \A j \in 1..MaxNodeAdds : Busy(j) => adding[j].name # n
    BY DEF FindNode, NodesInv, NodeTypes
<1>4. nodeFault = "meanwhile" /\ Underway # {} => toNode.busy = 1
    BY OneForAClaim, FaultsAre
<1>5. nodeFault = "meanwhile" /\ nodeSet[n] \in New => n \notin registered \/ n \in Users
    BY DEF NodesInv, Awaited
<1>nodeTypes. NodeTypes'
    BY <1>0, <1>1, <1>2 DEF NodesInv, NodeTypes
<1>addressed. Addressed'
    BY <1>0, <1>1, <1>2 DEF NodesInv, Addressed, At, Busy
<1>inUse. InUse'
    BY <1>0, <1>1, <1>2 DEF NodesInv, InUse, At, Copies
<1>toldOnce. ToldOnce'
    BY <1>0, <1>1, <1>2 DEF NodesInv, ToldOnce, Users
<1>counted. Counted'
    BY <1>0, <1>1, <1>2 DEF NodesInv, Counted, Claimed, Underway, Users
<1>registered. Registered'
    BY <1>0, <1>1, <1>2 DEF NodesInv, Registered, Beyond, Busy, InSelf
<1>inFile. InFile'

    <2> SUFFICES ASSUME nodeFault # "twice" PROVE InFile'
        BY <1>0 DEF InFile
    <2>1. \A j \in 1..MaxNodeAdds : j # i => Busy(j)' = Busy(j)
        BY <1>1 DEF Busy
    <2>2. /\ adding'[i].name = n /\ adding'[i].found = nodeSet[n] /\ adding'[i].step = "found"
        BY <1>1
    <2>3. ASSUME NEW j \in 1..MaxNodeAdds, NEW k \in 1..MaxNodeAdds,
                 Busy(j)', Busy(k)', adding'[j].name = adding'[k].name
          PROVE  j = k
        BY <1>0, <1>1, <1>3, <2>1, <2>2, <2>3 DEF NodesInv, InFile
    <2>4. ASSUME NEW j \in 1..MaxNodeAdds, Busy(j)', adding'[j].step # "found" \/ adding'[j].found # "none"
          PROVE  nodeSet'[adding'[j].name] # "none"
        BY <1>0, <1>1, <2>1, <2>2, <2>4 DEF NodesInv, InFile
    <2> QED BY <2>3, <2>4 DEF InFile
<1>known. Known'
    BY <1>0, <1>1, <1>2 DEF NodesInv, Known, OnTheWay, Underway, Users, InSelf
<1>askedFor. AskedFor'
    BY <1>0, <1>1, <1>2 DEF NodesInv, AskedFor, Underway, Users, InSelf
<1>clientThere. ClientThere'
    BY <1>0, <1>1, <1>2 DEF NodesInv, ClientThere, At
<1>started. Started'
    BY <1>0, <1>1, <1>2 DEF NodesInv, Started
<1>noAssert. NoAssert'
    BY <1>0, <1>1, <1>2 DEF NodesInv, NoAssert
<1>awaited. Awaited'
    BY <1>0, <1>1, <1>2 DEF NodesInv, Awaited, Users, New
<1>unregistered. Unregistered'
    BY <1>0, <1>1, <1>4, <1>5 DEF NodesInv, Unregistered, At, New, Underway
<1>staysAllowed. StaysAllowed'
    BY <1>0, <1>1, <1>2 DEF NodesInv, StaysAllowed, InSelf, Busy, Allowed
<1>comes. Comes'
    BY <1>0, <1>1, <1>2 DEF NodesInv, Comes, Underway, Users, At
<1> QED BY <1>nodeTypes, <1>addressed, <1>inUse, <1>toldOnce, <1>counted, <1>registered, <1>inFile, <1>known, <1>askedFor, <1>clientThere, <1>started, <1>noAssert, <1>awaited, <1>unregistered, <1>staysAllowed, <1>comes DEF NodesInv

\* NodesInv through a request that writes the name to the file.
LEMMA AddKeeps ==
    ASSUME NodesInv, NEW i \in 1..MaxNodeAdds, AddNode(i)
    PROVE  NodesInv'
<1>0. /\ nodeFault' = nodeFault /\ toNode' = toNode /\ nodeRecs' = nodeRecs /\ nodeSent' = nodeSent
      /\ nodeMail' = nodeMail /\ waiting' = waiting /\ toSelf' = toSelf /\ copying' = copying
      /\ replica' = replica /\ registered' = registered /\ asked' = asked /\ failures' = failures
      /\ nodeCrashes' = nodeCrashes /\ namesakes' = namesakes
    BY DEF AddNode, conf, memory, server, tally

<1>1. PICK to \in Steps : /\ Step(i, "found", to) /\ to # "found" /\ "found" \in Steps
                          /\ to = IF adding[i].found = "ready" THEN "ready"
                                  ELSE IF adding[i].found \in {"none", "pending", "allowed"} THEN "pin" ELSE "done"
    BY DEF AddNode, Steps
<1>2. /\ adding' \in [1..MaxNodeAdds -> Request]
      /\ adding'[i].name = adding[i].name /\ adding'[i].addr = adding[i].addr
      /\ adding'[i].found = adding[i].found /\ adding'[i].step = to
      /\ \A j \in 1..MaxNodeAdds : j # i => adding'[j] = adding[j]
      /\ adding[i].step = "found" /\ ~nodeQuit
    BY <1>1, StepIs DEF NodesInv
<1>3. /\ At(to)' = At(to) \union {i}
      /\ At("found")' = At("found") \ {i} /\ i \in At("found")
      /\ \A s : s # "found" /\ s # to => At(s)' = At(s)
    BY <1>1, StepAt DEF NodesInv

<1>4. /\ nodeQuit' = (adding[i].found = "none" /\ nodeSet[adding[i].name] # "none")
      /\ nodeSet' = IF adding[i].found = "none" /\ ~nodeQuit'
                    THEN [nodeSet EXCEPT ![adding[i].name] = "pending"] ELSE nodeSet
      /\ to \in {"ready", "pin", "done"}
      /\ to = "pin" <=> adding[i].found \in {"none", "pending", "allowed"}
      /\ to = "ready" <=> adding[i].found = "ready"
    BY <1>1 DEF AddNode
<1>5. adding[i].name \in NodeName
    BY <1>2 DEF NodesInv, Addressed, Busy
<1>6. /\ nodeSet' \in [NodeName -> Statuses]
      /\ \A n \in NodeName : nodeSet'[n] # nodeSet[n] =>
           n = adding[i].name /\ nodeSet'[n] = "pending" /\ nodeSet[n] = "none" /\ adding[i].found = "none"
      /\ adding[i].found = "none" /\ ~nodeQuit' => nodeSet'[adding[i].name] = "pending"
      /\ adding[i].found = "none" => nodeSet'[adding[i].name] # "none"
    BY <1>4, <1>5 DEF NodesInv, NodeTypes, Statuses
<1>nodeTypes. NodeTypes'
    BY <1>0, <1>1, <1>2, <1>3, <1>4, <1>5, <1>6 DEF NodesInv, NodeTypes
<1>addressed. Addressed'
    BY <1>0, <1>1, <1>2, <1>3, <1>4, <1>5, <1>6 DEF NodesInv, Addressed, At, Busy
<1>inUse. InUse'
    BY <1>0, <1>1, <1>2, <1>3, <1>4, <1>5, <1>6 DEF NodesInv, InUse, At, Copies
<1>toldOnce. ToldOnce'
    BY <1>0, <1>1, <1>2, <1>3, <1>4, <1>5, <1>6 DEF NodesInv, ToldOnce, Users
<1>counted. Counted'
    BY <1>0, <1>1, <1>2, <1>3, <1>4, <1>5, <1>6 DEF NodesInv, Counted, Claimed, Underway, Users
<1>registered. Registered'
    BY <1>0, <1>1, <1>2, <1>3, <1>4, <1>5, <1>6 DEF NodesInv, Registered, Beyond, Busy, InSelf
<1>inFile. InFile'

    <2> SUFFICES ASSUME nodeFault # "twice" PROVE InFile'
        BY <1>0 DEF InFile
    <2>1. \A j \in 1..MaxNodeAdds : /\ Busy(j)' => Busy(j)
                                   /\ adding'[j].name = adding[j].name /\ adding'[j].found = adding[j].found
        BY <1>2 DEF Busy
    <2>2. ASSUME NEW j \in 1..MaxNodeAdds, NEW k \in 1..MaxNodeAdds,
                 Busy(j)', Busy(k)', adding'[j].name = adding'[k].name
          PROVE  j = k
        BY <1>0, <2>1, <2>2 DEF NodesInv, InFile
    <2>3. ASSUME NEW j \in 1..MaxNodeAdds, Busy(j)', adding'[j].step # "found" \/ adding'[j].found # "none"
          PROVE  nodeSet'[adding'[j].name] # "none"
        <3>1. adding[j].name \in NodeName /\ Busy(j)
            BY <2>1, <2>3 DEF NodesInv, Addressed
        <3> QED BY <1>0, <1>2, <2>1, <2>3, <3>1, <1>6 DEF NodesInv, InFile
    <2> QED BY <2>2, <2>3 DEF InFile
<1>known. Known'

    <2> SUFFICES ASSUME nodeFault # "twice", namesakes = 0 PROVE Known'
        BY <1>0 DEF Known
    <2>1. \A n : OnTheWay(n)' = OnTheWay(n)
        BY <1>0 DEF OnTheWay, Underway, Users, InSelf
    <2>2. adding[i].found = "none" => nodeSet[adding[i].name] = "none" /\ ~OnTheWay(adding[i].name)
        BY <1>2, <1>5 DEF NodesInv, Known
    <2>3. ~nodeQuit'
        BY <1>4, <2>2
    <2>4. ASSUME NEW n \in NodeName, OnTheWay(n)' PROVE nodeSet'[n] # "none"
        BY <1>6, <2>1, <2>4 DEF NodesInv, Known
    <2>5. ASSUME NEW j \in 1..MaxNodeAdds, adding'[j].step = "found", adding'[j].found = "none"
          PROVE  nodeSet'[adding'[j].name] = "none"
        <3>1. j # i /\ adding'[j] = adding[j] /\ Busy(i) /\ Busy(j)
            BY <1>2, <1>4, <2>5 DEF Busy
        <3>2. adding[j].name # adding[i].name /\ adding[j].name \in NodeName
            BY <3>1 DEF NodesInv, InFile, Addressed
        <3> QED BY <1>6, <2>5, <3>1, <3>2 DEF NodesInv, Known
    <2>6. ASSUME NEW j \in 1..MaxNodeAdds, NEW n \in NodeName,
                 adding'[j].step \in {"pin", "drop"}, adding'[j].found = "none", adding'[j].name = n
          PROVE  nodeSet'[n] = "pending" /\ ~OnTheWay(n)'
        <3>1. CASE j = i
            BY <1>2, <1>6, <2>1, <2>2, <2>3, <2>6, <3>1
        <3>2. CASE j # i
            <4>1. adding'[j] = adding[j]
                BY <1>2, <3>2
            <4> QED BY <1>6, <2>1, <2>6, <4>1 DEF NodesInv, Known
        <3> QED BY <3>1, <3>2
    <2>7. nodeFault' # "twice" /\ namesakes' = 0
        BY <1>0
    <2> QED BY <2>4, <2>5, <2>6 DEF Known
<1>askedFor. AskedFor'
    BY <1>0, <1>1, <1>2, <1>3, <1>4, <1>5, <1>6 DEF NodesInv, AskedFor, Underway, Users, InSelf
<1>clientThere. ClientThere'
    BY <1>0, <1>1, <1>2, <1>3, <1>4, <1>5, <1>6 DEF NodesInv, ClientThere, At
<1>started. Started'
    BY <1>0, <1>1, <1>2, <1>3, <1>4, <1>5, <1>6 DEF NodesInv, Started
<1>noAssert. NoAssert'

    <2> SUFFICES ASSUME nodeFault \notin {"twice", "namesake", "meanwhile"} PROVE ~nodeQuit'
        BY <1>0 DEF NoAssert
    <2>1. namesakes = 0
        BY FaultsAre
    <2>2. adding[i].found = "none" => nodeSet[adding[i].name] = "none"
        BY <1>2, <2>1 DEF NodesInv, Known
    <2> QED BY <1>4, <2>2
<1>awaited. Awaited'
    BY <1>0, <1>1, <1>2, <1>3, <1>4, <1>5, <1>6 DEF NodesInv, Awaited, Users, New
<1>unregistered. Unregistered'
    BY <1>0, <1>1, <1>2, <1>3, <1>4, <1>5, <1>6 DEF NodesInv, Unregistered, At, New
<1>staysAllowed. StaysAllowed'
    BY <1>0, <1>1, <1>2, <1>3, <1>4, <1>5, <1>6 DEF NodesInv, StaysAllowed, InSelf, Busy, Allowed
<1>comes. Comes'
    BY <1>0, <1>1, <1>2, <1>3, <1>4, <1>5, <1>6 DEF NodesInv, Comes, Underway, Users, At
<1> QED BY <1>nodeTypes, <1>addressed, <1>inUse, <1>toldOnce, <1>counted, <1>registered, <1>inFile, <1>known, <1>askedFor, <1>clientThere, <1>started, <1>noAssert, <1>awaited, <1>unregistered, <1>staysAllowed, <1>comes DEF NodesInv

\* NodesInv through a request that claims the address (node.go, createNode).
LEMMA ClaimKeeps ==
    ASSUME NodesInv, NEW i \in 1..MaxNodeAdds, ClaimNode(i)
    PROVE  NodesInv'
<1>0. /\ nodeFault' = nodeFault /\ nodeSet' = nodeSet /\ nodeRecs' = nodeRecs /\ nodeSent' = nodeSent
      /\ nodeMail' = nodeMail /\ waiting' = waiting /\ toSelf' = toSelf /\ copying' = copying
      /\ replica' = replica /\ registered' = registered /\ nodeQuit' = nodeQuit /\ asked' = asked
      /\ failures' = failures /\ nodeCrashes' = nodeCrashes /\ namesakes' = namesakes
    BY DEF ClaimNode, conf, memory, server, tally

<1>1. PICK to \in Steps : /\ Step(i, "pin", to) /\ to # "pin" /\ "pin" \in Steps
                          /\ to = "tell"
    BY DEF ClaimNode, Steps
<1>2. /\ adding' \in [1..MaxNodeAdds -> Request]
      /\ adding'[i].name = adding[i].name /\ adding'[i].addr = adding[i].addr
      /\ adding'[i].found = adding[i].found /\ adding'[i].step = to
      /\ \A j \in 1..MaxNodeAdds : j # i => adding'[j] = adding[j]
      /\ adding[i].step = "pin" /\ ~nodeQuit
    BY <1>1, StepIs DEF NodesInv
<1>3. /\ At(to)' = At(to) \union {i}
      /\ At("pin")' = At("pin") \ {i} /\ i \in At("pin")
      /\ \A s : s # "pin" /\ s # to => At(s)' = At(s)
    BY <1>1, StepAt DEF NodesInv

<1>4. Busy(i) /\ adding[i].name \in NodeName /\ adding[i].addr \in NodeAddr
    BY <1>2 DEF NodesInv, Addressed, Busy

<1>5. toNode.busy = 0 /\ toNode' = [addr |-> adding[i].addr, busy |-> 1, client |-> TRUE]
    BY DEF ClaimNode, Claims
<1>6. Copies' = Copies /\ ~Copies /\ At("start") = {}
    BY <1>0, <1>5 DEF NodesInv, InUse, Copies
<1>7. nodeCrashes + namesakes = 0 => Underway = {} /\ toSelf = <<>> /\ At("tell") = {}
    BY <1>5, OneForAClaim
<1>8. Underway' = Underway /\ InSelf' = InSelf /\ (toSelf = <<>> => InSelf = {})
    BY <1>0 DEF Underway, Users, InSelf
<1>nodeTypes. NodeTypes'
    BY <1>0, <1>1, <1>2, <1>3, <1>4, <1>5, <1>6, <1>7 DEF NodesInv, NodeTypes
<1>addressed. Addressed'
    BY <1>0, <1>1, <1>2, <1>3, <1>4, <1>5, <1>6, <1>7 DEF NodesInv, Addressed, At, Busy
<1>inUse. InUse'
    BY <1>0, <1>1, <1>2, <1>3, <1>4, <1>5, <1>6, <1>7 DEF NodesInv, InUse, At, Copies
<1>toldOnce. ToldOnce'
    BY <1>0, <1>1, <1>2, <1>3, <1>4, <1>5, <1>6, <1>7 DEF NodesInv, ToldOnce, Users
<1>counted. Counted'

    <2>1. Cardinality(At("tell")') = Cardinality(At("tell")) + 1
        BY <1>1, AtMoves DEF NodesInv
    <2> QED BY <1>0, <1>5, <1>8, <2>1, CountsAre DEF Counted, Claimed
<1>registered. Registered'
    BY <1>0, <1>1, <1>2, <1>3, <1>4, <1>5, <1>6, <1>7 DEF NodesInv, Registered, Beyond, Busy, InSelf
<1>inFile. InFile'
    BY <1>0, <1>1, <1>2, <1>3, <1>4, <1>5, <1>6, <1>7 DEF NodesInv, InFile, Busy
<1>known. Known'
    BY <1>0, <1>1, <1>2, <1>3, <1>4, <1>5, <1>6, <1>7 DEF NodesInv, Known, OnTheWay, Underway, Users, InSelf
<1>askedFor. AskedFor'

    <2> SUFFICES ASSUME nodeCrashes + namesakes = 0 PROVE AskedFor'
        BY <1>0 DEF AskedFor
    <2>1. Underway' \union InSelf' = {}
        BY <1>7, <1>8
    <2>2. toNode'.busy = 1 /\ copying'.step # "copy" /\ copying'.step # "start"
        BY <1>0, <1>5, <1>6 DEF Copies
    <2> QED BY <1>0, <2>1, <2>2 DEF NodesInv, AskedFor
<1>clientThere. ClientThere'
    BY <1>0, <1>1, <1>2, <1>3, <1>4, <1>5, <1>6, <1>7 DEF NodesInv, ClientThere, At
<1>started. Started'
    BY <1>0, <1>1, <1>2, <1>3, <1>4, <1>5, <1>6, <1>7 DEF NodesInv, Started
<1>noAssert. NoAssert'
    BY <1>0, <1>1, <1>2, <1>3, <1>4, <1>5, <1>6, <1>7 DEF NodesInv, NoAssert
<1>awaited. Awaited'
    BY <1>0, <1>1, <1>2, <1>3, <1>4, <1>5, <1>6, <1>7 DEF NodesInv, Awaited, Users, New
<1>unregistered. Unregistered'

    <2> SUFFICES ASSUME nodeFault = "meanwhile" PROVE Unregistered'
        BY <1>0 DEF Unregistered
    <2>1. At("tell")' = {i}
        BY <1>1, <1>3, <1>7, FaultsAre
    <2>2. adding'[i].found \in New => adding'[i].name \notin registered
        BY <1>2, <1>5, <1>6 DEF NodesInv, Unregistered, At, Copies
    <2> QED BY <1>0, <1>5, <2>1, <2>2 DEF NodesInv, Unregistered
<1>staysAllowed. StaysAllowed'
    BY <1>0, <1>1, <1>2, <1>3, <1>4, <1>5, <1>6, <1>7 DEF NodesInv, StaysAllowed, InSelf, Busy, Allowed
<1>comes. Comes'
    BY <1>0, <1>1, <1>2, <1>3, <1>4, <1>5, <1>6, <1>7 DEF NodesInv, Comes, Underway, Users, At
<1> QED BY <1>nodeTypes, <1>addressed, <1>inUse, <1>toldOnce, <1>counted, <1>registered, <1>inFile, <1>known, <1>askedFor, <1>clientThere, <1>started, <1>noAssert, <1>awaited, <1>unregistered, <1>staysAllowed, <1>comes DEF NodesInv

\* NodesInv through a request that finds the address in use.
LEMMA RefuseKeeps ==
    ASSUME NodesInv, NEW i \in 1..MaxNodeAdds, RefuseNode(i)
    PROVE  NodesInv'
<1>0. /\ nodeFault' = nodeFault /\ nodeSet' = nodeSet /\ toNode' = toNode /\ nodeRecs' = nodeRecs
      /\ nodeSent' = nodeSent /\ nodeMail' = nodeMail /\ waiting' = waiting /\ toSelf' = toSelf
      /\ copying' = copying /\ replica' = replica /\ registered' = registered /\ nodeQuit' = nodeQuit
      /\ asked' = asked /\ nodeCrashes' = nodeCrashes /\ namesakes' = namesakes
    BY DEF RefuseNode, conf, memory, server, tally

<1>1. PICK to \in Steps : /\ Step(i, "pin", to) /\ to # "pin" /\ "pin" \in Steps
                          /\ to = IF adding[i].found = "none" THEN "drop" ELSE "done"
    BY DEF RefuseNode, Steps
<1>2. /\ adding' \in [1..MaxNodeAdds -> Request]
      /\ adding'[i].name = adding[i].name /\ adding'[i].addr = adding[i].addr
      /\ adding'[i].found = adding[i].found /\ adding'[i].step = to
      /\ \A j \in 1..MaxNodeAdds : j # i => adding'[j] = adding[j]
      /\ adding[i].step = "pin" /\ ~nodeQuit
    BY <1>1, StepIs DEF NodesInv
<1>3. /\ At(to)' = At(to) \union {i}
      /\ At("pin")' = At("pin") \ {i} /\ i \in At("pin")
      /\ \A s : s # "pin" /\ s # to => At(s)' = At(s)
    BY <1>1, StepAt DEF NodesInv

<1>4. Busy(i) /\ adding[i].name \in NodeName /\ adding[i].addr \in NodeAddr
    BY <1>2 DEF NodesInv, Addressed, Busy

<1>5. failures' \in Nat
    BY DEF RefuseNode, Fails, NodesInv, NodeTypes
<1>nodeTypes. NodeTypes'
    BY <1>0, <1>1, <1>2, <1>3, <1>4, <1>5 DEF NodesInv, NodeTypes
<1>addressed. Addressed'
    BY <1>0, <1>1, <1>2, <1>3, <1>4, <1>5 DEF NodesInv, Addressed, At, Busy
<1>inUse. InUse'

    <2>1. At("start")' = At("start")
        BY <1>1, <1>3
    <2>2. Copies' = Copies
        BY <1>0 DEF Copies
    <2> QED BY <1>0, <2>1, <2>2 DEF NodesInv, InUse
<1>toldOnce. ToldOnce'
    BY <1>0, <1>1, <1>2, <1>3, <1>4, <1>5 DEF NodesInv, ToldOnce, Users
<1>counted. Counted'
    BY <1>0, <1>1, <1>2, <1>3, <1>4, <1>5 DEF NodesInv, Counted, Claimed, Underway, Users
<1>registered. Registered'
    BY <1>0, <1>1, <1>2, <1>3, <1>4, <1>5 DEF NodesInv, Registered, Beyond, Busy, InSelf
<1>inFile. InFile'
    BY <1>0, <1>1, <1>2, <1>3, <1>4, <1>5 DEF NodesInv, InFile, Busy
<1>known. Known'
    BY <1>0, <1>1, <1>2, <1>3, <1>4, <1>5 DEF NodesInv, Known, OnTheWay, Underway, Users, InSelf
<1>askedFor. AskedFor'
    BY <1>0, <1>1, <1>2, <1>3, <1>4, <1>5 DEF NodesInv, AskedFor, Underway, Users, InSelf
<1>clientThere. ClientThere'
    BY <1>0, <1>1, <1>2, <1>3, <1>4, <1>5 DEF NodesInv, ClientThere, At
<1>started. Started'
    BY <1>0, <1>1, <1>2, <1>3, <1>4, <1>5 DEF NodesInv, Started
<1>noAssert. NoAssert'
    BY <1>0, <1>1, <1>2, <1>3, <1>4, <1>5 DEF NodesInv, NoAssert
<1>awaited. Awaited'
    BY <1>0, <1>1, <1>2, <1>3, <1>4, <1>5 DEF NodesInv, Awaited, Users, New
<1>unregistered. Unregistered'
    BY <1>0, <1>1, <1>2, <1>3, <1>4, <1>5 DEF NodesInv, Unregistered, At, New
<1>staysAllowed. StaysAllowed'
    BY <1>0, <1>1, <1>2, <1>3, <1>4, <1>5 DEF NodesInv, StaysAllowed, InSelf, Busy, Allowed
<1>comes. Comes'
    BY <1>0, <1>1, <1>2, <1>3, <1>4, <1>5 DEF NodesInv, Comes, Underway, Users, At
<1> QED BY <1>nodeTypes, <1>addressed, <1>inUse, <1>toldOnce, <1>counted, <1>registered, <1>inFile, <1>known, <1>askedFor, <1>clientThere, <1>started, <1>noAssert, <1>awaited, <1>unregistered, <1>staysAllowed, <1>comes DEF NodesInv

\* NodesInv through a request that takes the refused name from the file.
LEMMA DropKeeps ==
    ASSUME NodesInv, NEW i \in 1..MaxNodeAdds, DropNode(i)
    PROVE  NodesInv'
<1>0. /\ nodeFault' = nodeFault /\ toNode' = toNode /\ nodeRecs' = nodeRecs /\ nodeSent' = nodeSent
      /\ nodeMail' = nodeMail /\ waiting' = waiting /\ toSelf' = toSelf /\ copying' = copying
      /\ replica' = replica /\ registered' = registered /\ nodeQuit' = nodeQuit /\ asked' = asked
      /\ failures' = failures /\ nodeCrashes' = nodeCrashes /\ namesakes' = namesakes
    BY DEF DropNode, conf, memory, server, tally

<1>1. PICK to \in Steps : /\ Step(i, "drop", to) /\ to # "drop" /\ "drop" \in Steps
                          /\ to = "done"
    BY DEF DropNode, Steps
<1>2. /\ adding' \in [1..MaxNodeAdds -> Request]
      /\ adding'[i].name = adding[i].name /\ adding'[i].addr = adding[i].addr
      /\ adding'[i].found = adding[i].found /\ adding'[i].step = to
      /\ \A j \in 1..MaxNodeAdds : j # i => adding'[j] = adding[j]
      /\ adding[i].step = "drop" /\ ~nodeQuit
    BY <1>1, StepIs DEF NodesInv
<1>3. /\ At(to)' = At(to) \union {i}
      /\ At("drop")' = At("drop") \ {i} /\ i \in At("drop")
      /\ \A s : s # "drop" /\ s # to => At(s)' = At(s)
    BY <1>1, StepAt DEF NodesInv

<1>4. Busy(i) /\ adding[i].name \in NodeName /\ adding[i].addr \in NodeAddr
    BY <1>2 DEF NodesInv, Addressed, Busy

<1>5. /\ nodeSet' \in [NodeName -> Statuses] /\ nodeSet'[adding[i].name] = "none"
      /\ \A n \in NodeName : n # adding[i].name => nodeSet'[n] = nodeSet[n]
    BY <1>4 DEF DropNode, SetNode, NodesInv, NodeTypes, Statuses
<1>6. adding[i].found = "none"
    BY <1>2 DEF NodesInv, Registered
<1>7. nodeFault # "twice" /\ namesakes = 0 => nodeSet[adding[i].name] = "pending" /\ ~OnTheWay(adding[i].name)
    BY <1>2, <1>4, <1>6 DEF NodesInv, Known
<1>8. nodeFault # "twice" => \A j \in 1..MaxNodeAdds : Busy(j)' =>
        /\ adding'[j] = adding[j] /\ Busy(j) /\ adding[j].name # adding[i].name /\ adding[j].name \in NodeName
    BY <1>1, <1>2, <1>4 DEF NodesInv, InFile, Addressed, Busy
<1>9. nodeFault = "meanwhile" =>
        /\ nodeSet[adding[i].name] = "pending" /\ ~OnTheWay(adding[i].name) /\ adding[i].name \notin registered
    <2> SUFFICES ASSUME nodeFault = "meanwhile"
                 PROVE  nodeSet[adding[i].name] = "pending" /\ ~OnTheWay(adding[i].name)
                        /\ adding[i].name \notin registered
        OBVIOUS
    <2>1. nodeSet[adding[i].name] = "pending" /\ ~OnTheWay(adding[i].name)
        BY <1>7, FaultsAre
    <2> QED BY <2>1 DEF NodesInv, Awaited, New, OnTheWay, Underway
<1>nodeTypes. NodeTypes'
    BY <1>0, <1>1, <1>2, <1>3, <1>4, <1>5, <1>6, <1>7 DEF NodesInv, NodeTypes
<1>addressed. Addressed'
    BY <1>0, <1>1, <1>2, <1>3, <1>4, <1>5, <1>6, <1>7 DEF NodesInv, Addressed, At, Busy
<1>inUse. InUse'
    BY <1>0, <1>1, <1>2, <1>3, <1>4, <1>5, <1>6, <1>7 DEF NodesInv, InUse, At, Copies
<1>toldOnce. ToldOnce'
    BY <1>0, <1>1, <1>2, <1>3, <1>4, <1>5, <1>6, <1>7 DEF NodesInv, ToldOnce, Users
<1>counted. Counted'
    BY <1>0, <1>1, <1>2, <1>3, <1>4, <1>5, <1>6, <1>7 DEF NodesInv, Counted, Claimed, Underway, Users
<1>registered. Registered'
    BY <1>0, <1>1, <1>2, <1>3, <1>4, <1>5, <1>6, <1>7 DEF NodesInv, Registered, Beyond, Busy, InSelf
<1>inFile. InFile'
    BY <1>0, <1>5, <1>8 DEF NodesInv, InFile
<1>known. Known'

    <2> SUFFICES ASSUME nodeFault # "twice", namesakes = 0 PROVE Known'
        BY <1>0 DEF Known
    <2>1. \A n : OnTheWay(n)' => OnTheWay(n)
        BY <1>0 DEF OnTheWay, Underway, Users, InSelf
    <2>2. \A n \in NodeName : OnTheWay(n)' => nodeSet'[n] # "none"
        BY <2>1, <1>0, <1>2, <1>5, <1>7, <1>8 DEF NodesInv, Known
    <2>3. \A j \in 1..MaxNodeAdds : adding'[j].step = "found" /\ adding'[j].found = "none" =>
            nodeSet'[adding'[j].name] = "none"
        BY <1>0, <1>2, <1>5, <1>7, <1>8 DEF NodesInv, Known, Busy
    <2>4. \A j \in 1..MaxNodeAdds, n \in NodeName :
            adding'[j].step \in {"pin", "drop"} /\ adding'[j].found = "none" /\ adding'[j].name = n =>
              nodeSet'[n] = "pending" /\ ~OnTheWay(n)'
        BY <2>1, <1>0, <1>2, <1>5, <1>7, <1>8 DEF NodesInv, Known, Busy
    <2>5. nodeFault' # "twice" /\ namesakes' = 0
        BY <1>0
    <2> QED BY <2>2, <2>3, <2>4, <2>5 DEF Known
<1>askedFor. AskedFor'
    BY <1>0, <1>1, <1>2, <1>3, <1>4, <1>5, <1>6, <1>7 DEF NodesInv, AskedFor, Underway, Users, InSelf
<1>clientThere. ClientThere'
    BY <1>0, <1>1, <1>2, <1>3, <1>4, <1>5, <1>6, <1>7 DEF NodesInv, ClientThere, At
<1>started. Started'
    BY <1>0, <1>1, <1>2, <1>3, <1>4, <1>5, <1>6, <1>7 DEF NodesInv, Started
<1>noAssert. NoAssert'
    BY <1>0, <1>1, <1>2, <1>3, <1>4, <1>5, <1>6, <1>7 DEF NodesInv, NoAssert
<1>awaited. Awaited'

    <2> SUFFICES ASSUME nodeFault = "meanwhile" PROVE Awaited'
        BY <1>0 DEF Awaited
    <2>1. Users' = Users
        BY <1>0 DEF Users
    <2>2. \A n \in Users : n \in NodeName /\ n # adding[i].name
        BY <1>9 DEF NodesInv, ToldOnce, NodeTypes, OnTheWay, Underway
    <2>3. \A n \in registered : n \in NodeName /\ n # adding[i].name
        BY <1>9 DEF NodesInv, NodeTypes
    <2> QED BY <1>0, <1>5, <2>1, <2>2, <2>3 DEF NodesInv, Awaited
<1>unregistered. Unregistered'
    BY <1>0, <1>1, <1>2, <1>3, <1>4, <1>5, <1>6, <1>7 DEF NodesInv, Unregistered, At, New
<1>staysAllowed. StaysAllowed'

    <2> SUFFICES ASSUME nodeFault = "meanwhile" PROVE StaysAllowed'
        BY <1>0 DEF StaysAllowed
    <2>1. \A n \in waiting \union InSelf : n \in NodeName /\ n # adding[i].name
        BY <1>9 DEF OnTheWay, Underway, InSelf, NodesInv, NodeTypes
    <2>2. copying # NoCopy => copying.name \in NodeName /\ copying.name # adding[i].name
        BY <1>9 DEF OnTheWay, NodesInv, NodeTypes
    <2> QED BY <1>0, <1>5, <1>8, <2>1, <2>2 DEF NodesInv, StaysAllowed, InSelf
<1>comes. Comes'
    BY <1>0, <1>1, <1>2, <1>3, <1>4, <1>5, <1>6, <1>7 DEF NodesInv, Comes, Underway, Users, At
<1> QED BY <1>nodeTypes, <1>addressed, <1>inUse, <1>toldOnce, <1>counted, <1>registered, <1>inFile, <1>known, <1>askedFor, <1>clientThere, <1>started, <1>noAssert, <1>awaited, <1>unregistered, <1>staysAllowed, <1>comes DEF NodesInv

\* NodesInv through a request that makes the record, or tells the receiver.
LEMMA TellKeeps ==
    ASSUME NodesInv, NEW i \in 1..MaxNodeAdds, TellNode(i)
    PROVE  NodesInv'
<1>0. /\ nodeFault' = nodeFault /\ nodeSet' = nodeSet /\ toNode' = toNode /\ nodeSent' = nodeSent
      /\ nodeMail' = nodeMail /\ waiting' = waiting /\ copying' = copying /\ replica' = replica
      /\ registered' = registered /\ nodeQuit' = nodeQuit /\ asked' = asked /\ failures' = failures
      /\ nodeCrashes' = nodeCrashes /\ namesakes' = namesakes
    BY DEF TellNode, conf, memory, server, tally

<1>1. PICK to \in Steps : /\ Step(i, "tell", to) /\ to # "tell" /\ "tell" \in Steps
                          /\ to = "done"
    BY DEF TellNode, Steps
<1>2. /\ adding' \in [1..MaxNodeAdds -> Request]
      /\ adding'[i].name = adding[i].name /\ adding'[i].addr = adding[i].addr
      /\ adding'[i].found = adding[i].found /\ adding'[i].step = to
      /\ \A j \in 1..MaxNodeAdds : j # i => adding'[j] = adding[j]
      /\ adding[i].step = "tell" /\ ~nodeQuit
    BY <1>1, StepIs DEF NodesInv
<1>3. /\ At(to)' = At(to) \union {i}
      /\ At("tell")' = At("tell") \ {i} /\ i \in At("tell")
      /\ \A s : s # "tell" /\ s # to => At(s)' = At(s)
    BY <1>1, StepAt DEF NodesInv

<1>4. Busy(i) /\ adding[i].name \in NodeName /\ adding[i].addr \in NodeAddr
    BY <1>2 DEF NodesInv, Addressed, Busy

<1>5. \/ /\ adding[i].found \in {"none", "pending"}
         /\ nodeRecs' = nodeRecs \union {adding[i].name} /\ toSelf' = toSelf
      \/ /\ adding[i].found = "allowed" /\ toSelf = <<>> /\ toSelf' = <<adding[i].name>>
         /\ nodeRecs' = nodeRecs
    BY <1>2 DEF TellNode, NodesInv, Registered
<1>6. /\ toSelf' \in Seq(NodeName) /\ Len(toSelf') <= 1
      /\ \/ toSelf' = toSelf /\ InSelf' = InSelf /\ Len(toSelf') = Len(toSelf)
         \/ InSelf' = {adding[i].name} /\ toSelf = <<>> /\ Len(toSelf') = Len(toSelf) + 1 /\ toSelf' # <<>>
    <2>1. CASE toSelf' = toSelf
        BY <2>1 DEF NodesInv, NodeTypes, InSelf
    <2>2. CASE toSelf = <<>> /\ toSelf' = <<adding[i].name>>
        <3>1. toSelf' \in Seq(NodeName) /\ Len(toSelf') = 1 /\ toSelf' # <<>> /\ toSelf'[1] = adding[i].name
            BY <1>4, <2>2
        <3>2. Len(toSelf) = 0
            BY <2>2
        <3>3. InSelf' = {adding[i].name}
            <4>1. \A k : k \in 1..Len(toSelf') <=> k = 1
                BY <3>1
            <4> QED BY <3>1, <4>1 DEF InSelf
        <3> QED BY <2>2, <3>1, <3>2, <3>3
    <2> QED BY <1>5, <2>1, <2>2
<1>7. Users' = Users
    BY <1>0 DEF Users
<1>8. Underway' \subseteq Underway \union {adding[i].name} /\ InSelf' \subseteq InSelf \union {adding[i].name}
    BY <1>0, <1>5, <1>6, <1>7 DEF Underway
<1>nodeTypes. NodeTypes'
    BY <1>0, <1>2, <1>4, <1>5, <1>6 DEF NodesInv, NodeTypes
<1>addressed. Addressed'
    BY <1>0, <1>1, <1>2, <1>3, <1>4, <1>5 DEF NodesInv, Addressed, At, Busy
<1>inUse. InUse'
    BY <1>0, <1>1, <1>2, <1>3, <1>4, <1>5 DEF NodesInv, InUse, At, Copies
<1>toldOnce. ToldOnce'
    BY <1>0, <1>1, <1>2, <1>3, <1>4, <1>5 DEF NodesInv, ToldOnce, Users
<1>counted. Counted'

    <2>1. Cardinality(At("tell")') = Cardinality(At("tell")) - 1
        BY <1>1, AtMoves DEF NodesInv
    <2>2. Cardinality(Underway') <= Cardinality(Underway) + 1 /\ IsFiniteSet(Underway') /\ Cardinality(Underway') \in Nat
        BY <1>8, CountMore, CountsAre
    <2>3. Claimed' = Claimed
        BY <1>0 DEF Claimed
    <2>4. CASE Len(toSelf') = Len(toSelf)
        BY <1>0, <2>1, <2>2, <2>3, <2>4, CountsAre DEF Counted
    <2>5. CASE Len(toSelf') # Len(toSelf)
        <3>1. Underway' = Underway /\ Len(toSelf') = Len(toSelf) + 1
            BY <1>0, <1>5, <1>6, <1>7, <2>5 DEF Underway
        <3> QED BY <1>0, <2>1, <2>3, <3>1, CountsAre DEF Counted
    <2> QED BY <2>4, <2>5
<1>registered. Registered'
    BY <1>0, <1>1, <1>2, <1>3, <1>4, <1>5 DEF NodesInv, Registered, Beyond, Busy, InSelf
<1>inFile. InFile'
    BY <1>0, <1>1, <1>2, <1>3, <1>4, <1>5 DEF NodesInv, InFile, Busy
<1>known. Known'

    <2> SUFFICES ASSUME nodeFault # "twice", namesakes = 0 PROVE Known'
        BY <1>0 DEF Known
    <2>1. \A n : OnTheWay(n)' => OnTheWay(n) \/ n = adding[i].name
        BY <1>0, <1>8 DEF OnTheWay
    <2>2. nodeSet[adding[i].name] # "none"
        BY <1>2, <1>4 DEF NodesInv, InFile
    <2>3. \A n \in NodeName : OnTheWay(n)' => nodeSet'[n] # "none"
        BY <1>0, <2>1, <2>2 DEF NodesInv, Known
    <2>4. \A j \in 1..MaxNodeAdds : adding'[j].step = "found" /\ adding'[j].found = "none" =>
            nodeSet'[adding'[j].name] = "none"
        BY <1>0, <1>1, <1>2 DEF NodesInv, Known
    <2>5. ASSUME NEW j \in 1..MaxNodeAdds, NEW n \in NodeName,
                 adding'[j].step \in {"pin", "drop"}, adding'[j].found = "none", adding'[j].name = n
          PROVE  nodeSet'[n] = "pending" /\ ~OnTheWay(n)'
        <3>1. j # i /\ adding'[j] = adding[j] /\ Busy(j)
            BY <1>1, <1>2, <2>5 DEF Busy
        <3>2. n # adding[i].name
            BY <1>4, <2>5, <3>1 DEF NodesInv, InFile
        <3> QED BY <1>0, <2>1, <2>5, <3>1, <3>2 DEF NodesInv, Known
    <2>6. nodeFault' # "twice" /\ namesakes' = 0
        BY <1>0
    <2> QED BY <2>3, <2>4, <2>5, <2>6 DEF Known
<1>askedFor. AskedFor'

    <2> SUFFICES ASSUME nodeCrashes + namesakes = 0 PROVE AskedFor'
        BY <1>0 DEF AskedFor
    <2>1. toNode.busy = 1 => <<adding[i].name, toNode.addr>> \in asked
        BY <1>3, <1>4 DEF NodesInv, Addressed
    <2>2. toNode.busy = 1 => \A n \in Underway' \union InSelf' : <<n, toNode.addr>> \in asked
        BY <1>8, <2>1 DEF NodesInv, AskedFor
    <2> QED BY <1>0, <2>2 DEF NodesInv, AskedFor
<1>clientThere. ClientThere'
    BY <1>0, <1>1, <1>2, <1>3, <1>4, <1>5 DEF NodesInv, ClientThere, At
<1>started. Started'
    BY <1>0, <1>1, <1>2, <1>3, <1>4, <1>5 DEF NodesInv, Started
<1>noAssert. NoAssert'
    BY <1>0, <1>1, <1>2, <1>3, <1>4, <1>5 DEF NodesInv, NoAssert
<1>awaited. Awaited'
    BY <1>0, <1>1, <1>2, <1>3, <1>4, <1>5 DEF NodesInv, Awaited, Users, New
<1>unregistered. Unregistered'
    BY <1>0, <1>1, <1>2, <1>3, <1>4, <1>5 DEF NodesInv, Unregistered, At, New
<1>staysAllowed. StaysAllowed'
    BY <1>0, <1>1, <1>2, <1>3, <1>4, <1>5 DEF NodesInv, StaysAllowed, InSelf, Busy, Allowed
<1>comes. Comes'

    <2>1. CASE nodeRecs' = nodeRecs \union {adding[i].name}
        BY <2>1 DEF Comes, Underway
    <2>2. CASE toSelf' = <<adding[i].name>>
        BY <2>2 DEF Comes
    <2> QED BY <1>5, <2>1, <2>2
<1> QED BY <1>nodeTypes, <1>addressed, <1>inUse, <1>toldOnce, <1>counted, <1>registered, <1>inFile, <1>known, <1>askedFor, <1>clientThere, <1>started, <1>noAssert, <1>awaited, <1>unregistered, <1>staysAllowed, <1>comes DEF NodesInv

\* NodesInv through a request that comes back for a replica that is ready.
LEMMA CompleteClaimKeeps ==
    ASSUME NodesInv, NEW i \in 1..MaxNodeAdds, CompleteClaim(i)
    PROVE  NodesInv'
<1>0. /\ nodeFault' = nodeFault /\ nodeSet' = nodeSet /\ nodeRecs' = nodeRecs /\ nodeSent' = nodeSent
      /\ nodeMail' = nodeMail /\ waiting' = waiting /\ toSelf' = toSelf /\ copying' = copying
      /\ replica' = replica /\ registered' = registered /\ nodeQuit' = nodeQuit /\ asked' = asked
      /\ failures' = failures /\ nodeCrashes' = nodeCrashes /\ namesakes' = namesakes
    BY DEF CompleteClaim, conf, memory, server, tally

<1>1. PICK to \in Steps : /\ Step(i, "ready", to) /\ to # "ready" /\ "ready" \in Steps
                          /\ to = IF toNode.busy = 0 THEN "start" ELSE "done"
    BY DEF CompleteClaim, Steps
<1>2. /\ adding' \in [1..MaxNodeAdds -> Request]
      /\ adding'[i].name = adding[i].name /\ adding'[i].addr = adding[i].addr
      /\ adding'[i].found = adding[i].found /\ adding'[i].step = to
      /\ \A j \in 1..MaxNodeAdds : j # i => adding'[j] = adding[j]
      /\ adding[i].step = "ready" /\ ~nodeQuit
    BY <1>1, StepIs DEF NodesInv
<1>3. /\ At(to)' = At(to) \union {i}
      /\ At("ready")' = At("ready") \ {i} /\ i \in At("ready")
      /\ \A s : s # "ready" /\ s # to => At(s)' = At(s)
    BY <1>1, StepAt DEF NodesInv

<1>4. Busy(i) /\ adding[i].name \in NodeName /\ adding[i].addr \in NodeAddr
    BY <1>2 DEF NodesInv, Addressed, Busy

<1>5. nodeFault = "meanwhile" \/ copying.step # "made"
    BY DEF CompleteClaim
<1>6. \/ /\ toNode.busy = 0 /\ to = "start"
         /\ toNode' = [addr |-> adding[i].addr, busy |-> 2, client |-> TRUE]
      \/ toNode.busy # 0 /\ to = "done" /\ toNode' = toNode
    BY <1>1 DEF CompleteClaim
<1>7. /\ toNode' \in [addr : NodeAddr \union {"none"}, busy : {0, 1, 2}, client : BOOLEAN]
      /\ toNode.busy = 1 <=> toNode'.busy = 1
      /\ toNode.busy = 2 => toNode'.busy = 2
      /\ toNode.busy = 0 => At("start") = {} /\ ~Copies /\ toNode'.busy = 2
    <2>1. toNode.busy = 0 => At("start") = {} /\ ~Copies
        BY DEF NodesInv, InUse
    <2>2. toNode \in [addr : NodeAddr \union {"none"}, busy : {0, 1, 2}, client : BOOLEAN]
        BY DEF NodesInv, NodeTypes
    <2>3. CASE toNode' = toNode /\ toNode.busy # 0
        BY <2>2, <2>3
    <2>4. CASE toNode.busy = 0 /\ toNode' = [addr |-> adding[i].addr, busy |-> 2, client |-> TRUE]
        BY <1>4, <2>1, <2>4
    <2> QED BY <1>6, <2>3, <2>4
<1>8. Copies' = Copies
    BY <1>0 DEF Copies
<1>nodeTypes. NodeTypes'
    BY <1>0, <1>2, <1>7 DEF NodesInv, NodeTypes
<1>addressed. Addressed'

    <2>1. CASE toNode' = toNode
        BY <1>0, <1>2, <1>3, <1>6, <2>1 DEF NodesInv, Addressed, At, Busy
    <2>2. CASE toNode' # toNode
        <3>1. /\ toNode'.addr = adding[i].addr /\ toNode'.busy = 2 /\ At("start")' = {i}
            BY <1>3, <1>6, <1>7, <2>2
        <3>2. \A j \in 1..MaxNodeAdds : Busy(j)' => /\ Busy(j) /\ adding'[j].name = adding[j].name
                                                    /\ adding'[j].addr = adding[j].addr
            BY <1>2 DEF Busy
        <3> QED BY <1>0, <1>2, <1>4, <3>1, <3>2 DEF NodesInv, Addressed
    <2> QED BY <2>1, <2>2
<1>inUse. InUse'
    BY <1>0, <1>1, <1>2, <1>3, <1>4, <1>5, <1>6, <1>7 DEF NodesInv, InUse, At, Copies
<1>toldOnce. ToldOnce'
    BY <1>0, <1>1, <1>2, <1>3, <1>4, <1>5, <1>6, <1>7 DEF NodesInv, ToldOnce, Users
<1>counted. Counted'
    BY <1>0, <1>1, <1>2, <1>3, <1>4, <1>5, <1>6, <1>7 DEF NodesInv, Counted, Claimed, Underway, Users
<1>registered. Registered'
    BY <1>0, <1>1, <1>2, <1>3, <1>4, <1>5, <1>6, <1>7 DEF NodesInv, Registered, Beyond, Busy, InSelf
<1>inFile. InFile'
    BY <1>0, <1>1, <1>2, <1>3, <1>4, <1>5, <1>6, <1>7 DEF NodesInv, InFile, Busy
<1>known. Known'
    BY <1>0, <1>1, <1>2, <1>3, <1>4, <1>5, <1>6, <1>7 DEF NodesInv, Known, OnTheWay, Underway, Users, InSelf
<1>askedFor. AskedFor'

    <2> SUFFICES ASSUME nodeCrashes + namesakes = 0 PROVE AskedFor'
        BY <1>0 DEF AskedFor
    <2>1. Underway' = Underway /\ InSelf' = InSelf
        BY <1>0 DEF Underway, Users, InSelf
    <2>2. toNode' = toNode \/ (toNode'.busy = 2 /\ ~Copies)
        BY <1>6, <1>7
    <2> QED BY <1>0, <1>7, <2>1, <2>2 DEF NodesInv, AskedFor, Copies
<1>clientThere. ClientThere'
    BY <1>0, <1>1, <1>2, <1>3, <1>4, <1>5, <1>6, <1>7 DEF NodesInv, ClientThere, At
<1>started. Started'
    BY <1>0, <1>1, <1>2, <1>3, <1>4, <1>5, <1>6, <1>7 DEF NodesInv, Started
<1>noAssert. NoAssert'
    BY <1>0, <1>1, <1>2, <1>3, <1>4, <1>5, <1>6, <1>7 DEF NodesInv, NoAssert
<1>awaited. Awaited'
    BY <1>0, <1>1, <1>2, <1>3, <1>4, <1>5, <1>6, <1>7 DEF NodesInv, Awaited, Users, New
<1>unregistered. Unregistered'
    BY <1>0, <1>1, <1>2, <1>3, <1>4, <1>5, <1>6, <1>7 DEF NodesInv, Unregistered, At, New
<1>staysAllowed. StaysAllowed'
    BY <1>0, <1>1, <1>2, <1>3, <1>4, <1>5, <1>6, <1>7 DEF NodesInv, StaysAllowed, InSelf, Busy, Allowed
<1>comes. Comes'
    BY <1>0, <1>1, <1>2, <1>3, <1>4, <1>5, <1>6, <1>7 DEF NodesInv, Comes, Underway, Users, At
<1> QED BY <1>nodeTypes, <1>addressed, <1>inUse, <1>toldOnce, <1>counted, <1>registered, <1>inFile, <1>known, <1>askedFor, <1>clientThere, <1>started, <1>noAssert, <1>awaited, <1>unregistered, <1>staysAllowed, <1>comes DEF NodesInv

\* NodesInv through the end of that request, done or failed.
LEMMA CompleteEndKeeps ==
    ASSUME NodesInv, NEW i \in 1..MaxNodeAdds, CompleteEnd(i)
    PROVE  NodesInv'
<1>0. /\ nodeFault' = nodeFault /\ nodeRecs' = nodeRecs /\ nodeSent' = nodeSent
      /\ nodeMail' = nodeMail /\ waiting' = waiting /\ toSelf' = toSelf /\ copying' = copying
      /\ registered' = registered /\ nodeQuit' = nodeQuit /\ asked' = asked
      /\ nodeCrashes' = nodeCrashes /\ namesakes' = namesakes
    BY DEF CompleteEnd, conf, memory, server, tally

<1>1. PICK to \in Steps : /\ Step(i, "start", to) /\ to # "start" /\ "start" \in Steps
                          /\ to = "done"
    BY DEF CompleteEnd, Steps
<1>2. /\ adding' \in [1..MaxNodeAdds -> Request]
      /\ adding'[i].name = adding[i].name /\ adding'[i].addr = adding[i].addr
      /\ adding'[i].found = adding[i].found /\ adding'[i].step = to
      /\ \A j \in 1..MaxNodeAdds : j # i => adding'[j] = adding[j]
      /\ adding[i].step = "start" /\ ~nodeQuit
    BY <1>1, StepIs DEF NodesInv
<1>3. /\ At(to)' = At(to) \union {i}
      /\ At("start")' = At("start") \ {i} /\ i \in At("start")
      /\ \A s : s # "start" /\ s # to => At(s)' = At(s)
    BY <1>1, StepAt DEF NodesInv

<1>4. Busy(i) /\ adding[i].name \in NodeName /\ adding[i].addr \in NodeAddr
    BY <1>2 DEF NodesInv, Addressed, Busy

<1>5. /\ toNode.addr = adding[i].addr /\ toNode.busy = 2 /\ ~Copies /\ adding[i].found = "ready"
      /\ adding[i].name \in registered
      /\ nodeFault # "meanwhile" => copying.step # "made"
    BY <1>2, <1>3, <1>4 DEF NodesInv, InUse, Addressed, Registered, ClientThere, Beyond
<1>6. /\ failures' \in Nat
      /\ toNode' = [addr |-> toNode.addr, busy |-> 0, client |-> FALSE]
      /\ \/ StartAt(toNode.addr) /\ SetNode(adding[i].name, "active")
         \/ replica' = replica /\ nodeSet' = nodeSet
    <2>1. failures' \in Nat
        BY DEF CompleteEnd, Fails, NodesInv, NodeTypes
    <2>2. toNode' = [addr |-> toNode.addr, busy |-> 0, client |-> FALSE]
        BY DEF CompleteEnd, NodesInv, NodeTypes
    <2>3. \/ StartAt(toNode.addr) /\ SetNode(adding[i].name, "active")
          \/ replica' = replica /\ nodeSet' = nodeSet
        BY DEF CompleteEnd
    <2> QED BY <2>1, <2>2, <2>3
<1>7. /\ replica' \in [NodeAddr -> [name : NodeName \union {"none"}, st : {"none", "made", "started"}]]
      /\ \A x \in NodeAddr : /\ replica'[x].name = replica[x].name
                             /\ replica'[x].st # "none" => replica[x].st # "none"
                             /\ replica[x].st = "started" => replica'[x].st = "started"
    <2>1. replica \in [NodeAddr -> [name : NodeName \union {"none"}, st : {"none", "made", "started"}]]
        BY DEF NodesInv, NodeTypes
    <2>2. CASE StartAt(toNode.addr)
        BY <1>4, <1>5, <2>1, <2>2 DEF StartAt
    <2>3. CASE replica' = replica
        BY <2>1, <2>3
    <2> QED BY <1>6, <2>2, <2>3
<1>8. /\ nodeSet' \in [NodeName -> Statuses]
      /\ \A n \in NodeName : nodeSet'[n] # nodeSet[n] =>
           /\ n = adding[i].name /\ nodeSet'[n] = "active" /\ nodeSet[n] # "none"
           /\ replica'[toNode.addr].st = "started"
    <2>1. nodeSet \in [NodeName -> Statuses] /\ toNode.addr \in NodeAddr
        BY <1>4, <1>5 DEF NodesInv, NodeTypes
    <2>2. CASE StartAt(toNode.addr) /\ SetNode(adding[i].name, "active")
        <3>1. replica'[toNode.addr].st = "started"
            BY <2>1, <2>2 DEF StartAt, NodesInv, NodeTypes
        <3> QED BY <1>4, <2>1, <2>2, <3>1 DEF SetNode, Statuses
    <2>3. CASE nodeSet' = nodeSet
        BY <2>1, <2>3
    <2> QED BY <1>6, <2>2, <2>3
<1>9. <<adding[i].name, toNode.addr>> \in asked /\ toNode.addr \in NodeAddr
    BY <1>4, <1>5 DEF NodesInv, Addressed
<1>10. Underway' = Underway /\ InSelf' = InSelf /\ Users' = Users
    BY <1>0 DEF Underway, Users, InSelf
<1>11. \A j \in 1..MaxNodeAdds : /\ Busy(j)' => Busy(j) /\ j # i
                                 /\ adding'[j].name = adding[j].name /\ adding'[j].found = adding[j].found
    BY <1>1, <1>2 DEF Busy
<1>12. nodeFault # "twice" => \A j \in 1..MaxNodeAdds : Busy(j)' =>
        /\ adding'[j] = adding[j] /\ Busy(j) /\ adding[j].name # adding[i].name /\ adding[j].name \in NodeName
    BY <1>1, <1>2, <1>4 DEF NodesInv, InFile, Addressed, Busy
<1>13. nodeFault = "meanwhile" => nodeSet[adding[i].name] \in Allowed /\ adding[i].name \notin Users
    <2>1. nodeFault = "meanwhile" => nodeSet[adding[i].name] \in Allowed
        BY <1>4, <1>5 DEF NodesInv, StaysAllowed, Allowed
    <2> QED BY <2>1 DEF NodesInv, Awaited, Allowed
<1>nodeTypes. NodeTypes'
    BY <1>0, <1>2, <1>6, <1>7, <1>8 DEF NodesInv, NodeTypes, Statuses
<1>addressed. Addressed'

    <2>1. /\ \A j \in 1..MaxNodeAdds : Busy(j)' => /\ Busy(j) /\ adding'[j].name = adding[j].name
                                                   /\ adding'[j].addr = adding[j].addr
          /\ toNode'.addr = toNode.addr /\ toNode'.busy = 0
        BY <1>2, <1>6, <1>11
    <2>2. \A j \in At("start")' : j \in At("start") /\ adding'[j].addr = adding[j].addr
        <3>1. At("start")' = At("start") \ {i}
            BY <1>1, <1>3
        <3>2. \A j \in At("start") : j \in 1..MaxNodeAdds
            BY DEF At
        <3> QED BY <1>2, <3>1, <3>2
    <2>3. toNode'.addr \in NodeAddr
        BY <1>9, <2>1
    <2> QED BY <1>0, <2>1, <2>2, <2>3 DEF NodesInv, Addressed
<1>inUse. InUse'
    BY <1>0, <1>1, <1>2, <1>3, <1>4, <1>5, <1>6, <1>7, <1>8 DEF NodesInv, InUse, At, Copies
<1>toldOnce. ToldOnce'
    BY <1>0, <1>1, <1>2, <1>3, <1>4, <1>5, <1>6, <1>7, <1>8 DEF NodesInv, ToldOnce, Users
<1>counted. Counted'
    BY <1>0, <1>1, <1>2, <1>3, <1>4, <1>5, <1>6, <1>7, <1>8 DEF NodesInv, Counted, Claimed, Underway, Users
<1>registered. Registered'

    <2>1. \A n \in NodeName : nodeSet'[n] \in Beyond => n \in registered
        BY <1>5, <1>8 DEF NodesInv, Registered
    <2> QED BY <1>0, <1>1, <1>2, <1>10, <1>11, <2>1 DEF NodesInv, Registered
<1>inFile. InFile'
    BY <1>0, <1>8, <1>12 DEF NodesInv, InFile
<1>known. Known'

    <2> SUFFICES ASSUME nodeFault # "twice", namesakes = 0 PROVE Known'
        BY <1>0 DEF Known
    <2>1. \A n : OnTheWay(n)' => OnTheWay(n)
        BY <1>0 DEF OnTheWay, Underway, Users, InSelf
    <2>2. \A n \in NodeName : OnTheWay(n)' => nodeSet'[n] # "none"
        BY <2>1, <1>0, <1>2, <1>8, <1>12 DEF NodesInv, Known
    <2>3. \A j \in 1..MaxNodeAdds : adding'[j].step = "found" /\ adding'[j].found = "none" =>
            nodeSet'[adding'[j].name] = "none"
        BY <1>0, <1>2, <1>8, <1>12 DEF NodesInv, Known, Busy
    <2>4. \A j \in 1..MaxNodeAdds, n \in NodeName :
            adding'[j].step \in {"pin", "drop"} /\ adding'[j].found = "none" /\ adding'[j].name = n =>
              nodeSet'[n] = "pending" /\ ~OnTheWay(n)'
        BY <2>1, <1>0, <1>2, <1>8, <1>12 DEF NodesInv, Known, Busy
    <2>5. nodeFault' # "twice" /\ namesakes' = 0
        BY <1>0
    <2> QED BY <2>2, <2>3, <2>4, <2>5 DEF Known
<1>askedFor. AskedFor'
    BY <1>0, <1>5, <1>6, <1>7, <1>10 DEF NodesInv, AskedFor, Copies
<1>clientThere. ClientThere'
    BY <1>0, <1>3, <1>5, <1>6 DEF NodesInv, ClientThere, Copies
<1>started. Started'
    BY <1>0, <1>7, <1>8, <1>9 DEF NodesInv, Started
<1>noAssert. NoAssert'
    BY <1>0, <1>1, <1>2, <1>3, <1>4, <1>5, <1>6, <1>7, <1>8 DEF NodesInv, NoAssert
<1>awaited. Awaited'
    BY <1>0, <1>8, <1>10, <1>13 DEF NodesInv, Awaited, New, NodeTypes, ToldOnce
<1>unregistered. Unregistered'

    <2> SUFFICES ASSUME nodeFault = "meanwhile" PROVE Unregistered'
        BY <1>0 DEF Unregistered
    <2>1. At("tell")' = At("tell") /\ At("found")' = At("found") /\ At("pin")' = At("pin")
        BY <1>1, <1>3
    <2>2. \A j \in At("found") \union At("pin") : adding[j].found \in New => adding[j].name \notin registered
        BY <1>5 DEF NodesInv, Unregistered, Copies
    <2>3. \A j \in At("found") \union At("pin") \union At("tell") :
            adding'[j].name = adding[j].name /\ adding'[j].found = adding[j].found
        BY <1>11 DEF At
    <2> QED BY <1>0, <2>1, <2>2, <2>3 DEF NodesInv, Unregistered
<1>staysAllowed. StaysAllowed'

    <2> SUFFICES ASSUME nodeFault = "meanwhile" PROVE StaysAllowed'
        BY <1>0 DEF StaysAllowed
    <2>1. \A n \in NodeName : nodeSet[n] \in Allowed => nodeSet'[n] \in Allowed
        BY <1>8 DEF Allowed
    <2>2. \A n \in waiting \union InSelf : n \in NodeName
        BY DEF NodesInv, NodeTypes, InSelf
    <2>3. copying # NoCopy => copying.name \in NodeName
        BY DEF NodesInv, NodeTypes
    <2>4. \A j \in 1..MaxNodeAdds : Busy(j) => adding[j].name \in NodeName
        BY DEF NodesInv, Addressed
    <2> QED BY <1>0, <1>10, <1>11, <2>1, <2>2, <2>3, <2>4 DEF NodesInv, StaysAllowed
<1>comes. Comes'
    BY <1>0, <1>1, <1>2, <1>3, <1>4, <1>5, <1>6, <1>7, <1>8 DEF NodesInv, Comes, Underway, Users, At
<1> QED BY <1>nodeTypes, <1>addressed, <1>inUse, <1>toldOnce, <1>counted, <1>registered, <1>inFile, <1>known, <1>askedFor, <1>clientThere, <1>started, <1>noAssert, <1>awaited, <1>unregistered, <1>staysAllowed, <1>comes DEF NodesInv

\* NodesInv through the record that is sent to the server.
LEMMA SendKeeps ==
    ASSUME NodesInv, NEW n \in NodeName, SendUser(n)
    PROVE  NodesInv'
<1>0. /\ nodeFault' = nodeFault /\ nodeSet' = nodeSet /\ toNode' = toNode /\ adding' = adding
      /\ nodeRecs' = nodeRecs /\ waiting' = waiting /\ toSelf' = toSelf /\ copying' = copying
      /\ replica' = replica /\ nodeQuit' = nodeQuit /\ asked' = asked /\ failures' = failures
      /\ nodeCrashes' = nodeCrashes /\ namesakes' = namesakes
    BY DEF SendUser, conf, memory, server, tally

<1>1. /\ ~nodeQuit /\ n \in nodeRecs /\ nodeSent = "none" /\ nodeSent' = n
      /\ registered' = registered \union {n}
    BY DEF SendUser
<1>2. FromServer("user", n) \in Event /\ FromServer("ack", n) \in Event /\ FromServer("error", n) \in Event
    BY DEF FromServer, Event
<1>3. /\ nodeMail \in Seq(Event) /\ OnceEach(nodeMail) /\ Users \subseteq registered
      /\ \A k \in 1..Len(nodeMail) : nodeMail[k].op = "user"
    <2>1. \A k \in 1..Len(nodeMail) : nodeMail[k] \in Event
        BY DEF NodesInv, NodeTypes
    <2>2. \A k \in 1..Len(nodeMail) : nodeMail[k].name # "none"
        BY <2>1 DEF Event
    <2> QED BY <1>1, <2>2 DEF NodesInv, NodeTypes, ToldOnce, OneAnswer
<1>4. /\ nodeMail' \in Seq(Event) /\ OnceEach(nodeMail') /\ OneAnswer(nodeMail', n)
      /\ \/ n \notin registered /\ Users' = Users \union {n}
         \/ nodeFault # "meanwhile" /\ Users' = Users
         \/ n \in registered /\ Users' = Users
      /\ nodeFault = "meanwhile" => \A k \in 1..Len(nodeMail') : nodeMail'[k].op # "error"
    <2>1. CASE n \notin registered /\ nodeMail' = nodeMail \o <<FromServer("user", n), FromServer("ack", n)>>
        <3>1. PICK s : s = Append(nodeMail, FromServer("user", n))
            OBVIOUS
        <3>2. nodeMail' = Append(s, FromServer("ack", n))
            BY <1>2, <1>3, <2>1, <3>1
        <3>3. n \notin UsersOf(nodeMail)
            BY <1>3, <2>1 DEF Users
        <3>4. /\ s \in Seq(Event) /\ OnceEach(s) /\ UsersOf(s) = UsersOf(nodeMail) \union {n}
              /\ \A k \in 1..Len(s) : s[k].op = "user"
            BY <1>3, <3>1, <3>3, UserAppend
        <3>5. "ack" \in {"ack", "error"}
            OBVIOUS
        <3>6. /\ nodeMail' \in Seq(Event) /\ OnceEach(nodeMail') /\ OneAnswer(nodeMail', n)
              /\ UsersOf(nodeMail') = UsersOf(s) /\ \A k \in 1..Len(nodeMail') : nodeMail'[k].op # "error"
            BY <3>2, <3>4, <3>5, AnswerAlone
        <3> QED BY <2>1, <3>4, <3>6 DEF Users
    <2>2. CASE n \in registered /\ nodeMail' = Append(nodeMail, FromServer("ack", n))
        <3>1. "ack" \in {"ack", "error"}
            OBVIOUS
        <3>2. /\ nodeMail' \in Seq(Event) /\ OnceEach(nodeMail') /\ OneAnswer(nodeMail', n)
              /\ UsersOf(nodeMail') = UsersOf(nodeMail) /\ \A k \in 1..Len(nodeMail') : nodeMail'[k].op # "error"
            BY <1>3, <2>2, <3>1, AnswerAlone
        <3> QED BY <2>2, <3>2 DEF Users
    <2>3. CASE nodeFault # "meanwhile" /\ nodeMail' = Append(nodeMail, FromServer("error", n))
        <3>1. "error" \in {"ack", "error"}
            OBVIOUS
        <3>2. /\ nodeMail' \in Seq(Event) /\ OnceEach(nodeMail') /\ OneAnswer(nodeMail', n)
              /\ UsersOf(nodeMail') = UsersOf(nodeMail)
            BY <1>3, <2>3, <3>1, AnswerAlone
        <3> QED BY <2>3, <3>2 DEF Users
    <2> QED BY <2>1, <2>2, <2>3 DEF SendUser
<1>5. Underway' = Underway /\ n \in Underway /\ InSelf' = InSelf
    BY <1>0, <1>1, <1>4 DEF Underway, InSelf
<1>6. nodeFault = "meanwhile" =>
        n \notin registered /\ toNode.busy = 1 /\ At("tell") = {} /\ nodeSet[n] = "pending"
    <2> SUFFICES ASSUME nodeFault = "meanwhile"
                 PROVE  n \notin registered /\ toNode.busy = 1 /\ At("tell") = {} /\ nodeSet[n] = "pending"
        OBVIOUS
    <2>1. toNode.busy = 1 /\ At("tell") = {}
        BY <1>5, OneForAClaim, FaultsAre
    <2>2. n \notin registered
        BY <1>1 DEF NodesInv, Unregistered
    <2>3. nodeSet[n] # "none"
        BY <1>5, FaultsAre DEF NodesInv, Known, OnTheWay
    <2>4. nodeSet[n] \in Statuses
        BY DEF NodesInv, NodeTypes
    <2> QED BY <2>1, <2>2, <2>3, <2>4 DEF NodesInv, Registered, Beyond, Statuses
<1>nodeTypes. NodeTypes'
    BY <1>0, <1>1, <1>4 DEF NodesInv, NodeTypes
<1>addressed. Addressed'
    BY <1>0, <1>1, <1>4 DEF NodesInv, Addressed, At, Busy
<1>inUse. InUse'
    BY <1>0, <1>1, <1>4 DEF NodesInv, InUse, At, Copies
<1>toldOnce. ToldOnce'
    BY <1>0, <1>1, <1>4 DEF NodesInv, ToldOnce
<1>counted. Counted'

    <2>1. Claimed' = Claimed /\ At("tell")' = At("tell")
        BY <1>0 DEF Claimed, At
    <2> QED BY <1>0, <1>5, <2>1 DEF NodesInv, Counted
<1>registered. Registered'
    BY <1>0, <1>1, <1>4 DEF NodesInv, Registered, Beyond, Busy, InSelf
<1>inFile. InFile'
    BY <1>0, <1>1, <1>4 DEF NodesInv, InFile, Busy
<1>known. Known'
    BY <1>0, <1>5 DEF NodesInv, Known, OnTheWay
<1>askedFor. AskedFor'
    BY <1>0, <1>5 DEF NodesInv, AskedFor
<1>clientThere. ClientThere'
    BY <1>0, <1>1, <1>4 DEF NodesInv, ClientThere, At
<1>started. Started'
    BY <1>0, <1>1, <1>4 DEF NodesInv, Started
<1>noAssert. NoAssert'
    BY <1>0, <1>1, <1>4 DEF NodesInv, NoAssert
<1>awaited. Awaited'
    BY <1>0, <1>1, <1>4, <1>6 DEF NodesInv, Awaited
<1>unregistered. Unregistered'

    <2>1. "none" \notin nodeRecs
        BY DEF NodesInv, NodeTypes
    <2> QED BY <1>0, <1>1, <1>6, <2>1 DEF NodesInv, Unregistered, At
<1>staysAllowed. StaysAllowed'
    BY <1>0, <1>5 DEF NodesInv, StaysAllowed, Busy
<1>comes. Comes'
    BY <1>0, <1>5 DEF NodesInv, Comes, At
<1> QED BY <1>nodeTypes, <1>addressed, <1>inUse, <1>toldOnce, <1>counted, <1>registered, <1>inFile, <1>known, <1>askedFor, <1>clientThere, <1>started, <1>noAssert, <1>awaited, <1>unregistered, <1>staysAllowed, <1>comes DEF NodesInv

\* NodesInv through a name that another client registers.
LEMMA ElsewhereKeeps ==
    ASSUME NodesInv, NEW n \in NodeName, NodeElsewhere(n)
    PROVE  NodesInv'
<1>0. /\ nodeFault' = nodeFault /\ nodeSet' = nodeSet /\ toNode' = toNode /\ adding' = adding
      /\ nodeRecs' = nodeRecs /\ nodeSent' = nodeSent /\ waiting' = waiting /\ toSelf' = toSelf
      /\ copying' = copying /\ replica' = replica /\ nodeQuit' = nodeQuit /\ asked' = asked
      /\ failures' = failures /\ nodeCrashes' = nodeCrashes
    BY DEF NodeElsewhere, conf, memory, server, tally

<1>1. /\ n \notin registered /\ registered' = registered \union {n} /\ namesakes' = namesakes + 1
      /\ nodeFault = "namesake" /\ nodeMail' = Append(nodeMail, FromServer("user", n))
    BY DEF NodeElsewhere
<1>2. namesakes \in Nat /\ namesakes' \in Nat /\ namesakes' # 0 /\ nodeCrashes \in Nat /\ nodeCrashes' + namesakes' # 0
    BY <1>0, <1>1 DEF NodesInv, NodeTypes
<1>3. n \notin UsersOf(nodeMail) /\ nodeMail \in Seq(Event)
    BY <1>1 DEF NodesInv, ToldOnce, Users, NodeTypes
<1>4. /\ nodeMail' \in Seq(Event) /\ OnceEach(nodeMail') /\ OneAnswer(nodeMail', nodeSent)
      /\ Users' = Users \union {n}
    BY <1>1, <1>3, UserAppend DEF NodesInv, ToldOnce, Users
<1>5. Underway' = Underway \union {n}
    BY <1>0, <1>4 DEF Underway
<1>nodeTypes. NodeTypes'
    BY <1>0, <1>1, <1>2, <1>4 DEF NodesInv, NodeTypes
<1>addressed. Addressed'
    BY <1>0, <1>1, <1>2, <1>4 DEF NodesInv, Addressed, At, Busy
<1>inUse. InUse'
    BY <1>0, <1>1, <1>2, <1>4 DEF NodesInv, InUse, At, Copies
<1>toldOnce. ToldOnce'
    BY <1>0, <1>1, <1>4 DEF NodesInv, ToldOnce
<1>counted. Counted'

    <2>1. Underway' \subseteq Underway \union {n}
        BY <1>5
    <2>2. IsFiniteSet(Underway') /\ Cardinality(Underway') \in Nat /\ Cardinality(Underway') <= Cardinality(Underway) + 1
        BY <2>1, CountMore, CountsAre
    <2>3. Claimed' = Claimed /\ At("tell")' = At("tell")
        BY <1>0 DEF Claimed, At
    <2>4. Len(toSelf') = Len(toSelf) /\ nodeCrashes' = nodeCrashes /\ namesakes' = namesakes + 1
        BY <1>0, <1>1
    <2>5. /\ Cardinality(Underway') \in Nat /\ Cardinality(Underway) \in Nat
          /\ Cardinality(At("tell")) \in Nat /\ Len(toSelf) \in Nat /\ Claimed \in Nat
          /\ nodeCrashes \in Nat /\ namesakes \in Nat
          /\ Cardinality(Underway') <= Cardinality(Underway) + 1
          /\ Cardinality(Underway) + Len(toSelf) + Cardinality(At("tell")) <= Claimed + nodeCrashes + namesakes
        BY <2>2, CountsAre
    <2>6. Cardinality(Underway') + Len(toSelf) + Cardinality(At("tell")) <= Claimed + nodeCrashes + (namesakes + 1)
        BY <2>5
    <2> QED BY <2>2, <2>3, <2>4, <2>6 DEF Counted
<1>registered. Registered'
    BY <1>0, <1>1, <1>2, <1>4 DEF NodesInv, Registered, Beyond, Busy, InSelf
<1>inFile. InFile'
    BY <1>0, <1>1, <1>2, <1>4 DEF NodesInv, InFile, Busy
<1>known. Known'
    BY <1>0, <1>1, <1>2, <1>4 DEF NodesInv, Known, OnTheWay, Underway, Users, InSelf
<1>askedFor. AskedFor'
    BY <1>0, <1>1, <1>2, <1>4 DEF NodesInv, AskedFor, Underway, Users, InSelf
<1>clientThere. ClientThere'
    BY <1>0, <1>1, <1>2, <1>4 DEF NodesInv, ClientThere, At
<1>started. Started'
    BY <1>0, <1>1, <1>2, <1>4 DEF NodesInv, Started
<1>noAssert. NoAssert'
    BY <1>0, <1>1, <1>2, <1>4 DEF NodesInv, NoAssert
<1>awaited. Awaited'
    BY <1>0, <1>1, <1>2, <1>4 DEF NodesInv, Awaited, Users, New
<1>unregistered. Unregistered'
    BY <1>0, <1>1, <1>2, <1>4 DEF NodesInv, Unregistered, At, New
<1>staysAllowed. StaysAllowed'
    BY <1>0, <1>1, <1>2, <1>4 DEF NodesInv, StaysAllowed, InSelf, Busy, Allowed
<1>comes. Comes'
    BY <1>0, <1>1, <1>2, <1>4 DEF NodesInv, Comes, Underway, Users, At
<1> QED BY <1>nodeTypes, <1>addressed, <1>inUse, <1>toldOnce, <1>counted, <1>registered, <1>inFile, <1>known, <1>askedFor, <1>clientThere, <1>started, <1>noAssert, <1>awaited, <1>unregistered, <1>staysAllowed, <1>comes DEF NodesInv

\* NodesInv through the server's news of a name.
LEMMA UserKeeps ==
    ASSUME NodesInv, HandleUser
    PROVE  NodesInv'
<1>0. /\ nodeFault' = nodeFault /\ toNode' = toNode /\ adding' = adding /\ nodeRecs' = nodeRecs
      /\ nodeSent' = nodeSent /\ toSelf' = toSelf /\ copying' = copying /\ replica' = replica
      /\ registered' = registered /\ nodeQuit' = nodeQuit /\ asked' = asked /\ failures' = failures
      /\ nodeCrashes' = nodeCrashes /\ namesakes' = namesakes
    BY DEF HandleUser, conf, memory, server, tally

<1>1. PICK n \in NodeName :
        /\ n = Head(nodeMail).name /\ ~nodeQuit /\ copying = NoCopy
        /\ nodeMail' \in Seq(Event) /\ OnceEach(nodeMail') /\ OneAnswer(nodeMail', nodeSent)
        /\ (\A k \in 1..Len(nodeMail) : nodeMail[k].op # "error") => \A k \in 1..Len(nodeMail') : nodeMail'[k].op # "error"
        /\ n \in Users /\ n \in registered /\ Users' = Users \ {n}
    <2>1. Reads("user") /\ "user" \in {"user", "ack", "error"}
        BY DEF HandleUser
    <2> QED BY <2>1, ReadsIs
<1>2. \/ nodeSet[n] = "none" /\ nodeSet' = [nodeSet EXCEPT ![n] = "active"] /\ waiting' = waiting
      \/ /\ nodeSet[n] \in {"pending", "sent"} /\ nodeSet' = [nodeSet EXCEPT ![n] = "allowed"]
         /\ waiting' = waiting \union {n}
      \/ nodeSet[n] \in {"allowed", "ready", "active"} /\ nodeSet' = nodeSet /\ waiting' = waiting
    BY <1>1 DEF HandleUser, SetNode, WaitsFor
<1>3. /\ nodeSet' \in [NodeName -> Statuses] /\ waiting' \subseteq NodeName
      /\ \A m \in NodeName : nodeSet'[m] # nodeSet[m] =>
           m = n /\ nodeSet'[m] \in {"active", "allowed"} /\ nodeSet[m] \in {"none", "pending", "sent"}
      /\ waiting' = waiting \/ waiting' = waiting \union {n}
    BY <1>2 DEF NodesInv, NodeTypes, Statuses
<1>4. Underway' \subseteq Underway /\ InSelf' = InSelf /\ n \in Underway /\ n \notin Users'
    BY <1>0, <1>1, <1>3 DEF Underway, InSelf
<1>5. nodeFault # "twice" /\ namesakes = 0 =>
        /\ nodeSet[n] # "none" /\ nodeSet'[n] # "none" /\ (nodeSet'[n] = "active" => nodeSet[n] = "active")
    <2>1. nodeFault # "twice" /\ namesakes = 0 => nodeSet[n] # "none"
        BY <1>4 DEF NodesInv, Known, OnTheWay
    <2> QED BY <1>2, <1>3, <2>1 DEF NodesInv, NodeTypes, Statuses
<1>6. nodeFault = "meanwhile" =>
        /\ nodeSet[n] \in {"pending", "sent"} /\ nodeSet'[n] = "allowed" /\ waiting' = waiting \union {n}
    <2>1. nodeFault = "meanwhile" => nodeSet[n] \in {"pending", "sent"}
        BY <1>1 DEF NodesInv, Awaited
    <2> QED BY <1>2, <2>1 DEF NodesInv, NodeTypes
<1>7. \A j \in 1..MaxNodeAdds : Busy(j)' = Busy(j) /\ (Busy(j) => adding[j].name \in NodeName)
    BY <1>0 DEF Busy, NodesInv, Addressed
<1>nodeTypes. NodeTypes'
    BY <1>0, <1>1, <1>2, <1>3 DEF NodesInv, NodeTypes
<1>addressed. Addressed'
    BY <1>0, <1>7 DEF NodesInv, Addressed, At
<1>inUse. InUse'
    BY <1>0, <1>1, <1>2, <1>3 DEF NodesInv, InUse, At, Copies
<1>toldOnce. ToldOnce'
    BY <1>0, <1>1, <1>3 DEF NodesInv, ToldOnce
<1>counted. Counted'

    <2>1. IsFiniteSet(Underway') /\ Cardinality(Underway') \in Nat /\ Cardinality(Underway') <= Cardinality(Underway)
        BY <1>4, CountSubset, CountsAre
    <2>2. Claimed' = Claimed /\ At("tell")' = At("tell")
        BY <1>0 DEF Claimed, At
    <2> QED BY <1>0, <2>1, <2>2, CountsAre DEF Counted
<1>registered. Registered'

    <2>1. \A m \in NodeName : nodeSet'[m] \in Beyond => m \in registered
        BY <1>1, <1>3 DEF NodesInv, Registered
    <2> QED BY <1>0, <1>4, <1>7, <2>1 DEF NodesInv, Registered
<1>inFile. InFile'

    <2>1. \A m \in NodeName : nodeSet[m] # "none" => nodeSet'[m] # "none"
        BY <1>3
    <2> QED BY <1>0, <1>7, <2>1 DEF NodesInv, InFile
<1>known. Known'

    <2> SUFFICES ASSUME nodeFault # "twice", namesakes = 0 PROVE Known'
        BY <1>0 DEF Known
    <2>1. \A m : OnTheWay(m)' => OnTheWay(m)
        BY <1>0, <1>4 DEF OnTheWay
    <2>2. \A m \in NodeName : (nodeSet[m] # "none" => nodeSet'[m] # "none") /\ (nodeSet[m] = "none" => nodeSet'[m] = "none")
        BY <1>3, <1>5
    <2>3. \A m \in NodeName : ~OnTheWay(m) => nodeSet'[m] = nodeSet[m]
        BY <1>3, <1>4 DEF OnTheWay
    <2>4. \A m \in NodeName : OnTheWay(m)' => nodeSet'[m] # "none"
        BY <2>1, <2>2 DEF NodesInv, Known
    <2>5. \A j \in 1..MaxNodeAdds : adding'[j].step = "found" /\ adding'[j].found = "none" =>
            nodeSet'[adding'[j].name] = "none"
        BY <1>0, <1>7, <2>2 DEF NodesInv, Known, Busy
    <2>6. \A j \in 1..MaxNodeAdds, m \in NodeName :
            adding'[j].step \in {"pin", "drop"} /\ adding'[j].found = "none" /\ adding'[j].name = m =>
              nodeSet'[m] = "pending" /\ ~OnTheWay(m)'
        BY <1>0, <2>1, <2>3 DEF NodesInv, Known
    <2>7. nodeFault' # "twice" /\ namesakes' = 0
        BY <1>0
    <2> QED BY <2>4, <2>5, <2>6, <2>7 DEF Known
<1>askedFor. AskedFor'
    BY <1>0, <1>4 DEF NodesInv, AskedFor
<1>clientThere. ClientThere'
    BY <1>0, <1>1, <1>2, <1>3 DEF NodesInv, ClientThere, At
<1>started. Started'

    <2>1. nodeFault # "twice" /\ namesakes = 0 => \A m \in NodeName : nodeSet'[m] = "active" => nodeSet[m] = "active"
        BY <1>3, <1>5
    <2> QED BY <1>0, <2>1 DEF NodesInv, Started
<1>noAssert. NoAssert'
    BY <1>0, <1>1, <1>2, <1>3 DEF NodesInv, NoAssert
<1>awaited. Awaited'

    <2> SUFFICES ASSUME nodeFault = "meanwhile" PROVE Awaited'
        BY <1>0 DEF Awaited
    <2>1. \A m \in Users : m \in registered /\ m \in NodeName
        BY DEF NodesInv, ToldOnce, NodeTypes
    <2>2. \A m \in registered : m \in NodeName
        BY DEF NodesInv, NodeTypes
    <2>3. nodeSet'[n] = "allowed" /\ waiting' = waiting \union {n}
        BY <1>6
    <2>4. \A k \in 1..Len(nodeMail') : nodeMail'[k].op # "error"
        BY <1>1 DEF NodesInv, Awaited
    <2>5. \A m \in Users' : nodeSet'[m] \in {"pending", "sent"}
        BY <1>1, <1>3, <2>1 DEF NodesInv, Awaited
    <2>6. \A m \in registered' : nodeSet'[m] \in New => m \in Users'
        BY <1>0, <1>1, <1>3, <2>2, <2>3 DEF NodesInv, Awaited, New
    <2>7. nodeSent' # "none" => nodeSent' \in Users' \union waiting'
        BY <1>0, <1>1, <2>3 DEF NodesInv, Awaited
    <2> QED BY <2>4, <2>5, <2>6, <2>7 DEF Awaited
<1>unregistered. Unregistered'
    BY <1>0, <1>1, <1>2, <1>3 DEF NodesInv, Unregistered, At, New
<1>staysAllowed. StaysAllowed'

    <2> SUFFICES ASSUME nodeFault = "meanwhile" PROVE StaysAllowed'
        BY <1>0 DEF StaysAllowed
    <2>1. \A m \in NodeName : nodeSet[m] \in Allowed => nodeSet'[m] \in Allowed
        BY <1>3 DEF Allowed
    <2>2. \A m \in waiting \union InSelf : m \in NodeName
        BY DEF NodesInv, NodeTypes, InSelf
    <2>3. \A m \in waiting' \union InSelf' : nodeSet'[m] \in Allowed
        BY <1>3, <1>4, <1>6, <2>1, <2>2 DEF NodesInv, StaysAllowed, Allowed
    <2> QED BY <1>0, <1>1, <1>7, <2>1, <2>3 DEF NodesInv, StaysAllowed
<1>comes. Comes'

    <2>1. nodeFault = "meanwhile" => Underway' # {}
        BY <1>6 DEF Underway
    <2> QED BY <1>0, <2>1 DEF Comes
<1> QED BY <1>nodeTypes, <1>addressed, <1>inUse, <1>toldOnce, <1>counted, <1>registered, <1>inFile, <1>known, <1>askedFor, <1>clientThere, <1>started, <1>noAssert, <1>awaited, <1>unregistered, <1>staysAllowed, <1>comes DEF NodesInv

\* NodesInv through the server's ack of the record.
LEMMA AckKeeps ==
    ASSUME NodesInv, HandleNodeAck
    PROVE  NodesInv'
<1>0. /\ nodeFault' = nodeFault /\ toNode' = toNode /\ adding' = adding /\ waiting' = waiting
      /\ toSelf' = toSelf /\ copying' = copying /\ replica' = replica /\ registered' = registered
      /\ asked' = asked /\ failures' = failures /\ nodeCrashes' = nodeCrashes
      /\ namesakes' = namesakes
    BY DEF HandleNodeAck, conf, memory, server, tally

<1>1. PICK n \in NodeName :
        /\ n = Head(nodeMail).name /\ ~nodeQuit /\ copying = NoCopy /\ n = nodeSent
        /\ nodeMail' \in Seq(Event) /\ OnceEach(nodeMail') /\ OneAnswer(nodeMail', "none")
        /\ (\A k \in 1..Len(nodeMail) : nodeMail[k].op # "error") => \A k \in 1..Len(nodeMail') : nodeMail'[k].op # "error"
        /\ Users' = Users
    <2>1. Reads("ack") /\ "ack" \in {"user", "ack", "error"}
        BY DEF HandleNodeAck
    <2> QED BY <2>1, ReadsIs
<1>2. /\ nodeQuit' = (nodeSet[n] = "none") /\ nodeRecs' = nodeRecs \ {n} /\ nodeSent' = "none"
      /\ nodeSet' = IF nodeSet[n] = "pending" THEN [nodeSet EXCEPT ![n] = "sent"] ELSE nodeSet
    BY <1>1 DEF HandleNodeAck
<1>3. /\ nodeSet' \in [NodeName -> Statuses] /\ nodeRecs' \subseteq NodeName
      /\ \A m \in NodeName : nodeSet'[m] # nodeSet[m] => m = n /\ nodeSet'[m] = "sent" /\ nodeSet[m] = "pending"
    BY <1>2 DEF NodesInv, NodeTypes, Statuses
<1>4. n \in nodeRecs /\ n \in registered /\ n \in Underway
    BY <1>1 DEF NodesInv, ToldOnce, Underway
<1>5. Underway' \subseteq Underway /\ InSelf' = InSelf
    BY <1>0, <1>1, <1>2 DEF Underway, InSelf
<1>6. nodeFault # "twice" /\ namesakes = 0 => nodeSet[n] # "none" /\ ~nodeQuit'
    BY <1>2, <1>4 DEF NodesInv, Known, OnTheWay
<1>7. \A j \in 1..MaxNodeAdds : Busy(j)' = Busy(j) /\ (Busy(j) => adding[j].name \in NodeName)
    BY <1>0 DEF Busy, NodesInv, Addressed
<1>8. nodeFault = "meanwhile" => n \in Users \union waiting
    BY <1>1 DEF NodesInv, Awaited
<1>nodeTypes. NodeTypes'
    BY <1>0, <1>1, <1>2, <1>3 DEF NodesInv, NodeTypes
<1>addressed. Addressed'
    BY <1>0, <1>7 DEF NodesInv, Addressed, At
<1>inUse. InUse'
    BY <1>0, <1>1, <1>2, <1>3 DEF NodesInv, InUse, At, Copies
<1>toldOnce. ToldOnce'
    BY <1>0, <1>1, <1>2 DEF NodesInv, ToldOnce
<1>counted. Counted'

    <2>1. IsFiniteSet(Underway') /\ Cardinality(Underway') \in Nat /\ Cardinality(Underway') <= Cardinality(Underway)
        BY <1>5, CountSubset, CountsAre
    <2>2. Claimed' = Claimed /\ At("tell")' = At("tell")
        BY <1>0 DEF Claimed, At
    <2> QED BY <1>0, <2>1, <2>2, CountsAre DEF Counted
<1>registered. Registered'

    <2>1. \A m \in NodeName : nodeSet'[m] \in Beyond => m \in registered
        BY <1>3, <1>4 DEF NodesInv, Registered
    <2> QED BY <1>0, <1>5, <1>7, <2>1 DEF NodesInv, Registered
<1>inFile. InFile'

    <2>1. \A m \in NodeName : nodeSet[m] # "none" => nodeSet'[m] # "none"
        BY <1>3
    <2> QED BY <1>0, <1>7, <2>1 DEF NodesInv, InFile
<1>known. Known'

    <2> SUFFICES ASSUME nodeFault # "twice", namesakes = 0 PROVE Known'
        BY <1>0 DEF Known
    <2>1. \A m : OnTheWay(m)' => OnTheWay(m)
        BY <1>0, <1>5 DEF OnTheWay
    <2>2. \A m \in NodeName : (nodeSet[m] # "none" => nodeSet'[m] # "none") /\ (nodeSet[m] = "none" => nodeSet'[m] = "none")
        BY <1>3
    <2>3. \A m \in NodeName : ~OnTheWay(m) => nodeSet'[m] = nodeSet[m]
        BY <1>3, <1>4 DEF OnTheWay
    <2>4. \A m \in NodeName : OnTheWay(m)' => nodeSet'[m] # "none"
        BY <2>1, <2>2 DEF NodesInv, Known
    <2>5. \A j \in 1..MaxNodeAdds : adding'[j].step = "found" /\ adding'[j].found = "none" =>
            nodeSet'[adding'[j].name] = "none"
        BY <1>0, <1>7, <2>2 DEF NodesInv, Known, Busy
    <2>6. \A j \in 1..MaxNodeAdds, m \in NodeName :
            adding'[j].step \in {"pin", "drop"} /\ adding'[j].found = "none" /\ adding'[j].name = m =>
              nodeSet'[m] = "pending" /\ ~OnTheWay(m)'
        BY <1>0, <2>1, <2>3 DEF NodesInv, Known
    <2>7. nodeFault' # "twice" /\ namesakes' = 0
        BY <1>0
    <2> QED BY <2>4, <2>5, <2>6, <2>7 DEF Known
<1>askedFor. AskedFor'
    BY <1>0, <1>1, <1>5 DEF NodesInv, AskedFor, NoCopy
<1>clientThere. ClientThere'
    BY <1>0, <1>1, <1>2, <1>3 DEF NodesInv, ClientThere, At
<1>started. Started'
    BY <1>0, <1>3 DEF NodesInv, Started
<1>noAssert. NoAssert'
    BY <1>0, <1>6, FaultsAre DEF NodesInv, NoAssert
<1>awaited. Awaited'

    <2> SUFFICES ASSUME nodeFault = "meanwhile" PROVE Awaited'
        BY <1>0 DEF Awaited
    <2>1. \A m \in Users \union registered : m \in NodeName
        BY DEF NodesInv, ToldOnce, NodeTypes
    <2> QED BY <1>0, <1>1, <1>2, <1>3, <2>1 DEF NodesInv, Awaited, New
<1>unregistered. Unregistered'
    BY <1>0, <1>1, <1>2 DEF NodesInv, Unregistered, At, NodeTypes
<1>staysAllowed. StaysAllowed'

    <2> SUFFICES ASSUME nodeFault = "meanwhile" PROVE StaysAllowed'
        BY <1>0 DEF StaysAllowed
    <2>1. \A m \in NodeName : nodeSet[m] \in Allowed => nodeSet'[m] \in Allowed
        BY <1>3 DEF Allowed
    <2>2. \A m \in waiting \union InSelf : m \in NodeName
        BY DEF NodesInv, NodeTypes, InSelf
    <2> QED BY <1>0, <1>1, <1>5, <1>7, <2>1, <2>2 DEF NodesInv, StaysAllowed
<1>comes. Comes'

    <2>1. nodeFault = "meanwhile" /\ Underway # {} => Underway' # {}
        BY <1>0, <1>1, <1>2, <1>8 DEF Underway
    <2> QED BY <1>0, <1>1, <2>1 DEF NodesInv, Comes, At
<1> QED BY <1>nodeTypes, <1>addressed, <1>inUse, <1>toldOnce, <1>counted, <1>registered, <1>inFile, <1>known, <1>askedFor, <1>clientThere, <1>started, <1>noAssert, <1>awaited, <1>unregistered, <1>staysAllowed, <1>comes DEF NodesInv

\* NodesInv through the server's refusal of the record.
LEMMA ErrorKeeps ==
    ASSUME NodesInv, HandleNodeError
    PROVE  NodesInv'
<1>0. /\ nodeFault' = nodeFault /\ nodeSet' = nodeSet /\ toNode' = toNode /\ adding' = adding
      /\ waiting' = waiting /\ toSelf' = toSelf /\ copying' = copying /\ replica' = replica
      /\ registered' = registered /\ nodeQuit' = nodeQuit /\ asked' = asked /\ failures' = failures
      /\ nodeCrashes' = nodeCrashes /\ namesakes' = namesakes
    BY DEF HandleNodeError, conf, memory, server, tally

<1>1. PICK n \in NodeName :
        /\ n = Head(nodeMail).name /\ ~nodeQuit /\ copying = NoCopy /\ n = nodeSent
        /\ nodeMail' \in Seq(Event) /\ OnceEach(nodeMail') /\ OneAnswer(nodeMail', "none")
        /\ ~(\A k \in 1..Len(nodeMail) : nodeMail[k].op # "error")
        /\ Users' = Users
    <2>1. Reads("error") /\ "error" \in {"user", "ack", "error"}
        BY DEF HandleNodeError
    <2> QED BY <2>1, ReadsIs
<1>2. nodeRecs' = nodeRecs \ {n} /\ nodeSent' = "none"
    BY <1>1 DEF HandleNodeError
<1>3. nodeFault # "meanwhile"
    BY <1>1 DEF NodesInv, Awaited
<1>4. Underway' \subseteq Underway /\ InSelf' = InSelf
    BY <1>0, <1>1, <1>2 DEF Underway, InSelf
<1>nodeTypes. NodeTypes'
    BY <1>0, <1>1, <1>2, <1>3 DEF NodesInv, NodeTypes
<1>addressed. Addressed'
    BY <1>0, <1>1, <1>2, <1>3 DEF NodesInv, Addressed, At, Busy
<1>inUse. InUse'
    BY <1>0, <1>1, <1>2, <1>3 DEF NodesInv, InUse, At, Copies
<1>toldOnce. ToldOnce'
    BY <1>0, <1>1, <1>2 DEF NodesInv, ToldOnce
<1>counted. Counted'

    <2>1. IsFiniteSet(Underway') /\ Cardinality(Underway') \in Nat /\ Cardinality(Underway') <= Cardinality(Underway)
        BY <1>4, CountSubset, CountsAre
    <2>2. Claimed' = Claimed /\ At("tell")' = At("tell")
        BY <1>0 DEF Claimed, At
    <2> QED BY <1>0, <2>1, <2>2, CountsAre DEF Counted
<1>registered. Registered'
    BY <1>0, <1>1, <1>2, <1>3 DEF NodesInv, Registered, Beyond, Busy, InSelf
<1>inFile. InFile'
    BY <1>0, <1>1, <1>2, <1>3 DEF NodesInv, InFile, Busy
<1>known. Known'
    BY <1>0, <1>4 DEF NodesInv, Known, OnTheWay
<1>askedFor. AskedFor'
    BY <1>0, <1>4 DEF NodesInv, AskedFor
<1>clientThere. ClientThere'
    BY <1>0, <1>1, <1>2, <1>3 DEF NodesInv, ClientThere, At
<1>started. Started'
    BY <1>0, <1>1, <1>2, <1>3 DEF NodesInv, Started
<1>noAssert. NoAssert'
    BY <1>0, <1>1, <1>2, <1>3 DEF NodesInv, NoAssert
<1>awaited. Awaited'
    BY <1>0, <1>1, <1>2, <1>3 DEF NodesInv, Awaited, Users, New
<1>unregistered. Unregistered'
    BY <1>0, <1>1, <1>2, <1>3 DEF NodesInv, Unregistered, At, New
<1>staysAllowed. StaysAllowed'
    BY <1>0, <1>1, <1>2, <1>3 DEF NodesInv, StaysAllowed, InSelf, Busy, Allowed
<1>comes. Comes'
    BY <1>0, <1>1, <1>2, <1>3 DEF NodesInv, Comes, Underway, Users, At
<1> QED BY <1>nodeTypes, <1>addressed, <1>inUse, <1>toldOnce, <1>counted, <1>registered, <1>inFile, <1>known, <1>askedFor, <1>clientThere, <1>started, <1>noAssert, <1>awaited, <1>unregistered, <1>staysAllowed, <1>comes DEF NodesInv

\* NodesInv through an ack that is told to the receiver.
LEMMA AckSeenKeeps ==
    ASSUME NodesInv, NEW n \in NodeName, AckSeen(n)
    PROVE  NodesInv'
<1>0. /\ nodeFault' = nodeFault /\ nodeSet' = nodeSet /\ toNode' = toNode /\ adding' = adding
      /\ nodeRecs' = nodeRecs /\ nodeSent' = nodeSent /\ nodeMail' = nodeMail /\ copying' = copying
      /\ replica' = replica /\ registered' = registered /\ nodeQuit' = nodeQuit /\ asked' = asked
      /\ failures' = failures /\ nodeCrashes' = nodeCrashes /\ namesakes' = namesakes
    BY DEF AckSeen, conf, memory, server, tally

<1>1. /\ ~nodeQuit /\ n \in waiting /\ n \notin nodeRecs /\ toSelf = <<>>
      /\ waiting' = waiting \ {n} /\ toSelf' = <<n>>
    BY DEF AckSeen
<1>2. toSelf' \in Seq(NodeName) /\ Len(toSelf') = 1 /\ Len(toSelf) = 0 /\ toSelf' # <<>> /\ InSelf' = {n}
    <2>1. toSelf' \in Seq(NodeName) /\ Len(toSelf') = 1 /\ toSelf' # <<>> /\ toSelf'[1] = n /\ Len(toSelf) = 0
        BY <1>1
    <2>2. \A k : k \in 1..Len(toSelf') <=> k = 1
        BY <2>1
    <2> QED BY <2>1, <2>2 DEF InSelf
<1>3. Users' = Users
    BY <1>0 DEF Users
<1>4. n \in Underway /\ Underway' \subseteq Underway \ {n} /\ n \in registered
    BY <1>0, <1>1, <1>3 DEF Underway, NodesInv, ToldOnce
<1>5. \A m : OnTheWay(m)' => OnTheWay(m)
    BY <1>0, <1>2, <1>4 DEF OnTheWay
<1>nodeTypes. NodeTypes'
    BY <1>0, <1>1, <1>2, <1>3 DEF NodesInv, NodeTypes
<1>addressed. Addressed'
    BY <1>0, <1>1, <1>2, <1>3 DEF NodesInv, Addressed, At, Busy
<1>inUse. InUse'
    BY <1>0, <1>1, <1>2, <1>3 DEF NodesInv, InUse, At, Copies
<1>toldOnce. ToldOnce'
    BY <1>0, <1>1, <1>3 DEF NodesInv, ToldOnce
<1>counted. Counted'

    <2>1. IsFiniteSet(Underway') /\ Cardinality(Underway') \in Nat /\ Cardinality(Underway') <= Cardinality(Underway) - 1
        BY <1>4, CountLess, CountsAre
    <2>2. Claimed' = Claimed /\ At("tell")' = At("tell")
        BY <1>0 DEF Claimed, At
    <2>3. Len(toSelf') = Len(toSelf) + 1
        BY <1>2
    <2> QED BY <1>0, <2>1, <2>2, <2>3, CountsAre DEF Counted
<1>registered. Registered'
    BY <1>0, <1>2, <1>4 DEF NodesInv, Registered, Busy
<1>inFile. InFile'
    BY <1>0, <1>1, <1>2, <1>3 DEF NodesInv, InFile, Busy
<1>known. Known'
    BY <1>0, <1>5 DEF NodesInv, Known
<1>askedFor. AskedFor'
    BY <1>0, <1>2, <1>4 DEF NodesInv, AskedFor
<1>clientThere. ClientThere'
    BY <1>0, <1>1, <1>2, <1>3 DEF NodesInv, ClientThere, At
<1>started. Started'
    BY <1>0, <1>1, <1>2, <1>3 DEF NodesInv, Started
<1>noAssert. NoAssert'
    BY <1>0, <1>1, <1>2, <1>3 DEF NodesInv, NoAssert
<1>awaited. Awaited'

    <2>1. nodeSent # n
        BY <1>1 DEF NodesInv, ToldOnce, NodeTypes
    <2> QED BY <1>0, <1>1, <1>3, <2>1 DEF NodesInv, Awaited
<1>unregistered. Unregistered'
    BY <1>0, <1>1, <1>2, <1>3 DEF NodesInv, Unregistered, At, New
<1>staysAllowed. StaysAllowed'
    BY <1>0, <1>1, <1>2 DEF NodesInv, StaysAllowed, Busy
<1>comes. Comes'
    BY <1>2 DEF Comes
<1> QED BY <1>nodeTypes, <1>addressed, <1>inUse, <1>toldOnce, <1>counted, <1>registered, <1>inFile, <1>known, <1>askedFor, <1>clientThere, <1>started, <1>noAssert, <1>awaited, <1>unregistered, <1>staysAllowed, <1>comes DEF NodesInv

\* NodesInv through the receiver taking a name from its channel.
LEMMA TakeKeeps ==
    ASSUME NodesInv, TakeNode
    PROVE  NodesInv'
<1>0. /\ nodeFault' = nodeFault /\ nodeSet' = nodeSet /\ adding' = adding /\ nodeRecs' = nodeRecs
      /\ nodeSent' = nodeSent /\ nodeMail' = nodeMail /\ waiting' = waiting /\ replica' = replica
      /\ registered' = registered /\ asked' = asked /\ failures' = failures
      /\ nodeCrashes' = nodeCrashes /\ namesakes' = namesakes
    BY DEF TakeNode, conf, memory, server, tally

<1>1. PICK n \in NodeName : toSelf[1] = n /\ n \in InSelf
    <2>1. toSelf # <<>> /\ toSelf \in Seq(NodeName)
        BY DEF TakeNode, NodesInv, NodeTypes
    <2>2. 1 \in 1..Len(toSelf)
        BY <2>1
    <2>3. toSelf[1] \in NodeName
        BY <2>1, <2>2
    <2> QED BY <2>2, <2>3 DEF InSelf
<1>2. /\ ~nodeQuit /\ copying = NoCopy /\ toSelf # <<>> /\ toSelf' = <<>> /\ nodeQuit' = (nodeSet[n] = "none")
      /\ \/ /\ ~nodeQuit' /\ toNode.busy = 1 /\ toNode' = [toNode EXCEPT !.busy = 2]
            /\ copying' = [step |-> "copy", name |-> n]
         \/ (nodeQuit' \/ toNode.busy # 1) /\ toNode' = toNode /\ copying' = NoCopy
    BY <1>1 DEF TakeNode
<1>3. /\ toNode \in [addr : NodeAddr \union {"none"}, busy : {0, 1, 2}, client : BOOLEAN]
      /\ copying.step = "read" /\ ~Copies
    BY <1>2 DEF NodesInv, NodeTypes, NoCopy, Copies
<1>4. \/ /\ ~nodeQuit' /\ toNode.busy = 1
         /\ toNode' = [addr |-> toNode.addr, busy |-> 2, client |-> toNode.client]
         /\ copying' = [step |-> "copy", name |-> n] /\ copying' # NoCopy /\ Copies' /\ toNode.addr \in NodeAddr
         /\ At("start") = {} /\ toNode.client
      \/ (nodeQuit' \/ toNode.busy # 1) /\ toNode' = toNode /\ copying' = copying /\ ~Copies'
    <2>1. CASE /\ ~nodeQuit' /\ toNode.busy = 1 /\ toNode' = [toNode EXCEPT !.busy = 2]
               /\ copying' = [step |-> "copy", name |-> n]
        <3>1. copying'.step = "copy" /\ copying' # NoCopy /\ Copies'
            BY <2>1 DEF NoCopy, Copies
        <3>2. toNode' = [addr |-> toNode.addr, busy |-> 2, client |-> toNode.client]
            BY <1>3, <2>1
        <3>3. toNode.addr \in NodeAddr /\ At("start") = {} /\ toNode.client
            BY <2>1 DEF NodesInv, Addressed, InUse, ClientThere
        <3> QED BY <2>1, <3>1, <3>2, <3>3
    <2>2. CASE (nodeQuit' \/ toNode.busy # 1) /\ toNode' = toNode /\ copying' = NoCopy
        BY <1>2, <1>3, <2>2 DEF Copies
    <2> QED BY <1>2, <2>1, <2>2
<1>5. Underway' = Underway /\ Users' = Users /\ InSelf' = {}
    BY <1>0, <1>2 DEF Underway, Users, InSelf
<1>6. \A s : At(s)' = At(s)
    BY <1>0 DEF At
<1>7. n \in registered /\ (nodeFault # "twice" /\ namesakes = 0 => nodeSet[n] # "none" /\ ~nodeQuit')
    BY <1>1, <1>2 DEF NodesInv, Registered, Known, OnTheWay
<1>8. \A m \in NodeName : OnTheWay(m)' => OnTheWay(m)
    <2>1. copying'.name = copying.name \/ copying'.name = n
        BY <1>4
    <2> QED BY <1>1, <1>5, <2>1 DEF OnTheWay
<1>nodeTypes. NodeTypes'

    <2>1. toSelf' \in Seq(NodeName) /\ Len(toSelf') <= 1
        BY <1>2
    <2>2. toNode' \in [addr : NodeAddr \union {"none"}, busy : {0, 1, 2}, client : BOOLEAN]
        BY <1>3, <1>4
    <2>3. copying' \in {NoCopy} \union [step : {"copy", "made", "start"}, name : NodeName]
        BY <1>2
    <2>4. nodeQuit' \in BOOLEAN
        BY <1>2
    <2> QED BY <1>0, <2>1, <2>2, <2>3, <2>4 DEF NodesInv, NodeTypes
<1>addressed. Addressed'
    BY <1>0, <1>4, <1>6 DEF NodesInv, Addressed, Busy
<1>inUse. InUse'
    BY <1>3, <1>4, <1>6 DEF NodesInv, InUse
<1>toldOnce. ToldOnce'
    BY <1>0, <1>5 DEF NodesInv, ToldOnce
<1>counted. Counted'

    <2>1. Len(toSelf') = 0 /\ Len(toSelf) >= 1 /\ Len(toSelf) \in Nat
        BY <1>2 DEF NodesInv, NodeTypes
    <2>2. Claimed' \in Nat /\ Claimed' + 1 >= Claimed
        BY <1>4 DEF Claimed
    <2> QED BY <1>0, <1>5, <1>6, <2>1, <2>2, CountsAre DEF Counted
<1>registered. Registered'
    BY <1>0, <1>4, <1>5, <1>7 DEF NodesInv, Registered, Busy
<1>inFile. InFile'
    BY <1>0, <1>2, <1>3, <1>4, <1>5, <1>6, <1>7 DEF NodesInv, InFile, Busy
<1>known. Known'
    BY <1>0, <1>8 DEF NodesInv, Known
<1>askedFor. AskedFor'

    <2> SUFFICES ASSUME nodeCrashes + namesakes = 0 PROVE AskedFor'
        BY <1>0 DEF AskedFor
    <2>1. CASE toNode' = toNode /\ copying' = copying
        BY <1>0, <1>3, <1>5, <2>1 DEF NodesInv, AskedFor
    <2>2. CASE toNode'.busy = 2 /\ copying'.name = n /\ toNode'.addr = toNode.addr /\ toNode.busy = 1
        <3>1. <<n, toNode.addr>> \in asked
            BY <1>1, <2>2 DEF NodesInv, AskedFor
        <3> QED BY <1>0, <2>2, <3>1 DEF NodesInv, AskedFor
    <2> QED BY <1>4, <2>1, <2>2
<1>clientThere. ClientThere'
    BY <1>0, <1>3, <1>4 DEF NodesInv, ClientThere
<1>started. Started'
    BY <1>0, <1>2, <1>3, <1>4, <1>5, <1>6, <1>7 DEF NodesInv, Started
<1>noAssert. NoAssert'
    BY <1>0, <1>7, FaultsAre DEF NodesInv, NoAssert
<1>awaited. Awaited'
    BY <1>0, <1>5 DEF NodesInv, Awaited
<1>unregistered. Unregistered'
    BY <1>0, <1>4, <1>6 DEF NodesInv, Unregistered
<1>staysAllowed. StaysAllowed'
    BY <1>0, <1>1, <1>4, <1>5 DEF NodesInv, StaysAllowed, Busy
<1>comes. Comes'

    <2> SUFFICES ASSUME nodeFault = "meanwhile" PROVE toNode'.busy # 1
        BY <1>0 DEF Comes
    <2>1. ~nodeQuit'
        BY <1>7, FaultsAre
    <2> QED BY <1>4, <2>1
<1> QED BY <1>nodeTypes, <1>addressed, <1>inUse, <1>toldOnce, <1>counted, <1>registered, <1>inFile, <1>known, <1>askedFor, <1>clientThere, <1>started, <1>noAssert, <1>awaited, <1>unregistered, <1>staysAllowed, <1>comes DEF NodesInv

\* NodesInv through the files being copied, or not.
LEMMA CopyKeeps ==
    ASSUME NodesInv, CopyNode
    PROVE  NodesInv'
<1>0. /\ nodeFault' = nodeFault /\ nodeSet' = nodeSet /\ adding' = adding /\ nodeRecs' = nodeRecs
      /\ nodeSent' = nodeSent /\ nodeMail' = nodeMail /\ waiting' = waiting /\ toSelf' = toSelf
      /\ registered' = registered /\ nodeQuit' = nodeQuit /\ asked' = asked
      /\ nodeCrashes' = nodeCrashes /\ namesakes' = namesakes
    BY DEF CopyNode, conf, memory, server, tally

<1>1. /\ ~nodeQuit /\ copying.step = "copy" /\ \A j \in 1..MaxNodeAdds : ~Busy(j)
    BY DEF CopyNode, NodesInv, NodeTypes
<1>2. /\ toNode \in [addr : NodeAddr \union {"none"}, busy : {0, 1, 2}, client : BOOLEAN]
      /\ copying \in [step : {"copy", "made", "start"}, name : NodeName] /\ copying # NoCopy
      /\ replica \in [NodeAddr -> [name : NodeName \union {"none"}, st : {"none", "made", "started"}]]
    BY <1>1 DEF NodesInv, NodeTypes, NoCopy
<1>3. toNode.addr \in NodeAddr /\ toNode.busy = 2 /\ toNode.client /\ At("start") = {} /\ copying.name \in registered
    BY <1>1, <1>2 DEF NodesInv, Addressed, InUse, Copies, ClientThere, Registered
<1>4. \/ /\ MakeAt(toNode.addr, copying.name) /\ copying' = [step |-> "made", name |-> copying.name]
         /\ toNode' = [addr |-> toNode.addr, busy |-> 0, client |-> toNode.client]
      \/ /\ copying' = NoCopy /\ replica' = replica
         /\ toNode' = [addr |-> toNode.addr, busy |-> 0, client |-> FALSE]
    <2>0. /\ toNode \in [addr : NodeAddr \union {"none"}, busy : {0, 1, 2}, client : BOOLEAN]
          /\ copying \in [step : {"copy", "made", "start"}, name : NodeName]
        BY <1>2
    <2>1. [toNode EXCEPT !.busy = 0] = [addr |-> toNode.addr, busy |-> 0, client |-> toNode.client]
        BY <2>0
    <2>2. ASSUME toNode' = [toNode EXCEPT !.busy = 0, !.client = FALSE]
          PROVE  toNode' = [addr |-> toNode.addr, busy |-> 0, client |-> FALSE]
        BY <2>0, <2>2
    <2>3. [copying EXCEPT !.step = "made"] = [step |-> "made", name |-> copying.name]
        BY <2>0
    <2> QED BY <2>1, <2>2, <2>3 DEF CopyNode
<1>5. failures' \in Nat
    BY DEF CopyNode, Fails, NodesInv, NodeTypes
<1>6. /\ replica' \in [NodeAddr -> [name : NodeName \union {"none"}, st : {"none", "made", "started"}]]
      /\ \A x \in NodeAddr : /\ replica'[x] = replica[x] \/ (x = toNode.addr /\ replica'[x].name = copying.name)
                             /\ replica[x].st = "started" => replica'[x].st = "started"
    <2>1. CASE MakeAt(toNode.addr, copying.name)
        BY <1>2, <1>3, <2>1 DEF MakeAt
    <2>2. CASE replica' = replica
        BY <1>2, <2>2
    <2> QED BY <1>4, <2>1, <2>2
<1>7. /\ copying'.step \in {"made", "read"} /\ ~Copies' /\ toNode'.addr = toNode.addr /\ toNode'.busy = 0
      /\ copying'.step = "made" => copying'.name = copying.name /\ toNode'.client
      /\ copying' # NoCopy => copying'.name = copying.name
      /\ \A m \in NodeName : copying'.name = m => copying.name = m
    <2>1. copying'.step \in {"made", "read"} /\ toNode'.addr = toNode.addr /\ toNode'.busy = 0
        BY <1>4 DEF NoCopy
    <2>2. copying'.step = "made" => copying'.name = copying.name /\ toNode'.client
        BY <1>3, <1>4 DEF NoCopy
    <2>3. copying' # NoCopy => copying'.name = copying.name
        BY <1>4
    <2>4. \A m \in NodeName : copying'.name = m => copying.name = m
        BY <1>4 DEF NoCopy
    <2> QED BY <2>1, <2>2, <2>3, <2>4 DEF Copies
<1>8. Underway' = Underway /\ Users' = Users /\ InSelf' = InSelf
    BY <1>0 DEF Underway, Users, InSelf
<1>9. \A s : At(s)' = At(s)
    BY <1>0 DEF At
<1>10. At("found") = {} /\ At("pin") = {} /\ At("tell") = {}
    BY <1>1 DEF At, Busy
<1>nodeTypes. NodeTypes'

    <2>1. toNode' \in [addr : NodeAddr \union {"none"}, busy : {0, 1, 2}, client : BOOLEAN]
        <3>1. toNode.addr \in NodeAddr /\ toNode.client \in BOOLEAN
            BY <1>2, <1>3
        <3>2. CASE toNode' = [addr |-> toNode.addr, busy |-> 0, client |-> toNode.client]
            BY <3>1, <3>2
        <3>3. CASE toNode' = [addr |-> toNode.addr, busy |-> 0, client |-> FALSE]
            BY <3>1, <3>3
        <3> QED BY <1>4, <3>2, <3>3
    <2>2. copying' \in {NoCopy} \union [step : {"copy", "made", "start"}, name : NodeName]
        BY <1>2, <1>4
    <2> QED BY <1>0, <1>5, <1>6, <2>1, <2>2 DEF NodesInv, NodeTypes
<1>addressed. Addressed'
    BY <1>0, <1>3, <1>7, <1>9, <1>10 DEF NodesInv, Addressed, Busy
<1>inUse. InUse'
    BY <1>3, <1>7, <1>9 DEF InUse
<1>toldOnce. ToldOnce'
    BY <1>0, <1>8 DEF NodesInv, ToldOnce
<1>counted. Counted'

    <2>1. Claimed' = 0 /\ Claimed = 0
        BY <1>3, <1>7 DEF Claimed
    <2> QED BY <1>0, <1>8, <1>9, <2>1 DEF NodesInv, Counted
<1>registered. Registered'
    BY <1>0, <1>3, <1>7, <1>8 DEF NodesInv, Registered, Busy
<1>inFile. InFile'
    BY <1>0, <1>1, <1>2, <1>3, <1>4, <1>5, <1>6, <1>7, <1>8, <1>9 DEF NodesInv, InFile, Busy
<1>known. Known'

    <2>1. \A m \in NodeName : OnTheWay(m)' => OnTheWay(m)
        BY <1>7, <1>8 DEF OnTheWay
    <2> QED BY <1>0, <2>1 DEF NodesInv, Known
<1>askedFor. AskedFor'

    <2> SUFFICES ASSUME nodeCrashes + namesakes = 0 PROVE AskedFor'
        BY <1>0 DEF AskedFor
    <2>1. <<copying.name, toNode.addr>> \in asked
        BY <1>1 DEF NodesInv, AskedFor
    <2>2. \A x \in NodeAddr : replica'[x].st # "none" => <<replica'[x].name, x>> \in asked
        BY <1>6, <2>1 DEF NodesInv, AskedFor
    <2> QED BY <1>0, <1>7, <2>1, <2>2 DEF AskedFor
<1>clientThere. ClientThere'
    BY <1>0, <1>3, <1>7, <1>9 DEF ClientThere
<1>started. Started'
    BY <1>0, <1>6 DEF NodesInv, Started
<1>noAssert. NoAssert'
    BY <1>0, <1>1, <1>2, <1>3, <1>4, <1>5, <1>6, <1>7, <1>8, <1>9 DEF NodesInv, NoAssert
<1>awaited. Awaited'
    BY <1>0, <1>8 DEF NodesInv, Awaited
<1>unregistered. Unregistered'
    BY <1>0, <1>9, <1>10 DEF NodesInv, Unregistered
<1>staysAllowed. StaysAllowed'
    BY <1>0, <1>2, <1>7, <1>8 DEF NodesInv, StaysAllowed, Busy
<1>comes. Comes'
    BY <1>7 DEF Comes
<1> QED BY <1>nodeTypes, <1>addressed, <1>inUse, <1>toldOnce, <1>counted, <1>registered, <1>inFile, <1>known, <1>askedFor, <1>clientThere, <1>started, <1>noAssert, <1>awaited, <1>unregistered, <1>staysAllowed, <1>comes DEF NodesInv

\* NodesInv through the status that says they were.
LEMMA ReadyKeeps ==
    ASSUME NodesInv, ReadyNode
    PROVE  NodesInv'
<1>0. /\ nodeFault' = nodeFault /\ adding' = adding /\ nodeRecs' = nodeRecs /\ nodeSent' = nodeSent
      /\ nodeMail' = nodeMail /\ waiting' = waiting /\ toSelf' = toSelf /\ replica' = replica
      /\ registered' = registered /\ asked' = asked /\ failures' = failures
      /\ nodeCrashes' = nodeCrashes /\ namesakes' = namesakes
    BY DEF ReadyNode, conf, memory, server, tally

<1>1. ~nodeQuit /\ copying.step = "made"
    BY DEF ReadyNode
<1>2. /\ toNode \in [addr : NodeAddr \union {"none"}, busy : {0, 1, 2}, client : BOOLEAN]
      /\ copying \in [step : {"copy", "made", "start"}, name : NodeName] /\ copying # NoCopy
      /\ nodeSet \in [NodeName -> Statuses] /\ toNode.addr \in NodeAddr
      /\ copying.name \in NodeName /\ copying.name \in registered
    <2>1. /\ toNode \in [addr : NodeAddr \union {"none"}, busy : {0, 1, 2}, client : BOOLEAN]
          /\ copying \in [step : {"copy", "made", "start"}, name : NodeName] /\ copying # NoCopy
          /\ nodeSet \in [NodeName -> Statuses]
        BY <1>1 DEF NodesInv, NodeTypes, NoCopy
    <2> QED BY <2>1 DEF NodesInv, Addressed, Registered

<1>3. \/ /\ toNode.busy = 0 /\ copying' = [step |-> "start", name |-> copying.name]
         /\ toNode' = [addr |-> toNode.addr, busy |-> 2, client |-> toNode.client]
         /\ nodeQuit' = ~toNode.client
      \/ toNode.busy # 0 /\ toNode' = toNode /\ copying' = NoCopy /\ nodeQuit' = nodeQuit
    <2>1. [toNode EXCEPT !.busy = 2] = [addr |-> toNode.addr, busy |-> 2, client |-> toNode.client]
        BY <1>2
    <2>2. [copying EXCEPT !.step = "start"] = [step |-> "start", name |-> copying.name]
        BY <1>2
    <2> QED BY <2>1, <2>2 DEF ReadyNode
<1>4. /\ ~Copies /\ copying'.step \in {"start", "read"} /\ toNode'.addr = toNode.addr /\ nodeQuit' \in BOOLEAN
      /\ Copies' <=> toNode.busy = 0
      /\ toNode.busy = 0 => At("start") = {} /\ toNode'.busy = 2
      /\ toNode.busy # 0 => toNode'.busy = toNode.busy /\ toNode'.client = toNode.client
    <2>1. copying'.step \in {"start", "read"} /\ (copying'.step = "start" <=> toNode.busy = 0)
        BY <1>3 DEF NoCopy
    <2>2. /\ toNode'.addr = toNode.addr /\ nodeQuit' \in BOOLEAN
          /\ toNode.busy = 0 => toNode'.busy = 2
          /\ toNode.busy # 0 => toNode'.busy = toNode.busy /\ toNode'.client = toNode.client
        <3>1. CASE toNode.busy # 0 /\ toNode' = toNode /\ nodeQuit' = nodeQuit
            BY <1>1, <3>1 DEF NodesInv, NodeTypes
        <3>2. CASE /\ toNode.busy = 0 /\ nodeQuit' = ~toNode.client
                   /\ toNode' = [addr |-> toNode.addr, busy |-> 2, client |-> toNode.client]
            BY <3>2
        <3> QED BY <1>3, <3>1, <3>2
    <2>3. ~Copies /\ (toNode.busy = 0 => At("start") = {})
        BY <1>1 DEF Copies, NodesInv, InUse
    <2> QED BY <2>1, <2>2, <2>3 DEF Copies
<1>5. /\ \A m \in NodeName : copying'.name = m => copying.name = m
      /\ copying' # NoCopy => copying'.name = copying.name /\ toNode.busy = 0
    BY <1>3 DEF NoCopy
<1>6. /\ nodeSet' \in [NodeName -> Statuses]
      /\ \A m \in NodeName : nodeSet'[m] # nodeSet[m] =>
           m = copying.name /\ nodeSet'[m] = "ready" /\ nodeSet[m] # "none"
    BY <1>2 DEF ReadyNode, SetNode, Statuses

<1>20. Underway' = Underway /\ Users' = Users /\ InSelf' = InSelf
    BY <1>0 DEF Underway, Users, InSelf
<1>21. /\ \A s : At(s)' = At(s)
       /\ \A j \in 1..MaxNodeAdds : Busy(j)' = Busy(j) /\ (Busy(j) => adding[j].name \in NodeName)
    BY <1>0 DEF At, Busy, NodesInv, Addressed
<1>22. \A m \in NodeName : OnTheWay(m)' => OnTheWay(m)
    BY <1>5, <1>20 DEF OnTheWay
<1>23. \A m \in NodeName : ~OnTheWay(m) => nodeSet'[m] = nodeSet[m]
    BY <1>6 DEF OnTheWay
<1>24. nodeFault = "meanwhile" => nodeSet[copying.name] \in Allowed /\ copying.name \notin Users
    <2>1. nodeFault = "meanwhile" => nodeSet[copying.name] \in Allowed
        BY <1>2 DEF NodesInv, StaysAllowed
    <2> QED BY <2>1 DEF NodesInv, Awaited, Allowed
<1>nodeTypes. NodeTypes'

    <2>1. toNode' \in [addr : NodeAddr \union {"none"}, busy : {0, 1, 2}, client : BOOLEAN]
        BY <1>2, <1>3
    <2>2. copying' \in {NoCopy} \union [step : {"copy", "made", "start"}, name : NodeName]
        BY <1>2, <1>3
    <2> QED BY <1>0, <1>4, <1>6, <2>1, <2>2 DEF NodesInv, NodeTypes
<1>addressed. Addressed'
    BY <1>0, <1>2, <1>4, <1>21 DEF NodesInv, Addressed
<1>inUse. InUse'
    BY <1>4, <1>21 DEF NodesInv, InUse
<1>toldOnce. ToldOnce'
    BY <1>0, <1>20 DEF NodesInv, ToldOnce
<1>counted. Counted'

    <2>1. Claimed' = Claimed
        BY <1>4 DEF Claimed
    <2> QED BY <1>0, <1>20, <1>21, <2>1 DEF NodesInv, Counted
<1>registered. Registered'

    <2>1. \A m \in NodeName : nodeSet'[m] \in Beyond => m \in registered
        BY <1>2, <1>6 DEF NodesInv, Registered
    <2> QED BY <1>0, <1>2, <1>5, <1>20, <1>21, <2>1 DEF NodesInv, Registered
<1>inFile. InFile'

    <2>1. \A m \in NodeName : nodeSet[m] # "none" => nodeSet'[m] # "none"
        BY <1>6
    <2> QED BY <1>0, <1>21, <2>1 DEF NodesInv, InFile
<1>known. Known'

    <2> SUFFICES ASSUME nodeFault # "twice", namesakes = 0 PROVE Known'
        BY <1>0 DEF Known
    <2>1. \A m \in NodeName : (nodeSet[m] # "none" => nodeSet'[m] # "none") /\ (nodeSet[m] = "none" => nodeSet'[m] = "none")
        BY <1>6
    <2>2. \A m \in NodeName : OnTheWay(m)' => nodeSet'[m] # "none"
        BY <1>22, <2>1 DEF NodesInv, Known
    <2>3. \A j \in 1..MaxNodeAdds : adding'[j].step = "found" /\ adding'[j].found = "none" =>
            nodeSet'[adding'[j].name] = "none"
        BY <1>0, <1>21, <2>1 DEF NodesInv, Known, Busy
    <2>4. \A j \in 1..MaxNodeAdds, m \in NodeName :
            adding'[j].step \in {"pin", "drop"} /\ adding'[j].found = "none" /\ adding'[j].name = m =>
              nodeSet'[m] = "pending" /\ ~OnTheWay(m)'
        BY <1>0, <1>22, <1>23 DEF NodesInv, Known
    <2>5. nodeFault' # "twice" /\ namesakes' = 0
        BY <1>0
    <2> QED BY <2>2, <2>3, <2>4, <2>5 DEF Known
<1>askedFor. AskedFor'

    <2> SUFFICES ASSUME nodeCrashes + namesakes = 0 PROVE AskedFor'
        BY <1>0 DEF AskedFor
    <2>1. toNode'.busy = 1 => toNode' = toNode
        BY <1>3
    <2>2. copying'.step = "start" /\ ~nodeQuit' => <<copying'.name, toNode'.addr>> \in asked
        <3> SUFFICES ASSUME copying'.step = "start", ~nodeQuit' PROVE <<copying'.name, toNode'.addr>> \in asked
            OBVIOUS
        <3>1. toNode.busy = 0 /\ copying'.name = copying.name /\ toNode'.addr = toNode.addr
            BY <1>3 DEF NoCopy
        <3>2. toNode.client
            BY <1>3, <3>1
        <3> QED BY <1>1, <3>1, <3>2 DEF NodesInv, AskedFor
    <2> QED BY <1>0, <1>4, <1>20, <2>1, <2>2 DEF NodesInv, AskedFor
<1>clientThere. ClientThere'
    BY <1>0, <1>4, <1>21 DEF NodesInv, ClientThere
<1>started. Started'

    <2>1. \A m \in NodeName : nodeSet'[m] = "active" => nodeSet[m] = "active"
        BY <1>6
    <2> QED BY <1>0, <2>1 DEF NodesInv, Started
<1>noAssert. NoAssert'

    <2>1. nodeFault # "meanwhile" => ~nodeQuit'
        BY <1>1, <1>3 DEF NodesInv, ClientThere
    <2> QED BY <1>0, <2>1 DEF NoAssert
<1>awaited. Awaited'

    <2> SUFFICES ASSUME nodeFault = "meanwhile" PROVE Awaited'
        BY <1>0 DEF Awaited
    <2>1. \A m \in Users \union registered : m \in NodeName
        BY DEF NodesInv, ToldOnce, NodeTypes
    <2> QED BY <1>0, <1>6, <1>20, <1>24, <2>1 DEF NodesInv, Awaited, New
<1>unregistered. Unregistered'
    BY <1>0, <1>1, <1>4, <1>21 DEF NodesInv, Unregistered
<1>staysAllowed. StaysAllowed'

    <2> SUFFICES ASSUME nodeFault = "meanwhile" PROVE StaysAllowed'
        BY <1>0 DEF StaysAllowed
    <2>1. \A m \in NodeName : nodeSet[m] \in Allowed => nodeSet'[m] \in Allowed
        BY <1>6 DEF Allowed
    <2>2. \A m \in waiting \union InSelf : m \in NodeName
        BY DEF NodesInv, NodeTypes, InSelf
    <2> QED BY <1>0, <1>2, <1>5, <1>20, <1>21, <1>24, <2>1, <2>2 DEF NodesInv, StaysAllowed
<1>comes. Comes'

    <2>1. toNode'.busy = 1 => toNode.busy = 1
        BY <1>4
    <2> QED BY <1>0, <1>1, <1>20, <1>21, <2>1 DEF NodesInv, Comes
<1> QED BY <1>nodeTypes, <1>addressed, <1>inUse, <1>toldOnce, <1>counted, <1>registered, <1>inFile, <1>known, <1>askedFor, <1>clientThere, <1>started, <1>noAssert, <1>awaited, <1>unregistered, <1>staysAllowed, <1>comes DEF NodesInv

\* NodesInv through the start of the replica, or its failure.
LEMMA ActiveKeeps ==
    ASSUME NodesInv, ActiveNode
    PROVE  NodesInv'
<1>0. /\ nodeFault' = nodeFault /\ adding' = adding /\ nodeRecs' = nodeRecs /\ nodeSent' = nodeSent
      /\ nodeMail' = nodeMail /\ waiting' = waiting /\ toSelf' = toSelf /\ registered' = registered
      /\ nodeQuit' = nodeQuit /\ asked' = asked /\ nodeCrashes' = nodeCrashes
      /\ namesakes' = namesakes
    BY DEF ActiveNode, conf, memory, server, tally

<1>1. ~nodeQuit /\ copying.step = "start"
    BY DEF ActiveNode
<1>2. /\ toNode \in [addr : NodeAddr \union {"none"}, busy : {0, 1, 2}, client : BOOLEAN]
      /\ copying \in [step : {"copy", "made", "start"}, name : NodeName] /\ copying # NoCopy
      /\ nodeSet \in [NodeName -> Statuses] /\ toNode.addr \in NodeAddr
      /\ copying.name \in NodeName /\ copying.name \in registered
    <2>1. /\ toNode \in [addr : NodeAddr \union {"none"}, busy : {0, 1, 2}, client : BOOLEAN]
          /\ copying \in [step : {"copy", "made", "start"}, name : NodeName] /\ copying # NoCopy
          /\ nodeSet \in [NodeName -> Statuses]
        BY <1>1 DEF NodesInv, NodeTypes, NoCopy
    <2> QED BY <2>1 DEF NodesInv, Addressed, Registered

<1>3. /\ toNode.busy = 2 /\ At("start") = {} /\ Copies /\ copying' = NoCopy /\ copying'.step = "read" /\ ~Copies'
    BY <1>1 DEF ActiveNode, NodesInv, InUse, Copies, NoCopy
<1>4. /\ toNode' = [addr |-> toNode.addr, busy |-> 0, client |-> FALSE] /\ failures' \in Nat
      /\ \/ StartAt(toNode.addr) /\ SetNode(copying.name, "active")
         \/ replica' = replica /\ nodeSet' = nodeSet
    <2>1. failures' \in Nat
        BY DEF ActiveNode, Fails, NodesInv, NodeTypes
    <2>2. ASSUME toNode' = [toNode EXCEPT !.busy = 0, !.client = FALSE]
          PROVE  toNode' = [addr |-> toNode.addr, busy |-> 0, client |-> FALSE]
        BY <2>2 DEF NodesInv, NodeTypes
    <2>3. \/ StartAt(toNode.addr) /\ SetNode(copying.name, "active")
          \/ replica' = replica /\ nodeSet' = nodeSet
        BY DEF ActiveNode
    <2> QED BY <2>1, <2>2, <2>3 DEF ActiveNode
<1>5. \A m \in NodeName : copying'.name # m
    BY <1>3 DEF NoCopy
<1>6. /\ nodeSet' \in [NodeName -> Statuses]
      /\ \A m \in NodeName : nodeSet'[m] # nodeSet[m] =>
           /\ m = copying.name /\ nodeSet'[m] = "active" /\ nodeSet[m] # "none"
           /\ replica'[toNode.addr].st = "started"
    <2>1. CASE StartAt(toNode.addr) /\ SetNode(copying.name, "active")
        <3>1. replica'[toNode.addr].st = "started"
            BY <1>2, <2>1 DEF StartAt, NodesInv, NodeTypes
        <3> QED BY <1>2, <2>1, <3>1 DEF SetNode, Statuses
    <2>2. CASE nodeSet' = nodeSet
        BY <1>2, <2>2
    <2> QED BY <1>4, <2>1, <2>2
<1>7. /\ replica' \in [NodeAddr -> [name : NodeName \union {"none"}, st : {"none", "made", "started"}]]
      /\ \A x \in NodeAddr : /\ replica'[x].name = replica[x].name
                             /\ replica'[x].st # "none" => replica[x].st # "none"
                             /\ replica[x].st = "started" => replica'[x].st = "started"
    <2>1. replica \in [NodeAddr -> [name : NodeName \union {"none"}, st : {"none", "made", "started"}]]
        BY DEF NodesInv, NodeTypes
    <2>2. CASE StartAt(toNode.addr)
        BY <1>2, <2>1, <2>2 DEF StartAt
    <2>3. CASE replica' = replica
        BY <2>1, <2>3
    <2> QED BY <1>4, <2>2, <2>3

<1>20. Underway' = Underway /\ Users' = Users /\ InSelf' = InSelf
    BY <1>0 DEF Underway, Users, InSelf
<1>21. /\ \A s : At(s)' = At(s)
       /\ \A j \in 1..MaxNodeAdds : Busy(j)' = Busy(j) /\ (Busy(j) => adding[j].name \in NodeName)
    BY <1>0 DEF At, Busy, NodesInv, Addressed
<1>22. \A m \in NodeName : OnTheWay(m)' => OnTheWay(m)
    BY <1>5, <1>20 DEF OnTheWay
<1>23. \A m \in NodeName : ~OnTheWay(m) => nodeSet'[m] = nodeSet[m]
    BY <1>6 DEF OnTheWay
<1>24. nodeFault = "meanwhile" => nodeSet[copying.name] \in Allowed /\ copying.name \notin Users
    <2>1. nodeFault = "meanwhile" => nodeSet[copying.name] \in Allowed
        BY <1>2 DEF NodesInv, StaysAllowed
    <2> QED BY <2>1 DEF NodesInv, Awaited, Allowed
<1>nodeTypes. NodeTypes'

    <2>1. toNode' \in [addr : NodeAddr \union {"none"}, busy : {0, 1, 2}, client : BOOLEAN]
        BY <1>2, <1>4
    <2> QED BY <1>0, <1>3, <1>4, <1>6, <1>7, <2>1 DEF NodesInv, NodeTypes
<1>addressed. Addressed'
    BY <1>0, <1>3, <1>4, <1>21 DEF NodesInv, Addressed
<1>inUse. InUse'
    BY <1>3, <1>4, <1>21 DEF NodesInv, InUse
<1>toldOnce. ToldOnce'
    BY <1>0, <1>20 DEF NodesInv, ToldOnce
<1>counted. Counted'

    <2>1. Claimed' = 0 /\ Claimed = 0
        BY <1>3, <1>4 DEF Claimed
    <2> QED BY <1>0, <1>20, <1>21, <2>1 DEF NodesInv, Counted
<1>registered. Registered'

    <2>1. \A m \in NodeName : nodeSet'[m] \in Beyond => m \in registered
        BY <1>2, <1>6 DEF NodesInv, Registered
    <2> QED BY <1>0, <1>3, <1>20, <1>21, <2>1 DEF NodesInv, Registered
<1>inFile. InFile'

    <2>1. \A m \in NodeName : nodeSet[m] # "none" => nodeSet'[m] # "none"
        BY <1>6
    <2> QED BY <1>0, <1>21, <2>1 DEF NodesInv, InFile
<1>known. Known'

    <2> SUFFICES ASSUME nodeFault # "twice", namesakes = 0 PROVE Known'
        BY <1>0 DEF Known
    <2>1. \A m \in NodeName : (nodeSet[m] # "none" => nodeSet'[m] # "none") /\ (nodeSet[m] = "none" => nodeSet'[m] = "none")
        BY <1>6
    <2>2. \A m \in NodeName : OnTheWay(m)' => nodeSet'[m] # "none"
        BY <1>22, <2>1 DEF NodesInv, Known
    <2>3. \A j \in 1..MaxNodeAdds : adding'[j].step = "found" /\ adding'[j].found = "none" =>
            nodeSet'[adding'[j].name] = "none"
        BY <1>0, <1>21, <2>1 DEF NodesInv, Known, Busy
    <2>4. \A j \in 1..MaxNodeAdds, m \in NodeName :
            adding'[j].step \in {"pin", "drop"} /\ adding'[j].found = "none" /\ adding'[j].name = m =>
              nodeSet'[m] = "pending" /\ ~OnTheWay(m)'
        BY <1>0, <1>22, <1>23 DEF NodesInv, Known
    <2>5. nodeFault' # "twice" /\ namesakes' = 0
        BY <1>0
    <2> QED BY <2>2, <2>3, <2>4, <2>5 DEF Known
<1>askedFor. AskedFor'
    BY <1>0, <1>3, <1>4, <1>7, <1>20 DEF NodesInv, AskedFor
<1>clientThere. ClientThere'
    BY <1>3, <1>4 DEF ClientThere
<1>started. Started'

    <2> SUFFICES ASSUME nodeFault \notin {"crash", "twice"}, namesakes = 0,
                        NEW m \in NodeName, nodeSet'[m] = "active"
                 PROVE  \E x \in NodeAddr : <<m, x>> \in asked /\ replica'[x].st = "started"
        BY <1>0 DEF Started
    <2>1. CASE nodeSet'[m] = nodeSet[m]
        BY <1>7, <2>1 DEF NodesInv, Started
    <2>2. CASE nodeSet'[m] # nodeSet[m]
        <3>1. nodeCrashes + namesakes = 0
            BY FaultsAre
        <3>2. <<copying.name, toNode.addr>> \in asked
            BY <1>1, <3>1 DEF NodesInv, AskedFor
        <3> QED BY <1>2, <1>6, <2>2, <3>2
    <2> QED BY <2>1, <2>2
<1>noAssert. NoAssert'
    BY <1>0, <1>1, <1>2, <1>3, <1>4, <1>5, <1>6 DEF NodesInv, NoAssert
<1>awaited. Awaited'

    <2> SUFFICES ASSUME nodeFault = "meanwhile" PROVE Awaited'
        BY <1>0 DEF Awaited
    <2>1. \A m \in Users \union registered : m \in NodeName
        BY DEF NodesInv, ToldOnce, NodeTypes
    <2> QED BY <1>0, <1>6, <1>20, <1>24, <2>1 DEF NodesInv, Awaited, New
<1>unregistered. Unregistered'
    BY <1>0, <1>1, <1>3, <1>21 DEF NodesInv, Unregistered
<1>staysAllowed. StaysAllowed'

    <2> SUFFICES ASSUME nodeFault = "meanwhile" PROVE StaysAllowed'
        BY <1>0 DEF StaysAllowed
    <2>1. \A m \in NodeName : nodeSet[m] \in Allowed => nodeSet'[m] \in Allowed
        BY <1>6 DEF Allowed
    <2>2. \A m \in waiting \union InSelf : m \in NodeName
        BY DEF NodesInv, NodeTypes, InSelf
    <2> QED BY <1>0, <1>3, <1>20, <1>21, <2>1, <2>2 DEF NodesInv, StaysAllowed
<1>comes. Comes'
    BY <1>4 DEF Comes
<1> QED BY <1>nodeTypes, <1>addressed, <1>inUse, <1>toldOnce, <1>counted, <1>registered, <1>inFile, <1>known, <1>askedFor, <1>clientThere, <1>started, <1>noAssert, <1>awaited, <1>unregistered, <1>staysAllowed, <1>comes DEF NodesInv

\* NodesInv through a crash, after which requests are gone and the claim with them.
LEMMA CrashKeeps ==
    ASSUME NodesInv, NodeCrash
    PROVE  NodesInv'
<1>0. /\ nodeFault' = nodeFault /\ nodeSet' = nodeSet /\ nodeRecs' = nodeRecs /\ replica' = replica
      /\ registered' = registered /\ nodeQuit' = nodeQuit /\ asked' = asked /\ failures' = failures
      /\ namesakes' = namesakes
    BY DEF NodeCrash, conf, memory, server, tally

<1>1. /\ nodeFault = "crash" /\ ~nodeQuit /\ nodeCrashes \in Nat /\ nodeCrashes' = nodeCrashes + 1
      /\ toNode' = NoNode /\ waiting' = {} /\ toSelf' = <<>> /\ copying' = NoCopy /\ nodeSent' = "none"
      /\ nodeMail' = StillTold(nodeMail)
    BY DEF NodeCrash, NodesInv, NodeTypes
<1>2. /\ adding' \in [1..MaxNodeAdds -> Request]
      /\ \A j \in 1..MaxNodeAdds : adding'[j].step \in {"new", "done"}
    <2>1. /\ adding \in [1..MaxNodeAdds -> Request]
          /\ adding' = [j \in 1..MaxNodeAdds |-> IF Busy(j) THEN [adding[j] EXCEPT !.step = "done"] ELSE adding[j]]
        BY DEF NodeCrash, NodesInv, NodeTypes
    <2>2. ASSUME NEW j \in 1..MaxNodeAdds PROVE adding'[j] \in Request /\ adding'[j].step \in {"new", "done"}
        <3>1. adding[j] \in Request
            BY <2>1
        <3>2. CASE Busy(j)
            <4>1. adding'[j] = [adding[j] EXCEPT !.step = "done"]
                BY <2>1, <3>2
            <4> QED BY <3>1, <4>1 DEF Request
        <3>3. CASE ~Busy(j)
            BY <2>1, <3>1, <3>3 DEF Busy
        <3> QED BY <3>2, <3>3
    <2>3. DOMAIN adding' = 1..MaxNodeAdds /\ adding' = [j \in 1..MaxNodeAdds |-> adding'[j]]
        BY <2>1
    <2> QED BY <2>2, <2>3
<1>3. \A j \in 1..MaxNodeAdds : ~Busy(j)'
    BY <1>2 DEF Busy
<1>4. At("tell")' = {} /\ At("start")' = {}
    BY <1>2 DEF At
<1>5. /\ nodeMail' \in Seq(Event) /\ OnceEach(nodeMail')
      /\ \A k \in 1..Len(nodeMail') : nodeMail'[k].op = "user"
      /\ Users' = Users
    BY <1>1, StillToldKeeps DEF NodesInv, NodeTypes, ToldOnce, Users
<1>6. Underway' \subseteq Underway /\ InSelf' = {}
    BY <1>0, <1>1, <1>5 DEF Underway, InSelf
<1>7. /\ toNode'.busy = 0 /\ copying'.step = "read" /\ ~Copies' /\ \A m \in NodeName : copying'.name # m
    BY <1>1 DEF NoNode, NoCopy, Copies
<1>8. nodeCrashes' + namesakes' # 0
    BY <1>0, <1>1 DEF NodesInv, NodeTypes
<1>nodeTypes. NodeTypes'
    BY <1>0, <1>1, <1>2, <1>5 DEF NodesInv, NodeTypes, NoNode
<1>addressed. Addressed'
    BY <1>1, <1>3, <1>4, <1>7 DEF Addressed
<1>inUse. InUse'
    BY <1>4, <1>7 DEF InUse
<1>toldOnce. ToldOnce'
    BY <1>0, <1>1, <1>5 DEF NodesInv, ToldOnce, OneAnswer
<1>counted. Counted'

    <2>1. IsFiniteSet(Underway') /\ Cardinality(Underway') \in Nat /\ Cardinality(Underway') <= Cardinality(Underway)
        BY <1>6, CountSubset, CountsAre
    <2>2. Cardinality(At("tell")') = 0 /\ Len(toSelf') = 0 /\ Claimed' = 0
        BY <1>1, <1>4, <1>7, FS_EmptySet DEF Claimed
    <2> QED BY <1>0, <1>1, <2>1, <2>2, CountsAre DEF Counted
<1>registered. Registered'
    BY <1>0, <1>1, <1>2, <1>3, <1>6 DEF NodesInv, Registered
<1>inFile. InFile'
    BY <1>3 DEF InFile
<1>known. Known'

    <2> SUFFICES ASSUME nodeFault # "twice", namesakes = 0 PROVE Known'
        BY <1>0 DEF Known
    <2>1. \A m \in NodeName : OnTheWay(m)' => OnTheWay(m)
        BY <1>6, <1>7 DEF OnTheWay
    <2> QED BY <1>0, <1>2, <2>1 DEF NodesInv, Known
<1>askedFor. AskedFor'
    BY <1>8 DEF AskedFor
<1>clientThere. ClientThere'
    BY <1>4, <1>7 DEF ClientThere
<1>started. Started'
    BY <1>0, <1>1 DEF Started
<1>noAssert. NoAssert'
    BY <1>0 DEF NodesInv, NoAssert
<1>awaited. Awaited'
    BY <1>0, <1>1 DEF Awaited
<1>unregistered. Unregistered'
    BY <1>0, <1>1 DEF Unregistered
<1>staysAllowed. StaysAllowed'
    BY <1>0, <1>1 DEF StaysAllowed
<1>comes. Comes'
    BY <1>7 DEF Comes
<1> QED BY <1>nodeTypes, <1>addressed, <1>inUse, <1>toldOnce, <1>counted, <1>registered, <1>inFile, <1>known, <1>askedFor, <1>clientThere, <1>started, <1>noAssert, <1>awaited, <1>unregistered, <1>staysAllowed, <1>comes DEF NodesInv

-----------------------------------------------------------------------------
\* NodesInv when the process starts.
LEMMA NodesInvInit ==
    ASSUME NodesInit
    PROVE  NodesInv
<1>1. /\ nodeFault \in AllNodeFaults /\ nodeSet = [n \in NodeName |-> "none"] /\ toNode = NoNode
      /\ adding = [i \in 1..MaxNodeAdds |-> [NoRequest EXCEPT !.step = "new"]]
      /\ nodeRecs = {} /\ nodeSent = "none" /\ nodeMail = <<>> /\ waiting = {} /\ toSelf = <<>>
      /\ copying = NoCopy /\ replica = [x \in NodeAddr |-> [name |-> "none", st |-> "none"]]
      /\ registered = {} /\ nodeQuit = FALSE /\ asked = {}
      /\ failures = 0 /\ nodeCrashes = 0 /\ namesakes = 0
    BY NodesAssumption DEF NodesInit
<1>2. adding \in [1..MaxNodeAdds -> Request] /\ \A i \in 1..MaxNodeAdds : adding[i].step = "new"
    BY <1>1 DEF NoRequest, Request, Statuses
<1>3. /\ \A i \in 1..MaxNodeAdds : ~Busy(i)
      /\ At("tell") = {} /\ At("start") = {} /\ At("found") = {} /\ At("pin") = {}
    BY <1>2 DEF Busy, At
<1>4. /\ toNode.busy = 0 /\ copying.step = "read" /\ ~Copies /\ \A n \in NodeName : copying.name # n
    BY <1>1 DEF NoNode, NoCopy, Copies
<1>5. Len(nodeMail) = 0 /\ Len(toSelf) = 0 /\ 1..0 = {}
    BY <1>1
<1>6. Users = {} /\ InSelf = {} /\ Underway = {}
    BY <1>1, <1>5 DEF Users, UsersOf, InSelf, Underway
<1>7. NodeTypes
    <2>1. /\ nodeSet \in [NodeName -> Statuses]
          /\ replica \in [NodeAddr -> [name : NodeName \union {"none"}, st : {"none", "made", "started"}]]
        BY <1>1 DEF Statuses
    <2>2. toNode \in [addr : NodeAddr \union {"none"}, busy : {0, 1, 2}, client : BOOLEAN]
        BY <1>1 DEF NoNode
    <2>3. nodeMail \in Seq(Event) /\ toSelf \in Seq(NodeName) /\ Len(toSelf) <= 1
        BY <1>1, <1>5
    <2> QED BY <1>1, <1>2, <2>1, <2>2, <2>3 DEF NodeTypes
<1>8. Addressed /\ InUse
    BY <1>1, <1>3, <1>4 DEF Addressed, InUse
<1>9. ToldOnce
    BY <1>1, <1>5, <1>6 DEF ToldOnce, OnceEach, OneAnswer
<1>10. Counted
    <2>1. IsFiniteSet(Underway) /\ Cardinality(Underway) = 0 /\ Cardinality(At("tell")) = 0 /\ Claimed = 0
        BY <1>3, <1>4, <1>6, FS_EmptySet DEF Claimed
    <2> QED BY <1>1, <1>5, <2>1 DEF Counted
<1>11. Registered
    BY <1>1, <1>2, <1>3, <1>6 DEF Registered, Beyond
<1>12. InFile /\ Known
    BY <1>1, <1>2, <1>3, <1>4, <1>6 DEF InFile, Known, OnTheWay
<1>13. AskedFor
    BY <1>1, <1>4 DEF AskedFor
<1>14. ClientThere /\ Started /\ NoAssert
    BY <1>1, <1>4 DEF ClientThere, Started, NoAssert
<1>15. Awaited /\ Unregistered /\ StaysAllowed /\ Comes
    BY <1>1, <1>3, <1>4, <1>5, <1>6 DEF Awaited, Unregistered, StaysAllowed, Comes
<1> QED BY <1>7, <1>8, <1>9, <1>10, <1>11, <1>12, <1>13, <1>14, <1>15 DEF NodesInv

\* NodesInv when nothing happens.
LEMMA NodesInvStutters ==
    ASSUME NodesInv, UNCHANGED nodeVars
    PROVE  NodesInv'
<1>1. /\ nodeFault' = nodeFault /\ nodeSet' = nodeSet /\ toNode' = toNode /\ adding' = adding
      /\ nodeRecs' = nodeRecs /\ nodeSent' = nodeSent /\ nodeMail' = nodeMail /\ waiting' = waiting
      /\ toSelf' = toSelf /\ copying' = copying /\ replica' = replica /\ registered' = registered
      /\ nodeQuit' = nodeQuit /\ asked' = asked
      /\ failures' = failures /\ nodeCrashes' = nodeCrashes /\ namesakes' = namesakes
    BY DEF nodeVars, conf, memory, server, tally
<1>2. (\A s : At(s)' = At(s)) /\ (\A i : Busy(i)' = Busy(i)) /\ Copies' = Copies
    BY <1>1 DEF At, Busy, Copies
<1>3. Users' = Users /\ Underway' = Underway /\ InSelf' = InSelf /\ Claimed' = Claimed
    BY <1>1 DEF Users, Underway, InSelf, Claimed
<1>4. \A n : OnTheWay(n)' = OnTheWay(n)
    BY <1>1, <1>3 DEF OnTheWay
<1>5. NodeTypes' /\ Addressed' /\ InUse' /\ ToldOnce'
    BY <1>1, <1>2, <1>3 DEF NodesInv, NodeTypes, Addressed, InUse, ToldOnce
<1>6. Counted' /\ Registered'
    BY <1>1, <1>2, <1>3 DEF NodesInv, Counted, Registered
<1>7. InFile' /\ Known'
    BY <1>1, <1>2, <1>4 DEF NodesInv, InFile, Known
<1>8. AskedFor' /\ ClientThere' /\ Started' /\ NoAssert'
    BY <1>1, <1>2, <1>3 DEF NodesInv, AskedFor, ClientThere, Started, NoAssert
<1>9. Awaited' /\ Unregistered' /\ StaysAllowed' /\ Comes'
    BY <1>1, <1>2, <1>3 DEF NodesInv, Awaited, Unregistered, StaysAllowed, Comes
<1> QED BY <1>5, <1>6, <1>7, <1>8, <1>9 DEF NodesInv

\* NodesInv through any step.
LEMMA NodesInvNext ==
    ASSUME NodesInv, [NodesNext]_nodeVars
    PROVE  NodesInv'
<1>1. CASE NodesNext
    <2>1. CASE \E i \in 1..MaxNodeAdds, n \in NodeName, x \in NodeAddr : FindNode(i, n, x)
        BY <2>1, FindKeeps
    <2>2. CASE \E i \in 1..MaxNodeAdds : AddNode(i) \/ ClaimNode(i) \/ RefuseNode(i) \/ DropNode(i) \/ TellNode(i)
        BY <2>2, AddKeeps, ClaimKeeps, RefuseKeeps, DropKeeps, TellKeeps
    <2>3. CASE \E i \in 1..MaxNodeAdds : CompleteClaim(i) \/ CompleteEnd(i)
        BY <2>3, CompleteClaimKeeps, CompleteEndKeeps
    <2>4. CASE \E n \in NodeName : SendUser(n) \/ NodeElsewhere(n) \/ AckSeen(n)
        BY <2>4, SendKeeps, ElsewhereKeeps, AckSeenKeeps
    <2>5. CASE HandleUser \/ HandleNodeAck \/ HandleNodeError
        BY <2>5, UserKeeps, AckKeeps, ErrorKeeps
    <2>6. CASE TakeNode \/ CopyNode \/ ReadyNode \/ ActiveNode
        BY <2>6, TakeKeeps, CopyKeeps, ReadyKeeps, ActiveKeeps
    <2>7. CASE NodeCrash
        BY <2>7, CrashKeeps
    <2> QED BY <1>1, <2>1, <2>2, <2>3, <2>4, <2>5, <2>6, <2>7 DEF NodesNext
<1>2. CASE UNCHANGED nodeVars
    BY <1>2, NodesInvStutters
<1> QED BY <1>1, <1>2

\* A replica is what was asked for where it is, and one that is active was started.
LEMMA InvIsRight ==
    ASSUME NodesInv
    PROVE  NodesRight
<1>1. RightReplica
    BY FaultsAre DEF NodesInv, AskedFor, RightReplica
<1>2. ActiveIsStarted
    <2>1. namesakes = 0 \/ namesakes > 0
        BY DEF NodesInv, NodeTypes
    <2>2. \A n \in NodeName : nodeSet[n] = "active" => n \in registered
        BY DEF NodesInv, Registered, Beyond
    <2>3. Started
        BY DEF NodesInv
    <2> QED BY <2>1, <2>2, <2>3 DEF Started, ActiveIsStarted
<1> QED BY <1>1, <1>2 DEF NodesRight

\* An address has one user, no assert fails, a claim is used, and nobody blocks the receiver.
LEMMA InvGoesOn ==
    ASSUME NodesInv
    PROVE  NodesGoOn
<1>1. DOMAIN adding = 1..MaxNodeAdds /\ {i \in DOMAIN adding : adding[i].step = "start"} = At("start")
    BY DEF NodesInv, NodeTypes, At
<1>2. NodesTypeOK
    <2>1. toNode.busy = 2 <=> Copies \/ \E i \in DOMAIN adding : adding[i].step = "start"
        BY <1>1 DEF NodesInv, InUse, At
    <2>2. Cardinality(At("start")) + (IF Copies THEN 1 ELSE 0) <= 1
        <3>1. CASE At("start") = {}
            BY <3>1, FS_EmptySet
        <3>2. CASE At("start") # {}
            <4>1. PICK i : i \in At("start")
                BY <3>2
            <4>2. At("start") = {i} /\ ~Copies
                BY <4>1 DEF NodesInv, InUse
            <4>3. Cardinality({i}) = 1
                BY FS_Singleton
            <4> QED BY <4>2, <4>3
        <3> QED BY <3>1, <3>2
    <2> QED BY <1>1, <2>1, <2>2 DEF NodesTypeOK, NodesInv, NodeTypes, Statuses
<1>3. NodeNoQuit
    BY DEF NodeNoQuit, NodesInv, NoAssert
<1>4. ClaimEnds
    <2>1. DOMAIN nodeMail = 1..Len(nodeMail)
        BY DEF NodesInv, NodeTypes
    <2>2. Underway # {} => \/ nodeRecs # {} \/ waiting # {}
                           \/ \E k \in DOMAIN nodeMail : nodeMail[k].op = "user"
        BY <2>1 DEF Underway, Users, UsersOf
    <2>3. At("tell") # {} => \E i \in DOMAIN adding : adding[i].step = "tell"
        BY <1>1 DEF At
    <2> QED BY <2>2, <2>3 DEF NodesInv, Comes, ClaimEnds
<1>5. NobodyBlocked
    <2> SUFFICES ASSUME nodeCrashes + namesakes < 2, copying.step = "copy", toSelf # <<>>,
                        NEW i \in DOMAIN adding, adding[i].step = "tell"
                 PROVE  FALSE
        BY DEF NobodyBlocked
    <2>1. Claimed = 0
        BY DEF NodesInv, InUse, Copies, Claimed
    <2>2. Cardinality(At("tell")) # 0
        BY <1>1, AtCount DEF At
    <2>3. Len(toSelf) # 0
        BY DEF NodesInv, NodeTypes
    <2>4. /\ Cardinality(Underway) \in Nat /\ Cardinality(At("tell")) \in Nat /\ Len(toSelf) \in Nat
          /\ nodeCrashes \in Nat /\ namesakes \in Nat
          /\ Cardinality(Underway) + Len(toSelf) + Cardinality(At("tell")) <= Claimed + nodeCrashes + namesakes
        BY CountsAre
    <2> QED BY <2>1, <2>2, <2>3, <2>4
<1> QED BY <1>2, <1>3, <1>4, <1>5 DEF NodesGoOn
-----------------------------------------------------------------------------
(* A replica that is called ready or active is what was asked for, where it was      *)
(* (node.go, replicateNode copies to the address that was claimed last).             *)
THEOREM ReplicasAreRight == NodesSpec => []NodesRight
<1>1. NodesSpec => []NodesInv
    BY NodesInvInit, NodesInvNext, PTL DEF NodesSpec
<1>2. NodesInv => NodesRight
    BY InvIsRight
<1> QED BY <1>1, <1>2, PTL

(* Adding a replica goes on to its end: no assert of service.go or node.go fails, a  *)
(* claim has a name on its way, and receiver and request do not wait for each other.  *)
THEOREM ReplicasGoOn == NodesSpec => []NodesGoOn
<1>1. NodesSpec => []NodesInv
    BY NodesInvInit, NodesInvNext, PTL DEF NodesSpec
<1>2. NodesInv => NodesGoOn
    BY InvGoesOn
<1> QED BY <1>1, <1>2, PTL
=============================================================================
