------------------------------- MODULE Nodes -------------------------------
(* How an account gets a replica (src/slib/node.go, service.go): a page asks for  *)
(* one by name, at the address of a process that waits for it; the server         *)
(* registers the name, says so to every replica and answers; then the account is  *)
(* copied to the address, and started there.  A name goes from pending to sent,   *)
(* allowed, ready and active; where it is to be copied is kept in memory alone.   *)
(* A behaviour may have one fault:                                              *)
(* twice: two pages ask for one name at the same time.                          *)
(* refused: the server refuses a name, or an address does not answer.           *)
(* crash: the process ends and starts again.                                    *)
(* namesake: another replica asks for the same name.                            *)
(* meanwhile: a page starts a replica between the copying of another and its    *)
(* start, and an address does not answer.                                       *)
EXTENDS Naturals, Sequences, FiniteSets, SequencesExt

CONSTANTS NodeName,     \* names of replicas
          NodeAddr,     \* addresses of processes that wait for one
          NodeFaults,   \* those of AllNodeFaults that are considered
          MaxNodeAdds, MaxFailures, MaxNodeCrashes, MaxNamesakes   \* bounds

AllNodeFaults == {"twice", "refused", "crash", "namesake", "meanwhile"}

ASSUME NodesAssumption ==
  /\ NodeFaults \subseteq AllNodeFaults
  /\ {MaxNodeAdds, MaxFailures, MaxNodeCrashes, MaxNamesakes} \subseteq Nat
  /\ "none" \notin NodeName

VARIABLES nodeFault,  \* the fault of this behaviour
          nodeSet,    \* name -> status, in the file; "none": it is not there
          toNode,     \* where it is copied to; busy: 0 free, 1 claimed, 2 in use
          adding,     \* requests: name, address, what was found, place
          nodeRecs,   \* names queued for the server
          nodeSent,   \* the one whose ack is awaited, if any
          nodeMail,   \* from the server, in order
          waiting,    \* names allowed, whose ack has yet to come
          toSelf,     \* names to copy: a channel of one
          copying,    \* the receiver's place in copying, and the name
          replica,    \* address -> what the process there has
          registered, \* the server's names
          nodeQuit,   \* has the process ended itself
          asked,      \* history: names and addresses asked for
          failures, nodeCrashes, namesakes
conf == <<nodeSet, nodeRecs>>
memory == <<toNode, adding, waiting, toSelf, copying>>
server == <<nodeSent, nodeMail, registered>>
tally == <<failures, nodeCrashes, namesakes>>
nodeVars == <<nodeFault, conf, memory, server, replica, nodeQuit, asked, tally>>

NoNode == [addr |-> "none", busy |-> 0, client |-> FALSE]
NoRequest == [name |-> "none", addr |-> "none", found |-> "none", step |-> "done"]
NoCopy == [step |-> "read", name |-> "none"]

NodesInit ==
  /\ nodeFault \in NodeFaults
  /\ nodeSet = [n \in NodeName |-> "none"] /\ toNode = NoNode
  /\ adding = [i \in 1..MaxNodeAdds |-> [NoRequest EXCEPT !.step = "new"]]
  /\ nodeRecs = {} /\ nodeSent = "none" /\ nodeMail = <<>> /\ waiting = {} /\ toSelf = <<>>
  /\ copying = NoCopy /\ replica = [x \in NodeAddr |-> [name |-> "none", st |-> "none"]]
  /\ registered = {} /\ nodeQuit = FALSE /\ asked = {}
  /\ failures = 0 /\ nodeCrashes = 0 /\ namesakes = 0
-----------------------------------------------------------------------------
(* Requests hold updt for reading to their end. *)
Busy(i) == adding[i].step \notin {"new", "done"}
Step(i, from, to) == ~nodeQuit /\ adding[i].step = from /\ adding' = [adding EXCEPT ![i].step = to]
Fails == nodeFault \in {"refused", "meanwhile"} /\ failures < MaxFailures /\ failures' = failures + 1

SetNode(n, st) == nodeSet' = IF nodeSet[n] = "none" THEN nodeSet ELSE [nodeSet EXCEPT ![n] = st]

(* node_add: the name is looked for, *)
FindNode(i, n, x) ==
  /\ ~nodeQuit /\ adding[i].step = "new" /\ \A j \in 1..i - 1 : adding[j].step # "new"
  /\ nodeFault = "twice" \/ \A j \in DOMAIN adding : Busy(j) => adding[j].name # n
  /\ adding' = [adding EXCEPT ![i] = [name |-> n, addr |-> x, found |-> nodeSet[n], step |-> "found"]]
  /\ asked' = asked \union {<<n, x>>}
  /\ UNCHANGED <<nodeFault, conf, toNode, waiting, toSelf, copying, server, replica, nodeQuit, tally>>

(* and added when it is not there; *)
AddNode(i) ==
  LET r == adding[i]
      ends == r.found = "none" /\ nodeSet[r.name] # "none"
  IN  /\ Step(i, "found", IF r.found = "ready" THEN "ready"
                          ELSE IF r.found \in {"none", "pending", "allowed"} THEN "pin" ELSE "done")
      /\ nodeQuit' = ends
      /\ nodeSet' = IF r.found = "none" /\ ~ends THEN [nodeSet EXCEPT ![r.name] = "pending"] ELSE nodeSet
      /\ UNCHANGED <<nodeFault, nodeRecs, toNode, waiting, toSelf, copying, server, replica, asked, tally>>

\* Mutant: a claimed address may be claimed.
Claims_Any(x) == toNode.busy # 2 /\ toNode' = [addr |-> x, busy |-> 1, client |-> TRUE]

Claims(x) == toNode.busy = 0 /\ toNode' = [addr |-> x, busy |-> 1, client |-> TRUE]

(* createNode: the address takes the pin, and is where the next one is copied to; *)
ClaimNode(i) ==
  /\ Step(i, "pin", "tell") /\ Claims(adding[i].addr)
  /\ UNCHANGED <<nodeFault, conf, waiting, toSelf, copying, server, replica, nodeQuit, asked, tally>>

(* or not: what was just added is dropped. *)
RefuseNode(i) ==
  /\ Step(i, "pin", IF adding[i].found = "none" THEN "drop" ELSE "done")
  /\ (toNode.busy # 0 /\ UNCHANGED failures) \/ (toNode.busy = 0 /\ Fails)
  /\ UNCHANGED <<nodeFault, conf, toNode, waiting, toSelf, copying, server, replica, nodeQuit, asked,
                 nodeCrashes, namesakes>>

DropNode(i) ==
  /\ Step(i, "drop", "done") /\ SetNode(adding[i].name, "none")
  /\ UNCHANGED <<nodeFault, nodeRecs, toNode, waiting, toSelf, copying, server, replica, nodeQuit, asked, tally>>

(* The server is told; one that is allowed is copied again. *)
TellNode(i) ==
  /\ Step(i, "tell", "done")
  /\ IF adding[i].found \in {"none", "pending"}
     THEN nodeRecs' = nodeRecs \union {adding[i].name} /\ UNCHANGED toSelf
     ELSE toSelf = <<>> /\ toSelf' = <<adding[i].name>> /\ UNCHANGED nodeRecs
  /\ UNCHANGED <<nodeFault, nodeSet, toNode, waiting, copying, server, replica, nodeQuit, asked, tally>>

(* completeNode at the address given: a copy that is there is started. *)
CompleteClaim(i) ==
  /\ nodeFault = "meanwhile" \/ copying.step # "made"
  /\ IF toNode.busy = 0
     THEN /\ Step(i, "ready", "start")
          /\ toNode' = [addr |-> adding[i].addr, busy |-> 2, client |-> TRUE]
     ELSE Step(i, "ready", "done") /\ UNCHANGED toNode
  /\ UNCHANGED <<nodeFault, conf, waiting, toSelf, copying, server, replica, nodeQuit, asked, tally>>

(* StartNode: there is one already, or it is given its place; *)
StartAt(x) == /\ replica[x].st # "none"
              /\ replica' = [replica EXCEPT ![x].st = "started"]

CompleteEnd(i) ==
  /\ Step(i, "start", "done")
  /\ toNode' = [toNode EXCEPT !.busy = 0, !.client = FALSE]
  /\ \/ StartAt(toNode.addr) /\ SetNode(adding[i].name, "active") /\ UNCHANGED failures
     \/ replica[toNode.addr].st = "none" /\ UNCHANGED <<replica, nodeSet, failures>>
     \/ Fails /\ UNCHANGED <<replica, nodeSet>>
  /\ UNCHANGED <<nodeFault, nodeRecs, waiting, toSelf, copying, server, nodeQuit, asked, nodeCrashes, namesakes>>
-----------------------------------------------------------------------------
FromServer(op, n) == [op |-> op, name |-> n]

(* The server registers the name, and tells all replicas; or knows it. *)
SendUser(n) ==
  /\ ~nodeQuit /\ n \in nodeRecs /\ nodeSent = "none"
  /\ nodeSent' = n /\ registered' = registered \union {n}
  /\ \/ /\ n \notin registered
        /\ nodeMail' = nodeMail \o <<FromServer("user", n), FromServer("ack", n)>>
     \/ /\ n \in registered /\ nodeFault # "namesake"
        /\ nodeMail' = Append(nodeMail, FromServer("ack", n))
     \/ /\ nodeFault = "refused" \/ (nodeFault = "namesake" /\ n \in registered)
        /\ nodeMail' = Append(nodeMail, FromServer("error", n))
  /\ UNCHANGED <<nodeFault, conf, memory, replica, nodeQuit, asked, tally>>

(* A replica elsewhere gets one of that name. *)
NodeElsewhere(n) ==
  /\ n \notin registered /\ namesakes < MaxNamesakes
  /\ nodeFault = "namesake"
  /\ registered' = registered \union {n} /\ namesakes' = namesakes + 1
  /\ nodeMail' = Append(nodeMail, FromServer("user", n))
  /\ UNCHANGED <<nodeFault, conf, memory, nodeSent, replica, nodeQuit, asked, failures, nodeCrashes>>

Reads(op) == ~nodeQuit /\ copying = NoCopy /\ nodeMail # <<>> /\ Head(nodeMail).op = op /\ nodeMail' = Tail(nodeMail)

\* Mutant: nobody waits for the ack.
WaitsFor_Not(n) == waiting' = waiting

WaitsFor(n) == waiting' = waiting \union {n}

(* HandleTmtpService, "user": the name is allowed, or is another replica's. *)
HandleUser ==
  /\ Reads("user")
  /\ LET n == Head(nodeMail).name
     IN  \/ nodeSet[n] = "none" /\ nodeSet' = [nodeSet EXCEPT ![n] = "active"] /\ UNCHANGED waiting
         \/ nodeSet[n] \in {"pending", "sent"} /\ SetNode(n, "allowed") /\ WaitsFor(n)
         \/ nodeSet[n] \in {"allowed", "ready", "active"} /\ UNCHANGED <<nodeSet, waiting>>
  /\ UNCHANGED <<nodeFault, nodeRecs, toNode, adding, toSelf, copying, nodeSent, registered, replica, nodeQuit,
                 asked, tally>>

(* its ack; *)
HandleNodeAck ==
  /\ Reads("ack")
  /\ LET n == Head(nodeMail).name
     IN  /\ nodeQuit' = (nodeSet[n] = "none")
         /\ nodeSet' = IF nodeSet[n] = "pending" THEN [nodeSet EXCEPT ![n] = "sent"] ELSE nodeSet
         /\ nodeRecs' = nodeRecs \ {n} /\ nodeSent' = "none"
  /\ UNCHANGED <<nodeFault, memory, registered, replica, asked, tally>>

HandleNodeError ==
  /\ Reads("error")
  /\ nodeRecs' = nodeRecs \ {Head(nodeMail).name} /\ nodeSent' = "none"
  /\ UNCHANGED <<nodeFault, nodeSet, memory, registered, replica, nodeQuit, asked, tally>>

(* when it came the copying starts. *)
AckSeen(n) ==
  /\ ~nodeQuit /\ n \in waiting /\ n \notin nodeRecs /\ toSelf = <<>>
  /\ waiting' = waiting \ {n} /\ toSelf' = <<n>>
  /\ UNCHANGED <<nodeFault, conf, toNode, adding, copying, server, replica, nodeQuit, asked, tally>>
-----------------------------------------------------------------------------
(* "_node", replicateNode: where to was claimed, *)
TakeNode ==
  /\ ~nodeQuit /\ copying = NoCopy /\ toSelf # <<>>
  /\ toSelf' = <<>>
  /\ nodeQuit' = (nodeSet[toSelf[1]] = "none")
  /\ IF ~nodeQuit' /\ toNode.busy = 1
     THEN toNode' = [toNode EXCEPT !.busy = 2] /\ copying' = [step |-> "copy", name |-> toSelf[1]]
     ELSE UNCHANGED <<toNode, copying>>
  /\ UNCHANGED <<nodeFault, conf, adding, waiting, server, replica, asked, tally>>

(* MakeNode there: a copy not yet started is replaced. *)
MakeAt(x, n) == /\ replica[x].st # "started"
                /\ replica' = [replica EXCEPT ![x] = [name |-> n, st |-> "made"]]

(* and the account does not change meanwhile; *)
CopyNode ==
  /\ ~nodeQuit /\ copying.step = "copy" /\ \A i \in DOMAIN adding : ~Busy(i)
  /\ \/ /\ MakeAt(toNode.addr, copying.name)
        /\ copying' = [copying EXCEPT !.step = "made"]
        /\ toNode' = [toNode EXCEPT !.busy = 0] /\ UNCHANGED failures
     \/ /\ (replica[toNode.addr].st = "started" /\ UNCHANGED failures) \/ Fails
        /\ copying' = NoCopy /\ UNCHANGED replica
        /\ toNode' = [toNode EXCEPT !.busy = 0, !.client = FALSE]
  /\ UNCHANGED <<nodeFault, conf, adding, waiting, toSelf, server, nodeQuit, asked, nodeCrashes, namesakes>>

(* it is ready; it is started if nothing else was claimed, by the client that      *)
(* copied it, which completeNode drops.                                            *)
ReadyNode ==
  /\ ~nodeQuit /\ copying.step = "made"
  /\ SetNode(copying.name, "ready")
  /\ IF toNode.busy = 0
     THEN /\ toNode' = [toNode EXCEPT !.busy = 2] /\ copying' = [copying EXCEPT !.step = "start"]
          /\ nodeQuit' = ~toNode.client
     ELSE copying' = NoCopy /\ UNCHANGED <<toNode, nodeQuit>>
  /\ UNCHANGED <<nodeFault, nodeRecs, adding, waiting, toSelf, server, replica, asked, tally>>

ActiveNode ==
  /\ ~nodeQuit /\ copying.step = "start"
  /\ copying' = NoCopy
  /\ toNode' = [toNode EXCEPT !.busy = 0, !.client = FALSE]
  /\ \/ StartAt(toNode.addr) /\ SetNode(copying.name, "active") /\ UNCHANGED failures
     \/ Fails /\ UNCHANGED <<replica, nodeSet>>
  /\ UNCHANGED <<nodeFault, nodeRecs, adding, waiting, toSelf, server, nodeQuit, asked, nodeCrashes, namesakes>>
-----------------------------------------------------------------------------
(* The process ends and starts again; what the server had to tell comes again, but  *)
(* for acks.                                                                       *)
StillTold(mail) ==
  LET told[k \in 0..Len(mail)] ==
        IF k = 0 THEN <<>>
        ELSE IF mail[k].op = "user" THEN Append(told[k - 1], mail[k]) ELSE told[k - 1]
  IN  told[Len(mail)]

NodeCrash ==
  /\ nodeFault = "crash" /\ ~nodeQuit /\ nodeCrashes < MaxNodeCrashes
  /\ nodeCrashes' = nodeCrashes + 1
  /\ toNode' = NoNode /\ waiting' = {} /\ toSelf' = <<>> /\ copying' = NoCopy /\ nodeSent' = "none"
  /\ adding' = [i \in DOMAIN adding |-> IF Busy(i) THEN [adding[i] EXCEPT !.step = "done"] ELSE adding[i]]
  /\ nodeMail' = StillTold(nodeMail)
  /\ UNCHANGED <<nodeFault, conf, registered, replica, nodeQuit, asked, failures, namesakes>>

NodesNext ==
  \/ \E i \in 1..MaxNodeAdds, n \in NodeName, x \in NodeAddr : FindNode(i, n, x)
  \/ \E i \in 1..MaxNodeAdds : AddNode(i) \/ ClaimNode(i) \/ RefuseNode(i) \/ DropNode(i) \/ TellNode(i)
  \/ \E i \in 1..MaxNodeAdds : CompleteClaim(i) \/ CompleteEnd(i)
  \/ \E n \in NodeName : SendUser(n) \/ NodeElsewhere(n) \/ AckSeen(n)
  \/ HandleUser \/ HandleNodeAck \/ HandleNodeError
  \/ TakeNode \/ CopyNode \/ ReadyNode \/ ActiveNode \/ NodeCrash
NodesSpec == NodesInit /\ [][NodesNext]_nodeVars
-----------------------------------------------------------------------------
Copies == copying.step \in {"copy", "start"}

(* One user of the address at a time: it is in use while the receiver copies or    *)
(* starts there, or a request starts what is there, and by nobody else.            *)
NodesTypeOK ==
  /\ nodeSet \in [NodeName -> {"none", "pending", "sent", "allowed", "ready", "active"}]
  /\ nodeRecs \subseteq NodeName /\ waiting \subseteq NodeName /\ Len(toSelf) <= 1
  /\ toNode.busy = 2 <=> Copies \/ \E i \in DOMAIN adding : adding[i].step = "start"
  /\ Cardinality({i \in DOMAIN adding : adding[i].step = "start"}) + (IF Copies THEN 1 ELSE 0) <= 1

(* The asserts hold: a name is added once (service.go:274), its ack finds it       *)
(* (service.go:659), and so does the message to itself (service.go:567); and the     *)
(* client that starts a replica is there (node.go:480).                            *)
NodeNoQuit == nodeFault \notin {"twice", "namesake", "meanwhile"} => ~nodeQuit

(* A replica has the name that was asked for at its address: the receiver copies    *)
(* to the address claimed last, whatever name is allowed.                          *)
RightReplica == nodeFault \notin {"crash", "namesake"} =>
  \A x \in NodeAddr : replica[x].st # "none" => <<replica[x].name, x>> \in asked

(* A name that is active was started somewhere, here or elsewhere; *)
ActiveIsStarted == nodeFault \notin {"crash", "twice"} =>
  \A n \in NodeName : nodeSet[n] = "active" =>
    n \in registered /\ (namesakes > 0 \/ \E x \in NodeAddr : <<n, x>> \in asked /\ replica[x].st = "started")

(* An address that is claimed has a name on its way to it: nobody waits for a       *)
(* claim that nothing will end, while no fault happens.                              *)
ClaimEnds == nodeFault = "meanwhile" =>
  (toNode.busy = 1 /\ ~nodeQuit =>
     \/ nodeRecs # {} \/ waiting # {} \/ toSelf # <<>>
     \/ \E i \in DOMAIN adding : adding[i].step = "tell"
     \/ \E k \in DOMAIN nodeMail : nodeMail[k].op = "user")

(* The receiver, which waits for the requests, is not waited for by one (the        *)
(* channel holds one name, main.go:158): it takes two names that nobody claimed     *)
(* an address for, left by crashes or allowed for a namesake, and a request.        *)
NobodyBlocked == nodeCrashes + namesakes < 2 =>
  ~(copying.step = "copy" /\ toSelf # <<>> /\
    \E i \in DOMAIN adding : adding[i].step = "tell" /\ adding[i].found = "allowed")

(* A replica that is called ready or active is what was asked for, where it was. *)
NodesRight == RightReplica /\ ActiveIsStarted

(* Adding a replica goes on to its end: no assert fails, nobody waits for an address  *)
(* that stays claimed, and request and receiver do not wait for each other.         *)
NodesGoOn == NodesTypeOK /\ NodeNoQuit /\ ClaimEnds /\ NobodyBlocked
=============================================================================
