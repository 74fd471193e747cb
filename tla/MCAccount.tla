------------------------------ MODULE MCAccount ------------------------------
(* What an account keeps beside threads and contacts, for TLC: the histories and *)
(* the tabs of its clients, its replicas, and the tags they share.  No two share  *)
(* state; a behaviour is one of a single part, so that one run checks all four.   *)
(* Next lists the actions of HistoryNext, TabsNext, NodesNext and TagsNext.       *)
EXTENDS ClientHistory, ClientTabs, Nodes, Tags

VARIABLE part
vars == <<part, histVars, tabVars, nodeVars, tagVars>>

H(A) == part = "history" /\ A /\ UNCHANGED <<part, tabVars, nodeVars, tagVars>>
T(A) == part = "tabs" /\ A /\ UNCHANGED <<part, histVars, nodeVars, tagVars>>
R(A) == part = "nodes" /\ A /\ UNCHANGED <<part, histVars, tabVars, tagVars>>
G(A) == part = "tags" /\ A /\ UNCHANGED <<part, histVars, tabVars, nodeVars>>

\* The parts that a behaviour is not of have one initial state.
Init == /\ part \in {"history", "tabs", "nodes", "tags"}
        /\ HistoryInit /\ TabsInit /\ NodesInit /\ TagsInit
        /\ part # "history" => hmax = [c \in Client |-> CHOOSE n \in HistoryLen : TRUE]
        /\ part # "nodes" => nodeFault = "twice"
        /\ part # "tags" => tagFault = "crash"
Next ==
  \/ \E c \in Client : H(Connect(c)) \/ H(Disconnect(c)) \/ H(GoThread(c, -1)) \/ H(GoThread(c, 1))
  \/ \E c \in Client, t \in Topic : H(NewDraft(c, t)) \/ H(Discard(c, t))
  \/ \E c \in Client, id \in Id : H(Navigate(c, id)) \/ H(GoLink(c, id))
  \/ \E c \in Client, n \in HistoryLen : H(SetHistoryMax(c, n))
  \/ \E t \in Topic : H(StoreSent(t)) \/ H(NewDraftElsewhere(t)) \/ H(DiscardElsewhere(t))
  \/ \E k \in calls : H(Begin(k)) \/ \E c \in Client : H(RenameThread(k, c)) \/ H(DiscardThread(k, c))
  \/ H(Restart)
  \/ \E c \in TabClient, t \in Term : T(AddTab(c, t))
  \/ \E c \in TabClient, f \in PosFor, p \in 1..NumDefault + MaxTabs : T(SetTab(c, f, p))
  \/ \E c \in TabClient : T(Refresh(c)) \/ T(DropTab(c)) \/ T(DropShared(c)) \/ T(PinStart(c))
  \/ \E c \in TabClient : T(PinShared(c)) \/ T(PinOwn(c)) \/ T(PinLog(c)) \/ T(Redo(c))
  \/ \E t \in Term : T(TabPinSync(t))
  \/ T(TabsRestart)
  \/ \E i \in 1..MaxNodeAdds, nd \in NodeName, x \in NodeAddr : R(FindNode(i, nd, x))
  \/ \E i \in 1..MaxNodeAdds : \/ R(AddNode(i)) \/ R(ClaimNode(i)) \/ R(RefuseNode(i)) \/ R(DropNode(i))
                               \/ R(TellNode(i)) \/ R(CompleteClaim(i)) \/ R(CompleteEnd(i))
  \/ \E nd \in NodeName : R(SendUser(nd)) \/ R(NodeElsewhere(nd)) \/ R(AckSeen(nd))
  \/ R(HandleUser) \/ R(HandleNodeAck) \/ R(HandleNodeError)
  \/ R(TakeNode) \/ R(CopyNode) \/ R(ReadyNode) \/ R(ActiveNode) \/ R(NodeCrash)
  \/ \E p \in Place, a \in Account, tn \in TagName : G(TagAdd(p, a, tn))
  \/ \E p \in Place, a \in Account : \E e \in sTags[p] : G(ThreadTag(p, a, e))
  \/ \E p \in Place, a \in Account : G(TagRun(p, a)) \/ G(TagLogged(p, a)) \/ G(OpenAccountTags(p, a))
  \/ \E p \in Place : G(TagSync(p)) \/ G(TagCrash(p)) \/ G(TagsOpened(p))
  \/ G(CopyTags) \/ G(StartCopied)
Spec == Init /\ [][Next]_vars
=============================================================================
