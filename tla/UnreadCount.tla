---------------------------- MODULE UnreadCount ----------------------------
(* The number of threads with unread messages (src/slib/service.go:352-378): it  *)
(* is taken from the search index when a page first opens the account, and from  *)
(* then on changed by each transaction that makes a thread unread, or read, after *)
(* the transaction has updated the thread's document in the index.               *)
EXTENDS Integers, FiniteSets

CONSTANTS CountThread,  \* threads
          Overtakes,    \* may a page open between a document and its count
          MaxUnseen, MaxCountCrashes   \* bounds

ASSUME CountAssumption ==
  /\ Overtakes \in BOOLEAN /\ IsFiniteSet(CountThread)
  /\ MaxUnseen \in Nat \ {0} /\ MaxCountCrashes \in Nat

VARIABLES unseen,       \* unseen messages of a thread, in its file
          unreadDoc,    \* threads whose document says unread
          unreadCount,  \* -1: not counted yet
          touching,     \* thread -> its transaction: none, or its step and what it counts
          zeroQuit, countCrashes
countVars == <<unseen, unreadDoc, unreadCount, touching, zeroQuit, countCrashes>>

NoTouch == [step |-> "none", diff |-> 0]

CountInit ==
  /\ unseen \in [CountThread -> {0, 1}] /\ unreadDoc = {t \in CountThread : unseen[t] > 0}
  /\ unreadCount = -1 /\ touching = [t \in CountThread |-> NoTouch]
  /\ zeroQuit = FALSE /\ countCrashes = 0
-----------------------------------------------------------------------------
(* Its door is held by a transaction to the end, the count included. *)
TouchStart(t, d, diff) ==
  /\ ~zeroQuit /\ touching[t] = NoTouch
  /\ unseen' = [unseen EXCEPT ![t] = @ + d]
  /\ touching' = [touching EXCEPT ![t] = [step |-> "doc", diff |-> diff]]
  /\ UNCHANGED <<unreadDoc, unreadCount, zeroQuit, countCrashes>>

\* Mutant: each unseen message counts.
FirstUnseen_Any(t) == TRUE

FirstUnseen(t) == unseen[t] = 0

(* storeReceivedThread, storeFwdReceivedThread: a message from another user. *)
StoreUnseen(t) ==
  unseen[t] < MaxUnseen /\ TouchStart(t, 1, IF FirstUnseen(t) THEN 1 ELSE 0)

LastUnseen(t) == unseen[t] = 1

(* touchThread: one is seen, here or by another replica. *)
TouchSeen(t) ==
  unseen[t] > 0 /\ TouchStart(t, -1, IF LastUnseen(t) THEN -1 ELSE 0)

(* _updateSearchDoc, as the transaction completes *)
UpdateDoc(t) ==
  /\ touching[t].step = "doc"
  /\ unreadDoc' = IF unseen[t] > 0 THEN unreadDoc \union {t} ELSE unreadDoc \ {t}
  /\ touching' = [touching EXCEPT ![t].step = "count"]
  /\ UNCHANGED <<unseen, unreadCount, zeroQuit, countCrashes>>

(* incrUnreadService, decrUnreadService *)
CountUnread(t) ==
  /\ ~zeroQuit /\ touching[t].step = "count"
  /\ touching' = [touching EXCEPT ![t] = NoTouch]
  /\ IF touching[t].diff < 0 /\ unreadCount = 0
     THEN zeroQuit' = TRUE /\ UNCHANGED unreadCount
     ELSE /\ unreadCount' = IF unreadCount < 0 THEN -1 ELSE unreadCount + touching[t].diff
          /\ UNCHANGED zeroQuit
  /\ UNCHANGED <<unseen, unreadDoc, countCrashes>>

(* _initUnreadCount *)
OpenAccount ==
  /\ ~zeroQuit /\ unreadCount < 0
  /\ Overtakes \/ \A t \in CountThread : touching[t].step # "count"
  /\ unreadCount' = Cardinality(unreadDoc)
  /\ UNCHANGED <<unseen, unreadDoc, touching, zeroQuit, countCrashes>>

(* The count is lost; transactions are completed, but for their counting. *)
CountCrash ==
  /\ ~zeroQuit /\ countCrashes < MaxCountCrashes
  /\ countCrashes' = countCrashes + 1 /\ unreadCount' = -1
  /\ unreadDoc' = {t \in CountThread : unseen[t] > 0}
  /\ touching' = [t \in CountThread |-> NoTouch]
  /\ UNCHANGED <<unseen, zeroQuit>>

CountNext ==
  \/ \E t \in CountThread : StoreUnseen(t) \/ TouchSeen(t) \/ UpdateDoc(t) \/ CountUnread(t)
  \/ OpenAccount \/ CountCrash
CountSpec == CountInit /\ [][CountNext]_countVars
-----------------------------------------------------------------------------
CountTypeOK ==
  /\ unseen \in [CountThread -> 0..MaxUnseen] /\ unreadDoc \subseteq CountThread
  /\ unreadCount \in -1..Cardinality(CountThread)
  /\ touching \in [CountThread -> [step : {"none", "doc", "count"}, diff : -1..1]]

(* The count is the number of unread documents, but for the transactions that     *)
(* have yet to count (service.go:356-358 reads them once).                         *)
CountIsDocs ==
  unreadCount >= 0 =>
    LET D == {t \in unreadDoc : ~(touching[t].step = "count" /\ touching[t].diff = 1)}
        U == {t \in CountThread : touching[t].step = "count" /\ touching[t].diff = -1}
    IN  unreadCount = Cardinality(D) + Cardinality(U)

(* "cannot decrement zero" (service.go:374-375) is never reached. *)
NoZeroDecrement == ~zeroQuit

(* The count follows the documents through transactions that overlap and crashes,  *)
(* and is never taken below zero.                                                 *)
CountSound == CountTypeOK /\ CountIsDocs /\ NoZeroDecrement
=============================================================================
