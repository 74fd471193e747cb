----------------------------- MODULE ClientTabs -----------------------------
(* The tabs of the list of threads.  Each client has tabs of its own            *)
(* (ClientState.SvcTabs, src/slib/state.go); pinned ones belong to the account  *)
(* (tService.tabs, src/slib/service.go) and are positions in a list that other  *)
(* clients and replicas change.  Pinning and dropping a pinned tab write two    *)
(* files, and pinning is recorded for the replicas around that (syncUpdtNode).  *)
EXTENDS Naturals, Sequences, SequencesExt

CONSTANTS TabClient, Term,
          MaxTabs    \* bound: tabs a client, or the account, may have when one is added

ASSUME TabsAssumption == MaxTabs \in Nat

VARIABLES pinned,    \* tService.tabs, as stored in fileTab
          shown,     \* client -> the pinned tabs its page shows
          tabs,      \* client -> its SvcTabs, as stored in its file
          doing,     \* client -> the request between its two files, if any
          updt,      \* client -> does temp hold the syncupdt_ file of a tab_pin
          stopped    \* did a quit() end the process
tabVars == <<pinned, shown, tabs, doing, updt, stopped>>

PosFor == {"default", "pinned", "terms"}
NumDefault == 3      \* kSvcTabsDefault
Idle == [op |-> "none", at |-> 0, terms |-> {}]

TabsInit ==
  /\ pinned = <<>> /\ shown = [c \in TabClient |-> <<>>]
  /\ tabs = [c \in TabClient |-> [posFor |-> "default", pos |-> 1, terms |-> <<>>]]
  /\ doing = [c \in TabClient |-> Idle] /\ updt = [c \in TabClient |-> FALSE]
  /\ stopped = FALSE

Ready(c) == ~stopped /\ doing[c] = Idle /\ \A d \in TabClient : updt[d] => doing[d] # Idle

(* How many tabs there are of a kind; p is the list of pinned ones. *)
SetLen(c, f, p) == CASE f = "default" -> NumDefault [] f = "pinned" -> Len(p)
                     [] OTHER -> Len(tabs[c].terms)

Select(c, f, p, terms) == tabs' = [tabs EXCEPT ![c] = [posFor |-> f, pos |-> p, terms |-> terms]]
Show(c) == shown' = [shown EXCEPT ![c] = pinned']

(* tab_add: addTab *)
AddTab(c, t) ==
  /\ Ready(c) /\ Len(tabs[c].terms) < MaxTabs
  /\ Select(c, "terms", Len(tabs[c].terms) + 1, Append(tabs[c].terms, t))
  /\ UNCHANGED <<pinned, doing, updt, stopped>> /\ Show(c)

(* tab_select: setTab, of a tab the page shows.  It quits on a tab that is gone. *)
SetTab(c, f, p) ==
  /\ Ready(c) /\ p \in 1..SetLen(c, f, shown[c])
  /\ <<f, p>> # <<tabs[c].posFor, tabs[c].pos>>
  /\ IF p > SetLen(c, f, pinned) THEN stopped' = TRUE /\ UNCHANGED <<tabs, shown>>
     ELSE /\ Select(c, f, p, tabs[c].terms)
          /\ shown' = [shown EXCEPT ![c] = pinned] /\ UNCHANGED stopped
  /\ UNCHANGED <<pinned, doing, updt>>

(* A page hears of a change and shows the list as it is. *)
Refresh(c) ==
  /\ ~stopped /\ shown[c] # pinned
  /\ shown' = [shown EXCEPT ![c] = pinned]
  /\ UNCHANGED <<pinned, tabs, doing, updt, stopped>>

\* Mutant: a tab that is pinned already is added.
Pinned_Again(t) == Append(pinned, t)

Pinned(t) == IF t \in Range(pinned) THEN pinned ELSE Append(pinned, t)
IndexIn(s, t) == CHOOSE i \in DOMAIN s : s[i] = t

(* tab_pin_sync, from a replica: addTabService *)
TabPinSync(t) ==
  /\ ~stopped /\ Len(pinned) < MaxTabs
  /\ pinned' = Pinned(t)
  /\ UNCHANGED <<shown, tabs, doing, updt, stopped>>

(* tab_pin: getTab and the syncupdt_ file, *)
PinStart(c) ==
  /\ Ready(c) /\ tabs[c].posFor = "terms" /\ Len(pinned) < MaxTabs
  /\ doing' = [doing EXCEPT ![c] = [op |-> "pin", at |-> 0, terms |-> {}]]
  /\ updt' = [updt EXCEPT ![c] = TRUE]
  /\ UNCHANGED <<pinned, shown, tabs, stopped>>

(* then pinTab: the account's list first (addTabService), *)
PinShared(c) ==
  LET t == tabs[c].terms[tabs[c].pos]
  IN  /\ ~stopped /\ doing[c].op = "pin"
      /\ pinned' = Pinned(t)
      /\ doing' = [doing EXCEPT ![c] = [op |-> "unlist", at |-> IndexIn(pinned', t), terms |-> {}]]
      /\ UNCHANGED <<shown, tabs, updt, stopped>>

\* Mutant: the last tab leaves the client's list.
PinOwn_Last(c) ==
  /\ ~stopped /\ doing[c].op = "unlist"
  /\ Select(c, "pinned", doing[c].at, Front(tabs[c].terms))
  /\ doing' = [doing EXCEPT ![c].op = "log"]
  /\ UNCHANGED <<pinned, shown, updt, stopped>>

(* then the client's own, *)
PinOwn(c) ==
  /\ ~stopped /\ doing[c].op = "unlist"
  /\ Select(c, "pinned", doing[c].at, RemoveAt(tabs[c].terms, tabs[c].pos))
  /\ doing' = [doing EXCEPT ![c].op = "log"]
  /\ UNCHANGED <<pinned, shown, updt, stopped>>

(* and the update is logged for the replicas, its file removed. *)
PinLog(c) ==
  /\ ~stopped /\ doing[c].op = "log"
  /\ doing' = [doing EXCEPT ![c] = Idle] /\ updt' = [updt EXCEPT ![c] = FALSE]
  /\ UNCHANGED <<pinned, tabs, stopped>> /\ Show(c)

(* tab_drop: dropTab; a default tab is left alone.  The position of a pinned one *)
(* is taken from the client's file, which is stored first.                      *)
DropTab(c) ==
  LET t == tabs[c]
  IN  /\ Ready(c) /\ t.posFor # "default"
      /\ Select(c, "default", 1, IF t.posFor = "terms" THEN RemoveAt(t.terms, t.pos) ELSE t.terms)
      /\ doing' = IF t.posFor = "terms" THEN doing
                  ELSE [doing EXCEPT ![c] = [op |-> "drop", at |-> t.pos,
                          terms |-> {shown[c][i] : i \in {t.pos} \cap DOMAIN shown[c]}]]
      /\ UNCHANGED <<pinned, shown, updt, stopped>>

(* dropTabService: a position past the end panics, which ends the request. *)
DropShared(c) ==
  /\ ~stopped /\ doing[c].op = "drop"
  /\ pinned' = IF doing[c].at \in DOMAIN pinned THEN RemoveAt(pinned, doing[c].at) ELSE pinned
  /\ doing' = [doing EXCEPT ![c] = Idle]
  /\ UNCHANGED <<tabs, updt, stopped>> /\ Show(c)

(* The process ends, at any point; the files are as last stored. *)
TabsRestart ==
  /\ stopped \/ \E c \in TabClient : doing[c] # Idle
  /\ doing' = [c \in TabClient |-> Idle]
  /\ shown' = [c \in TabClient |-> pinned] /\ stopped' = FALSE
  /\ UNCHANGED <<pinned, tabs, updt>>

(* completeUpdtNode, before the account opens: tab_pin again, with the state in *)
(* the client's file.                                                           *)
Redo(c) ==
  /\ ~stopped /\ doing[c] = Idle /\ updt[c]
  /\ IF tabs[c].posFor # "terms" THEN stopped' = TRUE /\ UNCHANGED <<doing>>
     ELSE doing' = [doing EXCEPT ![c] = [op |-> "pin", at |-> 0, terms |-> {}]] /\ UNCHANGED stopped
  /\ UNCHANGED <<pinned, shown, tabs, updt>>

TabsNext ==
  \/ \E c \in TabClient, t \in Term : AddTab(c, t)
  \/ \E c \in TabClient, f \in PosFor, p \in 1..NumDefault + MaxTabs : SetTab(c, f, p)
  \/ \E c \in TabClient : Refresh(c) \/ DropTab(c) \/ DropShared(c)
  \/ \E c \in TabClient : PinStart(c) \/ PinShared(c) \/ PinOwn(c) \/ PinLog(c) \/ Redo(c)
  \/ \E t \in Term : TabPinSync(t)
  \/ TabsRestart

TabsSpec == TabsInit /\ [][TabsNext]_tabVars
-----------------------------------------------------------------------------
(* The types; a client's choice of its own tabs is one it has. *)
TabsTypeOK ==
  /\ pinned \in Seq(Term) /\ shown \in [TabClient -> Seq(Term)]
  /\ updt \in [TabClient -> BOOLEAN] /\ stopped \in BOOLEAN
  /\ \A c \in TabClient :
       /\ tabs[c].posFor \in PosFor /\ tabs[c].pos \in Nat \ {0} /\ tabs[c].terms \in Seq(Term)
       /\ tabs[c].posFor # "pinned" => tabs[c].pos <= SetLen(c, tabs[c].posFor, <<>>)
       /\ doing[c].op \in {"none", "pin", "unlist", "log", "drop"} /\ doing[c].terms \subseteq Term

(* No tab is pinned twice, by this client, a repetition after a crash, or a     *)
(* replica.                                                                     *)
PinnedOnce == \A i, j \in DOMAIN pinned : pinned[i] = pinned[j] => i = j

(* A tab leaves a client's list only when its user drops it or once it is        *)
(* pinned, and a pinned one only when a user drops that very tab.               *)
NoTabLost ==
  [][/\ \A c \in TabClient : \A t \in Range(tabs[c].terms) \ Range(tabs'[c].terms) :
          t \in Range(pinned') \/ (tabs[c].posFor = "terms" /\ tabs'[c].posFor = "default"
                                    /\ t = tabs[c].terms[tabs[c].pos])
     /\ \A t \in Range(pinned) \ Range(pinned') :
          \E c \in TabClient : doing[c].op = "drop" /\ t \in doing[c].terms]_tabVars

(* No request of a page, and no repetition of one, ends the process. *)
TabsNoQuit == ~stopped

(* A client's choice is a tab there is, of its own lists; and none is pinned      *)
(* twice, though pinning is done again after a crash (service.go:424-436).        *)
TabsSound == TabsTypeOK /\ PinnedOnce
=============================================================================
