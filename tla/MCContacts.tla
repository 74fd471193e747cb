----------------------------- MODULE MCContacts -----------------------------
(* What an account keeps of other users, for TLC: its address book, the threads *)
(* it forwards to them, whom it tells that it is online, their notices, and the  *)
(* count of what they sent that is unread.  The parts share no state; a          *)
(* behaviour is one of a part, so that one run checks them all.  Next lists the   *)
(* actions of their next-state relations.                                        *)
EXTENDS AddressBook, Forward, Ohi, Notices, UnreadCount

PeerPairs == {<<"a", "u">>, <<"a", "v">>, <<"b", "v">>}
CcOneTwo == { << <<"a", "u">> >>, << <<"a", "v">>, <<"b", "v">> >> }
Ping(who, from, self, n) == [kind |-> "ping", who |-> who, uid |-> from, self |-> self, id |-> n]
Arriving == {Ping("a", "u", FALSE, 1), [Ping("a", "v", FALSE, 2) EXCEPT !.kind = "invite"],
             Ping("b", "v", FALSE, 3), Ping("a", "u", TRUE, 4)}

VARIABLE part
vars == <<part, bookVars, fwdVars, ohiVars, noticeVars, countVars>>

B(A) == part = "book" /\ A /\ UNCHANGED <<part, fwdVars, ohiVars, noticeVars, countVars>>
F(A) == part = "forward" /\ A /\ UNCHANGED <<part, bookVars, ohiVars, noticeVars, countVars>>
O(A) == part = "ohi" /\ A /\ UNCHANGED <<part, bookVars, fwdVars, noticeVars, countVars>>
N(A) == part = "notices" /\ A /\ UNCHANGED <<part, bookVars, fwdVars, ohiVars, countVars>>
C(A) == part = "count" /\ A /\ UNCHANGED <<part, bookVars, fwdVars, ohiVars, noticeVars>>

Init == /\ part \in {"book", "forward", "ohi", "notices", "count"}
        /\ BookInit /\ ForwardInit /\ OhiInit /\ NoticesInit /\ CountInit
        /\ part # "forward" => fault = "none"
        /\ part # "ohi" => ohiFault = "none"
        /\ part # "count" => unreadDoc = {}
Next ==
  \/ \E m \in Mail : B(StoreReceived(m))
  \/ \E k \in Key : B(SaveDraft(k)) \/ B(DiscardDraft(k)) \/ B(SendDraft(k))
  \/ \E r \in abQueue : B(SendPing(r))
  \/ \E r \in answers : B(StoreSentPing(r))
  \/ \E cc \in CcLists, own \in BOOLEAN : B(StoreThread(cc, own))
  \/ \E who \in Alias, self \in BOOLEAN : B(GroupJoined(who, self))
  \/ B(ResolveSentCc) \/ B(ResolveReceivedCc) \/ B(ThreadDone)
  \/ B(SideEffect) \/ B(AppendEntries) \/ B(DropEntryRec) \/ B(BookCrash) \/ B(BookRestart)
  \/ \E M \in SUBSET Member : F(SaveForward(M))
  \/ F(WriteDraft) \/ F(RemoveDrafts) \/ F(RenameDraft) \/ F(SendForward)
  \/ \E d \in Range(fwd.list) : F(QueueForward(d))
  \/ \E r \in fack : F(RefusedForward(r)) \/ F(StoreFwdSent(r))
  \/ \E m \in Member, again \in BOOLEAN : F(StoreFwdNotify(m, again))
  \/ F(CommitForward) \/ F(RemoveForward) \/ F(RenameForward) \/ F(DropForward)
  \/ F(WriteCc) \/ F(QueueConfirms) \/ F(FinishForward)
  \/ \E r \in cfmPosted : F(SendConfirm(r))
  \/ F(ForwardCrash) \/ F(ForwardRestart)
  \/ \E op \in {"+", "-"}, m \in OhiUser : O(EditOhi(op, m)) \/ O(OhiElsewhere(op, m))
  \/ \E m \in OhiUser : O(MarkPending(m)) \/ O(ChangeStatus(m))
  \/ O(LoginOhi) \/ O(SendOhi) \/ O(HandleOhi)
  \/ \E crash \in BOOLEAN : O(EndOhi(crash))
  \/ \E id \in 1..MaxNotices : N(AddPingNotice(id)) \/ N(Age(id)) \/ N(SetLastSeen(id))
  \/ \E t \in CountThread : C(StoreUnseen(t)) \/ C(TouchSeen(t)) \/ C(UpdateDoc(t)) \/ C(CountUnread(t))
  \/ C(OpenAccount) \/ C(CountCrash)
Spec == Init /\ [][Next]_vars
=============================================================================
