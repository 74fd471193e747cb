# A verification project for mnm-hammer

mnm-hammer is a TMTP messaging client: a local web application, written in Go,
that keeps threads of messages, an address book and settings in files, and
exchanges messages with a TMTP server on behalf of one or more *services*
(accounts).  This directory holds TLA+ models of its parts, the TLC runs that
check them on small instances, and theorems that TLAPS proves for every size.

Contents: [the system](#the-system), [plan](#plan),
[modules](#modules), [runs](#runs), [bounds and fairness](#bounds-and-fairness),
[proofs](#proofs), [disagreements found](#disagreements-found),
[what is not modelled](#what-is-not-modelled).

## The system

One process serves all browsers (`main.go`).  Each service has two long-lived
goroutines, `runTmtpSend` and `runTmtpRecv`; an elastic channel between the
request handlers and the sender; timers for the sync log; and, for every
request of a browser, a goroutine that runs `HandleUpdtService`.  State that
must survive a restart is in files below one directory per service.

| Component | Source | State | Operations | Hard parts |
|---|---|---|---|---|
| Send queue | `slib/queue.go` | `sendQ` and its file | `addQueue`, `addListQueue`, `dropQueue`, `hasQueue`, `GetQueue` | restart order, records queued unposted, drop by whom |
| Link and send pipeline | `main.go` 184-523 | elastic channel, `connSrc`, `ack`, `wakeup`, link | `runElasticChan`, `runTmtpSend`, `runTmtpRecv`, `_readLink`, `postAck` | two goroutines share a connection; late and stale acks; idle timeout; relogin |
| Service registry | `slib/service.go` | services, configuration, node list, tabs, unread count | `initServices`, `HandleTmtpService`, `HandleUpdtService`, `_editConfig`, `incr/decrUnreadService` | recovery order; read-modify-write on copies; counter races |
| Atomic file | `slib/slib.go` 385-452 | a file and its `.tmp` | `storeFile`, `resolveTmpFile` | a crash between any two steps |
| Thread store | `slib/thread.go` | thread files (messages and an index), drafts, transaction files | store received / sent / draft, delete draft, touch, confirm, `completeThread` | a crash between any two steps, redelivery, torn writes, doors |
| Forwarding | `slib/thread.go` 912-1426 | forward lists, notice index | save, send, sent, received, notify, confirm | acks of several forwards, order against messages |
| Address book | `slib/adrsbk.go` | log file, indexes, ping drafts | store self / sent / received, resolve, joined, drafts | indexes equal a replay of the log, nested transactions |
| Ohi (presence) | `slib/ohi.go` | map of contacts | edit, send, update | read-modify-write |
| Notices | `slib/notice.go` | list with seen marks | add, set last seen | a replica sees what is not here |
| Node sync log | `slib/node.go` 491-675 | log file, symlink, timers | `syncUpdtNode`, `sendSyncNode`, `dropSyncNode`, recovery | rotation against append, a crash in each step |
| Node replication | `slib/node.go` 1-489 | node status, temporary services | `createNode`, `replicateNode`, `completeNode`, `MakeNode` | two machines, broken transfers |
| Client state | `slib/state.go` | history, open messages, tabs per browser | navigate, rename, discard, tabs | several browsers of one service |
| Tags | `slib/tag.go` | names of the process, a file per account | add, mark, replicate | two replicas, one name |
| Attachments, forms, uploads | `slib/attach.go`, `form.go`, `upload.go` | files and an index per thread | save, store, drop | shared names |
| Search | `slib/search.go` | bleve index | index, delete, count unread | derived data |
| Web | `main.go` 547-924, `web/` | sockets | requests | |
| Test harness | `test.go`, `main_test.go` | | crash points, orders | |

How they interact.  A request that sends something (`thread_send`,
`ping_send`, ...) calls `addQueue`; the record travels through the elastic
channel to `runTmtpSend`, which calls `SendService` to build the message from
the draft or log behind the record.  The server's ack comes to `_readLink`,
which gives the id to the sender over a channel and then handles the ack:
`storeSentThread`, `storeSentAdrsbk`, `dropSyncNode` and so on dispose of the
payload and call `dropQueue`.  Messages from others are stored by a thread or
address-book transaction, and only then acked (`postAck`).  On a restart
`initServices` first finishes whatever transactions a crash left behind, and
only then are the two goroutines of a service started.

What makes each component correct:

* **send queue and pipeline**: nothing leaves the queue unanswered; no payload
  is lost; the order of queueing is kept; one connection token; everything
  queued is eventually sent;
* **atomic file**: a crash leaves the old value or the new one;
* **thread store**: each message is stored exactly once although the server
  repeats it; a transaction that was committed survives any number of crashes;
  index and contents agree; drafts in the index are the draft files;
* **sync log**: each logged update reaches the server at least once, in order;
* **forwarding**: a member is added once, is sent what was accepted, and gets a
  confirmation of every message of this user;
* **address book**: the indexes in memory equal those rebuilt from the log, in
  which each message is once and each alias has one owner;
* **presence and notices**: the file agrees with the server once all is
  answered; nothing is dropped or marked that the user has not seen;
* **unread count**: it follows the documents of the search index;
* **replication**: a replica has the name asked for at its address, and adding
  one comes to its end;
* **tags**: replicas mark with the same ids, under whatever name; a process can
  always open its accounts;
* **client state**: positions stay inside the lists they point into, and no tab
  is lost.

## Plan

Done, first what a message can be lost in, then what an account keeps beside its
threads:

1. `Outbox`, `SendQueue`: the promise of the send queue and the pipeline that
   keeps it, with `SendQueueProofs`;
2. `AtomicFile`, `StoreFile`: the file under the queue and the settings, with
   `StoreFileProofs`;
3. `ThreadLog`, `ThreadStore`: one thread, its transactions and their recovery,
   with `ThreadStoreProofs` and `ThreadLogProofs`;
4. `UpdateStream`, `SyncLog`: updates for the replicas;
5. `Forward`, `AddressBook`, `Ohi`, `Notices`, `UnreadCount`: what an account
   knows of other users, with `ContactsProofs`;
6. `Nodes`, `Tags`: replicas, and what they share, with `NodesProofs`;
7. `ClientHistory`, `ClientTabs`: what a page goes through and pins, with
   `PagesProofs`.

The theorems went the same way: the queue and the file first, then the sync log
with its refinement, the order and the fate of records in the pipeline, the
count, the notices and presence, the order, drafts and search document of a
thread, the history and tabs of pages, the bodies, messages and marks of a thread
with the refinement of `ThreadLog`, and last the replicas.  A theorem to come is
`TagsSound` without faults.

Models to come: the receipt of a forwarded thread; attachments, whose files and index change inside the
transactions of `ThreadStore`; a service that restarts with thread and
address-book transactions left over; the entries of the account's own aliases.

## Modules

| Module | Kind | Models |
|---|---|---|
| `Outbox` | abstract | a record stays queued until answered or void |
| `SendQueue` | detailed | queue, elastic channel, sender, reader, acks; server and network |
| `SendQueueProofs` | proofs | types, token, acks, payloads, refinement; where a record is: stop and wait, nothing forgotten, order |
| `AtomicFile` | abstract | a file with one complete value |
| `StoreFile` | detailed | `storeFile` and `resolveTmpFile`, process crashes and power failures |
| `StoreFileProofs` | proofs | types, completeness, refinement |
| `ThreadLog` | abstract | messages, drafts, seen marks and tags of a thread |
| `ThreadStore` | detailed | thread file, drafts, transactions, updates, recovery |
| `ThreadStoreProofs` | proofs | files read back, order, drafts, search document |
| `ThreadLogProofs` | proofs | bodies in their places, messages kept with them, no fatal step, seen marks logged, refinement |
| `UpdateStream` | abstract | updates reach the replicas in order, each once |
| `SyncLog` | detailed | record, log, link, timers, sender, ack and recovery of updates |
| `SyncLogProofs` | proofs | every update is logged and has a sender, refinement |
| `Forward` | detailed | drafts of forwards, the Cc list, acks, news of other members |
| `AddressBook` | detailed | log, indexes, drafts, pings, invitations, resolutions |
| `Ohi` | detailed | whom this user tells, and who tells it, that they are online |
| `Notices` | detailed | the list of notices and the sets seen together |
| `UnreadCount` | detailed | the number of unread threads |
| `ContactsProofs` | proofs | of notices: what is marked was seen, the order of marks; the count is that of the documents; of presence: both maps agree with the server |
| `Nodes` | detailed | requests for replicas, the server's answers, the receiver |
| `NodesProofs` | proofs | a replica is what was asked for, adding one comes to its end |
| `Tags` | detailed | names and files of tags in two processes |
| `ClientHistory` | detailed | history and page state of clients |
| `ClientTabs` | detailed | tabs of clients and pinned tabs of the account |
| `PagesProofs` | proofs | histories are whole and move rightly, tabs are distinct and kept |
| `MCSendQueue`, `MCThreadStore`, `MCTags` | instances | symmetry, sizes of messages |
| `MCAccount`, `MCContacts`, `MCSyncLog` | instances | several components in one run |

A composite instance (`MCAccount`, ...) holds components that share no state, and
a variable `part` says of which a behaviour is: the first state chooses it and
nothing changes it.  The states of the run are then the sum of those of the
parts and not their product, and a behaviour of a part is one of its own
specification while the others wait in one initial state.  A property that a
run names for several facts (`LogsKept`, `BookSound`, ...) is a conjunction of
named parts, each with its own comment; the reader finds them in the module
above it.

### SendQueue

A record is its kind, the first character of its id; the sets `Drafts`,
`Accepts`, `Logs`, `Confirms`, `Edits` and `ShortAliases` are the kinds that
behave differently.  `sendQ`, `date` and `payload` are on disk and survive
`Crash`; everything else is memory or network.  `spc` is the place of
`runTmtpSend`, `rpc` that of `runTmtpRecv` and `_readLink`; `ackCh` and `token`
are the channels `tQueue.ack` and `connSrc`.  Each place where a goroutine may
block or be overtaken separates two actions, and a handler that runs under the
lock of the service is one action (`AddQueue`, `StoreAck`).  `PostList` is apart
from `ReadPost` because `_finishStoreFwd` queues confirmations first and posts
them when the forward is complete.  The server answers records in order, with
success or an error; `Fault`s are crashes, broken links, early timeouts and
messages of others, and are counted.

### StoreFile

The directory has two names, `path` and `tmp`.  `may` is the set of states a
power failure may leave: changes of the directory reach the disk in order, and
all of them at the latest in `syncDir`.  `Create`, `WriteData`, `SyncDir`,
`RemovePath`, `Rename` are the steps of `storeFile`; `LinkTemp`, `RemoveTemp`,
`NoTemp` those of `resolveTmpFile`.  The callers hold a lock, so there is one
writer; an error ends the process, as it does in every caller.

### ThreadStore

A thread file is a sequence of cells: bodies, then index entries, then a tail
with the length of the index.  An entry with a tag takes two cells, so that an
index can grow and shrink, and a file that was cut or half overwritten has a
tail in the wrong place or none.  A transaction (`temp`) is the temporary file:
what it will copy, where, and for whom; `todo` is the list of steps that remain
of the `_complete...` function, and `left` holds the temporary files that
crashes left.  While `temp` is set the door of the thread is locked.

| Actions | Code |
|---|---|
| `Receive`, `Confirm` | `storeReceivedThread` up to the rename |
| `ReadAck`, `StoreSent` | `storeSentThread`, before and after it locks the door |
| `SaveDraft`, `DiscardDraft`, `SendDraft` | `storeDraftThread`, `deleteDraftThread`, `validateDraftThread` with `addQueue` |
| `BeginUpdate`, `CallTouch`, `LogUpdate`, `EndUpdate` | `syncUpdtNode` around `touchThread` |
| `ReplicaTouch` | `HandleSyncService`, which calls `touchThread` without a log |
| `RemoveDraft` ... `DropTemp` | the steps of `_completeStoreReceived`, `_completeStoreSent`, `_completeStoreDraft`, `_completeStoreConfirm`, `_completeTouch` |
| `Crash`, `Restart`, `Resume`, `Recovered` | end of the process; `initServices` with `completeUpdtNode` and `completeThread` |
| `Post`, `Accept`, `LoseAck` | the server |

`quit` and a run-time panic in a handler lead to the mode `"quit"`, which
nothing leaves; the panic of a recovery, which a second start survives, leads
to `"panic"`.  The steps of a transaction that touch several files are separate
actions.  A crash during a copy leaves any prefix of it over the old cells.

The recovery of a sent reply is not the same as its first completion.
`storeSentThread` copies the temporary file from its start; `completeThread`
reads the index of it last (`fIdx`) and goes on from there, so that
`Resume` puts `Reopened` in place of the transaction: index and tail alone, which
are then copied to where the body belongs.  `ReplyCrash` says whether a crash may
fall into the storing of a reply; `ThreadStore_reply` shows what it costs.  That is
why a message counts as being in the thread (`Messages`) only with its body where
its entry says (`Holds`), in the file as it will be once the transaction that is
committed is complete (`Completed`).

`ThreadLog` says what this is for: the messages, drafts, unseen and tagged
messages of a thread, with one indivisible action for each transaction.  The
mapping takes the index of the transaction that is committed but incomplete,
if there is one (`Index`), else that of the file, and of its messages those that
have their bodies: a transaction takes effect when its temporary file is renamed,
whatever happens then.

### SyncLog

Four goroutines work on the logs: the request that makes an update (`upc`), the
timers, the sender (`spc`) and the reader that handles an ack (`apc`).  `temp` is
the record of the update under way, `link` the log the symbolic link names,
`logs` the files.  Each file operation is an action, so that a crash falls
between any two of them.  `got` is what the server dealt with, `refused` the logs
it answered with an error.

| Actions | Code |
|---|---|
| `UpdateStart`, `UpdateNamed`, `RunUpdate` | `syncUpdtNode` up to the update itself |
| `OpenLog`, `LinkLog`, `CreateLog`, `WriteEntry`, `EndEntry`, `TimerStart` | the log: found or made, the entry, `_startSyncTimer` |
| `UpdateEnd`, `UpdatePanics` | the record goes; a redo that has nothing to do |
| `TimerFires`, `TakeLog`, `SendLog`, `SendMissing`, `Resend` | the timer's `addQueue`; `sendSyncNode` |
| `ReadSyncAck`, `DropRecord`, `DropLog`, `DropAck` | the ack: `dropQueue` and `dropSyncNode` |
| `SyncCrash`, `SyncRestart`, `SyncStarted` | `initServices`, `initSyncNode`, `completeUpdtNode` |

### Forward, AddressBook

`Forward` is one thread.  `fwd` is its file of drafts, `fcc` the Cc list with the
dates of its members, `ftx` the transaction with its two temporary files and the
places between them, `saving` a save that has looked at the Cc list and not yet
taken the lock of the drafts.

In `AddressBook`, `abTemp` is the file of a transaction and what is done of it
(draft or notice, log, queue), `idx` the indexes, which handlers change as they
go, and `Replay` the loader.  `outer` is the transaction of a thread whose Cc
list is resolved (`resolveSentAdrsbk`, `resolveReceivedAdrsbk`); after a crash
both are done again.  A draft's text is a number that grows with each edit, so
that the log can be compared with what the server was told.

### Ohi, Notices, UnreadCount

`Ohi` has the request that queues its record before it marks the map (`editing`),
the answers the server tells every replica, and the list given at each login.
`Undelivered`, what the server says again, is a recursive function on the length
of the mail, which the prover can unfold one step at a time.
`Notices` is the list alone; ids number notices as they come.  `UnreadCount` has
for each thread the transaction under way: first the search document changes,
then the count.

### Nodes, Tags

In `Nodes` a request (`adding`) finds a name, adds it, claims the address and
tells the receiver; each is under the lock of the service or of the requests,
and another request may come in between.  The server answers in order
(`nodeMail`); `toSelf` is the channel to the receiver, which copies the account
and starts the replica.  `replica` is what each address has.

In `Tags` two processes hold the account, each beside one of its own.  `sTags` and
`sTagCopies` are what `tag.go` keeps in memory, `tagFile` what it keeps on disk;
`updating` is the update under way in an account, as in `SyncLog`, and `tagMail`
the updates for the other process.

### ClientHistory, ClientTabs

A handler that renames or discards a thread tells the clients one after the
other (`calls`), while they go on; `place` is what has become of the thread.
`hist`, `hpos`, `refs` are `History`, `Hpos` and `Thread[].Refs`.  In `ClientTabs`,
`doing` is the request of a client between its two files, `updt` the record of a
pin, `shown` the pinned tabs its page shows, which may be out of date.

## Runs

Passing runs; numbers of distinct states are approximate.

| Run | Checks | Instance | States |
|---|---|---|---|
| `SendQueue_live` | `TypeOK`, `PayloadKept`, `OneToken`, `StopAndWait`, refinement of `Outbox`, `EventuallyRetired` | a draft and an acceptance, periodic logins, two faults | 134 000 |
| `SendQueue_kinds` | `AcksBacked`, `NoneForgotten`, `FirstReadInOrder` | a sync log, a change to a short alias, a confirmation, a clock of two values, two faults | 645 000 |
| `ThreadStore_sent` | `DraftsAgree`, refinement of `ThreadLog`, `Recovers` | a thread of ours, two replies, ids 1-3, two crashes but in the storing of a reply | 202 000 |
| `ThreadStore_received` | `NoFatal`, `WellFormed`, `MessagesInOrder`, `NothingLost`, refinement of `ThreadLog` | a received thread, message 3 from a replica, one reply, touches of a replica, a crash but in the storing of the reply | 352 000 |
| `ThreadStore_forwarded` | `SeenIsSynced`, `SearchAgrees` | a forwarded message with its confirmation, a reply that is sent, seen marks, tags of a replica, a crash, also in the storing of the reply | 347 000 |
| `SyncLog` | `LogsKept`, refinement of `UpdateStream`, `ReachesReplicas`; `AlwaysWhole`, refinement of `AtomicFile` | two updates, two crashes, a resend, a fault; a file of three values, failures without bound | 79 000 |
| `Contacts` | `BookSound`, `LogSound`, `SendsLogged`; `ForwardSound`, `ForwardsEnd`; `OhiSound`; `NoticesSound`; `CountSound` | two aliases and users, one crash; two members, two forwards, a fault, a crash; one user, a crash; five notices; three threads, a crash | 660 000 |
| `Account` | `HistorySound`, `HistoryMoves`; `TabsSound`, `NoTabLost`; `NodesRight`, `NodesGoOn`; `TagsSound`, `TagsShared` | a client, three threads, histories of two and three; a client, three terms, any number of crashes; three requests, two names and addresses, a fault; three accounts in two processes, two tags of one name, a mark, a fault | 931 000 |

What they show of the code:

* the pipeline loses nothing through resends, stale acks, idle closes and
  restarts;
* a repeated or reordered message is stored once and in its place; the offsets
  survive insertions in the middle; a draft becomes a message in one step,
  although six files change one after the other; whatever a crash leaves, doing
  all the steps again gives the same result, but for the storing of a sent reply
  (`ThreadStore_reply`), after which only the index, the marks and the search
  document are right;
* an update that took effect is logged, and a log always has somebody who will
  send it, so that it reaches the server, in order, and its file goes;
* the indexes of the address book are what a restart would make of its log,
  also between the steps of a transaction, and nothing is logged twice;
* a forward is sent once, and its new members get every message of this user;
* a replica is what was asked for, and with one crash or namesake at most,
  requests and receiver never wait for each other; a name added on two replicas ends as two names of two ids, on both;
* a client's history never has a thread without page state, a thread twice in a
  row, or one whose discard it was told of.

Runs that end in a violation are listed under
[disagreements found](#disagreements-found).

## Bounds and fairness

**SendQueue.**  `MaxSubmit` bounds how often a record is queued, `MaxClock` the
clock that dates records, `MaxFaults` the faults of any kind; `AckCap` is 1 in the
passing runs (the code has 2: with few records, 1 makes the channel full as
often as 2 does with many).  Two faults are what the hard histories need: an early
timeout and a broken link, a crash and a stale ack.  `EventuallyRetired` is
checked under weak fairness of every step a running goroutine takes, of the
server and of a restart, and strong fairness where a goroutine waits on a
channel that others use too: a Go channel serves the goroutine that has waited
longest.  Nothing is assumed of the user, the clock or faults, which are
bounded: with faults for ever nothing need be delivered.

**StoreFile.**  The values are the only bound; three tell the last, the one
before and an older one apart.

**ThreadStore.**  The server gives at most `MaxId` ids.  Three messages and a
draft are enough for an insertion between a smaller and a larger message, with
a draft in between; message 2 is longer than the others so that a wrong offset
shows.  When the ids are used up and the user has nothing to do the system may
stop, so the runs do not check for deadlock; that a crashed service starts
again is `Recovers`, under weak fairness of the steps of a transaction and of
the recovery, which one goroutine runs without waiting for anybody (a restart
by the user is part of the assumption).

**SyncLog.**  Two updates make two logs, of which the second may be written
while the first is sent; two crashes allow one in the recovery from another.
`ReachesReplicas` assumes weak fairness of the writer, the sender, the handler of
acks and the recovery, each a goroutine that waits for nothing but the others,
and of each timer.  Crashes and resends are bounded.

**The other components.**  One crash, two or three of everything a race is
about, named by the constants `Max...`; their properties are safety, and all
of them wait for requests of a page or for the server, so deadlock is not
checked.  A second crash or a fourth thread adds repetitions of the same steps:
a transaction has one owner at a time and is done again from its file.

Several properties hold for the code only as long as something does not happen.
Where one behaviour can have at most one such fault, a variable (`fault`,
`ohiFault`, `syncFault`, `nodeFault`, `tagFault`) holds it from the first state
on, and a property names the faults it does not withstand; it is checked under
all others.

| Fault | Meaning | Not shown under it |
|---|---|---|
| `Forward`: overlap | an ack or a send comes inside a save of drafts | `AddedOnce`, `ForwardedOnce` |
| redelivery | the server tells another's forward twice | `AddedOnce` |
| second | two forwards are posted within a second | `ConfirmsNew` |
| refusal | the server refuses a forward | `AckedLeaves` |
| timeout | the link sends again before a late ack | `AckedLeaves`, `ForwardNoQuit` |
| `Ohi`: overtakes | the answer comes between record and mark | `FileAgrees` |
| refuses | the server refuses a request | `FileAgrees` |
| `SyncLog`: seen | an update fails when it was made before | `LogsWhole`, `NoneUnlogged`, `NothingForgotten`, the stream |
| `Nodes`: twice | two pages ask for one name at once | `NodeNoQuit`, `ActiveIsStarted` |
| namesake | another replica asks for the same name | `NodeNoQuit`, `RightReplica` |
| meanwhile | a page starts a replica while another is copied, and an address is silent | `NodeNoQuit` |
| crash | the process ends | `RightReplica`, `ActiveIsStarted` |
| `Tags`: late | a tag is added between the copy of an account and its start | `TagNoQuit` |
| second | two tags are made within a second | `OneName` |
| redo | a crash in the middle of an update | `TagNoQuit` |

`ClaimEnds` is the reverse: an address stays claimed after a refusal or a crash
until another request claims it, so it is stated for behaviours without either.

Assumptions, each a constant:

* `LateAcks = FALSE`: the server does not send an ack after messages to which
  it gave larger ids;
* `TwoClients = FALSE`: two browsers do not act on one draft at the same time,
  and a page offers nothing on a queued draft (`web/gui.vue`);
* `UpdateCrash = FALSE` (all runs of `ThreadStore` but `ThreadStore_torn`): no
  crash while an update is logged, which `SyncLog` is about;
* `ReplyCrash = FALSE` (all runs of `ThreadStore` but `ThreadStore_reply` and
  `ThreadStore_forwarded`): no crash between the rename of the temporary file of a
  sent reply and its removal.  The properties of marks and of the search document
  are checked with `TRUE`, where the recovery may also end the process;
* `QueuedEdits = FALSE`: the draft of a ping is not edited while it is queued;
* `StaleReplica = FALSE`: no replica sees a notice that was dropped here;
* `Overtakes = FALSE`: no page opens the account between the change of a search
  document and the count of it;
* `Hasty = FALSE`: a user acts when the page has caught up with what the client
  was told.

Also assumed: the server sends the first message of a thread before the others;
one record awaits its ack (`StopAndWait`); the server keeps whom a user tells
that it is online, until it hears otherwise or gets a new list at a login; a
crash of any component but `StoreFile` is the end of the process, after which
the operating system keeps what was written.

## Proofs

TLAPS proves these for every value of the constants; where the table names a
property, a run shows it on a small instance.

| Theorem | Property | Argument |
|---|---|---|
| `SendQueueProofs!TypeCorrect` | `TypeOK` | inductive; needs that the records read back from the file are a sequence of records (`OrdersType`) and the entries of `Append`, `Tail` and concatenation |
| `SendQueueProofs!TokenSafe` | `OneToken` | inductive as it stands |
| `SendQueueProofs!AcksSound` | `AcksBacked` | inductive with the types: an ack is created from a record the server has read and is only moved, copied or dropped |
| `SendQueueProofs!PayloadSafe` | `PayloadKept` | a consequence of `AcksBacked`; not inductive itself, since it does not say where acks come from |
| `SendQueueProofs!QueueRefinesOutbox` | `ImplementsOutbox` | every step is a step of `Outbox` or leaves it alone, given the types and `AcksBacked` |
| `SendQueueProofs!SendsOne` | `StopAndWait` | `InFlightHeld` and `AcksSeen` are inductive with the types: what is in flight is what the sender holds, or the server has read it before, and what the channel of acks holds was read |
| `SendQueueProofs!NoneLost` | `NoneForgotten` | `OnItsWay`: a queued record is in the channel, with the sender, or its ack is being stored; that an ack cannot retire a copy still to be sent (`Retiring`) needs that a record is queued once |
| `SendQueueProofs!ReadInOrder` | `FirstReadInOrder` | `InOrder`: what the server has read, what is in flight, what the sender holds and what the channel holds are, in this order, sorted by date |
| `StoreFileProofs!TypeCorrect` | (`TypeOK` of `StoreFile`) | first part of the invariant below |
| `StoreFileProofs!NeverTorn` | `AlwaysWhole` | the same |
| `StoreFileProofs!FileRefines` | `ImplementsFile` | every step maps to a step of `AtomicFile` or a stutter |
| `SyncLogProofs!NoLogLost` | `LogsKept` | the invariant below |
| `SyncLogProofs!LogIsStream` | `ImplementsStream` | every step maps to a step of `UpdateStream` or a stutter, given the same invariant |
| `ContactsProofs!OhiCorrect` | `OhiSound` | the invariant below |
| `ContactsProofs!NoticesCorrect` | `NoticesSound` | inductive: the list without its front is the notices that came last, in order, and the sets seen together are numbered from the front |
| `ContactsProofs!CountCorrect` | `CountSound` | the count is the number of unread documents, plus or minus one for each thread whose document is changed and not counted yet |
| `NodesProofs!ReplicasAreRight` | `NodesRight` | the invariant below |
| `NodesProofs!ReplicasGoOn` | `NodesGoOn` | the same: `Awaited` for the claims, and the count of the names under way for the wait |
| `PagesProofs!HistoryStaysSound` | `HistorySound` | the invariant below |
| `PagesProofs!HistoryMovesRight` | `HistoryMoves` | the same, and what `_addThread`, `renameThread` and `discardThread` make of a page |
| `PagesProofs!TabsStaySound` | `TabsSound` | inductive with what a client is doing; a pinned tab is looked for before it is added |
| `PagesProofs!TabsAreKept` | `NoTabLost` | the invariant below |
| `ThreadStoreProofs!MessagesStayInOrder` | `MessagesInOrder` | the invariant below: an index that is whole is sorted, and the one in a temporary file is too |
| `ThreadStoreProofs!DraftsStayInStep` | `DraftsAgree` | the same: what a transaction has done of a draft, step by step |
| `ThreadStoreProofs!SearchStaysInStep` | `SearchAgrees` | the same: the document is written after the file and before the temporary file goes |
| `ThreadLogProofs!StoreGoesOn` | `NoFatal` | `Tidy`, below: an index is followed in a file laid out as it says, a draft it names has a file, and a door is renamed when the draft of the thread is gone |
| `ThreadLogProofs!FileStaysWellFormed` | `WellFormed` | the same: where a message is put the others move by its size, and their offsets with them |
| `ThreadLogProofs!MessagesAreKept` | `NothingLost` | `GotOK`: every copy to be made, or made again, has the entries the thread had and the new one; `LaidOK`: and the bodies they point to |
| `ThreadLogProofs!SeenStaysSynced` | `SeenIsSynced` | the same: a mark is made while its update is under way, which ends with the record |
| `ThreadLogProofs!StoreImplementsLog` | `ImplementsLog` | every step has an `Effect` on the entries, which is a step of `ThreadLog` or none |

The invariant of `StoreFile` (`Inv`) adds two facts to `TypeOK` and
`AlwaysWhole`: what holds at each place (`AtPlace`: the file is there until it is
removed, which happens only when its replacement is complete, and after
`syncDir` the disk can only have the present directory), and that every file at
`path` is complete.  Without the first, `RemovePath` could leave nothing.

The invariant of `SyncLog` (`SyncInv`) has four parts.  `Core` is the types, and
what is true at each place of the goroutines (`WriterInv`, `SenderInv`): what the
writer has done of its update, and that the log it writes to was not sent,
while any other is queued, acked or was refused.  `Position` and `WholeLogs` say
what a crash can leave of an entry: only at the end of the log that is written
to, just where the update that is made again writes.  `Budget` counts logs by
updates and crashes, so that a timer exists for each.  `LinkWaits`, `InTurn` and
`Segments` say that the log written to will be queued, that at most one other
has anything the replicas lack, that it goes first, and that what was sent, that
log and the one written to make up, in this order, all that was logged; the
refinement follows from this.  Of `LogsKept` alone nothing is inductive: it does
not say in which log an update that is made again has its entry.

The invariant of `Ohi` (`OhiInv`) says that the last event of the mail about a
user agrees with what the server knows, and that where there is none the map
does, or a record that is not answered yet explains why not.  A record's mark
is written before its answer can be there (`ohiFault = "none"`), so that the
answer overwrites it.  `FromAgrees` needs no such hypothesis.

The invariant of `Nodes` (`NodesInv`) follows a name from the request to the
replica.  `Counted` is the one that bounds what is under way: the names queued,
told by the server or awaited, those in the channel and the requests that are about
to tell the receiver are together not more than the claims (one, while the
address is claimed), the crashes and the namesakes.  Without crash or namesake
there is then one name at most, and `AskedFor` may say that the address claimed is
the one asked for it.  While the receiver copies, the address is not claimed any
more; with one crash or namesake a single name may then be in the channel, or be
about to be put there, but not both, so that no request waits for room.
`Known` and `InFile` say that a name under way is in the file, for the
asserts of the code; `InUse` and `ClientThere` that the address and the
client of the receiver have one owner; `Started` and `Awaited` are what the
properties need of a name that is active or told.

The invariant of `ThreadStore` (`IInv`) first describes files.  A file is `Whole`
when it ends in an index that is read back as it was written, sorted by id, with
every entry inside the bodies (`Sound`).  `Places` says that there is one
transaction at most, under way or left by a crash, that its temporary file holds
a whole file's end (`TransOK`), that it is not a sent reply's when a crash left it,
and that its steps are done in their order.
`FileAt` says what is sure of the thread file meanwhile: up to the position where
the copy starts it is what it was, so that the copy can be made from any state a
crash leaves, and what is above may be anything between the cut and the end of
the copy.  This is why a step may be redone.  `Index` is then the one the file
will have, and `GotOK` says that it has all that was stored.  `DraftAt` and
`DocOK` follow a draft and the search document through the steps.
`FlightOK` says that one ack at most is on its way, for an id above those of the
index: without it `storeSentThread`, which appends its entry whatever its id,
would break the order.  `NothingLost` or `MessagesInOrder` alone say nothing of
a temporary file that recovery is to complete.

`Tidy` is the second invariant of `ThreadStore`, on top of the first.  It takes an
index as the set of its entries, since where a body is and what is said of a
message do not depend on the order.  `LaidOK` says that the bodies are in the
places the entries give, without a gap: of the thread file when nothing is
pending, and of the file that a transaction will leave (`After`) otherwise, whose
cells below the position of the copy are those of the thread file, and above it
those of the temporary file.  This is what a crash cannot disturb (`Kept`), and why
`WellFormed`, which speaks of the file at rest, is not inductive.  `SeenOK` says
that a mark made here is logged or its update under way, `DoorOK` that a renamed
door has a thread file or will.  Each step then either keeps all this and the
index (`SameLog`: every step of a transaction, each crash and each recovery that
`ReplyCrash = FALSE` allows) or is
the rename of a temporary file, whose change to the set of entries `Effect` names:
a draft saved or discarded, a message received or sent, a copy confirmed, an
entry touched.  The marks and the refinement are proved from `Effect`, and
from `LaidOK`, that an entry has the size of its message and its body is there
(`LaidHolds`), so that the messages of `ThreadLog` are those of the index
(`LogMaps`).

The invariant of `ClientHistory` (`HistInv`) says of each page what `HistorySound`
says (`PageOk`), and of the handlers that have clients to tell (`CallsInv`) that
a thread has one new name, told once the thread is sent, by one handler.
`NamedInv` is what makes a rename safe: a page that has the new id already is one
that this handler has told, so that `renameThread` never puts the state of one
thread over that of another, and two entries never become equal side by side.  The
rest is what three operations make of a page: `AddPage` (an entry that is cut or
shifted out is counted down once for each place it had), `RenamePage`, and
`DiscardPage`, which goes along the loop from the end of the history (`Done`): at
each turn what is above has no place of the id, no thread twice in a row, and a
position in it.  `HistorySound` alone is not inductive, since it allows a page to
have both names of a thread.

The invariant of the tabs with one client (`TabsOne`) says that its page shows
the first of the pinned tabs, that a tab it pins is among them before it leaves
its own list, and that the tab it drops is still where the page showed it.

The proofs assume the named assumptions of the modules (`SendQueueAssumption`,
`NoneAssumption`, `SyncAssumption`, `OhiAssumption`, `NoticesAssumption`,
`CountAssumption`, `HistoryAssumption`, `NodesAssumption`, and those of `ThreadStore`), which give
constants their types, and fifteen theorems have a hypothesis that the runs of the
same property have too:

* `CountCorrect`: `Overtakes = FALSE`, and `NoticesCorrect`: `StaleReplica =
  FALSE`; with `TRUE` TLC finds the counterexamples listed below;
* `NoneLost` and `ReadInOrder`: `MaxSubmit = 1`, each record is queued once.  The
  id of a record has the date at which it was made, so that what is queued again
  after an error is another record to the server and the files; only the draft
  behind it is the same.  With `MaxSubmit = 2` a record stands for both, and the
  disagreement below appears;
* `HistoryStaysSound` and `HistoryMovesRight`: `Hasty = FALSE`, a page offers the
  threads its client was told of.  With `TRUE` a page may open the new id of a
  thread before its handler tells it, and the rename then merges two entries;
* `TabsAreKept`: `OneClient`.  With two, one may drop a pinned tab by its position
  while the position of the other's choice stays (a hazard listed without a
  property), and its next request names another tab than its page shows;
* the eight about `ThreadStore`: `LateAcks`, `TwoClients`, `UpdateCrash` and
  `ReplyCrash` are `FALSE`.  With the first or the second `TRUE`, TLC finds the
  counterexamples listed below; with the third, a touch is redone from a torn file;
  with the fourth, a reply is redone without its body.

What a recursive function returns is proved from the least number at which it
would be wrong, which exists since `<` is well founded on `Nat`
(`ContactsProofs!LeastExists`, `ThreadStoreProofs!LeastIs`): the library's induction theorems take an operator as a
parameter, which the provers cannot instantiate, but this one takes a set.
`ThreadStoreProofs` proves in this way what `FlattenSeq` and the recursive reader
of an index (`EntriesOf`) return: `RoundTrip`, what is read is what was written.
`SelectSeq` and the other folds have no definition the provers can unfold, so a
module that uses them is proved about only as far as it does not depend on them.

Only model-checked:

* `Forward`, `AddressBook` and `Tags`: their files and logs are read and
  replayed with `SelectSeq` and folds, and no proof has been written for the parts
  that are not;
* the liveness properties (`EventuallyRetired`, `Recovers`, `ReachesReplicas`):
  leads-to under fairness needs `ENABLED`, which is outside what this prover does.

## Disagreements found

Each row is a run that TLC ends with a counterexample.

| Run | Property | What happens |
|---|---|---|
| `ThreadStore_torn` | `NoFatal` | after a crash between the cut and the copy of a touch, recovery reads the torn file first and quits at every start |
| `ThreadStore_reply` | `NothingLost` | after a crash in the storing of a sent reply, recovery copies its index but not its body, and removes the draft and the temporary file |
| `SyncLog_named` | `SyncNoQuit` | after a crash between the creation of an update's record and its rename, recovery takes the temporary file for a record, parses its name and quits at every start |
| `Tags_redo` | `TagsReopen` | a redo of `tag_add` takes a name that an account not yet opened has; when that one is opened, "tag duplicated" quits at every start |

`ThreadStore_torn` and `Tags_redo` are about the order of `initServices`: it redoes the
updates of an account before it completes the account's threads, and before it
opens the next account.

Others show when a constant is changed, and have no run of their own:

* `SendQueue`, its `NoFatal`: a late ack lets a log be resent
  after it was removed, and `sendSyncNode` quits; with `ShortAliases`:
  `parseLocalId` panics on the ack of a change to an alias of 8-12 characters;
* `SendQueue` with `MaxSubmit = 2`: a draft that is sent again after an error
  ack may be retired from the channel by the copy of that ack a resend caused;
  if the link is then lost before the server reads the new attempt, the draft
  stays queued unsent until the client restarts (`EventuallyRetired`);
* `ThreadStore` with `TwoClients = TRUE`: a draft is sent in one browser after it
  was discarded in another, and the process ends (`NoFatal`); a reply is
  discarded while its ack is handled, and the last message of the thread loses
  its entry (`NothingLost`);
* `ThreadStore` with `UpdateCrash = TRUE`: the seen mark of the touch of
  `ThreadStore_torn` never reaches the other replicas (`SeenIsSynced`); and a redo
  that finds nothing to do returns no function, which `completeUpdtNode` calls
  all the same (`EndUpdate`, mode `"panic"`; `UpdatePanics` in `SyncLog`);
* `ThreadStore` with `LateAcks = TRUE` and `MaxId = 4`: `storeSentThread`
  appends its entry whatever its id; after an ack that comes behind larger ids,
  an insertion between them leaves the entry's offset stale, and the next
  update of the search document quits (`NoFatal`).  It takes a server that
  orders its messages so, which this repository does not contain;
* `ClientTabs`: a crash after the client's file was written and before the
  record of a pin goes makes the redo find no tab to pin, and it quits at every
  start (`TabsNoQuit`); with two clients, one drops a tab between the two files of
  another that pins it, or drops another pinned tab than its page shows
  (`NoTabLost`); `TabsSound` holds with two;
* `Nodes` with `MaxNodeCrashes = 2`: two names are left without a claim, one with the
  receiver and one in the channel, and a request that tells its name waits for the
  receiver, which waits for the request (`NobodyBlocked` without its bound);
* `AddressBook` with `QueuedEdits = TRUE`: the log says of a ping what its draft
  says when the ack comes, not what was sent (`SentAsLogged`);
* `Notices` with `StaleReplica = TRUE`: a notice dropped here and seen elsewhere
  marks all that are here (`MarkedWasSeen`);
* `UnreadCount` with `Overtakes = TRUE`: a thread is counted twice, or the count
  is decremented at zero, which quits (`CountIsDocs`, `NoZeroDecrement`);
* each fault of the table above, for the properties in its last column.

## What is not modelled

* attachments and forms: files named after their message and an index of form
  names per thread, moved and changed inside the transactions of a thread, whose
  messages are abstract here; blank forms are tables that are read and written
  as a whole under one lock;
* uploads: one directory of the process with no other state, written in the
  pattern of `storeFile`;
* of a thread: touches of the draft of a new thread, form fills and the file
  kept of a confirmation mismatch;
* of forwarding: the receipt of a forwarded thread (`storeFwdReceivedThread`);
  `ThreadStore_forwarded` starts from the thread it leaves;
* of the address book: the entries of the account's own aliases, and searches;
* of replication: the stream of files, and the process that receives it;
* of client state: sort orders, and the set of messages a page has open;
* three steps are taken in one: in `Nodes`, `HandleUser` looks for the node
  (`node.go` 543) and updates it (559), which the code locks separately; in
  `AddressBook`, `DropEntryRec` drops the queue's record and removes the
  temporary file, where a crash in between only repeats steps that change nothing;
* in `ClientHistory` a discard that removes two entries side by side does not drop the
  reference of the second (`state.go` 349), and a navigation that would then
  take `History[-1]` (254) panics in its request: here it is a step that is
  not taken (`Panics`), since the history stays as it is;
* the settings of a service but those named above (`_editConfig`: address,
  length of history, login period), which are one read-modify-write under the
  lock;
* several threads at once: a thread has its own door and files, and shares with
  others only the send queue, the search index, the unread count and the
  temporary directory, where names carry the thread id;
* the byte stream of the link (`tTmtpInput`) and its parsing, HTTP, websockets
  and the pages, which appear as requests;
* the search library (bleve): the document of a thread is the summary it was
  given last;
* text, dates beyond their order, logging, and the shims in `slib_*.go`.
