# Specification of the message server

TLA+ models of the parts of this server whose correctness depends on the order in
which transactions, goroutines, notifications and crashes happen to come. TLC checks
them on small instances, and TLAPS proves central invariants for every instance.
`PROJECT.json` lists the runs, the theorems and the hazards, and names for every
definition the source lines it models.

## The system

A user has one event log. Each change of what the user sees (a new message, an edit, a
deletion) appends an event to it and takes the next number, `pts`. A message to somebody
is a row and an event for each owner who sees it; a post in a channel is one row that its
members read. Clients catch up with `getDifference`. Live pushes are an optimisation on
top of that, and the pts they announce must never run past an update that the client was
not given. Everything is kept in PostgreSQL at READ COMMITTED, except for the bytes of
files, which are in a blob store; replicas tell each other of changes by LISTEN/NOTIFY.

| Part | State | What is hard | Module |
|---|---|---|---|
| listener and scheduler (`store/notify.go`, `notify_scheduler.go`) | lanes, ready channel, workers | one runner per lane, no lost lane, bounds, shutdown | `NotifyScheduler` |
| message log, basic chats, block list (`store/messages.go`, `fanout.go`, `chats.go`, `blocks.go`) | rows and events per owner, members, rights, locks | reads before the locks, resends in flight, many locks per transaction | `UpdateLog` |
| message handlers, barriers, live delivery (`api/messages.go`, `api/notify.go`, `mtproto/send.go`) | watermark and barriers of a connection, one Deliver call | results and pushes in either order, retries, overflow, rebinding | `RPCBarriers`, `PushDelivery` |
| channels (`store/channels.go`, `channelmsgs.go`, `channel_post_summaries.go`, `api/channels.go`) | participants, posts, markers, summaries, invites, usernames | caps, offices that change under way, lock order, counters built while posts are made | `ChannelTables`, `ChannelReads`, `Channels`, `ChannelLog` |
| accounts (`store/codes.go`, `rate_limits.go`, `registration_invites.go`, `users.go`, `passwords.go`, `api/auth.go`) | codes, windows, invites, keys, challenges | single use, limits with refunds, a call of many statements | `Quotas`, `AccountTables`, `Accounts` |
| uploads and erasure (`store/uploads.go`, `files.go`, `erasure.go`, `blobscan`) | part and file rows, references, objects | a crash between a row and its bytes, sweeps against calls | `MediaTables`, `Media` |
| secret chats (`store/secretchats.go`, `encrypted.go`) | chat states, the qts queue | conditional updates, the cap, dedup after a rollback | `SecretChats` |
| connections (`mtproto/server.go`, `sessions.go`, `pendinglogin.go`, `unboundkey.go`, `preauth.go`) | limiters, registry, the frame under way | every slot is given back once | `Connections` |
| read markers (`store/dialogs.go`, `chat_read_history.go`) | inbox and outbox markers, unread counts | each owner numbers messages differently, bounds taken before the locks | `ReadMarkers` |
| folders (`store/dialog_filters.go`, `api/dialog_filter_sync.go`) | folders, marks and claims of the recovery | compare-and-swap, a fetch that covers only what preceded it | `Folders`, `FolderSync` |
| polls and reactions (`store/polls.go`, `reactions.go`) | polls, ballots, references, reactions | decisions before the lock, the last reference | `Polls` |
| roles in a chat (`store/chats.go`, `chat_admin_events.go`) | roles, events, markers | a marker consumed after the reply was written | `ChatAdmins` |

## Modules

A module has the state of its part as variables, one action for each operation or for
each step of it, and its properties. A transaction that holds every lock it needs from
its first read is one step. One that reads before it locks has a step for the reads, one
for each lock and one for the commit, and may roll back before. A goroutine takes a step
for each critical section, statement, write to a socket or operation of the blob store.
`MC...` modules hold the instances.

**NotifyScheduler.** `lanes`, `queued`, `running`, `pend` and `pending` are the fields the
mutex guards, `ready` is the buffered channel, `wpc` and `wlane` say where each worker is.
A payload is its channel and the id it names. `submit` keeps the branch that drops a
callback because `ready` is full, although the invariant shows it is never taken.

**UpdateLog.** A slot is a transaction in progress. `rows[u]` is the message table of
owner `u`, indexed by `local_id`, and `log[u]` the events, indexed by `pts`. There is one
chat, and its founders are who `CreateChat` left in it. The text a send or an edit writes
is the number of the operation.

**RPCBarriers, PushDelivery.** One user, one replica and the user's connections.
`RPCBarriers` has the critical sections of a connection as operators on a record;
`PushDelivery` composes them with the handler of a request, the lane of notifications and
a Deliver call with a goroutine for each connection. The scheduler promises one runner
for each lane, and so there is one `job`. `pushed`, `answered`, `joined` and `torn` are
history.

**ChannelTables, ChannelReads, Channels, ChannelLog.** The first two are the tables with
their queries and the calls that only read. `Channels` has the transactions: a call takes
the locks of its `Plan` in order and checks under each what the code checks there. The
dyadic counters of posts are modelled by what they sum, with ids of `IdBits` bits. The
text a search matches is external. New channels draw ids from `MinChannelID` up, above
every user's; an older channel may have the id of a user. The table of usernames tells the
two apart by its owner type, the advisory locks do not. `ChannelLog` is the promise to
readers, an append-only log without tables, locks or calls; `Channels` implements it under
the mapping that keeps of a post only its random id.

**Quotas, AccountTables, Accounts.** Windows of tokens and the login tables as operators,
a query each; a call of the API is a program with a step for each statement or
transaction, so that whatever it has read may be stale by its next step. Whether a
password proof is right is external: it is the version of the password it was made for.
A code is dated by the beginning of the transaction that issues it, which may have waited.

**MediaTables, Media.** A row and the bytes it names live in two systems that no
transaction spans, so every operation is the sequence of its statements and blob
operations. A process may die, a client's connection may be lost and a blob operation may
fail between any two. Parts and files have sizes: an assembly reads the total first and
the parts later, and an object that turns out longer or shorter than its row says is not
marked stored. `aged` stands for the cutoffs of the sweeps.

**SecretChats.** Handlers read without a lock and act with a conditional statement; the
notice to the other side follows the commit and may be lost.

**Connections.** The life of a socket from the accept to the close: the address and
handshake limits, the frame loop with the hold of an unbound key and the pending-login
slot, binding to a user, a login on a key that is already bound, and every way out.

**ReadMarkers.** `box[u]` is the sequence of `u`'s rows. `ReadChatHistory`, which takes
its bound and the member list before the locks, is three steps; `asked` is history.

**Folders, FolderSync.** The stored folders, and how the devices learn of a change: serve
loops, listener, sweeper and pushes around a recovery state that is replaced with
compare-and-swap.

**Polls.** Creating, voting, closing and reading polls, reactions, and the deletes that
take polls with them, on messages of which each member has a copy. What the trigger of a
delete decides is seen by others only after the commit.

**ChatAdmins.** A change of role writes an event and a marker for every member. Its push
may fail; a difference reads the markers, replies, and then deletes those it reported.

## Runs

Times are with two workers; deadlock checking is off because a behaviour ends when its
bounds are used up.

| Run | Instance | Properties | Distinct states |
|---|---|---|---|
| `scheduler` | 2 workers, 4 lanes over a table of 2, 2 slots per lane, 3 notifications | `NoLaneStranded`, `QueueBounded`, `LanesKeepOrder`, `WorkEnds` | 31,182 |
| `chat_log` | 3 users, a chat of 2, 2 transactions at a time, 3 in all: send, edit, delete, add, remove | `CopiesAgree`, `NonMembersAreFrozen`, `WritesHoldOwnerLock`, `TransactionsEnd` | 207,548 |
| `chat_admission` | the same, full at 2 members: add, remove, block, unblock, send, forward, restrict, rename | `ChatSendsAreAuthorised`, `AddsAreAuthorised` | 950,219 |
| `direct_log` | 2 users, one token, 2 transactions at a time, 3 in all: send, resend, forward, edit, delete of up to 2 | `OneRowPerRandomID`, `MirrorsAgree`, `LogTellsRows`, `ResendKeepsPts` | 284,478 |
| `push_one` | 1 connection, 3 events, 2 requests, a queue and an overflow of 1 | `WatermarkIsContiguous`, `NothingLeftBehind`, `GenericWaitsForResult`, `DeliverReturns` | 305,592 |
| `push_two` | 2 connections and keys, windows of 1 event, 2 events, one loss, one broken socket | `WatermarkIsContiguous` | 978,735 |
| `channels` | 3 users, up to 2 channels, 2 transactions at a time (3 in one scenario), 4 or 5 in all, in 7 scenarios | `CapsHold`, `UnreadAgrees`, `NamesAgree`, `ViewsAreSeparate`, `OnlyNamesDeadlock`, `AdminsActInOffice`, `PostsAreOrderly`, `ReadersMissNothing` | 79,365 |
| `accounts` | 2 calls at a time, 2 to 4 in all, in 10 scenarios, a clock of up to 3 | `QuotasHold`, `AdmissionIsWhole`, `LoginsAreEarned` | 662,207 |
| `features` | 7 parts that share no table, in 34 scenes and the connections | `MediaKeepsBytes`, `LeftoversAreReclaimed`, `SecretChatsAgree`, `EncryptedQueueIsWhole`, `SlotsAccounted`, `ReceiptsAreTrue`, `FoldersAreCurrent`, `BallotsAreFair`, `ReactionsAgree`, `RolesAreLearned` | 350,979 |

The comment in front of each property says what it states and which code it is about. In
`features` the initial state chooses the part, so that one run explores the sum of the
state spaces and not their product.

Three further runs read a comment of the source literally, and TLC finds the program
doing something else:

* `delete_fails_closed`: `DeleteMessages` "fails closed (ErrMessageInvalid, no changes)
  if any id is absent or already deleted". A member clears their own copy of a chat
  message and then revokes the message: the walk over the copies skips the cleared one
  and the call succeeds.
* `forward_dedup`: `ForwardMessages` dedups "per sender, per destination peer". The
  lookup has no destination, so a token that was used with another peer forwards nothing.
* `result_barrier`: while the pts of a pending send is unknown "generic delivery must
  wait rather than risk crossing it". The keyed delivery of an earlier send does not
  wait: it cuts its suffix only at a barrier whose pts is known. TLC's trace: a silent
  event 1; a send takes pts 2 and its result is written above the gap; the next send
  commits 3 but has not set its pts; the keyed notification of 2 pushes 3 to its sender.

**What the properties had to admit.** Some hold only in a form weaker than one would
guess, and say so. Transactions can wait in a circle in two cases (`OnlyNamesDeadlock`),
and PostgreSQL then aborts one of them. Owners may swap usernames. And a channel with an
id from `channels_id_seq` may be renamed while the user of that id is admitted to it: the
comment on lock order in `store/channels.go` says the advisory lock of a rename "cannot
cycle with the per-owner advisory locks in fanout.go (which are keyed on userID)", but
both number one space, as `lockOwners` says, and such an id can be a user's. A phone gets
a second code within the cooldown when a code has been spent in between, and the cooldown
counts from the beginning of the transaction that issued the last. A code can be guessed
once more than its limit for each call in progress (`QuotasHold`). The unread badge of a
dialog may be too high after a delete, never too low (`ReceiptsAreTrue`). Secret chats and
live pushes promise something only while no notification is lost. The markers of roles
belong to a member and not to a device, so `RolesAreLearned` says that one of the member's
devices was told.

**Bounds.** The `Max...` constants and task counts of operations, submissions, events,
requests, binds, drops, losses and faults only bound the exploration. The limits of the
code (queue, lane, participants, barriers, window, rounds, retries, caps, quotas, the page
of a difference) are constants too, set so small that they are reached. Two transactions
at a time are enough for a property that concerns a reader and a writer, and the
operations before them supply the state they race over. A scenario starts from tables the
program can have made, and limits the calls to those that meet there: the last seat of a
channel, a creator, an administrator and a member acting on each other, a summary younger
than its posts, one code from two networks, two sends of one upload, the deletes of the
last copies of two polls, a part saved again while its upload is sent, a connection that
closes during a scan of three, a channel numbered like a user, a second change of a role
before the first was acknowledged. A cycle of more than two transactions of `UpdateLog`
would need more slots; the lock order (row first, then ascending) excludes it for any
number. In `push_one` `MaxDiffEvents` exceeds the log, so a batch is never cut; `push_two`
cuts every batch. With 2 requests the saturated overflow is not reached, and
`DeliverReturns` does not depend on the cap on retries, as the watermark moves a bounded
number of times.

**Symmetry** is used for transaction slots and connections in runs without liveness.

**Fairness.** Each worker (`NotifyScheduler`), each transaction's next step
(`UpdateLog`), the delivery goroutines (`PushDelivery`), the steps of a call that has
begun and the sweeps of media with the passing of time (`MediaFairness`) are weakly fair.
The code justifies it: goroutines are scheduled, callbacks only query the database and
write to sockets under a deadline, a transaction waits for nothing but a lock, and the
sweeps run by a ticker. No client, notification, rollback, fault, reconnect or shutdown
is assumed to happen.

## Proofs

The theorems hold for arbitrary sets of workers, notifications, transactions, sockets,
keys and users and arbitrary limits, under the named assumptions on constants: positive
limits, finite sets where something is counted, a creator among the founders, non-zero
tokens, devices that belong to users.

**Scheduler** (`NotifySchedulerProofs`). `TypeCorrect`, `MutualExclusion`, `Bounded`
(`QueueBounded`), `NeverBlocks`, `OneToken` (`NoLaneStranded`). None of these is
inductive. The invariant `IInv` adds the ownership discipline: a lane is in the table
exactly while it is queued or running, never both; what a worker holds agrees with the
flags; `ready` holds queued lanes, each once, and none that a worker holds; until the stop
every lane has a token; and the counter is the number of waiting callbacks. `NeverBlocks`
follows by counting: the lanes in `ready` and the one in the worker's hand are different
members of a table of at most `QueueLimit`.

**Message log** (`UpdateLogInvariant`, `UpdateLogInserts`, `UpdateLogCommit`,
`UpdateLogProofs`). `TypeCorrect`, `DedupOnce` (`OneRowPerRandomID`), `LockDiscipline`
(`WritesHoldOwnerLock`), `AdmissionIsChecked` (`AddsAreAuthorised`). The invariant says
for each transaction that what it has read is still so: the holder of the chats row lock
knows the members, the owners of a message's copies are those it read before locking
(copies are only ever inserted together, by the transaction that allocates the fan-out
id), and the tokens it saw under the owner's lock are exactly those in the table.
`UpdateLogInserts` states once what a commit may do to the database (`WriteEffect`) and
shows that every other transaction then keeps its invariant; `UpdateLogCommit` has one
lemma per operation, that its commit refuses or has this effect.

**Connections** (`ConnectionsProofs`). `ConnectionsInductive`, `EverySlotIsAccounted`
(`SlotsAccounted`). Whether a counter may go up or down by one depends on whether the
socket already holds a slot of it, and that follows from where its goroutine is. The
invariant says so for each thing that is counted: the address and handshake slots
(`PreAuth`), the hold on an unbound key (`Hold`), the pending-login slot (`Pending`) and
the registration (`Registry`). Each has a lemma for the steps that change it; every other
step leaves its variables alone.

**Roles in a chat** (`ChatAdminsProofs`). `RolesInductive`, `EveryChangeIsLearned`
(`RolesAreLearned`), for any chats to start with, any devices and any page of a
difference. Whether a marker may be deleted depends on what the reply said, and that on
when it was read. The invariant therefore says of a marker that it names the last change
its owner is owed (`Marked`), of a reading that it is true in its version and no older
than the change its marker named (`Read`), and of a push that it goes to those the event
was written for (`Addressed`). A marker that still names what the reader saw can go; one
that a further change renamed stays.

The proof modules allow the SMT solver half a minute for a leaf (`USE SMTT(30)`); a leaf
that the other prover settles names it.

**Only model-checked.** Liveness (`WorkEnds`, `TransactionsEnd`, `DeliverReturns`,
`LeftoversAreReclaimed`), since the prover handles neither fairness nor ENABLED; the
refinement `ReadersMissNothing`; the remaining safety properties of `UpdateLog`, and those
of `PushDelivery`, `Channels`, `Accounts`, `Media`, `SecretChats`, `ReadMarkers`,
`FolderSync` and `Polls`.

## Not modelled

Left out of the parts that have a model:

* A connection that is handed away and back while a Deliver call holds it: `MarkRPCUpdate`
  checks the owner, not the binding. The properties except such connections (`torn`).
  A change of auth key on a bound connection, which clears its barriers.
* A lost keyed notification may leave a barrier in front of generic deliveries until the
  next bind, so `NothingLeftBehind` speaks of behaviours without losses.
* Failing COMMITs whose outcome is unknown to the caller, except in `PushDelivery`.
* Dates: a difference lists the secret chats that changed after the date the client
  holds, and a row that commits late can lie before a date the client was already given.
* More than one basic chat, the contents of messages, replies, history and search of
  private messages, pins of a basic chat, photos and thumbnails, presence and typing.
* A registration during a scan of more than one batch of `FolderSync`.

Without a model, as no concurrent state of theirs would add to one: transport and key
exchange (byte formats and cryptography in one goroutine), the ring of outcomes behind
`invokeAfterMsg` (one goroutine writes and reads it), search and language packs
(read-only), the administration server (it observes), catalog, discovery and links
(signing and static pages), configuration and start-up. The unique keys and cascades of
the schema are part of the operations that rely on them.
