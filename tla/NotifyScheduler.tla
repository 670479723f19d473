--------------------------- MODULE NotifyScheduler ---------------------------
(***************************************************************************)
(* The LISTEN side of the cross-replica notification bus: the Listener of  *)
(* internal/store/notify.go, which turns each Postgres notification into a *)
(* callback, and the scheduler of internal/store/notify_scheduler.go,      *)
(* which runs the callbacks on a fixed set of workers.                     *)
(*                                                                         *)
(* Callbacks are grouped in lanes, one per key ("updates:<user>",          *)
(* "typing:<peer>:<from>", ...).  A lane is in the channel `ready' at most *)
(* once, and a worker that takes it runs one callback and puts the lane    *)
(* back if more are pending.  The critical sections of the scheduler's     *)
(* mutex are the atomic steps; the receive from `ready', the callback and  *)
(* the send that requeues a lane happen outside it.                        *)
(***************************************************************************)
EXTENDS Naturals, Sequences, FiniteSets

CONSTANTS Channels,          \* kinds of notification the listener hears
          Owners,            \* the ids a payload names
          Workers,           \* notificationWorkerCount goroutines
          QueueLimit,        \* notificationQueueLimit
          LanePendingLimit,  \* notificationLanePendingLimit
          MaxSubmissions     \* bound: notifications accepted by one listener

ASSUME QueueLimitAssumption == QueueLimit \in Nat \ {0}
ASSUME LanePendingLimitAssumption == LanePendingLimit \in Nat \ {0}
ASSUME MaxSubmissionsAssumption == MaxSubmissions \in Nat

VARIABLES listening,  \* the LISTEN connection is up
          stopped,    \* s.ctx has been cancelled
          lanes,      \* keys of s.lanes
          queued,     \* lane.queued, per key
          running,    \* lane.running, per key
          pend,       \* lane.pending, per key; <<>> for a key with no lane
          pending,    \* s.pending
          ready,      \* the buffered channel s.ready
          wpc,        \* where each worker is in its loop
          wlane,      \* the lane a worker took from ready
          submitted,  \* number of notifications dispatched so far
          accepted,   \* history: the newest callback accepted, per key
          started     \* history: the newest callback started, per key

lockVars == <<lanes, queued, running, pend, pending>>
vars == <<listening, stopped, lockVars, ready, wpc, wlane, submitted, accepted, started>>

(***************************************************************************)
(* Listener.dispatch: the lane a notification goes to, and whether it may  *)
(* share a pending slot.  "updates|key" is the tg_updates payload that     *)
(* names the auth key and pts an RPC result already carried.               *)
(***************************************************************************)
LaneOf(n) == << IF n.channel = "updates|key" THEN "updates" ELSE n.channel, n.owner >>

Coalesces(n) == n.channel \notin
    {"updates|key", "channel-membership", "chat-admin", "encryption", "encrypted-msg"}

Notifications == [channel : Channels, owner : Owners]
Keys == {LaneOf(n) : n \in Notifications}
Task == [id : Nat, coalesce : BOOLEAN]
NoLane == <<>>

Init ==
    /\ listening = TRUE
    /\ stopped = FALSE
    /\ lanes = {}
    /\ queued = [k \in Keys |-> FALSE]
    /\ running = [k \in Keys |-> FALSE]
    /\ pend = [k \in Keys |-> <<>>]
    /\ pending = 0
    /\ ready = <<>>
    /\ wpc = [w \in Workers |-> "select"]
    /\ wlane = [w \in Workers |-> NoLane]
    /\ submitted = 0
    /\ accepted = [k \in Keys |-> 0]
    /\ started = [k \in Keys |-> 0]

-----------------------------------------------------------------------------
(***************************************************************************)
(* submit, the three ways it ends.  It runs under s.mu and never waits.    *)
(***************************************************************************)
\* Mutant: the callback at the tail is replaced even if it may not share a slot.
ReplaceableAnyTail(k, t) == t.coalesce /\ pend[k] # <<>>

Replaceable(k, t) ==
    /\ t.coalesce
    /\ pend[k] # <<>>
    /\ pend[k][Len(pend[k])].coalesce

\* Mutant: the lane table has no cap of its own.
RefusedUncapped(k, t) ==
    \/ stopped
    \/ /\ ~Replaceable(k, t)
       /\ \/ Len(pend[k]) >= LanePendingLimit
          \/ pending >= QueueLimit /\ k \in lanes

\* No lane can be created, the lane is full, or the shared queue is full.  A
\* callback that opens a lane is exempt from the shared limit.
Refused(k, t) ==
    \/ stopped
    \/ k \notin lanes /\ Cardinality(lanes) >= QueueLimit
    \/ /\ ~Replaceable(k, t)
       /\ \/ Len(pend[k]) >= LanePendingLimit
          \/ pending >= QueueLimit /\ k \in lanes

SubmitDrop(k, t) ==
    /\ Refused(k, t)
    /\ UNCHANGED <<lockVars, ready, accepted>>

SubmitReplace(k, t) ==
    /\ ~Refused(k, t)
    /\ Replaceable(k, t)
    /\ pend' = [pend EXCEPT ![k][Len(pend[k])] = t]
    /\ accepted' = [accepted EXCEPT ![k] = t.id]
    /\ UNCHANGED <<lanes, queued, running, pending, ready>>

\* A lane that is neither queued nor running goes to ready.  The send does not
\* block: if ready is full the lane is forgotten and the callback dropped.
SubmitAppend(k, t) ==
    LET busy == queued[k] \/ running[k]
        room == Len(ready) < QueueLimit
    IN  /\ ~Refused(k, t)
        /\ ~Replaceable(k, t)
        /\ lanes' = IF busy \/ room THEN lanes \cup {k} ELSE lanes \ {k}
        /\ pend' = IF busy \/ room THEN [pend EXCEPT ![k] = Append(@, t)] ELSE pend
        /\ pending' = IF busy \/ room THEN pending + 1 ELSE pending
        /\ queued' = IF ~busy THEN [queued EXCEPT ![k] = room] ELSE queued
        /\ ready' = IF ~busy /\ room THEN Append(ready, k) ELSE ready
        /\ accepted' = IF busy \/ room THEN [accepted EXCEPT ![k] = t.id] ELSE accepted
        /\ UNCHANGED running

submit(k, t) == SubmitDrop(k, t) \/ SubmitReplace(k, t) \/ SubmitAppend(k, t)

\* One notification read from the connection and handed to the scheduler.
dispatch(n) ==
    /\ listening
    /\ submitted < MaxSubmissions
    /\ submitted' = submitted + 1
    /\ submit(LaneOf(n), [id |-> submitted + 1, coalesce |-> Coalesces(n)])
    /\ UNCHANGED <<listening, stopped, wpc, wlane, started>>

\* Listener.run: the connection breaks, and is later replaced.  What is
\* notified in between reaches nobody.
ConnectionLost ==
    /\ listening
    /\ listening' = FALSE
    /\ UNCHANGED <<stopped, lockVars, ready, wpc, wlane, submitted, accepted, started>>

Reconnect ==
    /\ ~listening
    /\ ~stopped
    /\ listening' = TRUE
    /\ UNCHANGED <<stopped, lockVars, ready, wpc, wlane, submitted, accepted, started>>

\* stop: cancelling ends the listener loop and the scheduler's context.
Stop ==
    /\ ~stopped
    /\ stopped' = TRUE
    /\ listening' = FALSE
    /\ UNCHANGED <<lockVars, ready, wpc, wlane, submitted, accepted, started>>

-----------------------------------------------------------------------------
(***************************************************************************)
(* A worker: receive a lane, take its oldest callback, run it, requeue.    *)
(***************************************************************************)
Receive(w) ==
    /\ wpc[w] = "select"
    /\ ready # <<>>
    /\ wlane' = [wlane EXCEPT ![w] = Head(ready)]
    /\ ready' = Tail(ready)
    /\ wpc' = [wpc EXCEPT ![w] = "next"]
    /\ UNCHANGED <<listening, stopped, lockVars, submitted, accepted, started>>

\* Mutant: a worker leaves only when nothing is pending any more.
ExitWhenDrained(w) ==
    /\ wpc[w] = "select"
    /\ stopped /\ pending = 0
    /\ wpc' = [wpc EXCEPT ![w] = "done"]
    /\ UNCHANGED <<listening, stopped, lockVars, ready, wlane, submitted, accepted, started>>

Exit(w) ==
    /\ wpc[w] = "select"
    /\ stopped
    /\ wpc' = [wpc EXCEPT ![w] = "done"]
    /\ UNCHANGED <<listening, stopped, lockVars, ready, wlane, submitted, accepted, started>>

next(w) ==
    LET k == wlane[w] IN
    /\ wpc[w] = "next"
    /\ IF stopped \/ ~queued[k] \/ pend[k] = <<>>
       THEN /\ wpc' = [wpc EXCEPT ![w] = "select"]
            /\ wlane' = [wlane EXCEPT ![w] = NoLane]
            /\ UNCHANGED <<lockVars, started>>
       ELSE /\ pend' = [pend EXCEPT ![k] = Tail(@)]
            /\ queued' = [queued EXCEPT ![k] = FALSE]
            /\ running' = [running EXCEPT ![k] = TRUE]
            /\ pending' = pending - 1
            /\ wpc' = [wpc EXCEPT ![w] = "run"]
            /\ started' = [started EXCEPT ![k] = Head(pend[k]).id]
            /\ UNCHANGED <<lanes, wlane>>
    /\ UNCHANGED <<listening, stopped, ready, submitted, accepted>>

\* Mutant: the worker forgets to requeue a lane with more callbacks.
finishForgets(w) ==
    LET k == wlane[w] IN
    /\ wpc[w] = "run"
    /\ running' = [running EXCEPT ![k] = FALSE]
    /\ lanes' = IF stopped \/ pend[k] = <<>> THEN lanes \ {k} ELSE lanes
    /\ wpc' = [wpc EXCEPT ![w] = "select"]
    /\ wlane' = [wlane EXCEPT ![w] = NoLane]
    /\ UNCHANGED <<listening, stopped, queued, pend, pending, ready, submitted, accepted, started>>

\* The callback returns, and finish's critical section follows.
finish(w) ==
    LET k == wlane[w]
        over == stopped \/ pend[k] = <<>>
    IN
    /\ wpc[w] = "run"
    /\ running' = [running EXCEPT ![k] = FALSE]
    /\ lanes' = IF over THEN lanes \ {k} ELSE lanes
    /\ queued' = IF over THEN queued ELSE [queued EXCEPT ![k] = TRUE]
    /\ wpc' = [wpc EXCEPT ![w] = IF over THEN "select" ELSE "send"]
    /\ wlane' = IF over THEN [wlane EXCEPT ![w] = NoLane] ELSE wlane
    /\ UNCHANGED <<listening, stopped, pend, pending, ready, submitted, accepted, started>>

\* finish, after the unlock: a send that blocks while ready is full.
Requeue(w) ==
    /\ wpc[w] = "send"
    /\ \/ /\ Len(ready) < QueueLimit
          /\ ready' = Append(ready, wlane[w])
       \/ /\ stopped
          /\ UNCHANGED ready
    /\ wpc' = [wpc EXCEPT ![w] = "select"]
    /\ wlane' = [wlane EXCEPT ![w] = NoLane]
    /\ UNCHANGED <<listening, stopped, lockVars, submitted, accepted, started>>

worker(w) == Receive(w) \/ Exit(w) \/ next(w) \/ finish(w) \/ Requeue(w)

Next ==
    \/ \E n \in Notifications : dispatch(n)
    \/ ConnectionLost
    \/ Reconnect
    \/ Stop
    \/ \E w \in Workers : worker(w)

\* Goroutines are scheduled and every callback returns: a callback only reads
\* the database and writes to sockets, and socket writes carry a deadline.
Fairness == \A w \in Workers : WF_vars(worker(w))

Spec == Init /\ [][Next]_vars /\ Fairness

-----------------------------------------------------------------------------
(***************************************************************************)
(* Properties                                                              *)
(***************************************************************************)
\* Every variable has its type; the three bounds of the constants included.
TypeOK ==
    /\ listening \in BOOLEAN /\ stopped \in BOOLEAN
    /\ lanes \in SUBSET Keys
    /\ queued \in [Keys -> BOOLEAN] /\ running \in [Keys -> BOOLEAN]
    /\ pend \in [Keys -> Seq(Task)]
    /\ pending \in Nat
    /\ ready \in Seq(Keys)
    /\ wpc \in [Workers -> {"select", "next", "run", "send", "done"}]
    /\ wlane \in [Workers -> Keys \cup {NoLane}]
    /\ submitted \in Nat
    /\ accepted \in [Keys -> Nat] /\ started \in [Keys -> Nat]

\* The per-key lanes "preserve order for notifications that address the same
\* owner": two workers never run callbacks of one key at the same time.
OneRunnerPerLane ==
    \A v, w \in Workers :
        wpc[v] = "run" /\ wpc[w] = "run" /\ wlane[v] = wlane[w] => v = w

\* A pending callback is never stranded: until the scheduler stops, a lane with
\* pending callbacks is held by exactly the worker running it, or by the one
\* place from which a worker will take it next (the ready channel, a worker
\* between the receive and next, a worker about to requeue it). Nor is it run
\* twice at once, stopped or not.
Tokens(k) ==
    Cardinality({i \in 1..Len(ready) : ready[i] = k})
      + Cardinality({w \in Workers : wpc[w] \in {"next", "run", "send"} /\ wlane[w] = k})

NoLaneStranded ==
    /\ OneRunnerPerLane
    /\ ~stopped => \A k \in Keys : Tokens(k) = IF k \in lanes THEN 1 ELSE 0

\* The buffer of ready is as large as the lane table, so the send that requeues
\* a lane (finish) never blocks a worker, nor does submit find ready full.
RequeueNeverBlocks ==
    \A w \in Workers : wpc[w] = "send" => Len(ready) < QueueLimit

\* "or growing the queue without limit": the shared limit can be passed only by
\* callbacks that open a lane, one for each lane, and the counter s.pending is
\* the number of callbacks the lanes really hold; and within these bounds a
\* requeue never blocks.
PendingSlots == {p \in Keys \X (1..LanePendingLimit) : p[2] <= Len(pend[p[1]])}

QueueBounded ==
    /\ RequeueNeverBlocks
    /\ \A k \in Keys : Len(pend[k]) <= LanePendingLimit
    /\ Cardinality(lanes) <= QueueLimit
    /\ pending = Cardinality(PendingSlots)
    /\ ~stopped => pending <= QueueLimit + Cardinality({k \in Keys : pend[k] # <<>>})

\* A lane keeps its order and its members: callbacks of one key start in the
\* order their notifications arrived, and coalescing never swallows one that
\* may not share a slot: a keyed update, once pending, leaves its lane only by
\* being started.
LanesKeepOrder ==
    [][\A k \in Keys :
         /\ started'[k] >= started[k]
         /\ \A i \in 1..Len(pend[k]) :
              ~pend[k][i].coalesce =>
                 \/ \E j \in 1..Len(pend'[k]) : pend'[k][j] = pend[k][i]
                 \/ started'[k] = pend[k][i].id]_vars

\* An accepted notification is served: a callback of its lane that is at least
\* as new starts later, unless the process shuts down first.
AcceptedIsServed ==
    \A k \in Keys : \A n \in 1..MaxSubmissions :
        accepted[k] = n ~> (stopped \/ started[k] >= n)

\* stop returns: once the context is cancelled every worker leaves its loop.
StopReturns == stopped ~> (\A w \in Workers : wpc[w] = "done")

\* What was accepted is served while the process runs, and when it is stopped
\* every worker ends, also one that is parked, or has a lane in its hands. This
\* is finish's requeue and the select of the worker loop.
WorkEnds == AcceptedIsServed /\ StopReturns
=============================================================================
