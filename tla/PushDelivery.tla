----------------------------- MODULE PushDelivery -----------------------------
(***************************************************************************)
(* Live delivery of one user's event log to that user's connections on one *)
(* replica.  The request handlers of internal/api (send, edit, forward and *)
(* their retries) reserve a barrier on the connection, commit, write the   *)
(* RPC result and announce the event; the updates lane of the listener     *)
(* runs Updater.Deliver (internal/api/notify.go) for each announcement;    *)
(* and each connection keeps the watermark and barriers of RPCBarriers.    *)
(*                                                                         *)
(* Every read or write of a connection is a step of its own, because       *)
(* writeMu is released between them.  A connection keeps one auth key.     *)
(***************************************************************************)
EXTENDS RPCBarriers

CONSTANTS Conns,          \* the user's connections
          Keys,           \* auth keys they were opened with
          ForeignKinds,   \* kinds of the events that other requests commit
          MaxDiffEvents,  \* maxDiffEvents
          MaxRounds,      \* maxDeliveryRounds
          MaxRetries,     \* maxDeliveryRetries
          MaxEvents,      \* bound: length of the log
          MaxRequests,    \* bound: requests served
          MaxBinds,       \* bound: users bound to a connection
          MaxDrops,       \* bound: sockets that break
          MaxLosses       \* bound: announcements lost

ASSUME KeysAssumption == Keys \subseteq Nat \ {0}
ASSUME DeliveryAssumption ==
    /\ MaxDiffEvents \in Nat \ {0} /\ MaxRounds \in Nat \ {0} /\ MaxRetries \in Nat
    /\ MaxEvents \in Nat /\ MaxRequests \in Nat /\ MaxBinds \in Nat
    /\ MaxDrops \in Nat /\ MaxLosses \in Nat

VARIABLES log,       \* kinds of the user's events; the pts of an event is its index
          sent,      \* events this user sent: the ones a retry may name
          key,       \* auth key of each connection
          conn,      \* mtproto.Conn
          h,         \* the request each connection is serving
          announce,  \* announcements other handlers still owe this user
          lane,      \* pending callbacks of the lane "updates:<user>"
          job,       \* the running Deliver call
          d,         \* its deliverConn goroutines
          requests,  \* requests begun so far
          binds,     \* bind calls so far
          drops,     \* sockets broken so far
          losses,    \* announcements lost so far
          joined,    \* history: Len(log) when the connection was last bound
          pushed,    \* history: events pushed on the current binding
          answered,  \* history: events carried by RPC results, per auth key
          torn       \* history: rebound while a Deliver call held it

logVars == <<log, sent>>
bounds == <<requests, binds, drops, losses>>
history == <<joined, pushed, answered, torn>>
vars == <<logVars, key, conn, h, announce, lane, job, d, bounds, history>>

ASSUME ForeignKindsAssumption == ForeignKinds \subseteq {"message", "other", "silent"}

\* What eventToUpdate makes of an event: a message update that an RPC result
\* can carry, another update, or nothing (a read marker without a message).
EventKinds == {"message", "other", "silent"}

\* A tg_updates payload: the bare user id, or the auth key and pts that an RPC
\* result already carried (SuppressedUpdate).
NoKey == 0
Generic == [key |-> NoKey, pts |-> 0]
Notice == [key : Keys \cup {NoKey}, pts : Nat]

NoRequest == [pc |-> "idle", res |-> NoReservation, pts |-> 0, fresh |-> TRUE]
NoJob == [pc |-> "idle", notice |-> Generic, targets |-> {}, from |-> 0, stop |-> 0,
          head |-> 0, more |-> FALSE, round |-> 0, retries |-> 0]
NoDelivery == [pc |-> "done", pts |-> 0, pending |-> 0, until |-> 0,
               ahead |-> FALSE, retry |-> FALSE]

Init ==
    /\ log = <<>> /\ sent = {} /\ announce = 0 /\ lane = <<>>
    /\ key \in [Conns -> Keys]
    /\ conn = [c \in Conns |-> newConn]
    /\ h = [c \in Conns |-> NoRequest]
    /\ job = NoJob /\ d = [c \in Conns |-> NoDelivery]
    /\ requests = 0 /\ binds = 0 /\ drops = 0 /\ losses = 0
    /\ joined = [c \in Conns |-> 0] /\ pushed = [c \in Conns |-> {}]
    /\ answered = [k \in Keys |-> {}] /\ torn = {}

-----------------------------------------------------------------------------
(***************************************************************************)
(* The serve loop: bind hands the connection to the user its key resolves  *)
(* to, between two requests; the socket may break at any time, and the     *)
(* loop then unwinds with bind(0).                                         *)
(***************************************************************************)
bind(c, owned) ==
    /\ h[c].pc = "idle" /\ conn[c].owned # owned
    /\ conn[c].open \/ ~owned
    /\ conn' = [conn EXCEPT ![c] = [setOwner(conn[c], owned) EXCEPT !.live = owned]]
    /\ joined' = [joined EXCEPT ![c] = Len(log)]
    /\ pushed' = [pushed EXCEPT ![c] = {}]
    /\ torn' = IF c \in job.targets THEN torn \cup {c} ELSE torn

Bind(c) ==
    /\ binds < MaxBinds
    /\ bind(c, TRUE)
    /\ binds' = binds + 1
    /\ UNCHANGED <<logVars, key, h, announce, lane, job, d, requests, drops, losses, answered>>

Unbind(c) ==
    /\ bind(c, FALSE)
    /\ UNCHANGED <<logVars, key, h, announce, lane, job, d, bounds, answered>>

Disconnect(c) ==
    /\ conn[c].open /\ conn[c].owned
    /\ drops < MaxDrops /\ drops' = drops + 1
    /\ conn' = [conn EXCEPT ![c].open = FALSE]
    /\ UNCHANGED <<logVars, key, h, announce, lane, job, d, requests, binds, losses, history>>

-----------------------------------------------------------------------------
(***************************************************************************)
(* The scheduler's lane: a generic callback replaces a generic one at the  *)
(* tail, a keyed one is always appended.  Store.Notify may fail, and the   *)
(* listener may be disconnected: both lose the announcement.               *)
(***************************************************************************)
Submitted(n) ==
    IF n = Generic /\ lane # <<>> /\ Last(lane) = Generic THEN lane ELSE Append(lane, n)

Notify(n) ==
    \/ lane' = Submitted(n) /\ UNCHANGED losses
    \/ losses < MaxLosses /\ losses' = losses + 1 /\ UNCHANGED lane

\* Another user's request, or one without a barrier, commits an event here ...
CommitElsewhere(kind) ==
    /\ Len(log) < MaxEvents
    /\ log' = Append(log, kind) /\ announce' = announce + 1
    /\ UNCHANGED <<sent, key, conn, h, lane, job, d, bounds, history>>

\* ... and announces it when its transaction has committed.
NotifyElsewhere ==
    /\ announce > 0
    /\ announce' = announce - 1 /\ Notify(Generic)
    /\ UNCHANGED <<logVars, key, conn, h, job, d, requests, binds, drops, history>>

-----------------------------------------------------------------------------
(***************************************************************************)
(* handleSendMessageAfterReplyOnConn, and in the same shape the edit, the  *)
(* forward and the media handlers: beginSenderRPC, the store call,         *)
(* setSenderRPCPts, the reply written by registerReplyAfterSuccess, then   *)
(* the keyed announcement.  A failure clears the barrier and announces the *)
(* event generically.                                                      *)
(***************************************************************************)
Begin(c, pts, pc, fresh) ==
    LET begun == BeginRPCUpdateAttempt(conn[c], pts) IN
    /\ h[c].pc = "idle" /\ conn[c].owned /\ conn[c].open
    /\ requests < MaxRequests /\ requests' = requests + 1
    /\ conn' = [conn EXCEPT ![c] = begun.conn]
    /\ h' = [h EXCEPT ![c] = [pc |-> pc, res |-> begun.res, pts |-> pts, fresh |-> fresh]]
    /\ UNCHANGED <<logVars, key, announce, lane, job, d, binds, drops, losses, history>>

beginSenderRPC(c) == Begin(c, 0, "store", TRUE)

\* A stored random_id: the retry answers with the pts its message occupies.
beginSenderRPCAt(c) == \E pts \in sent : Begin(c, pts, "set", FALSE)

SendMessage(c) ==
    /\ h[c].pc = "store" /\ Len(log) < MaxEvents
    /\ log' = Append(log, "message") /\ sent' = sent \cup {Len(log')}
    /\ h' = [h EXCEPT ![c].pc = "set", ![c].pts = Len(log')]
    /\ UNCHANGED <<key, conn, announce, lane, job, d, bounds, history>>

setSenderRPCPts(c) ==
    /\ h[c].pc = "set"
    /\ conn' = [conn EXCEPT ![c] = SetRPCUpdatePtsAttempt(conn[c], h[c].res, h[c].pts)]
    /\ h' = [h EXCEPT ![c].pc = "reply"]
    /\ UNCHANGED <<logVars, key, announce, lane, job, d, bounds, history>>

SendResultAndMarkRPCUpdate(c) ==
    /\ h[c].pc = "reply" /\ conn[c].open
    /\ conn' = [conn EXCEPT ![c] = markRPCResult(conn[c], h[c].pts)]
    /\ answered' = [answered EXCEPT ![key[c]] = @ \cup {h[c].pts}]
    /\ h' = [h EXCEPT ![c].pc = "keyed"]
    /\ UNCHANGED <<logVars, key, announce, lane, job, d, bounds, joined, pushed, torn>>

\* The store call fails, or its outcome is lost after the commit; a later read
\* or the write fails.
RequestFails(c) ==
    /\ h[c].pc \in {"store", "set", "reply"}
    /\ h' = [h EXCEPT ![c].pc = "clear"]
    /\ UNCHANGED <<logVars, key, conn, announce, lane, job, d, bounds, history>>

\* Mutant: the barrier of a failed request stays.
clearSenderRPCLeaks(c) ==
    /\ h[c].pc = "clear"
    /\ h' = [h EXCEPT ![c].pc = "generic"]
    /\ UNCHANGED <<logVars, key, conn, announce, lane, job, d, bounds, history>>

clearSenderRPC(c) ==
    /\ h[c].pc = "clear"
    /\ conn' = [conn EXCEPT ![c] = ClearRPCUpdateAttempt(conn[c], h[c].res)]
    /\ h' = [h EXCEPT ![c].pc = "generic"]
    /\ UNCHANGED <<logVars, key, announce, lane, job, d, bounds, history>>

notifySend(c) ==
    /\ h[c].pc \in {"keyed", "generic"}
    /\ Notify(IF h[c].pc = "keyed" THEN [key |-> key[c], pts |-> h[c].pts] ELSE Generic)
    /\ h' = [h EXCEPT ![c] = NoRequest]
    /\ UNCHANGED <<logVars, key, conn, announce, job, d, requests, binds, drops, history>>

-----------------------------------------------------------------------------
(***************************************************************************)
(* deliverAtSuppressed: one worker serves the lane.  Each round builds one *)
(* batch, the events in (from, stop], and starts one deliverConn per       *)
(* target; Join is fanout.Wait and the decision on another round.          *)
(***************************************************************************)
Deliver ==
    /\ job.pc = "idle" /\ lane # <<>>
    /\ lane' = Tail(lane)
    /\ job' = [NoJob EXCEPT !.pc = "build", !.notice = Head(lane),
                            !.targets = {c \in Conns : conn[c].live}]
    /\ UNCHANGED <<logVars, key, conn, h, announce, d, bounds, history>>

Low == Min({conn[c].pts : c \in job.targets})
High == Max({conn[c].pts : c \in job.targets})
BatchStart ==
    LET tail == job.head - MaxDiffEvents IN
    IF job.round = 0 \/ job.head < MaxDiffEvents THEN Low
    ELSE IF High < tail THEN High ELSE Max({Low, tail})

Updates(from, stop) == {p \in (from + 1)..stop : log[p] # "silent"}

\* buildUpdates: the state is read first and bounds the events; a batch cut at
\* MaxDiffEvents advertises its last event.
buildUpdates ==
    LET from == BatchStart
        more == Len(log) > from + MaxDiffEvents
        stop == IF more THEN from + MaxDiffEvents ELSE Len(log) IN
    /\ job.pc = "build" /\ job.targets # {}
    /\ IF Updates(from, stop) = {} /\ ~more
       THEN job' = NoJob /\ UNCHANGED d
       ELSE /\ job' = [job EXCEPT !.pc = "fanout", !.from = from, !.stop = stop,
                                  !.head = Len(log), !.more = more]
            /\ d' = [c \in Conns |-> IF c \in job.targets
                                      THEN [NoDelivery EXCEPT !.pc = "start"] ELSE NoDelivery]
    /\ UNCHANGED <<logVars, key, conn, h, announce, lane, bounds, history>>

\* No connection is left to serve.
Finish ==
    /\ job.pc = "build" /\ job.targets = {}
    /\ job' = NoJob
    /\ UNCHANGED <<logVars, key, conn, h, announce, lane, d, bounds, history>>

Join ==
    LET ahead == {c \in job.targets : d[c].ahead} IN
    /\ job.pc = "fanout" /\ \A c \in job.targets : d[c].pc = "done"
    /\ job' = IF \E c \in job.targets : d[c].retry
              THEN IF job.retries = MaxRetries THEN NoJob
                   ELSE [job EXCEPT !.pc = "build", !.retries = @ + 1]
              ELSE IF job.round + 1 = MaxRounds THEN NoJob
                   ELSE [job EXCEPT !.pc = "build", !.retries = 0, !.round = @ + 1,
                                    !.targets = ahead]
    /\ d' = [c \in Conns |-> NoDelivery]
    /\ UNCHANGED <<logVars, key, conn, h, announce, lane, bounds, history>>

-----------------------------------------------------------------------------
(***************************************************************************)
(* deliverConn.  d[c].pts is the local copy of the watermark, d[c].pending *)
(* of the first barrier.  Batch is the local updateBatch.                  *)
(***************************************************************************)
Batch == Updates(job.from, job.stop)
Above(pts) == {p \in Batch : p > pts}
Between(lo, hi) == {p \in Batch : lo < p /\ p < hi}
Carried(pts) == pts \in Batch /\ log[pts] = "message"   \* isRPCResultUpdate

\* Mutant: the event is suppressed whatever key the RPC result went to.
KeyedForAll(c, pts) == job.notice.key # NoKey /\ job.notice.pts > pts

Keyed(c, pts) == job.notice.key = key[c] /\ job.notice.pts > pts

\* Where deliverConn goes once no barrier holds it back, with watermark pts.
Release(c, pts) ==
    LET target == job.notice.pts IN
    CASE Above(pts) = {} -> "tail"
      [] Above(pts) # {} /\ Keyed(c, pts) /\ Carried(target) ->
           IF Between(pts, target) # {} THEN "prefix" ELSE "mark"
      [] OTHER -> "push"

\* Where deliverConn goes with the first barrier at p, ready or not.
Barred(c, p, isReady) ==
    LET pts == d[c].pts IN
    CASE p > 0 /\ Keyed(c, pts) /\ job.notice.pts = p -> Release(c, pts)
      [] p > job.stop -> Release(c, pts)
      [] ~isReady \/ p = 0 -> "done"
      [] p <= pts \/ (p = pts + 1 /\ Carried(p)) -> "account"
      [] p > pts + 1 /\ Carried(p) -> IF Between(pts, p) # {} THEN "before" ELSE "look"
      [] OTHER -> "done"

Step(c, from, to) ==
    /\ d[c].pc = from
    /\ d' = [d EXCEPT ![c] = to]
    /\ UNCHANGED <<logVars, key, h, announce, lane, job, bounds, joined, answered, torn>>

At(c, pc) == [d[c] EXCEPT !.pc = pc]
Done(c, ahead, retry) == [d[c] EXCEPT !.pc = "done", !.ahead = ahead, !.retry = retry]

LastPushedPts(c) ==
    LET pts == conn[c].pts IN
    /\ Step(c, "start",
            IF pts < job.from THEN Done(c, FALSE, FALSE)
            ELSE IF pts >= job.stop THEN Done(c, job.more, FALSE)
            ELSE [At(c, "pending") EXCEPT !.pts = pts])
    /\ UNCHANGED <<conn, pushed>>

\* Mutant: the barriers are not consulted.
ReadPendingUnbarred(c) ==
    /\ Step(c, "pending", At(c, Release(c, d[c].pts)))
    /\ UNCHANGED <<conn, pushed>>

ReadPending(c) ==
    /\ Step(c, "pending",
            IF Pending(conn[c]) THEN [At(c, "ready") EXCEPT !.pending = PendingRPCUpdate(conn[c])]
            ELSE At(c, Release(c, d[c].pts)))
    /\ UNCHANGED <<conn, pushed>>

ReadReady(c) ==
    /\ Step(c, "ready", At(c, Barred(c, d[c].pending, PendingRPCUpdateReady(conn[c]))))
    /\ UNCHANGED <<conn, pushed>>

\* accountPendingRPCUpdate releases the barrier without writing.
accountPendingRPCUpdate(c) ==
    LET p == d[c].pending IN
    /\ Step(c, "account",
            At(c, IF MarkedRPCUpdate(conn[c], p) THEN "reread"
                  ELSE IF p > d[c].pts THEN "look" ELSE "done"))
    /\ conn' = [conn EXCEPT ![c] = MarkRPCUpdate(@, p)]
    /\ UNCHANGED pushed

\* The watermark is read again, and the loop goes on if it moved.
Reread(c) ==
    /\ Step(c, "reread", [At(c, "pending") EXCEPT !.pts = conn[c].pts])
    /\ UNCHANGED <<conn, pushed>>

\* Mutant: the loop goes on even if the watermark did not move.
LookAgain(c) ==
    /\ Step(c, "look", [At(c, "pending") EXCEPT !.pts = conn[c].pts])
    /\ UNCHANGED <<conn, pushed>>

Look(c) ==
    /\ Step(c, "look", IF conn[c].pts > d[c].pts
                       THEN [At(c, "pending") EXCEPT !.pts = conn[c].pts] ELSE At(c, "done"))
    /\ UNCHANGED <<conn, pushed>>

\* result.ahead, read from the connection after the last write.
ReadAhead(c) ==
    /\ Step(c, "tail", Done(c, job.more /\ conn[c].pts < job.stop, FALSE))
    /\ UNCHANGED <<conn, pushed>>

\* pushOrdered writes the updates of one slice and advertises pts.  A stale
\* slice and a connection that changed owner write nothing; a failed write
\* takes the connection out of the registry (handlePushFailure).
pushOrdered(c, from, expected, updates, pts, whenPushed, whenStale, whenFailed, whenRefused) ==
    /\ Step(c, from, CASE ~conn[c].owned -> whenRefused
                       [] Stale(conn[c], expected) -> whenStale
                       [] Writable(conn[c], expected) -> whenPushed
                       [] OTHER -> whenFailed)
    /\ conn' = [conn EXCEPT ![c] = IF Writable(@, expected) THEN PushToAtWatermark(@, pts)
                                   ELSE IF @.owned /\ ~Stale(@, expected)
                                        THEN [@ EXCEPT !.live = FALSE] ELSE @]
    /\ pushed' = [pushed EXCEPT ![c] = IF Writable(conn[c], expected) THEN @ \cup updates ELSE @]

\* The whole suffix above the watermark, at the batch's own pts.
Push(c) ==
    pushOrdered(c, "push", d[c].pts, Above(d[c].pts), job.stop,
                At(c, "done"), Done(c, FALSE, TRUE), At(c, "done"), At(c, "done"))

deliverBeforePendingRPC(c) ==
    LET prefix == Between(d[c].pts, d[c].pending) IN
    pushOrdered(c, "before", d[c].pts, prefix, Max(prefix),
                At(c, "look"), Done(c, FALSE, TRUE), At(c, "look"), At(c, "look"))

\* deliverWithSuppression: the prefix, the accounting, and the suffix up to the
\* next barrier.
PushPrefix(c) ==
    LET prefix == Between(d[c].pts, job.notice.pts) IN
    pushOrdered(c, "prefix", d[c].pts, prefix, Max(prefix),
                At(c, "mark"), Done(c, FALSE, TRUE), Done(c, FALSE, TRUE), At(c, "tail"))

MarkSuppressed(c) ==
    /\ Step(c, "mark", At(c, IF MarkedRPCUpdate(conn[c], job.notice.pts) THEN "next" ELSE "tail"))
    /\ conn' = [conn EXCEPT ![c] = MarkRPCUpdate(@, job.notice.pts)]
    /\ UNCHANGED pushed

SuffixEnd(c) ==
    LET next == PendingRPCUpdate(conn[c]) IN
    IF Pending(conn[c]) /\ next > job.notice.pts THEN next ELSE job.stop + 1

NextPending(c) ==
    LET suffix == Between(job.notice.pts, SuffixEnd(c)) IN
    /\ Step(c, "next", IF suffix = {} THEN At(c, "tail")
                       ELSE [At(c, "suffix") EXCEPT !.until = Max(suffix)])
    /\ UNCHANGED <<conn, pushed>>

PushSuffix(c) ==
    pushOrdered(c, "suffix", job.notice.pts, Between(job.notice.pts, d[c].until + 1), d[c].until,
                At(c, "tail"), Done(c, FALSE, TRUE), At(c, "tail"), At(c, "tail"))

deliverConn(c) ==
    \/ LastPushedPts(c) \/ ReadPending(c) \/ ReadReady(c) \/ accountPendingRPCUpdate(c)
    \/ Reread(c) \/ Look(c) \/ ReadAhead(c) \/ Push(c) \/ deliverBeforePendingRPC(c)
    \/ PushPrefix(c) \/ MarkSuppressed(c) \/ NextPending(c) \/ PushSuffix(c)

Worker == Deliver \/ buildUpdates \/ Finish \/ Join \/ \E c \in Conns : deliverConn(c)

Serve(c) ==
    \/ SendMessage(c) \/ setSenderRPCPts(c) \/ SendResultAndMarkRPCUpdate(c)
    \/ RequestFails(c) \/ clearSenderRPC(c) \/ notifySend(c)

Next ==
    \/ \E kind \in ForeignKinds : CommitElsewhere(kind)
    \/ NotifyElsewhere
    \/ \E c \in Conns : \/ Bind(c) \/ Unbind(c) \/ Disconnect(c)
                        \/ beginSenderRPC(c) \/ beginSenderRPCAt(c) \/ Serve(c)
    \/ Worker

\* A goroutine that can run does: the worker holds no lock while it waits, and
\* every socket write has a deadline.
Spec == Init /\ [][Next]_vars /\ WF_vars(Worker)

-----------------------------------------------------------------------------
\* LastPushedPts is "the highest contiguous owner pts" (send.go): every update
\* up to a connection's watermark was pushed on this binding or was carried by
\* an RPC result of the same auth key.  So the pts a client is told never runs
\* past an update it was not given.  (A connection that is handed to another
\* user and back while one Deliver call holds it is excluded; see torn.)
WatermarkIsContiguous ==
    \A c \in Conns \ torn : conn[c].owned =>
        Updates(0, conn[c].pts) \subseteq pushed[c] \cup answered[key[c]]

\* The events a step pushes on c.
NewlyPushed(c) == pushed'[c] \ pushed[c]

\* A send whose barrier is in place and whose RPC result is not written yet.
InFlight(c) == h[c].fresh /\ h[c].res.id # 0 /\ h[c].pc \in {"set", "reply"}

\* A generic notification never pushes to a connection the message that this
\* connection is itself sending: the barrier is reserved before the commit, so
\* whoever sees the event also sees the barrier.
GenericWaitsForResult ==
    [][\A c \in Conns : job.notice = Generic /\ InFlight(c) => h[c].pts \notin NewlyPushed(c)]_vars

\* The same of every notification, the keyed one of an earlier send included.
DeliveryWaitsForResult ==
    [][\A c \in Conns : InFlight(c) => h[c].pts \notin NewlyPushed(c)]_vars

\* The updates c still lacks.
Missing(c) == Updates(conn[c].pts, Len(log))

Quiescent ==
    /\ lane = <<>> /\ announce = 0 /\ job.pc = "idle"
    /\ \A c \in Conns : h[c].pc = "idle"

\* When no announcement was lost and nothing is left to run, a connection that
\* was there for the newest event has every update: no barrier, retry or
\* concurrent result leaves it behind.  The saturated overflow is a hold until
\* rebind by design.
NothingLeftBehind ==
    Quiescent /\ losses = 0 =>
        \A c \in Conns \ torn :
            conn[c].live /\ conn[c].open /\ ~conn[c].full /\ joined[c] < Len(log) => Missing(c) = {}

\* A Deliver call ends, whatever the connections do meanwhile.
DeliverReturns == (job.pc # "idle") ~> (job.pc = "idle")
================================================================================
