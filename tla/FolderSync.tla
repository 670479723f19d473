---- MODULE FolderSync ----
(***************************************************************************)
(* How the devices of one account learn that its folders changed: the      *)
(* notification of a committed mutation marks the owner's connections on   *)
(* this replica, a sweeper nudges the marked ones at most three times, and *)
(* a fetch of the folders covers exactly the marks that preceded it.  The  *)
(* sources are internal/api/dialog_filter_sync.go and dialog_filters.go,   *)
(* the sweeper in internal/api/notify.go and the recovery state of a       *)
(* connection in internal/mtproto/send.go and sessions.go.                 *)
(*                                                                         *)
(* Four kinds of goroutine meet here: each connection's serve loop, the    *)
(* listener, the sweeper and the pushes it starts.  The clock and a        *)
(* connection's recovery state are replaced with compare-and-swap: a load  *)
(* of the clock and a swap that uses it later are steps of their own, and  *)
(* the queueing that follows a swap belongs to it.  The delays between     *)
(* attempts are a choice: the sweeper may find an attempt early.           *)
(***************************************************************************)
EXTENDS Folders

CONSTANTS FolderConns, RecoveryBatch, RecoverySlots

VARIABLES clock,      \* dialogFilterClock: sequence and global epoch
          link,       \* connection: owner, session and what its client knows
          binding,    \* recoveryBinding, read without a lock
          recovery,   \* dialogFilterRecovery of each connection
          serving,    \* the request each serve loop is in
          ring,       \* recoveryConns of the registry, and its cursor
          queue,      \* the recovery queue
          sweep,      \* the sweeper: its scan and the candidates it has taken
          pushes,     \* push goroutines
          listener,   \* what the listener's callback is doing
          applied,    \* the newest change whose notification has been acted on
          folderTasks \* what a scenario still does

syncVars == <<clock, link, binding, recovery, serving, ring, queue, sweep, pushes,
              listener, applied, folderTasks>>

syncVarsButServing == <<clock, link, binding, recovery, ring, queue, sweep, pushes,
                        listener, applied, folderTasks>>

User == 1
Zero == [sequence |-> 0, epoch |-> 0]
MaxAttempts == 3

fresh(owner, session) ==
    [owner |-> owner, session |-> session, generation |-> 0, covered |-> 0,
     initialized |-> FALSE, firstDifference |-> TRUE, pushEligible |-> FALSE,
     attempts |-> 0, inFlight |-> FALSE, claim |-> 0]

Uncovered(r, epoch) == Max({r.generation, epoch}) > r.covered

DialogFilterRecoveryAttemptPending(r, owner, session, epoch) ==
    /\ r.owner = owner /\ r.session = session /\ r.initialized
    /\ r.pushEligible /\ r.attempts < MaxAttempts
    /\ Uncovered(r, epoch)

Enqueued(q, cs) == q \o SelectSeq(cs, LAMBDA c : c \notin Range(q))

enqueueRecovery(c) == queue' = Enqueued(queue, <<c>>)

\* Whoever leaves a connection pending, with attempts left, queues it.
enqueueIfPending(c, r, owner, session) ==
    IF DialogFilterRecoveryAttemptPending(r, owner, session, clock.epoch)
    THEN enqueueRecovery(c) ELSE UNCHANGED queue

ServeAt(c) == serving[c].at

Goes(c, at) == serving' = [serving EXCEPT ![c].at = at]

Rests(c, at) == serving' = [serving EXCEPT ![c] = [at |-> at]]

----
(* The recovery state of one connection. *)

EnsureDialogFilterRecoveryBinding(r, session, coverage) ==
    IF r.owner = User /\ r.session = session /\ r.initialized
    THEN r
    ELSE [fresh(User, session) EXCEPT !.covered = coverage, !.initialized = TRUE]

\* A connection that becomes pending starts with all of its attempts.
MarkDialogFilterRecovery(r, session, generation, epoch) ==
    LET start == IF r.initialized THEN r
                 ELSE [fresh(User, session) EXCEPT !.covered = Max({generation - 1, epoch}),
                                                   !.initialized = TRUE]
        next  == [start EXCEPT !.generation = Max({@, generation})]
    IN  IF ~Uncovered(start, epoch) /\ Uncovered(next, epoch)
        THEN [next EXCEPT !.attempts = 0] ELSE next

AcknowledgeDialogFilterFetch(r, captured, epoch) ==
    LET next == [r EXCEPT !.covered = Max({@, captured}), !.pushEligible = TRUE]
    IN  IF Uncovered(next, epoch) THEN next
        ELSE [next EXCEPT !.attempts = 0, !.inFlight = FALSE, !.claim = 0]

Marked(c, session, generation, epoch) ==
    /\ recovery[c].owner = User /\ recovery[c].session = session
    /\ recovery' = [recovery EXCEPT ![c] = MarkDialogFilterRecovery(@, session, generation, epoch)]
    /\ enqueueRecovery(c)

----
(* The serve loop of a connection.  A frame's session may be new, which    *)
(* first changes the binding and then resets the recovery state.           *)

firstStep == [fetch |-> "clock", difference |-> "clock", mutate |-> "mutate"]

setSession(c, session, kind) ==
    /\ link[c].open /\ ServeAt(c) = "idle"
    /\ folderTasks[kind] > 0
    /\ folderTasks' = [folderTasks EXCEPT ![kind] = @ - 1]
    /\ link' = [link EXCEPT ![c].session = session, ![c].owes = @ /\ kind # "fetch"]
    /\ binding' = [binding EXCEPT ![c].session = session]
    /\ serving' = [serving EXCEPT ![c] = [
            at |-> IF session = link[c].session THEN firstStep[kind] ELSE "reset",
            kind |-> kind, clock |-> Zero, generation |-> 0, first |-> FALSE,
            pending |-> FALSE, seen |-> 0, include |-> FALSE, broken |-> FALSE]]
    /\ UNCHANGED <<folderVars, clock, recovery, ring, queue, sweep, pushes, listener, applied>>

resetDialogFilterRecoveryLocked(c) ==
    /\ ServeAt(c) \in {"reset", "setOwner"}
    /\ recovery' = [recovery EXCEPT ![c] = fresh(link[c].owner, link[c].session)]
    /\ Goes(c, IF ServeAt(c) = "reset" THEN firstStep[serving[c].kind] ELSE "add")
    /\ UNCHANGED <<folderVars, clock, link, binding, ring, queue, sweep, pushes, listener, applied, folderTasks>>

loadClock(c) ==
    /\ ServeAt(c) = "clock"
    /\ serving' = [serving EXCEPT ![c].clock = clock, ![c].at = "ensure"]
    /\ UNCHANGED <<folderVars, clock, link, binding, recovery, ring, queue, sweep, pushes, listener,
                   applied, folderTasks>>

EnsureBinding(c) ==
    LET r == EnsureDialogFilterRecoveryBinding(recovery[c], link[c].session, serving[c].clock.sequence)
    IN  /\ ServeAt(c) = "ensure"
        /\ recovery' = [recovery EXCEPT ![c] = r]
        /\ serving' = [serving EXCEPT ![c].at =
                            CASE serving[c].kind = "fetch" -> "capture"
                              [] serving[c].kind = "difference" -> "difference"
                              [] OTHER -> "repair",
                           ![c].clock = Zero,
                           ![c].first = r.firstDifference,
                           ![c].pending = Uncovered(r, serving[c].clock.epoch)]
        /\ UNCHANGED <<folderVars, clock, link, binding, ring, queue, sweep, pushes, listener, applied, folderTasks>>

\* handleGetDialogFilters: the capture precedes the seeding and the read.
Capture(c) ==
    /\ ServeAt(c) = "capture"
    /\ serving' = [serving EXCEPT ![c].generation = clock.sequence,
                                  ![c].at = IF seeded THEN "read" ELSE "seed"]
    /\ UNCHANGED <<folderVars, clock, link, binding, recovery, ring, queue, sweep, pushes, listener,
                   applied, folderTasks>>

\* A fetch that fails is answered with an error, and the client asks again.
fetchFails(c) ==
    /\ Goes(c, "bind")
    /\ link' = [link EXCEPT ![c].owes = TRUE]

seedFolders(c) ==
    /\ ServeAt(c) = "seed"
    /\ \/ SeedDefaultDialogFilters /\ Goes(c, "read") /\ UNCHANGED link
       \/ fetchFails(c) /\ UNCHANGED folderVars
    /\ UNCHANGED <<clock, binding, recovery, ring, queue, sweep, pushes, listener, applied, folderTasks>>

readDialogFilters(c) ==
    /\ ServeAt(c) = "read"
    /\ \/ /\ serving' = [serving EXCEPT ![c].seen = changes, ![c].at = "reply"]
          /\ UNCHANGED link
       \/ fetchFails(c)
    /\ UNCHANGED <<folderVars, clock, binding, recovery, ring, queue, sweep, pushes, listener, applied, folderTasks>>

\* handleGetDifferenceForConn: besides the captured state, a durable marker close
\* to the client's date asks for a refresh; a truncated difference carries none.
handleGetDifferenceForConn(c) ==
    /\ ServeAt(c) = "difference"
    /\ \E withinGuard \in {FALSE, changes > 0}, more \in BOOLEAN :
          serving' = [serving EXCEPT ![c].at = "reply", ![c].pending = FALSE,
                        ![c].include = (serving[c].first \/ serving[c].pending \/ withinGuard) /\ ~more]
    /\ UNCHANGED <<folderVars, clock, link, binding, recovery, ring, queue, sweep, pushes, listener,
                   applied, folderTasks>>

\* A mutation commits or is refused; either way its reply can fail.
handleUpdateDialogFilter(c) ==
    /\ ServeAt(c) = "mutate"
    /\ \/ /\ Mutation(folderTasks.kinds, folderTasks.ids)
          /\ \/ Goes(c, "bind")
             \/ serving' = [serving EXCEPT ![c].at = "clock", ![c].broken = TRUE]
       \/ /\ UNCHANGED folderVars
          /\ \E broken \in BOOLEAN : serving' = [serving EXCEPT ![c].at = "clock", ![c].broken = broken]
    /\ UNCHANGED syncVarsButServing

\* A mutation handled by another replica reaches this one as a notification.
otherReplica ==
    /\ folderTasks.remote > 0
    /\ folderTasks' = [folderTasks EXCEPT !.remote = @ - 1]
    /\ Mutation(folderTasks.kinds, folderTasks.ids)
    /\ UNCHANGED <<clock, link, binding, recovery, serving, ring, queue, sweep, pushes, listener, applied>>

\* The requester whose mutation was not answered with success is marked alone.
RequesterRepair(c) ==
    /\ \/ /\ ServeAt(c) = "repair"
          /\ clock' = [clock EXCEPT !.sequence = @ + 1]
          /\ serving' = [serving EXCEPT ![c].clock = clock', ![c].at = "mark"]
          /\ UNCHANGED <<recovery, queue>>
       \/ /\ ServeAt(c) = "mark"
          /\ Marked(c, link[c].session, serving[c].clock.sequence, serving[c].clock.epoch)
          /\ Goes(c, IF serving[c].broken THEN "close" ELSE "bind")
          /\ UNCHANGED clock
    /\ UNCHANGED <<folderVars, link, binding, ring, sweep, pushes, listener, applied, folderTasks>>

SendResult(c) ==
    LET s == serving[c]
    IN  /\ s.at = "reply"
        /\ \/ /\ Goes(c, "close")
              /\ UNCHANGED link
           \/ /\ s.kind = "fetch" /\ link[c].open
              /\ link' = [link EXCEPT ![c].seen = s.seen]
              /\ Goes(c, "ack")
           \/ /\ s.kind = "difference" /\ link[c].open
              /\ link' = [link EXCEPT ![c].owes = @ \/ s.include]
              /\ Goes(c, IF s.include THEN "ack" ELSE "bind")
        /\ UNCHANGED <<folderVars, clock, binding, recovery, ring, queue, sweep, pushes, listener,
                       applied, folderTasks>>

\* Mutant: the fetch covers what has arrived by the time it is answered.
AcknowledgeFetchLate(c) ==
    LET r == AcknowledgeDialogFilterFetch(recovery[c], clock.sequence, clock.epoch)
    IN  /\ recovery' = [recovery EXCEPT ![c] = r]
        /\ enqueueIfPending(c, r, User, link[c].session)

AcknowledgeFetch(c) ==
    LET r == AcknowledgeDialogFilterFetch(recovery[c], serving[c].generation, clock.epoch)
    IN  /\ recovery' = [recovery EXCEPT ![c] = r]
        /\ enqueueIfPending(c, r, User, link[c].session)

\* The difference consumes the one signal a new binding has, and covers nothing.
AcknowledgeDifference(c) ==
    LET r == [recovery[c] EXCEPT !.firstDifference = FALSE, !.pushEligible = TRUE]
    IN  IF serving[c].first /\ recovery[c].firstDifference
        THEN /\ recovery' = [recovery EXCEPT ![c] = r]
             /\ enqueueIfPending(c, r, User, link[c].session)
        ELSE UNCHANGED <<recovery, queue>>

\* Nothing is acknowledged for a request whose deadline has passed.
afterReply(c) ==
    /\ ServeAt(c) = "ack"
    /\ \/ serving[c].kind = "fetch" /\ AcknowledgeFetch(c)
       \/ serving[c].kind = "difference" /\ AcknowledgeDifference(c)
       \/ UNCHANGED <<recovery, queue>>
    /\ Goes(c, "bind")
    /\ UNCHANGED <<folderVars, clock, link, binding, ring, sweep, pushes, listener, applied, folderTasks>>

\* The end of a frame: the first one makes the user the connection's owner and
\* then registers it.
bindOwner(c) ==
    /\ ServeAt(c) = "bind"
    /\ IF link[c].owner = User
       THEN Rests(c, "idle") /\ UNCHANGED <<link, binding>>
       ELSE /\ link' = [link EXCEPT ![c].owner = User]
            /\ binding' = [binding EXCEPT ![c].owner = User]
            /\ Goes(c, "setOwner")
    /\ UNCHANGED <<folderVars, clock, recovery, ring, queue, sweep, pushes, listener, applied, folderTasks>>

registryAdd(c) ==
    /\ ServeAt(c) = "add"
    /\ ring' = [ring EXCEPT !.conns = Append(@, c)]
    /\ Rests(c, "idle")
    /\ UNCHANGED <<folderVars, clock, link, binding, recovery, queue, sweep, pushes, listener, applied, folderTasks>>

RemovedFromRing(c) ==
    LET i == CHOOSE j \in DOMAIN ring.conns : ring.conns[j] = c
        left == RemoveAt(ring.conns, i)
        cursor == IF i <= ring.cursor THEN ring.cursor - 1 ELSE ring.cursor
    IN  IF c \notin Range(ring.conns) THEN ring
        ELSE [conns |-> left, cursor |-> IF left = << >> THEN 0 ELSE cursor % Len(left)]

\* The end of the serve loop: the connection loses its owner, then its place.
endServe(c) ==
    /\ \/ ServeAt(c) = "close"
       \/ ServeAt(c) = "idle" /\ ~link[c].open
       \/ ServeAt(c) = "idle" /\ folderTasks.close > 0
    /\ folderTasks' = [folderTasks EXCEPT !.close = IF ServeAt(c) = "idle" /\ link[c].open THEN @ - 1 ELSE @]
    /\ link' = [link EXCEPT ![c].open = FALSE, ![c].owner = 0]
    /\ binding' = [binding EXCEPT ![c].owner = 0]
    /\ recovery' = [recovery EXCEPT ![c] = fresh(0, link[c].session)]
    /\ Rests(c, "remove")
    /\ UNCHANGED <<folderVars, clock, ring, queue, sweep, pushes, listener, applied>>

registryRemove(c) ==
    /\ ServeAt(c) = "remove"
    /\ ring' = RemovedFromRing(c)
    /\ Rests(c, "gone")
    /\ UNCHANGED <<folderVars, clock, link, binding, recovery, queue, sweep, pushes, listener, applied, folderTasks>>

----
Waiting == [at |-> "wait", generation |-> 0, epoch |-> 0, todo |-> {}, change |-> 0]

(* The listener: one notification at a time. *)

OwnerInvalidation ==
    /\ listener.at = "wait" /\ folderNotices # << >>
    /\ clock' = [clock EXCEPT !.sequence = @ + 1]
    /\ folderNotices' = Tail(folderNotices)
    /\ listener' = [at |-> "conns", generation |-> clock.sequence + 1, epoch |-> clock.epoch,
                    todo |-> {}, change |-> Head(folderNotices)]
    /\ UNCHANGED <<folderRows, folderOrder, seeded, changes, listening, link, binding, recovery, serving,
                   ring, queue, sweep, pushes, applied, folderTasks>>

Conns ==
    /\ listener.at = "conns"
    /\ listener' = [listener EXCEPT !.at = "mark", !.todo = Range(ring.conns)]
    /\ UNCHANGED <<folderVars, clock, link, binding, recovery, serving, ring, queue, sweep, pushes,
                   applied, folderTasks>>

markConn(c) ==
    /\ listener.at = "mark" /\ c \in listener.todo
    /\ listener' = [listener EXCEPT !.todo = @ \ {c}]
    /\ \/ /\ binding[c].owner = User
          /\ Marked(c, binding[c].session, listener.generation, listener.epoch)
       \/ /\ \/ binding[c].owner # User
             \/ recovery[c].owner # User
             \/ recovery[c].session # binding[c].session
          /\ UNCHANGED <<recovery, queue>>
    /\ UNCHANGED <<folderVars, clock, link, binding, serving, ring, sweep, pushes, applied, folderTasks>>

marksDone ==
    /\ listener.at = "mark" /\ listener.todo = {}
    /\ applied' = Max({applied, listener.change})
    /\ listener' = Waiting
    /\ UNCHANGED <<folderVars, clock, link, binding, recovery, serving, ring, queue, sweep, pushes, folderTasks>>

listenerLost ==
    /\ listener.at = "wait" /\ listening
    /\ folderTasks.lose > 0
    /\ folderTasks' = [folderTasks EXCEPT !.lose = @ - 1]
    /\ listening' = FALSE /\ folderNotices' = << >>
    /\ UNCHANGED <<folderRows, folderOrder, seeded, changes, clock, link, binding, recovery, serving,
                   ring, queue, sweep, pushes, listener, applied>>

connectAndListen ==
    /\ ~listening
    /\ listening' = TRUE
    /\ listener' = [listener EXCEPT !.at = "reconnected", !.change = changes]
    /\ UNCHANGED <<folderRows, folderOrder, seeded, changes, folderNotices, clock, link, binding, recovery,
                   serving, ring, queue, sweep, pushes, applied, folderTasks>>

ListenerReconnected ==
    /\ listener.at = "reconnected"
    /\ clock' = [sequence |-> clock.sequence + 1, epoch |-> clock.sequence + 1]
    /\ listener' = Waiting
    /\ applied' = Max({applied, listener.change})
    /\ UNCHANGED <<folderVars, link, binding, recovery, serving, ring, queue, sweep, pushes, folderTasks>>

----
(* The sweeper and its pushes. *)

\* A tick: a new epoch starts a scan of the registry, then a batch is taken.
tick ==
    LET remaining == IF clock.epoch # sweep.epoch THEN Len(ring.conns) ELSE sweep.remaining
        limit == IF remaining < RecoveryBatch THEN remaining ELSE RecoveryBatch
        n == Len(ring.conns)
        count == IF limit < n THEN limit ELSE n
        found == [i \in 1..count |-> ring.conns[1 + ((ring.cursor + i - 1) % n)]]
        filled == Enqueued(queue, found)
        taken == IF Len(filled) < RecoveryBatch THEN Len(filled) ELSE RecoveryBatch
    IN  /\ sweep.todo = << >>
        /\ sweep' = [epoch |-> clock.epoch,
                     remaining |-> IF count < limit THEN 0 ELSE remaining - count,
                     todo |-> SubSeq(filled, 1, taken)]
        /\ queue' = SubSeq(filled, taken + 1, Len(filled))
        /\ ring' = [ring EXCEPT !.cursor = IF count = 0 THEN @ ELSE (@ + count) % n]
        /\ UNCHANGED <<folderVars, clock, link, binding, recovery, serving, pushes, listener, applied, folderTasks>>

Claimable(r, b, epoch) ==
    /\ r.owner = b.owner /\ r.session = b.session /\ r.initialized /\ r.pushEligible /\ ~r.inFlight
    /\ Uncovered(r, epoch) /\ r.attempts < MaxAttempts

\* One candidate: no owner, no slot, no claim, or a push of its own.
recoverDialogFilters(c) ==
    LET b == binding[c]
        r == recovery[c]
    IN  /\ sweep.todo # << >> /\ c = Head(sweep.todo)
        /\ \/ /\ b.owner = 0
              /\ sweep' = [sweep EXCEPT !.todo = Tail(@)]
              /\ UNCHANGED <<recovery, queue, pushes>>
           \/ /\ b.owner # 0 /\ Cardinality(pushes) >= RecoverySlots
              /\ queue' = Enqueued(queue, sweep.todo)
              /\ sweep' = [sweep EXCEPT !.todo = << >>]
              /\ UNCHANGED <<recovery, pushes>>
           \/ /\ b.owner # 0 /\ Cardinality(pushes) < RecoverySlots
              /\ ~Claimable(r, b, sweep.epoch) \/ r.attempts > 0
              /\ queue' = IF DialogFilterRecoveryAttemptPending(r, b.owner, b.session, sweep.epoch)
                          THEN Enqueued(queue, <<c>>) ELSE queue
              /\ sweep' = [sweep EXCEPT !.todo = Tail(@)]
              /\ UNCHANGED <<recovery, pushes>>
           \/ /\ b.owner # 0 /\ Cardinality(pushes) < RecoverySlots
              /\ Claimable(r, b, sweep.epoch)
              /\ link[c].claims < folderTasks.claims
              /\ recovery' = [recovery EXCEPT ![c].attempts = @ + 1, ![c].inFlight = TRUE,
                                              ![c].claim = link[c].claims + 1]
              /\ pushes' = pushes \cup {[conn |-> c, session |-> b.session,
                                         claim |-> link[c].claims + 1, at |-> "write"]}
              /\ sweep' = [sweep EXCEPT !.todo = Tail(@)]
              /\ UNCHANGED queue
        /\ link' = IF pushes' = pushes THEN link ELSE [link EXCEPT ![c].claims = @ + 1]
        /\ UNCHANGED <<folderVars, clock, binding, serving, ring, listener, applied, folderTasks>>

\* The write is made only for the binding and the claim it was scheduled for.
\* A write that fails closes the transport: the serve loop then disconnects.
PushDialogFilterRecovery(p) ==
    LET c == p.conn
        r == recovery[c]
    IN  /\ p \in pushes /\ p.at = "write"
        /\ ServeAt(c) \notin {"reset", "setOwner"}
        /\ \/ /\ link[c].owner = User /\ link[c].session = p.session
              /\ r.owner = User /\ r.session = p.session /\ r.initialized
              /\ r.inFlight /\ r.claim = p.claim
              /\ link' = [link EXCEPT ![c].owes = TRUE]
           \/ link' = [link EXCEPT ![c].open = FALSE]
           \/ UNCHANGED link
        /\ pushes' = (pushes \ {p}) \cup {[p EXCEPT !.at = "finish"]}
        /\ UNCHANGED <<folderVars, clock, binding, recovery, serving, ring, queue, sweep, listener, applied, folderTasks>>

FinishDialogFilterRecoveryAttempt(p) ==
    LET c == p.conn
        mine == recovery[c].owner = User /\ recovery[c].session = p.session
                  /\ recovery[c].inFlight /\ recovery[c].claim = p.claim
        r == IF mine THEN [recovery[c] EXCEPT !.inFlight = FALSE, !.claim = 0] ELSE recovery[c]
    IN  /\ p \in pushes /\ p.at = "finish"
        /\ recovery' = [recovery EXCEPT ![c] = r]
        /\ enqueueIfPending(c, r, User, p.session)
        /\ pushes' = pushes \ {p}
        /\ UNCHANGED <<folderVars, clock, link, binding, serving, ring, sweep, listener, applied, folderTasks>>

----
ServeFolders(c) ==
    \/ \E s \in folderTasks.sessions, kind \in {"fetch", "difference", "mutate"} : setSession(c, s, kind)
    \/ resetDialogFilterRecoveryLocked(c)
    \/ loadClock(c)
    \/ EnsureBinding(c)
    \/ Capture(c)
    \/ seedFolders(c)
    \/ readDialogFilters(c)
    \/ handleGetDifferenceForConn(c)
    \/ handleUpdateDialogFilter(c)
    \/ RequesterRepair(c)
    \/ SendResult(c)
    \/ afterReply(c)
    \/ bindOwner(c)
    \/ registryAdd(c)
    \/ endServe(c)
    \/ registryRemove(c)

FolderSyncNext ==
    \/ \E c \in FolderConns : ServeFolders(c) \/ markConn(c) \/ recoverDialogFilters(c)
    \/ otherReplica
    \/ OwnerInvalidation
    \/ Conns
    \/ marksDone
    \/ listenerLost
    \/ connectAndListen
    \/ ListenerReconnected
    \/ tick
    \/ \E p \in pushes : PushDialogFilterRecovery(p) \/ FinishDialogFilterRecoveryAttempt(p)

\* A scene starts with new sockets, or with connections that have had their first
\* difference and have fetched the folders since.
FolderSyncInit(scenes) ==
    \E scene \in scenes :
        LET known == Range(scene.known)
        IN  /\ FoldersInit(known # {})
            /\ folderTasks = scene.tasks
            /\ clock = Zero
            /\ link = [c \in FolderConns |->
                          [open |-> c \in scene.sockets \cup known, owner |-> IF c \in known THEN User ELSE 0,
                           session |-> 0, seen |-> 0, owes |-> FALSE, claims |-> 0]]
            /\ binding = [c \in FolderConns |-> [owner |-> link[c].owner, session |-> 0]]
            /\ recovery = [c \in FolderConns |->
                              [fresh(link[c].owner, 0) EXCEPT !.initialized = c \in known,
                                    !.firstDifference = c \notin known, !.pushEligible = c \in known]]
            /\ serving = [c \in FolderConns |-> [at |-> IF link[c].open THEN "idle" ELSE "gone"]]
            /\ ring = [conns |-> scene.known, cursor |-> 0]
            /\ queue = << >>
            /\ sweep = [epoch |-> 0, remaining |-> 0, todo |-> << >>]
            /\ pushes = {}
            /\ listener = Waiting
            /\ applied = 0

----
(* What the devices may rely on. *)

Informed(c) ==
    \/ link[c].seen >= applied
    \/ Uncovered(recovery[c], clock.epoch)
    \/ recovery[c].firstDifference
    \/ link[c].owes

Scheduled(c) ==
    DialogFilterRecoveryAttemptPending(recovery[c], link[c].owner, link[c].session, clock.epoch) =>
        \/ c \in Range(queue) \cup Range(sweep.todo)
        \/ \E p \in pushes : p.conn = c
        \/ clock.epoch # sweep.epoch
        \/ \E i \in 0..(Min({sweep.remaining, Len(ring.conns)}) - 1) :
              c = ring.conns[1 + ((ring.cursor + i) % Len(ring.conns))]

\* The folders of an account are whole and none of its devices is left with
\* old ones. The stored order agrees with the folders. Once a change's
\* notification has marked the connections, or a reconnected listener has made
\* up for it, each registered connection between two requests that has not
\* fetched that change still has a mark its next difference will report, still
\* has the signal of a new binding, or has been told to fetch. And while such
\* a mark has attempts left its nudge is not lost: the connection is in the
\* queue, among the candidates of the sweep, in a push, or one that the scan
\* under way has still to come to, whoever has left the ring since it began.
\* This is the rule that a fetch covers only what was captured before its
\* read, the reset of a new binding, and the requeueing after every refusal
\* and the correction of the registry's cursor.
FoldersAreCurrent ==
    /\ FolderTablesAgree
    /\ \A c \in Range(ring.conns) : ServeAt(c) = "idle" => Informed(c) /\ Scheduled(c)
====
