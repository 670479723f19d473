------------------------ MODULE NotifySchedulerProofs ------------------------
(***************************************************************************)
(* Proofs about the notification scheduler, for any number of workers,     *)
(* keys and notifications and any limits.                                  *)
(*                                                                         *)
(* The inductive invariant is the ownership discipline of a lane: a lane   *)
(* of the table has exactly one token, which is in the channel ready, or   *)
(* with a worker between its receive and its requeue, and the flags        *)
(* lane.queued and lane.running say which.                                 *)
(***************************************************************************)
EXTENDS NotifyScheduler, FiniteSetTheorems, SequenceTheorems, TLAPS

USE SMTT(30), ZenonT(30), SMTT(60)

Active(w) == wpc[w] \in {"next", "run", "send"}

\* A lane is in the table exactly while it is queued or running, never both,
\* and a queued lane has a callback to run.
FlagsInv ==
    /\ \A k \in Keys : k \in lanes <=> queued[k] \/ running[k]
    /\ \A k \in Keys : ~(queued[k] /\ running[k])
    /\ \A k \in Keys : queued[k] => pend[k] # <<>>

\* What a worker holds agrees with the flags of its lane.
WorkerInv ==
    /\ \A w \in Workers : Active(w) => wlane[w] \in Keys
    /\ \A w \in Workers : wpc[w] = "run" => running[wlane[w]]
    /\ \A w \in Workers : wpc[w] \in {"next", "send"} => queued[wlane[w]]
    /\ \A v, w \in Workers : Active(v) /\ Active(w) /\ wlane[v] = wlane[w] => v = w

\* The channel holds queued lanes, each once, and none that a worker holds.
ReadyInv ==
    /\ \A i \in 1..Len(ready) : queued[ready[i]]
    /\ \A i, j \in 1..Len(ready) : ready[i] = ready[j] => i = j
    /\ \A i \in 1..Len(ready), w \in Workers :
         wpc[w] \in {"next", "send"} => ready[i] # wlane[w]

\* Until the scheduler stops, every lane of the table has a token.
TokenInv ==
    ~stopped => \A k \in lanes :
        \/ \E i \in 1..Len(ready) : ready[i] = k
        \/ \E w \in Workers : Active(w) /\ wlane[w] = k

TableInv ==
    /\ IsFiniteSet(lanes)
    /\ Cardinality(lanes) <= QueueLimit

\* s.pending counts the callbacks the lanes hold, so that next never takes it
\* below zero; a key with no lane holds none.
Waiting == {k \in Keys : pend[k] # <<>>}

CountInv ==
    /\ \A k \in Keys : Len(pend[k]) <= LanePendingLimit
    /\ IsFiniteSet(PendingSlots)
    /\ pending = Cardinality(PendingSlots)
    /\ ~stopped => /\ Waiting \subseteq lanes
                   /\ pending <= QueueLimit + Cardinality(Waiting)

IInv == TypeOK /\ FlagsInv /\ WorkerInv /\ ReadyInv /\ TokenInv /\ TableInv /\ CountInv

-----------------------------------------------------------------------------
(* The initial states *)

\* newNotificationScheduler starts with an empty table, an empty channel and
\* idle workers.
LEMMA InitIInv == Init => IInv
<1> SUFFICES ASSUME Init PROVE IInv
  OBVIOUS
<1> USE DEF Init
<1>1. TypeOK
  <2>1. listening \in BOOLEAN /\ stopped \in BOOLEAN
    BY ZenonT(60)
  <2>2. queued \in [Keys -> BOOLEAN] /\ running \in [Keys -> BOOLEAN]
    OBVIOUS
  <2>3. lanes \in SUBSET Keys /\ pend \in [Keys -> Seq(Task)] /\ pending \in Nat
    OBVIOUS
  <2>4. /\ ready \in Seq(Keys)
        /\ wpc \in [Workers -> {"select", "next", "run", "send", "done"}]
        /\ wlane \in [Workers -> Keys \cup {NoLane}]
    OBVIOUS
  <2>5. submitted \in Nat /\ accepted \in [Keys -> Nat] /\ started \in [Keys -> Nat]
    OBVIOUS
  <2> QED BY <2>1, <2>2, <2>3, <2>4, <2>5 DEF TypeOK
<1>2. FlagsInv /\ WorkerInv /\ ReadyInv /\ TokenInv
  BY DEF FlagsInv, WorkerInv, ReadyInv, TokenInv, Active
<1>3. TableInv
  BY FS_EmptySet, QueueLimitAssumption DEF TableInv
<1>4. CountInv
  <2>1. PendingSlots = {} /\ Waiting = {}
    BY DEF PendingSlots, Waiting
  <2> QED BY <2>1, FS_EmptySet, QueueLimitAssumption, LanePendingLimitAssumption DEF CountInv
<1> QED BY <1>1, <1>2, <1>3, <1>4 DEF IInv

-----------------------------------------------------------------------------
(* Dispatching a notification *)

\* What dispatch hands to submit: a lane key and a task.
LEMMA DispatchType ==
    ASSUME TypeOK, NEW n \in Notifications
    PROVE  /\ LaneOf(n) \in Keys
           /\ [id |-> submitted + 1, coalesce |-> Coalesces(n)] \in Task
BY DEF TypeOK, Keys, Task, Coalesces

\* The invariant speaks of pend only through the lengths of the lanes.
LEMMA SameLengths ==
    ASSUME IInv, pend' \in [Keys -> Seq(Task)],
           \A k \in Keys : Len(pend'[k]) = Len(pend[k]),
           UNCHANGED <<lanes, queued, running, pending, stopped>>
    PROVE  FlagsInv' /\ TableInv' /\ CountInv'
<1>1. \A k \in Keys : pend'[k] = <<>> <=> pend[k] = <<>>
  <2> TAKE k \in Keys
  <2>1. pend[k] \in Seq(Task) /\ pend'[k] \in Seq(Task)
    BY DEF IInv, TypeOK
  <2> QED BY <2>1, EmptySeq
<1>2. PendingSlots' = PendingSlots
  BY DEF PendingSlots
<1>3. Waiting' = Waiting
  BY <1>1 DEF Waiting
<1>4. FlagsInv'
  BY <1>1 DEF IInv, FlagsInv
<1> QED BY <1>2, <1>3, <1>4 DEF IInv, TableInv, CountInv

\* A submission that is refused leaves the lanes alone.
LEMMA DropStep ==
    ASSUME IInv, NEW n \in Notifications, dispatch(n),
           NEW k, NEW t, SubmitDrop(k, t)
    PROVE  IInv'
<1> USE DEF SubmitDrop, dispatch, lockVars
<1>1. TypeOK'
  BY DEF IInv, TypeOK
<1>2. FlagsInv' /\ WorkerInv' /\ ReadyInv' /\ TokenInv'
  BY DEF IInv, FlagsInv, WorkerInv, ReadyInv, TokenInv, Active
<1>3. TableInv' /\ CountInv'
  BY DEF IInv, TableInv, CountInv, PendingSlots, Waiting
<1> QED BY <1>1, <1>2, <1>3 DEF IInv

\* Replacing the task at the tail of a lane leaves every length alone.
LEMMA ReplaceStep ==
    ASSUME IInv, NEW n \in Notifications, dispatch(n),
           NEW k \in Keys, NEW t \in Task, SubmitReplace(k, t)
    PROVE  IInv'
<1>0. /\ pend' = [pend EXCEPT ![k] = [pend[k] EXCEPT ![Len(pend[k])] = t]]
      /\ accepted' = [accepted EXCEPT ![k] = t.id]
      /\ pend[k] # <<>>
      /\ submitted' = submitted + 1
      /\ UNCHANGED <<lanes, queued, running, pending, ready, listening, stopped, wpc, wlane, started>>
  BY DEF SubmitReplace, Replaceable, dispatch
<1>1. pend[k] \in Seq(Task) /\ Len(pend[k]) \in 1..Len(pend[k])
  BY <1>0, EmptySeq DEF IInv, TypeOK
<1>2. /\ [pend[k] EXCEPT ![Len(pend[k])] = t] \in Seq(Task)
      /\ Len([pend[k] EXCEPT ![Len(pend[k])] = t]) = Len(pend[k])
  BY <1>1, ExceptSeq
<1>3. pend' \in [Keys -> Seq(Task)] /\ \A j \in Keys : Len(pend'[j]) = Len(pend[j])
  BY <1>0, <1>2 DEF IInv, TypeOK
<1>4. TypeOK'
  BY <1>0, <1>3 DEF IInv, TypeOK, Task
<1>5. FlagsInv' /\ TableInv' /\ CountInv'
  BY <1>0, <1>3, SameLengths
<1>6. WorkerInv' /\ ReadyInv' /\ TokenInv'
  BY <1>0 DEF IInv, WorkerInv, ReadyInv, TokenInv, Active
<1> QED BY <1>4, <1>5, <1>6 DEF IInv

\* Appending one callback adds one slot.
LEMMA AppendCount ==
    ASSUME IInv, NEW k \in Keys, NEW t \in Task, Len(pend[k]) < LanePendingLimit,
           pend' = [pend EXCEPT ![k] = Append(@, t)]
    PROVE  /\ pend' \in [Keys -> Seq(Task)]
           /\ pend'[k] # <<>>
           /\ \A j \in Keys : Len(pend'[j]) <= LanePendingLimit
           /\ IsFiniteSet(PendingSlots')
           /\ Cardinality(PendingSlots') = pending + 1
<1>1. pend \in [Keys -> Seq(Task)] /\ pend[k] \in Seq(Task) /\ Len(pend[k]) \in Nat
  BY LenProperties DEF IInv, TypeOK
<1>2. /\ Append(pend[k], t) \in Seq(Task)
      /\ Append(pend[k], t) # <<>>
      /\ Len(Append(pend[k], t)) = Len(pend[k]) + 1
  BY <1>1, AppendProperties
<1>3. pend' \in [Keys -> Seq(Task)] /\ pend'[k] # <<>>
  BY <1>1, <1>2
<1>4. /\ Len(pend'[k]) = Len(pend[k]) + 1
      /\ \A j \in Keys : j # k => Len(pend'[j]) = Len(pend[j])
  BY <1>1, <1>2
<1>5. \A j \in Keys : Len(pend'[j]) <= LanePendingLimit
  BY <1>1, <1>4, LanePendingLimitAssumption DEF IInv, CountInv
<1>6. \A j \in Keys : Len(pend[j]) \in Nat
  BY <1>1, LenProperties
<1> DEFINE new == <<k, Len(pend[k]) + 1>>
<1>7. PendingSlots' = PendingSlots \cup {new}
  <2>1. \A j \in Keys, i \in 1..LanePendingLimit :
          i <= Len(pend'[j]) <=> i <= Len(pend[j]) \/ <<j, i>> = new
    BY <1>1, <1>4, <1>6, LanePendingLimitAssumption
  <2>2. Len(pend[k]) + 1 \in 1..LanePendingLimit
    BY <1>1, LanePendingLimitAssumption
  <2> QED BY <2>1, <2>2 DEF PendingSlots
<1>8. new \notin PendingSlots
  BY <1>1 DEF PendingSlots
<1>9. IsFiniteSet(PendingSlots) /\ pending = Cardinality(PendingSlots)
  BY DEF IInv, CountInv
<1>10. IsFiniteSet(PendingSlots \cup {new}) /\ Cardinality(PendingSlots \cup {new}) = pending + 1
  BY <1>8, <1>9, FS_AddElement
<1> QED BY <1>3, <1>5, <1>7, <1>10

\* Appending to a lane puts the lane into the table and its token into the
\* channel when it was in neither, and only lengthens it otherwise.
LEMMA AppendStep ==
    ASSUME IInv, NEW n \in Notifications, dispatch(n),
           NEW k \in Keys, NEW t \in Task, SubmitAppend(k, t)
    PROVE  IInv'
<1> DEFINE busy == queued[k] \/ running[k]
           room == Len(ready) < QueueLimit
<1>0. /\ ~Refused(k, t) /\ ~Replaceable(k, t)
      /\ ~stopped /\ ~stopped'
      /\ submitted' = submitted + 1
      /\ UNCHANGED <<running, listening, stopped, wpc, wlane, started>>
  BY DEF SubmitAppend, dispatch, Refused
<1>1. /\ Len(pend[k]) < LanePendingLimit
      /\ k \notin lanes => Cardinality(lanes) < QueueLimit
      /\ k \in lanes => pending < QueueLimit
  <2>1. Len(pend[k]) \in Nat /\ pending \in Nat
    BY LenProperties DEF IInv, TypeOK
  <2>2. k \notin lanes => Cardinality(lanes) \in Nat
    BY FS_CardinalityType DEF IInv, TableInv
  <2> QED BY <1>0, <2>1, <2>2, QueueLimitAssumption, LanePendingLimitAssumption DEF Refused
<1>2. k \in lanes <=> busy
  BY DEF IInv, FlagsInv
<1>3. CASE ~busy /\ ~room
  <2>1. UNCHANGED <<lanes, pend, pending, ready, accepted>> /\ queued' = queued
    BY <1>2, <1>3 DEF SubmitAppend, IInv, TypeOK
  <2>2. TypeOK'
    BY <1>0, <2>1 DEF IInv, TypeOK
  <2>3. FlagsInv' /\ WorkerInv' /\ ReadyInv' /\ TokenInv'
    BY <1>0, <2>1 DEF IInv, FlagsInv, WorkerInv, ReadyInv, TokenInv, Active
  <2>4. TableInv' /\ CountInv'
    BY <1>0, <2>1 DEF IInv, TableInv, CountInv, PendingSlots, Waiting
  <2> QED BY <2>2, <2>3, <2>4 DEF IInv
<1>4. CASE busy \/ room
  <2>1. /\ lanes' = lanes \cup {k}
        /\ pend' = [pend EXCEPT ![k] = Append(@, t)]
        /\ pending' = pending + 1
        /\ accepted' = [accepted EXCEPT ![k] = t.id]
        /\ queued' = IF ~busy THEN [queued EXCEPT ![k] = TRUE] ELSE queued
        /\ ready' = IF ~busy THEN Append(ready, k) ELSE ready
    BY ZenonT(60), <1>4 DEF SubmitAppend
  <2>2. /\ pend' \in [Keys -> Seq(Task)]
        /\ pend'[k] # <<>>
        /\ \A j \in Keys : Len(pend'[j]) <= LanePendingLimit
        /\ IsFiniteSet(PendingSlots')
        /\ Cardinality(PendingSlots') = pending + 1
    BY ZenonT(60), <1>1, <2>1, AppendCount
  <2>3. \A j \in Keys : j # k => pend'[j] = pend[j]
    BY <2>1 DEF IInv, TypeOK
  <2>4. /\ queued' \in [Keys -> BOOLEAN]
        /\ busy => queued' = queued
        /\ ~busy => queued'[k]
        /\ \A j \in Keys : j # k => queued'[j] = queued[j]
    <3>0. queued \in [Keys -> BOOLEAN]
      BY DEF IInv, TypeOK
    <3>1. CASE busy
      <4>1. queued' = queued
        BY <2>1, <3>1
      <4> QED BY <3>0, <3>1, <4>1
    <3>2. CASE ~busy
      <4>1. queued' = [queued EXCEPT ![k] = TRUE]
        BY <2>1, <3>2
      <4> QED BY <3>0, <3>2, <4>1
    <3> QED BY <3>1, <3>2
  <2>5. ready \in Seq(Keys) /\ ready' \in Seq(Keys)
    BY <2>1, AppendProperties DEF IInv, TypeOK
  <2>6. TypeOK'
    <3>1. pending' \in Nat /\ submitted' \in Nat /\ accepted' \in [Keys -> Nat]
      BY <1>0, <2>1 DEF IInv, TypeOK, Task
    <3>2. lanes' \in SUBSET Keys
      BY <2>1 DEF IInv, TypeOK
    <3> QED BY <1>0, <2>2, <2>4, <2>5, <3>1, <3>2 DEF IInv, TypeOK
  <2>7. FlagsInv'
    <3>1. \A j \in Keys : j \in lanes' <=> queued'[j] \/ running'[j]
      BY <1>0, <1>2, <2>1, <2>4 DEF IInv, FlagsInv
    <3>2. \A j \in Keys : ~(queued'[j] /\ running'[j])
      <4> TAKE j \in Keys
      <4>1. CASE j # k
        BY <1>0, <2>4, <4>1 DEF IInv, FlagsInv
      <4>2. CASE j = k
        BY <1>0, <2>1, <2>4, <4>2 DEF IInv, FlagsInv
      <4> QED BY <4>1, <4>2
    <3>3. \A j \in Keys : queued'[j] => pend'[j] # <<>>
      BY <2>2, <2>3, <2>4 DEF IInv, FlagsInv
    <3> QED BY <3>1, <3>2, <3>3 DEF FlagsInv
  <2>8. WorkerInv'
    BY <1>0, <2>1, <2>4 DEF IInv, WorkerInv, Active
  <2>9. ReadyInv' /\ TokenInv'
    <3>1. CASE busy
      <4>1. ready' = ready /\ queued' = queued /\ lanes' = lanes
        BY <1>2, <2>1, <3>1
      <4> QED BY <1>0, <4>1 DEF IInv, ReadyInv, TokenInv, Active
    <3>2. CASE ~busy
      <4>1. /\ Len(ready') = Len(ready) + 1
            /\ Len(ready) \in Nat
            /\ ready'[Len(ready) + 1] = k
            /\ \A i \in 1..Len(ready) : ready'[i] = ready[i]
        BY <2>1, <2>5, <3>2, AppendProperties, LenProperties
      <4>2. \A i \in 1..Len(ready) : ready[i] \in Keys /\ queued[ready[i]] /\ ready[i] # k
        BY <2>5, <3>2, ElementOfSeq DEF IInv, ReadyInv
      <4>3. \A i \in 1..Len(ready') : i \in 1..Len(ready) \/ i = Len(ready) + 1
        BY <4>1
      <4>4. \A w \in Workers : wpc[w] \in {"next", "send"} => wlane[w] # k
        BY <3>2 DEF IInv, WorkerInv
      <4>5. \A i \in 1..Len(ready') : queued'[ready'[i]]
        BY <2>4, <3>2, <4>1, <4>2, <4>3
      <4>6. \A i, j \in 1..Len(ready') : ready'[i] = ready'[j] => i = j
        BY <4>1, <4>2, <4>3 DEF IInv, ReadyInv
      <4>7. \A i \in 1..Len(ready'), w \in Workers :
              wpc'[w] \in {"next", "send"} => ready'[i] # wlane'[w]
        BY <1>0, <4>1, <4>3, <4>4 DEF IInv, ReadyInv
      <4>8. TokenInv'
        <5> SUFFICES ASSUME NEW j \in lanes'
                     PROVE  \/ \E i \in 1..Len(ready') : ready'[i] = j
                            \/ \E w \in Workers : Active(w)' /\ wlane'[w] = j
          BY DEF TokenInv
        <5>1. CASE j = k
          BY <4>1, <5>1
        <5>2. CASE j # k
          <6>1. j \in lanes
            BY <2>1, <5>2
          <6>2. \/ \E i \in 1..Len(ready) : ready[i] = j
                \/ \E w \in Workers : Active(w) /\ wlane[w] = j
            BY <1>0, <6>1 DEF IInv, TokenInv
          <6>3. 1..Len(ready) \subseteq 1..Len(ready')
            BY <4>1
          <6> QED BY <1>0, <4>1, <6>2, <6>3 DEF Active
        <5> QED BY <5>1, <5>2
      <4> QED BY <4>5, <4>6, <4>7, <4>8 DEF ReadyInv
    <3> QED BY <3>1, <3>2
  <2>10. TableInv'
    <3>1. /\ IsFiniteSet(lanes \cup {k})
          /\ Cardinality(lanes \cup {k}) = IF k \in lanes THEN Cardinality(lanes) ELSE Cardinality(lanes) + 1
          /\ Cardinality(lanes) \in Nat
      BY FS_AddElement, FS_CardinalityType DEF IInv, TableInv
    <3> QED BY <1>1, <2>1, <3>1, QueueLimitAssumption DEF IInv, TableInv
  <2>11. CountInv'
    <3>1. Waiting \subseteq lanes /\ pending <= QueueLimit + Cardinality(Waiting)
      BY <1>0 DEF IInv, CountInv
    <3>2. Waiting' = Waiting \cup {k}
      BY <2>2, <2>3 DEF Waiting
    <3>3. Waiting' \subseteq lanes'
      BY <2>1, <3>1, <3>2
    <3>4. IsFiniteSet(Waiting)
      BY <3>1, FS_Subset DEF IInv, TableInv
    <3>5. /\ Cardinality(Waiting) \in Nat
          /\ Cardinality(Waiting') = IF k \in Waiting THEN Cardinality(Waiting) ELSE Cardinality(Waiting) + 1
      BY <3>2, <3>4, FS_AddElement, FS_CardinalityType
    <3>6. pending + 1 <= QueueLimit + Cardinality(Waiting')
      <4>1. CASE k \in lanes
        BY <1>1, <3>5, <4>1, QueueLimitAssumption DEF IInv, TypeOK
      <4>2. CASE k \notin lanes
        BY <3>1, <3>5, <4>2, QueueLimitAssumption DEF IInv, TypeOK
      <4> QED BY <4>1, <4>2
    <3> QED BY <2>1, <2>2, <3>3, <3>6 DEF CountInv
  <2> QED BY <2>6, <2>7, <2>8, <2>9, <2>10, <2>11 DEF IInv
<1> QED BY <1>3, <1>4

-----------------------------------------------------------------------------
(* The listener's connection, and a worker's steps *)

\* Losing and regaining the LISTEN connection, and stop, do not touch the
\* lanes.
LEMMA ListenerStep ==
    ASSUME IInv, ConnectionLost \/ Reconnect \/ Stop
    PROVE  IInv'
<1>1. /\ UNCHANGED <<lockVars, ready, wpc, wlane, submitted, accepted, started>>
      /\ listening' \in BOOLEAN
      /\ stopped' \in BOOLEAN
      /\ ~stopped' => ~stopped
  BY ZenonT(60) DEF ConnectionLost, Reconnect, Stop, IInv, TypeOK
<1>2. TypeOK'
  BY <1>1 DEF IInv, TypeOK, lockVars
<1>3. FlagsInv' /\ WorkerInv' /\ ReadyInv' /\ TokenInv'
  BY <1>1 DEF IInv, FlagsInv, WorkerInv, ReadyInv, TokenInv, Active, lockVars
<1>4. TableInv' /\ CountInv'
  BY <1>1 DEF IInv, TableInv, CountInv, PendingSlots, Waiting, lockVars
<1> QED BY <1>2, <1>3, <1>4 DEF IInv

\* A receive moves the token of a lane from the channel to one worker.
LEMMA ReceiveStep ==
    ASSUME IInv, NEW w \in Workers, Receive(w)
    PROVE  IInv'
<1> DEFINE k == Head(ready)
<1>0. /\ wpc[w] = "select" /\ ready # <<>>
      /\ wlane' = [wlane EXCEPT ![w] = k]
      /\ ready' = Tail(ready)
      /\ wpc' = [wpc EXCEPT ![w] = "next"]
      /\ UNCHANGED <<listening, stopped, lanes, queued, running, pend, pending, submitted, accepted, started>>
  BY DEF Receive, lockVars
<1>1. /\ ready \in Seq(Keys) /\ Len(ready) \in Nat /\ Len(ready) > 0
      /\ wpc \in [Workers -> {"select", "next", "run", "send", "done"}]
      /\ wlane \in [Workers -> Keys \cup {NoLane}]
  BY <1>0, EmptySeq DEF IInv, TypeOK
<1>2. /\ k \in Keys /\ k = ready[1] /\ ready' \in Seq(Keys)
      /\ Len(ready') = Len(ready) - 1
      /\ \A i \in 1..Len(ready') : ready'[i] = ready[i + 1]
  BY <1>0, <1>1, HeadTailProperties
<1>3. queued[k]
  BY <1>1, <1>2 DEF IInv, ReadyInv
<1>4. \A i \in 1..Len(ready') : i + 1 \in 1..Len(ready) /\ ready'[i] # k
  BY <1>1, <1>2 DEF IInv, ReadyInv
<1>5. \A v \in Workers : Active(v) => wlane[v] # k
  <2> SUFFICES ASSUME NEW v \in Workers, Active(v), wlane[v] = k PROVE FALSE
    OBVIOUS
  <2>1. CASE wpc[v] = "run"
    BY <1>2, <1>3, <2>1 DEF IInv, WorkerInv, FlagsInv
  <2>2. CASE wpc[v] \in {"next", "send"}
    BY <1>1, <1>2, <2>2 DEF IInv, ReadyInv
  <2> QED BY <2>1, <2>2 DEF Active
<1>6. /\ wpc'[w] = "next" /\ wlane'[w] = k
      /\ \A v \in Workers : v # w => wpc'[v] = wpc[v] /\ wlane'[v] = wlane[v]
  BY <1>0, <1>1
<1>7. TypeOK'
  BY <1>0, <1>1, <1>2 DEF IInv, TypeOK
<1>8. FlagsInv' /\ TableInv' /\ CountInv'
  BY <1>0 DEF IInv, FlagsInv, TableInv, CountInv, PendingSlots, Waiting
<1>9. WorkerInv'
  BY <1>0, <1>2, <1>3, <1>5, <1>6 DEF IInv, WorkerInv, Active
<1>10. ReadyInv'
  <2>1. \A i \in 1..Len(ready') : queued'[ready'[i]]
    BY <1>0, <1>2, <1>4 DEF IInv, ReadyInv
  <2>2. \A i, j \in 1..Len(ready') : ready'[i] = ready'[j] => i = j
    <3> TAKE i, j \in 1..Len(ready')
    <3>1. ready[i + 1] = ready[j + 1] => i + 1 = j + 1
      BY <1>4 DEF IInv, ReadyInv
    <3> QED BY <1>2, <3>1
  <2>3. \A i \in 1..Len(ready'), v \in Workers :
          wpc'[v] \in {"next", "send"} => ready'[i] # wlane'[v]
    BY <1>2, <1>4, <1>6 DEF IInv, ReadyInv
  <2> QED BY <2>1, <2>2, <2>3 DEF ReadyInv
<1>11. TokenInv'
  <2> SUFFICES ASSUME ~stopped, NEW j \in lanes
               PROVE  \/ \E i \in 1..Len(ready') : ready'[i] = j
                      \/ \E v \in Workers : Active(v)' /\ wlane'[v] = j
    BY <1>0 DEF TokenInv
  <2>1. CASE j = k
    BY <1>6, <2>1 DEF Active
  <2>2. CASE \E i \in 1..Len(ready) : ready[i] = j /\ j # k
    <3> PICK i \in 1..Len(ready) : ready[i] = j /\ j # k
      BY <2>2
    <3>1. i # 1
      BY <1>2
    <3>2. i - 1 \in 1..Len(ready') /\ ready'[i - 1] = j
      BY <1>1, <1>2, <3>1
    <3> QED BY <3>2
  <2>3. CASE \E v \in Workers : Active(v) /\ wlane[v] = j
    <3> PICK v \in Workers : Active(v) /\ wlane[v] = j
      BY <2>3
    <3>1. v # w
      BY <1>0 DEF Active
    <3> QED BY <1>6, <3>1 DEF Active
  <2> QED BY <2>1, <2>2, <2>3 DEF IInv, TokenInv
<1> QED BY <1>7, <1>8, <1>9, <1>10, <1>11 DEF IInv

\* A worker with no lane to hold leaves every flag, count and token alone.
LEMMA ExitStep ==
    ASSUME IInv, NEW w \in Workers, Exit(w)
    PROVE  IInv'
<1>0. /\ wpc[w] = "select" /\ stopped
      /\ wpc' = [wpc EXCEPT ![w] = "done"]
      /\ UNCHANGED <<listening, stopped, lanes, queued, running, pend, pending, ready, wlane, submitted, accepted, started>>
  BY DEF Exit, lockVars
<1>1. TypeOK'
  BY <1>0 DEF IInv, TypeOK
<1>2. \A v \in Workers : v # w => wpc'[v] = wpc[v]
  BY <1>0 DEF IInv, TypeOK
<1>3. wpc'[w] = "done"
  BY <1>0 DEF IInv, TypeOK
<1>4. WorkerInv' /\ ReadyInv' /\ TokenInv'
  BY <1>0, <1>2, <1>3 DEF IInv, WorkerInv, ReadyInv, TokenInv, Active
<1>5. FlagsInv' /\ TableInv' /\ CountInv'
  BY <1>0 DEF IInv, FlagsInv, TableInv, CountInv, PendingSlots, Waiting
<1> QED BY <1>1, <1>4, <1>5 DEF IInv

\* The arithmetic of a channel that lost its last position.
LEMMA BelowByOne ==
    ASSUME NEW i \in Nat, NEW m \in Nat \ {0}, NEW n, n = m - 1
    PROVE  i <= n <=> i <= m /\ i # m
OBVIOUS

\* Taking the oldest callback of a lane frees one slot.
LEMMA TakeCount ==
    ASSUME IInv, NEW k \in Keys, pend[k] # <<>>,
           pend' = [pend EXCEPT ![k] = Tail(@)]
    PROVE  /\ pend' \in [Keys -> Seq(Task)]
           /\ Head(pend[k]) \in Task
           /\ \A j \in Keys : Len(pend'[j]) <= LanePendingLimit
           /\ IsFiniteSet(PendingSlots')
           /\ pending > 0
           /\ Cardinality(PendingSlots') = pending - 1
<1>1. pend \in [Keys -> Seq(Task)] /\ pend[k] \in Seq(Task) /\ Len(pend[k]) \in Nat \ {0}
  BY EmptySeq DEF IInv, TypeOK
<1>2. Head(pend[k]) \in Task /\ Tail(pend[k]) \in Seq(Task) /\ Len(Tail(pend[k])) = Len(pend[k]) - 1
  BY <1>1, HeadTailProperties
<1>3. pend' \in [Keys -> Seq(Task)]
  BY <1>1, <1>2
<1>4. /\ Len(pend'[k]) = Len(pend[k]) - 1
      /\ \A j \in Keys : j # k => Len(pend'[j]) = Len(pend[j])
  BY <1>1, <1>2
<1>5. \A j \in Keys : Len(pend'[j]) <= LanePendingLimit
  BY <1>1, <1>4, LanePendingLimitAssumption DEF IInv, CountInv
<1>6. \A j \in Keys : Len(pend[j]) \in Nat
  BY <1>1, LenProperties
<1> DEFINE old == <<k, Len(pend[k])>>
<1>7. PendingSlots' = PendingSlots \ {old}
  <2>1. \A j \in Keys, i \in 1..LanePendingLimit :
          i <= Len(pend'[j]) <=> i <= Len(pend[j]) /\ <<j, i>> # old
    <3> TAKE j \in Keys, i \in 1..LanePendingLimit
    <3>1. CASE j = k
      <4>1. <<j, i>> # old <=> i # Len(pend[k])
        BY <3>1
      <4>2. i \in Nat
        BY LanePendingLimitAssumption
      <4>3. i <= Len(pend'[k]) <=> i <= Len(pend[k]) /\ i # Len(pend[k])
        BY ZenonT(60), <1>1, <1>4, <4>2, BelowByOne
      <4> QED BY <3>1, <4>1, <4>3
    <3>2. CASE j # k
      BY <1>4, <3>2
    <3> QED BY <3>1, <3>2
  <2> QED BY <2>1 DEF PendingSlots
<1>8. old \in PendingSlots
  BY <1>1, LanePendingLimitAssumption DEF IInv, CountInv, PendingSlots
<1>9. IsFiniteSet(PendingSlots) /\ pending = Cardinality(PendingSlots)
  BY DEF IInv, CountInv
<1>10. IsFiniteSet(PendingSlots \ {old}) /\ Cardinality(PendingSlots \ {old}) = pending - 1
  BY ZenonT(60), <1>8, <1>9, FS_RemoveElement
<1>11. pending \in Nat /\ pending # 0
  BY <1>8, <1>9, FS_EmptySet DEF IInv, TypeOK
<1> QED BY <1>2, <1>3, <1>5, <1>7, <1>10, <1>11

\* next takes the head of a lane, and the token becomes a running callback.
LEMMA NextStep ==
    ASSUME IInv, NEW w \in Workers, next(w)
    PROVE  IInv'
<1> DEFINE k == wlane[w]
<1>0. wpc[w] = "next" /\ UNCHANGED <<listening, stopped, ready, submitted, accepted>>
  BY DEF next
<1>1. /\ k \in Keys /\ queued[k] /\ pend[k] # <<>> /\ ~running[k]
      /\ wpc \in [Workers -> {"select", "next", "run", "send", "done"}]
      /\ wlane \in [Workers -> Keys \cup {NoLane}]
  BY <1>0 DEF IInv, TypeOK, WorkerInv, FlagsInv, Active
<1>2. CASE stopped
  <2>1. /\ wpc' = [wpc EXCEPT ![w] = "select"]
        /\ wlane' = [wlane EXCEPT ![w] = NoLane]
        /\ UNCHANGED <<lanes, queued, running, pend, pending, started>>
    BY <1>2 DEF next, lockVars
  <2>2. /\ wpc'[w] = "select"
        /\ \A v \in Workers : v # w => wpc'[v] = wpc[v] /\ wlane'[v] = wlane[v]
    BY <1>1, <2>1
  <2>3. TypeOK'
    BY <1>0, <1>1, <2>1 DEF IInv, TypeOK
  <2>4. WorkerInv' /\ ReadyInv' /\ TokenInv'
    BY <1>0, <1>2, <2>1, <2>2 DEF IInv, WorkerInv, ReadyInv, TokenInv, Active
  <2>5. FlagsInv' /\ TableInv' /\ CountInv'
    BY <1>0, <2>1 DEF IInv, FlagsInv, TableInv, CountInv, PendingSlots, Waiting
  <2> QED BY <2>3, <2>4, <2>5 DEF IInv
<1>3. CASE ~stopped
  <2>1. /\ pend' = [pend EXCEPT ![k] = Tail(@)]
        /\ queued' = [queued EXCEPT ![k] = FALSE]
        /\ running' = [running EXCEPT ![k] = TRUE]
        /\ pending' = pending - 1
        /\ wpc' = [wpc EXCEPT ![w] = "run"]
        /\ started' = [started EXCEPT ![k] = Head(pend[k]).id]
        /\ UNCHANGED <<lanes, wlane>>
    BY <1>1, <1>3 DEF next
  <2>2. /\ pend' \in [Keys -> Seq(Task)]
        /\ Head(pend[k]) \in Task
        /\ \A j \in Keys : Len(pend'[j]) <= LanePendingLimit
        /\ IsFiniteSet(PendingSlots')
        /\ pending > 0
        /\ Cardinality(PendingSlots') = pending - 1
    BY ZenonT(60), <1>1, <2>1, TakeCount
  <2>3. queued \in [Keys -> BOOLEAN] /\ running \in [Keys -> BOOLEAN]
    BY DEF IInv, TypeOK
  <2>4. /\ queued' \in [Keys -> BOOLEAN] /\ running' \in [Keys -> BOOLEAN]
        /\ ~queued'[k] /\ running'[k]
        /\ \A j \in Keys : j # k => queued'[j] = queued[j] /\ running'[j] = running[j]
    BY <1>1, <2>1, <2>3
  <2>5. \A j \in Keys : j # k => pend'[j] = pend[j]
    BY <2>1 DEF IInv, TypeOK
  <2>6. /\ wpc' \in [Workers -> {"select", "next", "run", "send", "done"}]
        /\ wpc'[w] = "run" /\ \A v \in Workers : v # w => wpc'[v] = wpc[v]
    BY <1>1, <2>1
  <2>7. TypeOK'
    <3>1. pending' \in Nat /\ started' \in [Keys -> Nat]
      BY <2>1, <2>2 DEF IInv, TypeOK, Task
    <3> QED BY <1>0, <2>1, <2>2, <2>4, <2>6, <3>1 DEF IInv, TypeOK
  <2>8. FlagsInv'
    <3>1. \A j \in Keys : j \in lanes' <=> queued'[j] \/ running'[j]
      BY <1>1, <2>1, <2>4 DEF IInv, FlagsInv
    <3>2. \A j \in Keys : ~(queued'[j] /\ running'[j])
      BY <2>4 DEF IInv, FlagsInv
    <3>3. \A j \in Keys : queued'[j] => pend'[j] # <<>>
      BY <2>4, <2>5 DEF IInv, FlagsInv
    <3> QED BY <3>1, <3>2, <3>3 DEF FlagsInv
  <2>9. \A v \in Workers : v # w /\ Active(v) => wlane[v] # k
    BY <1>0 DEF IInv, WorkerInv, Active
  <2>10. WorkerInv'
    <3>1. \A v \in Workers : Active(v)' => wlane'[v] \in Keys
      BY <1>1, <2>1, <2>6 DEF IInv, WorkerInv, Active
    <3>2. \A v \in Workers : wpc'[v] = "run" => running'[wlane'[v]]
      BY <1>1, <2>1, <2>4, <2>6, <2>9 DEF IInv, WorkerInv, Active
    <3>3. \A v \in Workers : wpc'[v] \in {"next", "send"} => queued'[wlane'[v]]
      BY <1>1, <2>1, <2>4, <2>6, <2>9 DEF IInv, WorkerInv, Active
    <3>4. \A v, x \in Workers : Active(v)' /\ Active(x)' /\ wlane'[v] = wlane'[x] => v = x
      BY <2>1, <2>6, <2>9 DEF IInv, WorkerInv, Active
    <3> QED BY <3>1, <3>2, <3>3, <3>4 DEF WorkerInv
  <2>11. ReadyInv'
    <3>1. \A i \in 1..Len(ready) : ready[i] \in Keys /\ ready[i] # k
      BY <1>0, ElementOfSeq DEF IInv, TypeOK, ReadyInv
    <3> QED BY <1>0, <2>1, <2>4, <2>6, <3>1 DEF IInv, ReadyInv
  <2>12. TokenInv'
    BY <1>0, <1>3, <2>1, <2>6 DEF IInv, TokenInv, Active
  <2>13. TableInv'
    BY <2>1 DEF IInv, TableInv
  <2>14. CountInv'
    <3>1. Waiting \subseteq lanes /\ pending <= QueueLimit + Cardinality(Waiting)
      BY <1>3 DEF IInv, CountInv
    <3>2. Waiting \ {k} \subseteq Waiting' /\ Waiting' \subseteq Waiting
      BY <1>1, <2>5 DEF Waiting
    <3>3. IsFiniteSet(Waiting)
      BY <3>1, FS_Subset DEF IInv, TableInv
    <3>4. IsFiniteSet(Waiting')
      BY <3>2, <3>3, FS_Subset
    <3>5. Cardinality(Waiting) \in Nat /\ Cardinality(Waiting') \in Nat
      BY <3>3, <3>4, FS_CardinalityType
    <3>6. Cardinality(Waiting \ {k}) <= Cardinality(Waiting')
      BY <3>2, <3>4, FS_Subset
    <3>7. Cardinality(Waiting \ {k}) = Cardinality(Waiting) - 1
      BY ZenonT(60), <1>1, <3>3, FS_RemoveElement DEF Waiting
    <3>8. pending - 1 <= QueueLimit + Cardinality(Waiting')
      BY <3>1, <3>5, <3>6, <3>7, QueueLimitAssumption DEF IInv, TypeOK
    <3> QED BY <2>1, <2>2, <3>1, <3>2, <3>8 DEF CountInv
  <2> QED BY <2>7, <2>8, <2>10, <2>11, <2>12, <2>13, <2>14 DEF IInv
<1> QED BY <1>2, <1>3

\* finish drops a lane from the table, or leaves its token with the worker that
\* will requeue it.
LEMMA FinishStep ==
    ASSUME IInv, NEW w \in Workers, finish(w)
    PROVE  IInv'
<1> DEFINE k == wlane[w]
           over == stopped \/ pend[k] = <<>>
<1>0. /\ wpc[w] = "run"
      /\ running' = [running EXCEPT ![k] = FALSE]
      /\ lanes' = IF over THEN lanes \ {k} ELSE lanes
      /\ queued' = IF over THEN queued ELSE [queued EXCEPT ![k] = TRUE]
      /\ wpc' = [wpc EXCEPT ![w] = IF over THEN "select" ELSE "send"]
      /\ wlane' = IF over THEN [wlane EXCEPT ![w] = NoLane] ELSE wlane
      /\ UNCHANGED <<listening, stopped, pend, pending, ready, submitted, accepted, started>>
  BY DEF finish
<1>1. /\ k \in Keys /\ running[k] /\ ~queued[k] /\ k \in lanes
      /\ wpc \in [Workers -> {"select", "next", "run", "send", "done"}]
      /\ wlane \in [Workers -> Keys \cup {NoLane}]
  BY <1>0 DEF IInv, TypeOK, WorkerInv, FlagsInv, Active
<1>2. queued \in [Keys -> BOOLEAN] /\ running \in [Keys -> BOOLEAN]
  BY DEF IInv, TypeOK
<1>3. \A v \in Workers : v # w /\ Active(v) => wlane[v] # k
  BY <1>0 DEF IInv, WorkerInv, Active
<1>4. /\ running' \in [Keys -> BOOLEAN] /\ ~running'[k]
      /\ \A j \in Keys : j # k => running'[j] = running[j]
  BY <1>0, <1>1, <1>2
<1>5. \A v \in Workers : v # w => wpc'[v] = wpc[v] /\ wlane'[v] = wlane[v]
  BY <1>0, <1>1
<1>6. \A i \in 1..Len(ready) : ready[i] \in Keys /\ queued[ready[i]] /\ ready[i] # k
  BY <1>1, ElementOfSeq DEF IInv, TypeOK, ReadyInv
<1>7. CASE over
  <2>1. lanes' = lanes \ {k} /\ queued' = queued /\ wpc'[w] = "select" /\ wpc' \in [Workers -> {"select", "next", "run", "send", "done"}]
    BY <1>0, <1>1, <1>7
  <2>2. TypeOK'
    <3>1. wlane' \in [Workers -> Keys \cup {NoLane}]
      BY <1>0, <1>1, <1>7
    <3> QED BY <1>0, <1>4, <2>1, <3>1 DEF IInv, TypeOK
  <2>3. FlagsInv'
    BY <1>0, <1>1, <1>4, <2>1 DEF IInv, FlagsInv
  <2>4. WorkerInv'
    BY <1>3, <1>4, <1>5, <2>1 DEF IInv, WorkerInv, Active
  <2>5. ReadyInv'
    BY <1>0, <1>5, <2>1 DEF IInv, ReadyInv
  <2>6. TokenInv'
    <3> SUFFICES ASSUME ~stopped, NEW j \in lanes'
                 PROVE  \/ \E i \in 1..Len(ready') : ready'[i] = j
                        \/ \E v \in Workers : Active(v)' /\ wlane'[v] = j
      BY <1>0 DEF TokenInv
    <3>1. j \in lanes /\ j # k
      BY <2>1
    <3>2. \/ \E i \in 1..Len(ready) : ready[i] = j
          \/ \E v \in Workers : v # w /\ Active(v) /\ wlane[v] = j
      BY <3>1 DEF IInv, TokenInv
    <3> QED BY <1>0, <1>5, <3>2 DEF Active
  <2>7. TableInv'
    <3>1. /\ IsFiniteSet(lanes \ {k})
          /\ Cardinality(lanes \ {k}) = Cardinality(lanes) - 1
          /\ Cardinality(lanes) \in Nat
      BY <1>1, FS_RemoveElement, FS_CardinalityType DEF IInv, TableInv
    <3> QED BY <2>1, <3>1, QueueLimitAssumption DEF IInv, TableInv
  <2>8. CountInv'
    <3>1. PendingSlots' = PendingSlots /\ Waiting' = Waiting
      BY <1>0 DEF PendingSlots, Waiting
    <3>2. ~stopped => k \notin Waiting
      BY <1>7 DEF Waiting
    <3> QED BY <1>0, <2>1, <3>1, <3>2 DEF IInv, CountInv
  <2> QED BY <2>2, <2>3, <2>4, <2>5, <2>6, <2>7, <2>8 DEF IInv
<1>8. CASE ~over
  <2>1. /\ lanes' = lanes /\ wlane' = wlane
        /\ queued' = [queued EXCEPT ![k] = TRUE]
        /\ wpc'[w] = "send"
        /\ wpc' \in [Workers -> {"select", "next", "run", "send", "done"}]
    BY ZenonT(60), <1>0, <1>1, <1>8
  <2>2. /\ queued' \in [Keys -> BOOLEAN] /\ queued'[k]
        /\ \A j \in Keys : j # k => queued'[j] = queued[j]
    BY <1>1, <1>2, <2>1
  <2>3. TypeOK'
    BY <1>0, <1>4, <2>1, <2>2 DEF IInv, TypeOK
  <2>4. FlagsInv'
    <3>1. \A j \in Keys : j \in lanes' <=> queued'[j] \/ running'[j]
      BY ZenonT(60), <1>1, <1>4, <2>1, <2>2 DEF IInv, FlagsInv
    <3>2. \A j \in Keys : ~(queued'[j] /\ running'[j])
      BY ZenonT(60), <1>4, <2>2 DEF IInv, FlagsInv
    <3>3. \A j \in Keys : queued'[j] => pend'[j] # <<>>
      BY ZenonT(60), <1>0, <1>8, <2>2 DEF IInv, FlagsInv
    <3> QED BY <3>1, <3>2, <3>3 DEF FlagsInv
  <2>5. WorkerInv'
    <3>1. \A v \in Workers : Active(v)' => wlane'[v] \in Keys
      BY <1>1, <1>5, <2>1 DEF IInv, WorkerInv, Active
    <3>2. \A v \in Workers : wpc'[v] = "run" => running'[wlane'[v]]
      BY <1>3, <1>4, <1>5, <2>1 DEF IInv, WorkerInv, Active
    <3>3. \A v \in Workers : wpc'[v] \in {"next", "send"} => queued'[wlane'[v]]
      BY <1>3, <1>5, <2>1, <2>2 DEF IInv, WorkerInv, Active
    <3>4. \A v, x \in Workers : Active(v)' /\ Active(x)' /\ wlane'[v] = wlane'[x] => v = x
      BY <1>3, <1>5, <2>1 DEF IInv, WorkerInv, Active
    <3> QED BY <3>1, <3>2, <3>3, <3>4 DEF WorkerInv
  <2>6. ReadyInv'
    BY <1>0, <1>5, <1>6, <2>1, <2>2 DEF IInv, ReadyInv
  <2>7. TokenInv'
    BY <1>0, <1>5, <2>1 DEF IInv, TokenInv, Active
  <2>8. TableInv' /\ CountInv'
    BY <1>0, <2>1 DEF IInv, TableInv, CountInv, PendingSlots, Waiting
  <2> QED BY <2>3, <2>4, <2>5, <2>6, <2>7, <2>8 DEF IInv
<1> QED BY <1>7, <1>8

\* Requeue puts the token back into the channel, which has room for it.
LEMMA RequeueStep ==
    ASSUME IInv, NEW w \in Workers, Requeue(w)
    PROVE  IInv'
<1> DEFINE k == wlane[w]
<1>0. /\ wpc[w] = "send"
      /\ ready' = Append(ready, k) \/ (stopped /\ ready' = ready)
      /\ wpc' = [wpc EXCEPT ![w] = "select"]
      /\ wlane' = [wlane EXCEPT ![w] = NoLane]
      /\ UNCHANGED <<listening, stopped, lanes, queued, running, pend, pending, submitted, accepted, started>>
  BY DEF Requeue, lockVars
<1>1. /\ k \in Keys /\ queued[k] /\ ready \in Seq(Keys) /\ Len(ready) \in Nat
      /\ wpc \in [Workers -> {"select", "next", "run", "send", "done"}]
      /\ wlane \in [Workers -> Keys \cup {NoLane}]
  BY <1>0, LenProperties DEF IInv, TypeOK, WorkerInv, Active
<1>2. /\ wpc' \in [Workers -> {"select", "next", "run", "send", "done"}]
      /\ wlane' \in [Workers -> Keys \cup {NoLane}]
      /\ wpc'[w] = "select"
      /\ \A v \in Workers : v # w => wpc'[v] = wpc[v] /\ wlane'[v] = wlane[v]
  BY <1>0, <1>1
<1>3. \A v \in Workers : v # w /\ Active(v) => wlane[v] # k
  BY <1>0 DEF IInv, WorkerInv, Active
<1>4. FlagsInv' /\ TableInv' /\ CountInv'
  BY <1>0 DEF IInv, FlagsInv, TableInv, CountInv, PendingSlots, Waiting
<1>5. WorkerInv'
  BY <1>0, <1>2 DEF IInv, WorkerInv, Active
<1>6. CASE ready' = Append(ready, k)
  <2>1. /\ ready' \in Seq(Keys)
        /\ Len(ready') = Len(ready) + 1
        /\ ready'[Len(ready) + 1] = k
        /\ \A i \in 1..Len(ready) : ready'[i] = ready[i]
    BY <1>1, <1>6, AppendProperties
  <2>2. \A i \in 1..Len(ready') : i \in 1..Len(ready) \/ i = Len(ready) + 1
    BY <1>1, <2>1
  <2>3. \A i \in 1..Len(ready) : ready[i] # k
    BY <1>0 DEF IInv, ReadyInv
  <2>4. TypeOK'
    BY <1>0, <1>2, <2>1 DEF IInv, TypeOK
  <2>5. ReadyInv'
    <3>1. \A i \in 1..Len(ready') : queued'[ready'[i]]
      BY <1>0, <1>1, <2>1, <2>2 DEF IInv, ReadyInv
    <3>2. \A i, j \in 1..Len(ready') : ready'[i] = ready'[j] => i = j
      BY <2>1, <2>2, <2>3 DEF IInv, ReadyInv
    <3>3. \A i \in 1..Len(ready'), v \in Workers :
            wpc'[v] \in {"next", "send"} => ready'[i] # wlane'[v]
      BY <1>2, <1>3, <2>1, <2>2 DEF IInv, ReadyInv, Active
    <3> QED BY <3>1, <3>2, <3>3 DEF ReadyInv
  <2>6. TokenInv'
    <3> SUFFICES ASSUME ~stopped, NEW j \in lanes
                 PROVE  \/ \E i \in 1..Len(ready') : ready'[i] = j
                        \/ \E v \in Workers : Active(v)' /\ wlane'[v] = j
      BY <1>0 DEF TokenInv
    <3>1. \/ \E i \in 1..Len(ready) : ready[i] = j
          \/ \E v \in Workers : Active(v) /\ wlane[v] = j
      BY DEF IInv, TokenInv
    <3>2. Len(ready) + 1 \in 1..Len(ready') /\ 1..Len(ready) \subseteq 1..Len(ready')
      BY <1>1, <2>1
    <3> QED BY <1>2, <2>1, <3>1, <3>2 DEF Active
  <2> QED BY <1>4, <1>5, <2>4, <2>5, <2>6 DEF IInv
<1>7. CASE stopped /\ ready' = ready
  <2>1. TypeOK'
    BY <1>0, <1>2, <1>7 DEF IInv, TypeOK
  <2>2. ReadyInv'
    <3>1. \A i \in 1..Len(ready') : queued'[ready'[i]]
      BY <1>0, <1>1, <1>7 DEF IInv, ReadyInv
    <3>2. \A i, j \in 1..Len(ready') : ready'[i] = ready'[j] => i = j
      BY <1>7 DEF IInv, ReadyInv
    <3>3. \A i \in 1..Len(ready'), v \in Workers :
            wpc'[v] \in {"next", "send"} => ready'[i] # wlane'[v]
      BY <1>2, <1>7 DEF IInv, ReadyInv
    <3> QED BY <3>1, <3>2, <3>3 DEF ReadyInv
  <2>3. TokenInv'
    BY <1>0, <1>7 DEF TokenInv
  <2> QED BY <1>4, <1>5, <2>1, <2>2, <2>3 DEF IInv
<1> QED BY <1>0, <1>6, <1>7

-----------------------------------------------------------------------------
(* The theorems *)

\* Every step of the listener and of the workers preserves the invariant.
LEMMA IInvStep == IInv /\ [Next]_vars => IInv'
<1> SUFFICES ASSUME IInv, [Next]_vars PROVE IInv'
  OBVIOUS
<1>1. CASE \E n \in Notifications : dispatch(n)
  <2> PICK n \in Notifications : dispatch(n)
    BY <1>1
  <2> DEFINE k == LaneOf(n)
             t == [id |-> submitted + 1, coalesce |-> Coalesces(n)]
  <2>1. k \in Keys /\ t \in Task
    BY DispatchType DEF IInv
  <2>2. SubmitDrop(k, t) \/ SubmitReplace(k, t) \/ SubmitAppend(k, t)
    BY DEF dispatch, submit
  <2> QED BY <2>1, <2>2, DropStep, ReplaceStep, AppendStep
<1>2. CASE ConnectionLost \/ Reconnect \/ Stop
  BY <1>2, ListenerStep
<1>3. CASE \E w \in Workers : worker(w)
  BY <1>3, ReceiveStep, ExitStep, NextStep, FinishStep, RequeueStep DEF worker
<1>4. CASE UNCHANGED vars
  <2> USE <1>4 DEF vars, lockVars
  <2>1. TypeOK'
    BY DEF IInv, TypeOK
  <2>2. FlagsInv' /\ WorkerInv' /\ ReadyInv' /\ TokenInv'
    BY ZenonT(60) DEF IInv, FlagsInv, WorkerInv, ReadyInv, TokenInv, Active
  <2>3. TableInv' /\ CountInv'
    BY DEF IInv, TableInv, CountInv, PendingSlots, Waiting
  <2> QED BY <2>1, <2>2, <2>3 DEF IInv
<1> QED BY <1>1, <1>2, <1>3, <1>4 DEF Next

\* The ownership discipline of the lanes holds in every reachable state of the
\* scheduler.
THEOREM Inductive == Spec => []IInv
BY InitIInv, IInvStep, PTL DEF Spec

\* Every variable keeps its type: in particular s.pending, which next
\* decrements without looking, never becomes negative.
THEOREM TypeCorrect == Spec => []TypeOK
<1>1. IInv => TypeOK
  BY DEF IInv
<1> QED BY <1>1, Inductive, PTL

\* Callbacks of one key never run on two workers at once.
THEOREM MutualExclusion == Spec => []OneRunnerPerLane
<1>1. IInv => OneRunnerPerLane
  BY DEF IInv, WorkerInv, OneRunnerPerLane, Active
<1> QED BY <1>1, Inductive, PTL

\* A worker that requeues its lane always finds room in the channel: the lanes
\* in ready are distinct lanes of the table, and its own is not among them.
THEOREM NeverBlocks == Spec => []RequeueNeverBlocks
<1>1. IInv => RequeueNeverBlocks
  <2> SUFFICES ASSUME IInv, NEW w \in Workers, wpc[w] = "send"
               PROVE  Len(ready) < QueueLimit
    BY DEF RequeueNeverBlocks
  <2> DEFINE k == wlane[w]
  <2>1. k \in lanes
    BY DEF IInv, WorkerInv, FlagsInv, Active
  <2>2. /\ IsFiniteSet(lanes \ {k})
        /\ Cardinality(lanes \ {k}) = Cardinality(lanes) - 1
        /\ Cardinality(lanes) \in Nat
    BY <2>1, FS_RemoveElement, FS_CardinalityType DEF IInv, TableInv
  <2>3. /\ ready \in [1..Len(ready) -> Keys] /\ Len(ready) \in Nat
    BY LenProperties DEF IInv, TypeOK
  <2>4. \A i \in 1..Len(ready) : ready[i] \in lanes \ {k}
    BY <2>3 DEF IInv, ReadyInv, FlagsInv
  <2>5. ready \in Injection(1..Len(ready), lanes \ {k})
    BY <2>3, <2>4 DEF IInv, ReadyInv, Injection, IsInjective
  <2>6. Cardinality(1..Len(ready)) <= Cardinality(lanes \ {k})
    BY <2>2, <2>5, FS_Injection
  <2>7. Cardinality(1..Len(ready)) = Len(ready)
    <3>1. \A n \in Nat : Cardinality(1..n) = IF 1 > n THEN 0 ELSE n - 1 + 1
      BY FS_Interval
    <3> QED BY <2>3, <3>1
  <2> QED BY <2>2, <2>3, <2>6, <2>7, QueueLimitAssumption DEF IInv, TableInv
<1> QED BY <1>1, Inductive, PTL

\* The queue stays within its limits, and s.pending counts it exactly;
\* within those limits a requeue never blocks.
THEOREM Bounded == Spec => []QueueBounded
<1>1. IInv /\ RequeueNeverBlocks => QueueBounded
  BY DEF IInv, TableInv, CountInv, QueueBounded, Waiting
<1> QED BY <1>1, NeverBlocks, Inductive, PTL

\* No lane is stranded: while the scheduler runs, each lane of the table has
\* exactly one token, and a key with no lane has none; and two workers
\* never run one lane.
THEOREM OneToken == Spec => []NoLaneStranded
<1>1. IInv /\ OneRunnerPerLane => NoLaneStranded
  <2> SUFFICES ASSUME IInv, ~stopped, NEW k \in Keys
               PROVE  Tokens(k) = IF k \in lanes THEN 1 ELSE 0
    BY DEF NoLaneStranded
  <2> DEFINE R == {i \in 1..Len(ready) : ready[i] = k}
             W == {w \in Workers : wpc[w] \in {"next", "run", "send"} /\ wlane[w] = k}
  <2>1. Tokens(k) = Cardinality(R) + Cardinality(W)
    BY DEF Tokens
  <2>2. \A w \in W : k \in lanes
    BY DEF IInv, WorkerInv, FlagsInv, Active
  <2>3. \A i \in R : k \in lanes
    BY DEF IInv, ReadyInv, FlagsInv
  <2>4. CASE k \notin lanes
    <3>1. R = {} /\ W = {}
      BY <2>2, <2>3, <2>4
    <3>2. Cardinality(R) = 0 /\ Cardinality(W) = 0
      BY ZenonT(60), <3>1, FS_EmptySet
    <3> HIDE DEF R, W
    <3> QED BY <2>1, <2>4, <3>2
  <2>5. CASE k \in lanes
    <3>1. CASE \E i \in 1..Len(ready) : ready[i] = k
      <4> PICK i \in 1..Len(ready) : ready[i] = k
        BY <3>1
      <4>1. R = {i}
        BY DEF IInv, ReadyInv
      <4>2. queued[k] /\ ~running[k]
        BY DEF IInv, ReadyInv, FlagsInv
      <4>3. W = {}
        BY <4>2 DEF IInv, ReadyInv, WorkerInv
      <4>4. Cardinality(R) = 1 /\ Cardinality(W) = 0
        BY ZenonT(60), <4>1, <4>3, FS_EmptySet, FS_Singleton
      <4> HIDE DEF R, W
      <4> QED BY <2>1, <2>5, <4>4
    <3>2. CASE ~ \E i \in 1..Len(ready) : ready[i] = k
      <4>1. PICK w \in Workers : Active(w) /\ wlane[w] = k
        BY <2>5, <3>2 DEF IInv, TokenInv
      <4>2. W = {w}
        BY <4>1 DEF IInv, WorkerInv, Active
      <4>3. R = {}
        BY <3>2
      <4>4. Cardinality(R) = 0 /\ Cardinality(W) = 1
        BY ZenonT(60), <4>2, <4>3, FS_EmptySet, FS_Singleton
      <4> HIDE DEF R, W
      <4> QED BY <2>1, <2>5, <4>4
    <3> QED BY <3>1, <3>2
  <2> QED BY <2>4, <2>5
<1> QED BY <1>1, Inductive, MutualExclusion, PTL
=============================================================================
