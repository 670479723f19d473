------------------------------ MODULE RPCBarriers ------------------------------
(***************************************************************************)
(* The sender-result barriers of one connection: the part of mtproto.Conn  *)
(* (internal/mtproto/send.go) that writeMu guards for live delivery.  Each *)
(* operator is one critical section, from the record the connection was    *)
(* in to the record it leaves.                                             *)
(*                                                                         *)
(* The three parallel slices pendingRPCPts, pendingRPCIDs, pendingRPCReady *)
(* are the sequence `queue' of their zipped entries.  pendingRPCOwner and  *)
(* pendingRPCAuthKey are the connection's own owner and key whenever the   *)
(* queue is not empty, because setOwner clears it; they are left out.      *)
(***************************************************************************)
EXTENDS Naturals, Sequences, SequencesExt, FiniteSetsExt

CONSTANTS MaxPendingUpdates,   \* maxPendingRPCUpdates
          MaxOverflowUpdates   \* maxPendingRPCOverflowUpdates

ASSUME PendingLimitsAssumption ==
    MaxPendingUpdates \in Nat \ {0} /\ MaxOverflowUpdates \in Nat \ {0}

Entry == [id : Nat, pts : Nat, ready : BOOLEAN]

Conn == [owned    : BOOLEAN,      \* c.owner is the user this model follows
         live     : BOOLEAN,      \* the registry holds the connection
         open     : BOOLEAN,      \* the transport still accepts writes
         pts      : Nat,          \* lastPushedPts
         queue    : Seq(Entry),   \* pendingRPCPts, pendingRPCIDs, pendingRPCReady
         overflow : Seq(Entry),   \* pendingRPCOverflow
         full     : BOOLEAN,      \* pendingRPCOverflowSaturated
         nextID   : Nat]          \* nextPendingRPCID

newConn == [owned |-> FALSE, live |-> FALSE, open |-> TRUE, pts |-> 0,
            queue |-> <<>>, overflow |-> <<>>, full |-> FALSE, nextID |-> 0]

(***************************************************************************)
(* setOwner: a change of owner clears the watermark and every barrier.     *)
(***************************************************************************)
setOwner(c, owned) ==
    IF c.owned = owned THEN c
    ELSE [c EXCEPT !.owned = owned, !.pts = 0, !.queue = <<>>, !.overflow = <<>>, !.full = FALSE]

(***************************************************************************)
(* BeginRPCUpdateAttempt.  A reservation names the entry of one request;   *)
(* id 0 means the request holds none: the connection belongs to somebody   *)
(* else, or the overflow is saturated.                                     *)
(***************************************************************************)
Reservation == [id : Nat, mine : BOOLEAN, overflow : BOOLEAN]
NoReservation == [id |-> 0, mine |-> FALSE, overflow |-> FALSE]

Positions(q, pts) == {i \in 1..Len(q) : q[i].pts = pts}
FirstOf(q, pts) == q[Min(Positions(q, pts))]

\* The existing barrier a known-pts retry shares; it does not own it.
Shared(c, pts) ==
    IF Positions(c.queue, pts) # {}
    THEN [id |-> FirstOf(c.queue, pts).id, mine |-> FALSE, overflow |-> FALSE]
    ELSE [id |-> FirstOf(c.overflow, pts).id, mine |-> FALSE, overflow |-> TRUE]

Shares(c, pts) == pts > 0 /\ (Positions(c.queue, pts) \cup Positions(c.overflow, pts)) # {}

Overflows(c) == c.overflow # <<>> \/ c.full \/ Len(c.queue) >= MaxPendingUpdates

Saturates(c) == c.full \/ Len(c.overflow) >= MaxOverflowUpdates

BeginRPCUpdateAttempt(c, pts) ==
    LET id == c.nextID + 1 IN
    CASE ~c.owned -> [conn |-> c, res |-> NoReservation]
      [] c.owned /\ Shares(c, pts) -> [conn |-> c, res |-> Shared(c, pts)]
      [] c.owned /\ ~Shares(c, pts) /\ Overflows(c) /\ Saturates(c) ->
           [conn |-> [c EXCEPT !.full = TRUE],
            res  |-> [id |-> 0, mine |-> FALSE, overflow |-> TRUE]]
      [] c.owned /\ ~Shares(c, pts) /\ Overflows(c) /\ ~Saturates(c) ->
           \* an overflow entry starts without its pts, even for a retry
           [conn |-> [c EXCEPT !.nextID = id,
                               !.overflow = Append(@, [id |-> id, pts |-> 0, ready |-> FALSE])],
            res  |-> [id |-> id, mine |-> TRUE, overflow |-> TRUE]]
      [] OTHER ->
           [conn |-> [c EXCEPT !.nextID = id,
                               !.queue = Append(@, [id |-> id, pts |-> pts, ready |-> FALSE])],
            res  |-> [id |-> id, mine |-> TRUE, overflow |-> FALSE]]

(***************************************************************************)
(* SetRPCUpdatePtsAttempt and ClearRPCUpdateAttempt act on the entry the   *)
(* request owns, if the connection still has it.                           *)
(***************************************************************************)
Fill(q, id, pts) ==
    [i \in 1..Len(q) |-> IF q[i].id = id /\ q[i].pts = 0 THEN [q[i] EXCEPT !.pts = pts] ELSE q[i]]

Drop(q, id) == SelectSeq(q, LAMBDA e : e.id # id)

SetRPCUpdatePtsAttempt(c, res, pts) ==
    CASE ~c.owned \/ ~res.mine -> c
      [] c.owned /\ res.mine /\ res.overflow -> [c EXCEPT !.overflow = Fill(@, res.id, pts)]
      [] OTHER -> [c EXCEPT !.queue = Fill(@, res.id, pts)]

ClearRPCUpdateAttempt(c, res) ==
    CASE ~c.owned \/ ~res.mine -> c
      [] c.owned /\ res.mine /\ res.overflow -> [c EXCEPT !.overflow = Drop(@, res.id)]
      [] OTHER -> [c EXCEPT !.queue = Drop(@, res.id)]

(***************************************************************************)
(* PendingRPCUpdate and PendingRPCUpdateReady: the first barrier.  The     *)
(* saturated hold is a barrier with unknown pts that is never ready.       *)
(***************************************************************************)
Barriers(c) == c.queue \o c.overflow

Pending(c) == c.owned /\ (Barriers(c) # <<>> \/ c.full)

PendingRPCUpdate(c) == IF Barriers(c) # <<>> THEN Head(Barriers(c)).pts ELSE 0

PendingRPCUpdateReady(c) == c.owned /\ Barriers(c) # <<>> /\ Head(Barriers(c)).ready

(***************************************************************************)
(* markRPCUpdateLocked: a delivery accounts for the event at pts.  With    *)
(* barriers left it may release only the first one.                        *)
(***************************************************************************)
DropFirst(c) ==
    IF c.queue # <<>> THEN [c EXCEPT !.queue = Tail(@)]
    ELSE IF c.overflow # <<>> THEN [c EXCEPT !.overflow = Tail(@)] ELSE c

Accounts(c, pts) == Barriers(c) = <<>> \/ PendingRPCUpdate(c) = pts

MarkRPCUpdate(c, pts) ==
    IF c.owned /\ Accounts(c, pts)
    THEN [DropFirst(c) EXCEPT !.pts = Max({@, pts})] ELSE c

MarkedRPCUpdate(c, pts) ==
    c.owned /\ (Accounts(c, pts) \/ (PendingRPCUpdate(c) # 0 /\ pts <= c.pts))

(***************************************************************************)
(* markRPCResultLocked: the RPC result carrying pts has been written.  The *)
(* last barrier with that pts becomes ready; it goes away unless events    *)
(* below pts are still missing on the connection.                          *)
(***************************************************************************)
Arrived(q, pts) == [q EXCEPT ![Max(Positions(q, pts))].ready = TRUE]
Released(q, pts) == RemoveAt(q, Max(Positions(q, pts)))

\* Mutant: the watermark jumps over the events that are still missing.
markRPCResultAcrossGap(c, pts) ==
    IF c.owned THEN [c EXCEPT !.pts = Max({@, pts}), !.queue = SelectSeq(@, LAMBDA e : e.pts # pts)]
    ELSE c

markRPCResult(c, pts) ==
    LET inQueue == Positions(c.queue, pts) # {}
        inOverflow == Positions(c.overflow, pts) # {}
        queue == IF inQueue THEN Arrived(c.queue, pts) ELSE c.queue
        overflow == IF inOverflow THEN Arrived(c.overflow, pts) ELSE c.overflow IN
    CASE ~c.owned -> c
      [] c.owned /\ pts > c.pts + 1 -> [c EXCEPT !.queue = queue, !.overflow = overflow]
      [] OTHER ->
           [c EXCEPT !.pts = Max({@, pts}),
                     !.queue = IF inQueue THEN Released(@, pts) ELSE @,
                     !.overflow = IF inOverflow /\ ~inQueue THEN Released(@, pts) ELSE overflow]

(***************************************************************************)
(* PushToAtWatermark: whether the write is refused because the batch was   *)
(* built from another watermark, and the connection after a write.         *)
(***************************************************************************)
Stale(c, expected) == c.owned /\ c.pts # expected
Writable(c, expected) == c.owned /\ c.open /\ c.pts = expected
PushToAtWatermark(c, pts) == [c EXCEPT !.pts = Max({@, pts})]
================================================================================
