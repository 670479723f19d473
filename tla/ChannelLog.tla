------------------------------ MODULE ChannelLog ------------------------------
(* What a channel promises its readers, without tables, locks or calls: an    *)
(* append-only log in which a random id occurs once, and readers that are let *)
(* in at the end of the log and then advance through it without skipping.     *)
EXTENDS Integers, Sequences, FiniteSets

CONSTANTS Readers, Logs, Ids   \* Ids: random ids, 0 for none

VARIABLES
  log,       \* log -> sequence of random ids, 0 where the author gave none
  entry,     \* log -> reader -> the positions at which the reader was let in
  cursor     \* log -> reader -> [pts, seen]

vars == <<log, entry, cursor>>

Init ==
  /\ log \in [Logs -> Seq(Ids)]
  /\ entry \in [Logs -> [Readers -> SUBSET Nat]]
  /\ cursor = [l \in Logs |-> [r \in Readers |-> [pts |-> 0, seen |-> {}]]]

Fresh(l, rid) == rid = 0 \/ \A i \in DOMAIN log[l] : log[l][i] # rid

Append1(l) ==
  /\ \E rid \in Ids : Fresh(l, rid) /\ log' = [log EXCEPT ![l] = Append(@, rid)]
  /\ UNCHANGED <<entry, cursor>>

\* a creator opens a log with its first entry and reads from the beginning
Open(l, r) ==
  /\ log[l] = <<>>
  /\ log' = [log EXCEPT ![l] = <<0>>]
  /\ entry' = [entry EXCEPT ![l][r] = @ \cup {0}]
  /\ UNCHANGED cursor

\* readers let in together: each misses nothing appended after this step
Enter(l, rs) ==
  /\ entry' = [entry EXCEPT ![l] =
       [r \in Readers |-> IF r \in rs THEN @[r] \cup {Len(log[l])} ELSE @[r]]]
  /\ UNCHANGED <<log, cursor>>

\* one push reaches any of the readers that wait for the newest entry but one
Push(l, rs, to) ==
  /\ \A r \in rs : cursor[l][r].pts = to - 1
  /\ cursor' = [cursor EXCEPT ![l] = [r \in Readers |->
                  IF r \in rs THEN [pts |-> to, seen |-> @[r].seen \cup {to}] ELSE @[r]]]
  /\ UNCHANGED <<log, entry>>

\* a reader goes on from its position, or from where it was let in if later,
\* over consecutive entries
Advance(l, r, to) ==
  LET at == cursor[l][r].pts IN
  /\ to <= Len(log[l])
  /\ \E from \in {at} \cup {e \in entry[l][r] : e > at} :
       /\ from <= to
       /\ cursor' = [cursor EXCEPT ![l][r] =
                       [pts |-> to, seen |-> @.seen \cup (from + 1) .. to]]
  /\ UNCHANGED <<log, entry>>

Next ==
  \E l \in Logs :
    \/ Append1(l)
    \/ \E r \in Readers : Open(l, r)
    \/ \E rs \in SUBSET Readers : Enter(l, rs)
    \/ \E r \in Readers, to \in 0 .. Len(log[l]) : Advance(l, r, to)
    \/ \E rs \in SUBSET Readers, to \in 1 .. Len(log[l]) : Push(l, rs, to)

Spec == Init /\ [][Next]_vars
=============================================================================
