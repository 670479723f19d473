-------------------------- MODULE UpdateLogInserts ---------------------------
(***************************************************************************)
(* What a commit may do to the database so that every transaction in       *)
(* progress keeps its invariant (WriteEffect), why it then does            *)
(* (CommitStep), and that the insertions of FanOut and of the 1:1 sends    *)
(* are such commits.                                                       *)
(***************************************************************************)
EXTENDS UpdateLogInvariant

USE SMTT(30), ZenonT(30), SMTT(60)

-----------------------------------------------------------------------------
(* Commits.  WriteEffect states what a commit may do to the database, in the *)
(* terms that keep the invariant of every other transaction.                 *)

DataType ==
    /\ rows \in [Users -> Seq(RowType)] /\ log \in [Users -> Seq(EventType)]
    /\ members \in SUBSET Users /\ left \in SUBSET Users /\ rights \in SUBSET Rights
    /\ blocked \in SUBSET (Users \X Users) /\ fanouts \in Nat

\* Rows are never removed, their peer, fan-out id and token never change, and a
\* new row is not a copy of an earlier message.
RowsGrow ==
    /\ fanouts <= fanouts'
    /\ \A u \in Users :
         /\ Len(rows[u]) <= Len(rows'[u])
         /\ \A l \in 1..Len(rows[u]) : /\ rows'[u][l].peer = rows[u][l].peer
                                       /\ rows'[u][l].fan = rows[u][l].fan
                                       /\ rows'[u][l].rid = rows[u][l].rid
         /\ \A l \in (Len(rows[u]) + 1)..Len(rows'[u]) :
              \/ rows'[u][l].fan = 0
              \/ rows'[u][l].fan > fanouts /\ rows'[u][l].fan <= fanouts'

WriteEffect(t) ==
    /\ DataType' /\ RowsGrow /\ OneRowPerRandomID'
    /\ \A u \in Users : rows'[u] # rows[u] \/ log'[u] # log[u] => ownerLock[u] = t
    /\ members' # members \/ rights' # rights => chatLock = t
    /\ \A u \in members \ members' : ownerLock[u] = t
    /\ \A u, v \in Users : <<u, v>> \in blocked' \ blocked => ownerLock[u] = t

\* The rows of an owner have their type, and so have their fields.
LEMMA RowType1 ==
    ASSUME TypeOK, NEW u \in Users
    PROVE  /\ rows[u] \in Seq(RowType) /\ Len(rows[u]) \in Nat
           /\ \A l \in 1..Len(rows[u]) :
                /\ rows[u][l] \in RowType
                /\ rows[u][l].peer \in Users \cup {Chat} /\ rows[u][l].fan \in Nat
                /\ rows[u][l].rid \in Tokens /\ rows[u][l].mirror \in Nat
<1>1. rows[u] \in Seq(RowType)
  BY DEF TypeOK
<1>2. \A l \in 1..Len(rows[u]) : rows[u][l] \in RowType
  BY <1>1, ElementOfSeq
<1> QED BY <1>1, <1>2, LenProperties DEF RowType

\* The fields of one stored row.
LEMMA RowAt ==
    ASSUME TypeOK, NEW u \in Users, NEW l \in LocalIDs(u)
    PROVE  /\ l \in Nat /\ rows[u][l].peer \in Users \cup {Chat}
           /\ rows[u][l].mirror \in Nat /\ rows[u][l].fan \in Nat
<1>1. l \in 1..Len(rows[u]) /\ Len(rows[u]) \in Nat
  BY RowType1 DEF LocalIDs
<1> QED BY <1>1, RowType1

\* The owners of the copies of a message do not change once its fan-out has
\* committed (copyOwners).
LEMMA CopyOwnersStable ==
    ASSUME TypeOK, DataType', RowsGrow, NEW f \in Nat, f <= fanouts
    PROVE  copyOwners(f)' = copyOwners(f)
<1>1. \A u \in Users : u \in copyOwners(f) <=> \E l \in 1..Len(rows[u]) : f # 0 /\ rows[u][l].fan = f
  BY DEF copyOwners
<1>2. \A u \in Users : u \in copyOwners(f)' <=> \E l \in 1..Len(rows'[u]) : f # 0 /\ rows'[u][l].fan = f
  BY DEF copyOwners
<1>3. copyOwners(f) \subseteq Users /\ copyOwners(f)' \subseteq Users
  BY DEF copyOwners
<1>4. ASSUME NEW u \in Users
      PROVE  u \in copyOwners(f)' <=> u \in copyOwners(f)
  <2>1. Len(rows[u]) \in Nat /\ Len(rows'[u]) \in Nat /\ Len(rows[u]) <= Len(rows'[u]) /\ fanouts \in Nat
    BY LenProperties DEF TypeOK, DataType, RowsGrow
  <2>2. ASSUME NEW l \in 1..Len(rows[u]), f # 0, rows[u][l].fan = f
        PROVE  u \in copyOwners(f)'
    <3>1. l \in 1..Len(rows'[u])
      BY <2>1
    <3>2. rows'[u][l].fan = f
      BY <2>2 DEF RowsGrow
    <3> QED BY <1>2, <2>2, <3>1, <3>2
  <2>3. ASSUME NEW l \in 1..Len(rows'[u]), f # 0, rows'[u][l].fan = f
        PROVE  u \in copyOwners(f)
    <3>1. CASE l \in 1..Len(rows[u])
      <4>1. rows[u][l].fan = f
        BY <2>3, <3>1 DEF RowsGrow
      <4> QED BY <1>1, <2>3, <3>1, <4>1
    <3>2. CASE l \notin 1..Len(rows[u])
      <4>1. l \in (Len(rows[u]) + 1)..Len(rows'[u])
        BY <2>1, <3>2
      <4>2. rows'[u][l].fan = 0 \/ rows'[u][l].fan > fanouts
        BY <4>1 DEF RowsGrow
      <4> QED BY <2>1, <2>3, <4>2
    <3> QED BY <3>1, <3>2
  <2> QED BY <1>1, <1>2, <2>2, <2>3
<1> QED BY <1>3, <1>4

\* A row that was stored stays, with its peer and its fan-out id.
LEMMA OldRows ==
    ASSUME TypeOK, FanInv, DataType', RowsGrow, NEW u \in Users
    PROVE  /\ LocalIDs(u) \subseteq LocalIDs(u)'
           /\ \A l \in LocalIDs(u) :
                /\ rows'[u][l].peer = rows[u][l].peer
                /\ rows'[u][l].fan = rows[u][l].fan
                /\ rows[u][l].fan \in Nat
                /\ rows[u][l].fan <= fanouts
<1>1. Len(rows[u]) \in Nat /\ Len(rows'[u]) \in Nat
  BY LenProperties DEF TypeOK, DataType
<1>2. LocalIDs(u) \subseteq LocalIDs(u)'
  BY <1>1 DEF RowsGrow, LocalIDs
<1>3. \A l \in LocalIDs(u) : rows'[u][l].peer = rows[u][l].peer /\ rows'[u][l].fan = rows[u][l].fan
  BY DEF RowsGrow, LocalIDs
<1>4. \A l \in LocalIDs(u) : rows[u][l].fan \in Nat /\ rows[u][l].fan <= fanouts
  BY RowType1 DEF LocalIDs, FanInv
<1> QED BY <1>2, <1>3, <1>4

\* The owners an edit set out to lock are those it would find now.
LEMMA EditOwnersStable ==
    ASSUME TypeOK, FanInv, DataType', RowsGrow, NEW u \in Users, NEW l \in LocalIDs(u)
    PROVE  EditOwners(u, l)' = EditOwners(u, l)
<1>1. /\ rows'[u][l].peer = rows[u][l].peer /\ rows'[u][l].fan = rows[u][l].fan
      /\ rows[u][l].fan \in Nat /\ rows[u][l].fan <= fanouts
  BY OldRows
<1>2. copyOwners(rows[u][l].fan)' = copyOwners(rows[u][l].fan)
  <2>1. \A f \in Nat : f <= fanouts => copyOwners(f)' = copyOwners(f)
    BY CopyOwnersStable
  <2> QED BY <1>1, <2>1
<1> QED BY <1>1, <1>2 DEF EditOwners

\* The owners a delete set out to lock are those it would find now.
LEMMA DeleteOwnersStable ==
    ASSUME TypeOK, FanInv, DataType', RowsGrow, NEW u \in Users, NEW revoke,
           NEW ids, \A i \in 1..Len(ids) : ids[i] \in LocalIDs(u)
    PROVE  DeleteOwners(u, ids, revoke)' = DeleteOwners(u, ids, revoke)
<1>1. \A i \in 1..Len(ids) :
        /\ rows'[u][ids[i]].peer = rows[u][ids[i]].peer /\ rows'[u][ids[i]].fan = rows[u][ids[i]].fan
        /\ rows[u][ids[i]].fan \in Nat /\ rows[u][ids[i]].fan <= fanouts
  BY OldRows
<1>2. \A f \in Nat : f <= fanouts => copyOwners(f)' = copyOwners(f)
  BY CopyOwnersStable
<1>3. \A i \in 1..Len(ids) : copyOwners(rows[u][ids[i]].fan)' = copyOwners(rows[u][ids[i]].fan)
  BY <1>1, <1>2
<1> QED BY <1>1, <1>3 DEF DeleteOwners

\* A transaction in progress keeps its invariant when another commits: what the
\* commit changes is covered by locks that the one in progress does not hold.
LEMMA OtherSlotCommit ==
    ASSUME IInv, NEW t \in Slots, WriteEffect(t), End(t), NEW s \in Slots \ {t}
    PROVE  SlotInv(s)'
<1>1. /\ tx'[s] = tx[s] /\ (chatLock = s => chatLock' = s)
      /\ \A u \in Users : ownerLock[u] = s => ownerLock'[u] = s
  BY DEF End, IInv, TypeOK
<1>2. SlotInv(s) /\ tx[s] \in TxType
  BY DEF IInv, TypeOK
<1>3. tx[s].need \subseteq Users /\ tx[s].ids \in Seq(Nat)
  BY <1>2 DEF TxType
<1>4. chatLock = s => members' = members /\ rights' = rights
  BY DEF WriteEffect
<1>5. WhoInv(s)' /\ ChatLockInv(s)'
  BY <1>1, <1>2 DEF SlotInv, WhoInv, ChatLockInv, Busy, Locking, ChatOp
<1>6. OwnerLockInv(s)' /\ PairInv(s)'
  BY <1>1, <1>2, <1>3 DEF SlotInv, OwnerLockInv, PairInv, PairOp, Busy
<1>7. SnapshotInv(s)'
  <2>1. CASE Locking(s) /\ ChatOp(s)
    <3>1. chatLock = s /\ SnapshotInv(s)
      BY <1>2, <2>1 DEF SlotInv, ChatLockInv
    <3>2. MutationOwners(s)' = MutationOwners(s)
      BY <1>1, <1>4, <3>1 DEF MutationOwners
    <3> QED BY <1>1, <1>4, <3>1, <3>2 DEF SnapshotInv, Locking, ChatOp, Busy
  <2>2. CASE ~(Locking(s) /\ ChatOp(s))
    BY <1>1, <1>2, <2>2 DEF SlotInv, SnapshotInv, Locking, ChatOp, Busy
  <2> QED BY <2>1, <2>2
<1>8. TypeOK /\ FanInv /\ DataType' /\ RowsGrow
  BY DEF IInv, WriteEffect
<1>9. \A u \in Users : LocalIDs(u) \subseteq LocalIDs(u)'
  BY <1>8, OldRows
<1>10. EditInv(s)'
  <2> SUFFICES ASSUME Busy(s), tx[s].kind = "EditMessage"
               PROVE  EditInv(s)'
    BY <1>1 DEF EditInv, Busy
  <2>1. /\ tx[s].who \in Users /\ tx[s].ids[1] \in LocalIDs(tx[s].who)
        /\ tx[s].need = EditOwners(tx[s].who, tx[s].ids[1])
    BY <1>2 DEF SlotInv, EditInv, WhoInv
  <2>2. EditOwners(tx[s].who, tx[s].ids[1])' = EditOwners(tx[s].who, tx[s].ids[1])
    <3> QED BY <1>1, <1>8, <2>1, EditOwnersStable
  <2> QED BY <1>1, <1>9, <2>1, <2>2 DEF EditInv, LocalIDs
<1>11. DeleteInv(s)'
  <2> SUFFICES ASSUME Busy(s), tx[s].kind = "DeleteMessages"
               PROVE  DeleteInv(s)'
    BY <1>1 DEF DeleteInv, Busy
  <2>1. /\ tx[s].who \in Users /\ \A i \in 1..Len(tx[s].ids) : tx[s].ids[i] \in LocalIDs(tx[s].who)
        /\ tx[s].need = DeleteOwners(tx[s].who, tx[s].ids, tx[s].revoke)
    BY <1>2 DEF SlotInv, DeleteInv, WhoInv
  <2>2. (DeleteOwners(tx[s].who, tx[s].ids, tx[s].revoke))'
           = DeleteOwners(tx[s].who, tx[s].ids, tx[s].revoke)
    <3> QED BY <1>1, <1>8, <2>1, DeleteOwnersStable
  <2> QED BY <1>1, <1>9, <2>1, <2>2 DEF DeleteInv, LocalIDs
<1>12. MemberInv(s)'
  <2> SUFFICES ASSUME tx[s].pc = "write", tx[s].kind \in {"EditMessage", "DeleteMessages"}
               PROVE  MemberInv(s)'
    BY <1>1 DEF MemberInv
  <2>1. \A u \in tx[s].need : ownerLock[u] = s
    BY <1>2 DEF SlotInv, OwnerLockInv
  <2>2. \A u \in tx[s].need : u \in members => u \in members'
    BY <2>1 DEF WriteEffect
  <2> QED BY <1>1, <1>2, <2>2 DEF SlotInv, MemberInv
<1>13. AddInv(s)'
  <2> SUFFICES ASSUME tx[s].pc = "write", tx[s].kind = "AddChatUser"
               PROVE  Addable(s)'
    BY <1>1 DEF AddInv
  <2>1. ChatOp(s) /\ Busy(s) /\ Locking(s)
    BY DEF ChatOp, Busy, Locking
  <2>2. /\ tx[s].peer \in Users /\ tx[s].who \in Users /\ tx[s].peer \in tx[s].need /\ Addable(s)
    BY <1>2, <2>1 DEF SlotInv, SnapshotInv, WhoInv, MutationOwners, AddInv
  <2>3. ownerLock[tx[s].peer] = s
    BY <1>2, <2>2 DEF SlotInv, OwnerLockInv
  <2>4. <<tx[s].peer, tx[s].who>> \in blocked' => <<tx[s].peer, tx[s].who>> \in blocked
    BY <2>2, <2>3 DEF WriteEffect
  <2> QED BY <1>1, <2>2, <2>4 DEF Addable
<1>14. SendInv(s)'
  <2> SUFFICES ASSUME Busy(s), tx[s].kind \in Sends
               PROVE  SendInv(s)'
    BY <1>1 DEF SendInv, Busy
  <2>1. CASE tx[s].pc # "write"
    BY <1>1, <1>2, <2>1 DEF SlotInv, SendInv
  <2>2. CASE tx[s].pc = "write"
    <3>1. tx[s].who \in Users /\ tx[s].who \in tx[s].need
      <4>1. CASE ChatOp(s)
        BY <1>2, <2>2, <4>1 DEF SlotInv, SnapshotInv, WhoInv, Busy, Locking, MutationOwners, Sends
      <4>2. CASE ~ChatOp(s)
        BY <1>2, <2>2, <4>2 DEF SlotInv, PairInv, WhoInv, Busy, PairOp, ChatOp, Sends
      <4> QED BY <4>1, <4>2
    <3>2. rows'[tx[s].who] = rows[tx[s].who]
      BY <1>2, <2>2, <3>1 DEF SlotInv, OwnerLockInv, WriteEffect
    <3>3. \A x : ByRandomID(tx[s].who, x)' = ByRandomID(tx[s].who, x)
      BY <1>1, <3>2 DEF ByRandomID
    <3> QED BY <1>1, <1>2, <3>3 DEF SlotInv, SendInv, Busy
  <2> QED BY <2>1, <2>2
<1> QED BY <1>5, <1>6, <1>7, <1>10, <1>11, <1>12, <1>13, <1>14 DEF SlotInv

\* A commit with a harmless effect preserves the invariant.
LEMMA CommitStep ==
    ASSUME IInv, NEW t \in Slots, WriteEffect(t), End(t)
    PROVE  IInv'
<1>1. \A s \in Slots \ {t} : SlotInv(s)'
  BY OtherSlotCommit
<1>2. tx'[t] = NoTx /\ tx' \in [Slots -> TxType]
  BY NoTxType DEF End, IInv, TypeOK
<1>3. SlotInv(t)'
  BY <1>2, IdleSlotNext
<1>4. /\ chatLock' \in Slots \cup {None} /\ ownerLock' \in [Users -> Slots \cup {None}] /\ ops' \in Nat
  BY DEF End, IInv, TypeOK
<1>5. TypeOK'
  BY <1>2, <1>4 DEF WriteEffect, DataType, TypeOK
<1>6. FanInv'
  <2> SUFFICES ASSUME NEW u \in Users, NEW l \in LocalIDs(u)'
               PROVE  rows'[u][l].fan <= fanouts'
    BY DEF FanInv
  <2>1. /\ Len(rows[u]) \in Nat /\ Len(rows'[u]) \in Nat /\ fanouts \in Nat /\ fanouts' \in Nat
        /\ fanouts <= fanouts'
    BY LenProperties DEF IInv, TypeOK, WriteEffect, DataType, RowsGrow
  <2>2. CASE l \in 1..Len(rows[u])
    <3>1. rows'[u][l].fan = rows[u][l].fan
      BY <2>2 DEF WriteEffect, RowsGrow
    <3>2. rows[u][l].fan \in Nat /\ rows[u][l].fan <= fanouts
      BY <2>2, RowType1 DEF IInv, FanInv, LocalIDs
    <3> QED BY <2>1, <3>1, <3>2
  <2>3. CASE l \notin 1..Len(rows[u])
    <3>1. l \in (Len(rows[u]) + 1)..Len(rows'[u])
      BY <2>1, <2>3 DEF LocalIDs
    <3>2. rows'[u][l].fan = 0 \/ rows'[u][l].fan <= fanouts'
      BY <3>1 DEF WriteEffect, RowsGrow
    <3> QED BY <2>1, <3>2
  <2> QED BY <2>2, <2>3
<1> QED BY <1>1, <1>3, <1>5, <1>6 DEF IInv, WriteEffect

-----------------------------------------------------------------------------
(* Insertions *)

\* Insert appends the given rows, and one "new" event for each.
LEMMA InsertProperties ==
    ASSUME TypeOK, NEW ins \in [Users -> Seq(RowType)], Insert(ins), NEW u \in Users
    PROVE  /\ Len(rows[u]) \in Nat /\ Len(log[u]) \in Nat /\ Len(ins[u]) \in Nat
           /\ rows'[u] \in Seq(RowType) /\ Len(rows'[u]) = Len(rows[u]) + Len(ins[u])
           /\ Len(rows'[u]) \in Nat /\ Len(rows[u]) <= Len(rows'[u])
           /\ \A l \in 1..Len(rows[u]) : rows'[u][l] = rows[u][l]
           /\ \A l \in (Len(rows[u]) + 1)..Len(rows'[u]) :
                l - Len(rows[u]) \in 1..Len(ins[u]) /\ rows'[u][l] = ins[u][l - Len(rows[u])]
           /\ log'[u] \in Seq(EventType) /\ Len(log'[u]) = Len(log[u]) + Len(ins[u])
           /\ \A p \in (Len(log[u]) + 1)..Len(log'[u]) :
                log'[u][p] = [type |-> "new", local |-> Len(rows[u]) + (p - Len(log[u]))]
           /\ ins[u] = <<>> => rows'[u] = rows[u] /\ log'[u] = log[u]
<1> DEFINE n == Len(rows[u])
           m == Len(log[u])
           k == Len(ins[u])
           ev == [i \in 1..k |-> [type |-> "new", local |-> n + i]]
<1>1. rows[u] \in Seq(RowType) /\ log[u] \in Seq(EventType) /\ ins[u] \in Seq(RowType)
  BY DEF TypeOK
<1>2. n \in Nat /\ m \in Nat /\ k \in Nat
  BY <1>1, LenProperties
<1>3. rows'[u] = rows[u] \o ins[u] /\ log'[u] = log[u] \o ev
  BY ZenonT(60) DEF Insert
<1>4. ev \in Seq(EventType) /\ Len(ev) = k /\ \A i \in 1..k : ev[i] = [type |-> "new", local |-> n + i]
  <2>1. \A i \in 1..k : [type |-> "new", local |-> n + i] \in EventType
    BY <1>2 DEF EventType
  <2> QED BY <1>2, <2>1
<1> HIDE DEF ev
<1>5. /\ rows'[u] \in Seq(RowType) /\ Len(rows'[u]) = n + k
      /\ \A i \in 1..n : rows'[u][i] = rows[u][i]
      /\ \A i \in (n + 1)..(n + k) : i - n \in 1..k /\ rows'[u][i] = ins[u][i - n]
  <2>1. /\ rows[u] \o ins[u] \in Seq(RowType) /\ Len(rows[u] \o ins[u]) = n + k
        /\ \A i \in 1..n : (rows[u] \o ins[u])[i] = rows[u][i]
        /\ \A i \in (n + 1)..(n + k) : i - n \in 1..k /\ (rows[u] \o ins[u])[i] = ins[u][i - n]
    BY <1>1, ConcatParts
  <2> QED BY ONLY <1>3, <2>1, Zenon
<1>6. /\ log'[u] \in Seq(EventType) /\ Len(log'[u]) = m + k
      /\ \A i \in (m + 1)..(m + k) : i - m \in 1..k /\ log'[u][i] = ev[i - m]
  <2>1. /\ log[u] \o ev \in Seq(EventType) /\ Len(log[u] \o ev) = m + Len(ev)
        /\ \A i \in (m + 1)..(m + Len(ev)) : i - m \in 1..Len(ev) /\ (log[u] \o ev)[i] = ev[i - m]
    <3>1. \A e \in Seq(EventType) :
            /\ log[u] \o e \in Seq(EventType) /\ Len(log[u] \o e) = m + Len(e)
            /\ \A i \in (m + 1)..(m + Len(e)) : i - m \in 1..Len(e) /\ (log[u] \o e)[i] = e[i - m]
      BY <1>1, ConcatParts
    <3> QED BY <1>4, <3>1, Zenon
  <2> QED BY ONLY <1>3, <1>4, <2>1, Zenon
<1>9. \A p \in (m + 1)..(m + k) : log'[u][p] = [type |-> "new", local |-> n + (p - m)]
  BY <1>4, <1>6, Zenon
<1>10. ins[u] = <<>> => rows'[u] = rows[u] /\ log'[u] = log[u]
  <2> SUFFICES ASSUME ins[u] = <<>> PROVE rows'[u] = rows[u] /\ log'[u] = log[u]
    OBVIOUS
  <2>1. ev = <<>>
    BY <1>4, EmptySeq
  <2> QED BY <1>1, <1>3, <2>1, ConcatEmptySeq
<1>11. Len(rows'[u]) \in Nat /\ Len(rows[u]) <= Len(rows'[u])
  BY <1>2, <1>5
<1> QED BY <1>1, <1>2, <1>5, <1>6, <1>9, <1>10, <1>11, Zenon

Inserted(t) ==
    /\ rows' \in [Users -> Seq(RowType)] /\ log' \in [Users -> Seq(EventType)] /\ fanouts' \in Nat
    /\ RowsGrow /\ OneRowPerRandomID'
    /\ \A u \in Users : rows'[u] # rows[u] \/ log'[u] # log[u] => ownerLock[u] = t

\* What is to be checked of the rows inserted, for the commit to be harmless to
\* the other transactions.
LEMMA InsertEffect ==
    ASSUME TypeOK, OneRowPerRandomID, NEW t \in Slots, NEW ins \in [Users -> Seq(RowType)], Insert(ins),
           fanouts' \in Nat, fanouts <= fanouts',
           \A u \in Users : ins[u] # <<>> => ownerLock[u] = t,
           \A u \in Users : \A j \in 1..Len(ins[u]) :
              \/ ins[u][j].fan = 0
              \/ ins[u][j].fan > fanouts /\ ins[u][j].fan <= fanouts',
           \A u \in Users : \A j \in 1..Len(ins[u]) : ins[u][j].rid # 0 =>
              /\ ByRandomID(u, ins[u][j].rid) = {}
              /\ \A i \in 1..Len(ins[u]) : ins[u][i].rid = ins[u][j].rid => i = j
    PROVE  Inserted(t)
<1>1. rows' \in [Users -> Seq(RowType)] /\ log' \in [Users -> Seq(EventType)]
  <2>1. \A u \in Users : rows'[u] \in Seq(RowType) /\ log'[u] \in Seq(EventType)
    BY ZenonT(60), InsertProperties
  <2>2. rows' = [u \in Users |-> rows'[u]] /\ log' = [u \in Users |-> log'[u]]
    BY DEF Insert
  <2> QED BY <2>1, <2>2
<1>2. RowsGrow
  <2>1. ASSUME NEW u \in Users
        PROVE  /\ Len(rows[u]) <= Len(rows'[u])
               /\ \A l \in 1..Len(rows[u]) : rows'[u][l] = rows[u][l]
               /\ \A l \in (Len(rows[u]) + 1)..Len(rows'[u]) :
                    \/ rows'[u][l].fan = 0
                    \/ rows'[u][l].fan > fanouts /\ rows'[u][l].fan <= fanouts'
    <3>1. Len(rows[u]) <= Len(rows'[u])
      BY InsertProperties, Zenon
    <3>2. \A l \in 1..Len(rows[u]) : rows'[u][l] = rows[u][l]
      BY InsertProperties, Zenon
    <3>3. \A l \in (Len(rows[u]) + 1)..Len(rows'[u]) :
             l - Len(rows[u]) \in 1..Len(ins[u]) /\ rows'[u][l] = ins[u][l - Len(rows[u])]
      BY InsertProperties, Zenon
    <3>4. ASSUME NEW l \in (Len(rows[u]) + 1)..Len(rows'[u])
          PROVE  \/ rows'[u][l].fan = 0
                 \/ rows'[u][l].fan > fanouts /\ rows'[u][l].fan <= fanouts'
      <4>1. PICK j \in 1..Len(ins[u]) : rows'[u][l] = ins[u][j]
        BY <3>3, Zenon
      <4>2. ins[u][j].fan = 0 \/ (ins[u][j].fan > fanouts /\ ins[u][j].fan <= fanouts')
        OBVIOUS
      <4> QED BY <4>1, <4>2
    <3> QED BY <3>1, <3>2, <3>4, Zenon
  <2> QED BY <2>1 DEF RowsGrow
<1>3. \A u \in Users : rows'[u] # rows[u] \/ log'[u] # log[u] => ownerLock[u] = t
  BY ZenonT(60), InsertProperties
<1>4. OneRowPerRandomID'
  <2> SUFFICES ASSUME NEW u \in Users, NEW k \in 1..Len(rows'[u]), NEW l \in 1..Len(rows'[u]),
                      rows'[u][k].rid = rows'[u][l].rid, rows'[u][k].rid # 0
               PROVE  k = l
    BY DEF OneRowPerRandomID, Ids
  <2> DEFINE n == Len(rows[u])
  <2>1. /\ n \in Nat /\ Len(rows'[u]) \in Nat
        /\ \A i \in 1..n : rows'[u][i] = rows[u][i]
        /\ \A i \in (n + 1)..Len(rows'[u]) :
               i - n \in 1..Len(ins[u]) /\ rows'[u][i] = ins[u][i - n]
    BY InsertProperties, Zenon
  <2> HIDE DEF n
  <2>2. \A i \in 1..Len(rows'[u]) : i \in 1..n \/ i \in (n + 1)..Len(rows'[u])
    BY <2>1
  <2>3. ASSUME NEW i \in 1..n, NEW j \in (n + 1)..Len(rows'[u]),
               rows'[u][i].rid = rows'[u][j].rid, rows'[u][i].rid # 0
        PROVE  FALSE
    <3>1. rows[u][i].rid = ins[u][j - n].rid /\ j - n \in 1..Len(ins[u]) /\ ins[u][j - n].rid # 0
      BY ZenonT(60), <2>1, <2>3
    <3>2. ByRandomID(u, ins[u][j - n].rid) = {}
      BY ZenonT(60), <3>1
    <3> QED BY <3>1, <3>2 DEF ByRandomID, n
  <2>4. CASE k \in 1..n /\ l \in 1..n
    <3>1. rows[u][k].rid = rows[u][l].rid /\ rows[u][k].rid # 0
      BY <2>1, <2>4, Zenon
    <3> QED BY <2>4, <3>1 DEF OneRowPerRandomID, Ids, n
  <2>5. CASE k \in (n + 1)..Len(rows'[u]) /\ l \in (n + 1)..Len(rows'[u])
    <3>0. /\ k - n \in 1..Len(ins[u]) /\ l - n \in 1..Len(ins[u])
          /\ ins[u][k - n].rid = ins[u][l - n].rid /\ ins[u][l - n].rid # 0
      BY <2>1, <2>5, Zenon
    <3>1. k - n = l - n
      BY <3>0, Zenon
    <3>2. n \in Int /\ k \in Int /\ l \in Int
      BY <2>1, <2>5
    <3> QED BY <3>1, <3>2, MinusCancels, Zenon
  <2> QED BY <2>2, <2>3, <2>4, <2>5
<1> QED BY <1>1, <1>2, <1>3, <1>4 DEF Inserted

\* The copies fanOut inserts.
CopiesOf(t, owners, rs, service, F) ==
    /\ F \in [Users -> Seq(RowType)]
    /\ \A u \in Users \ owners : F[u] = <<>>
    /\ \A u \in Users \cap owners :
         /\ Len(F[u]) = Len(rs)
         /\ \A j \in 1..Len(rs) :
              /\ F[u][j].fan = fanouts + j /\ F[u][j].peer = Chat
              /\ F[u][j].from = tx[t].who /\ F[u][j].service = service
              /\ u = tx[t].who => F[u][j].rid = rs[j]
              /\ u # tx[t].who => F[u][j].rid = 0

\* What fanOut inserts: for each owner one copy per token, under a new fan-out
\* id, with the token on the sender's copy only.
LEMMA FanRowsProperties ==
    ASSUME TypeOK, NEW t \in Slots, tx[t].who \in Users, NEW owners, NEW rs \in Seq(Tokens),
           NEW service \in BOOLEAN
    PROVE  CopiesOf(t, owners, rs, service, FanRows(t, owners, rs, service))
<1> DEFINE row(u, j) == Row(Chat, tx[t].who, u = tx[t].who, IF u = tx[t].who THEN rs[j] ELSE 0,
                            0, fanouts + j, service, tx[t].text)
           copies(u) == [j \in 1..Len(rs) |-> row(u, j)]
           F == FanRows(t, owners, rs, service)
<1>1. Len(rs) \in Nat /\ fanouts \in Nat /\ tx[t].text \in Nat /\ 0 \in Tokens
  BY LenProperties DEF TypeOK, TxType, Tokens
<1>2. ASSUME NEW u \in Users, NEW j \in 1..Len(rs)
      PROVE  /\ row(u, j) \in RowType /\ row(u, j).fan = fanouts + j
             /\ row(u, j).peer = Chat /\ row(u, j).from = tx[t].who /\ row(u, j).service = service
             /\ u = tx[t].who => row(u, j).rid = rs[j]
             /\ u # tx[t].who => row(u, j).rid = 0
  <2> DEFINE out == u = tx[t].who
             rid == IF u = tx[t].who THEN rs[j] ELSE 0
             fan == fanouts + j
  <2>1. rs[j] \in Tokens
    BY ElementOfSeq
  <2>2. rid \in Tokens /\ out \in BOOLEAN /\ fan \in Nat
    BY <1>1, <2>1
  <2>3. (u = tx[t].who => rid = rs[j]) /\ (u # tx[t].who => rid = 0)
    OBVIOUS
  <2>4. row(u, j) = Row(Chat, tx[t].who, out, rid, 0, fan, service, tx[t].text)
    OBVIOUS
  <2> HIDE DEF row, out, rid
  <2> QED BY <1>1, <2>2, <2>3, <2>4 DEF Row, RowType
<1>3. F = [u \in Users |-> IF u \in owners THEN copies(u) ELSE <<>>]
  BY DEF FanRows
<1> HIDE DEF row, F
<1>4. \A u \in Users : /\ copies(u) \in Seq(RowType) /\ Len(copies(u)) = Len(rs)
                       /\ \A j \in 1..Len(rs) : copies(u)[j] = row(u, j)
  BY <1>1, <1>2
<1> HIDE DEF copies
<1>5. F \in [Users -> Seq(RowType)]
  BY <1>3, <1>4
<1>6. \A u \in Users \ owners : F[u] = <<>>
  BY <1>3
<1>7. \A u \in Users \cap owners : F[u] = copies(u)
  BY <1>3
<1>8. ASSUME NEW u \in Users \cap owners
      PROVE  /\ Len(F[u]) = Len(rs)
             /\ \A j \in 1..Len(rs) :
                  /\ F[u][j].fan = fanouts + j /\ F[u][j].peer = Chat /\ F[u][j].from = tx[t].who
                  /\ F[u][j].service = service
                  /\ u = tx[t].who => F[u][j].rid = rs[j]
                  /\ u # tx[t].who => F[u][j].rid = 0
  <2>1. F[u] = copies(u) /\ Len(copies(u)) = Len(rs) /\ \A j \in 1..Len(rs) : copies(u)[j] = row(u, j)
    BY <1>4, <1>7
  <2>2. ASSUME NEW j \in 1..Len(rs)
        PROVE  /\ F[u][j].fan = fanouts + j /\ F[u][j].peer = Chat /\ F[u][j].from = tx[t].who
               /\ F[u][j].service = service
               /\ u = tx[t].who => F[u][j].rid = rs[j]
               /\ u # tx[t].who => F[u][j].rid = 0
    <3>1. F[u][j] = row(u, j) /\ u \in Users
      BY <2>1
    <3> QED BY <1>2, <3>1
  <2> QED BY <2>1, <2>2
<1> QED BY <1>5, <1>6, <1>8 DEF CopiesOf, F

\* A fan-out to owners whose locks are held, with tokens not stored before, is
\* harmless to the other transactions.
LEMMA FanOutEffect ==
    ASSUME IInv, NEW t \in Slots, tx[t].who \in Users, NEW owners, NEW rs \in Seq(Tokens),
           NEW service \in BOOLEAN, fanOut(t, owners, rs, service),
           \A u \in Users \cap owners : ownerLock[u] = t,
           \A j \in 1..Len(rs) : rs[j] # 0 =>
              /\ ByRandomID(tx[t].who, rs[j]) = {}
              /\ \A i \in 1..Len(rs) : rs[i] = rs[j] => i = j
    PROVE  Inserted(t)
<1> DEFINE F == FanRows(t, owners, rs, service)
<1>1. TypeOK /\ OneRowPerRandomID /\ Insert(F) /\ fanouts' = fanouts + Len(rs)
  BY DEF IInv, fanOut
<1>2. Len(rs) \in Nat /\ fanouts \in Nat /\ fanouts' \in Nat /\ fanouts <= fanouts'
  BY <1>1, LenProperties DEF TypeOK
<1>0. CopiesOf(t, owners, rs, service, F)
  BY <1>1, FanRowsProperties
<1> HIDE DEF F
<1>3. /\ F \in [Users -> Seq(RowType)]
      /\ \A u \in Users \ owners : F[u] = <<>>
      /\ \A u \in Users \cap owners :
           /\ Len(F[u]) = Len(rs)
           /\ \A j \in 1..Len(rs) :
                /\ F[u][j].fan = fanouts + j /\ F[u][j].peer = Chat
                /\ F[u][j].from = tx[t].who /\ F[u][j].service = service
                /\ u = tx[t].who => F[u][j].rid = rs[j]
                /\ u # tx[t].who => F[u][j].rid = 0
  BY <1>0 DEF CopiesOf
<1>4. \A u \in Users : F[u] # <<>> => ownerLock[u] = t
  BY <1>3
<1>5. \A u \in Users \ owners : 1..Len(F[u]) = {}
  <2>1. Len(<<>>) = 0 /\ 1..0 = {}
    OBVIOUS
  <2> QED BY <1>3, <2>1
<1>6. \A u \in Users : \A j \in 1..Len(F[u]) :
         \/ F[u][j].fan = 0
         \/ F[u][j].fan > fanouts /\ F[u][j].fan <= fanouts'
  <2> SUFFICES ASSUME NEW u \in Users, NEW j \in 1..Len(F[u])
               PROVE  F[u][j].fan > fanouts /\ F[u][j].fan <= fanouts'
    OBVIOUS
  <2>1. u \in owners
    BY <1>5
  <2>2. j \in 1..Len(rs) /\ F[u][j].fan = fanouts + j
    BY <1>3, <2>1
  <2> QED BY <1>1, <1>2, <2>2
<1>7. \A u \in Users : \A j \in 1..Len(F[u]) : F[u][j].rid # 0 =>
         /\ ByRandomID(u, F[u][j].rid) = {}
         /\ \A i \in 1..Len(F[u]) : F[u][i].rid = F[u][j].rid => i = j
  <2> SUFFICES ASSUME NEW u \in Users, NEW j \in 1..Len(F[u]), F[u][j].rid # 0
               PROVE  /\ ByRandomID(u, F[u][j].rid) = {}
                      /\ \A i \in 1..Len(F[u]) : F[u][i].rid = F[u][j].rid => i = j
    BY ZenonT(60)
  <2>1. u \in owners
    BY <1>5
  <2>2. /\ Len(F[u]) = Len(rs)
        /\ \A i \in 1..Len(rs) : /\ u = tx[t].who => F[u][i].rid = rs[i]
                                 /\ u # tx[t].who => F[u][i].rid = 0
    BY <1>3, <2>1
  <2>3. u = tx[t].who /\ \A i \in 1..Len(rs) : F[u][i].rid = rs[i]
    BY <2>2
  <2>4. j \in 1..Len(rs) /\ rs[j] # 0 /\ F[u][j].rid = rs[j]
    BY <2>2, <2>3
  <2>5. ByRandomID(u, rs[j]) = {} /\ \A i \in 1..Len(rs) : rs[i] = rs[j] => i = j
    BY <2>3, <2>4
  <2>6. ASSUME NEW i \in 1..Len(F[u]), F[u][i].rid = F[u][j].rid
        PROVE  i = j
    BY <2>2, <2>3, <2>4, <2>5, <2>6
  <2> QED BY <2>4, <2>5, <2>6
<1> QED BY <1>1, <1>2, <1>3, <1>4, <1>6, <1>7, InsertEffect, Zenon

\* The two sides of a 1:1 message.
SidesOf(t, rs, F) ==
    /\ F \in [Users -> Seq(RowType)]
    /\ \A u \in Users \ {tx[t].who, tx[t].peer} : F[u] = <<>>
    /\ \A u \in {tx[t].who, tx[t].peer} :
         /\ Len(F[u]) = Len(rs)
         /\ \A j \in 1..Len(rs) :
              /\ F[u][j].fan = 0 /\ F[u][j].peer \in Users
              /\ u = tx[t].who => F[u][j].rid = rs[j]
              /\ u # tx[t].who => F[u][j].rid = 0

\* What a 1:1 send inserts on both sides, with the token on the sender's row
\* only.
LEMMA UserRowsProperties ==
    ASSUME TypeOK, NEW t \in Slots, tx[t].who \in Users, tx[t].peer \in Users, NEW rs \in Seq(Tokens)
    PROVE  SidesOf(t, rs, UserRows(t, rs))
<1> DEFINE from == tx[t].who
           to == tx[t].peer
           mirror(j) == IF from = to THEN 0 ELSE Len(rows[to]) + j
           sent(j) == Row(to, from, TRUE, rs[j], mirror(j), 0, FALSE, tx[t].text)
           got(j) == Row(from, from, FALSE, 0, Len(rows[from]) + j, 0, FALSE, tx[t].text)
           S == [j \in 1..Len(rs) |-> sent(j)]
           G == [j \in 1..Len(rs) |-> got(j)]
           F == UserRows(t, rs)
<1>1. /\ Len(rs) \in Nat /\ tx[t].text \in Nat /\ 0 \in Tokens
      /\ Len(rows[from]) \in Nat /\ Len(rows[to]) \in Nat
  BY LenProperties DEF TypeOK, TxType, Tokens
<1>2. ASSUME NEW j \in 1..Len(rs)
      PROVE  /\ sent(j) \in RowType /\ sent(j).fan = 0 /\ sent(j).peer \in Users /\ sent(j).rid = rs[j]
             /\ got(j) \in RowType /\ got(j).fan = 0 /\ got(j).peer \in Users /\ got(j).rid = 0
  <2>1. rs[j] \in Tokens
    BY ElementOfSeq
  <2>2. mirror(j) \in Nat /\ Len(rows[from]) + j \in Nat
    BY <1>1
  <2> HIDE DEF mirror
  <2> QED BY <1>1, <2>1, <2>2 DEF Row, RowType
<1>3. F = [u \in Users |-> IF u = from THEN S ELSE IF u = to THEN G ELSE <<>>]
  BY DEF UserRows
<1> HIDE DEF sent, got, F
<1>4. /\ S \in Seq(RowType) /\ Len(S) = Len(rs) /\ \A j \in 1..Len(rs) : S[j] = sent(j)
      /\ G \in Seq(RowType) /\ Len(G) = Len(rs) /\ \A j \in 1..Len(rs) : G[j] = got(j)
  BY <1>1, <1>2
<1> HIDE DEF S, G
<1>5. F \in [Users -> Seq(RowType)] /\ \A u \in Users \ {from, to} : F[u] = <<>>
  BY <1>3, <1>4
<1>6. F[from] = S /\ (from # to => F[to] = G)
  BY <1>3
<1>7. ASSUME NEW u \in {from, to}
      PROVE  /\ Len(F[u]) = Len(rs)
             /\ \A j \in 1..Len(rs) : /\ F[u][j].fan = 0 /\ F[u][j].peer \in Users
                                      /\ u = from => F[u][j].rid = rs[j]
                                      /\ u # from => F[u][j].rid = 0
  <2>1. CASE u = from
    BY <1>2, <1>4, <1>6, <2>1
  <2>2. CASE u # from
    BY <1>2, <1>4, <1>6, <2>2
  <2> QED BY <2>1, <2>2
<1> QED BY ZenonT(60), <1>5, <1>7 DEF SidesOf, F

\* The tokens a send inserts are new, and each is inserted once.
LEMMA FreshProperties ==
    ASSUME TypeOK, NEW t \in Slots, tx[t].ids \in Seq(Tokens)
    PROVE  /\ Fresh(t) \in Seq(Tokens) /\ Len(Fresh(t)) \in Nat
           /\ \A k \in 1..Len(Fresh(t)) : Fresh(t)[k] # 0 =>
                /\ Fresh(t)[k] \in RandomIDs \ tx[t].seen
                /\ \A l \in 1..Len(Fresh(t)) : Fresh(t)[l] = Fresh(t)[k] => l = k
<1> DEFINE ids == tx[t].ids
           S == {i \in 1..Len(ids) :
                   \/ ids[i] = 0
                   \/ ids[i] \notin tx[t].seen /\ \A j \in 1..(i - 1) : ids[j] # ids[i]}
           F == Pick(ids, S)
<1>1. Fresh(t) = F
  BY DEF Fresh
<1>2. S \in SUBSET (1..Len(ids)) /\ ids \in Seq(Tokens) /\ Len(ids) \in Nat
  BY LenProperties
<1>3. \A i \in S : i \in Nat /\ ids[i] \in Tokens /\
        (ids[i] # 0 => ids[i] \notin tx[t].seen /\ \A j \in 1..(i - 1) : ids[j] # ids[i])
  BY <1>2, ElementOfSeq
<1>4. \A i \in S : i \in 1..Len(ids)
  OBVIOUS
<1> HIDE DEF S, ids
<1>5. /\ F \in Seq(Tokens) /\ Len(F) \in Nat
      /\ \A k \in 1..Len(F) : At(S, k) \in S /\ F[k] = ids[At(S, k)]
      /\ \A k, l \in 1..Len(F) : At(S, k) = At(S, l) => k = l
  BY <1>2, PickProperties
<1> HIDE DEF F
<1>6. ASSUME NEW k \in 1..Len(F), F[k] # 0
      PROVE  /\ F[k] \in RandomIDs \ tx[t].seen
             /\ \A l \in 1..Len(F) : F[l] = F[k] => l = k
  <2>1. F[k] \in RandomIDs \ tx[t].seen
    BY <1>3, <1>5, <1>6 DEF Tokens
  <2>2. ASSUME NEW l \in 1..Len(F), F[l] = F[k]
        PROVE  l = k
    <3>1. /\ At(S, k) \in S /\ At(S, l) \in S /\ ids[At(S, k)] = ids[At(S, l)] /\ ids[At(S, k)] # 0
      BY <1>5, <1>6, <2>2
    <3>2. \A a, b \in S : ids[a] = ids[b] /\ ids[a] # 0 => a = b
      <4> SUFFICES ASSUME NEW a \in S, NEW b \in S, ids[a] = ids[b], ids[a] # 0, a # b
                   PROVE  FALSE
        OBVIOUS
      <4>1. a \in 1..Len(ids) /\ b \in 1..Len(ids)
        BY <1>4
      <4>2. a \in 1..(b - 1) \/ b \in 1..(a - 1)
        BY <1>2, <4>1
      <4> QED BY <1>3, <4>2
    <3>3. At(S, k) = At(S, l)
      BY <3>1, <3>2
    <3> QED BY <1>5, <3>3
  <2> QED BY <2>1, <2>2
<1> QED BY <1>1, <1>5, <1>6
=============================================================================
