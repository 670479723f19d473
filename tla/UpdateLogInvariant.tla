------------------------- MODULE UpdateLogInvariant -------------------------
(***************************************************************************)
(* The inductive invariant behind the theorems of UpdateLogProofs, and the *)
(* steps that do not write to the database: opening a transaction, taking  *)
(* its locks, reading under them, and giving up.                           *)
(*                                                                         *)
(* A transaction of the store reads some of what decides its writes before *)
(* it holds any lock (the owners of the copies an edit or a delete will    *)
(* touch) and the rest under locks. The invariant has one conjunct per     *)
(* such piece: what was read is still so, because whatever could change it *)
(* needs a lock the transaction holds, or never changes at all.            *)
(***************************************************************************)
EXTENDS UpdateLog, FiniteSetTheorems, SequenceTheorems, WellFoundedInduction, TLAPS

USE SMTT(30), ZenonT(30), SMTT(60)


\* A nonempty set of naturals has a least element: the owner that lockOwners
\* locks next exists.
LEMMA LeastElement ==
    ASSUME NEW T, T \subseteq Nat, T # {}
    PROVE  \E x \in T : \A y \in T : x <= y
<1> DEFINE R == OpToRel(<, Nat)
<1>1. IsWellFoundedOn(R, Nat)
  BY ZenonT(60), NatLessThanWellFounded
<1>2. \A x, y \in Nat : <<y, x>> \in R <=> y < x
  BY DEF OpToRel
<1> HIDE DEF R
<1>3. PICK x \in T : \A y \in T : ~(<<y, x>> \in R)
  BY ZenonT(60), <1>1, WFMin
<1>4. \A y \in T : ~(y < x)
  BY ZenonT(60), <1>2, <1>3
<1>5. \A y \in T : y \in Nat /\ x \in Nat
  OBVIOUS
<1> QED BY <1>4, <1>5

-----------------------------------------------------------------------------
(* Pick *)

Below(S, i) == {j \in S : j <= i}

\* Sets of positions are finite, and so are their initial parts.
LEMMA BelowFinite ==
    ASSUME NEW n \in Nat, NEW S \in SUBSET (1..n), NEW i
    PROVE  /\ IsFiniteSet(S) /\ Cardinality(S) \in Nat
           /\ IsFiniteSet(Below(S, i)) /\ Cardinality(Below(S, i)) \in Nat
<1>1. IsFiniteSet(1..n)
  BY FS_Interval
<1>2. IsFiniteSet(S)
  BY ZenonT(60), <1>1, FS_Subset
<1>3. Below(S, i) \in SUBSET S
  BY DEF Below
<1>4. IsFiniteSet(Below(S, i))
  BY <1>2, <1>3, FS_Subset
<1> QED BY <1>2, <1>4, FS_CardinalityType

\* The initial parts of a set of positions at both ends.
LEMMA BelowEnds ==
    ASSUME NEW n \in Nat, NEW S \in SUBSET (1..n)
    PROVE  Below(S, n) = S /\ Below(S, 0) = {}
<1>1. \A j \in S : j <= n /\ ~(j <= 0)
  OBVIOUS
<1>2. Below(S, n) = S
  BY ZenonT(60), <1>1 DEF Below
<1>3. Below(S, 0) = {}
  BY ZenonT(60), <1>1 DEF Below
<1> QED BY <1>2, <1>3

\* One more position adds at most one element.
LEMMA BelowStep ==
    ASSUME NEW n \in Nat, NEW S \in SUBSET (1..n), NEW i \in Nat \ {0}
    PROVE  /\ i \notin Below(S, i - 1)
           /\ Below(S, i) = Below(S, i - 1) \cup (S \cap {i})
<1>1. ~(i <= i - 1) /\ \A j \in S : (j <= i <=> j <= i - 1 \/ j = i)
  OBVIOUS
<1> QED BY ZenonT(60), <1>1 DEF Below

\* Among the positions S of a batch, the k-th has exactly k at or before it.
LEMMA AtProperties ==
    ASSUME NEW n \in Nat, NEW S \in SUBSET (1..n), NEW k \in 1..Cardinality(S)
    PROVE  At(S, k) \in S /\ Cardinality(Below(S, At(S, k))) = k
<1> DEFINE T == {i \in 1..n : k <= Cardinality(Below(S, i))}
<1>1. IsFiniteSet(S) /\ Cardinality(S) \in Nat
  BY BelowFinite
<1>2. \A i \in Nat : IsFiniteSet(Below(S, i)) /\ Cardinality(Below(S, i)) \in Nat
  BY ZenonT(60), BelowFinite
<1>3. n \in T
  <2>1. Below(S, n) = S
    BY BelowEnds
  <2>2. S # {}
    <3> SUFFICES ASSUME S = {} PROVE FALSE
      OBVIOUS
    <3>1. Cardinality(S) = 0
      BY FS_EmptySet
    <3> QED BY <3>1
  <2>3. n # 0
    <3>1. PICK j \in S : TRUE
      BY ZenonT(60), <2>2
    <3> QED BY <3>1
  <2> QED BY <1>1, <2>1, <2>3
<1>4. PICK i \in T : \A y \in T : i <= y
  <2>1. T \subseteq Nat
    OBVIOUS
  <2> HIDE DEF T
  <2> QED BY ZenonT(60), <1>3, <2>1, LeastElement
<1>5. i \in 1..n /\ i \in Nat \ {0} /\ i - 1 \in Nat /\ k <= Cardinality(Below(S, i)) /\ k \in Nat \ {0}
  BY <1>1
<1> HIDE DEF T
<1>6. Cardinality(Below(S, i - 1)) < k
  <2>1. CASE i = 1
    <3>1. Below(S, i - 1) = {}
      BY <1>5, <2>1, BelowEnds
    <3>2. Cardinality(Below(S, i - 1)) = 0
      BY <3>1, FS_EmptySet
    <3> QED BY <1>5, <3>2
  <2>2. CASE i # 1
    <3>1. i - 1 \in 1..n /\ ~(i <= i - 1)
      BY <1>5, <2>2
    <3>2. i - 1 \notin T
      BY <1>4, <3>1
    <3>3. ~(k <= Cardinality(Below(S, i - 1)))
      BY <3>1, <3>2 DEF T
    <3>4. Cardinality(Below(S, i - 1)) \in Nat
      BY <1>2, <1>5
    <3> QED BY <1>5, <3>3, <3>4
  <2> QED BY <2>1, <2>2
<1>7. i \in S
  <2> SUFFICES ASSUME i \notin S PROVE FALSE
    OBVIOUS
  <2>1. Below(S, i) = Below(S, i - 1) \cup (S \cap {i})
    BY <1>5, BelowStep
  <2>3. Below(S, i) = Below(S, i - 1)
    BY <2>1
  <2>2. Cardinality(Below(S, i - 1)) \in Nat
    BY <1>2, <1>5
  <2> QED BY <1>5, <1>6, <2>2, <2>3
<1>8. Cardinality(Below(S, i)) = Cardinality(Below(S, i - 1)) + 1
  <2>1. Below(S, i) = Below(S, i - 1) \cup {i} /\ i \notin Below(S, i - 1)
    BY <1>5, <1>7, BelowStep
  <2>2. IsFiniteSet(Below(S, i - 1))
    BY <1>2, <1>5
  <2> QED BY <2>1, <2>2, FS_AddElement
<1>9. Cardinality(Below(S, i)) = k
  <2>1. Cardinality(Below(S, i - 1)) \in Nat
    BY <1>2, <1>5
  <2> QED BY <1>5, <1>6, <1>8, <2>1
<1> QED BY ZenonT(60), <1>7, <1>9 DEF At, Below

\* Pick keeps what is at the positions S, one element for each.
LEMMA PickProperties ==
    ASSUME NEW E, NEW s \in Seq(E), NEW S \in SUBSET (1..Len(s))
    PROVE  /\ Pick(s, S) \in Seq(E)
           /\ Len(Pick(s, S)) \in Nat
           /\ S = {} => Pick(s, S) = <<>>
           /\ Pick(s, S) = <<>> => S = {}
           /\ \A k \in 1..Len(Pick(s, S)) :
                At(S, k) \in S /\ Pick(s, S)[k] = s[At(S, k)]
           /\ \A k, l \in 1..Len(Pick(s, S)) : At(S, k) = At(S, l) => k = l
<1> DEFINE n == Cardinality(S)
<1>1. n \in Nat /\ IsFiniteSet(S) /\ Len(s) \in Nat
  BY ZenonT(60), LenProperties, BelowFinite
<1>2. \A k \in 1..n : At(S, k) \in S /\ Cardinality(Below(S, At(S, k))) = k
  BY ZenonT(60), <1>1, AtProperties
<1>3. \A k \in 1..n : s[At(S, k)] \in E
  BY ZenonT(60), <1>2, ElementOfSeq
<1>4. Pick(s, S) = [k \in 1..n |-> s[At(S, k)]]
  BY DEF Pick
<1> HIDE DEF n
<1>5. Pick(s, S) \in Seq(E) /\ Len(Pick(s, S)) = n
  BY <1>1, <1>3, <1>4
<1>6. \A k \in 1..n : Pick(s, S)[k] = s[At(S, k)]
  BY <1>4
<1>7. S = {} <=> n = 0
  BY ZenonT(60), <1>1, FS_EmptySet DEF n
<1>8. Pick(s, S) = <<>> <=> n = 0
  BY <1>1, <1>5, EmptySeq
<1> QED BY <1>1, <1>2, <1>5, <1>6, <1>7, <1>8

\* Subtraction of the same number is injective.
LEMMA MinusCancels == \A a, b, c \in Int : a - c = b - c => a = b
OBVIOUS

\* A function on 1..n is a sequence of length n.
LEMMA SeqOfFunction ==
    ASSUME NEW S, NEW n \in Nat, NEW f \in [1..n -> S]
    PROVE  f \in Seq(S) /\ Len(f) = n
OBVIOUS

\* The elements of a concatenation, by the part they come from.
LEMMA ConcatParts ==
    ASSUME NEW S, NEW a \in Seq(S), NEW b \in Seq(S)
    PROVE  /\ a \o b \in Seq(S) /\ Len(a) \in Nat /\ Len(b) \in Nat
           /\ Len(a \o b) = Len(a) + Len(b)
           /\ \A i \in 1..Len(a) : (a \o b)[i] = a[i]
           /\ \A i \in (Len(a) + 1)..(Len(a) + Len(b)) :
                i - Len(a) \in 1..Len(b) /\ (a \o b)[i] = b[i - Len(a)]
<1>1. a \o b \in Seq(S) /\ Len(a) \in Nat /\ Len(b) \in Nat /\ Len(a \o b) = Len(a) + Len(b)
  BY ConcatProperties, LenProperties
<1>2. \A i \in 1..(Len(a) + Len(b)) : (a \o b)[i] = IF i <= Len(a) THEN a[i] ELSE b[i - Len(a)]
  BY ConcatProperties
<1>3. \A n, m \in Nat : /\ \A i \in 1..n : i \in 1..(n + m) /\ i <= n
                        /\ \A i \in (n + 1)..(n + m) : i \in 1..(n + m) /\ ~(i <= n) /\ i - n \in 1..m
  OBVIOUS
<1>4. \A i \in 1..Len(a) : (a \o b)[i] = a[i]
  <2> SUFFICES ASSUME NEW i \in 1..Len(a) PROVE (a \o b)[i] = a[i]
    OBVIOUS
  <2>1. i \in 1..(Len(a) + Len(b)) /\ i <= Len(a)
    BY <1>1, <1>3
  <2> QED BY ONLY <1>2, <2>1, Zenon
<1>5. \A i \in (Len(a) + 1)..(Len(a) + Len(b)) :
         i - Len(a) \in 1..Len(b) /\ (a \o b)[i] = b[i - Len(a)]
  <2> SUFFICES ASSUME NEW i \in (Len(a) + 1)..(Len(a) + Len(b))
               PROVE  i - Len(a) \in 1..Len(b) /\ (a \o b)[i] = b[i - Len(a)]
    OBVIOUS
  <2>1. i \in 1..(Len(a) + Len(b)) /\ ~(i <= Len(a)) /\ i - Len(a) \in 1..Len(b)
    BY <1>1, <1>3
  <2> QED BY ONLY <1>2, <2>1, Zenon
<1> QED BY <1>1, <1>4, <1>5

-----------------------------------------------------------------------------
(* The inductive invariant *)

Busy(t) == tx[t].pc # "idle"
Locking(t) == tx[t].pc \in {"owners", "read", "write"}

\* Operations that run under the chats row lock, and those on a pair of users.
ChatOp(t) ==
    \/ tx[t].kind \in {"SendChatMessage", "AddChatUser", "RemoveChatUser",
                        "SetChatTitle", "SetChatDefaultBannedRights"}
    \/ tx[t].kind = "ForwardMessages" /\ tx[t].peer = Chat
PairOp(t) ==
    \/ tx[t].kind \in {"SendMessage", "BlockUser", "UnblockUser"}
    \/ tx[t].kind = "ForwardMessages" /\ tx[t].peer # Chat

WhoInv(t) == Busy(t) => tx[t].who \in Users

ChatLockInv(t) ==
    /\ tx[t].pc \in {"chat", "members"} => ChatOp(t)
    /\ tx[t].pc = "members" \/ (Locking(t) /\ ChatOp(t)) => chatLock = t

OwnerLockInv(t) ==
    tx[t].pc \in {"read", "write"} => \A u \in tx[t].need : ownerLock[u] = t

\* What an operation read under the chats row lock is still so, because only a
\* holder of that lock changes it.
SnapshotInv(t) ==
    ChatOp(t) =>
        /\ Busy(t) /\ tx[t].kind \in {"AddChatUser", "RemoveChatUser"} => tx[t].peer \in Users
        /\ Busy(t) /\ tx[t].kind = "SendChatMessage" => tx[t].peer = Chat
        /\ Locking(t) => /\ tx[t].mem = members /\ tx[t].banned = rights
                         /\ tx[t].who \in members
                         /\ tx[t].need = MutationOwners(t)

PairInv(t) ==
    Busy(t) /\ PairOp(t) => tx[t].peer \in Users /\ tx[t].need = {tx[t].who, tx[t].peer}

\* The owners an edit or a delete set out to lock, from rows read before any
\* lock, are still the owners of the copies when it writes.
EditInv(t) ==
    Busy(t) /\ tx[t].kind = "EditMessage" =>
        /\ tx[t].ids[1] \in LocalIDs(tx[t].who)
        /\ tx[t].need = EditOwners(tx[t].who, tx[t].ids[1])

DeleteInv(t) ==
    Busy(t) /\ tx[t].kind = "DeleteMessages" =>
        /\ \A i \in 1..Len(tx[t].ids) : tx[t].ids[i] \in LocalIDs(tx[t].who)
        /\ tx[t].need = DeleteOwners(tx[t].who, tx[t].ids, tx[t].revoke)

\* The members an edit or a delete read, among the owners it locked, have not
\* left: a removal needs the lock of the user removed.
MemberInv(t) ==
    tx[t].pc = "write" /\ tx[t].kind \in {"EditMessage", "DeleteMessages"} =>
        \A u \in tx[t].need : u \in tx[t].mem => u \in members

\* The dedup lookup of a send is still accurate when it inserts.
SendInv(t) ==
    Busy(t) /\ tx[t].kind \in Sends =>
        /\ tx[t].ids \in Seq(Tokens)
        /\ tx[t].pc = "write" =>
             \A r \in RandomIDs : r \in tx[t].seen <=> ByRandomID(tx[t].who, r) # {}

\* The re-check of a block under the advisory locks is still accurate.
AddInv(t) ==
    tx[t].pc = "write" /\ tx[t].kind = "AddChatUser" => Addable(t)

SlotInv(t) ==
    /\ WhoInv(t) /\ ChatLockInv(t) /\ OwnerLockInv(t) /\ SnapshotInv(t) /\ PairInv(t)
    /\ EditInv(t) /\ DeleteInv(t) /\ MemberInv(t) /\ SendInv(t) /\ AddInv(t)

\* Fan-out ids are allocated in order, so that the copies of a message are all
\* inserted by the transaction that allocated its id.
FanInv == \A u \in Users : \A l \in LocalIDs(u) : rows[u][l].fan <= fanouts

IInv == TypeOK /\ FanInv /\ OneRowPerRandomID /\ \A t \in Slots : SlotInv(t)

\* A slot without a transaction satisfies its invariant trivially.
LEMMA IdleSlot ==
    ASSUME NEW t \in Slots, tx[t] = NoTx
    PROVE  SlotInv(t)
<1>1. tx[t].pc = "idle" /\ tx[t].kind = "none"
  BY DEF NoTx
<1> QED BY <1>1 DEF SlotInv, WhoInv, ChatLockInv, OwnerLockInv, SnapshotInv, PairInv, EditInv,
                    DeleteInv, MemberInv, SendInv, AddInv, Busy, Locking, ChatOp

\* The same of a slot whose transaction has just ended.
LEMMA IdleSlotNext ==
    ASSUME NEW t \in Slots, tx'[t] = NoTx
    PROVE  SlotInv(t)'
<1>1. tx'[t].pc = "idle" /\ tx'[t].kind = "none"
  BY DEF NoTx
<1> QED BY <1>1 DEF SlotInv, WhoInv, ChatLockInv, OwnerLockInv, SnapshotInv, PairInv, EditInv,
                    DeleteInv, MemberInv, SendInv, AddInv, Busy, Locking, ChatOp

\* The record of a slot without a transaction has its type.
LEMMA NoTxType == NoTx \in TxType
BY DEF NoTx, TxType, Chat, None, Rights

\* The invariant holds of a database with one chat and no messages.
LEMMA InitIInv == Init => IInv
<1> SUFFICES ASSUME Init PROVE IInv
  OBVIOUS
<1>1. \A t \in Slots : SlotInv(t)
  BY IdleSlot DEF Init
<1>2. TypeOK
  <2>1. rows \in [Users -> Seq(RowType)] /\ log \in [Users -> Seq(EventType)]
    BY DEF Init
  <2>2. tx \in [Slots -> TxType]
    BY NoTxType DEF Init
  <2>3. ownerLock \in [Users -> Slots \cup {None}]
    BY DEF Init
  <2> QED BY <2>1, <2>2, <2>3, FoundersAssumption DEF Init, TypeOK
<1>3. FanInv /\ OneRowPerRandomID
  BY DEF Init, FanInv, OneRowPerRandomID, LocalIDs, Ids
<1> QED BY <1>1, <1>2, <1>3 DEF IInv

-----------------------------------------------------------------------------
(* Steps that write nothing *)

\* A slot keeps its invariant while others open transactions, take locks that it
\* does not hold, read, or roll back.
LEMMA OtherSlot ==
    ASSUME NEW s \in Slots, SlotInv(s), tx'[s] = tx[s], UNCHANGED dbVars,
           chatLock = s => chatLock' = s,
           \A u \in Users : ownerLock[u] = s => ownerLock'[u] = s,
           tx[s].need \subseteq Users
    PROVE  SlotInv(s)'
<1> USE DEF dbVars
<1>1. WhoInv(s)' /\ ChatLockInv(s)'
  BY DEF SlotInv, WhoInv, ChatLockInv, Busy, Locking, ChatOp
<1>2. OwnerLockInv(s)'
  BY DEF SlotInv, OwnerLockInv
<1>3. SnapshotInv(s)' /\ PairInv(s)'
  BY DEF SlotInv, SnapshotInv, PairInv, Busy, Locking, ChatOp, PairOp, MutationOwners
<1>4. EditInv(s)'
  <2>1. EditInv(s)
    BY DEF SlotInv
  <2>2. EditOwners(tx[s].who, tx[s].ids[1])' = EditOwners(tx[s].who, tx[s].ids[1])
    BY DEF EditOwners, copyOwners
  <2> QED BY <2>1, <2>2 DEF EditInv, Busy, LocalIDs
<1>5. DeleteInv(s)'
  <2>1. DeleteInv(s)
    BY DEF SlotInv
  <2>2. (DeleteOwners(tx[s].who, tx[s].ids, tx[s].revoke))'
           = DeleteOwners(tx[s].who, tx[s].ids, tx[s].revoke)
    BY DEF DeleteOwners, copyOwners
  <2> QED BY <2>1, <2>2 DEF DeleteInv, Busy, LocalIDs
<1>6. MemberInv(s)' /\ AddInv(s)'
  BY DEF SlotInv, MemberInv, AddInv, Addable
<1>7. SendInv(s)'
  BY DEF SlotInv, SendInv, Busy, ByRandomID
<1> QED BY <1>1, <1>2, <1>3, <1>4, <1>5, <1>6, <1>7 DEF SlotInv

\* A step that writes nothing keeps the invariant if it does so for its own slot.
LEMMA OwnSlot ==
    ASSUME IInv, NEW t \in Slots, UNCHANGED dbVars,
           NEW r \in TxType, tx' = [tx EXCEPT ![t] = r],
           chatLock' \in Slots \cup {None}, ownerLock' \in [Users -> Slots \cup {None}], ops' \in Nat,
           \A s \in Slots \ {t} :
              /\ chatLock = s => chatLock' = s
              /\ \A u \in Users : ownerLock[u] = s => ownerLock'[u] = s,
           SlotInv(t)'
    PROVE  IInv'
<1>1. tx' \in [Slots -> TxType] /\ tx'[t] = r /\ \A s \in Slots \ {t} : tx'[s] = tx[s]
  BY DEF IInv, TypeOK
<1>2. TypeOK'
  BY <1>1 DEF IInv, TypeOK, dbVars
<1>3. FanInv' /\ OneRowPerRandomID'
  BY DEF IInv, FanInv, OneRowPerRandomID, LocalIDs, Ids, dbVars
<1>4. \A s \in Slots \ {t} : tx[s].need \subseteq Users
  BY DEF IInv, TypeOK, TxType
<1>5. \A s \in Slots \ {t} : SlotInv(s)'
  BY <1>1, <1>4, OtherSlot DEF IInv
<1> QED BY <1>2, <1>3, <1>5 DEF IInv

\* A transaction that returns an error rolls back: it only releases its locks.
LEMMA RefuseStep ==
    ASSUME IInv, NEW t \in Slots, Refuse(t)
    PROVE  IInv'
<1>1. /\ tx' = [tx EXCEPT ![t] = NoTx] /\ UNCHANGED dbVars /\ UNCHANGED ops
      /\ chatLock' = IF chatLock = t THEN None ELSE chatLock
      /\ ownerLock' = [u \in Users |-> IF ownerLock[u] = t THEN None ELSE ownerLock[u]]
  BY DEF Refuse, End
<1>2. /\ chatLock' \in Slots \cup {None} /\ ownerLock' \in [Users -> Slots \cup {None}] /\ ops' \in Nat
  BY <1>1 DEF IInv, TypeOK
<1>3. \A s \in Slots \ {t} :
        /\ chatLock = s => chatLock' = s
        /\ \A u \in Users : ownerLock[u] = s => ownerLock'[u] = s
  BY <1>1
<1>4. tx'[t] = NoTx
  BY <1>1 DEF IInv, TypeOK
<1>5. SlotInv(t)'
  BY <1>4, IdleSlotNext
<1> QED BY ZenonT(60), <1>1, <1>2, <1>3, <1>5, NoTxType, OwnSlot

\* Taking the chats row lock.
LEMMA ChatLockStep ==
    ASSUME IInv, NEW t \in Slots, ChatByIDForUpdate(t)
    PROVE  IInv'
<1> DEFINE r == [tx[t] EXCEPT !.pc = "members"]
<1>1. /\ tx[t].pc = "chat" /\ chatLock = None /\ chatLock' = t
      /\ tx' = [tx EXCEPT ![t] = r] /\ UNCHANGED dbVars /\ UNCHANGED <<ownerLock, ops>>
  BY DEF ChatByIDForUpdate, IInv, TypeOK
<1>2. tx[t] \in TxType
  BY DEF IInv, TypeOK
<1>3. r \in TxType /\ r.pc = "members"
      /\ r.kind = tx[t].kind /\ r.who = tx[t].who /\ r.peer = tx[t].peer /\ r.ids = tx[t].ids
      /\ r.need = tx[t].need /\ r.revoke = tx[t].revoke
  BY <1>2 DEF TxType
<1>4. tx'[t] = r
  BY <1>1 DEF IInv, TypeOK
<1> HIDE DEF r
<1>5. SlotInv(t)'
  <2>1. ChatOp(t) /\ Busy(t) /\ tx[t].kind \notin {"EditMessage", "DeleteMessages"} /\ ~PairOp(t)
    BY <1>1 DEF IInv, SlotInv, ChatLockInv, ChatOp, Busy, PairOp
  <2>2. WhoInv(t)' /\ ChatLockInv(t)' /\ OwnerLockInv(t)'
    BY <1>1, <1>3, <1>4, <2>1 DEF IInv, SlotInv, WhoInv, ChatLockInv, OwnerLockInv, ChatOp, Busy, Locking
  <2>3. SnapshotInv(t)' /\ PairInv(t)'
    BY <1>3, <1>4, <2>1 DEF IInv, SlotInv, SnapshotInv, PairInv, ChatOp, PairOp, Busy, Locking
  <2>4. EditInv(t)' /\ DeleteInv(t)' /\ MemberInv(t)' /\ AddInv(t)'
    BY <1>3, <1>4, <2>1 DEF EditInv, DeleteInv, MemberInv, AddInv
  <2>5. SendInv(t)'
    BY <1>3, <1>4, <2>1 DEF IInv, SlotInv, SendInv, Busy
  <2> QED BY <2>2, <2>3, <2>4, <2>5 DEF SlotInv
<1>6. /\ chatLock' \in Slots \cup {None} /\ ownerLock' \in [Users -> Slots \cup {None}] /\ ops' \in Nat
  BY <1>1 DEF IInv, TypeOK
<1>7. \A s \in Slots \ {t} :
        /\ chatLock = s => chatLock' = s
        /\ \A u \in Users : ownerLock[u] = s => ownerLock'[u] = s
  BY <1>1, SlotsAssumption
<1> QED BY ZenonT(60), <1>1, <1>3, <1>5, <1>6, <1>7, OwnSlot

\* Reading the members under it.
LEMMA MembersStep ==
    ASSUME IInv, NEW t \in Slots, ChatParticipants(t)
    PROVE  IInv'
<1>1. CASE ~Authorised(t)
  BY <1>1, RefuseStep DEF ChatParticipants
<1>2. CASE Authorised(t)
  <2> DEFINE r == [tx[t] EXCEPT !.pc = "owners", !.mem = members, !.banned = rights,
                                !.need = MutationOwners(t)]
  <2>1. tx[t].pc = "members" /\ UNCHANGED <<dbVars, lockVars, ops>> /\ tx[t] \in TxType
        /\ tx' = [tx EXCEPT ![t] = r]
    BY ZenonT(60), <1>2 DEF ChatParticipants, IInv, TypeOK
  <2>2. /\ tx[t].kind \in {"AddChatUser", "RemoveChatUser"} => tx[t].peer \in Users
        /\ tx[t].kind = "SendChatMessage" => tx[t].peer = Chat
    BY <2>1 DEF IInv, SlotInv, SnapshotInv, ChatOp, Busy
  <2>3. MutationOwners(t) \in SUBSET Users
    BY <2>2 DEF MutationOwners, IInv, TypeOK
  <2>4. /\ r \in TxType /\ r.pc = "owners" /\ r.mem = members /\ r.banned = rights
        /\ r.need = MutationOwners(t)
        /\ r.kind = tx[t].kind /\ r.who = tx[t].who /\ r.peer = tx[t].peer /\ r.ids = tx[t].ids
    BY ZenonT(60), <2>1, <2>3 DEF TxType, IInv, TypeOK
  <2>5. tx'[t] = r
    BY <2>1 DEF IInv, TypeOK
  <2> HIDE DEF r
  <2>6. SlotInv(t)'
    <3>1. ChatOp(t) /\ Busy(t) /\ tx[t].kind \notin {"EditMessage", "DeleteMessages"} /\ ~PairOp(t)
          /\ chatLock = t
      BY <2>1 DEF IInv, SlotInv, ChatLockInv, ChatOp, Busy, PairOp
    <3>2. WhoInv(t)' /\ ChatLockInv(t)' /\ OwnerLockInv(t)'
      BY <2>1, <2>4, <2>5, <3>1
         DEF IInv, SlotInv, WhoInv, ChatLockInv, OwnerLockInv, ChatOp, Busy, Locking, lockVars
    <3>3. SnapshotInv(t)'
      <4>1. tx[t].who \in members
        BY <1>2 DEF Authorised
      <4>2. MutationOwners(t)' = MutationOwners(t)
        BY <2>1, <2>4, <2>5 DEF MutationOwners, dbVars
      <4> QED BY <2>1, <2>2, <2>4, <2>5, <4>1, <4>2 DEF SnapshotInv, dbVars
    <3>4. PairInv(t)'
      BY <2>4, <2>5, <3>1 DEF PairInv, PairOp
    <3>5. EditInv(t)' /\ DeleteInv(t)' /\ MemberInv(t)' /\ AddInv(t)'
      BY <2>4, <2>5, <3>1 DEF EditInv, DeleteInv, MemberInv, AddInv
    <3>6. SendInv(t)'
      BY <2>4, <2>5, <3>1 DEF IInv, SlotInv, SendInv, Busy
    <3> QED BY <3>2, <3>3, <3>4, <3>5, <3>6 DEF SlotInv
  <2>7. /\ chatLock' \in Slots \cup {None} /\ ownerLock' \in [Users -> Slots \cup {None}] /\ ops' \in Nat
    BY <2>1 DEF IInv, TypeOK, lockVars
  <2>8. \A s \in Slots \ {t} :
          /\ chatLock = s => chatLock' = s
          /\ \A u \in Users : ownerLock[u] = s => ownerLock'[u] = s
    BY <2>1 DEF lockVars
  <2> QED BY ZenonT(60), <2>1, <2>4, <2>6, <2>7, <2>8, OwnSlot
<1> QED BY <1>1, <1>2

\* While it takes its advisory locks a transaction changes only its position.
LEMMA LockingStep ==
    ASSUME IInv, NEW t \in Slots, tx[t].pc = "owners", NEW q \in {"owners", "read"},
           tx' = [tx EXCEPT ![t].pc = q], UNCHANGED dbVars, UNCHANGED <<chatLock, ops>>,
           ownerLock' \in [Users -> Slots \cup {None}],
           \A s \in Slots \ {t} : \A u \in Users : ownerLock[u] = s => ownerLock'[u] = s,
           q = "read" => \A u \in tx[t].need : ownerLock'[u] = t
    PROVE  IInv'
<1> DEFINE r == [tx[t] EXCEPT !.pc = q]
<1>1. tx' = [tx EXCEPT ![t] = r] /\ tx'[t] = r /\ tx[t] \in TxType
  BY DEF IInv, TypeOK
<1>2. /\ r \in TxType /\ r.pc = q
      /\ r.kind = tx[t].kind /\ r.who = tx[t].who /\ r.peer = tx[t].peer /\ r.ids = tx[t].ids
      /\ r.need = tx[t].need /\ r.revoke = tx[t].revoke /\ r.mem = tx[t].mem /\ r.banned = tx[t].banned
  BY ZenonT(60), <1>1 DEF TxType
<1> HIDE DEF r
<1>3. SlotInv(t)'
  <2>0. SlotInv(t) /\ Busy(t) /\ Locking(t)
    BY DEF IInv, Busy, Locking
  <2>1. WhoInv(t)' /\ ChatLockInv(t)' /\ OwnerLockInv(t)'
    BY <1>1, <1>2, <2>0 DEF SlotInv, WhoInv, ChatLockInv, OwnerLockInv, ChatOp, Busy, Locking
  <2>2. SnapshotInv(t)'
    BY <1>1, <1>2, <2>0 DEF SlotInv, SnapshotInv, ChatOp, Busy, Locking, MutationOwners, dbVars
  <2>3. PairInv(t)'
    BY <1>1, <1>2, <2>0 DEF SlotInv, PairInv, PairOp, Busy
  <2>4. EditInv(t)'
    <3>1. EditOwners(tx[t].who, tx[t].ids[1])' = EditOwners(tx[t].who, tx[t].ids[1])
      BY <1>1, <1>2 DEF EditOwners, copyOwners, dbVars
    <3> QED BY <1>1, <1>2, <2>0, <3>1 DEF SlotInv, EditInv, LocalIDs, Busy, dbVars
  <2>5. DeleteInv(t)'
    <3>1. (DeleteOwners(tx[t].who, tx[t].ids, tx[t].revoke))'
             = DeleteOwners(tx[t].who, tx[t].ids, tx[t].revoke)
      BY <1>1, <1>2 DEF DeleteOwners, copyOwners, dbVars
    <3> QED BY <1>1, <1>2, <2>0, <3>1 DEF SlotInv, DeleteInv, LocalIDs, Busy, dbVars
  <2>6. MemberInv(t)' /\ AddInv(t)'
    BY <1>1, <1>2 DEF MemberInv, AddInv
  <2>7. SendInv(t)'
    BY <1>1, <1>2, <2>0 DEF SlotInv, SendInv, Busy
  <2> QED BY <2>1, <2>2, <2>3, <2>4, <2>5, <2>6, <2>7 DEF SlotInv
<1>4. chatLock' \in Slots \cup {None} /\ ops' \in Nat
  BY DEF IInv, TypeOK
<1> QED BY ZenonT(60), <1>1, <1>2, <1>3, <1>4, OwnSlot

\* The smallest owner still to be locked is one of them.
LEMMA MinProperties ==
    ASSUME NEW S, S \subseteq Users, S # {}
    PROVE  Min(S) \in S
<1>1. \E x \in S : \A y \in S : x <= y
  BY ZenonT(60), LeastElement, UsersAssumption
<1> QED BY <1>1 DEF Min

\* Taking the lock of the smallest owner not yet locked (lockOwners).
LEMMA LockOwnerStep ==
    ASSUME IInv, NEW t \in Slots, lockOwner(t)
    PROVE  IInv'
<1> DEFINE rest == tx[t].need \ Held(t)
           q == IF rest = {Min(rest)} THEN "read" ELSE "owners"
<1>1. /\ tx[t].pc = "owners" /\ rest # {} /\ ownerLock[Min(rest)] = None
      /\ ownerLock' = [ownerLock EXCEPT ![Min(rest)] = t]
      /\ tx' = [tx EXCEPT ![t].pc = q]
      /\ UNCHANGED dbVars /\ UNCHANGED <<chatLock, ops>>
  BY DEF lockOwner
<1>2. tx[t].need \subseteq Users /\ ownerLock \in [Users -> Slots \cup {None}]
  BY DEF IInv, TypeOK, TxType
<1>3. Min(rest) \in rest /\ Min(rest) \in Users
  BY <1>1, <1>2, MinProperties
<1>4. \A u \in tx[t].need : u \in rest \/ ownerLock[u] = t
  BY <1>2 DEF Held
<1> HIDE DEF rest
<1>5. /\ ownerLock' \in [Users -> Slots \cup {None}]
      /\ ownerLock'[Min(rest)] = t
      /\ \A u \in Users : u # Min(rest) => ownerLock'[u] = ownerLock[u]
  BY <1>1, <1>2, <1>3
<1>6. \A s \in Slots \ {t} : \A u \in Users : ownerLock[u] = s => ownerLock'[u] = s
  BY <1>1, <1>5, SlotsAssumption
<1>7. q = "read" => \A u \in tx[t].need : ownerLock'[u] = t
  BY <1>2, <1>4, <1>5
<1>8. q \in {"owners", "read"}
  OBVIOUS
<1> HIDE DEF q
<1> QED BY ZenonT(60), <1>1, <1>5, <1>6, <1>7, <1>8, LockingStep

\* lockOwners has nothing to lock.
LEMMA LockNoneStep ==
    ASSUME IInv, NEW t \in Slots, lockNone(t)
    PROVE  IInv'
<1>1. /\ tx[t].pc = "owners" /\ tx' = [tx EXCEPT ![t].pc = "read"]
      /\ UNCHANGED dbVars /\ UNCHANGED <<chatLock, ops>> /\ ownerLock' = ownerLock
  BY DEF lockNone, lockVars
<1>2. \A u \in tx[t].need : ownerLock'[u] = t
  BY <1>1 DEF lockNone, Held
<1>3. ownerLock' \in [Users -> Slots \cup {None}]
  BY <1>1 DEF IInv, TypeOK
<1>4. \A s \in Slots \ {t} : \A u \in Users : ownerLock[u] = s => ownerLock'[u] = s
  BY <1>1
<1> QED BY ZenonT(60), <1>1, <1>2, <1>3, <1>4, LockingStep

\* The reads under the locks.
LEMMA ReadStep ==
    ASSUME IInv, NEW t \in Slots, ReadUnderLock(t)
    PROVE  IInv'
<1> DEFINE kind == tx[t].kind
           proceed == /\ kind = "EditMessage" => Editable(t)
                      /\ kind = "DeleteMessages" /\ RevokesChat(t) => tx[t].who \in members
                      /\ kind = "AddChatUser" => Addable(t)
           seen == IF kind \in Sends THEN {x \in RandomIDs : ByRandomID(tx[t].who, x) # {}}
                   ELSE tx[t].seen
           mem == IF kind \in {"EditMessage", "DeleteMessages"} THEN members ELSE tx[t].mem
           r == [tx[t] EXCEPT !.pc = "write", !.seen = seen, !.mem = mem]
<1>0. tx[t].pc = "read" /\ tx[t] \in TxType
  BY DEF ReadUnderLock, IInv, TypeOK
<1>1. CASE ~proceed
  BY <1>1, RefuseStep DEF ReadUnderLock
<1>2. CASE proceed
  <2>1. UNCHANGED <<dbVars, lockVars, ops>>
    BY <1>2 DEF ReadUnderLock
  <2>2. tx' = [tx EXCEPT ![t] = r]
    <3>1. CASE kind \in Sends
      <4>1. kind \notin {"EditMessage", "DeleteMessages"}
        BY <3>1 DEF Sends
      <4>2. tx' = [tx EXCEPT ![t].pc = "write", ![t].seen = seen]
        BY <1>2, <3>1 DEF ReadUnderLock, ReadSend
      <4>3. r = [tx[t] EXCEPT !.pc = "write", !.seen = seen]
        BY ZenonT(60), <1>0, <4>1 DEF TxType
      <4> QED BY ZenonT(60), <4>2, <4>3 DEF IInv, TypeOK
    <3>2. CASE kind \in {"EditMessage", "DeleteMessages"}
      <4>1. kind \notin Sends
        BY <3>2 DEF Sends
      <4>2. tx' = [tx EXCEPT ![t].pc = "write", ![t].mem = members]
        BY <1>2, <3>2, <4>1 DEF ReadUnderLock, ReadMembers
      <4>3. r = [tx[t] EXCEPT !.pc = "write", !.mem = members]
        BY ZenonT(60), <1>0, <3>2, <4>1 DEF TxType
      <4> QED BY ZenonT(60), <4>2, <4>3 DEF IInv, TypeOK
    <3>3. CASE kind \notin Sends /\ kind \notin {"EditMessage", "DeleteMessages"}
      <4>1. tx' = [tx EXCEPT ![t].pc = "write"]
        BY <1>2, <3>3 DEF ReadUnderLock
      <4>2. r = [tx[t] EXCEPT !.pc = "write"]
        BY ZenonT(60), <1>0, <3>3 DEF TxType
      <4> QED BY ZenonT(60), <4>1, <4>2 DEF IInv, TypeOK
    <3> QED BY <3>1, <3>2, <3>3
  <2>3. /\ r \in TxType /\ r.pc = "write" /\ r.seen = seen /\ r.mem = mem
        /\ r.kind = tx[t].kind /\ r.who = tx[t].who /\ r.peer = tx[t].peer /\ r.ids = tx[t].ids
        /\ r.need = tx[t].need /\ r.revoke = tx[t].revoke /\ r.banned = tx[t].banned
    <3>1. seen \in SUBSET RandomIDs /\ mem \in SUBSET Users
      BY <1>0 DEF TxType, IInv, TypeOK
    <3> HIDE DEF seen, mem
    <3> QED BY ZenonT(60), <1>0, <3>1 DEF TxType
  <2>4. tx'[t] = r
    BY <2>2 DEF IInv, TypeOK
  <2> HIDE DEF r
  <2>5. SlotInv(t)'
    <3>0. SlotInv(t) /\ Busy(t) /\ Locking(t)
      BY <1>0 DEF IInv, Busy, Locking
    <3>1. WhoInv(t)' /\ ChatLockInv(t)' /\ OwnerLockInv(t)'
      BY <1>0, <2>1, <2>3, <2>4, <3>0
         DEF SlotInv, WhoInv, ChatLockInv, OwnerLockInv, ChatOp, Busy, Locking, lockVars
    <3>2. SnapshotInv(t)'
      <4>1. ChatOp(t) => mem = tx[t].mem
        BY DEF ChatOp
      <4> HIDE DEF mem
      <4> QED BY <2>1, <2>3, <2>4, <3>0, <4>1
              DEF SlotInv, SnapshotInv, ChatOp, Busy, Locking, MutationOwners, dbVars
    <3>a. /\ rows' = rows /\ members' = members /\ tx'[t].pc = "write" /\ tx'[t].kind = kind
          /\ tx'[t].who = tx[t].who /\ tx'[t].peer = tx[t].peer /\ tx'[t].ids = tx[t].ids
          /\ tx'[t].need = tx[t].need /\ tx'[t].revoke = tx[t].revoke /\ tx'[t].seen = seen /\ tx'[t].mem = mem
      BY <2>1, <2>3, <2>4 DEF dbVars
    <3>3. PairInv(t)'
      BY <3>0, <3>a DEF SlotInv, PairInv, PairOp, Busy
    <3>4. EditInv(t)'
      <4>1. EditOwners(tx[t].who, tx[t].ids[1])' = EditOwners(tx[t].who, tx[t].ids[1])
        BY <3>a DEF EditOwners, copyOwners
      <4>2. EditInv(t) /\ LocalIDs(tx[t].who)' = LocalIDs(tx[t].who)
        BY <3>0, <3>a DEF SlotInv, LocalIDs
      <4> QED BY ZenonT(60), <3>0, <3>a, <4>1, <4>2 DEF EditInv, Busy
    <3>5. DeleteInv(t)'
      <4>1. (DeleteOwners(tx[t].who, tx[t].ids, tx[t].revoke))'
               = DeleteOwners(tx[t].who, tx[t].ids, tx[t].revoke)
        BY <3>a DEF DeleteOwners, copyOwners
      <4>2. DeleteInv(t) /\ LocalIDs(tx[t].who)' = LocalIDs(tx[t].who)
        BY <3>0, <3>a DEF SlotInv, LocalIDs
      <4> QED BY ZenonT(60), <3>0, <3>a, <4>1, <4>2 DEF DeleteInv, Busy
    <3>6. MemberInv(t)'
      BY <2>1, <2>3, <2>4 DEF MemberInv, dbVars
    <3>7. AddInv(t)'
      <4>1. kind = "AddChatUser" => mem = tx[t].mem
        OBVIOUS
      <4> HIDE DEF mem
      <4> QED BY <1>2, <2>1, <2>3, <2>4, <4>1 DEF AddInv, Addable, dbVars
    <3>8. SendInv(t)'
      <4>1. SendInv(t)
        BY <3>0 DEF SlotInv
      <4> QED BY <3>0, <3>a, <4>1 DEF SendInv, Busy, ByRandomID
    <3> QED BY <3>1, <3>2, <3>3, <3>4, <3>5, <3>6, <3>7, <3>8 DEF SlotInv
  <2>6. /\ chatLock' \in Slots \cup {None} /\ ownerLock' \in [Users -> Slots \cup {None}] /\ ops' \in Nat
    BY <2>1 DEF IInv, TypeOK, lockVars
  <2>7. \A s \in Slots \ {t} :
          /\ chatLock = s => chatLock' = s
          /\ \A u \in Users : ownerLock[u] = s => ownerLock'[u] = s
    BY <2>1 DEF lockVars
  <2> QED BY ZenonT(60), <2>1, <2>2, <2>3, <2>5, <2>6, <2>7, OwnSlot
<1> QED BY <1>1, <1>2

\* Opening a transaction.
ChatKind(kind, peer) ==
    \/ kind \in {"SendChatMessage", "AddChatUser", "RemoveChatUser", "SetChatTitle",
                 "SetChatDefaultBannedRights"}
    \/ kind = "ForwardMessages" /\ peer = Chat

\* What every operation passes to Begin.
Opening(kind, who, peer, ids, revoke, need, pc) ==
    /\ who \in Users /\ peer \in Users \cup {Chat} /\ ids \in Seq(Nat) /\ revoke \in BOOLEAN
    /\ need \in SUBSET Users /\ pc \in {"chat", "owners"}
    /\ pc = "chat" <=> ChatKind(kind, peer)
    /\ kind \in {"AddChatUser", "RemoveChatUser"} => peer \in Users
    /\ kind = "SendChatMessage" => peer = Chat
    /\ kind \in {"SendMessage", "BlockUser", "UnblockUser"} \/ (kind = "ForwardMessages" /\ peer # Chat)
          => peer \in Users /\ need = {who, peer}
    /\ kind = "EditMessage" => ids[1] \in LocalIDs(who) /\ need = EditOwners(who, ids[1])
    /\ kind = "DeleteMessages" =>
          /\ \A i \in 1..Len(ids) : ids[i] \in LocalIDs(who)
          /\ need = DeleteOwners(who, ids, revoke)
    /\ kind \in Sends => ids \in Seq(Tokens)

\* A transaction whose arguments are those of one of the operations satisfies
\* its invariant from the start.
LEMMA BeginStep ==
    ASSUME IInv, NEW t \in Slots, NEW kind, NEW who, NEW peer, NEW ids, NEW revoke, NEW need, NEW pc,
           Opening(kind, who, peer, ids, revoke, need, pc),
           Begin(t, kind, who, peer, ids, revoke, need, pc)
    PROVE  IInv'
<1> USE DEF Opening
<1> DEFINE r == [pc |-> pc, kind |-> kind, who |-> who, peer |-> peer, ids |-> ids, revoke |-> revoke,
                 text |-> ops + 1, need |-> need, mem |-> {}, banned |-> {}, seen |-> {}]
<1>1. /\ kind \in Kinds /\ tx' = [tx EXCEPT ![t] = r] /\ ops' = ops + 1
      /\ UNCHANGED dbVars /\ UNCHANGED lockVars
  BY DEF Begin
<1>2. /\ r \in TxType /\ r.pc = pc /\ r.kind = kind /\ r.who = who /\ r.peer = peer /\ r.ids = ids
      /\ r.revoke = revoke /\ r.need = need
  <2>1. ops + 1 \in Nat
    BY DEF IInv, TypeOK
  <2> QED BY ZenonT(60), <1>1, <2>1 DEF TxType
<1>3. tx'[t] = r
  BY ZenonT(60), <1>1 DEF IInv, TypeOK
<1> HIDE DEF r
<1>4. SlotInv(t)'
  <2>1. WhoInv(t)' /\ ChatLockInv(t)' /\ OwnerLockInv(t)'
    BY <1>2, <1>3 DEF WhoInv, ChatLockInv, OwnerLockInv, ChatOp, ChatKind, Locking
  <2>2. SnapshotInv(t)' /\ PairInv(t)'
    BY ZenonT(60), <1>2, <1>3 DEF SnapshotInv, PairInv, ChatOp, ChatKind, PairOp, Locking
  <2>3. EditInv(t)'
    <3>1. rows' = rows /\ tx'[t].who = who /\ tx'[t].ids = ids
      BY ZenonT(60), <1>1, <1>2, <1>3 DEF dbVars
    <3>2. EditOwners(tx[t].who, tx[t].ids[1])' = EditOwners(who, ids[1])
      BY ZenonT(60), <3>1 DEF EditOwners, copyOwners
    <3> QED BY ZenonT(60), <1>2, <1>3, <3>1, <3>2 DEF EditInv, LocalIDs
  <2>4. DeleteInv(t)'
    <3>1. rows' = rows /\ tx'[t].who = who /\ tx'[t].ids = ids /\ tx'[t].revoke = revoke
      BY ZenonT(60), <1>1, <1>2, <1>3 DEF dbVars
    <3>2. (DeleteOwners(tx[t].who, tx[t].ids, tx[t].revoke))' = DeleteOwners(who, ids, revoke)
      <4>1. \A f : copyOwners(f)' = copyOwners(f)
        BY ZenonT(60), <3>1 DEF copyOwners
      <4> QED BY <3>1, <4>1 DEF DeleteOwners
    <3> QED BY ZenonT(60), <1>2, <1>3, <3>1, <3>2 DEF DeleteInv, LocalIDs
  <2>5. MemberInv(t)' /\ AddInv(t)' /\ SendInv(t)'
    BY <1>2, <1>3 DEF MemberInv, AddInv, SendInv
  <2> QED BY <2>1, <2>2, <2>3, <2>4, <2>5 DEF SlotInv
<1>5. /\ chatLock' \in Slots \cup {None} /\ ownerLock' \in [Users -> Slots \cup {None}] /\ ops' \in Nat
  BY <1>1 DEF IInv, TypeOK, lockVars
<1>6. \A s \in Slots \ {t} :
        /\ chatLock = s => chatLock' = s
        /\ \A u \in Users : ownerLock[u] = s => ownerLock'[u] = s
  BY <1>1 DEF lockVars
<1> QED BY ZenonT(60), <1>1, <1>2, <1>4, <1>5, <1>6, OwnSlot

\* A batch of arguments is a sequence of the values it is drawn from.
LEMMA BatchType ==
    ASSUME NEW S, NEW max \in Nat, NEW b \in Batches(S, max)
    PROVE  b \in Seq(S) /\ Len(b) \in Nat /\ \A i \in 1..Len(b) : b[i] \in S
<1>1. PICK n \in 1..max : b \in [1..n -> S]
  BY DEF Batches
<1>2. b \in Seq(S)
  BY <1>1
<1> QED BY <1>2, LenProperties, ElementOfSeq

\* The chat is not a user, and tokens and user ids are numbers.
LEMMA TokensType == Tokens \subseteq Nat /\ Chat \notin Users /\ Users \subseteq Nat
BY UsersAssumption, RandomIDsAssumption DEF Tokens, Chat

\* Every operation of the store opens its transaction with arguments that
\* satisfy the invariant.
LEMMA CallStep ==
    ASSUME IInv, NEW t \in Slots, Call(t)
    PROVE  IInv'
<1> USE DEF ChatKind, Sends
<1>1. ASSUME NEW u \in Users, NEW v \in Users, NEW x \in Tokens, SendMessage(t, u, v, x)
      PROVE  IInv'
  <2>1. <<x>> \in Seq(Nat) /\ <<x>> \in Seq(Tokens) /\ v # Chat
    BY TokensType
  <2>2. Opening("SendMessage", u, v, <<x>>, FALSE, {u, v}, "owners")
    BY <2>1 DEF Opening
  <2> QED BY ZenonT(60), <1>1, <2>2, BeginStep DEF SendMessage
<1>2. ASSUME NEW u \in Users, NEW x \in Tokens, SendChatMessage(t, u, x)
      PROVE  IInv'
  <2>1. <<x>> \in Seq(Nat) /\ <<x>> \in Seq(Tokens)
    BY TokensType
  <2>2. Opening("SendChatMessage", u, Chat, <<x>>, FALSE, {}, "chat")
    BY <2>1 DEF Opening
  <2> QED BY ZenonT(60), <1>2, <2>2, BeginStep DEF SendChatMessage
<1>3. ASSUME NEW u \in Users, NEW v \in Users \cup {Chat}, NEW rs \in Batches(Tokens, MaxForward),
             ForwardMessages(t, u, v, rs)
      PROVE  IInv'
  <2>1. rs \in Seq(Tokens)
    BY BatchType, BoundsAssumption
  <2>2. rs \in Seq(Nat)
    BY ZenonT(60), <2>1, TokensType, SeqMonotonic
  <2>3. CASE v = Chat
    <3>1. Opening("ForwardMessages", u, Chat, rs, FALSE, {}, "chat")
      BY <2>1, <2>2 DEF Opening
    <3> QED BY ZenonT(60), <1>3, <2>3, <3>1, BeginStep DEF ForwardMessages
  <2>4. CASE v # Chat
    <3>1. Opening("ForwardMessages", u, v, rs, FALSE, {u, v}, "owners")
      BY <2>1, <2>2, <2>4 DEF Opening
    <3> QED BY ZenonT(60), <1>3, <2>4, <3>1, BeginStep DEF ForwardMessages
  <2> QED BY <2>3, <2>4
<1>4. ASSUME NEW u \in Users, NEW l \in LocalIDs(u), EditMessage(t, u, l)
      PROVE  IInv'
  <2>1. rows[u] \in Seq(RowType) /\ l \in 1..Len(rows[u]) /\ l \in Nat
    BY LenProperties DEF IInv, TypeOK, LocalIDs
  <2>2. rows[u][l] \in RowType
    BY <2>1, ElementOfSeq
  <2>3. rows[u][l].peer \in Users \cup {Chat}
    BY <2>2 DEF RowType
  <2>4. EditOwners(u, l) \in SUBSET Users
    BY <2>3 DEF EditOwners, copyOwners
  <2>5. <<l>> \in Seq(Nat) /\ <<l>>[1] = l
    BY <2>1
  <2>6. Opening("EditMessage", u, rows[u][l].peer, <<l>>, FALSE, EditOwners(u, l), "owners")
    BY <2>3, <2>4, <2>5 DEF Opening
  <2> QED BY ZenonT(60), <1>4, <2>6, BeginStep DEF EditMessage
<1>5. ASSUME NEW u \in Users, NEW ids \in Batches(LocalIDs(u), MaxDelete), NEW revoke \in BOOLEAN,
             DeleteMessages(t, u, ids, revoke)
      PROVE  IInv'
  <2>1. /\ ids \in Seq(LocalIDs(u)) /\ \A i \in 1..Len(ids) : ids[i] \in LocalIDs(u)
    BY BatchType, BoundsAssumption
  <2>2. ids \in Seq(Nat)
    <3>1. LocalIDs(u) \subseteq Nat
      BY DEF LocalIDs
    <3> QED BY <2>1, <3>1, SeqMonotonic
  <2>3. DeleteOwners(u, ids, revoke) \in SUBSET Users
    BY DEF DeleteOwners
  <2>4. Opening("DeleteMessages", u, Chat, ids, revoke, DeleteOwners(u, ids, revoke), "owners")
    BY <2>1, <2>2, <2>3 DEF Opening
  <2> QED BY <1>5, <2>4, BeginStep DEF DeleteMessages
<1>6. ASSUME NEW u \in Users, NEW v \in Users,
             AddChatUser(t, u, v) \/ RemoveChatUser(t, u, v) \/ BlockUser(t, u, v) \/ UnblockUser(t, u, v)
      PROVE  IInv'
  <2>1. <<>> \in Seq(Nat) /\ v # Chat
    BY TokensType
  <2>2. /\ Opening("AddChatUser", u, v, <<>>, FALSE, {}, "chat")
        /\ Opening("RemoveChatUser", u, v, <<>>, FALSE, {}, "chat")
        /\ Opening("BlockUser", u, v, <<>>, FALSE, {u, v}, "owners")
        /\ Opening("UnblockUser", u, v, <<>>, FALSE, {u, v}, "owners")
    BY <2>1 DEF Opening
  <2> QED BY ZenonT(60), <1>6, <2>2, BeginStep DEF AddChatUser, RemoveChatUser, BeginMutation, BlockUser, UnblockUser
<1>7. ASSUME NEW u \in Users, SetChatTitle(t, u) \/ SetChatDefaultBannedRights(t, u)
      PROVE  IInv'
  <2>1. <<>> \in Seq(Nat)
    OBVIOUS
  <2>2. /\ Opening("SetChatTitle", u, Chat, <<>>, FALSE, {}, "chat")
        /\ Opening("SetChatDefaultBannedRights", u, Chat, <<>>, FALSE, {}, "chat")
    BY <2>1 DEF Opening
  <2> QED BY ZenonT(60), <1>7, <2>2, BeginStep DEF SetChatTitle, SetChatDefaultBannedRights, BeginMutation
<1> QED BY <1>1, <1>2, <1>3, <1>4, <1>5, <1>6, <1>7 DEF Call
=============================================================================
