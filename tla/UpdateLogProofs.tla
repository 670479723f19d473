--------------------------- MODULE UpdateLogProofs ---------------------------
(***************************************************************************)
(* The theorems about the update log, for any users, tokens and number of  *)
(* transactions in progress: the dedup of sends, the lock discipline and   *)
(* the admission of members. Each follows from the invariant of            *)
(* UpdateLogInvariant.                                                     *)
(***************************************************************************)
EXTENDS UpdateLogCommit

USE SMTT(30), ZenonT(30), SMTT(60)

-----------------------------------------------------------------------------
(* The theorems *)

\* What a step of the specification is: nothing is written, or one transaction
\* that held its locks commits.
LEMMA StepKinds ==
    ASSUME IInv, [Next]_vars
    PROVE  /\ IInv'
           /\ \/ UNCHANGED dbVars
              \/ \E t \in Slots : Commit(t) /\ WriteEffect(t) /\ End(t)
<1>1. ASSUME NEW t \in Slots, Call(t) \/ Rollback(t)
      PROVE  IInv' /\ UNCHANGED dbVars
  <2>1. CASE Call(t)
    <3>1. UNCHANGED dbVars
      BY <2>1 DEF Call, SendMessage, SendChatMessage, ForwardMessages, EditMessage, DeleteMessages, AddChatUser,
                  RemoveChatUser, BlockUser, UnblockUser, SetChatTitle, SetChatDefaultBannedRights,
                  BeginMutation, Begin
    <3> QED BY <2>1, <3>1, CallStep
  <2>2. CASE Rollback(t)
    BY <2>2, RefuseStep DEF Rollback, Refuse
  <2> QED BY <1>1, <2>1, <2>2
<1>2. ASSUME NEW t \in Slots, Step(t), ~Commit(t)
      PROVE  IInv' /\ UNCHANGED dbVars
  <2>1. CASE ChatByIDForUpdate(t)
    BY ZenonT(60), <2>1, ChatLockStep DEF ChatByIDForUpdate
  <2>2. CASE ChatParticipants(t)
    BY ZenonT(60), <2>2, MembersStep DEF ChatParticipants, Refuse
  <2>3. CASE lockOwner(t)
    BY ZenonT(60), <2>3, LockOwnerStep DEF lockOwner
  <2>4. CASE lockNone(t)
    BY ZenonT(60), <2>4, LockNoneStep DEF lockNone
  <2>5. CASE ReadUnderLock(t)
    BY <2>5, ReadStep DEF ReadUnderLock, Refuse
  <2> QED BY <1>2, <2>1, <2>2, <2>3, <2>4, <2>5 DEF Step
<1>3. ASSUME NEW t \in Slots, Commit(t)
      PROVE  IInv' /\ (UNCHANGED dbVars \/ (WriteEffect(t) /\ End(t)))
  <2>1. tx[t].pc = "write"
    BY <1>3 DEF Commit
  <2>2. Refuse(t) \/ (WriteEffect(t) /\ End(t))
    BY <1>3, <2>1, WriteSendEffect, WriteEditEffect, WriteDeleteEffect, WriteAddEffect, RemoveEffect,
       WriteTitleEffect, WriteRightsEffect, WriteBlockEffect DEF Commit
  <2>3. CASE Refuse(t)
    BY <2>3, RefuseStep DEF Refuse
  <2>4. CASE WriteEffect(t) /\ End(t)
    BY <2>4, CommitStep
  <2> QED BY <2>2, <2>3, <2>4
<1>4. CASE UNCHANGED vars
  <2>1. UNCHANGED dbVars /\ chatLock' = chatLock /\ ownerLock' = ownerLock /\ tx' = tx /\ ops' = ops
    BY <1>4 DEF vars, lockVars
  <2>2. \A s \in Slots : tx[s].need \subseteq Users
    BY DEF IInv, TypeOK, TxType
  <2>3. \A s \in Slots : SlotInv(s)'
    BY <2>1, <2>2, OtherSlot DEF IInv
  <2>4. TypeOK' /\ FanInv' /\ OneRowPerRandomID'
    BY <2>1 DEF IInv, TypeOK, FanInv, OneRowPerRandomID, LocalIDs, Ids, dbVars
  <2> QED BY <2>1, <2>3, <2>4 DEF IInv
<1> QED BY <1>1, <1>2, <1>3, <1>4 DEF Next

\* The invariant holds in every reachable state: each transaction still holds
\* the locks of the owners it is about to write, and what it read under them is
\* still so.
THEOREM Inductive == Spec => []IInv
<1>1. Init => IInv
  BY InitIInv
<1>2. IInv /\ [Next]_vars => IInv'
  BY StepKinds
<1> QED BY <1>1, <1>2, PTL DEF Spec

\* Every variable keeps its type: in particular a row never gets a field
\* outside its domain.
THEOREM TypeCorrect == Spec => []TypeOK
<1>1. IInv => TypeOK
  BY DEF IInv
<1> QED BY <1>1, Inductive, PTL

\* No owner ever has two rows with the same random_id, however SendMessage,
\* SendChatMessage and ForwardMessages interleave: the lookup by
\* MessageByRandomID runs under the sender's advisory lock.
THEOREM DedupOnce == Spec => []OneRowPerRandomID
<1>1. IInv => OneRowPerRandomID
  BY DEF IInv
<1> QED BY <1>1, Inductive, PTL

\* A transaction that ends from "write" commits.
LEMMA CommitsFromWrite ==
    ASSUME IInv, NEW t \in Slots, Commit(t), End(t)
    PROVE  Committing(t)
<1>1. tx[t].pc = "write"
  BY DEF Commit
<1>2. tx'[t] = NoTx
  BY DEF End, IInv, TypeOK
<1>3. NoTx.pc = "idle"
  BY DEF NoTx
<1> QED BY <1>1, <1>2, <1>3 DEF Committing

\* A row or a log entry of an owner is written only by a commit that holds the
\* advisory lock of that owner, whatever the operation: edits and deletes
\* collect their owners before any lock, and these are still the right ones
\* when they write.
THEOREM LockDiscipline == Spec => WritesHoldOwnerLock
<1> DEFINE A == \A u \in Users :
                  rows'[u] # rows[u] \/ log'[u] # log[u] =>
                     \E t \in Slots : Committing(t) /\ ownerLock[u] = t
<1>1. IInv /\ [Next]_vars => A
  <2> SUFFICES ASSUME IInv, [Next]_vars, NEW u \in Users, rows'[u] # rows[u] \/ log'[u] # log[u]
               PROVE  \E t \in Slots : Committing(t) /\ ownerLock[u] = t
    OBVIOUS
  <2>1. ~UNCHANGED dbVars
    BY DEF dbVars
  <2>2. PICK t \in Slots : Commit(t) /\ WriteEffect(t) /\ End(t)
    BY <2>1, StepKinds
  <2>3. ownerLock[u] = t
    BY <2>2 DEF WriteEffect
  <2>4. Committing(t)
    BY <2>2, CommitsFromWrite
  <2> QED BY <2>3, <2>4
<1>2. IInv /\ [Next]_vars => [A]_vars
  BY <1>1
<1> QED BY <1>2, Inductive, PTL DEF Spec, WritesHoldOwnerLock

\* AddChatUser never admits a user who, at the moment of the commit, blocks the
\* caller, and never takes the chat over maxParticipants: the checks run under
\* locks that BlockUser and the other mutations need.
THEOREM AdmissionIsChecked == Spec => AddsAreAuthorised
<1> DEFINE A == \A u \in members' \ members :
                  /\ Cardinality(members') <= MaxParticipants
                  /\ \E t \in Slots : /\ Committing(t) /\ tx[t].peer = u
                                      /\ <<u, tx[t].who>> \notin blocked
<1>1. IInv /\ [Next]_vars => A
  <2> SUFFICES ASSUME IInv, [Next]_vars, NEW u \in members' \ members
               PROVE  /\ Cardinality(members') <= MaxParticipants
                      /\ \E t \in Slots : /\ Committing(t) /\ tx[t].peer = u
                                          /\ <<u, tx[t].who>> \notin blocked
    OBVIOUS
  <2>1. ~UNCHANGED dbVars /\ members' # members /\ ~(members' \subseteq members)
    BY DEF dbVars
  <2>2. PICK t \in Slots : Commit(t) /\ WriteEffect(t) /\ End(t)
    BY <2>1, StepKinds
  <2>3. tx[t].pc = "write" /\ WriteAdd(t)
    BY ZenonT(60), <2>1, <2>2 DEF Commit, WriteSend, WriteEdit, WriteDelete, removeParticipant, WriteTitle, WriteRights,
                      WriteBlock, Refuse, dbVars
  <2>4. /\ tx[t].kind = "AddChatUser" /\ tx[t].peer \notin members
        /\ members' = members \cup {tx[t].peer}
    BY ZenonT(60), <2>1, <2>3 DEF WriteAdd, Refuse, dbVars
  <2>5. tx[t].peer = u
    BY <2>4
  <2>6. Addable(t) /\ tx[t].mem = members
    BY <2>3, <2>4, AtWrite, AtChatWrite DEF ChatOp, SlotInv, AddInv
  <2>7. <<u, tx[t].who>> \notin blocked /\ Cardinality(members) < MaxParticipants
    BY <2>4, <2>5, <2>6 DEF Addable
  <2>8. IsFiniteSet(members)
    BY ZenonT(60), FS_Subset, UsersAssumption DEF IInv, TypeOK
  <2>9. Cardinality(members') = Cardinality(members) + 1 /\ Cardinality(members) \in Nat
    BY ZenonT(60), <2>4, <2>8, FS_AddElement, FS_CardinalityType
  <2>10. Cardinality(members') <= MaxParticipants
    BY <2>7, <2>9, BoundsAssumption
  <2> QED BY <2>2, <2>5, <2>7, <2>10, CommitsFromWrite
<1>2. IInv /\ [Next]_vars => [A]_vars
  BY <1>1
<1> QED BY <1>2, Inductive, PTL DEF Spec, AddsAreAuthorised
=============================================================================
