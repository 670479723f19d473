--------------------------- MODULE UpdateLogCommit ---------------------------
(***************************************************************************)
(* The commits, one lemma per operation of the store: each refuses, or     *)
(* writes only what its locks allow.                                       *)
(***************************************************************************)
EXTENDS UpdateLogInserts

USE SMTT(30), ZenonT(30), SMTT(60)

-----------------------------------------------------------------------------
(* One lemma per operation: its commit refuses, or has a WriteEffect *)

\* A transaction about to write holds the locks of all the owners it needs.
LEMMA AtWrite ==
    ASSUME IInv, NEW t \in Slots, tx[t].pc = "write"
    PROVE  /\ TypeOK /\ SlotInv(t) /\ Busy(t) /\ Locking(t) /\ tx[t] \in TxType /\ tx[t].who \in Users
           /\ tx[t].need \subseteq Users /\ \A u \in tx[t].need : ownerLock[u] = t
<1>1. TypeOK /\ SlotInv(t) /\ tx[t] \in TxType
  BY DEF IInv, TypeOK
<1>2. Busy(t) /\ Locking(t)
  BY DEF Busy, Locking
<1>3. tx[t].who \in Users /\ \A u \in tx[t].need : ownerLock[u] = t
  BY <1>1, <1>2 DEF SlotInv, WhoInv, OwnerLockInv
<1>4. tx[t].need \subseteq Users
  BY <1>1 DEF TxType
<1> QED BY <1>1, <1>2, <1>3, <1>4

\* The chat operations write under the chats row lock and the members' locks.
LEMMA AtChatWrite ==
    ASSUME IInv, NEW t \in Slots, tx[t].pc = "write", ChatOp(t)
    PROVE  /\ chatLock = t /\ tx[t].mem = members /\ tx[t].banned = rights /\ tx[t].who \in members
           /\ tx[t].kind # "SetChatDefaultBannedRights" => \A u \in members : ownerLock[u] = t
           /\ tx[t].kind \in {"AddChatUser", "RemoveChatUser"} =>
                tx[t].peer \in Users /\ ownerLock[tx[t].peer] = t
<1>1. SlotInv(t) /\ Busy(t) /\ Locking(t) /\ \A u \in tx[t].need : ownerLock[u] = t
  BY AtWrite
<1>2. /\ chatLock = t /\ tx[t].mem = members /\ tx[t].banned = rights /\ tx[t].who \in members
      /\ tx[t].need = MutationOwners(t)
      /\ tx[t].kind \in {"AddChatUser", "RemoveChatUser"} => tx[t].peer \in Users
  BY <1>1 DEF SlotInv, ChatLockInv, SnapshotInv
<1>3. tx[t].kind # "SetChatDefaultBannedRights" => members \subseteq MutationOwners(t)
  BY DEF MutationOwners
<1>4. tx[t].kind \in {"AddChatUser", "RemoveChatUser"} => tx[t].peer \in MutationOwners(t)
  BY DEF MutationOwners
<1> QED BY <1>1, <1>2, <1>3, <1>4

\* A send to a user holds both locks of the pair; a send to the chat is an
\* operation on the chat.
LEMMA SendKind ==
    ASSUME IInv, NEW t \in Slots, tx[t].pc = "write", tx[t].kind \in Sends
    PROVE  /\ tx[t].peer = Chat => ChatOp(t)
           /\ tx[t].peer # Chat => /\ tx[t].peer \in Users
                                   /\ ownerLock[tx[t].who] = t /\ ownerLock[tx[t].peer] = t
<1>1. SlotInv(t) /\ Busy(t) /\ tx[t] \in TxType /\ \A u \in tx[t].need : ownerLock[u] = t
  BY AtWrite
<1>2. tx[t].kind = "SendMessage" => tx[t].peer \in Users
  BY <1>1 DEF SlotInv, PairInv, PairOp
<1>3. tx[t].peer = Chat => ChatOp(t)
  BY <1>2, TokensType DEF ChatOp, Sends
<1>4. ASSUME tx[t].peer # Chat
      PROVE  tx[t].peer \in Users /\ ownerLock[tx[t].who] = t /\ ownerLock[tx[t].peer] = t
  <2>1. tx[t].peer \in Users
    BY <1>1, <1>4 DEF TxType
  <2>2. CASE tx[t].kind = "SendChatMessage"
    <3>1. ChatOp(t) /\ Locking(t)
      BY <2>2, AtWrite DEF ChatOp
    <3> QED BY <1>1, <1>4, <2>2, <3>1 DEF SlotInv, SnapshotInv
  <2>3. CASE tx[t].kind # "SendChatMessage"
    <3>1. PairOp(t)
      BY <1>4, <2>3 DEF PairOp, Sends
    <3>2. tx[t].need = {tx[t].who, tx[t].peer}
      BY <1>1, <3>1 DEF SlotInv, PairInv
    <3> QED BY <1>1, <2>1, <3>2
  <2> QED BY <2>2, <2>3
<1> QED BY <1>3, <1>4

\* SendMessage, SendChatMessage and the insertions of ForwardMessages.
LEMMA WriteSendEffect ==
    ASSUME IInv, NEW t \in Slots, tx[t].pc = "write", WriteSend(t)
    PROVE  Refuse(t) \/ (WriteEffect(t) /\ End(t))
<1> DEFINE rs == Fresh(t)
<1>1. CASE rs # <<>> /\ Restricted(t)
  BY <1>1 DEF WriteSend
<1>2. CASE ~(rs # <<>> /\ Restricted(t))
  <2>1. /\ tx[t].kind \in Sends /\ End(t) /\ UNCHANGED <<members, rights, blocked, left>>
        /\ tx[t].peer = Chat => fanOut(t, tx[t].mem, rs, FALSE)
        /\ tx[t].peer # Chat => Insert(UserRows(t, rs)) /\ UNCHANGED fanouts
    BY ZenonT(60), <1>2 DEF WriteSend
  <2>2. TypeOK /\ OneRowPerRandomID /\ SlotInv(t) /\ Busy(t) /\ tx[t].who \in Users
    BY AtWrite DEF IInv
  <2>3. /\ tx[t].ids \in Seq(Tokens)
        /\ \A r \in RandomIDs : r \in tx[t].seen <=> ByRandomID(tx[t].who, r) # {}
    BY <2>1, <2>2 DEF SlotInv, SendInv
  <2>4. /\ rs \in Seq(Tokens) /\ Len(rs) \in Nat
        /\ \A k \in 1..Len(rs) : rs[k] # 0 =>
             /\ rs[k] \in RandomIDs \ tx[t].seen
             /\ \A l \in 1..Len(rs) : rs[l] = rs[k] => l = k
    BY <2>2, <2>3, FreshProperties
  <2> HIDE DEF rs
  <2>5. \A k \in 1..Len(rs) : rs[k] # 0 =>
          /\ ByRandomID(tx[t].who, rs[k]) = {}
          /\ \A l \in 1..Len(rs) : rs[l] = rs[k] => l = k
    BY <2>3, <2>4
  <2>6. Inserted(t)
    <3>1. CASE tx[t].peer = Chat
      <4>1. ChatOp(t) /\ tx[t].kind # "SetChatDefaultBannedRights"
        BY <2>1, <3>1, SendKind DEF Sends
      <4>2. \A u \in Users \cap tx[t].mem : ownerLock[u] = t
        BY <4>1, AtChatWrite
      <4>3. fanOut(t, tx[t].mem, rs, FALSE) /\ FALSE \in BOOLEAN
        BY ZenonT(60), <2>1, <3>1
      <4> QED BY ZenonT(60), <2>2, <2>4, <2>5, <4>2, <4>3, FanOutEffect
    <3>2. CASE tx[t].peer # Chat
      <4> DEFINE F == UserRows(t, rs)
      <4>1. tx[t].peer \in Users /\ ownerLock[tx[t].who] = t /\ ownerLock[tx[t].peer] = t
        BY <2>1, <3>2, SendKind
      <4>2. SidesOf(t, rs, F)
        BY <2>2, <2>4, <4>1, UserRowsProperties
      <4>3. Insert(F) /\ fanouts' = fanouts
        BY <2>1, <3>2
      <4> HIDE DEF F
      <4>4. /\ F \in [Users -> Seq(RowType)]
            /\ \A u \in Users \ {tx[t].who, tx[t].peer} : F[u] = <<>>
            /\ \A u \in {tx[t].who, tx[t].peer} :
                 /\ Len(F[u]) = Len(rs)
                 /\ \A j \in 1..Len(rs) :
                      /\ F[u][j].fan = 0
                      /\ u = tx[t].who => F[u][j].rid = rs[j]
                      /\ u # tx[t].who => F[u][j].rid = 0
        BY <4>2 DEF SidesOf
      <4>5. \A u \in Users : F[u] # <<>> => ownerLock[u] = t
        BY <4>1, <4>4
      <4>6. \A u \in Users \ {tx[t].who, tx[t].peer} : 1..Len(F[u]) = {}
        <5>1. Len(<<>>) = 0 /\ 1..0 = {}
          OBVIOUS
        <5> QED BY <4>4, <5>1
      <4>7. fanouts' \in Nat /\ fanouts <= fanouts'
        BY <2>2, <4>3 DEF TypeOK
      <4>8. \A u \in Users : \A j \in 1..Len(F[u]) :
              \/ F[u][j].fan = 0
              \/ F[u][j].fan > fanouts /\ F[u][j].fan <= fanouts'
        BY <4>4, <4>6
      <4>9. \A u \in Users : \A j \in 1..Len(F[u]) : F[u][j].rid # 0 =>
               /\ ByRandomID(u, F[u][j].rid) = {}
               /\ \A i \in 1..Len(F[u]) : F[u][i].rid = F[u][j].rid => i = j
        <5> SUFFICES ASSUME NEW u \in Users, NEW j \in 1..Len(F[u]), F[u][j].rid # 0
                     PROVE  /\ ByRandomID(u, F[u][j].rid) = {}
                            /\ \A i \in 1..Len(F[u]) : F[u][i].rid = F[u][j].rid => i = j
          OBVIOUS
        <5>1. u \in {tx[t].who, tx[t].peer}
          BY <4>6
        <5>2. /\ Len(F[u]) = Len(rs)
              /\ \A i \in 1..Len(rs) : /\ u = tx[t].who => F[u][i].rid = rs[i]
                                       /\ u # tx[t].who => F[u][i].rid = 0
          BY <4>4, <5>1
        <5>3. u = tx[t].who /\ \A i \in 1..Len(rs) : F[u][i].rid = rs[i]
          BY <5>2
        <5>4. j \in 1..Len(rs) /\ rs[j] # 0 /\ F[u][j].rid = rs[j]
          BY <5>2, <5>3
        <5>5. ByRandomID(u, rs[j]) = {} /\ \A i \in 1..Len(rs) : rs[i] = rs[j] => i = j
          BY ZenonT(60), <2>5, <5>3, <5>4
        <5>6. ASSUME NEW i \in 1..Len(F[u]), F[u][i].rid = F[u][j].rid
              PROVE  i = j
          BY <5>2, <5>3, <5>4, <5>5, <5>6
        <5> QED BY <5>4, <5>5, <5>6
      <4> QED BY <2>2, <4>3, <4>4, <4>5, <4>7, <4>8, <4>9, InsertEffect, Zenon
    <3> QED BY <3>1, <3>2
  <2>7. DataType'
    BY <2>1, <2>2, <2>6 DEF DataType, TypeOK, Inserted
  <2> QED BY <2>1, <2>6, <2>7 DEF WriteEffect, Inserted
<1> QED BY <1>1, <1>2

\* The announcement of a change to the chat carries no token.
LEMMA AnnounceEffect ==
    ASSUME IInv, NEW t \in Slots, tx[t].who \in Users, NEW owners, fanOut(t, owners, << 0 >>, TRUE),
           \A u \in Users \cap owners : ownerLock[u] = t
    PROVE  Inserted(t)
<1>1. << 0 >> \in Seq(Tokens) /\ Len(<< 0 >>) = 1 /\ \A j \in 1..1 : << 0 >>[j] = 0
  BY DEF Tokens
<1>2. \A j \in 1..Len(<< 0 >>) : << 0 >>[j] # 0 =>
         /\ ByRandomID(tx[t].who, << 0 >>[j]) = {}
         /\ \A i \in 1..Len(<< 0 >>) : << 0 >>[i] = << 0 >>[j] => i = j
  BY <1>1
<1>3. TRUE \in BOOLEAN
  OBVIOUS
<1> QED BY <1>1, <1>2, <1>3, FanOutEffect, Zenon

\* SetChatTitle: a service message to the members.
LEMMA WriteTitleEffect ==
    ASSUME IInv, NEW t \in Slots, tx[t].pc = "write", WriteTitle(t)
    PROVE  WriteEffect(t) /\ End(t)
<1>1. /\ tx[t].kind = "SetChatTitle" /\ fanOut(t, members, << 0 >>, TRUE)
      /\ UNCHANGED <<members, rights, blocked, left>> /\ End(t)
  BY ZenonT(60) DEF WriteTitle
<1>2. tx[t].who \in Users /\ TypeOK
  BY AtWrite
<1>3. \A u \in Users \cap members : ownerLock[u] = t
  BY <1>1, AtChatWrite DEF ChatOp
<1>4. Inserted(t)
  BY ZenonT(60), <1>1, <1>2, <1>3, AnnounceEffect
<1> QED BY <1>1, <1>2, <1>4 DEF WriteEffect, Inserted, DataType, TypeOK

\* AddChatUser: a new member, and a service message to the members and to the
\* one added.
LEMMA WriteAddEffect ==
    ASSUME IInv, NEW t \in Slots, tx[t].pc = "write", WriteAdd(t)
    PROVE  Refuse(t) \/ (WriteEffect(t) /\ End(t))
<1>1. CASE tx[t].peer \in members
  BY <1>1 DEF WriteAdd
<1>2. CASE tx[t].peer \notin members
  <2>1. /\ tx[t].kind = "AddChatUser" /\ members' = members \cup {tx[t].peer}
        /\ fanOut(t, members', << 0 >>, TRUE) /\ UNCHANGED <<rights, blocked, left>> /\ End(t)
    BY ZenonT(60), <1>2 DEF WriteAdd
  <2>2. tx[t].who \in Users /\ TypeOK
    BY AtWrite
  <2>3. ChatOp(t)
    BY <2>1 DEF ChatOp
  <2>4. /\ chatLock = t /\ tx[t].peer \in Users /\ ownerLock[tx[t].peer] = t
        /\ \A u \in members : ownerLock[u] = t
    BY <2>1, <2>3, AtChatWrite
  <2>5. \A u \in Users \cap members' : ownerLock[u] = t
    BY <2>1, <2>4
  <2>6. Inserted(t)
    BY ZenonT(60), <2>1, <2>2, <2>5, AnnounceEffect
  <2> QED BY <2>1, <2>2, <2>4, <2>6 DEF WriteEffect, Inserted, DataType, TypeOK
<1> QED BY <1>1, <1>2

\* removeParticipant: one member fewer, and a service message to the members
\* before.
LEMMA RemoveEffect ==
    ASSUME IInv, NEW t \in Slots, tx[t].pc = "write", removeParticipant(t)
    PROVE  Refuse(t) \/ (WriteEffect(t) /\ End(t))
<1>1. CASE tx[t].peer \notin members
  BY <1>1 DEF removeParticipant
<1>2. CASE tx[t].peer \in members
  <2> DEFINE owners == members' \cup {tx[t].peer}
  <2>1. /\ tx[t].kind = "RemoveChatUser" /\ members' = members \ {tx[t].peer}
        /\ left' = left \cup {tx[t].peer}
        /\ fanOut(t, owners, << 0 >>, TRUE) /\ UNCHANGED <<rights, blocked>> /\ End(t)
    BY ZenonT(60), <1>2 DEF removeParticipant
  <2>2. tx[t].who \in Users /\ TypeOK
    BY AtWrite
  <2>3. ChatOp(t)
    BY <2>1 DEF ChatOp
  <2>4. /\ chatLock = t /\ tx[t].peer \in Users /\ ownerLock[tx[t].peer] = t
        /\ \A u \in members : ownerLock[u] = t
    BY <2>1, <2>3, AtChatWrite
  <2>5. \A u \in Users \cap owners : ownerLock[u] = t
    BY <2>1, <2>4
  <2> HIDE DEF owners
  <2>6. Inserted(t)
    BY ZenonT(60), <2>1, <2>2, <2>5, AnnounceEffect
  <2> QED BY ZenonT(60), <2>1, <2>2, <2>4, <2>6 DEF WriteEffect, Inserted, DataType, TypeOK
<1> QED BY <1>1, <1>2

\* Nothing is written to rows or logs.
LEMMA NoRowsEffect ==
    ASSUME IInv, UNCHANGED <<rows, log, fanouts>>
    PROVE  RowsGrow /\ OneRowPerRandomID'
<1>1. OneRowPerRandomID'
  BY DEF IInv, OneRowPerRandomID, Ids
<1>2. \A u \in Users : Len(rows[u]) \in Nat
  BY LenProperties DEF IInv, TypeOK
<1>3. \A n \in Nat : n <= n /\ (n + 1)..n = {}
  OBVIOUS
<1>4. fanouts <= fanouts'
  BY <1>3 DEF IInv, TypeOK
<1>5. RowsGrow
  BY <1>2, <1>3, <1>4 DEF RowsGrow
<1> QED BY <1>1, <1>5

\* SetChatDefaultBannedRights: the chats row only.
LEMMA WriteRightsEffect ==
    ASSUME IInv, NEW t \in Slots, tx[t].pc = "write", WriteRights(t)
    PROVE  WriteEffect(t) /\ End(t)
<1>1. /\ tx[t].kind = "SetChatDefaultBannedRights" /\ rights' \in SUBSET Rights
      /\ UNCHANGED <<rows, log, members, blocked, fanouts, left>> /\ End(t)
  BY DEF WriteRights
<1>2. TypeOK /\ RowsGrow /\ OneRowPerRandomID'
  BY <1>1, AtWrite, NoRowsEffect
<1>3. chatLock = t
  BY <1>1, AtChatWrite DEF ChatOp
<1> QED BY <1>1, <1>2, <1>3 DEF WriteEffect, DataType, TypeOK

\* BlockUser and UnblockUser: one row of blocks, under both locks of the pair.
LEMMA WriteBlockEffect ==
    ASSUME IInv, NEW t \in Slots, tx[t].pc = "write", WriteBlock(t)
    PROVE  WriteEffect(t) /\ End(t)
<1>1. /\ tx[t].kind \in {"BlockUser", "UnblockUser"} /\ End(t)
      /\ UNCHANGED <<rows, log, members, rights, fanouts, left>>
      /\ blocked' \subseteq blocked \cup {<<tx[t].who, tx[t].peer>>}
  BY DEF WriteBlock
<1>2. TypeOK /\ RowsGrow /\ OneRowPerRandomID' /\ tx[t].who \in Users
  BY <1>1, AtWrite, NoRowsEffect
<1>3. tx[t].peer \in Users /\ ownerLock[tx[t].who] = t
  <2>1. SlotInv(t) /\ Busy(t) /\ PairOp(t) /\ \A u \in tx[t].need : ownerLock[u] = t
    BY <1>1, AtWrite DEF PairOp
  <2> QED BY <2>1 DEF SlotInv, PairInv
<1>4. blocked' \in SUBSET (Users \X Users)
  BY <1>1, <1>2, <1>3 DEF TypeOK
<1>5. \A u, v \in Users : <<u, v>> \in blocked' \ blocked => ownerLock[u] = t
  <2> SUFFICES ASSUME NEW u \in Users, NEW v \in Users, <<u, v>> \in blocked' \ blocked
               PROVE  ownerLock[u] = t
    OBVIOUS
  <2>1. <<u, v>> = <<tx[t].who, tx[t].peer>>
    BY <1>1
  <2>2. u = tx[t].who
    BY <2>1
  <2> QED BY <1>3, <2>2
<1> QED BY <1>1, <1>2, <1>4, <1>5 DEF WriteEffect, DataType, TypeOK

\* A rewrite of rows in place that keeps peer, fan-out id and token.
LEMMA RewriteEffect ==
    ASSUME IInv, UNCHANGED fanouts,
           \A u \in Users : /\ Len(rows'[u]) = Len(rows[u])
                            /\ \A l \in 1..Len(rows[u]) : /\ rows'[u][l].peer = rows[u][l].peer
                                                          /\ rows'[u][l].fan = rows[u][l].fan
                                                          /\ rows'[u][l].rid = rows[u][l].rid
    PROVE  RowsGrow /\ OneRowPerRandomID'
<1>1. OneRowPerRandomID'
  BY DEF IInv, OneRowPerRandomID, Ids
<1>2. \A u \in Users : Len(rows[u]) \in Nat
  BY LenProperties DEF IInv, TypeOK
<1>3. \A n \in Nat : n <= n /\ (n + 1)..n = {}
  OBVIOUS
<1>4. fanouts <= fanouts'
  BY <1>3 DEF IInv, TypeOK
<1>5. RowsGrow
  BY <1>2, <1>3, <1>4 DEF RowsGrow
<1> QED BY <1>1, <1>5

\* An edit writes only rows of owners it has locked.
LEMMA EditTargetsProperties ==
    ASSUME IInv, NEW t \in Slots, tx[t].pc = "write", tx[t].kind = "EditMessage", NEW c \in EditTargets(t)
    PROVE  c[1] \in Users /\ c[2] \in Nat /\ ownerLock[c[1]] = t
<1> DEFINE u == tx[t].who
           l == tx[t].ids[1]
           m == rows[u][l]
<1>1. TypeOK /\ SlotInv(t) /\ Busy(t) /\ u \in Users /\ \A v \in tx[t].need : ownerLock[v] = t
  BY AtWrite
<1>2. l \in LocalIDs(u) /\ tx[t].need = EditOwners(u, l)
  BY <1>1 DEF SlotInv, EditInv
<1>3. l \in Nat /\ m.peer \in Users \cup {Chat} /\ m.mirror \in Nat
  BY ZenonT(60), <1>1, <1>2, RowAt
<1>4. /\ m.peer = Chat => c \in chatCopies(m.fan)
      /\ m.peer # Chat => c = <<u, l>> \/ c = <<m.peer, m.mirror>>
  BY ZenonT(60) DEF EditTargets
<1>5. /\ m.peer = Chat => \A v \in copyOwners(m.fan) : ownerLock[v] = t
      /\ m.peer # Chat => ownerLock[u] = t /\ ownerLock[m.peer] = t
  BY ZenonT(60), <1>1, <1>2 DEF EditOwners
<1> HIDE DEF u, l, m
<1>6. CASE m.peer = Chat
  <2>1. PICK v \in Users : c \in {v} \X (1..Len(rows[v])) /\ m.fan # 0 /\ rows[c[1]][c[2]].fan = m.fan
    BY <1>4, <1>6 DEF chatCopies
  <2>2. c[1] = v /\ c[2] \in 1..Len(rows[v]) /\ c[2] \in Nat
    BY <2>1
  <2>3. v \in copyOwners(m.fan)
    BY <2>1, <2>2 DEF copyOwners
  <2> QED BY <1>5, <1>6, <2>2, <2>3
<1>7. CASE m.peer # Chat
  <2>1. CASE c = <<u, l>>
    BY <1>1, <1>3, <1>5, <1>7, <2>1
  <2>2. CASE c = <<m.peer, m.mirror>>
    BY <1>3, <1>5, <1>7, <2>2
  <2> QED BY <1>4, <1>7, <2>1, <2>2
<1> QED BY <1>6, <1>7

\* EditMessage and editChatMessage: the rows edited keep what the invariant
\* reads.
LEMMA WriteEditEffect ==
    ASSUME IInv, NEW t \in Slots, tx[t].pc = "write", WriteEdit(t)
    PROVE  WriteEffect(t) /\ End(t)
<1> DEFINE E == EditTargets(t)
           hit(u) == \E c \in E : c[1] = u
           x == tx[t].text
<1>1. /\ tx[t].kind = "EditMessage" /\ UNCHANGED <<members, rights, blocked, fanouts, left>> /\ End(t)
      /\ rows' = [u \in Users |-> [l \in 1..Len(rows[u]) |->
                    IF <<u, l>> \in E THEN [rows[u][l] EXCEPT !.text = x] ELSE rows[u][l]]]
      /\ log' = [u \in Users |->
                    IF hit(u) THEN Append(log[u], [type |-> "edit", local |-> (CHOOSE c \in E : c[1] = u)[2]])
                    ELSE log[u]]
  BY DEF WriteEdit
<1>2. TypeOK /\ x \in Nat
  BY AtWrite DEF TxType
<1>3. \A c \in E : c[1] \in Users /\ c[2] \in Nat /\ ownerLock[c[1]] = t
  BY <1>1, EditTargetsProperties
<1> HIDE DEF E, x
<1>4. ASSUME NEW u \in Users
      PROVE  /\ rows'[u] \in Seq(RowType) /\ Len(rows'[u]) = Len(rows[u])
             /\ \A l \in 1..Len(rows[u]) : /\ rows'[u][l].peer = rows[u][l].peer
                                           /\ rows'[u][l].fan = rows[u][l].fan
                                           /\ rows'[u][l].rid = rows[u][l].rid
                                           /\ <<u, l>> \notin E => rows'[u][l] = rows[u][l]
  <2> DEFINE R(l) == IF <<u, l>> \in E THEN [rows[u][l] EXCEPT !.text = x] ELSE rows[u][l]
  <2>1. rows[u] \in Seq(RowType) /\ Len(rows[u]) \in Nat /\ \A l \in 1..Len(rows[u]) : rows[u][l] \in RowType
    BY <1>2, RowType1
  <2>2. rows'[u] = [l \in 1..Len(rows[u]) |-> R(l)]
    BY <1>1
  <2>3. ASSUME NEW l \in 1..Len(rows[u])
        PROVE  /\ R(l) \in RowType /\ R(l).peer = rows[u][l].peer /\ R(l).fan = rows[u][l].fan
               /\ R(l).rid = rows[u][l].rid /\ (<<u, l>> \notin E => R(l) = rows[u][l])
    <3>1. rows[u][l] \in RowType
      BY <2>1
    <3> QED BY <1>2, <3>1 DEF RowType
  <2> HIDE DEF R
  <2>4. /\ rows'[u] \in Seq(RowType) /\ Len(rows'[u]) = Len(rows[u])
        /\ \A l \in 1..Len(rows[u]) : rows'[u][l] = R(l)
    <3>1. \A l \in 1..Len(rows[u]) : R(l) \in RowType
      BY ZenonT(60), <2>3
    <3>2. rows'[u] \in [1..Len(rows[u]) -> RowType] /\ \A l \in 1..Len(rows[u]) : rows'[u][l] = R(l)
      BY ONLY <2>2, <3>1
    <3> QED BY ZenonT(60), <2>1, <3>2, SeqOfFunction
  <2> QED BY <2>3, <2>4
<1>5. rows' \in [Users -> Seq(RowType)]
  <2>1. rows' = [u \in Users |-> rows'[u]]
    BY <1>1
  <2> QED BY <1>4, <2>1
<1>6. RowsGrow /\ OneRowPerRandomID'
  BY <1>1, <1>4, RewriteEffect
<1>7. ASSUME NEW u \in Users
      PROVE  /\ log'[u] \in Seq(EventType)
             /\ rows'[u] # rows[u] \/ log'[u] # log[u] => ownerLock[u] = t
  <2>1. CASE hit(u)
    <3>1. PICK c \in E : c = (CHOOSE d \in E : d[1] = u) /\ c[1] = u
      BY <2>1
    <3>2. log'[u] = Append(log[u], [type |-> "edit", local |-> c[2]])
      BY <1>1, <2>1, <3>1
    <3>3. c[2] \in Nat /\ ownerLock[u] = t
      BY <1>3, <3>1
    <3>4. [type |-> "edit", local |-> c[2]] \in EventType
      BY <3>3 DEF EventType
    <3>5. log'[u] \in Seq(EventType)
      BY <1>2, <3>2, <3>4 DEF TypeOK
    <3> QED BY <3>3, <3>5
  <2>2. CASE ~hit(u)
    <3>1. log'[u] = log[u]
      BY <1>1, <2>2
    <3>2. \A l \in 1..Len(rows[u]) : <<u, l>> \notin E
      BY <2>2
    <3>3. rows'[u] = rows[u]
      <4>1. rows[u] \in Seq(RowType)
        BY <1>2 DEF TypeOK
      <4> QED BY ZenonT(60), <1>4, <3>2, <4>1, SeqEqual
    <3> QED BY <1>2, <3>1, <3>3 DEF TypeOK
  <2> QED BY <2>1, <2>2
<1>8. log' \in [Users -> Seq(EventType)]
  <2>1. log' = [u \in Users |-> log'[u]]
    BY <1>1
  <2>2. \A u \in Users : log'[u] \in Seq(EventType)
    BY <1>7
  <2> QED BY <2>1, <2>2
<1>9. DataType'
  BY <1>1, <1>2, <1>5, <1>8 DEF DataType, TypeOK
<1> QED BY ZenonT(60), <1>1, <1>6, <1>7, <1>9 DEF WriteEffect

\* A delete marks only rows of owners it has locked.
LEMMA DeleteTargetProperties ==
    ASSUME IInv, NEW t \in Slots, tx[t].pc = "write", tx[t].kind = "DeleteMessages",
           NEW u \in Users, NEW i \in 1..Len(tx[t].ids)
    PROVE  /\ DeleteTarget(t, u, i) \in Nat
           /\ DeleteTarget(t, u, i) # 0 => ownerLock[u] = t
<1> DEFINE w == tx[t].who
           l == tx[t].ids[i]
           m == rows[w][l]
<1>1. TypeOK /\ SlotInv(t) /\ Busy(t) /\ w \in Users /\ \A v \in tx[t].need : ownerLock[v] = t
  BY AtWrite
<1>2. l \in LocalIDs(w) /\ tx[t].need = DeleteOwners(w, tx[t].ids, tx[t].revoke)
  BY <1>1 DEF SlotInv, DeleteInv
<1>3. l \in Nat /\ m.peer \in Users \cup {Chat} /\ m.mirror \in Nat
  BY ZenonT(60), <1>1, <1>2, RowAt
<1>4. \A v \in Users :
         \/ v = w
         \/ m.peer # Chat /\ v = m.peer
         \/ m.peer = Chat /\ tx[t].revoke /\ v \in copyOwners(m.fan)
         => ownerLock[v] = t
  BY ZenonT(60), <1>1, <1>2 DEF DeleteOwners
<1>7. DeleteTarget(t, u, i) =
        IF m.peer = Chat /\ tx[t].revoke
        THEN IF u \in tx[t].mem /\ u \in copyOwners(m.fan)
             THEN (CHOOSE c \in chatCopies(m.fan) : c[1] = u)[2] ELSE 0
        ELSE IF u = w THEN l ELSE IF u = m.peer /\ tx[t].revoke THEN m.mirror ELSE 0
  BY DEF DeleteTarget
<1> HIDE DEF w, l, m
<1>5. CASE m.peer = Chat /\ tx[t].revoke /\ u \in tx[t].mem /\ u \in copyOwners(m.fan)
  <2>1. PICK k \in 1..Len(rows[u]) : m.fan # 0 /\ rows[u][k].fan = m.fan
    BY <1>5 DEF copyOwners
  <2>2. <<u, k>> \in {u} \X (1..Len(rows[u])) /\ <<u, k>>[1] = u /\ <<u, k>>[2] = k
    OBVIOUS
  <2>3. <<u, k>> \in chatCopies(m.fan)
    BY <2>1, <2>2 DEF chatCopies
  <2>4. PICK c \in chatCopies(m.fan) : c = (CHOOSE d \in chatCopies(m.fan) : d[1] = u) /\ c[1] = u
    BY <2>2, <2>3, Zenon
  <2>5. PICK v \in Users : c \in {v} \X (1..Len(rows[v]))
    BY ZenonT(60), <2>4 DEF chatCopies
  <2>6. c[2] \in Nat
    BY <2>5
  <2>7. DeleteTarget(t, u, i) = c[2]
    BY <1>5, <1>7, <2>4, Zenon
  <2> QED BY <1>4, <1>5, <2>6, <2>7
<1>6. CASE ~(m.peer = Chat /\ tx[t].revoke /\ u \in tx[t].mem /\ u \in copyOwners(m.fan))
  <2>1. \/ DeleteTarget(t, u, i) = 0
        \/ DeleteTarget(t, u, i) = l /\ u = w
        \/ DeleteTarget(t, u, i) = m.mirror /\ u = m.peer
    BY <1>6, <1>7, Zenon
  <2> QED BY <1>3, <1>4, <2>1, TokensType
<1> QED BY <1>5, <1>6

\* DeleteMessages: the rows marked deleted keep what the invariant reads.
LEMMA WriteDeleteEffect ==
    ASSUME IInv, NEW t \in Slots, tx[t].pc = "write", WriteDelete(t)
    PROVE  Refuse(t) \/ (WriteEffect(t) /\ End(t))
<1>1. CASE DeleteFails(t)
  BY <1>1 DEF WriteDelete
<1>2. CASE ~DeleteFails(t)
  <2> DEFINE n == Len(tx[t].ids)
             D(u) == DeletesOf(t, u)
             hit(u, l) == \E i \in 1..n : Deletes(t, u, i) /\ DeleteTarget(t, u, i) = l
             R(u, l) == IF hit(u, l) THEN [rows[u][l] EXCEPT !.deleted = TRUE] ELSE rows[u][l]
             ev(u) == [j \in 1..Len(D(u)) |-> [type |-> "delete", local |-> D(u)[j]]]
  <2>1. /\ tx[t].kind = "DeleteMessages" /\ UNCHANGED <<members, rights, blocked, fanouts, left>> /\ End(t)
        /\ rows' = [u \in Users |-> [l \in 1..Len(rows[u]) |-> R(u, l)]]
        /\ log' = [u \in Users |-> log[u] \o ev(u)]
    BY ZenonT(60), <1>2 DEF WriteDelete
  <2>2. TypeOK /\ n \in Nat
    <3>1. tx[t].ids \in Seq(Nat)
      BY AtWrite DEF TxType
    <3> QED BY <3>1, AtWrite, LenProperties
  <2>3. ASSUME NEW u \in Users, ownerLock[u] # t
        PROVE  \A i \in 1..n : ~Deletes(t, u, i)
    BY <2>1, <2>3, DeleteTargetProperties DEF Deletes
  <2>4. ASSUME NEW u \in Users
        PROVE  /\ D(u) \in Seq(Nat) /\ Len(D(u)) \in Nat
               /\ (\A i \in 1..n : ~Deletes(t, u, i)) => D(u) = <<>>
    <3> DEFINE s == [i \in 1..n |-> DeleteTarget(t, u, i)]
               S == {i \in 1..n : Deletes(t, u, i)}
    <3>1. s \in [1..n -> Nat]
      BY <2>1, DeleteTargetProperties
    <3>2. s \in Seq(Nat) /\ Len(s) = n
      BY <2>2, <3>1, SeqOfFunction
    <3>3. D(u) = Pick(s, S)
      BY DEF DeletesOf
    <3>4. S \in SUBSET (1..Len(s)) /\ ((\A i \in 1..n : ~Deletes(t, u, i)) => S = {})
      BY <3>2
    <3> HIDE DEF s, S, D
    <3> QED BY <3>2, <3>3, <3>4, PickProperties
  <2> HIDE DEF D
  <2>5. ASSUME NEW u \in Users
        PROVE  ev(u) \in Seq(EventType) /\ (D(u) = <<>> => ev(u) = <<>>)
    <3>1. D(u) \in Seq(Nat) /\ Len(D(u)) \in Nat
      BY <2>4
    <3>2. \A j \in 1..Len(D(u)) : [type |-> "delete", local |-> D(u)[j]] \in EventType
      BY <3>1, ElementOfSeq DEF EventType
    <3>3. ev(u) \in [1..Len(D(u)) -> EventType]
      BY <3>2
    <3>4. ev(u) \in Seq(EventType) /\ Len(ev(u)) = Len(D(u))
      BY ZenonT(60), <3>1, <3>3, SeqOfFunction
    <3> HIDE DEF ev
    <3>5. D(u) = <<>> => ev(u) = <<>>
      BY <3>4, EmptySeq
    <3> QED BY <3>4, <3>5
  <2>6. ASSUME NEW u \in Users, NEW l \in 1..Len(rows[u])
        PROVE  /\ R(u, l) \in RowType /\ R(u, l).peer = rows[u][l].peer /\ R(u, l).fan = rows[u][l].fan
               /\ R(u, l).rid = rows[u][l].rid /\ (~hit(u, l) => R(u, l) = rows[u][l])
    <3>1. rows[u][l] \in RowType
      BY <2>2, RowType1
    <3> HIDE DEF hit
    <3> QED BY ZenonT(60), <3>1 DEF RowType
  <2> HIDE DEF R, ev
  <2>7. ASSUME NEW u \in Users
        PROVE  /\ rows'[u] \in Seq(RowType) /\ Len(rows'[u]) = Len(rows[u])
               /\ \A l \in 1..Len(rows[u]) : rows'[u][l] = R(u, l)
    <3>1. \A l \in 1..Len(rows[u]) : R(u, l) \in RowType
      BY <2>6
    <3>2. rows'[u] = [l \in 1..Len(rows[u]) |-> R(u, l)]
      BY <2>1
    <3>3. rows'[u] \in [1..Len(rows[u]) -> RowType] /\ \A l \in 1..Len(rows[u]) : rows'[u][l] = R(u, l)
      BY ONLY <3>1, <3>2
    <3>4. Len(rows[u]) \in Nat
      BY <2>2, RowType1
    <3> QED BY <3>3, <3>4, SeqOfFunction
  <2>8. ASSUME NEW u \in Users
        PROVE  /\ log'[u] \in Seq(EventType)
               /\ rows'[u] # rows[u] \/ log'[u] # log[u] => ownerLock[u] = t
    <3>1. log[u] \in Seq(EventType) /\ rows[u] \in Seq(RowType) /\ log'[u] = log[u] \o ev(u)
      BY <2>1, <2>2 DEF TypeOK
    <3>2. log'[u] \in Seq(EventType)
      BY <2>5, <3>1, ConcatProperties
    <3>3. ASSUME ownerLock[u] # t
          PROVE  rows'[u] = rows[u] /\ log'[u] = log[u]
      <4>1. \A i \in 1..n : ~Deletes(t, u, i)
        BY <2>3, <3>3
      <4>2. ev(u) = <<>>
        BY <2>4, <2>5, <4>1
      <4>3. log'[u] = log[u]
        BY <3>1, <4>2, ConcatEmptySeq
      <4>4. \A l \in 1..Len(rows[u]) : rows'[u][l] = rows[u][l]
        BY <2>6, <2>7, <4>1
      <4>5. rows'[u] = rows[u]
        BY ZenonT(60), <2>7, <3>1, <4>4, SeqEqual
      <4> QED BY <4>3, <4>5
    <3> QED BY <3>2, <3>3
  <2>9. rows' \in [Users -> Seq(RowType)] /\ log' \in [Users -> Seq(EventType)]
    <3>1. rows' = [u \in Users |-> rows'[u]] /\ log' = [u \in Users |-> log'[u]]
      BY <2>1
    <3>2. \A u \in Users : rows'[u] \in Seq(RowType) /\ log'[u] \in Seq(EventType)
      BY <2>7, <2>8
    <3> QED BY <3>1, <3>2
  <2>10. RowsGrow /\ OneRowPerRandomID'
    <3>1. \A u \in Users : /\ Len(rows'[u]) = Len(rows[u])
                           /\ \A l \in 1..Len(rows[u]) : /\ rows'[u][l].peer = rows[u][l].peer
                                                         /\ rows'[u][l].fan = rows[u][l].fan
                                                         /\ rows'[u][l].rid = rows[u][l].rid
      BY <2>6, <2>7
    <3> QED BY ZenonT(60), <2>1, <3>1, RewriteEffect
  <2>11. DataType'
    BY <2>1, <2>2, <2>9 DEF DataType, TypeOK
  <2> QED BY <2>1, <2>8, <2>10, <2>11 DEF WriteEffect
<1> QED BY <1>1, <1>2
=============================================================================
