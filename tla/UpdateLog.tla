------------------------------ MODULE UpdateLog ------------------------------
(***************************************************************************)
(* The message store: the transactions of internal/store that write the    *)
(* per-owner message rows and the per-owner event logs (`pts'), together   *)
(* with the membership mutations of a basic chat that decide who may be    *)
(* written to.                                                             *)
(*                                                                         *)
(* Every operation runs in one Postgres transaction at READ COMMITTED: a   *)
(* statement sees what other transactions have committed, never what they  *)
(* are still writing.  A slot is one transaction in progress.  It takes    *)
(* the chats row lock if the operation needs it, then the per-owner        *)
(* advisory locks in ascending order, reads under those locks, and writes  *)
(* and commits.  Reads that happen at different points of the transaction  *)
(* are different steps, so that other transactions interleave between them *)
(* wherever the locks allow it.                                            *)
(*                                                                         *)
(* One chat is modelled.  The peer id of a row is a user id, or Chat.      *)
(***************************************************************************)
EXTENDS Naturals, Sequences, FiniteSets

CONSTANTS Users,            \* user ids: positive, ordered
          Creator,          \* chats.creator_id
          Founders,         \* the member set CreateChat committed
          RandomIDs,        \* non-zero send-dedup tokens
          Slots,            \* transactions in progress at one time
          Kinds,            \* the operations clients call
          MaxParticipants,  \* maxChatParticipants
          MaxForward,       \* bound: messages in one forward
          MaxDelete,        \* bound: messages in one delete
          MaxOps            \* bound: operations begun

Chat == 0
None == 0

ASSUME UsersAssumption == Users \subseteq Nat \ {0} /\ IsFiniteSet(Users)
ASSUME FoundersAssumption == Creator \in Founders /\ Founders \subseteq Users
ASSUME RandomIDsAssumption == RandomIDs \subseteq Nat \ {0}
ASSUME SlotsAssumption == None \notin Slots
ASSUME BoundsAssumption == MaxParticipants \in Nat /\ MaxForward \in Nat /\ MaxDelete \in Nat /\ MaxOps \in Nat

VARIABLES rows,       \* messages: per owner, local_id -> row
          log,        \* events: per owner, pts -> event
          members,    \* chat_participants
          rights,     \* chats.default_banned_rights
          blocked,    \* blocked_users: <<blocker, blocked>>
          chatLock,   \* holder of the chats row lock, or None
          ownerLock,  \* holder of each owner's advisory lock, or None
          tx,         \* the transaction of each slot
          fanouts,    \* fan-out ids used so far
          ops,        \* operations begun so far
          left        \* history: users who have been removed from the chat

dbVars == <<rows, log, members, rights, blocked, fanouts, left>>
lockVars == <<chatLock, ownerLock>>
vars == <<dbVars, lockVars, tx, ops>>

Rights == {"invite_users", "send_messages"}

NoTx == [pc |-> "idle", kind |-> "none", who |-> None, peer |-> Chat, ids |-> <<>>,
         revoke |-> FALSE, text |-> 0, need |-> {}, mem |-> {}, banned |-> {}, seen |-> {}]

Init ==
    /\ rows = [u \in Users |-> <<>>]
    /\ log = [u \in Users |-> <<>>]
    /\ members = Founders
    /\ rights = {}
    /\ blocked = {}
    /\ chatLock = None
    /\ ownerLock = [u \in Users |-> None]
    /\ tx = [t \in Slots |-> NoTx]
    /\ fanouts = 0
    /\ ops = 0
    /\ left = {}

-----------------------------------------------------------------------------
(***************************************************************************)
(* Reads.                                                                  *)
(***************************************************************************)
\* MessagesByFanout: the per-member copies of one chat message, as <<owner,
\* local_id>> pairs.  Fan-out id 0 is "not a chat message" and has no copies.
chatCopies(f) ==
    {c \in UNION {{u} \X (1..Len(rows[u])) : u \in Users} :
        f # 0 /\ rows[c[1]][c[2]].fan = f}

copyOwners(f) == {u \in Users : \E l \in 1..Len(rows[u]) : f # 0 /\ rows[u][l].fan = f}

\* MessageByRandomID: the dedup key is the sender and the token, and carries no
\* destination.
ByRandomID(u, r) == {l \in 1..Len(rows[u]) : r # 0 /\ rows[u][l].rid = r}

\* The pts at which a message entered its owner's log.
newMessagePts(lg, l) == CHOOSE p \in 1..Len(lg) : lg[p] = [type |-> "new", local |-> l]

Min(S) == CHOOSE x \in S : \A y \in S : x <= y

\* The elements of s at the positions S, in order.
At(S, k) == CHOOSE i \in S : Cardinality({j \in S : j <= i}) = k
Pick(s, S) == [k \in 1..Cardinality(S) |-> s[At(S, k)]]

Held(t) == {u \in Users : ownerLock[u] = t}

-----------------------------------------------------------------------------
(***************************************************************************)
(* Opening a transaction.  Each operation starts with the checks it makes  *)
(* before its first lock; a call these reject changes nothing.             *)
(***************************************************************************)
Begin(t, kind, who, peer, ids, revoke, need, pc) ==
    /\ kind \in Kinds
    /\ ops < MaxOps
    /\ tx[t].pc = "idle"
    /\ ops' = ops + 1
    /\ tx' = [tx EXCEPT ![t] = [pc |-> pc, kind |-> kind, who |-> who, peer |-> peer, ids |-> ids,
                                revoke |-> revoke, text |-> ops + 1, need |-> need,
                                mem |-> {}, banned |-> {}, seen |-> {}]]
    /\ UNCHANGED <<dbVars, lockVars>>

\* Mutant: the sender's own advisory lock is not taken.
SendMessageLockingPeer(t, from, to, r) ==
    Begin(t, "SendMessage", from, to, <<r>>, FALSE, {to}, "owners")

SendMessage(t, from, to, r) ==
    Begin(t, "SendMessage", from, to, <<r>>, FALSE, {from, to}, "owners")

\* fanOut's early reject reads the member set outside the chats row lock.
SendChatMessage(t, from, r) ==
    /\ from \in members
    /\ Begin(t, "SendChatMessage", from, Chat, <<r>>, FALSE, {}, "chat")

ForwardMessages(t, from, dest, rs) ==
    /\ dest # from
    /\ IF dest = Chat
       THEN Begin(t, "ForwardMessages", from, Chat, rs, FALSE, {}, "chat")
       ELSE Begin(t, "ForwardMessages", from, dest, rs, FALSE, {from, dest}, "owners")

\* The row is read before any lock to learn whom to lock.
EditOwners(u, l) ==
    IF rows[u][l].peer = Chat THEN copyOwners(rows[u][l].fan) ELSE {u, rows[u][l].peer}

EditMessage(t, u, l) ==
    /\ rows[u][l].peer = Chat => ~rows[u][l].service
    /\ Begin(t, "EditMessage", u, rows[u][l].peer, <<l>>, FALSE, EditOwners(u, l), "owners")

\* The owners a batch of deletes locks: both sides of a 1:1 message, every copy
\* owner of a chat message to be revoked, and the caller.
DeleteOwners(u, ids, revoke) ==
    {v \in Users :
       \/ v = u
       \/ \E i \in 1..Len(ids) :
             \/ rows[u][ids[i]].peer # Chat /\ v = rows[u][ids[i]].peer
             \/ rows[u][ids[i]].peer = Chat /\ revoke /\ v \in copyOwners(rows[u][ids[i]].fan)}

\* Service messages are never deleted, and only the author or the creator may
\* revoke a chat message.
Deletable(u, l, revoke) ==
    rows[u][l].peer = Chat =>
       /\ ~rows[u][l].service
       /\ revoke => rows[u][l].out \/ u = Creator

DeleteMessages(t, u, ids, revoke) ==
    /\ \A i \in 1..Len(ids) : Deletable(u, ids[i], revoke)
    /\ Begin(t, "DeleteMessages", u, Chat, ids, revoke, DeleteOwners(u, ids, revoke), "owners")

\* beginChatMutation's early reject, ahead of the chats row lock.
BeginMutation(t, kind, caller, target, ids) ==
    /\ caller \in members
    /\ Begin(t, kind, caller, target, ids, FALSE, {}, "chat")

AddChatUser(t, caller, target) == BeginMutation(t, "AddChatUser", caller, target, <<>>)
RemoveChatUser(t, caller, target) == BeginMutation(t, "RemoveChatUser", caller, target, <<>>)
SetChatTitle(t, caller) == BeginMutation(t, "SetChatTitle", caller, Chat, <<>>)
SetChatDefaultBannedRights(t, caller) ==
    BeginMutation(t, "SetChatDefaultBannedRights", caller, Chat, <<>>)

BlockUser(t, u, v) ==
    /\ u # v
    /\ Begin(t, "BlockUser", u, v, <<>>, FALSE, {u, v}, "owners")

UnblockUser(t, u, v) ==
    /\ u # v
    /\ Begin(t, "UnblockUser", u, v, <<>>, FALSE, {u, v}, "owners")

-----------------------------------------------------------------------------
(***************************************************************************)
(* Ending a transaction: all its locks go, whatever the outcome.           *)
(***************************************************************************)
End(t) ==
    /\ tx' = [tx EXCEPT ![t] = NoTx]
    /\ chatLock' = IF chatLock = t THEN None ELSE chatLock
    /\ ownerLock' = [u \in Users |-> IF ownerLock[u] = t THEN None ELSE ownerLock[u]]
    /\ UNCHANGED ops

Refuse(t) == End(t) /\ UNCHANGED dbVars

\* A statement fails, the caller's context ends, or the connection breaks.
Rollback(t) == tx[t].pc # "idle" /\ Refuse(t)

(***************************************************************************)
(* The chats row lock, and the member set read under it.                   *)
(***************************************************************************)
ChatByIDForUpdate(t) ==
    /\ tx[t].pc = "chat"
    /\ chatLock = None
    /\ chatLock' = t
    /\ tx' = [tx EXCEPT ![t].pc = "members"]
    /\ UNCHANGED <<dbVars, ownerLock, ops>>

\* Mutant: the caller's membership is not read again under the lock.
AuthorisedBefore(t) ==
    tx[t].kind = "AddChatUser" /\ tx[t].peer \notin members =>
        tx[t].who = Creator \/ "invite_users" \notin rights

\* What the operations decide under the chats row lock and before any advisory
\* lock: membership of the caller, then the operation's own authority check.
Authorised(t) ==
    LET caller == tx[t].who
        target == tx[t].peer
        kind == tx[t].kind
    IN  /\ caller \in members
        /\ kind = "SendChatMessage" => Cardinality(members) <= MaxParticipants
        /\ kind = "AddChatUser" /\ target \notin members =>
              /\ caller = Creator \/ "invite_users" \notin rights
              /\ <<target, caller>> \notin blocked
        /\ kind = "RemoveChatUser" => target # Creator /\ (caller = Creator \/ target = caller)
        /\ kind \in {"SetChatTitle", "SetChatDefaultBannedRights"} => caller = Creator

\* Mutant: a removal relies on the chats row lock alone.
MutationOwnersChatOnly(t) ==
    CASE tx[t].kind = "AddChatUser" -> members \cup {tx[t].peer}
      [] tx[t].kind \in {"RemoveChatUser", "SetChatDefaultBannedRights"} -> {}
      [] OTHER -> members

\* Mutant: only the members read are locked, not the user added.
MutationOwnersMembers(t) ==
    IF tx[t].kind = "SetChatDefaultBannedRights" THEN {} ELSE members

\* The owners locked next: the members just read, with the user added or removed.
MutationOwners(t) ==
    CASE tx[t].kind \in {"AddChatUser", "RemoveChatUser"} -> members \cup {tx[t].peer}
      [] tx[t].kind = "SetChatDefaultBannedRights" -> {}
      [] OTHER -> members

ChatParticipants(t) ==
    /\ tx[t].pc = "members"
    /\ IF Authorised(t)
       THEN /\ tx' = [tx EXCEPT ![t].pc = "owners", ![t].mem = members,
                                ![t].banned = rights, ![t].need = MutationOwners(t)]
            /\ UNCHANGED <<dbVars, lockVars, ops>>
       ELSE Refuse(t)

\* Mutant: the locks are taken in any order.
lockOwnerUnordered(t) ==
    LET rest == tx[t].need \ Held(t) IN
    /\ tx[t].pc = "owners"
    /\ \E u \in rest :
         /\ ownerLock[u] = None
         /\ ownerLock' = [ownerLock EXCEPT ![u] = t]
         /\ tx' = [tx EXCEPT ![t].pc = IF rest = {u} THEN "read" ELSE "owners"]
    /\ UNCHANGED <<dbVars, chatLock, ops>>

(***************************************************************************)
(* lockOwners: one advisory lock after another, in ascending order.        *)
(***************************************************************************)
lockOwner(t) ==
    LET rest == tx[t].need \ Held(t) IN
    /\ tx[t].pc = "owners"
    /\ rest # {}
    /\ ownerLock[Min(rest)] = None
    /\ ownerLock' = [ownerLock EXCEPT ![Min(rest)] = t]
    /\ tx' = [tx EXCEPT ![t].pc = IF rest = {Min(rest)} THEN "read" ELSE "owners"]
    /\ UNCHANGED <<dbVars, chatLock, ops>>

\* No advisory lock to take.
lockNone(t) ==
    /\ tx[t].pc = "owners"
    /\ tx[t].need \subseteq Held(t)
    /\ tx' = [tx EXCEPT ![t].pc = "read"]
    /\ UNCHANGED <<dbVars, lockVars, ops>>

-----------------------------------------------------------------------------
(***************************************************************************)
(* Reads under the locks, and the refusals they lead to.                   *)
(***************************************************************************)
\* The tokens of the batch not stored yet; a token repeated within the batch
\* counts once, and 0 asks for no dedup.
Fresh(t) ==
    LET ids == tx[t].ids IN
    Pick(ids, {i \in 1..Len(ids) :
                 \/ ids[i] = 0
                 \/ ids[i] \notin tx[t].seen /\ \A j \in 1..(i - 1) : ids[j] # ids[i]})

RevokesChat(t) ==
    tx[t].revoke /\ \E i \in 1..Len(tx[t].ids) : rows[tx[t].who][tx[t].ids[i]].peer = Chat

ReadSend(t) ==
    tx' = [tx EXCEPT ![t].pc = "write",
                     ![t].seen = {r \in RandomIDs : ByRandomID(tx[t].who, r) # {}}]

\* EditMessage and DeleteMessages take no chats row lock: the advisory locks of
\* the copy owners are what makes this member set current.
ReadMembers(t) == tx' = [tx EXCEPT ![t].pc = "write", ![t].mem = members]

Editable(t) ==
    LET msg == rows[tx[t].who][tx[t].ids[1]] IN
    /\ msg.out /\ ~msg.deleted
    /\ msg.peer = Chat => tx[t].who \in members

\* Mutant: the member cap is off by one.
AddableAtCap(t) ==
    tx[t].peer \in tx[t].mem \/
      (<<tx[t].peer, tx[t].who>> \notin blocked /\ Cardinality(tx[t].mem) <= MaxParticipants)

\* AddChatUser, re-checking the block and then the cap.
Addable(t) ==
    tx[t].peer \in tx[t].mem \/
      (<<tx[t].peer, tx[t].who>> \notin blocked /\ Cardinality(tx[t].mem) < MaxParticipants)

Sends == {"SendMessage", "SendChatMessage", "ForwardMessages"}

ReadUnderLock(t) ==
    LET kind == tx[t].kind
        proceed == /\ kind = "EditMessage" => Editable(t)
                   /\ kind = "DeleteMessages" /\ RevokesChat(t) => tx[t].who \in members
                   /\ kind = "AddChatUser" => Addable(t)
    IN  /\ tx[t].pc = "read"
        /\ IF proceed
           THEN /\ IF kind \in Sends THEN ReadSend(t)
                   ELSE IF kind \in {"EditMessage", "DeleteMessages"} THEN ReadMembers(t)
                   ELSE tx' = [tx EXCEPT ![t].pc = "write"]
                /\ UNCHANGED <<dbVars, lockVars, ops>>
           ELSE Refuse(t)

-----------------------------------------------------------------------------
(***************************************************************************)
(* Writes.  The rows a transaction inserts, with a "new" event for each in *)
(* the same transaction; the events of an edit or a delete follow the rows *)
(* they changed.                                                           *)
(***************************************************************************)
Row(peer, from, out, rid, mirror, fan, service, text) ==
    [peer |-> peer, from |-> from, out |-> out, rid |-> rid, mirror |-> mirror,
     fan |-> fan, service |-> service, text |-> text, deleted |-> FALSE]

Insert(ins) ==
    /\ rows' = [u \in Users |-> rows[u] \o ins[u]]
    /\ log' = [u \in Users |-> log[u] \o
                 [i \in 1..Len(ins[u]) |-> [type |-> "new", local |-> Len(rows[u]) + i]]]

\* Both sides of a 1:1 message; one row when it is to oneself.  The token is on
\* the sender's row only.
UserRows(t, rs) ==
    LET from == tx[t].who
        to == tx[t].peer
    IN  [u \in Users |->
          IF u = from
          THEN [j \in 1..Len(rs) |->
                 Row(to, from, TRUE, rs[j], IF from = to THEN 0 ELSE Len(rows[to]) + j,
                     0, FALSE, tx[t].text)]
          ELSE IF u = to
          THEN [j \in 1..Len(rs) |->
                 Row(from, from, FALSE, 0, Len(rows[from]) + j, 0, FALSE, tx[t].text)]
          ELSE <<>>]

\* fanOut: one copy for each owner, the sender's carrying the token.
FanRows(t, owners, rs, service) ==
    [u \in Users |->
       IF u \in owners
       THEN [j \in 1..Len(rs) |->
              Row(Chat, tx[t].who, u = tx[t].who, IF u = tx[t].who THEN rs[j] ELSE 0,
                  0, fanouts + j, service, tx[t].text)]
       ELSE <<>>]

fanOut(t, owners, rs, service) ==
    /\ Insert(FanRows(t, owners, rs, service))
    /\ fanouts' = fanouts + Len(rs)

\* checkDefaultMessageRestriction, after the dedup lookup.
Restricted(t) ==
    tx[t].peer = Chat /\ tx[t].who # Creator /\ "send_messages" \in tx[t].banned

WriteSend(t) ==
    LET rs == Fresh(t) IN
    /\ tx[t].kind \in Sends
    /\ IF rs # <<>> /\ Restricted(t) THEN Refuse(t)
       ELSE /\ IF tx[t].peer = Chat THEN fanOut(t, tx[t].mem, rs, FALSE)
               ELSE Insert(UserRows(t, rs)) /\ UNCHANGED fanouts
            /\ UNCHANGED <<members, rights, blocked, left>>
            /\ End(t)

\* Mutant: an edit rewrites the editor's row only.
EditTargetsOwn(t) == {<<tx[t].who, tx[t].ids[1]>>}

\* The rows an edit rewrites: the message and its mirror, or the copies whose
\* owners are members.
EditTargets(t) ==
    LET u == tx[t].who
        l == tx[t].ids[1]
        m == rows[u][l]
    IN  IF m.peer = Chat THEN {c \in chatCopies(m.fan) : c[1] \in tx[t].mem}
        ELSE IF m.peer = u THEN {<<u, l>>}
        ELSE {<<u, l>>, <<m.peer, m.mirror>>}

WriteEdit(t) ==
    /\ tx[t].kind = "EditMessage"
    /\ rows' = [u \in Users |-> [l \in 1..Len(rows[u]) |->
                  IF <<u, l>> \in EditTargets(t) THEN [rows[u][l] EXCEPT !.text = tx[t].text]
                  ELSE rows[u][l]]]
    /\ log' = [u \in Users |->
                 IF \E c \in EditTargets(t) : c[1] = u
                 THEN Append(log[u], [type |-> "edit",
                                      local |-> (CHOOSE c \in EditTargets(t) : c[1] = u)[2]])
                 ELSE log[u]]
    /\ UNCHANGED <<members, rights, blocked, fanouts, left>>
    /\ End(t)

\* The local id of the row of u that deleting the i-th message of the batch
\* touches, 0 if none.
DeleteTarget(t, u, i) ==
    LET l == tx[t].ids[i]
        m == rows[tx[t].who][l]
    IN  IF m.peer = Chat /\ tx[t].revoke
        THEN IF u \in tx[t].mem /\ u \in copyOwners(m.fan)
             THEN (CHOOSE c \in chatCopies(m.fan) : c[1] = u)[2] ELSE 0
        ELSE IF u = tx[t].who THEN l
        ELSE IF u = m.peer /\ tx[t].revoke THEN m.mirror ELSE 0

\* Mutant: a row already deleted is deleted again.
DeletesAgain(t, u, i) == DeleteTarget(t, u, i) # 0

\* Whether SetDeleted changes a row: it was not deleted, before or earlier in
\* this batch.
Deletes(t, u, i) ==
    LET l == DeleteTarget(t, u, i) IN
    /\ l # 0
    /\ ~rows[u][l].deleted
    /\ \A j \in 1..(i - 1) : DeleteTarget(t, u, j) # l

DeletesOf(t, u) ==
    LET at == 1..Len(tx[t].ids) IN
    Pick([i \in at |-> DeleteTarget(t, u, i)], {i \in at : Deletes(t, u, i)})

\* The caller's own row, when it is what the delete names, must still be there;
\* a copy or a mirror already gone is skipped.
DeleteFails(t) ==
    \E i \in 1..Len(tx[t].ids) :
        /\ ~(tx[t].revoke /\ rows[tx[t].who][tx[t].ids[i]].peer = Chat)
        /\ ~Deletes(t, tx[t].who, i)

WriteDelete(t) ==
    /\ tx[t].kind = "DeleteMessages"
    /\ IF DeleteFails(t) THEN Refuse(t)
       ELSE /\ rows' = [u \in Users |-> [l \in 1..Len(rows[u]) |->
                          IF \E i \in 1..Len(tx[t].ids) : Deletes(t, u, i) /\ DeleteTarget(t, u, i) = l
                          THEN [rows[u][l] EXCEPT !.deleted = TRUE] ELSE rows[u][l]]]
            /\ log' = [u \in Users |-> log[u] \o
                         [j \in 1..Len(DeletesOf(t, u)) |->
                            [type |-> "delete", local |-> DeletesOf(t, u)[j]]]]
            /\ UNCHANGED <<members, rights, blocked, fanouts, left>>
            /\ End(t)

\* An add of a member and a removal of an outsider commit without a write.  The
\* announcement goes to the members fanOut then reads, and to the user removed.
WriteAdd(t) ==
    /\ tx[t].kind = "AddChatUser"
    /\ IF tx[t].peer \in members THEN Refuse(t)
       ELSE /\ members' = members \cup {tx[t].peer}
            /\ fanOut(t, members', <<0>>, TRUE)
            /\ UNCHANGED <<rights, blocked, left>>
            /\ End(t)

removeParticipant(t) ==
    /\ tx[t].kind = "RemoveChatUser"
    /\ IF tx[t].peer \notin members THEN Refuse(t)
       ELSE /\ members' = members \ {tx[t].peer}
            /\ left' = left \cup {tx[t].peer}
            /\ fanOut(t, members' \cup {tx[t].peer}, <<0>>, TRUE)
            /\ UNCHANGED <<rights, blocked>>
            /\ End(t)

WriteTitle(t) ==
    /\ tx[t].kind = "SetChatTitle"
    /\ fanOut(t, members, <<0>>, TRUE)
    /\ UNCHANGED <<members, rights, blocked, left>>
    /\ End(t)

WriteRights(t) ==
    /\ tx[t].kind = "SetChatDefaultBannedRights"
    /\ rights' \in SUBSET Rights
    /\ UNCHANGED <<rows, log, members, blocked, fanouts, left>>
    /\ End(t)

WriteBlock(t) ==
    /\ tx[t].kind \in {"BlockUser", "UnblockUser"}
    /\ blocked' = IF tx[t].kind = "BlockUser"
                  THEN blocked \cup {<<tx[t].who, tx[t].peer>>}
                  ELSE blocked \ {<<tx[t].who, tx[t].peer>>}
    /\ UNCHANGED <<rows, log, members, rights, fanouts, left>>
    /\ End(t)

\* Mutant: a resend is answered with the owner's current pts.
ReplyPtsCurrent(t, i) ==
    Len(log[tx[t].who]) + IF tx[t].ids[i] \in tx[t].seen THEN 0 ELSE 1

\* The pts the caller is told for the i-th message of a send.  A duplicate is
\* answered from the stored row; fanOut's answer for a token first used in a 1:1
\* send is the sender's current pts (fanoutPts).
ReplyPts(t, i) ==
    LET u == tx[t].who
        r == tx[t].ids[i]
        old == CHOOSE l \in 1..Len(rows[u]) : l \in ByRandomID(u, r)
        inserted(j) == tx[t].ids[j] = 0 \/
                       ~\E k \in 1..(j - 1) : tx[t].ids[k] = tx[t].ids[j]
        first == CHOOSE j \in 1..i : IF r = 0 THEN j = i ELSE tx[t].ids[j] = r /\ inserted(j)
    IN  IF r \in tx[t].seen
        THEN IF tx[t].kind = "SendChatMessage" /\ rows[u][old].fan = 0
             THEN Len(log[u]) ELSE newMessagePts(log[u], old)
        ELSE Len(log[u]) + Cardinality({j \in 1..first : inserted(j) /\ tx[t].ids[j] \notin tx[t].seen})

Commit(t) ==
    /\ tx[t].pc = "write"
    /\ \/ WriteSend(t) \/ WriteEdit(t) \/ WriteDelete(t) \/ WriteAdd(t)
       \/ removeParticipant(t) \/ WriteTitle(t) \/ WriteRights(t) \/ WriteBlock(t)

-----------------------------------------------------------------------------
Batches(S, max) == UNION {[1..n -> S] : n \in 1..max}
Tokens == RandomIDs \cup {0}
LocalIDs(u) == 1..Len(rows[u])

Call(t) ==
    \/ \E u, v \in Users : \E r \in Tokens : SendMessage(t, u, v, r)
    \/ \E u \in Users : \E r \in Tokens : SendChatMessage(t, u, r)
    \/ \E u \in Users : \E v \in Users \cup {Chat} : \E rs \in Batches(Tokens, MaxForward) :
          ForwardMessages(t, u, v, rs)
    \/ \E u \in Users : \E l \in LocalIDs(u) : EditMessage(t, u, l)
    \/ \E u \in Users : \E ids \in Batches(LocalIDs(u), MaxDelete) : \E revoke \in BOOLEAN :
          DeleteMessages(t, u, ids, revoke)
    \/ \E u, v \in Users :
          \/ AddChatUser(t, u, v)
          \/ RemoveChatUser(t, u, v)
          \/ BlockUser(t, u, v)
          \/ UnblockUser(t, u, v)
    \/ \E u \in Users : SetChatTitle(t, u) \/ SetChatDefaultBannedRights(t, u)

Step(t) ==
    \/ ChatByIDForUpdate(t)
    \/ ChatParticipants(t)
    \/ lockOwner(t)
    \/ lockNone(t)
    \/ ReadUnderLock(t)
    \/ Commit(t)

Next == \E t \in Slots : Call(t) \/ Step(t) \/ Rollback(t)

\* A transaction that can proceed does: nothing in it waits but for a lock.
Fairness == \A t \in Slots : WF_vars(Step(t))

Spec == Init /\ [][Next]_vars /\ Fairness

-----------------------------------------------------------------------------
(***************************************************************************)
(* Properties                                                              *)
(***************************************************************************)
Committing(t) == tx[t].pc = "write" /\ tx'[t].pc = "idle"
NewPts(u) == (Len(log[u]) + 1)..Len(log'[u])
Ids(u) == 1..Len(rows[u])

\* Rows, events, locks and transactions have their types.
RowType == [peer : Users \cup {Chat}, from : Users, out : BOOLEAN, rid : Tokens, mirror : Nat,
            fan : Nat, service : BOOLEAN, text : Nat, deleted : BOOLEAN]
EventType == [type : {"new", "edit", "delete"}, local : Nat]
TxType == [pc : {"idle", "chat", "members", "owners", "read", "write"}, kind : Kinds \cup {"none"},
           who : Users \cup {None}, peer : Users \cup {Chat}, ids : Seq(Nat), revoke : BOOLEAN,
           text : Nat, need : SUBSET Users, mem : SUBSET Users, banned : SUBSET Rights,
           seen : SUBSET RandomIDs]

\* Every variable has its type.
TypeOK ==
    /\ rows \in [Users -> Seq(RowType)]
    /\ log \in [Users -> Seq(EventType)]
    /\ members \in SUBSET Users /\ left \in SUBSET Users
    /\ rights \in SUBSET Rights
    /\ blocked \in SUBSET (Users \X Users)
    /\ chatLock \in Slots \cup {None}
    /\ ownerLock \in [Users -> Slots \cup {None}]
    /\ tx \in [Slots -> TxType]
    /\ fanouts \in Nat /\ ops \in Nat

\* "content delivered to a non-member" never happens: an event about a chat
\* message is logged only for a user who is a member when the transaction commits,
\* or becomes or ceases to be one in it.  The exception is one's own clearing of a
\* copy kept from before leaving.  editChatMessage and DeleteMessages rely on the
\* advisory lock of the removed user for this, not on the chats row.
NonMembersAreFrozen ==
    [][\A u \in Users : \A p \in NewPts(u) :
         rows'[u][log'[u][p].local].peer = Chat =>
            \/ u \in members \cup members'
            \/ /\ log'[u][p].type = "delete"
               /\ \E t \in Slots : Committing(t) /\ tx[t].who = u /\ ~tx[t].revoke]_vars

\* A plain chat message commits only while its sender is a member whom the default
\* restrictions let write, and every member at that moment gets a copy.
ChatSendsAreAuthorised ==
    [][\A u \in Users : \A p \in NewPts(u) :
         LET m == rows'[u][log'[u][p].local] IN
         log'[u][p].type = "new" /\ m.peer = Chat /\ ~m.service =>
            /\ m.from \in members
            /\ m.from = Creator \/ "send_messages" \notin rights
            /\ \A v \in members : \E l \in Len(rows[v])+1..Len(rows'[v]) : rows'[v][l].fan = m.fan]_vars

\* No one joins through a caller they have blocked, even if the block committed
\* while the add waited for its locks; and the member cap holds under concurrent
\* adds.
AddsAreAuthorised ==
    [][\A u \in members' \ members :
         /\ Cardinality(members') <= MaxParticipants
         /\ \E t \in Slots : /\ Committing(t) /\ tx[t].peer = u
                             /\ <<u, tx[t].who>> \notin blocked]_vars

\* Whoever writes an owner's rows or log holds that owner's advisory lock.
WritesHoldOwnerLock ==
    [][\A u \in Users :
         rows'[u] # rows[u] \/ log'[u] # log[u] =>
            \E t \in Slots : Committing(t) /\ ownerLock[u] = t]_vars

\* A token is stored at most once per sender: two sends racing with the same
\* random_id never both insert.  (The unique index behind it never fires.)
OneRowPerRandomID ==
    \A u \in Users : \A k, l \in Ids(u) :
        rows[u][k].rid = rows[u][l].rid /\ rows[u][k].rid # 0 => k = l

\* The two sides of a 1:1 message point at each other and carry the same text.
MirrorsAgree ==
    \A u \in Users : \A l \in Ids(u) :
        LET m == rows[u][l] IN
        m.peer # Chat /\ m.peer # u =>
           /\ m.mirror \in Ids(m.peer)
           /\ LET n == rows[m.peer][m.mirror] IN
              n.peer = u /\ n.mirror = l /\ n.text = m.text /\ n.out = ~m.out

\* Members who never left see the same text on their copies of a chat message.
CopiesAgree ==
    \A u, v \in Users \ left : \A k \in Ids(u) : \A l \in Ids(v) :
        rows[u][k].fan # 0 /\ rows[u][k].fan = rows[v][l].fan => rows[u][k].text = rows[v][l].text

\* What getDifference replays: each row entered its owner's log once, in local_id
\* order, and was deleted there exactly when it is marked deleted, once however
\* many deletes raced.
LogTellsRows ==
    \A u \in Users :
        LET at(type, l) == {p \in 1..Len(log[u]) : log[u][p] = [type |-> type, local |-> l]} IN
        /\ \A p \in 1..Len(log[u]) : log[u][p].local \in Ids(u)
        /\ \A l \in Ids(u) :
             /\ Cardinality(at("new", l)) = 1
             /\ Cardinality(at("delete", l)) = IF rows[u][l].deleted THEN 1 ELSE 0
             /\ \A k \in 1..(l - 1) : \A p \in at("new", k) : \A q \in at("new", l) : p < q
             /\ \A p \in at("new", l) : \A q \in at("edit", l) \cup at("delete", l) : p < q

\* "the single outcome a resend must never report" is the owner's current pts: the
\* pts answered for a send, first or resent, is where its message entered the log.
\* fanOut answering for a token of a 1:1 send is the one documented exception.
ResendKeepsPts ==
    [][\A t \in Slots : Committing(t) /\ tx[t].kind \in Sends /\ (Fresh(t) = <<>> \/ log' # log) =>
         \A i \in 1..Len(tx[t].ids) :
           LET u == tx[t].who
               e == log'[u][ReplyPts(t, i)]
           IN  \/ e.type = "new" /\ rows'[u][e.local].rid = tx[t].ids[i]
               \/ /\ tx[t].kind = "SendChatMessage"
                  /\ \E l \in ByRandomID(u, tx[t].ids[i]) : rows[u][l].fan = 0]_vars

\* Every transaction ends: the order chats row, then advisory locks ascending,
\* leaves no two transactions waiting for each other.
TransactionsEnd == \A t \in Slots : tx[t].pc # "idle" ~> tx[t].pc = "idle"

\* DeleteMessages' comment: "It fails closed (ErrMessageInvalid, no changes) if
\* any id is absent or already deleted."
DeleteFailsClosed ==
    [][\A t \in Slots : Committing(t) /\ tx[t].kind = "DeleteMessages" /\ log' # log =>
         \A i \in 1..Len(tx[t].ids) : ~rows[tx[t].who][tx[t].ids[i]].deleted]_vars

\* ForwardMessages' comment: "Dedup: a repeated random_id (per sender, per
\* destination peer) returns the previously created forwarded message id".  A
\* token new to this destination is therefore delivered to it.
ForwardDedupIsPerDestination ==
    [][\A t \in Slots :
         Committing(t) /\ tx[t].kind = "ForwardMessages" /\ (Fresh(t) = <<>> \/ log' # log) =>
           \A i \in 1..Len(tx[t].ids) : tx[t].ids[i] = 0 \/
              \E l \in 1..Len(rows'[tx[t].who]) :
                 /\ rows'[tx[t].who][l].rid = tx[t].ids[i]
                 /\ rows'[tx[t].who][l].peer = tx[t].peer]_vars
=============================================================================
