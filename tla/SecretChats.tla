---------------------------- MODULE SecretChats ----------------------------
(***************************************************************************)
(* Secret chats: the request, acceptance and discard of a chat, and the    *)
(* queue of encrypted messages each user has, numbered by qts.             *)
(*                                                                         *)
(* A handler reads the chat without a lock and acts on it in a later       *)
(* statement that checks what it must check again by itself; the notice to *)
(* the other side is sent after the commit. secretCalls[p] is what handler *)
(* p is in the middle of.                                                  *)
(***************************************************************************)
EXTENDS Integers, FiniteSets, TLC

CONSTANTS
    SecretUsers,                \* the users of the chats
    SecretCallers,              \* request handlers
    MaxOutstandingSecretChats,  \* cap on the requests of a user not yet answered
    maxDiffEvents               \* cap on the events of one difference

VARIABLES
    secretChats,    \* secret_chats: id -> row
    encrypted,      \* encrypted_events
    qts,            \* update_state.qts
    secretCalls,
    notices,        \* notifications sent and not yet delivered
    clientQts,      \* the qts each user's client has come to
    given,          \* history: the events handed to the client
    inserted,       \* history: the events ever stored
    told,           \* history: the states of chats each user was told
    secretTasks,    \* bounds: the calls of each kind still to come, the random
                    \* ids they use and who sends
    noticesLost     \* bound and history: notifications that were lost

secretVars == <<secretChats, encrypted, qts, secretCalls, notices, clientQts, given, inserted,
                told, secretTasks, noticesLost>>

Resting == [op |-> "none", user |-> "none", chat |-> 0, rid |-> "none", step |-> "idle", qts |-> 0]

-----------------------------------------------------------------------------
(* Rows.                                                                   *)

Party(chat, user) == user \in {chat.admin, chat.participant}

Other(chat, user) == IF user = chat.admin THEN chat.participant ELSE chat.admin

SecretChatByID(id) == IF id \in DOMAIN secretChats THEN {secretChats[id]} ELSE {}

GetSecretChatByAdminRandomID(admin, rid) ==
    {id \in DOMAIN secretChats : /\ secretChats[id].admin = admin
                                 /\ secretChats[id].rid = rid
                                 /\ secretChats[id].state = "requested"}

CountRequestedSecretChats(admin) ==
    Cardinality({id \in DOMAIN secretChats :
                    secretChats[id].admin = admin /\ secretChats[id].state = "requested"})

NextSecretChatID == Cardinality(DOMAIN secretChats) + 1

InsertSecretChat(id, admin, participant, rid) ==
    secretChats @@ id :> [admin |-> admin, participant |-> participant, state |-> "requested",
                          key |-> "none", rid |-> rid]

AcceptableInAnyState(id, user) == secretChats[id].participant = user

\* The rows the UPDATE of AcceptSecretChat matches, and of DiscardSecretChat.
Acceptable(id, user) == secretChats[id].participant = user /\ secretChats[id].state = "requested"

Discardable(id) == secretChats[id].state \in {"requested", "active"}

\* What a party is shown of a chat; the key only once there is one.
encryptedChatFor(id, row) == [chat |-> id, state |-> row.state,
                              key |-> IF row.state = "active" THEN row.key ELSE "none"]

EventByRandomID(owner, rid) == {e \in encrypted : e.owner = owner /\ e.rid = rid}

\* One row at qts + 1, unless the random id is taken. Every user has had an
\* update_state row since they signed up.
InsertEncryptedEvent(owner, chat, rid) ==
    IF EventByRandomID(owner, rid) # {} THEN {}
    ELSE {[owner |-> owner, qts |-> qts[owner] + 1, rid |-> rid]}

BumpQts(owner) == [qts EXCEPT ![owner] = @ + 1]

GetQts(user) == qts[user]

EncryptedEventsWindow(user, from, to) ==
    {e \in encrypted : e.owner = user /\ e.qts > from /\ e.qts <= to}

DeleteEncryptedEventsByQts(user, max) == {e \in encrypted : e.owner # user \/ e.qts > max}

-----------------------------------------------------------------------------
(* How a call begins, goes on and ends.                                    *)

Starts(p, op, call) ==
    /\ secretCalls[p] = Resting
    /\ p = CHOOSE q \in SecretCallers : secretCalls[q] = Resting
    /\ secretTasks[op] > 0
    /\ secretTasks' = [secretTasks EXCEPT ![op] = @ - 1]
    /\ secretCalls' = [secretCalls EXCEPT ![p] = call]

On(p, step) == secretCalls[p].step = step

Proceeds(p, step) ==
    secretCalls' = [secretCalls EXCEPT ![p] = IF step = "idle" THEN Resting ELSE [@ EXCEPT !.step = step]]

Tell(user, view) == told' = [told EXCEPT ![user] = @ \cup {view}]

-----------------------------------------------------------------------------
(* Requesting, accepting, discarding.                                      *)

\* Under the requester's advisory lock: the random id, the cap, the row.
CreateSecretChatRequest(p, admin, participant, rid) ==
    LET known == GetSecretChatByAdminRandomID(admin, rid)
        full  == CountRequestedSecretChats(admin) >= MaxOutstandingSecretChats
        id    == NextSecretChatID
        rows  == InsertSecretChat(id, admin, participant, rid)
        made  == [Resting EXCEPT !.op = "request", !.user = admin, !.chat = id, !.step = "notify"]
    IN  /\ Starts(p, "request", IF known # {} \/ full THEN Resting ELSE made)
        /\ secretChats' = IF known # {} \/ full THEN secretChats ELSE rows
        /\ IF known = {} /\ full THEN UNCHANGED told
           ELSE \E i \in IF known # {} THEN known ELSE {id} :
                    Tell(admin, encryptedChatFor(i, rows[i]))
        /\ UNCHANGED <<encrypted, qts, notices, clientQts, given, inserted, noticesLost>>

\* The read before the update; a chat that is already discarded ends here.
handleAcceptEncryption(p, user) ==
    \E id \in DOMAIN secretChats : \E chat \in SecretChatByID(id) :
        /\ Starts(p, "accept", IF user # chat.participant \/ chat.state = "discarded" THEN Resting
                               ELSE [Resting EXCEPT !.op = "accept", !.user = user, !.chat = id, !.step = "accept"])
        /\ UNCHANGED <<secretChats, encrypted, qts, notices, clientQts, given, inserted, told, noticesLost>>

\* The key is the one this call brings. An update that matches nothing ends
\* the call with an error.
AcceptSecretChat(p) ==
    LET id  == secretCalls[p].chat
        row == [secretChats[id] EXCEPT !.state = "active", !.key = p]
    IN  /\ On(p, "accept")
        /\ IF Acceptable(id, secretCalls[p].user)
           THEN /\ secretChats' = [secretChats EXCEPT ![id] = row]
                /\ Tell(secretCalls[p].user, encryptedChatFor(id, row))
                /\ Proceeds(p, "notify")
           ELSE UNCHANGED <<secretChats, told>> /\ Proceeds(p, "idle")
        /\ UNCHANGED <<encrypted, qts, notices, clientQts, given, inserted, secretTasks, noticesLost>>

handleDiscardEncryption(p, user) ==
    \E id \in DOMAIN secretChats : \E chat \in SecretChatByID(id) :
        /\ Starts(p, "discard", IF ~Party(chat, user) THEN Resting
                                ELSE [Resting EXCEPT !.op = "discard", !.user = user, !.chat = id, !.step = "discard"])
        /\ UNCHANGED <<secretChats, encrypted, qts, notices, clientQts, given, inserted, told, noticesLost>>

\* Discarding what is discarded succeeds and notifies nobody.
DiscardSecretChat(p) ==
    LET id  == secretCalls[p].chat
        row == [secretChats[id] EXCEPT !.state = "discarded"]
    IN  /\ On(p, "discard")
        /\ Tell(secretCalls[p].user, encryptedChatFor(id, row))
        /\ IF Discardable(id)
           THEN secretChats' = [secretChats EXCEPT ![id] = row] /\ Proceeds(p, "notify")
           ELSE UNCHANGED secretChats /\ Proceeds(p, "idle")
        /\ UNCHANGED <<encrypted, qts, notices, clientQts, given, inserted, secretTasks, noticesLost>>

notifyEncryption(p) ==
    LET id == secretCalls[p].chat
    IN  /\ On(p, "notify")
        /\ notices' = notices \cup {[to |-> Other(secretChats[id], secretCalls[p].user), chat |-> id, qts |-> 0]}
        /\ Proceeds(p, "idle")
        /\ UNCHANGED <<secretChats, encrypted, qts, clientQts, given, inserted, told, secretTasks, noticesLost>>

\* The row is read when the notification is delivered. A lane delivers one
\* notification at a time, so read and push are one step.
DeliverEncryption(n) ==
    /\ n.qts = 0
    /\ notices' = notices \ {n}
    /\ IF Party(secretChats[n.chat], n.to) THEN Tell(n.to, encryptedChatFor(n.chat, secretChats[n.chat]))
       ELSE UNCHANGED told
    /\ UNCHANGED <<secretChats, encrypted, qts, secretCalls, clientQts, given, inserted, secretTasks, noticesLost>>

-----------------------------------------------------------------------------
(* Messages.                                                               *)

\* The chat is read once, without a lock: it may be discarded by the time
\* the message is stored.
handleSendEncryptedMessage(p, user, rid) ==
    \E id \in DOMAIN secretChats : \E chat \in SecretChatByID(id) :
        /\ Starts(p, "send", IF chat.state # "active" \/ ~Party(chat, user) THEN Resting
                             ELSE [Resting EXCEPT !.op = "send", !.user = Other(chat, user), !.chat = id,
                                                  !.rid = rid, !.step = "lookup"])
        /\ UNCHANGED <<secretChats, encrypted, qts, notices, clientQts, given, inserted, told, noticesLost>>

EncryptedMessageByRandomID(p) ==
    /\ On(p, "lookup")
    /\ Proceeds(p, IF EventByRandomID(secretCalls[p].user, secretCalls[p].rid) # {} THEN "idle" ELSE "insert")
    /\ UNCHANGED <<secretChats, encrypted, qts, notices, clientQts, given, inserted, told, secretTasks, noticesLost>>

\* Under the recipient's advisory lock. No row inserted: the transaction is
\* rolled back and the row that is in the way is looked up after it.
SendEncryptedMessage(p) ==
    LET c   == secretCalls[p]
        row == InsertEncryptedEvent(c.user, c.chat, c.rid)
    IN  /\ On(p, "insert")
        /\ IF row = {}
           THEN UNCHANGED <<encrypted, qts, inserted>> /\ Proceeds(p, "lookupAgain")
           ELSE /\ encrypted' = encrypted \cup row
                /\ inserted' = inserted \cup row
                /\ qts' = BumpQts(c.user)
                /\ secretCalls' = [secretCalls EXCEPT ![p].step = "notifyMsg", ![p].qts = qts[c.user] + 1]
        /\ UNCHANGED <<secretChats, notices, clientQts, given, told, secretTasks, noticesLost>>

\* Found or not, nothing more happens: the call answers with that event or
\* with an error.
DedupLookup(p) ==
    /\ On(p, "lookupAgain")
    /\ Proceeds(p, "idle")
    /\ UNCHANGED <<secretChats, encrypted, qts, notices, clientQts, given, inserted, told, secretTasks, noticesLost>>

notifyEncryptedMsg(p) ==
    /\ On(p, "notifyMsg")
    /\ notices' = notices \cup {[to |-> secretCalls[p].user, chat |-> secretCalls[p].chat, qts |-> secretCalls[p].qts]}
    /\ Proceeds(p, "idle")
    /\ UNCHANGED <<secretChats, encrypted, qts, clientQts, given, inserted, told, secretTasks, noticesLost>>

\* A client takes a pushed event that is the next one; any other it ignores
\* until its next difference.
DeliverEncryptedMsg(n) ==
    LET found == {e \in encrypted : e.owner = n.to /\ e.qts = n.qts /\ n.qts = clientQts[n.to] + 1}
    IN  /\ n.qts # 0
        /\ notices' = notices \ {n}
        /\ given' = given \cup found
        /\ clientQts' = IF found = {} THEN clientQts ELSE [clientQts EXCEPT ![n.to] = n.qts]
        /\ UNCHANGED <<secretChats, encrypted, qts, secretCalls, inserted, told, secretTasks, noticesLost>>

\* The state is read first; the window ends at that state's qts.
handleGetDifference(p, user) ==
    /\ Starts(p, "difference", [Resting EXCEPT !.op = "difference", !.user = user, !.chat = clientQts[user],
                                               !.qts = GetQts(user), !.step = "window"])
    /\ UNCHANGED <<secretChats, encrypted, qts, notices, clientQts, given, inserted, told, noticesLost>>

\* The first maxDiffEvents events of the window, and the qts the answer
\* advertises: of its last event when it was cut, else of the state.
Slice(window) == {e \in window : Cardinality({f \in window : f.qts < e.qts}) < maxDiffEvents}

newQtsUncut(window, stateQts) == stateQts

newQts(window, stateQts) ==
    IF Slice(window) = window THEN stateQts
    ELSE CHOOSE q \in {e.qts : e \in Slice(window)} : \A e \in Slice(window) : e.qts <= q

fillQtsGap(p) ==
    LET c      == secretCalls[p]
        window == EncryptedEventsWindow(c.user, c.chat, c.qts)
        next   == newQts(window, c.qts)
    IN  /\ On(p, "window")
        /\ given' = given \cup Slice(window)
        /\ clientQts' = IF next > clientQts[c.user] THEN [clientQts EXCEPT ![c.user] = next] ELSE clientQts
        /\ Proceeds(p, "idle")
        /\ UNCHANGED <<secretChats, encrypted, qts, notices, inserted, told, secretTasks, noticesLost>>

\* receivedQueue: the number is clamped to the qts read first.
handleReceivedQueue(p, user) ==
    LET max == IF clientQts[user] < GetQts(user) THEN clientQts[user] ELSE GetQts(user)
    IN  /\ Starts(p, "received", [Resting EXCEPT !.op = "received", !.user = user, !.qts = max, !.step = "acknowledge"])
        /\ UNCHANGED <<secretChats, encrypted, qts, notices, clientQts, given, inserted, told, noticesLost>>

AcknowledgeEncryptedEvents(p) ==
    /\ On(p, "acknowledge")
    /\ encrypted' = DeleteEncryptedEventsByQts(secretCalls[p].user, secretCalls[p].qts)
    /\ Proceeds(p, "idle")
    /\ UNCHANGED <<secretChats, qts, notices, clientQts, given, inserted, told, secretTasks, noticesLost>>

\* The process dies after the commit, or nobody listens: a notification that
\* will not be delivered.
NoticeLost ==
    /\ noticesLost < secretTasks.lose
    /\ noticesLost' = noticesLost + 1
    /\ \/ \E p \in SecretCallers : secretCalls[p].step \in {"notify", "notifyMsg"} /\ Proceeds(p, "idle") /\ UNCHANGED notices
       \/ \E n \in notices : notices' = notices \ {n} /\ UNCHANGED secretCalls
    /\ UNCHANGED <<secretChats, encrypted, qts, clientQts, given, inserted, told, secretTasks>>

-----------------------------------------------------------------------------
SecretStep(p) ==
    \/ AcceptSecretChat(p) \/ DiscardSecretChat(p) \/ notifyEncryption(p)
    \/ EncryptedMessageByRandomID(p) \/ SendEncryptedMessage(p) \/ DedupLookup(p) \/ notifyEncryptedMsg(p)
    \/ fillQtsGap(p) \/ AcknowledgeEncryptedEvents(p)

SecretCall(p, user) ==
    \/ /\ user \in secretTasks.senders
       /\ \E rid \in secretTasks.rids :
             \/ \E other \in SecretUsers \ {user} : CreateSecretChatRequest(p, user, other, rid)
             \/ handleSendEncryptedMessage(p, user, rid)
    \/ handleAcceptEncryption(p, user) \/ handleDiscardEncryption(p, user)
    \/ handleGetDifference(p, user) \/ handleReceivedQueue(p, user)

SecretNext ==
    \/ \E p \in SecretCallers : SecretStep(p) \/ (\E u \in SecretUsers : SecretCall(p, u))
    \/ \E n \in notices : DeliverEncryption(n) \/ DeliverEncryptedMsg(n)
    \/ NoticeLost

\* A scene begins with no chat or with an active one.
SecretInit(scenes) ==
    \E s \in scenes :
        /\ secretTasks = s.tasks
        /\ secretChats = s.chats
        /\ qts = [u \in SecretUsers |-> 0]
        /\ told = [u \in SecretUsers |->
                      {encryptedChatFor(i, s.chats[i]) : i \in {j \in DOMAIN s.chats : Party(s.chats[j], u)}}]
        /\ encrypted = {} /\ given = {} /\ inserted = {} /\ notices = {}
        /\ clientQts = [u \in SecretUsers |-> 0]
        /\ secretCalls = [p \in SecretCallers |-> Resting]
        /\ noticesLost = 0

-----------------------------------------------------------------------------
(* Properties.                                                             *)

\* The two sides of a secret chat agree. Nobody is ever told two keys of one
\* chat, however two devices accept it at once and the other side discards
\* it; a user has no more open requests than the cap and one per random id;
\* and when nothing is under way and no notification was lost, each party has
\* been told the state the chat is in, so the call that changed it notified
\* whoever did not make it.
SecretChatsAgree ==
    /\ \A u, v \in SecretUsers : \A x \in told[u], y \in told[v] :
          x.chat = y.chat /\ x.key # "none" /\ y.key # "none" => x.key = y.key
    /\ \A u \in SecretUsers : CountRequestedSecretChats(u) <= MaxOutstandingSecretChats
    /\ \A i, j \in DOMAIN secretChats :
          /\ i # j
          /\ secretChats[i].state = "requested"
          /\ secretChats[j].state = "requested"
          => <<secretChats[i].admin, secretChats[i].rid>> # <<secretChats[j].admin, secretChats[j].rid>>
    /\ (\A p \in SecretCallers : secretCalls[p] = Resting) /\ notices = {} /\ noticesLost = 0 =>
          \A i \in DOMAIN secretChats : \A u \in {secretChats[i].admin, secretChats[i].participant} :
              encryptedChatFor(i, secretChats[i]) \in told[u]

\* The queue of encrypted messages is whole. An event that was stored is
\* stored still or was handed to its owner's client, the client has been
\* handed every event up to the qts it has come to, and no two events of an
\* owner share a qts: whatever crosses, a push, a cut difference, a resend
\* and an acknowledgement, nothing is skipped or deleted unread.
EncryptedQueueIsWhole ==
    /\ inserted \subseteq encrypted \cup given
    /\ \A e \in inserted : e.qts <= clientQts[e.owner] => e \in given
    /\ \A e, f \in inserted : e.owner = f.owner /\ e.qts = f.qts => e = f
    /\ \A u \in SecretUsers : {e.qts : e \in {x \in inserted : x.owner = u}} = 1..qts[u]
=============================================================================
