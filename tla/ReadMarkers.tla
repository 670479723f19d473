---- MODULE ReadMarkers ----
(***************************************************************************)
(* Dialogs and their read markers: how messages.readHistory moves a        *)
(* reader's inbox marker, translates it into the message numbers of those  *)
(* who wrote the messages, and keeps the unread counts, while messages are *)
(* sent and deleted and members come and go.  The sources are              *)
(* internal/store/dialogs.go, chat_read_history.go and their queries.      *)
(*                                                                         *)
(* Every user numbers the messages of all of their dialogs with one        *)
(* counter, so the copies of one message have different numbers: box[u] is *)
(* the sequence of u's rows and a row's position is its local_id.  A       *)
(* transaction that holds the locks of all the owners it writes to is one  *)
(* step; ReadChatHistory, which reads its bound and the member list before *)
(* it takes those locks, is three.                                         *)
(***************************************************************************)
EXTENDS Integers, FiniteSets, Sequences, FiniteSetsExt

CONSTANTS BoxOwners, ChatPeer, ChatCreator, ReadCallers

ASSUME BoxOwnersAssumption == ChatPeer \notin BoxOwners /\ ChatCreator \in BoxOwners

VARIABLES box,        \* messages: owner -> sequence of rows
          dialog,     \* dialogs: owner -> peer -> row (top = 0: no row)
          inChat,     \* chat_participants
          readEvents, \* message_events of the two read types, each with the dialog it is about
          readCalls,  \* ReadChatHistory calls in flight
          asked,      \* history: the newest copy of the chat an owner had when they last asked to read it
          readTasks   \* how many of each operation a scenario still has, and its ids, writers and readers

readVars == <<box, dialog, inChat, readEvents, readCalls, asked, readTasks>>

Peers == BoxOwners \cup {ChatPeer}

NoDialog == [top |-> 0, unread |-> 0, inbox |-> 0, outbox |-> 0]

IdsOf(o, p) == {i \in DOMAIN box[o] : box[o][i].peer = p}

MaxOf(S) == Max(S \cup {0})

Larger(a, b) == IF a > b THEN a ELSE b

\* The rows an owner has of one fan-out, and the number they have there.
CopyOf(o, fan) == {i \in DOMAIN box[o] : box[o][i].fan = fan}

NextFanoutID ==
    1 + MaxOf(UNION {{box[o][i].fan : i \in DOMAIN box[o]} : o \in BoxOwners})

UpsertDialog(row, top, unread) == [row EXCEPT !.top = top, !.unread = @ + unread]

Uses(task) ==
    /\ readTasks[task] > 0
    /\ readTasks' = [readTasks EXCEPT ![task] = @ - 1]

----
(* Sends, deletes and changes of membership, as far as they touch a dialog. *)

SendMessage(from, to) ==
    LET sent == Len(box[from]) + 1
        got  == Len(box[to]) + 1
        row(peer, out, mirror) ==
            [peer |-> peer, from |-> from, out |-> out, mirror |-> mirror, fan |-> 0, deleted |-> FALSE]
    IN  /\ Uses("send")
        /\ IF from = to
           THEN /\ box' = [box EXCEPT ![from] = Append(@, row(to, TRUE, 0))]
                /\ dialog' = [dialog EXCEPT ![from][to] = UpsertDialog(@, sent, 0)]
           ELSE /\ box' = [box EXCEPT ![from] = Append(@, row(to, TRUE, got)),
                                      ![to] = Append(@, row(from, FALSE, sent))]
                /\ dialog' = [dialog EXCEPT ![from][to] = UpsertDialog(@, sent, 0),
                                            ![to][from] = UpsertDialog(@, got, 1)]
        /\ UNCHANGED <<inChat, readEvents, readCalls, asked>>

\* One row, and one dialog, for every owner of the fan-out.
fanOut(from, owners) ==
    LET row(o) == [peer |-> ChatPeer, from |-> from, out |-> o = from, mirror |-> 0,
                   fan |-> NextFanoutID, deleted |-> FALSE]
    IN  /\ box' = [o \in BoxOwners |-> IF o \in owners THEN Append(box[o], row(o)) ELSE box[o]]
        /\ dialog' = [o \in BoxOwners |->
                IF o \in owners
                THEN [dialog[o] EXCEPT ![ChatPeer] =
                        UpsertDialog(@, Len(box[o]) + 1, IF o = from THEN 0 ELSE 1)]
                ELSE dialog[o]]

SendChatMessage(from) ==
    /\ Uses("chatSend")
    /\ from \in inChat
    /\ fanOut(from, inChat)
    /\ UNCHANGED <<inChat, readEvents, readCalls, asked>>

\* The announcement of an addition reaches the new member, whose dialog it makes.
AddChatUser(caller, target) ==
    /\ Uses("add")
    /\ caller \in inChat /\ target \notin inChat
    /\ inChat' = inChat \cup {target}
    /\ fanOut(caller, inChat')
    /\ UNCHANGED <<readEvents, readCalls, asked>>

\* The announcement of a removal also goes to the member who is removed.
RemoveChatUser(caller, target) ==
    /\ Uses("remove")
    /\ {caller, target} \subseteq inChat
    /\ target # ChatCreator /\ caller \in {ChatCreator, target}
    /\ inChat' = inChat \ {target}
    /\ fanOut(caller, inChat)
    /\ UNCHANGED <<readEvents, readCalls, asked>>

\* An owner clears their own copy; neither the count nor a marker follows.
DeleteMessages(o, i) ==
    /\ Uses("delete")
    /\ i \in DOMAIN box[o] /\ ~box[o][i].deleted
    /\ box' = [box EXCEPT ![o][i].deleted = TRUE]
    /\ UNCHANGED <<dialog, inChat, readEvents, readCalls, asked>>

----
(* Reading. *)

unreadAbove(o, p, marker) ==
    Cardinality({i \in IdsOf(o, p) : ~box[o][i].out /\ ~box[o][i].deleted /\ i > marker})

\* The marker never regresses, and the count is taken anew above it.  A dialog
\* with oneself has one row for both sides, whose outbox marker moves along.
AdvanceReadInbox(o, p, max) ==
    LET row == dialog[o][p]
        inbox == Larger(row.inbox, max)
    IN  [row EXCEPT !.inbox = inbox, !.unread = unreadAbove(o, p, inbox),
                    !.outbox = IF o = p THEN Larger(@, max) ELSE @]

AdvanceReadOutbox(row, max) == [row EXCEPT !.outbox = Larger(@, max)]

ReadEvent(type, o, p, id) == [type |-> type, owner |-> o, peer |-> p, id |-> id]

\* Mutant: the reader's number given to the sender as it is.
mirrorUntranslated(o, p, max) == MaxOf({i \in IdsOf(o, p) : i <= max})

\* The newest mirror at or below the reader's marker.
mirrorMax(o, p, max) == MaxOf({box[o][i].mirror : i \in {j \in IdsOf(o, p) : j <= max}})

ReadHistory(o, p, max) ==
    /\ Uses("read")
    /\ IF dialog[o][p].top = 0
       THEN UNCHANGED <<dialog, readEvents>>
       ELSE LET inbox == AdvanceReadInbox(o, p, max)
                peerMax == mirrorMax(o, p, max)
            IN  IF o = p
                THEN /\ dialog' = [dialog EXCEPT ![o][p] = inbox]
                     /\ readEvents' = readEvents \cup {ReadEvent("in", o, p, inbox.inbox)}
                ELSE /\ dialog' = [dialog EXCEPT ![o][p] = inbox,
                                                 ![p][o] = AdvanceReadOutbox(@, peerMax)]
                     /\ readEvents' = readEvents \cup {ReadEvent("in", o, p, inbox.inbox),
                                                       ReadEvent("out", p, o, peerMax)}
    /\ UNCHANGED <<box, inChat, readCalls, asked>>

\* The newest copy not deleted at or below what the client asked for.
MaxChatReadMessageID(o, max) ==
    MaxOf({i \in IdsOf(o, ChatPeer) : ~box[o][i].deleted /\ i <= max})

NoRead == [at |-> "idle"]

\* The membership check and the bound, before any lock.
ReadChatHistory(c, o, max) ==
    /\ readCalls[c].at = "idle"
    /\ Uses("chatRead")
    /\ readCalls' = [readCalls EXCEPT ![c] =
            IF o \in inChat
            THEN [at |-> "list", owner |-> o, bound |-> MaxChatReadMessageID(o, max), members |-> {}]
            ELSE NoRead]
    /\ asked' = [asked EXCEPT ![o] = MaxOf(IdsOf(o, ChatPeer))]
    /\ UNCHANGED <<box, dialog, inChat, readEvents>>

\* The member list whose owners the attempt is going to lock.
listMembers(c) ==
    /\ readCalls[c].at = "list"
    /\ readCalls' = [readCalls EXCEPT ![c] =
            IF @.owner \in inChat THEN [@ EXCEPT !.at = "attempt", !.members = inChat] ELSE NoRead]
    /\ UNCHANGED <<box, dialog, inChat, readEvents, readTasks, asked>>

\* The senders, among the current members, of what the step covers, each with
\* the number their own copy has.
ChatReadReceiptTargets(o, after, bound, members) ==
    LET covered == {i \in IdsOf(o, ChatPeer) :
                        /\ ~box[o][i].out /\ ~box[o][i].deleted
                        /\ i > after /\ i <= bound
                        /\ box[o][i].from \in members}
        own(s) == UNION {{j \in CopyOf(s, box[o][i].fan) : box[s][j].out} :
                            i \in {k \in covered : box[o][k].from = s}}
    IN  [s \in {box[o][i].from : i \in covered} |-> MaxOf(own(s))]

advanceChatReadHistory(o, bound) ==
    LET after == dialog[o][ChatPeer].inbox
        targets == ChatReadReceiptTargets(o, after, bound, inChat)
        told == {s \in DOMAIN targets : targets[s] > dialog[s][ChatPeer].outbox}
    IN  IF dialog[o][ChatPeer].top = 0 \/ bound <= after
        THEN UNCHANGED <<dialog, readEvents>>
        ELSE /\ dialog' = [u \in BoxOwners |->
                    CASE u = o -> [dialog[u] EXCEPT ![ChatPeer] =
                                    [AdvanceReadInbox(o, ChatPeer, bound) EXCEPT !.outbox = @]]
                      [] u \in told -> [dialog[u] EXCEPT ![ChatPeer] = AdvanceReadOutbox(@, targets[u])]
                      [] OTHER -> dialog[u]]
             /\ readEvents' = readEvents \cup {ReadEvent("in", o, ChatPeer, bound)}
                                 \cup {ReadEvent("out", s, ChatPeer, targets[s]) : s \in told}

\* Under the locks the members are read again: somebody whose lock is not held
\* means another attempt, and a reader who has left is refused.
readChatHistoryAttempt(c) ==
    LET call == readCalls[c]
    IN  /\ call.at = "attempt"
        /\ IF ~(inChat \subseteq call.members)
           THEN /\ readCalls' = [readCalls EXCEPT ![c].at = "list"]
                /\ UNCHANGED <<dialog, readEvents>>
           ELSE /\ readCalls' = [readCalls EXCEPT ![c] = NoRead]
                /\ IF call.owner \in inChat
                   THEN advanceChatReadHistory(call.owner, call.bound)
                   ELSE UNCHANGED <<dialog, readEvents>>
        /\ UNCHANGED <<box, inChat, readTasks, asked>>

----
ReadCall(c) ==
    \/ \E o \in readTasks.readers, max \in readTasks.ids : ReadChatHistory(c, o, max)
    \/ listMembers(c)
    \/ readChatHistoryAttempt(c)

MarkersNext ==
    \/ \E o, p \in readTasks.writers : SendMessage(o, p)
    \/ \E o \in readTasks.readers, p \in readTasks.writers, max \in readTasks.ids : ReadHistory(o, p, max)
    \/ \E o \in readTasks.writers : SendChatMessage(o)
    \/ \E o, p \in BoxOwners : AddChatUser(o, p) \/ RemoveChatUser(o, p)
    \/ \E o \in readTasks.readers : \E i \in DOMAIN box[o] : DeleteMessages(o, i)
    \/ \E c \in ReadCallers : ReadCall(c)

MarkersInit(scenes) ==
    /\ box = [o \in BoxOwners |-> << >>]
    /\ dialog = [o \in BoxOwners |-> [p \in Peers |-> NoDialog]]
    /\ readEvents = {}
    /\ readCalls = [c \in ReadCallers |-> NoRead]
    /\ asked = [o \in BoxOwners |-> 0]
    /\ \E s \in scenes : inChat = s.members /\ readTasks = s.tasks

----
(* What the markers may say. *)

\* Everything a dialog tells its owner about reading is true, whatever sends,
\* deletes and changes of membership came in between (ReadHistory,
\* ReadChatHistory).  (1) In a private dialog a message below the sender's
\* outbox marker has its copy below the peer's inbox marker, although the two
\* sides number their messages differently.  (2) In a chat the sender's outbox
\* marker stands at a message of their own, and somebody else's inbox marker
\* covers that person's copy of it, which was there when that person asked: a
\* send committed while the locks were awaited is not in the receipt.  (3) The badge never shows fewer messages
\* than there are unread: it can be too high after a delete, until the next
\* read counts anew.  (4) A read-outbox event names a row of the dialog it is
\* about, which is where the client that replays it finds the peer, and the
\* dialog's marker has passed it.
ReceiptsAreTrue ==
    /\ \A o, p \in BoxOwners : \A i \in IdsOf(o, p) :
          o # p /\ i <= dialog[o][p].outbox => box[o][i].mirror <= dialog[p][o].inbox
    /\ \A o \in BoxOwners :
          LET marker == dialog[o][ChatPeer].outbox
          IN  marker > 0 =>
                 /\ marker \in IdsOf(o, ChatPeer) /\ box[o][marker].out
                 /\ \E r \in BoxOwners \ {o} : \E i \in CopyOf(r, box[o][marker].fan) :
                       i <= dialog[r][ChatPeer].inbox
    /\ \A o \in BoxOwners : dialog[o][ChatPeer].inbox <= asked[o]
    /\ \A o \in BoxOwners, p \in Peers :
          dialog[o][p].unread >= unreadAbove(o, p, dialog[o][p].inbox)
    /\ \A e \in readEvents : e.type = "out" /\ e.id > 0 =>
          /\ e.id \in IdsOf(e.owner, e.peer)
          /\ e.id <= dialog[e.owner][e.peer].outbox

====
