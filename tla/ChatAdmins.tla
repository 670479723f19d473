---- MODULE ChatAdmins ----
(***************************************************************************)
(* The administrators of a basic chat, and how its members learn of a      *)
(* change of role: a push to whoever is connected, and a marker for each   *)
(* member that a difference reports and then consumes.  The sources are    *)
(* SetChatAdmin in internal/store/chats.go, chat_admin_events.go, the      *)
(* handlers of messages.editChatAdmin and updates.getDifference and        *)
(* DeliverChatAdmin in internal/api/notify.go.                             *)
(*                                                                         *)
(* Every change of the chat holds its row and is one step.  A difference   *)
(* is three: its reads, the writing of the reply, and the deletes after    *)
(* it.  Notifications of one chat share a lane, so one push at a time is   *)
(* under way.                                                              *)
(***************************************************************************)
EXTENDS Integers, Sequences, FiniteSets

CONSTANTS
    ChatUsers, ChatFounder,
    Devices,            \* <<user, number>>: the connections there are
    RolesPerDifference  \* maxDiffEvents

ASSUME DevicesAreOfUsers == Devices \subseteq ChatUsers \X Nat

VARIABLES
    roles,          \* chat_participants: member -> is_admin
    roleVersions,   \* history: the roles at each chats.version; its length is the version
    roleEvents,     \* chat_admin_events, by id: [user, isAdmin, version]
    recipients,     \* chat_admin_event_recipients: <<owner, target>> -> event
    stateMarkers,   \* chat_admin_state_markers: <<owner, target>> -> event
    roleNotices,    \* events whose notification is on its way
    rolePush,       \* the fan-out under way: [event, to], event 0 for none
    differences,    \* device -> the difference it is in the middle of
    heard,          \* history: <<user, target>> -> the newest role a device of theirs was told
    roleTasks       \* bounds: the steps of each kind still to come

roleVars == <<roles, roleVersions, roleEvents, recipients, stateMarkers, roleNotices, rolePush, differences,
              heard, roleTasks>>

NoPush == [event |-> 0, to |-> {}]

NoDifference == [at |-> "idle", snapshots |-> {}]

Spend(task) ==
    /\ roleTasks[task] > 0
    /\ roleTasks' = [roleTasks EXCEPT ![task] = @ - 1]

-----------------------------------------------------------------------------
(* The tables.                                                             *)

Upsert(rows, owners, target, event) ==
    LET new == {<<u, target>> : u \in owners}
    IN  [k \in DOMAIN rows \cup new |-> IF k \in new THEN event ELSE rows[k]]

\* The foreign keys: rows go with the membership of either party.
Cascade(rows, user) == [k \in {j \in DOMAIN rows : user \notin {j[1], j[2]}} |-> rows[k]]

ChatAdminEventRecipientsByEvent(event) == {u \in DOMAIN roles : \E t \in ChatUsers :
    <<u, t>> \in DOMAIN recipients /\ recipients[<<u, t>>] = event}

\* The first of the user's markers, with the roles and the version of the moment.
ChatAdminSnapshotsForMember(user) ==
    LET pending == {t \in DOMAIN roles : user \in DOMAIN roles /\ <<user, t>> \in DOMAIN stateMarkers}
        before(t) == {s \in pending : stateMarkers[<<user, s>>] < stateMarkers[<<user, t>>]}
    IN  {[event |-> stateMarkers[<<user, t>>], user |-> t, isAdmin |-> roles[t], version |-> Len(roleVersions)] :
            t \in {s \in pending : Cardinality(before(s)) < RolesPerDifference}}

\* Mutant: the markers of everybody the reply was about are consumed.
DeleteMarkersOfTargets(owner, events) ==
    LET targets == {roleEvents[e].user : e \in events}
    IN  [k \in {j \in DOMAIN stateMarkers : ~(j[1] = owner /\ j[2] \in targets)} |-> stateMarkers[k]]

DeleteChatAdminStateMarkersByEventIDs(owner, events) ==
    [k \in {j \in DOMAIN stateMarkers : ~(j[1] = owner /\ stateMarkers[j] \in events)} |-> stateMarkers[k]]

-----------------------------------------------------------------------------
(* Changes of the chat.                                                    *)

SetChatAdmin(caller, target, isAdmin) ==
    LET event == Len(roleEvents) + 1
        members == DOMAIN roles
    IN  /\ caller \in members /\ caller = ChatFounder
        /\ target # ChatFounder /\ target \in members
        /\ roles[target] # isAdmin
        /\ Spend("change")
        /\ roles' = [roles EXCEPT ![target] = isAdmin]
        /\ roleVersions' = Append(roleVersions, roles')
        /\ roleEvents' = Append(roleEvents, [user |-> target, isAdmin |-> isAdmin, version |-> Len(roleVersions')])
        /\ recipients' = Upsert(recipients, members, target, event)
        /\ stateMarkers' = Upsert(stateMarkers, members, target, event)
        /\ roleNotices' = roleNotices \cup {event}
        /\ UNCHANGED <<rolePush, differences, heard>>

\* AddChatUser and RemoveChatUser, as far as roles go.
memberJoins(target) ==
    /\ target \notin DOMAIN roles
    /\ Spend("move")
    /\ roles' = [u \in DOMAIN roles \cup {target} |-> IF u = target THEN FALSE ELSE roles[u]]
    /\ roleVersions' = Append(roleVersions, roles')
    /\ UNCHANGED <<roleEvents, recipients, stateMarkers, roleNotices, rolePush, differences, heard>>

memberLeaves(target) ==
    /\ target \in DOMAIN roles \ {ChatFounder}
    /\ Spend("move")
    /\ roles' = [u \in DOMAIN roles \ {target} |-> roles[u]]
    /\ roleVersions' = Append(roleVersions, roles')
    /\ recipients' = Cascade(recipients, target)
    /\ stateMarkers' = Cascade(stateMarkers, target)
    /\ UNCHANGED <<roleEvents, roleNotices, rolePush, differences, heard>>

-----------------------------------------------------------------------------
(* Telling the members.                                                    *)

\* A client keeps the newest version it was told of.
Told(user, tellings) ==
    heard' = [k \in DOMAIN heard |->
                LET newer == {s \in tellings : k = <<user, s.user>> /\ s.version >= heard[k].version}
                IN  IF newer = {} THEN heard[k]
                    ELSE LET s == CHOOSE s \in newer : TRUE IN [version |-> s.version, isAdmin |-> s.isAdmin]]

DeliverChatAdmin(event) ==
    /\ rolePush.event = 0
    /\ event \in roleNotices
    /\ roleNotices' = roleNotices \ {event}
    /\ LET to == {d \in Devices : d[1] \in ChatAdminEventRecipientsByEvent(event)}
       IN  rolePush' = IF to = {} THEN NoPush ELSE [event |-> event, to |-> to]
    /\ UNCHANGED <<roles, roleVersions, roleEvents, recipients, stateMarkers, differences, heard, roleTasks>>

\* The pushes are written by several workers and may fail one by one.
pushTransientFanout(d, written) ==
    /\ d \in rolePush.to
    /\ rolePush' = IF rolePush.to = {d} THEN NoPush ELSE [rolePush EXCEPT !.to = @ \ {d}]
    /\ IF written THEN Told(d[1], {roleEvents[rolePush.event]}) ELSE UNCHANGED heard
    /\ UNCHANGED <<roles, roleVersions, roleEvents, recipients, stateMarkers, roleNotices, differences, roleTasks>>

noticeDropped(event) ==
    /\ event \in roleNotices
    /\ Spend("fault")
    /\ roleNotices' = roleNotices \ {event}
    /\ UNCHANGED <<roles, roleVersions, roleEvents, recipients, stateMarkers, rolePush, differences, heard>>

readRoleSnapshots(d) ==
    LET snapshots == ChatAdminSnapshotsForMember(d[1])
    IN  /\ differences[d].at = "idle" /\ snapshots # {}
        /\ Spend("difference")
        /\ differences' = [differences EXCEPT ![d] = [at |-> "read", snapshots |-> snapshots]]
        /\ UNCHANGED <<roles, roleVersions, roleEvents, recipients, stateMarkers, roleNotices, rolePush, heard>>

\* The hook that consumes the markers runs only if the reply was written.
sendResult(d) ==
    /\ differences[d].at = "read"
    /\ \/ /\ Told(d[1], differences[d].snapshots)
          /\ differences' = [differences EXCEPT ![d].at = "written"]
          /\ UNCHANGED roleTasks
       \/ /\ Spend("fault")
          /\ differences' = [differences EXCEPT ![d] = NoDifference]
          /\ UNCHANGED heard
    /\ UNCHANGED <<roles, roleVersions, roleEvents, recipients, stateMarkers, roleNotices, rolePush>>

consumeAdminMarkers(d) ==
    /\ differences[d].at = "written"
    /\ differences' = [differences EXCEPT ![d] = NoDifference]
    /\ \/ /\ stateMarkers' = DeleteChatAdminStateMarkersByEventIDs(d[1], {s.event : s \in differences[d].snapshots})
          /\ UNCHANGED roleTasks
       \/ Spend("fault") /\ UNCHANGED stateMarkers
    /\ UNCHANGED <<roles, roleVersions, roleEvents, recipients, roleNotices, rolePush, heard>>

-----------------------------------------------------------------------------
RolesNext ==
    \/ \E caller, target \in ChatUsers, isAdmin \in BOOLEAN : SetChatAdmin(caller, target, isAdmin)
    \/ \E target \in ChatUsers : memberJoins(target) \/ memberLeaves(target)
    \/ \E event \in roleNotices : DeliverChatAdmin(event) \/ noticeDropped(event)
    \/ \E d \in rolePush.to, written \in BOOLEAN : pushTransientFanout(d, written)
    \/ \E d \in Devices : readRoleSnapshots(d) \/ sendResult(d) \/ consumeAdminMarkers(d)

RolesInit(scenes) ==
    \E s \in scenes :
        /\ roles = [u \in s.members |-> FALSE]
        /\ roleVersions = <<roles>>
        /\ roleEvents = << >> /\ recipients = << >> /\ stateMarkers = << >>
        /\ roleNotices = {} /\ rolePush = NoPush
        /\ differences = [d \in Devices |-> NoDifference]
        /\ heard = [k \in ChatUsers \X ChatUsers |-> [version |-> 0, isAdmin |-> FALSE]]
        /\ roleTasks = s.tasks

RolesSpec(scenes) == RolesInit(scenes) /\ [][RolesNext]_roleVars

-----------------------------------------------------------------------------
(* Properties.                                                             *)

\* The versions in which a user, in the chat ever since, was owed word of a target.
Owed(user, target) ==
    LET both(v) == {user, target} \subseteq DOMAIN roleVersions[v]
    IN  {v \in 2..Len(roleVersions) :
            /\ \A w \in v - 1..Len(roleVersions) : both(w)
            /\ roleVersions[v][target] # roleVersions[v - 1][target]}

\* Every member learns every change of role, or still has the marker that will
\* tell them: as long as two members stay in the chat, the last change of the
\* one has been told to a device of the other, or the other's next difference
\* reports it, however pushes, differences of several devices, their failures
\* and further changes cross. And what anybody was told was so in the version
\* they were told it of, while they were a member. This is the delete by event
\* id after the reply was written, and the upsert that renames a marker.
RolesAreLearned ==
    /\ \A u, t \in DOMAIN roles :
          <<u, t>> \in DOMAIN stateMarkers \/ \A v \in Owed(u, t) : heard[<<u, t>>].version >= v
    /\ \A u, t \in ChatUsers :
          LET told == heard[<<u, t>>]
          IN  told.version > 0 =>
                /\ {u, t} \subseteq DOMAIN roleVersions[told.version]
                /\ roleVersions[told.version][t] = told.isAdmin
====
