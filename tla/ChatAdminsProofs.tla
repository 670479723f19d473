---- MODULE ChatAdminsProofs ----
(***************************************************************************)
(* Members learn every change of role, for any users, devices, scenes and  *)
(* page of a difference.                                                   *)
(*                                                                         *)
(* RolesAreLearned is not inductive: that a marker may be deleted after a  *)
(* reply depends on what the reply said, and that on when it was read.     *)
(* Marked says that a marker names the last change its owner is owed, and  *)
(* Read that a snapshot taken for a marker is no older than the change the *)
(* marker named, so that deleting the marker that still names that change  *)
(* forgets nothing.                                                        *)
(***************************************************************************)
EXTENDS ChatAdmins, TLAPS

USE SMTT(30), ZenonT(30), SMTT(60)

RoleMaps == UNION {[S -> BOOLEAN] : S \in SUBSET ChatUsers}

EventType == [user : ChatUsers, isAdmin : BOOLEAN, version : Nat]

SnapshotType == [event : Nat, user : ChatUsers, isAdmin : BOOLEAN, version : Nat]

\* The keys of a table are pairs of users.
Keyed(rows, S) == \A k \in DOMAIN rows : \E u, t \in S : k = <<u, t>>

RoleTypes ==
    /\ roles \in RoleMaps
    /\ roleVersions \in Seq(RoleMaps) /\ Len(roleVersions) > 0 /\ roleVersions[Len(roleVersions)] = roles
    /\ roleEvents \in Seq(EventType)
    /\ Keyed(recipients, ChatUsers) /\ Keyed(stateMarkers, DOMAIN roles)
    /\ roleNotices \subseteq 1..Len(roleEvents)
    /\ rolePush \in [event : Nat, to : SUBSET Devices]
    /\ differences \in [Devices -> [at : {"idle", "read", "written"}, snapshots : SUBSET SnapshotType]]
    /\ heard \in [ChatUsers \X ChatUsers -> [version : Nat, isAdmin : BOOLEAN]]

\* Somebody was a member and the target had the role in a version.
Was(u, t, isAdmin, v) ==
    /\ v \in 1..Len(roleVersions)
    /\ {u, t} \subseteq DOMAIN roleVersions[v]
    /\ roleVersions[v][t] = isAdmin

\* An event was true when it was written, for everybody it is for.
TrueFor(u, e) ==
    /\ e \in 1..Len(roleEvents)
    /\ Was(u, roleEvents[e].user, roleEvents[e].isAdmin, roleEvents[e].version)

Addressed ==
    /\ \A k \in DOMAIN recipients : TrueFor(k[1], recipients[k])
    /\ \A d \in rolePush.to : TrueFor(d[1], rolePush.event)

Marked ==
    \A k \in DOMAIN stateMarkers :
        /\ stateMarkers[k] \in 1..Len(roleEvents)
        /\ roleEvents[stateMarkers[k]].user = k[2]
        /\ roleEvents[stateMarkers[k]].version <= Len(roleVersions)
        /\ \A v \in Owed(k[1], k[2]) : v <= roleEvents[stateMarkers[k]].version

Reading(d) ==
    \A s \in differences[d].snapshots :
        /\ differences[d].at # "idle"
        /\ s.event \in 1..Len(roleEvents)
        /\ roleEvents[s.event].user = s.user
        /\ roleEvents[s.event].version <= s.version
        /\ Was(d[1], s.user, s.isAdmin, s.version)
        /\ \A r \in differences[d].snapshots : r.version = s.version
        /\ differences[d].at = "written" => heard[<<d[1], s.user>>].version >= s.version

Read == \A d \in Devices : Reading(d)

Heard ==
    \A u, t \in ChatUsers : heard[<<u, t>>].version > 0 =>
        Was(u, t, heard[<<u, t>>].isAdmin, heard[<<u, t>>].version)

Learned ==
    \A u, t \in DOMAIN roles :
        <<u, t>> \in DOMAIN stateMarkers \/ \A v \in Owed(u, t) : heard[<<u, t>>].version >= v

IInv == RoleTypes /\ Addressed /\ Marked /\ Read /\ Heard /\ Learned

-----------------------------------------------------------------------------
(* The history of the roles.                                               *)

\* Roles are given to users.
LEMMA MapDomain ==
    ASSUME NEW f \in RoleMaps
    PROVE  /\ DOMAIN f \subseteq ChatUsers
           /\ f \in [DOMAIN f -> BOOLEAN]
BY DEF RoleMaps

\* Whatever gives roles to users is such a map.
LEMMA MapOf ==
    ASSUME NEW S \in SUBSET ChatUsers, NEW f \in [S -> BOOLEAN]
    PROVE  f \in RoleMaps
BY DEF RoleMaps

\* A change of the chat appends a version and keeps the earlier ones.
LEMMA Appended ==
    ASSUME roleVersions \in Seq(RoleMaps), roles' \in RoleMaps, roleVersions' = Append(roleVersions, roles')
    PROVE  /\ roleVersions' \in Seq(RoleMaps)
           /\ Len(roleVersions') = Len(roleVersions) + 1
           /\ Len(roleVersions) \in Nat
           /\ roleVersions'[Len(roleVersions')] = roles'
           /\ \A v \in 1..Len(roleVersions) : roleVersions'[v] = roleVersions[v]
OBVIOUS

\* A further version adds itself to what is owed, at most, and only between
\* two who were and are members, of a role that changed.
LEMMA OwedGrows ==
    ASSUME RoleTypes, roles' \in RoleMaps, roleVersions' = Append(roleVersions, roles'),
           NEW u, NEW t, NEW v \in Owed(u, t)'
    PROVE  /\ {u, t} \subseteq DOMAIN roles /\ {u, t} \subseteq DOMAIN roles'
           /\ \/ v \in Owed(u, t)
              \/ v = Len(roleVersions) + 1 /\ roles'[t] # roles[t]
<1> DEFINE n == Len(roleVersions)
<1>1. /\ n \in Nat /\ n > 0 /\ Len(roleVersions') = n + 1 /\ roleVersions[n] = roles
      /\ roleVersions'[n + 1] = roles'
      /\ \A w \in 1..n : roleVersions'[w] = roleVersions[w]
  BY Appended DEF RoleTypes
<1> HIDE DEF n
<1>2. /\ v \in 2..(n + 1)
      /\ \A w \in v - 1..(n + 1) : {u, t} \subseteq DOMAIN roleVersions'[w]
      /\ roleVersions'[v][t] # roleVersions'[v - 1][t]
  BY <1>1 DEF Owed
<1>3. {u, t} \subseteq DOMAIN roles /\ {u, t} \subseteq DOMAIN roles'
  BY <1>1, <1>2
<1>4. CASE v = n + 1
  BY <1>1, <1>2, <1>3, <1>4 DEF n
<1>5. CASE v \in 2..n
  <2>1. \A w \in v - 1..n : w \in 1..n /\ w \in v - 1..(n + 1)
    BY <1>1, <1>5
  <2>2. \A w \in v - 1..n : {u, t} \subseteq DOMAIN roleVersions[w]
    BY <1>1, <1>2, <2>1
  <2>3. roleVersions[v][t] # roleVersions[v - 1][t]
    BY <1>1, <1>2, <1>5
  <2>4. v \in Owed(u, t)
    BY <1>5, <2>2, <2>3 DEF Owed, n
  <2> QED BY <1>3, <2>4
<1> QED BY <1>1, <1>2, <1>4, <1>5

-----------------------------------------------------------------------------
(* Telling.                                                                *)

\* A telling is heard unless something newer was, and nothing else is.
LEMMA Tells ==
    ASSUME RoleTypes, NEW user \in ChatUsers, NEW tellings,
           \A s \in tellings : s.user \in ChatUsers /\ s.isAdmin \in BOOLEAN /\ s.version \in Nat,
           Told(user, tellings)
    PROVE  /\ heard' \in [ChatUsers \X ChatUsers -> [version : Nat, isAdmin : BOOLEAN]]
           /\ \A k \in ChatUsers \X ChatUsers :
                 \/ heard'[k] = heard[k] /\ \A s \in tellings : k = <<user, s.user>> => s.version < heard[k].version
                 \/ \E s \in tellings : /\ k = <<user, s.user>> /\ s.version >= heard[k].version
                                        /\ heard'[k] = [version |-> s.version, isAdmin |-> s.isAdmin]
<1> DEFINE newer(k) == {s \in tellings : k = <<user, s.user>> /\ s.version >= heard[k].version}
           pick(k) == CHOOSE s \in newer(k) : TRUE
<1>1. DOMAIN heard = ChatUsers \X ChatUsers
  BY DEF RoleTypes
<1>2. heard' = [k \in ChatUsers \X ChatUsers |->
                  IF newer(k) = {} THEN heard[k] ELSE [version |-> pick(k).version, isAdmin |-> pick(k).isAdmin]]
  BY <1>1, Zenon DEF Told
<1>3. ASSUME NEW k \in ChatUsers \X ChatUsers
      PROVE  /\ heard'[k] \in [version : Nat, isAdmin : BOOLEAN]
             /\ \/ heard'[k] = heard[k] /\ \A s \in tellings : k = <<user, s.user>> => s.version < heard[k].version
                \/ \E s \in tellings : /\ k = <<user, s.user>> /\ s.version >= heard[k].version
                                       /\ heard'[k] = [version |-> s.version, isAdmin |-> s.isAdmin]
  <2>1. heard[k] \in [version : Nat, isAdmin : BOOLEAN]
    BY DEF RoleTypes
  <2>2. CASE newer(k) = {}
    <3>1. heard'[k] = heard[k]
      BY <1>2, <2>2
    <3>2. \A s \in tellings : k = <<user, s.user>> => ~(s.version >= heard[k].version)
      BY <2>2
    <3> QED BY <2>1, <3>1, <3>2
  <2>3. CASE newer(k) # {}
    <3>1. pick(k) \in newer(k)
      BY <2>3, Zenon
    <3>2. heard'[k] = [version |-> pick(k).version, isAdmin |-> pick(k).isAdmin]
      BY <1>2, <2>3, Zenon
    <3> HIDE DEF pick
    <3>3. pick(k) \in tellings /\ k = <<user, pick(k).user>> /\ pick(k).version >= heard[k].version
      BY <3>1
    <3> HIDE DEF newer
    <3> QED BY <3>2, <3>3
  <2> QED BY <2>2, <2>3
<1>4. heard' \in [ChatUsers \X ChatUsers -> [version : Nat, isAdmin : BOOLEAN]]
  <2> DEFINE h(k) == IF newer(k) = {} THEN heard[k] ELSE [version |-> pick(k).version, isAdmin |-> pick(k).isAdmin]
  <2>1. heard' = [k \in ChatUsers \X ChatUsers |-> h(k)]
    BY <1>2, Zenon
  <2> HIDE DEF h
  <2>2. \A k \in ChatUsers \X ChatUsers : heard'[k] = h(k)
    BY <2>1
  <2>3. \A k \in ChatUsers \X ChatUsers : h(k) \in [version : Nat, isAdmin : BOOLEAN]
    BY <1>3, <2>2
  <2> QED BY <2>1, <2>3
<1> QED BY <1>3, <1>4

\* To tell what was so keeps everything that is said of what was heard, and
\* afterwards it has been heard.
LEMMA TellingKeeps ==
    ASSUME IInv, NEW user \in ChatUsers, NEW tellings,
           \A s \in tellings : s.user \in ChatUsers /\ s.isAdmin \in BOOLEAN /\ s.version \in Nat,
           \A s \in tellings : Was(user, s.user, s.isAdmin, s.version),
           \A s, r \in tellings : r.version = s.version,
           Told(user, tellings), UNCHANGED <<roles, roleVersions, stateMarkers>>
    PROVE  /\ heard' \in [ChatUsers \X ChatUsers -> [version : Nat, isAdmin : BOOLEAN]]
           /\ \A k \in ChatUsers \X ChatUsers : heard'[k].version >= heard[k].version
           /\ \A s \in tellings : heard'[<<user, s.user>>].version >= s.version
           /\ Heard' /\ Learned'
<1>1. /\ heard' \in [ChatUsers \X ChatUsers -> [version : Nat, isAdmin : BOOLEAN]]
      /\ \A k \in ChatUsers \X ChatUsers :
            \/ heard'[k] = heard[k] /\ \A s \in tellings : k = <<user, s.user>> => s.version < heard[k].version
            \/ \E s \in tellings : /\ k = <<user, s.user>> /\ s.version >= heard[k].version
                                   /\ heard'[k] = [version |-> s.version, isAdmin |-> s.isAdmin]
  <2>1. RoleTypes
    BY DEF IInv
  <2> QED BY <2>1, Tells, ZenonT(60)
<1>2. \A k \in ChatUsers \X ChatUsers : heard[k].version \in Nat /\ heard'[k].version \in Nat
  BY <1>1 DEF IInv, RoleTypes
<1>3. \A k \in ChatUsers \X ChatUsers : heard'[k].version >= heard[k].version
  BY <1>1, <1>2
<1>4. \A s \in tellings : heard'[<<user, s.user>>].version >= s.version
  <2> TAKE s \in tellings
  <2> DEFINE k == <<user, s.user>>
  <2>1. k \in ChatUsers \X ChatUsers
    OBVIOUS
  <2> HIDE DEF k
  <2>2. CASE heard'[k] = heard[k] /\ s.version < heard[k].version
    BY <1>2, <2>1, <2>2 DEF k
  <2>3. CASE \E r \in tellings : heard'[k] = [version |-> r.version, isAdmin |-> r.isAdmin]
    BY <2>3 DEF k
  <2> QED BY <1>1, <2>1, <2>2, <2>3 DEF k
<1>5. Heard'
  <2> SUFFICES ASSUME NEW u \in ChatUsers, NEW t \in ChatUsers, heard'[<<u, t>>].version > 0
               PROVE  Was(u, t, heard[<<u, t>>].isAdmin, heard[<<u, t>>].version)'
    BY Zenon DEF Heard
  <2>2. CASE heard'[<<u, t>>] = heard[<<u, t>>]
    BY <2>2 DEF IInv, Heard, Was
  <2>3. CASE \E s \in tellings : /\ <<u, t>> = <<user, s.user>>
                                 /\ heard'[<<u, t>>] = [version |-> s.version, isAdmin |-> s.isAdmin]
    BY <2>3 DEF Was
  <2>4. <<u, t>> \in ChatUsers \X ChatUsers
    OBVIOUS
  <2> QED BY <1>1, <2>2, <2>3, <2>4
<1>6. Learned'
  <2> SUFFICES ASSUME NEW u \in DOMAIN roles', NEW t \in DOMAIN roles', <<u, t>> \notin DOMAIN stateMarkers',
                      NEW v \in Owed(u, t)'
               PROVE  heard'[<<u, t>>].version >= v
    BY Zenon DEF Learned
  <2>1. u \in DOMAIN roles /\ t \in DOMAIN roles /\ u \in ChatUsers /\ t \in ChatUsers
    BY MapDomain DEF IInv, RoleTypes
  <2>2. v \in Owed(u, t) /\ v \in Int
    BY DEF Owed, IInv, RoleTypes
  <2>3. heard[<<u, t>>].version >= v
    BY <2>1, <2>2 DEF IInv, Learned
  <2> QED BY <1>2, <1>3, <2>1, <2>2, <2>3
<1> QED BY <1>1, <1>3, <1>4, <1>5, <1>6

-----------------------------------------------------------------------------
(* Changes of the chat.                                                    *)

\* A further version and further events leave everything that was said true.
LEMMA HistoryKeeps ==
    ASSUME IInv, roles' \in RoleMaps, roleVersions' = Append(roleVersions, roles'),
           roleEvents' \in Seq(EventType), Len(roleEvents) <= Len(roleEvents'),
           \A e \in 1..Len(roleEvents) : roleEvents'[e] = roleEvents[e],
           UNCHANGED <<differences, heard>>
    PROVE  /\ Len(roleVersions') = Len(roleVersions) + 1
           /\ \A u, e : TrueFor(u, e) => TrueFor(u, e)'
           /\ Read' /\ Heard'
<1>1. /\ roleVersions \in Seq(RoleMaps) /\ Len(roleVersions) \in Nat /\ Len(roleVersions') = Len(roleVersions) + 1
      /\ Len(roleEvents) \in Nat /\ Len(roleEvents') \in Nat
  BY Appended DEF IInv, RoleTypes
<1>2. \A u, t, b, v : Was(u, t, b, v) => Was(u, t, b, v)'
  BY <1>1, Appended DEF Was
<1>3. \A u, e : TrueFor(u, e) => TrueFor(u, e)'
  BY <1>1, <1>2 DEF TrueFor
<1>4. Heard'
  BY <1>2 DEF IInv, Heard
<1>5. Read'
  <2> SUFFICES ASSUME NEW d \in Devices, NEW s \in differences[d].snapshots
               PROVE  /\ differences[d].at # "idle"
                      /\ s.event \in 1..Len(roleEvents')
                      /\ roleEvents'[s.event].user = s.user
                      /\ roleEvents'[s.event].version <= s.version
                      /\ Was(d[1], s.user, s.isAdmin, s.version)'
                      /\ \A r \in differences[d].snapshots : r.version = s.version
                      /\ differences[d].at = "written" => heard[<<d[1], s.user>>].version >= s.version
    BY ZenonT(60) DEF Read, Reading
  <2>1. /\ differences[d].at # "idle"
        /\ s.event \in 1..Len(roleEvents)
        /\ roleEvents[s.event].user = s.user
        /\ roleEvents[s.event].version <= s.version
        /\ Was(d[1], s.user, s.isAdmin, s.version)
        /\ \A r \in differences[d].snapshots : r.version = s.version
        /\ differences[d].at = "written" => heard[<<d[1], s.user>>].version >= s.version
    BY Zenon DEF IInv, Read, Reading
  <2>2. s.event \in 1..Len(roleEvents')
    BY <1>1, <2>1
  <2> QED BY <1>2, <2>1, <2>2
<1> QED BY <1>1, <1>3, <1>4, <1>5

\* A change of role marks everybody it is owed to.
LEMMA StepSetChatAdmin ==
    ASSUME IInv, NEW caller \in ChatUsers, NEW target \in ChatUsers, NEW isAdmin \in BOOLEAN,
           SetChatAdmin(caller, target, isAdmin)
    PROVE  IInv'
<1>a. PICK n \in Nat : n = Len(roleVersions)
  BY DEF IInv, RoleTypes
<1>b. PICK event \in Nat : event = Len(roleEvents) + 1
  BY DEF IInv, RoleTypes
<1> DEFINE members == DOMAIN roles
<1>1. /\ roles \in [members -> BOOLEAN] /\ members \subseteq ChatUsers /\ target \in members
      /\ roles' = [roles EXCEPT ![target] = isAdmin]
      /\ roleVersions' = Append(roleVersions, roles')
  BY MapDomain DEF IInv, RoleTypes, SetChatAdmin
<1>2. roles' \in [members -> BOOLEAN] /\ DOMAIN roles' = members /\ roles' \in RoleMaps
  <2>1. roles' \in [members -> BOOLEAN]
    BY <1>1, Zenon
  <2> QED BY <1>1, <2>1, MapOf, Zenon
<1>3. /\ roleVersions' \in Seq(RoleMaps) /\ Len(roleVersions') = n + 1 /\ n \in Nat
      /\ roleVersions'[Len(roleVersions')] = roles'
  BY <1>a, <1>1, <1>2, Appended DEF IInv, RoleTypes
<1> DEFINE row == [user |-> target, isAdmin |-> isAdmin, version |-> n + 1]
<1>4. /\ roleEvents' = Append(roleEvents, row) /\ row \in EventType
  BY <1>a, <1>3 DEF SetChatAdmin, EventType
<1> HIDE DEF row
<1>5. /\ roleEvents \in Seq(EventType) /\ roleEvents' \in Seq(EventType) /\ Len(roleEvents) \in Nat
      /\ Len(roleEvents') = event /\ roleEvents'[event] = row
      /\ \A e \in 1..Len(roleEvents) : roleEvents'[e] = roleEvents[e]
  BY <1>b, <1>4 DEF IInv, RoleTypes
<1>6. /\ UNCHANGED <<rolePush, differences, heard>>
      /\ recipients' = Upsert(recipients, members, target, event)
      /\ stateMarkers' = Upsert(stateMarkers, members, target, event)
      /\ roleNotices' = roleNotices \cup {event}
  BY <1>b DEF SetChatAdmin
<1>7. (\A u, e : TrueFor(u, e) => TrueFor(u, e)') /\ Read' /\ Heard'
  <2>1. Len(roleEvents) <= Len(roleEvents')
    BY <1>b, <1>5
  <2> QED BY <1>1, <1>2, <1>5, <1>6, <2>1, HistoryKeeps
<1> DEFINE new == {<<u, target>> : u \in members}
<1>8. /\ DOMAIN recipients' = DOMAIN recipients \cup new
      /\ \A k \in DOMAIN recipients' : recipients'[k] = IF k \in new THEN event ELSE recipients[k]
      /\ DOMAIN stateMarkers' = DOMAIN stateMarkers \cup new
      /\ \A k \in DOMAIN stateMarkers' : stateMarkers'[k] = IF k \in new THEN event ELSE stateMarkers[k]
  <2>1. /\ recipients' = [k \in DOMAIN recipients \cup new |-> IF k \in new THEN event ELSE recipients[k]]
        /\ stateMarkers' = [k \in DOMAIN stateMarkers \cup new |-> IF k \in new THEN event ELSE stateMarkers[k]]
    BY <1>6, Zenon DEF Upsert
  <2> HIDE DEF new
  <2> QED BY <2>1
<1>9. \A k \in new : k = <<k[1], target>> /\ k[1] \in members
  BY <1>1
<1> HIDE DEF new, members
<1>10. RoleTypes'
  <2>1. roleNotices' \subseteq 1..Len(roleEvents')
    <3>1. roleNotices \subseteq 1..Len(roleEvents)
      BY DEF IInv, RoleTypes
    <3>2. \A e \in 1..Len(roleEvents) : e \in 1..event
      BY <1>b, <1>5
    <3>3. event \in 1..event
      BY <1>b, <1>5
    <3> QED BY <1>5, <1>6, <3>1, <3>2, <3>3
  <2>2. Keyed(recipients', ChatUsers) /\ Keyed(stateMarkers', members)
    <3>1. Keyed(recipients, ChatUsers) /\ Keyed(stateMarkers, members)
      BY DEF IInv, RoleTypes, members
    <3> QED BY <1>1, <1>8, <1>9, <3>1 DEF Keyed
  <2>3. Len(roleVersions') > 0
    BY <1>3
  <2>4. /\ rolePush' \in [event : Nat, to : SUBSET Devices]
        /\ differences' \in [Devices -> [at : {"idle", "read", "written"}, snapshots : SUBSET SnapshotType]]
        /\ heard' \in [ChatUsers \X ChatUsers -> [version : Nat, isAdmin : BOOLEAN]]
    BY <1>6 DEF IInv, RoleTypes
  <2> QED BY <1>2, <1>3, <1>5, <2>1, <2>2, <2>3, <2>4, Zenon DEF RoleTypes
<1>11. Addressed'
  <2>1. \A u \in members : TrueFor(u, event)'
    <3>1. event \in 1..Len(roleEvents')
      BY <1>b, <1>5
    <3>2. roleVersions'[n + 1] = roles' /\ roles'[target] = isAdmin /\ n + 1 \in 1..Len(roleVersions')
      BY <1>1, <1>3
    <3>3. \A u \in members : Was(u, target, isAdmin, n + 1)'
      BY <1>1, <1>2, <3>2, Zenon DEF Was
    <3>4. row.user = target /\ row.isAdmin = isAdmin /\ row.version = n + 1
      BY DEF row
    <3> QED BY <1>5, <3>1, <3>3, <3>4, Zenon DEF TrueFor
  <2>2. \A k \in DOMAIN recipients' : TrueFor(k[1], recipients[k])'
    <3> SUFFICES ASSUME NEW k \in DOMAIN recipients' PROVE TrueFor(k[1], recipients[k])'
      OBVIOUS
    <3>1. CASE k \in new
      BY <1>8, <1>9, <2>1, <3>1, ZenonT(60)
    <3>2. CASE k \notin new
      BY <1>7, <1>8, <3>2, Zenon DEF IInv, Addressed
    <3> QED BY <3>1, <3>2
  <2>3. \A d \in rolePush'.to : TrueFor(d[1], rolePush.event)'
    BY <1>6, <1>7 DEF IInv, Addressed
  <2> QED BY <2>2, <2>3 DEF Addressed
<1>12. \A u, t : \A v \in Owed(u, t)' : v \in Owed(u, t) \/ (v = n + 1 /\ t = target)
  <2>1. \A t \in DOMAIN roles : t # target => roles'[t] = roles[t]
    BY <1>1
  <2>2. RoleTypes
    BY DEF IInv
  <2> QED BY <1>a, <1>1, <1>2, <2>1, <2>2, OwedGrows
<1>13. Marked'
  <2> SUFFICES ASSUME NEW k \in DOMAIN stateMarkers'
               PROVE  /\ stateMarkers'[k] \in 1..Len(roleEvents')
                      /\ roleEvents'[stateMarkers'[k]].user = k[2]
                      /\ roleEvents'[stateMarkers'[k]].version <= Len(roleVersions')
                      /\ \A v \in Owed(k[1], k[2])' : v <= roleEvents'[stateMarkers'[k]].version
    BY Zenon DEF Marked
  <2>1. CASE k \in new
    <3>1. stateMarkers'[k] = event /\ k[2] = target
      BY <1>8, <1>9, <2>1
    <3>2. roleEvents'[event].user = target /\ roleEvents'[event].version = n + 1
      BY <1>5 DEF row
    <3>3. \A v \in Owed(k[1], k[2])' : v \in 2..(n + 1)
      BY <1>3 DEF Owed
    <3> QED BY <1>3, <1>5, <1>b, <3>1, <3>2, <3>3
  <2>2. CASE k \notin new
    <3>1. k \in DOMAIN stateMarkers /\ stateMarkers'[k] = stateMarkers[k]
      BY <1>8, <2>2
    <3>2. \E u, t \in members : k = <<u, t>>
      BY <3>1 DEF IInv, RoleTypes, Keyed, members
    <3>3. k[2] # target
      BY <2>2, <3>2 DEF new
    <3>4. /\ stateMarkers[k] \in 1..Len(roleEvents)
          /\ roleEvents[stateMarkers[k]].user = k[2]
          /\ roleEvents[stateMarkers[k]].version <= Len(roleVersions)
          /\ \A v \in Owed(k[1], k[2]) : v <= roleEvents[stateMarkers[k]].version
      BY <3>1, Zenon DEF IInv, Marked
    <3>5. roleEvents'[stateMarkers'[k]] = roleEvents[stateMarkers[k]] /\ roleEvents[stateMarkers[k]].version \in Nat
      <4>1. roleEvents[stateMarkers[k]] \in EventType
        BY <1>5, <3>4
      <4> QED BY <1>5, <3>1, <3>4, <4>1 DEF EventType
    <3> QED BY <1>a, <1>b, <1>3, <1>5, <1>12, <3>1, <3>3, <3>4, <3>5
  <2> QED BY <2>1, <2>2
<1>14. Learned'
  <2> SUFFICES ASSUME NEW u \in DOMAIN roles', NEW t \in DOMAIN roles', <<u, t>> \notin DOMAIN stateMarkers',
                      NEW v \in Owed(u, t)'
               PROVE  heard'[<<u, t>>].version >= v
    BY Zenon DEF Learned
  <2>1. t # target /\ <<u, t>> \notin DOMAIN stateMarkers
    BY <1>2, <1>8 DEF new
  <2>2. v \in Owed(u, t)
    BY <1>12, <2>1
  <2> QED BY <1>2, <1>6, <2>1, <2>2 DEF IInv, Learned, members
<1> QED BY <1>7, <1>10, <1>11, <1>13, <1>14 DEF IInv

\* Members who come and go change nobody else's role: nothing new is owed, and
\* the markers between those who stay are kept.
LEMMA MembersMove ==
    ASSUME IInv, roles' \in RoleMaps, roleVersions' = Append(roleVersions, roles'),
           UNCHANGED <<roleEvents, roleNotices, rolePush, differences, heard>>,
           \A u \in DOMAIN roles \cap DOMAIN roles' : roles'[u] = roles[u],
           \A k \in DOMAIN recipients' : k \in DOMAIN recipients /\ recipients'[k] = recipients[k],
           \A k \in DOMAIN stateMarkers' : k \in DOMAIN stateMarkers /\ stateMarkers'[k] = stateMarkers[k],
           \A u, t \in DOMAIN roles' : <<u, t>> \in DOMAIN stateMarkers => <<u, t>> \in DOMAIN stateMarkers',
           Keyed(stateMarkers, DOMAIN roles)'
    PROVE  IInv'
<1>1. RoleTypes /\ roleEvents \in Seq(EventType) /\ Len(roleEvents) \in Nat
  BY DEF IInv, RoleTypes
<1>2. (\A u, e : TrueFor(u, e) => TrueFor(u, e)') /\ Read' /\ Heard'
  <2>1. roleEvents' = roleEvents /\ UNCHANGED <<differences, heard>>
    OBVIOUS
  <2>2. Len(roleEvents) <= Len(roleEvents') /\ \A e \in 1..Len(roleEvents) : roleEvents'[e] = roleEvents[e]
    BY <1>1, <2>1
  <2>3. roleEvents' \in Seq(EventType)
    BY <1>1, <2>1
  <2> QED BY <2>1, <2>2, <2>3, HistoryKeeps, Zenon
<1>3. PICK n \in Nat : n = Len(roleVersions)
  BY <1>1 DEF RoleTypes
<1>4. /\ roleVersions' \in Seq(RoleMaps) /\ Len(roleVersions') = n + 1 /\ roleVersions'[Len(roleVersions')] = roles'
  BY <1>1, <1>3, Appended DEF RoleTypes
<1>5. \A u, t : \A v \in Owed(u, t)' : v \in Owed(u, t) /\ {u, t} \subseteq DOMAIN roles \cap DOMAIN roles'
  <2> TAKE u, t
  <2> TAKE v \in Owed(u, t)'
  <2>1. /\ {u, t} \subseteq DOMAIN roles /\ {u, t} \subseteq DOMAIN roles'
        /\ v \in Owed(u, t) \/ (v = Len(roleVersions) + 1 /\ roles'[t] # roles[t])
    BY <1>1, OwedGrows
  <2> QED BY <2>1
<1>6. RoleTypes'
  <2>1. Keyed(recipients, ChatUsers)'
    BY <1>1 DEF RoleTypes, Keyed
  <2>2. Len(roleVersions') > 0
    BY <1>4
  <2>3. /\ roleEvents' \in Seq(EventType) /\ roleNotices' \subseteq 1..Len(roleEvents')
        /\ rolePush' \in [event : Nat, to : SUBSET Devices]
        /\ differences' \in [Devices -> [at : {"idle", "read", "written"}, snapshots : SUBSET SnapshotType]]
        /\ heard' \in [ChatUsers \X ChatUsers -> [version : Nat, isAdmin : BOOLEAN]]
    BY <1>1 DEF RoleTypes
  <2> QED BY <1>4, <2>1, <2>2, <2>3 DEF RoleTypes
<1>7. Addressed'
  <2>1. Addressed
    BY DEF IInv
  <2>2. \A k \in DOMAIN recipients' : TrueFor(k[1], recipients[k])'
    BY <1>2, <2>1, Zenon DEF Addressed
  <2>3. rolePush' = rolePush
    OBVIOUS
  <2>4. \A d \in rolePush'.to : TrueFor(d[1], rolePush.event)'
    BY <1>2, <2>1, <2>3 DEF Addressed
  <2> QED BY <2>2, <2>4 DEF Addressed
<1>8. Marked'
  <2> SUFFICES ASSUME NEW k \in DOMAIN stateMarkers'
               PROVE  /\ stateMarkers'[k] \in 1..Len(roleEvents')
                      /\ roleEvents'[stateMarkers'[k]].user = k[2]
                      /\ roleEvents'[stateMarkers'[k]].version <= Len(roleVersions')
                      /\ \A v \in Owed(k[1], k[2])' : v <= roleEvents'[stateMarkers'[k]].version
    BY Zenon DEF Marked
  <2>1. k \in DOMAIN stateMarkers /\ stateMarkers'[k] = stateMarkers[k] /\ roleEvents' = roleEvents
    OBVIOUS
  <2>2. /\ stateMarkers[k] \in 1..Len(roleEvents)
        /\ roleEvents[stateMarkers[k]].user = k[2]
        /\ roleEvents[stateMarkers[k]].version <= Len(roleVersions)
        /\ \A v \in Owed(k[1], k[2]) : v <= roleEvents[stateMarkers[k]].version
    BY <2>1, Zenon DEF IInv, Marked
  <2>3. roleEvents[stateMarkers[k]] \in EventType
    BY <1>1, <2>2
  <2>4. roleEvents[stateMarkers[k]].version \in Nat
    BY <2>3 DEF EventType
  <2> QED BY <1>3, <1>4, <1>5, <2>1, <2>2, <2>4
<1>9. Learned'
  <2> SUFFICES ASSUME NEW u \in DOMAIN roles', NEW t \in DOMAIN roles', <<u, t>> \notin DOMAIN stateMarkers',
                      NEW v \in Owed(u, t)'
               PROVE  heard'[<<u, t>>].version >= v
    BY Zenon DEF Learned
  <2>1. v \in Owed(u, t) /\ u \in DOMAIN roles /\ t \in DOMAIN roles
    BY <1>5
  <2>2. <<u, t>> \notin DOMAIN stateMarkers /\ heard' = heard
    OBVIOUS
  <2> QED BY <2>1, <2>2 DEF IInv, Learned
<1> QED BY <1>2, <1>6, <1>7, <1>8, <1>9 DEF IInv

\* Who comes is owed nothing yet.
LEMMA StepMemberJoins ==
    ASSUME IInv, NEW target \in ChatUsers, memberJoins(target)
    PROVE  IInv'
<1>1. roles \in [DOMAIN roles -> BOOLEAN] /\ DOMAIN roles \subseteq ChatUsers /\ target \notin DOMAIN roles
  BY MapDomain DEF IInv, RoleTypes, memberJoins
<1> DEFINE members == DOMAIN roles \cup {target}
           role(u) == IF u = target THEN FALSE ELSE roles[u]
<1>2. /\ roles' = [u \in members |-> role(u)]
      /\ roleVersions' = Append(roleVersions, roles')
      /\ UNCHANGED <<roleEvents, recipients, stateMarkers, roleNotices, rolePush, differences, heard>>
  BY DEF memberJoins
<1>a. \A u \in DOMAIN roles : role(u) = roles[u]
  BY <1>1, Zenon
<1>b. \A u \in members : role(u) \in BOOLEAN
  BY <1>1, Zenon
<1> HIDE DEF role
<1>3. DOMAIN roles' = members /\ \A u \in DOMAIN roles : roles'[u] = roles[u]
  BY <1>2, <1>a
<1>4. roles' \in RoleMaps
  <2>1. roles' \in [members -> BOOLEAN]
    BY <1>2, <1>b
  <2>2. members \in SUBSET ChatUsers
    BY <1>1
  <2> HIDE DEF members
  <2> QED BY <2>1, <2>2, MapOf, Zenon
<1>5. Keyed(stateMarkers, DOMAIN roles)'
  <2>1. Keyed(stateMarkers, DOMAIN roles)
    BY DEF IInv, RoleTypes
  <2> QED BY <1>2, <1>3, <2>1 DEF Keyed
<1>6. /\ \A u \in DOMAIN roles \cap DOMAIN roles' : roles'[u] = roles[u]
      /\ \A k \in DOMAIN recipients' : k \in DOMAIN recipients /\ recipients'[k] = recipients[k]
      /\ \A k \in DOMAIN stateMarkers' : k \in DOMAIN stateMarkers /\ stateMarkers'[k] = stateMarkers[k]
      /\ \A u, t \in DOMAIN roles' : <<u, t>> \in DOMAIN stateMarkers => <<u, t>> \in DOMAIN stateMarkers'
  BY <1>2, <1>3, Zenon
<1> QED BY <1>2, <1>4, <1>5, <1>6, MembersMove

\* Who leaves takes the rows about them and for them along.
LEMMA StepMemberLeaves ==
    ASSUME IInv, NEW target \in ChatUsers, memberLeaves(target)
    PROVE  IInv'
<1>1. roles \in [DOMAIN roles -> BOOLEAN] /\ DOMAIN roles \subseteq ChatUsers
  BY MapDomain DEF IInv, RoleTypes
<1> DEFINE members == DOMAIN roles \ {target}
<1>2. /\ roles' = [u \in members |-> roles[u]]
      /\ roleVersions' = Append(roleVersions, roles')
      /\ recipients' = Cascade(recipients, target) /\ stateMarkers' = Cascade(stateMarkers, target)
      /\ UNCHANGED <<roleEvents, roleNotices, rolePush, differences, heard>>
  BY DEF memberLeaves
<1>3. DOMAIN roles' = members /\ \A u \in members : roles'[u] = roles[u]
  BY <1>2
<1>4. roles' \in RoleMaps
  <2>1. roles' \in [members -> BOOLEAN]
    BY <1>1, <1>2
  <2>2. members \in SUBSET ChatUsers
    BY <1>1
  <2> HIDE DEF members
  <2> QED BY <2>1, <2>2, MapOf, Zenon
<1>5. \A k \in DOMAIN recipients' : k \in DOMAIN recipients /\ recipients'[k] = recipients[k]
  BY <1>2 DEF Cascade
<1>6. \A k \in DOMAIN stateMarkers' : k \in DOMAIN stateMarkers /\ stateMarkers'[k] = stateMarkers[k]
                                        /\ target \notin {k[1], k[2]}
  BY <1>2 DEF Cascade
<1>7. \A k \in DOMAIN stateMarkers : target \notin {k[1], k[2]} => k \in DOMAIN stateMarkers'
  BY <1>2 DEF Cascade
<1>8. \A u, t \in DOMAIN roles' : <<u, t>> \in DOMAIN stateMarkers => <<u, t>> \in DOMAIN stateMarkers'
  BY <1>3, <1>7
<1>9. Keyed(stateMarkers, DOMAIN roles)'
  <2>1. Keyed(stateMarkers, DOMAIN roles)
    BY DEF IInv, RoleTypes
  <2> QED BY <1>3, <1>6, <2>1 DEF Keyed
<1> QED BY <1>2, <1>3, <1>4, <1>5, <1>6, <1>8, <1>9, MembersMove

-----------------------------------------------------------------------------
(* Telling the members.                                                    *)

\* Without a change of the chat, what was so and what is owed stay as they are.
LEMMA Quiet ==
    ASSUME UNCHANGED <<roles, roleVersions, roleEvents>>
    PROVE  /\ \A u, t, b, v : Was(u, t, b, v)' <=> Was(u, t, b, v)
           /\ \A u, e : TrueFor(u, e)' <=> TrueFor(u, e)
           /\ \A u, t : Owed(u, t)' = Owed(u, t)
BY DEF Was, TrueFor, Owed

\* The difference of another device is not disturbed, as what was heard stays heard.
LEMMA ReadingKeeps ==
    ASSUME IInv, UNCHANGED <<roles, roleVersions, roleEvents>>,
           heard' \in [ChatUsers \X ChatUsers -> [version : Nat, isAdmin : BOOLEAN]],
           \A k \in ChatUsers \X ChatUsers : heard'[k].version >= heard[k].version,
           NEW d \in Devices, differences'[d] = differences[d]
    PROVE  Reading(d)'
<1> SUFFICES ASSUME NEW s \in differences'[d].snapshots
             PROVE  /\ differences'[d].at # "idle"
                    /\ s.event \in 1..Len(roleEvents')
                    /\ roleEvents'[s.event].user = s.user
                    /\ roleEvents'[s.event].version <= s.version
                    /\ Was(d[1], s.user, s.isAdmin, s.version)'
                    /\ \A r \in differences'[d].snapshots : r.version = s.version
                    /\ differences'[d].at = "written" => heard'[<<d[1], s.user>>].version >= s.version
  BY Zenon DEF Reading
<1>1. s \in differences[d].snapshots /\ roleEvents' = roleEvents
  OBVIOUS
<1>2. /\ differences[d].at # "idle"
      /\ s.event \in 1..Len(roleEvents)
      /\ roleEvents[s.event].user = s.user
      /\ roleEvents[s.event].version <= s.version
      /\ Was(d[1], s.user, s.isAdmin, s.version)
      /\ \A r \in differences[d].snapshots : r.version = s.version
      /\ differences[d].at = "written" => heard[<<d[1], s.user>>].version >= s.version
  BY <1>1, ZenonT(60) DEF IInv, Read, Reading
<1>3. Was(d[1], s.user, s.isAdmin, s.version)'
  BY <1>2, Quiet
<1>4. <<d[1], s.user>> \in ChatUsers \X ChatUsers /\ s.version \in Nat
  BY <1>1, DevicesAreOfUsers DEF IInv, RoleTypes, SnapshotType
<1>5. heard[<<d[1], s.user>>].version \in Nat /\ heard'[<<d[1], s.user>>].version \in Nat
  BY <1>4 DEF IInv, RoleTypes
<1> QED BY <1>1, <1>2, <1>3, <1>4, <1>5

\* Nothing changes that is said of tables left alone.
LEMMA Frame ==
    ASSUME IInv, UNCHANGED <<roles, roleVersions, roleEvents>>
    PROVE  /\ UNCHANGED recipients => \A k \in DOMAIN recipients' : TrueFor(k[1], recipients[k])'
           /\ UNCHANGED <<recipients, rolePush>> => Addressed'
           /\ UNCHANGED stateMarkers => Marked'
           /\ UNCHANGED <<differences, heard>> => Read'
           /\ UNCHANGED heard => Heard'
           /\ UNCHANGED <<stateMarkers, heard>> => Learned'
<1>0. /\ \A u, t, b, v : Was(u, t, b, v)' <=> Was(u, t, b, v)
      /\ \A u, e : TrueFor(u, e)' <=> TrueFor(u, e)
      /\ \A u, t : Owed(u, t)' = Owed(u, t)
  BY Quiet
<1>1. ASSUME UNCHANGED recipients
      PROVE  \A k \in DOMAIN recipients' : TrueFor(k[1], recipients[k])'
  BY <1>0, <1>1 DEF IInv, Addressed
<1>2. ASSUME UNCHANGED <<recipients, rolePush>> PROVE Addressed'
  BY <1>0, <1>2 DEF IInv, Addressed
<1>3. ASSUME UNCHANGED stateMarkers PROVE Marked'
  BY <1>0, <1>3 DEF IInv, Marked
<1>4. ASSUME UNCHANGED <<differences, heard>> PROVE Read'
  <2>1. /\ heard' \in [ChatUsers \X ChatUsers -> [version : Nat, isAdmin : BOOLEAN]]
        /\ \A k \in ChatUsers \X ChatUsers : heard'[k].version >= heard[k].version
    BY <1>4 DEF IInv, RoleTypes
  <2>2. \A d \in Devices : differences'[d] = differences[d]
    BY <1>4
  <2> QED BY <2>1, <2>2, ReadingKeeps, Zenon DEF Read
<1>5. ASSUME UNCHANGED heard PROVE Heard'
  BY <1>0, <1>5 DEF IInv, Heard
<1>6. ASSUME UNCHANGED <<stateMarkers, heard>> PROVE Learned'
  <2> SUFFICES ASSUME NEW u \in DOMAIN roles', NEW t \in DOMAIN roles', <<u, t>> \notin DOMAIN stateMarkers',
                      NEW v \in Owed(u, t)'
               PROVE  heard'[<<u, t>>].version >= v
    BY Zenon DEF Learned
  <2>1. u \in DOMAIN roles /\ t \in DOMAIN roles /\ v \in Owed(u, t) /\ <<u, t>> \notin DOMAIN stateMarkers
    BY <1>0, <1>6
  <2> QED BY <1>6, <2>1 DEF IInv, Learned
<1> QED BY <1>1, <1>2, <1>3, <1>4, <1>5, <1>6

\* A push goes to those the event was written for.
LEMMA StepDeliver ==
    ASSUME IInv, NEW event \in roleNotices, DeliverChatAdmin(event)
    PROVE  IInv'
<1> DEFINE to == {d \in Devices : d[1] \in ChatAdminEventRecipientsByEvent(event)}
<1>1. /\ UNCHANGED <<roles, roleVersions, roleEvents, recipients, stateMarkers, differences, heard>>
      /\ roleNotices' \subseteq roleNotices
      /\ rolePush' = NoPush \/ rolePush' = [event |-> event, to |-> to]
  BY DEF DeliverChatAdmin
<1>2. RoleTypes'
  <2>1. event \in Nat
    BY DEF IInv, RoleTypes
  <2>2. rolePush' \in [event : Nat, to : SUBSET Devices]
    BY <1>1, <2>1 DEF NoPush
  <2> QED BY <1>1, <2>2 DEF IInv, RoleTypes
<1>3. Addressed'
  <2>1. \A k \in DOMAIN recipients' : TrueFor(k[1], recipients[k])'
    BY <1>1, Frame
  <2>2. \A d \in to : TrueFor(d[1], event)
    <3> SUFFICES ASSUME NEW d \in to PROVE TrueFor(d[1], event)
      OBVIOUS
    <3>1. PICK t \in ChatUsers : <<d[1], t>> \in DOMAIN recipients /\ recipients[<<d[1], t>>] = event
      BY DEF ChatAdminEventRecipientsByEvent
    <3>2. TrueFor(<<d[1], t>>[1], recipients[<<d[1], t>>])
      BY <3>1, Zenon DEF IInv, Addressed
    <3> QED BY <3>1, <3>2
  <2>3. \A d \in to : TrueFor(d[1], event)'
    BY <1>1, <2>2, Quiet
  <2> HIDE DEF to
  <2>4. \A d \in rolePush'.to : TrueFor(d[1], event)' /\ rolePush'.event = event
    BY <1>1, <2>3 DEF NoPush
  <2> QED BY <2>1, <2>4, Zenon DEF Addressed
<1>4. Marked'
  BY <1>1, Frame
<1>5. Read' /\ Heard' /\ Learned'
  BY <1>1, Frame
<1> QED BY <1>2, <1>3, <1>4, <1>5 DEF IInv

\* A written push is heard, a failed one is not.
LEMMA StepPush ==
    ASSUME IInv, NEW d \in rolePush.to, NEW written \in BOOLEAN, pushTransientFanout(d, written)
    PROVE  IInv'
<1>1. /\ UNCHANGED <<roles, roleVersions, roleEvents, recipients, stateMarkers, roleNotices, differences>>
      /\ rolePush' = NoPush \/ rolePush' = [rolePush EXCEPT !.to = @ \ {d}]
      /\ Told(d[1], {roleEvents[rolePush.event]}) \/ UNCHANGED heard
  BY DEF pushTransientFanout
<1>2. d[1] \in ChatUsers
  BY DevicesAreOfUsers DEF IInv, RoleTypes
<1>3. /\ heard' \in [ChatUsers \X ChatUsers -> [version : Nat, isAdmin : BOOLEAN]]
      /\ \A k \in ChatUsers \X ChatUsers : heard'[k].version >= heard[k].version
      /\ Heard' /\ Learned'
  <2>1. CASE UNCHANGED heard
    <3>1. \A k \in ChatUsers \X ChatUsers : heard[k].version \in Nat
      BY DEF IInv, RoleTypes
    <3>2. heard' \in [ChatUsers \X ChatUsers -> [version : Nat, isAdmin : BOOLEAN]]
      BY <2>1 DEF IInv, RoleTypes
    <3>3. Heard' /\ Learned'
      BY <1>1, <2>1, Frame
    <3> QED BY <2>1, <3>1, <3>2, <3>3
  <2>2. CASE Told(d[1], {roleEvents[rolePush.event]})
    <3>1. PICK row : row = roleEvents[rolePush.event]
      OBVIOUS
    <3>2. rolePush.event \in 1..Len(roleEvents) /\ Was(d[1], row.user, row.isAdmin, row.version)
      BY <3>1 DEF IInv, Addressed, TrueFor
    <3>3. row.user \in ChatUsers /\ row.isAdmin \in BOOLEAN /\ row.version \in Nat
      <4>1. roleEvents \in Seq(EventType)
        BY DEF IInv, RoleTypes
      <4>2. row \in EventType
        BY <3>1, <3>2, <4>1
      <4> QED BY <4>2 DEF EventType
    <3>4. PICK tellings : tellings = {row}
      BY Zenon
    <3>5. /\ \A s \in tellings : s.user \in ChatUsers /\ s.isAdmin \in BOOLEAN /\ s.version \in Nat
          /\ \A s \in tellings : Was(d[1], s.user, s.isAdmin, s.version)
          /\ \A s, r \in tellings : r.version = s.version
      BY <3>2, <3>3, <3>4, Zenon
    <3>6. Told(d[1], tellings)
      BY <2>2, <3>1, <3>4
    <3>7. UNCHANGED <<roles, roleVersions, stateMarkers>>
      BY <1>1
    <3> QED BY <1>2, <3>5, <3>6, <3>7, TellingKeeps, Zenon
  <2> QED BY <1>1, <2>1, <2>2
<1>4. Read'
  BY <1>1, <1>3, ReadingKeeps DEF Read
<1>5. RoleTypes'
  <2>1. rolePush' \in [event : Nat, to : SUBSET Devices]
    <3>1. rolePush \in [event : Nat, to : SUBSET Devices]
      BY DEF IInv, RoleTypes
    <3>2. rolePush' = NoPush \/ rolePush' = [rolePush EXCEPT !.to = @ \ {d}]
      BY <1>1
    <3>3. NoPush \in [event : Nat, to : SUBSET Devices]
      BY DEF NoPush
    <3> QED BY <3>1, <3>2, <3>3
  <2> QED BY <1>1, <1>3, <2>1 DEF IInv, RoleTypes
<1>6. Addressed'
  <2>1. \A k \in DOMAIN recipients' : TrueFor(k[1], recipients[k])'
    BY <1>1, Frame
  <2>2. \A c \in rolePush'.to : c \in rolePush.to /\ rolePush'.event = rolePush.event
    BY <1>1 DEF IInv, RoleTypes, NoPush
  <2>3. \A c \in rolePush'.to : TrueFor(c[1], rolePush'.event)
    BY <2>2 DEF IInv, Addressed
  <2>4. \A c \in rolePush'.to : TrueFor(c[1], rolePush.event)'
    BY <1>1, <2>3, Quiet DEF TrueFor, Was
  <2> QED BY <2>1, <2>4 DEF Addressed
<1>7. Marked'
  BY <1>1, Frame
<1> QED BY <1>3, <1>4, <1>5, <1>6, <1>7 DEF IInv

\* A lost notice changes nothing that is said of the tables.
LEMMA StepDropped ==
    ASSUME IInv, NEW event \in roleNotices, noticeDropped(event)
    PROVE  IInv'
<1>1. /\ UNCHANGED <<roles, roleVersions, roleEvents, recipients, stateMarkers, rolePush, differences, heard>>
      /\ roleNotices' \subseteq roleNotices
  BY DEF noticeDropped
<1>2. RoleTypes'
  BY <1>1 DEF IInv, RoleTypes
<1>3. Marked' /\ Addressed'
  BY <1>1, Frame
<1>4. Read' /\ Heard' /\ Learned'
  BY <1>1, Frame
<1> QED BY <1>2, <1>3, <1>4 DEF IInv

-----------------------------------------------------------------------------
(* Differences.                                                            *)

\* What a difference reads is so in the version of the moment, and no older
\* than the change its marker names.
LEMMA StepRead ==
    ASSUME IInv, NEW d \in Devices, readRoleSnapshots(d)
    PROVE  IInv'
<1>1. PICK taken : taken = ChatAdminSnapshotsForMember(d[1])
  OBVIOUS
<1>2. /\ UNCHANGED <<roles, roleVersions, roleEvents, recipients, stateMarkers, roleNotices, rolePush, heard>>
      /\ differences' = [differences EXCEPT ![d] = [at |-> "read", snapshots |-> taken]]
  BY <1>1 DEF readRoleSnapshots
<1>3. PICK n \in Nat : n = Len(roleVersions) /\ n > 0
  BY DEF IInv, RoleTypes
<1>4. DOMAIN roles \subseteq ChatUsers /\ roles \in [DOMAIN roles -> BOOLEAN] /\ roleVersions[n] = roles
  BY <1>3, MapDomain DEF IInv, RoleTypes
<1>5. \A s \in taken : /\ d[1] \in DOMAIN roles /\ s.user \in DOMAIN roles /\ <<d[1], s.user>> \in DOMAIN stateMarkers
                       /\ s = [event |-> stateMarkers[<<d[1], s.user>>], user |-> s.user,
                               isAdmin |-> roles[s.user], version |-> n]
  <2> TAKE s \in taken
  <2> DEFINE snapshot(t) == [event |-> stateMarkers[<<d[1], t>>], user |-> t, isAdmin |-> roles[t], version |-> n]
  <2>1. PICK t \in DOMAIN roles : d[1] \in DOMAIN roles /\ <<d[1], t>> \in DOMAIN stateMarkers /\ s = snapshot(t)
    BY <1>1, <1>3, Zenon DEF ChatAdminSnapshotsForMember
  <2>2. s.user = t
    BY <2>1
  <2> QED BY <2>1, <2>2, Zenon
<1>6. \A s \in taken : /\ s.event \in 1..Len(roleEvents) /\ s.version = n
                       /\ roleEvents[s.event].user = s.user
                       /\ roleEvents[s.event].version <= n
                       /\ Was(d[1], s.user, s.isAdmin, n)
                       /\ s \in SnapshotType
  <2> SUFFICES ASSUME NEW s \in taken
               PROVE  /\ s.event \in 1..Len(roleEvents) /\ s.version = n
                      /\ roleEvents[s.event].user = s.user
                      /\ roleEvents[s.event].version <= n
                      /\ Was(d[1], s.user, s.isAdmin, n)
                      /\ s \in SnapshotType
    OBVIOUS
  <2>1. PICK k : k = <<d[1], s.user>>
    BY Zenon
  <2>2. k \in DOMAIN stateMarkers /\ k[2] = s.user /\ s.event = stateMarkers[k] /\ s.version = n /\ s.isAdmin = roles[s.user]
    BY <1>5, <2>1
  <2>3. /\ stateMarkers[k] \in 1..Len(roleEvents)
        /\ roleEvents[stateMarkers[k]].user = k[2]
        /\ roleEvents[stateMarkers[k]].version <= n
    BY <1>3, <2>2, Zenon DEF IInv, Marked
  <2>4. d[1] \in DOMAIN roles /\ s.user \in DOMAIN roles
    BY <1>5, Zenon
  <2>5. Was(d[1], s.user, s.isAdmin, n)
    <3>1. n \in 1..Len(roleVersions)
      BY <1>3
    <3>2. {d[1], s.user} \subseteq DOMAIN roleVersions[n]
      BY <1>4, <2>4
    <3>3. roleVersions[n][s.user] = s.isAdmin
      BY <1>4, <2>2, Zenon
    <3> QED BY <3>1, <3>2, <3>3, Zenon DEF Was
  <2>6. roles[s.user] \in BOOLEAN /\ s.user \in ChatUsers
    BY <1>4, <2>4
  <2>7. s = [event |-> s.event, user |-> s.user, isAdmin |-> s.isAdmin, version |-> n] /\ s.event \in Nat
    <3>1. Len(roleEvents) \in Nat
      BY DEF IInv, RoleTypes
    <3> QED BY <1>5, <2>1, <2>2, <2>3, <3>1
  <2>8. s \in SnapshotType
    BY <2>2, <2>6, <2>7 DEF SnapshotType
  <2> QED BY <2>2, <2>3, <2>5, <2>8
<1>7. /\ differences'[d] = [at |-> "read", snapshots |-> taken]
      /\ \A c \in Devices : c # d => differences'[c] = differences[c]
      /\ differences' \in [Devices -> [at : {"idle", "read", "written"}, snapshots : SUBSET SnapshotType]]
  <2>1. differences \in [Devices -> [at : {"idle", "read", "written"}, snapshots : SUBSET SnapshotType]]
    BY DEF IInv, RoleTypes
  <2>2. [at |-> "read", snapshots |-> taken] \in [at : {"idle", "read", "written"}, snapshots : SUBSET SnapshotType]
    BY <1>6
  <2> QED BY <1>2, <2>1, <2>2
<1>8. Read'
  <2>1. Reading(d)'
    <3>1. \A s \in taken : Was(d[1], s.user, s.isAdmin, s.version)'
      <4>1. UNCHANGED <<roles, roleVersions, roleEvents>>
        BY <1>2
      <4> QED BY <1>6, <4>1, Quiet, Zenon
    <3>2. roleEvents' = roleEvents
      BY <1>2
    <3> QED BY <1>6, <1>7, <3>1, <3>2 DEF Reading
  <2>2. ASSUME NEW c \in Devices, c # d PROVE Reading(c)'
    <3>1. /\ heard' \in [ChatUsers \X ChatUsers -> [version : Nat, isAdmin : BOOLEAN]]
          /\ \A k \in ChatUsers \X ChatUsers : heard'[k].version >= heard[k].version
      BY <1>2 DEF IInv, RoleTypes
    <3>2. UNCHANGED <<roles, roleVersions, roleEvents>> /\ differences'[c] = differences[c]
      BY <1>2, <1>7, <2>2
    <3> QED BY <3>1, <3>2, ReadingKeeps, ZenonT(60)
  <2> QED BY <2>1, <2>2 DEF Read
<1>9. RoleTypes'
  BY <1>2, <1>7 DEF IInv, RoleTypes
<1>10. Marked' /\ Addressed'
  BY <1>2, Frame
<1>11. Heard' /\ Learned'
  BY <1>2, Frame
<1> QED BY <1>8, <1>9, <1>10, <1>11 DEF IInv

\* A written reply has been heard; one that failed leaves its markers.
LEMMA StepResult ==
    ASSUME IInv, NEW d \in Devices, sendResult(d)
    PROVE  IInv'
<1>1. PICK taken : taken = differences[d].snapshots
  OBVIOUS
<1>2. /\ UNCHANGED <<roles, roleVersions, roleEvents, recipients, stateMarkers, roleNotices, rolePush>>
      /\ \/ Told(d[1], taken) /\ differences' = [differences EXCEPT ![d].at = "written"]
         \/ UNCHANGED heard /\ differences' = [differences EXCEPT ![d] = NoDifference]
  BY <1>1 DEF sendResult
<1>3. differences \in [Devices -> [at : {"idle", "read", "written"}, snapshots : SUBSET SnapshotType]]
  BY DEF IInv, RoleTypes
<1>4. /\ differences' \in [Devices -> [at : {"idle", "read", "written"}, snapshots : SUBSET SnapshotType]]
      /\ \A c \in Devices : c # d => differences'[c] = differences[c]
  BY <1>2, <1>3 DEF NoDifference
<1>5. d[1] \in ChatUsers
  BY DevicesAreOfUsers
<1>6. \A s \in taken : /\ s.event \in 1..Len(roleEvents)
                       /\ roleEvents[s.event].user = s.user
                       /\ roleEvents[s.event].version <= s.version
                       /\ Was(d[1], s.user, s.isAdmin, s.version)
                       /\ \A r \in taken : r.version = s.version
  BY <1>1, Zenon DEF IInv, Read, Reading
<1>7. \A s \in taken : s.user \in ChatUsers /\ s.isAdmin \in BOOLEAN /\ s.version \in Nat
  BY <1>1, <1>3 DEF SnapshotType
<1>8. /\ heard' \in [ChatUsers \X ChatUsers -> [version : Nat, isAdmin : BOOLEAN]]
      /\ \A k \in ChatUsers \X ChatUsers : heard'[k].version >= heard[k].version
      /\ Heard' /\ Learned' /\ Reading(d)'
  <2>1. CASE UNCHANGED heard /\ differences' = [differences EXCEPT ![d] = NoDifference]
    <3>1. /\ heard' \in [ChatUsers \X ChatUsers -> [version : Nat, isAdmin : BOOLEAN]]
          /\ \A k \in ChatUsers \X ChatUsers : heard'[k].version >= heard[k].version
      BY <2>1 DEF IInv, RoleTypes
    <3>2. Heard' /\ Learned'
      BY <1>2, <2>1, Frame
    <3>3. differences'[d].snapshots = {}
      BY <1>3, <2>1 DEF NoDifference
    <3> QED BY <3>1, <3>2, <3>3 DEF Reading
  <2>2. CASE Told(d[1], taken) /\ differences' = [differences EXCEPT ![d].at = "written"]
    <3>1. UNCHANGED <<roles, roleVersions, stateMarkers>> /\ \A s, r \in taken : r.version = s.version
      BY <1>2, <1>6
    <3>2. /\ heard' \in [ChatUsers \X ChatUsers -> [version : Nat, isAdmin : BOOLEAN]]
          /\ \A k \in ChatUsers \X ChatUsers : heard'[k].version >= heard[k].version
          /\ \A s \in taken : heard'[<<d[1], s.user>>].version >= s.version
          /\ Heard' /\ Learned'
      BY <1>5, <1>6, <1>7, <2>2, <3>1, TellingKeeps, Zenon
    <3>3. differences'[d].at = "written" /\ differences'[d].snapshots = taken /\ roleEvents' = roleEvents
      BY <1>1, <1>2, <1>3, <2>2
    <3>4. \A s \in taken : Was(d[1], s.user, s.isAdmin, s.version)'
      <4>1. UNCHANGED <<roles, roleVersions, roleEvents>>
        BY <1>2
      <4> QED BY <1>6, <4>1, Quiet, Zenon
    <3>5. Reading(d)'
      BY <1>6, <3>2, <3>3, <3>4 DEF Reading
    <3> QED BY <3>2, <3>5
  <2> QED BY <1>2, <2>1, <2>2
<1>9. Read'
  <2>1. ASSUME NEW c \in Devices, c # d PROVE Reading(c)'
    <3>1. UNCHANGED <<roles, roleVersions, roleEvents>> /\ differences'[c] = differences[c]
      BY <1>2, <1>4, <2>1
    <3> QED BY <1>8, <3>1, ReadingKeeps, Zenon
  <2> QED BY <1>8, <2>1 DEF Read
<1>10. RoleTypes'
  BY <1>2, <1>4, <1>8 DEF IInv, RoleTypes
<1>11. Marked' /\ Addressed'
  BY <1>2, Frame
<1> QED BY <1>8, <1>9, <1>10, <1>11 DEF IInv

\* A consumed marker named a change no newer than what the reply told: one that
\* was renamed in between is left.
LEMMA StepConsume ==
    ASSUME IInv, NEW d \in Devices, consumeAdminMarkers(d)
    PROVE  IInv'
<1>1. PICK taken : taken = differences[d].snapshots
  OBVIOUS
<1>2. /\ UNCHANGED <<roles, roleVersions, roleEvents, recipients, roleNotices, rolePush, heard>>
      /\ differences[d].at = "written"
      /\ differences' = [differences EXCEPT ![d] = NoDifference]
      /\ \/ UNCHANGED stateMarkers
         \/ stateMarkers' = DeleteChatAdminStateMarkersByEventIDs(d[1], {s.event : s \in taken})
  BY <1>1 DEF consumeAdminMarkers
<1>3. differences \in [Devices -> [at : {"idle", "read", "written"}, snapshots : SUBSET SnapshotType]]
  BY DEF IInv, RoleTypes
<1>4. /\ differences' \in [Devices -> [at : {"idle", "read", "written"}, snapshots : SUBSET SnapshotType]]
      /\ differences'[d].snapshots = {}
      /\ \A c \in Devices : c # d => differences'[c] = differences[c]
  BY <1>2, <1>3 DEF NoDifference
<1>5. /\ \A k \in DOMAIN stateMarkers' : k \in DOMAIN stateMarkers /\ stateMarkers'[k] = stateMarkers[k]
      /\ \A k \in DOMAIN stateMarkers \ DOMAIN stateMarkers' : k[1] = d[1] /\ \E s \in taken : stateMarkers[k] = s.event
  <2>1. CASE UNCHANGED stateMarkers
    BY <2>1
  <2>2. CASE stateMarkers' = DeleteChatAdminStateMarkersByEventIDs(d[1], {s.event : s \in taken})
    BY <2>2 DEF DeleteChatAdminStateMarkersByEventIDs
  <2> QED BY <1>2, <2>1, <2>2
<1>6. \A s \in taken : /\ s.event \in 1..Len(roleEvents)
                       /\ roleEvents[s.event].user = s.user
                       /\ roleEvents[s.event].version <= s.version
                       /\ heard[<<d[1], s.user>>].version >= s.version
  BY <1>1, <1>2, ZenonT(60) DEF IInv, Read, Reading
<1>7. RoleTypes'
  <2>1. Keyed(stateMarkers, DOMAIN roles)'
    <3>1. Keyed(stateMarkers, DOMAIN roles)
      BY DEF IInv, RoleTypes
    <3> QED BY <1>2, <1>5, <3>1 DEF Keyed
  <2> QED BY <1>2, <1>4, <2>1 DEF IInv, RoleTypes
<1>8. Marked'
  BY <1>2, <1>5, Quiet DEF IInv, Marked
<1>9. Read'
  <2>1. Reading(d)'
    BY <1>4 DEF Reading
  <2>2. ASSUME NEW c \in Devices, c # d PROVE Reading(c)'
    <3>1. /\ heard' \in [ChatUsers \X ChatUsers -> [version : Nat, isAdmin : BOOLEAN]]
          /\ \A k \in ChatUsers \X ChatUsers : heard'[k].version >= heard[k].version
      BY <1>2 DEF IInv, RoleTypes
    <3>2. UNCHANGED <<roles, roleVersions, roleEvents>> /\ differences'[c] = differences[c]
      BY <1>2, <1>4, <2>2
    <3> QED BY <3>1, <3>2, ReadingKeeps, ZenonT(60)
  <2> QED BY <2>1, <2>2 DEF Read
<1>10. Learned'
  <2> SUFFICES ASSUME NEW u \in DOMAIN roles', NEW t \in DOMAIN roles', <<u, t>> \notin DOMAIN stateMarkers',
                      NEW v \in Owed(u, t)'
               PROVE  heard'[<<u, t>>].version >= v
    BY ZenonT(60) DEF Learned
  <2>0. UNCHANGED <<roles, roleVersions, roleEvents>> /\ heard' = heard
    BY <1>2
  <2>1. v \in Owed(u, t) /\ u \in DOMAIN roles /\ t \in DOMAIN roles /\ heard' = heard
    BY <2>0, Quiet
  <2>2. CASE <<u, t>> \notin DOMAIN stateMarkers
    BY <2>1, <2>2 DEF IInv, Learned
  <2>3. CASE <<u, t>> \in DOMAIN stateMarkers
    <3>1. PICK k : k = <<u, t>>
      BY Zenon
    <3>2. k \in DOMAIN stateMarkers \ DOMAIN stateMarkers' /\ k[1] = u /\ k[2] = t
      BY <2>3, <3>1
    <3>3. PICK s \in taken : stateMarkers[k] = s.event /\ u = d[1]
      BY <1>5, <3>2
    <3>4. roleEvents[s.event].user = t /\ v <= roleEvents[s.event].version
      <4>1. /\ roleEvents[stateMarkers[k]].user = k[2]
            /\ \A w \in Owed(k[1], k[2]) : w <= roleEvents[stateMarkers[k]].version
        BY <3>2, Zenon DEF IInv, Marked
      <4>2. v \in Owed(k[1], k[2])
        BY <2>1, <3>2
      <4> QED BY <3>2, <3>3, <4>1, <4>2
    <3>5. s.user = t /\ roleEvents[s.event].version <= s.version /\ heard[<<u, t>>].version >= s.version
      BY <1>6, <3>3, <3>4, Zenon
    <3>6. s.version \in Nat /\ roleEvents[s.event].version \in Nat /\ v \in Int /\ heard[<<u, t>>].version \in Nat
      <4>1. s.version \in Nat
        BY <1>1, <1>3 DEF SnapshotType
      <4>2. roleEvents[s.event] \in EventType
        <5>1. s.event \in 1..Len(roleEvents) /\ roleEvents \in Seq(EventType)
          BY <1>6, ZenonT(60) DEF IInv, RoleTypes
        <5> QED BY <5>1
      <4>3. v \in Int
        BY <2>1 DEF Owed, IInv, RoleTypes
      <4>4. <<u, t>> \in ChatUsers \X ChatUsers
        BY <2>1, MapDomain DEF IInv, RoleTypes
      <4>5. heard[<<u, t>>].version \in Nat
        BY <4>4 DEF IInv, RoleTypes
      <4> QED BY <4>1, <4>2, <4>3, <4>5 DEF EventType
    <3> QED BY <2>1, <3>4, <3>5, <3>6
  <2> QED BY <2>2, <2>3
<1>11. Addressed' /\ Heard'
  BY <1>2, Frame
<1> QED BY <1>7, <1>8, <1>9, <1>10, <1>11 DEF IInv

-----------------------------------------------------------------------------
(* The theorems.                                                           *)

\* A chat begins with nothing to tell.
LEMMA RolesStart ==
    ASSUME NEW scenes, \A s \in scenes : s.members \subseteq ChatUsers, RolesInit(scenes)
    PROVE  IInv
<1>1. PICK s \in scenes :
        /\ roles = [u \in s.members |-> FALSE] /\ roleVersions = <<roles>>
        /\ roleEvents = << >> /\ recipients = << >> /\ stateMarkers = << >>
        /\ roleNotices = {} /\ rolePush = NoPush
        /\ differences = [d \in Devices |-> NoDifference]
        /\ heard = [k \in ChatUsers \X ChatUsers |-> [version |-> 0, isAdmin |-> FALSE]]
  BY Zenon DEF RolesInit
<1>2. roles \in RoleMaps
  <2>1. s.members \in SUBSET ChatUsers
    OBVIOUS
  <2>2. roles \in [s.members -> BOOLEAN]
    BY <1>1
  <2> QED BY <2>1, <2>2, MapOf, Zenon
<1>3. /\ roleVersions \in Seq(RoleMaps) /\ Len(roleVersions) = 1 /\ roleVersions[1] = roles
      /\ roleEvents \in Seq(EventType)
  BY <1>1, <1>2
<1>4. DOMAIN recipients = {} /\ DOMAIN stateMarkers = {}
  BY <1>1
<1>5. \A d \in Devices : differences[d].snapshots = {}
  BY <1>1 DEF NoDifference
<1>6. rolePush.to = {}
  BY <1>1 DEF NoPush
<1>7. RoleTypes
  <2>1. Keyed(recipients, ChatUsers) /\ Keyed(stateMarkers, DOMAIN roles)
    BY <1>4 DEF Keyed
  <2>2. /\ roleNotices \subseteq 1..Len(roleEvents)
        /\ rolePush \in [event : Nat, to : SUBSET Devices]
        /\ differences \in [Devices -> [at : {"idle", "read", "written"}, snapshots : SUBSET SnapshotType]]
        /\ heard \in [ChatUsers \X ChatUsers -> [version : Nat, isAdmin : BOOLEAN]]
    BY <1>1 DEF NoPush, NoDifference
  <2> QED BY <1>2, <1>3, <2>1, <2>2 DEF RoleTypes
<1>8. Addressed /\ Marked /\ Read
  BY <1>4, <1>5, <1>6 DEF Addressed, Marked, Read, Reading
<1>9. Heard
  BY <1>1 DEF Heard
<1>10. Learned
  BY <1>3 DEF Learned, Owed
<1> QED BY <1>7, <1>8, <1>9, <1>10 DEF IInv

\* Every step keeps the account of markers, readings and what was heard.
LEMMA RolesStep ==
    ASSUME IInv, [RolesNext]_roleVars
    PROVE  IInv'
<1>1. CASE UNCHANGED roleVars
  <2>1. UNCHANGED <<roles, roleVersions, roleEvents, recipients, stateMarkers, roleNotices, rolePush, differences, heard>>
    BY <1>1 DEF roleVars
  <2>2. RoleTypes'
    BY <2>1 DEF IInv, RoleTypes
  <2>3. Marked' /\ Addressed'
    BY <2>1, Frame
  <2>4. Read' /\ Heard' /\ Learned'
    BY <2>1, Frame
  <2> QED BY <2>2, <2>3, <2>4 DEF IInv
<1>2. CASE \E caller, target \in ChatUsers, isAdmin \in BOOLEAN : SetChatAdmin(caller, target, isAdmin)
  BY <1>2, StepSetChatAdmin
<1>3. CASE \E target \in ChatUsers : memberJoins(target) \/ memberLeaves(target)
  BY <1>3, StepMemberJoins, StepMemberLeaves
<1>4. CASE \E event \in roleNotices : DeliverChatAdmin(event) \/ noticeDropped(event)
  BY <1>4, StepDeliver, StepDropped
<1>5. CASE \E d \in rolePush.to, written \in BOOLEAN : pushTransientFanout(d, written)
  BY <1>5, StepPush
<1>6. CASE \E d \in Devices : readRoleSnapshots(d) \/ sendResult(d) \/ consumeAdminMarkers(d)
  BY <1>6, StepRead, StepResult, StepConsume
<1> QED BY <1>1, <1>2, <1>3, <1>4, <1>5, <1>6, Zenon DEF RolesNext

\* Whatever chats a server starts with and however many devices there are,
\* markers, readings and tellings stay in step: the upserts of SetChatAdmin, the
\* cascades of a departure and the deletes of consumeAdminMarkers.
THEOREM RolesInductive ==
    ASSUME NEW scenes, \A s \in scenes : s.members \subseteq ChatUsers
    PROVE  RolesSpec(scenes) => []IInv
<1>1. RolesInit(scenes) => IInv
  BY RolesStart
<1>2. IInv /\ [RolesNext]_roleVars => IInv'
  BY RolesStep
<1> QED BY <1>1, <1>2, PTL DEF RolesSpec

\* Members learn every change of role or keep the marker that will tell them,
\* and were told nothing that was not so.
THEOREM EveryChangeIsLearned ==
    ASSUME NEW scenes, \A s \in scenes : s.members \subseteq ChatUsers
    PROVE  RolesSpec(scenes) => []RolesAreLearned
<1>1. IInv => RolesAreLearned
  BY DEF IInv, Learned, Heard, Was, RolesAreLearned
<1> QED BY <1>1, RolesInductive, PTL

====
