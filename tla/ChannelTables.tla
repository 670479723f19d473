---------------------------- MODULE ChannelTables ----------------------------
(* The tables behind broadcast channels and megagroups, the queries on them  *)
(* (store/db/channels.sql.go, channelmsgs.sql.go, channel_post_summaries.    *)
(* sql.go, usernames.sql.go) and the handlers that only read them.  A table  *)
(* is a function on its key; a reader's answer is an operator of the state   *)
(* because every reader below takes its rows from one statement or from one  *)
(* repeatable-read snapshot.  Module Channels adds the transactions.         *)
EXTENDS Integers, Sequences, FiniteSets, FiniteSetsExt, TLC

CONSTANTS
  Users,        \* user ids, positive integers
  Channels,     \* channel ids
  MinChannelID, \* minChannelID, the least id insertChannel draws
  Invites,      \* invite hashes CreateChannelInvite may draw
  Handles,      \* usernames, lower-cased
  IdBits,       \* width of a local id in the summary tree, 63 in the source
  None          \* an absent row or a NULL column

\* randomChannelID draws far above the serial user ids.  A channel older than
\* that has its id from channels_id_seq: it is below the floor and may be the
\* id of a user.
ASSUME UsersBelowDrawnIDs == \A u \in Users : u < MinChannelID

VARIABLES
  channels,     \* channels: id -> row or None
  participants, \* channel_participants: channel -> (user -> row), for the rows there are
  readState,    \* channel_read_state: channel -> (user -> read_max_id)
  postMarkers,  \* channel_post_markers younger than the slow-mode period: channel -> users
  invites,      \* channel_invites: hash -> row or None
  usernames,    \* usernames: handle -> <<owner_type, owner_id>> or None
  userNames,    \* users.username: user -> handle or None
  nameChanges,  \* (channel_)username_changes younger than a day: owner -> number
  posts,        \* channel_messages: channel -> sequence indexed by local_id
  events,       \* channel_events: channel -> sequence of local ids indexed by pts
  summaries,    \* channel_post_summaries: channel -> (node -> live_count)
  ready         \* channel_post_summary_state.ready: channel -> BOOLEAN

tables == <<channels, participants, readState, postMarkers, invites, usernames,
            userNames, nameChanges, posts, events, summaries, ready>>

UserOwner(u) == <<"user", u>>
ChannelOwner(c) == <<"channel", c>>
Owners == {UserOwner(u) : u \in Users} \cup {ChannelOwner(c) : c \in Channels}
RoleMember == 0
RoleAdmin == 1
RoleCreator == 2

---------------------------------------------------------------------------
(* Rows. *)

ChannelRow(creator, mega) ==
  [creator |-> creator, mega |-> mega, restricted |-> FALSE, slow |-> FALSE,
   username |-> None, discoverable |-> FALSE, pinned |-> 0]

ParticipantRow(role, pts) ==
  [role |-> role, ban |-> "none", join |-> pts, recent |-> FALSE]

\* action_type 1 is the service message of the creation, 0 a post
Post(from, rid, reply, action) ==
  [from |-> from, rid |-> rid, reply |-> reply, action |-> action]

Banned(m) == m.ban # "none"

---------------------------------------------------------------------------
(* channels and channel_participants. *)

ChannelByID(c) == channels[c]
IsChannelMember(c, u) == u \in DOMAIN participants[c]
ChannelParticipantByUser(c, u) == participants[c][u]
ChannelMegagroup(c) == channels[c].mega
ChannelPostDefaults(c) == channels[c]
CountChannelParticipants(c) == Cardinality(DOMAIN participants[c])
ChannelsForUser(u) == {c \in Channels : IsChannelMember(c, u)}
CountChannelsForUser(u) == Cardinality(ChannelsForUser(u))

\* a participant row that is not banned at now()
ActiveMember(c, u) ==
  IsChannelMember(c, u) /\ ~Banned(ChannelParticipantByUser(c, u))

\* the caller as every administrative call re-reads it under the channel lock
ActiveAdmin(c, u) ==
  ActiveMember(c, u) /\ participants[c][u].role >= RoleAdmin

InsertChannel(c, u, mega) == [channels EXCEPT ![c] = ChannelRow(u, mega)]

\* ON CONFLICT DO NOTHING: a row that exists keeps its values
InsertChannelParticipantIfAbsent(c, us, role, pts) ==
  [participants EXCEPT ![c] = @ @@ [u \in us |-> ParticipantRow(role, pts)]]

\* the trigger channel_read_state_initialize_member
InsertChannelReadStateForNewMember(c, us, top) ==
  [readState EXCEPT ![c] = @ @@ [u \in us |-> top]]

\* the foreign key of channel_read_state cascades
DeleteChannelParticipant(c, u) ==
  /\ participants' = [participants EXCEPT ![c] =
                        [v \in DOMAIN @ \ {u} |-> @[v]]]
  /\ readState' = [readState EXCEPT ![c] = [v \in DOMAIN @ \ {u} |-> @[v]]]

UpdateChannelParticipantRole(c, u, role) ==
  [participants EXCEPT ![c][u].role = role]

UpdateChannelParticipantBan(c, u, ban) ==
  [participants EXCEPT ![c][u].ban = ban]

SetDefaultBannedRights(c, r) == [channels EXCEPT ![c].restricted = r]
SetSlowMode(c, on) == [channels EXCEPT ![c].slow = on]
SetPinnedMessage(c, id) == [channels EXCEPT ![c].pinned = id]

\* GREATEST(read_max_id, requested)
AdvanceChannelReadState(c, u, id) ==
  [readState EXCEPT ![c] =
     (u :> IF u \in DOMAIN @ THEN Max({@[u], id}) ELSE id) @@ @]

---------------------------------------------------------------------------
(* Invites and usernames. *)

ChannelInviteByHash(i) == invites[i] # None /\ ~invites[i].revoked

InsertChannelInvite(i, c, u) ==
  [invites EXCEPT ![i] = [channel |-> c, creator |-> u, revoked |-> FALSE]]

RevokeChannelInvite(i) == [invites EXCEPT ![i].revoked = TRUE]

ChannelActiveInvite(c) ==
  {i \in Invites : ChannelInviteByHash(i) /\ invites[i].channel = c}

NameOf(o) == IF o[1] = "user" THEN userNames[o[2]] ELSE channels[o[2]].username

\* mutant: the owner_type is not compared
ReleaseByID(o) ==
  [h \in Handles |-> IF usernames[h] # None /\ usernames[h][2] = o[2] THEN None ELSE usernames[h]]

ReleaseUsernameByOwner(o) ==
  [h \in Handles |-> IF usernames[h] = o THEN None ELSE usernames[h]]

\* the primary key of usernames refuses a handle another owner holds
Occupied(o, h) == h # None /\ ReleaseUsernameByOwner(o)[h] # None

\* mutant: the owner's previous handle is not released
ClaimKeepingOld(o, h) == [g \in Handles |-> IF g = h THEN o ELSE usernames[g]]

ClaimUsername(o, h) ==
  [g \in Handles |-> IF g = h THEN o ELSE ReleaseUsernameByOwner(o)[g]]

\* publicly_discoverable is recomputed from usernames by the same statement
SetChannelUsername(c, h, names) ==
  [channels EXCEPT ![c].username = h,
                   ![c].discoverable = \E g \in Handles : names[g] = ChannelOwner(c)]

---------------------------------------------------------------------------
(* channel_state, channel_messages and channel_events. *)

ChannelPts(c) == Len(events[c])
TopLocalID(c) == Len(posts[c])

BumpedPts(c) == Len(events[c]) + 1
BumpedLocalID(c) == Len(posts[c]) + 1

InsertChannelMessage(c, post) == [posts EXCEPT ![c] = Append(@, post)]
InsertChannelEvent(c, id) == [events EXCEPT ![c] = Append(@, id)]

ChannelPostExistsActive(c, id) ==
  id \in DOMAIN posts[c] /\ posts[c][id].action = 0

ChannelMessageByRandomID(c, rid) ==
  rid # 0 /\ \E id \in DOMAIN posts[c] : posts[c][id].rid = rid

\* mutant: the marker that survives a departure is not consulted
SlowModeByRowOnly(c, u) == channels[c].slow /\ participants[c][u].recent

\* GREATEST(cp.last_post_at, cpm.last_post_at) is younger than the period
ChannelSlowModePostState(c, u) ==
  channels[c].slow /\ (participants[c][u].recent \/ u \in postMarkers[c])

UpdateChannelPostMarker(c, u) ==
  /\ participants' = [participants EXCEPT ![c][u].recent = TRUE]
  /\ postMarkers' = [postMarkers EXCEPT ![c] = @ \cup {u}]

ChannelEventsWindow(c, from, to, limit) ==
  SubSeq(events[c], from + 1, Min({to, from + limit}))

---------------------------------------------------------------------------
(* channel_post_summaries: a binary tree over the ids, one for all posts and *)
(* one for each author, that counts the live posts below every node.         *)

Scopes == {None} \cup Users
Nodes == UNION {{<<d, p>> : p \in 0 .. 2^d - 1} : d \in 0 .. IdBits}
NodeOf(id, d) == <<d, id \div 2^(IdBits - d)>>
IsLive(post) == post.action = 0

\* the trigger channel_post_summary_maintain_source, for the inserted post
MaintainSummaries(c, id, post) ==
  IF IsLive(post) /\ ready[c]
  THEN [summaries EXCEPT ![c] =
          [s \in Scopes |-> [n \in Nodes |->
             @[s][n] + IF s \in {None, post.from} /\ n = NodeOf(id, n[1])
                       THEN 1 ELSE 0]]]
  ELSE summaries

\* the function initialize_channel_post_summaries
InitializeSummaries(c) ==
  [summaries EXCEPT ![c] =
     [s \in Scopes |-> [n \in Nodes |->
        Cardinality({id \in DOMAIN posts[c] :
                       /\ IsLive(posts[c][id])
                       /\ s \in {None, posts[c][id].from}
                       /\ n = NodeOf(id, n[1])})]]]

\* mutant: the post at the marker counts as unread
SuffixKeysInclusive(marker) ==
  IF marker <= 1 THEN {<<0, 0>>}
  ELSE {<<d, 2 * ((marker - 1) \div 2^(IdBits + 1 - d)) + 1>> :
          d \in {e \in 1 .. IdBits : ((marker - 1) \div 2^(IdBits - e)) % 2 = 0}}

\* the nodes that partition the ids above the marker
SuffixKeys(marker) ==
  IF marker = 0 THEN {<<0, 0>>}
  ELSE {<<d, 2 * (marker \div 2^(IdBits + 1 - d)) + 1>> :
          d \in {e \in 1 .. IdBits : (marker \div 2^(IdBits - e)) % 2 = 0}}

\* the function channel_post_unread_suffix_counts
SuffixCounts(c, u, marker) ==
  LET entitled == ActiveMember(c, u)
      Sum(s) == IF entitled /\ ready[c]
                THEN MapThenSumSet(LAMBDA n : summaries[c][s][n], SuffixKeys(marker))
                ELSE 0
  IN [entitled |-> entitled, ready |-> ready[c], total |-> Sum(None), author |-> Sum(u)]

NotMember == -1
NotReady == -2
Corrupt == -3

\* channelPostUnreadSummaryCount
UnreadSummaryCount(row) ==
  CASE ~row.entitled -> NotMember
    [] row.entitled /\ ~row.ready -> NotReady
    [] row.entitled /\ row.ready /\ row.total < row.author -> Corrupt
    [] OTHER -> row.total - row.author

\* COALESCE(read_state.read_max_id, 0)
ChannelReadMarker(c, u) ==
  IF u \in DOMAIN readState[c] THEN readState[c][u] ELSE 0

ChannelPostUnreadCount(c, u, marker) == UnreadSummaryCount(SuffixCounts(c, u, marker))
=============================================================================
