----------------------------- MODULE ChannelReads -----------------------------
(* The calls that read channels without changing them.  Each is an operator   *)
(* of the tables: what the caller is shown, or {} / Refused.  The text a      *)
(* search matches is external: it is the parameter hits.                      *)
EXTENDS ChannelTables

Refused == NotMember

\* channelParticipantToTL: how one member is rendered
ParticipantKind(m) ==
  CASE Banned(m) -> "banned"
    [] ~Banned(m) /\ m.role = RoleCreator -> "creator"
    [] ~Banned(m) /\ m.role = RoleAdmin -> "admin"
    [] OTHER -> "member"

\* requireChannelMember
RequireChannelMember(c, u) == ActiveMember(c, u)

---------------------------------------------------------------------------
(* Lists of channels. *)

\* ChannelMembershipsOf: the unbanned rows among channelParticipantsForViewer
ChannelParticipantsForViewer(u, cs) == {c \in cs : IsChannelMember(c, u)}
ChannelMembershipsOf(u, cs) ==
  {c \in ChannelParticipantsForViewer(u, cs) : ~Banned(participants[c][u])}

\* channelToTL: the chat in full, or only a forbidden stub
ChannelToTL(member) == IF member THEN "channel" ELSE "forbidden"

\* loadChannels and handleGetChannels
LoadChannels(u, cs) ==
  [c \in {d \in cs : channels[d] # None} |-> ChannelToTL(ActiveMember(c, u))]
HandleGetChannels(u, cs) == LoadChannels(u, cs)

\* the query joins usernames, not channels.username
AdminedPublicChannels(u) ==
  {c \in Channels : ActiveAdmin(c, u) /\ \E h \in Handles : usernames[h] = ChannelOwner(c)}
HandleGetAdminedPublicChannels(u) ==
  [c \in AdminedPublicChannels(u) |-> ChannelToTL(TRUE)]

SearchMemberChannelsQuery(u, ids, hits, handle) ==
  {c \in (ids \cap hits) \cup {d \in Channels : handle # None /\ usernames[handle] = ChannelOwner(d)} :
     ActiveMember(c, u)}
MemberChannelIDs(u) == {c \in Channels : ActiveMember(c, u)}
SearchMemberChannels(u, hits, handle) ==
  SearchMemberChannelsQuery(u, MemberChannelIDs(u), hits, handle)

SearchPublicChannelsQuery(hits, handle) ==
  {c \in {d \in hits : channels[d] # None /\ channels[d].discoverable}
          \cup {d \in Channels : handle # None /\ usernames[handle] = ChannelOwner(d)} :
     \E h \in Handles : usernames[h] = ChannelOwner(c)}
SearchPublicChannels(hits, handle) ==
  [c \in SearchPublicChannelsQuery(hits, handle) |-> CountChannelParticipants(c)]

\* getUsernameByHandle, handleResolveUsername, channelToTLForResolve
GetUsernameByHandle(h) == usernames[h]
ChannelToTLForResolve(c) ==
  [username |-> channels[c].username, count |-> CountChannelParticipants(c)]
HandleResolveUsername(h) ==
  LET owner == GetUsernameByHandle(h) IN
  IF owner # None /\ owner[1] = "channel" THEN ChannelToTLForResolve(owner[2]) ELSE None

\* handleCheckChannelUsername: an administrator asks whether a handle is free
HandleCheckChannelUsername(u, c, h) ==
  IF ~ActiveAdmin(c, u) THEN Refused
  ELSE IF GetUsernameByHandle(h) = None THEN 1 ELSE 0

---------------------------------------------------------------------------
(* Unread counts: three paths to one number. *)

Saturated(n) == Min({n, 1000})
ClampedUnread(row) == Saturated(Max({row.total - row.author, 0}))

\* the Go side recomputes the SQL side's number and refuses a disagreement
CheckedUnread(row) ==
  CASE UnreadSummaryCount(row) < 0 -> UnreadSummaryCount(row)
    [] ClampedUnread(row) # Saturated(UnreadSummaryCount(row)) -> Corrupt
    [] OTHER -> ClampedUnread(row)

\* channelDialogsForUser and ChannelDialogsForUser; one channel whose
\* summaries are not ready fails the whole list
ChannelDialogsQuery(u) ==
  [c \in MemberChannelIDs(u) |->
     [read |-> ChannelReadMarker(c, u), top |-> TopLocalID(c), pts |-> ChannelPts(c),
      row |-> SuffixCounts(c, u, ChannelReadMarker(c, u))]]
ChannelDialogsForUser(u) ==
  LET q == ChannelDialogsQuery(u) IN
  IF \E c \in DOMAIN q : CheckedUnread(q[c].row) < 0 THEN None
  ELSE [c \in DOMAIN q |->
          [read |-> q[c].read, top |-> q[c].top, pts |-> q[c].pts,
           unread |-> CheckedUnread(q[c].row)]]

ChannelReadStateForViewer(c, u) ==
  [read |-> ChannelReadMarker(c, u), row |-> SuffixCounts(c, u, ChannelReadMarker(c, u))]

ChannelFullInfoStats(c) ==
  LET rows == participants[c] IN
  [participants |-> Cardinality(DOMAIN rows),
   admins |-> Cardinality({u \in DOMAIN rows : ActiveAdmin(c, u)}),
   banned |-> Cardinality({u \in DOMAIN rows : Banned(rows[u])})]

\* ChannelFullInfoForViewer
ChannelFullInfoForViewer(c, u) ==
  LET has == IsChannelMember(c, u)
      row == ChannelReadStateForViewer(c, u) IN
  CASE channels[c] = None -> None
    [] channels[c] # None /\ has /\ Banned(participants[c][u]) -> None
    [] channels[c] # None /\ ~has /\ channels[c].username = None -> None
    [] channels[c] # None /\ ActiveMember(c, u) /\ CheckedUnread(row.row) < 0 -> None
    [] OTHER -> [stats |-> ChannelFullInfoStats(c), pts |-> ChannelPts(c),
                 read |-> IF has THEN row.read ELSE 0,
                 unread |-> IF has THEN CheckedUnread(row.row) ELSE 0,
                 invites |-> IF ActiveAdmin(c, u) THEN ChannelActiveInvite(c) ELSE {}]

\* handleGetFullChannel: who may list participants, and how the chat is rendered
HandleGetFullChannel(c, u) ==
  LET full == ChannelFullInfoForViewer(c, u) IN
  IF full = None THEN None
  ELSE [full |-> full,
        canView |-> ActiveMember(c, u) /\
                      (channels[c].mega \/ participants[c][u].role >= RoleAdmin),
        left |-> ~ActiveMember(c, u)]

---------------------------------------------------------------------------
(* Participants. *)

Filters == {"recent", "admins", "banned", "kicked", "search", "contacts", "bots", "mentions"}
AdminOnly(filter) == filter \in {"banned", "kicked"}

\* channelParticipantsPage without its limit: the rows a filter selects
ChannelParticipantsPage(c, filter, hits) ==
  {u \in DOMAIN participants[c] :
     LET m == participants[c][u] IN
     CASE filter = "recent" -> ~Banned(m)
       [] filter = "admins" -> m.role >= RoleAdmin /\ ~Banned(m)
       [] filter \in {"banned", "kicked"} -> Banned(m) /\ u \in hits
       [] filter \in {"search", "contacts"} -> ~Banned(m) /\ u \in hits
       [] OTHER -> FALSE}
ChannelParticipantsPageCount(c, filter, hits) ==
  Cardinality(ChannelParticipantsPage(c, filter, hits))

\* ChannelParticipantsPageForViewer and handleGetParticipants
ChannelParticipantsPageForViewer(c, u, filter, hits) ==
  [has |-> IsChannelMember(c, u), count |-> ChannelParticipantsPageCount(c, filter, hits),
   rows |-> ChannelParticipantsPage(c, filter, hits)]
HandleGetParticipants(c, u, filter, hits) ==
  LET page == ChannelParticipantsPageForViewer(c, u, filter, hits)
      admin == participants[c][u].role >= RoleAdmin IN
  IF \/ channels[c] = None \/ ~page.has \/ Banned(participants[c][u])
     \/ AdminOnly(filter) /\ ~admin
     \/ ~channels[c].mega /\ ~admin
  THEN None
  ELSE [count |-> page.count,
        shown |-> [v \in page.rows |-> ParticipantKind(participants[c][v])]]

\* ChannelParticipantForViewer and handleGetParticipant
HandleGetParticipant(c, u, v) ==
  LET admin == participants[c][u].role >= RoleAdmin IN
  IF \/ channels[c] = None \/ ~ActiveMember(c, u)
     \/ v # u /\ ~(admin \/ channels[c].mega)
     \/ ~IsChannelMember(c, v)
     \/ Banned(participants[c][v]) /\ ~admin
  THEN None ELSE ParticipantKind(participants[c][v])

---------------------------------------------------------------------------
(* Posts. *)

\* channelHistoryPage and searchChannelPostsPage: newest first, below an offset
ChannelHistory(c, offset) ==
  {id \in DOMAIN posts[c] : offset = 0 \/ id < offset}
SearchChannelPosts(c, hits, offset) ==
  {id \in ChannelHistory(c, offset) \cap hits : posts[c][id].action = 0}

\* SearchFilteredChannelPosts checks the caller inside its own snapshot
SearchFilteredChannelPosts(c, u, filter, hits) ==
  CASE ~ActiveMember(c, u) -> None
    [] ActiveMember(c, u) /\ filter = "photo" -> {}
    [] OTHER -> SearchChannelPosts(c, hits, 0)

\* searchPinnedChannelPostForMember
SearchPinnedChannelPost(c, u) ==
  {id \in DOMAIN posts[c] : ActiveMember(c, u) /\ id = channels[c].pinned /\ posts[c][id].action = 0}

\* handleGetChannelMessages and handleExportMessageLink
HandleGetChannelMessages(c, u, ids) ==
  IF ~RequireChannelMember(c, u) THEN None ELSE ids \cap DOMAIN posts[c]
HandleExportMessageLink(c, u, id) ==
  IF ~RequireChannelMember(c, u) \/ id \notin DOMAIN posts[c] THEN None
  ELSE <<channels[c].username, id>>

\* handleCheckChatInvite: a preview for strangers, the chat itself for members
HandleCheckChatInvite(i, u) ==
  IF ~ChannelInviteByHash(i) THEN None
  ELSE IF IsChannelMember(invites[i].channel, u)
       THEN ChannelToTL(ActiveMember(invites[i].channel, u)) ELSE "preview"
=============================================================================
