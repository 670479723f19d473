------------------------------- MODULE Channels -------------------------------
(* Channels and megagroups under concurrent calls (store/channels.go,         *)
(* channelmsgs.go, channel_post_summaries.go, channel_read_history.go and     *)
(* their handlers in api/channels.go).  A call is a transaction in a slot: it *)
(* begins with the reads it makes without a lock, takes its locks one by one  *)
(* in the order of its Plan, checks what it checks under each, and commits in *)
(* one step; it may be rolled back at any point before that.  The locks are   *)
(* rows locked FOR (NO KEY) UPDATE or written, and advisory locks on ids.     *)
EXTENDS ChannelReads, SequencesExt

CONSTANTS
  Slots,        \* transactions that may be open at once
  RandomIDs,    \* client random ids, 0 for none
  DiffLimit,    \* maxDiffEvents of one channel difference
  InviteTargets,\* maxChannelInviteTargets
  ChangeLimit,  \* ChannelUsernameChangeLimit
  Mixes         \* the scenarios: initial tables, caps, bounds and the requests made

VARIABLES
  mix,          \* the scenario of this behaviour
  started,      \* requests begun so far
  tx,           \* slot -> the call it runs
  cli,          \* channel -> user -> what the user's client has of the channel
  joinPoints    \* history: channel -> user -> every join_pts the user was given

vars == <<tables, mix, started, tx, cli, joinPoints>>

Idle == [op |-> "idle", held |-> {}, todo |-> <<>>]
Open(s, op) == tx[s].op = op
Ready(s, op) == Open(s, op) /\ tx[s].todo = <<>>

---------------------------------------------------------------------------
(* Locks. *)

LChannel(c) == <<"channel", c>>
LState(c) == <<"state", c>>
LInvite(i) == <<"invite", i>>
LOwner(o) == <<"advisory", o>>
LRow(c, u) == <<"row", c, u>>
LHandle(h) == <<"handle", h>>

\* lockOwners: ascending and without repetition
Ascending(us) == SetToSortSeq(us, <)
LOwners(us) == LET q == Ascending(us) IN [i \in DOMAIN q |-> LOwner(q[i])]

\* the row ReleaseUsernameByOwner deletes, then the key ClaimUsername inserts
LNames(o, h) ==
  LET own == {g \in Handles : usernames[g] = o} IN
  SetToSeq({LHandle(g) : g \in own})
    \o IF h = None \/ h \in own THEN <<>> ELSE <<LHandle(h)>>

CreatePlan(t) == <<LOwner(t.u)>>
\* mutants: the cap is counted under a lock on the channel's id, and under the
\* right lock taken before the state
ImportLocksChannelID(t) == <<LInvite(t.x), LState(t.c), LOwner(t.c)>>
ImportLocksOwnerFirst(t) == <<LInvite(t.x), LOwner(t.u), LState(t.c)>>
ImportPlan(t) == <<LInvite(t.x), LState(t.c), LOwner(t.u)>>
JoinPlan(t) == <<LState(t.c), LOwner(t.u)>>
AddPlan(t) == <<LChannel(t.c), LState(t.c)>> \o LOwners(ToSet(t.x))
ChangeMemberPlan(t) == <<LChannel(t.c), LRow(t.c, t.x.target)>>
LeavePlan(t) == <<LChannel(t.c), LRow(t.c, t.u)>>
SettingPlan(t) == <<LChannel(t.c)>>
ChannelNamePlan(t) == <<LOwner(t.c), LChannel(t.c)>>
UserNamePlan(t) == <<LOwner(t.u)>>
PostPlan(t) == <<LState(t.c), LRow(t.c, t.u)>>
ReadPlan(t) == <<LChannel(t.c), LState(t.c)>>
SummaryPlan(t) == <<LState(t.c)>>

Plan(t) ==
  CASE t.op = "create" -> CreatePlan(t)
    [] t.op = "import" -> ImportPlan(t)
    [] t.op = "join" -> JoinPlan(t)
    [] t.op = "add" -> AddPlan(t)
    [] t.op \in {"role", "ban"} -> ChangeMemberPlan(t)
    [] t.op = "leave" -> LeavePlan(t)
    [] t.op \in {"rights", "slow", "pin"} -> SettingPlan(t)
    [] t.op = "cname" -> ChannelNamePlan(t)
    [] t.op = "uname" -> UserNamePlan(t)
    [] t.op = "post" -> PostPlan(t)
    [] t.op \in {"read", "marker"} -> ReadPlan(t)
    [] t.op \in {"unready", "populate"} -> SummaryPlan(t)
    [] t.op = "revoke" -> <<LInvite(t.x)>>
    [] OTHER -> <<>>

---------------------------------------------------------------------------
(* Handlers.  Each gives the store call its request becomes, on what the      *)
(* handler itself reads first, or no call when it refuses the request.        *)

\* checkPostRights
CheckPostRights(c, u) ==
  ActiveMember(c, u) /\ (ChannelMegagroup(c) \/ participants[c][u].role >= RoleAdmin)

Exists(c) == channels[c] # None
Call(r, x, allowed) == IF allowed THEN {[r EXCEPT !.x = x]} ELSE {}

HandleCreateChannel(r) == Call(r, r.x.megagroup, r.x.megagroup # r.x.broadcast)
HandleExportChatInvite(r) == Call(r, None, Exists(r.c) /\ ActiveAdmin(r.c, r.u))
HandleRevokeExportedChatInvite(r) == Call(r, r.x, Exists(r.c) /\ ActiveAdmin(r.c, r.u))
HandleImportChatInvite(r) == Call(r, r.x, TRUE)
HandleJoinChannel(r) == Call(r, None, Exists(r.c))
HandleInviteToChannel(r) == Call(r, r.x, Len(r.x) <= InviteTargets /\ ToSet(r.x) \subseteq Users)
HandleEditAdmin(r) ==
  Call(r, [target |-> r.x.target, role |-> IF r.x.rights = {} THEN RoleMember ELSE RoleAdmin], TRUE)

\* only a whole ban, or none; until is 0 for ever, or a time (1 is now)
HandleEditBanned(r) ==
  LET view == "view_messages" \in r.x.rights IN
  Call(r, [target |-> r.x.target,
           ban |-> IF ~view THEN "none" ELSE IF r.x.until = 0 THEN "forever" ELSE "until"],
       (view \/ r.x.rights = {}) /\ (view => (r.x.until = 0 \/ r.x.until > 1)))

HandleEditChatDefaultBannedRights(r) == Call(r, r.x, TRUE)
SlowModeSecondsValue == {0, 10, 30, 60, 300, 900, 3600}
HandleToggleSlowMode(r) == Call(r, r.x # 0, r.x \in SlowModeSecondsValue)
HandleLeaveChannel(r) == Call(r, None, ActiveMember(r.c, r.u))

\* pinChannelMessage: what is pinned already is answered at once
PinChannelMessage(r) ==
  LET id == IF r.x.unpin THEN 0 ELSE r.x.id IN
  Call(r, id, ActiveAdmin(r.c, r.u) /\ channels[r.c].pinned # id)

HandleEditChannelUsername(r) == Call(r, r.x, ActiveAdmin(r.c, r.u))
HandleUpdateUsername(r) == Call(r, r.x, TRUE)
SendChannelMessage(r) == Call(r, r.x, ~ChannelMessageByRandomID(r.c, r.x.rid))
HandleChannelReadHistory(r) == Call(r, r.x, r.x >= 0)

\* one difference of a channel at a time is what a client asks for
HandleGetChannelDifference(r) ==
  Call(r, None, /\ RequireChannelMember(r.c, r.u)
                /\ \A s \in Slots : Open(s, "diff") => <<tx[s].c, tx[s].u>> # <<r.c, r.u>>)

Handle(r) ==
  CASE r.op = "create" -> HandleCreateChannel(r)
    [] r.op = "export" -> HandleExportChatInvite(r)
    [] r.op = "revoke" -> HandleRevokeExportedChatInvite(r)
    [] r.op = "import" -> HandleImportChatInvite(r)
    [] r.op = "join" -> HandleJoinChannel(r)
    [] r.op = "add" -> HandleInviteToChannel(r)
    [] r.op = "role" -> HandleEditAdmin(r)
    [] r.op = "ban" -> HandleEditBanned(r)
    [] r.op = "rights" -> HandleEditChatDefaultBannedRights(r)
    [] r.op = "slow" -> HandleToggleSlowMode(r)
    [] r.op = "leave" -> HandleLeaveChannel(r)
    [] r.op = "pin" -> PinChannelMessage(r)
    [] r.op = "cname" -> HandleEditChannelUsername(r)
    [] r.op = "uname" -> HandleUpdateUsername(r)
    [] r.op = "post" -> SendChannelMessage(r)
    [] r.op = "read" -> HandleChannelReadHistory(r)
    [] r.op = "diff" -> HandleGetChannelDifference(r)
    [] OTHER -> Call(r, r.x, Exists(r.c))

\* what the store reads before its first lock
Admits(t) ==
  CASE t.op \in {"import", "revoke"} -> invites[t.x] # None /\ invites[t.x].channel = t.c
    [] t.op \in {"role", "ban"} -> t.u # t.x.target /\ IsChannelMember(t.c, t.u)
    [] t.op \in {"add", "rights", "slow", "pin", "read"} -> IsChannelMember(t.c, t.u)
    [] t.op = "cname" -> Exists(t.c)
    [] t.op = "post" -> CheckPostRights(t.c, t.u)
    [] OTHER -> TRUE

---------------------------------------------------------------------------
(* What it checks under a lock, once it has it. *)

HasSeat(c) == CountChannelParticipants(c) < mix.seats
MayJoinMore(u) == CountChannelsForUser(u) < mix.joined
Under(lock, kind, check) == lock[1] = kind => check

CreateChannel(t) == MayJoinMore(t.u)

\* one who is already a participant, banned or not, is answered without a write
JoinChannelByInvite(t, lock) ==
  /\ Under(lock, "invite", ChannelInviteByHash(t.x))
  /\ Under(lock, "state", ~IsChannelMember(t.c, t.u) /\ HasSeat(t.c))
  /\ Under(lock, "advisory", MayJoinMore(t.u))

JoinChannelByUsername(t, lock) ==
  /\ Under(lock, "state", channels[t.c].username # None
                            /\ ~IsChannelMember(t.c, t.u) /\ HasSeat(t.c))
  /\ Under(lock, "advisory", MayJoinMore(t.u))

AddChannelMembers(t, lock) == Under(lock, "channel", ActiveAdmin(t.c, t.u))

\* beginChannelMutation: caller and target are read again under the lock
BeginChannelMutation(t) == ActiveMember(t.c, t.u) /\ IsChannelMember(t.c, t.x.target)

SetChannelRole(t) ==
  /\ BeginChannelMutation(t)
  /\ participants[t.c][t.u].role = RoleCreator
  /\ participants[t.c][t.x.target].role \notin {RoleCreator, t.x.role}

SetChannelBan(t) ==
  /\ BeginChannelMutation(t)
  /\ LET caller == participants[t.c][t.u].role
         target == participants[t.c][t.x.target].role IN
     /\ target # RoleCreator
     /\ caller = RoleCreator \/ (caller = RoleAdmin /\ target = RoleMember)

\* an unchanged setting is answered without a write
SetChannelDefaultBannedRights(t) ==
  ChannelMegagroup(t.c) /\ ActiveAdmin(t.c, t.u) /\ channels[t.c].restricted # t.x

SetChannelSlowMode(t) ==
  ChannelMegagroup(t.c) /\ ActiveAdmin(t.c, t.u) /\ channels[t.c].slow # t.x

\* a banned member's row stays
LeaveChannel(t) == ActiveMember(t.c, t.u)

SetChannelPinnedMessage(t) ==
  ActiveAdmin(t.c, t.u) /\ (t.x = 0 \/ ChannelPostExistsActive(t.c, t.x))

NameOwner(t) == IF t.op = "cname" THEN ChannelOwner(t.c) ELSE UserOwner(t.u)
ClaimIsFree(t, lock) == lock = LHandle(t.x) => ~Occupied(NameOwner(t), t.x)

EditChannelUsername(t, lock) ==
  Under(lock, "channel", ActiveAdmin(t.c, t.u)) /\ ClaimIsFree(t, lock)

\* an account that signs in with its username may not change it
UpdateUsername(t, lock) ==
  Under(lock, "advisory", t.u \notin DOMAIN mix.names) /\ ClaimIsFree(t, lock)

\* checkDefaultMessageRestriction, for the channels it applies to
MayWriteByDefault(c, role) ==
  ChannelPostDefaults(c).mega =>
    (role >= RoleAdmin \/ ~ChannelPostDefaults(c).restricted)

\* a repeated random id is answered with the stored post, without a write
PostChannelMessageAs(t) ==
  LET role == participants[t.c][t.u].role IN
  /\ CheckPostRights(t.c, t.u)
  /\ ~ChannelMessageByRandomID(t.c, t.x.rid)
  /\ MayWriteByDefault(t.c, role)
  /\ ChannelMegagroup(t.c) /\ role = RoleMember => ~ChannelSlowModePostState(t.c, t.u)
  /\ t.x.reply = 0 \/ ChannelPostExistsActive(t.c, t.x.reply)

ReadChannelHistory(t, lock) == Under(lock, "channel", ActiveMember(t.c, t.u))

\* next <= current is answered without a write
AdvanceChannelReadMarker(t, lock) ==
  Under(lock, "state", /\ ActiveMember(t.c, t.u)
                       /\ Min({t.x, TopLocalID(t.c)}) > ChannelReadMarker(t.c, t.u))

Passes(t, lock) ==
  CASE t.op = "create" -> CreateChannel(t)
    [] t.op = "import" -> JoinChannelByInvite(t, lock)
    [] t.op = "join" -> JoinChannelByUsername(t, lock)
    [] t.op = "add" -> AddChannelMembers(t, lock)
    [] t.op = "role" -> Under(lock, "channel", SetChannelRole(t))
    [] t.op = "ban" -> Under(lock, "channel", SetChannelBan(t))
    [] t.op = "rights" -> SetChannelDefaultBannedRights(t)
    [] t.op = "slow" -> SetChannelSlowMode(t)
    [] t.op = "leave" -> Under(lock, "channel", LeaveChannel(t))
    [] t.op = "pin" -> SetChannelPinnedMessage(t)
    [] t.op = "cname" -> EditChannelUsername(t, lock)
    [] t.op = "uname" -> UpdateUsername(t, lock)
    [] t.op = "post" -> Under(lock, "state", PostChannelMessageAs(t))
    [] t.op = "read" -> ReadChannelHistory(t, lock)
    [] t.op = "marker" -> AdvanceChannelReadMarker(t, lock)
    [] OTHER -> TRUE

---------------------------------------------------------------------------
(* What it has read when it holds its last lock, and still uses when it      *)
(* commits.                                                                  *)

\* AddChannelMembers walks the targets in request order with a running count
Admitted(c, targets) ==
  FoldLeft(LAMBDA in, v :
             IF IsChannelMember(c, v) \/ v \in in
                \/ CountChannelParticipants(c) + Cardinality(in) >= mix.seats
                \/ ~MayJoinMore(v)
             THEN in ELSE in \cup {v},
           {}, targets)

Nothing == [in |-> {}, pts |-> 0, top |-> 0, role |-> RoleMember, slow |-> FALSE]

Got(t) ==
  CASE t.op \in {"import", "join"} ->
         [Nothing EXCEPT !.in = {t.u}, !.pts = ChannelPts(t.c), !.top = TopLocalID(t.c)]
    [] t.op = "add" ->
         [Nothing EXCEPT !.in = Admitted(t.c, t.x), !.pts = ChannelPts(t.c),
                         !.top = TopLocalID(t.c)]
    [] t.op \in {"read", "marker"} -> [Nothing EXCEPT !.top = TopLocalID(t.c)]
    [] OTHER -> t.got

\* the row the slow-mode and rights checks saw, read with the state lock
GotUnder(t, lock) ==
  IF t.op = "post" /\ lock[1] = "state"
  THEN [t.got EXCEPT !.role = participants[t.c][t.u].role, !.slow = channels[t.c].slow]
  ELSE IF t.todo = <<lock>> THEN Got(t) ELSE t.got

\* the handles are known, and locked, only after the checks
NextLocks(t, lock) ==
  IF t.op \in {"cname", "uname"} /\ t.todo = <<lock>> /\ lock[1] # "handle"
  THEN LNames(NameOwner(t), t.x)
  ELSE Tail(t.todo)

---------------------------------------------------------------------------
(* The life of a call up to its commit. *)

TxOf(r) == [op |-> r.op, u |-> r.u, c |-> r.c, x |-> r.x, held |-> {},
            todo |-> <<>>, got |-> Nothing]

Begin(s, call) ==
  LET t == TxOf(call) IN
  /\ tx[s] = Idle /\ started < mix.maxOps
  /\ Cardinality({r \in Slots : tx[r] # Idle}) < mix.atOnce
  /\ Admits(t)
  /\ started' = started + 1
  /\ tx' = [tx EXCEPT ![s] = [t EXCEPT !.todo = Plan(t),
              !.got.pts = IF t.op = "diff" THEN participants[t.c][t.u].join ELSE 0,
              !.got.top = IF t.op \in {"diff", "deliver"} THEN -1 ELSE 0]]
  /\ UNCHANGED <<tables, mix, cli, joinPoints>>

\* mutant: LockChannel FOR KEY SHARE, which does not exclude another
FreeOrShared(s, lock) ==
  lock[1] = "channel" \/ \A r \in Slots \ {s} : lock \notin tx[r].held

Free(s, lock) == \A r \in Slots \ {s} : lock \notin tx[r].held

TakeLock(s) ==
  LET t == tx[s]  lock == Head(t.todo) IN
  /\ t.todo # <<>> /\ Free(s, lock) /\ Passes(t, lock)
  /\ tx' = [tx EXCEPT ![s].held = @ \cup {lock},
                      ![s].todo = NextLocks(t, lock),
                      ![s].got = GotUnder(t, lock)]
  /\ UNCHANGED <<tables, mix, started, cli, joinPoints>>

\* an error return, or an answer that writes nothing: the deferred Rollback
Refuse(s) ==
  LET t == tx[s]  lock == Head(t.todo) IN
  /\ t.todo # <<>> /\ Free(s, lock) /\ ~Passes(t, lock)
  /\ tx' = [tx EXCEPT ![s] = Idle]
  /\ UNCHANGED <<tables, mix, started, cli, joinPoints>>

\* a cancelled context, a lost connection, a stopped process or PostgreSQL's
\* choice of a deadlock victim: all roll the transaction back
Abort(s) ==
  /\ tx[s] # Idle
  /\ tx' = [tx EXCEPT ![s] = Idle]
  /\ UNCHANGED <<tables, mix, started, cli, joinPoints>>

Finish(s) == tx' = [tx EXCEPT ![s] = Idle] /\ UNCHANGED <<mix, started>>

---------------------------------------------------------------------------
(* Commits. *)

Admit(c, us, role, pts, top) ==
  /\ participants' = InsertChannelParticipantIfAbsent(c, us, role, pts)
  /\ readState' = InsertChannelReadStateForNewMember(c, us, top)
  /\ joinPoints' = [joinPoints EXCEPT ![c] =
       [u \in Users |-> IF u \in us \ DOMAIN participants[c] THEN @[u] \cup {pts} ELSE @[u]]]

AppendPost(c, post) ==
  /\ posts' = InsertChannelMessage(c, post)
  /\ events' = InsertChannelEvent(c, BumpedLocalID(c))
  /\ summaries' = MaintainSummaries(c, BumpedLocalID(c), post)

\* CreateChannelWithServiceMessage; insertChannel retries a drawn id in use
CommitCreate(s) ==
  LET t == tx[s] IN
  /\ Ready(s, "create")
  /\ \E c \in Channels :
       /\ c >= MinChannelID /\ ~Exists(c)
       /\ channels' = InsertChannel(c, t.u, t.x)
       /\ Admit(c, {t.u}, RoleCreator, 0, 0)
       /\ AppendPost(c, Post(t.u, 0, 0, 1))
  /\ Finish(s)
  /\ UNCHANGED <<postMarkers, invites, usernames, userNames, nameChanges, ready, cli>>

\* handleExportChatInvite has checked the caller; CreateChannelInvite is one insert
CommitExport(s) ==
  LET t == tx[s] IN
  /\ Ready(s, "export")
  /\ \E i \in Invites : invites[i] = None /\ invites' = InsertChannelInvite(i, t.c, t.u)
  /\ Finish(s)
  /\ UNCHANGED <<channels, participants, readState, postMarkers, usernames, userNames,
                 nameChanges, posts, events, summaries, ready, cli, joinPoints>>

CommitRevoke(s) ==
  LET t == tx[s] IN
  /\ Ready(s, "revoke")
  /\ invites' = RevokeChannelInvite(t.x)
  /\ Finish(s)
  /\ UNCHANGED <<channels, participants, readState, postMarkers, usernames, userNames,
                 nameChanges, posts, events, summaries, ready, cli, joinPoints>>

CommitAdmission(s, op) ==
  LET t == tx[s] IN
  /\ Ready(s, op)
  /\ Admit(t.c, t.got.in, RoleMember, t.got.pts, t.got.top)
  /\ Finish(s)
  /\ UNCHANGED <<channels, postMarkers, invites, usernames, userNames, nameChanges,
                 posts, events, summaries, ready, cli>>

CommitImport(s) == CommitAdmission(s, "import")
CommitJoin(s) == CommitAdmission(s, "join")
CommitAdd(s) == CommitAdmission(s, "add")

ChangeMember(s, op, rows) ==
  /\ Ready(s, op)
  /\ participants' = rows
  /\ Finish(s)
  /\ UNCHANGED <<channels, readState, postMarkers, invites, usernames, userNames,
                 nameChanges, posts, events, summaries, ready, cli, joinPoints>>

CommitRole(s) ==
  LET t == tx[s] IN
  ChangeMember(s, "role", UpdateChannelParticipantRole(t.c, t.x.target, t.x.role))

CommitBan(s) ==
  LET t == tx[s] IN
  ChangeMember(s, "ban", UpdateChannelParticipantBan(t.c, t.x.target, t.x.ban))

CommitLeave(s) ==
  LET t == tx[s] IN
  /\ Ready(s, "leave")
  /\ DeleteChannelParticipant(t.c, t.u)
  /\ Finish(s)
  /\ UNCHANGED <<channels, postMarkers, invites, usernames, userNames, nameChanges,
                 posts, events, summaries, ready, cli, joinPoints>>

ChangeSetting(s, op, rows) ==
  /\ Ready(s, op)
  /\ channels' = rows
  /\ Finish(s)
  /\ UNCHANGED <<participants, readState, postMarkers, invites, usernames, userNames,
                 nameChanges, posts, events, summaries, ready, cli, joinPoints>>

CommitRights(s) == ChangeSetting(s, "rights", SetDefaultBannedRights(tx[s].c, tx[s].x))
CommitSlow(s) == ChangeSetting(s, "slow", SetSlowMode(tx[s].c, tx[s].x))
CommitPin(s) == ChangeSetting(s, "pin", SetPinnedMessage(tx[s].c, tx[s].x))

\* the change is recorded and counted before the commit
CountChanges(o) == nameChanges[o] + 1

ChangeName(s, op) ==
  LET o == NameOwner(tx[s]) IN
  /\ Ready(s, op)
  /\ CountChanges(o) <= ChangeLimit
  /\ nameChanges' = [nameChanges EXCEPT ![o] = CountChanges(o)]
  /\ usernames' = ClaimUsername(o, tx[s].x)
  /\ Finish(s)
  /\ UNCHANGED <<participants, readState, postMarkers, invites, posts, events,
                 summaries, ready, cli, joinPoints>>

CommitChannelName(s) ==
  /\ ChangeName(s, "cname")
  /\ channels' = SetChannelUsername(tx[s].c, tx[s].x, usernames')
  /\ UNCHANGED userNames

CommitUserName(s) ==
  /\ ChangeName(s, "uname")
  /\ userNames' = [userNames EXCEPT ![tx[s].u] = tx[s].x]
  /\ UNCHANGED channels

\* ErrUsernameFloodWait: the claim is rolled back with the change row
NameFloodWait(s) ==
  /\ Ready(s, "cname") \/ Ready(s, "uname")
  /\ CountChanges(NameOwner(tx[s])) > ChangeLimit
  /\ Finish(s)
  /\ UNCHANGED <<tables, cli, joinPoints>>

CommitPost(s) ==
  LET t == tx[s] IN
  /\ Ready(s, "post") /\ IsChannelMember(t.c, t.u)
  /\ AppendPost(t.c, Post(t.u, t.x.rid, t.x.reply, 0))
  /\ UpdateChannelPostMarker(t.c, t.u)
  /\ Finish(s)
  /\ UNCHANGED <<channels, readState, invites, usernames, userNames, nameChanges,
                 ready, cli, joinPoints>>

\* UpdateChannelPostMarker found no row: the author left after the check
PostOrphaned(s) ==
  /\ Ready(s, "post") /\ ~IsChannelMember(tx[s].c, tx[s].u)
  /\ Finish(s)
  /\ UNCHANGED <<tables, cli, joinPoints>>

\* both calls clamp what they are asked for to the newest post
CommitMarker(s, op, entitled) ==
  LET t == tx[s]  id == Min({t.x, t.got.top}) IN
  /\ Ready(s, op)
  /\ readState' = IF id > 0 /\ entitled THEN AdvanceChannelReadState(t.c, t.u, id) ELSE readState
  /\ Finish(s)
  /\ UNCHANGED <<channels, participants, postMarkers, invites, usernames, userNames,
                 nameChanges, posts, events, summaries, ready, cli, joinPoints>>

CommitReadHistory(s) == CommitMarker(s, "read", TRUE)
CommitReadMarker(s) == CommitMarker(s, "marker", ActiveMember(tx[s].c, tx[s].u))

\* InitializeChannelPostSummaries, first transaction; the second follows
CommitUnready(s) ==
  LET t == tx[s] IN
  /\ Ready(s, "unready")
  /\ ready' = [ready EXCEPT ![t.c] = FALSE]
  /\ tx' = [tx EXCEPT ![s] = [t EXCEPT !.op = "populate", !.held = {},
                                       !.todo = SummaryPlan(t)]]
  /\ UNCHANGED <<channels, participants, readState, postMarkers, invites, usernames,
                 userNames, nameChanges, posts, events, summaries, cli, joinPoints,
                 mix, started>>

CommitPopulate(s) ==
  LET t == tx[s] IN
  /\ Ready(s, "populate")
  /\ summaries' = InitializeSummaries(t.c)
  /\ ready' = [ready EXCEPT ![t.c] = TRUE]
  /\ Finish(s)
  /\ UNCHANGED <<channels, participants, readState, postMarkers, invites, usernames,
                 userNames, nameChanges, posts, events, cli, joinPoints>>

---------------------------------------------------------------------------
(* updates.getChannelDifference: the member row, the state and the events    *)
(* are three reads with no transaction around them.                          *)

ReadDiffState(s) ==
  LET t == tx[s] IN
  /\ Ready(s, "diff") /\ t.got.top = -1
  /\ tx' = [tx EXCEPT ![s].got.top = ChannelPts(t.c)]
  /\ UNCHANGED <<tables, mix, started, cli, joinPoints>>

\* mutant: a page cut at the limit still answers the channel's pts
BuildKeepingPts(c, from, cur) ==
  LET n == Min({DiffLimit, Len(ChannelEventsWindow(c, from, cur, DiffLimit + 1))}) IN
  [shown |-> (from + 1) .. (from + n), pts |-> cur]

\* buildChannelUpdates: one event more than the limit tells whether there is
\* more, and then the answer's pts is that of the last event shown
BuildChannelUpdates(c, from, cur) ==
  LET window == ChannelEventsWindow(c, from, cur, DiffLimit + 1)
      more == Len(window) > DiffLimit
      n == IF more THEN DiffLimit ELSE Len(window) IN
  [shown |-> (from + 1) .. (from + n), pts |-> IF more THEN from + n ELSE cur]

CommitDiff(s) ==
  LET t == tx[s]
      from == Max({cli[t.c][t.u].pts, t.got.pts})
      b == IF from >= t.got.top THEN [shown |-> {}, pts |-> t.got.top]
           ELSE BuildChannelUpdates(t.c, from, t.got.top) IN
  /\ Ready(s, "diff") /\ t.got.top # -1
  /\ cli' = [cli EXCEPT ![t.c][t.u] = [pts |-> b.pts, seen |-> @.seen \cup b.shown]]
  /\ Finish(s)
  /\ UNCHANGED <<tables, joinPoints>>

---------------------------------------------------------------------------
(* DeliverChannelPost: one statement reads the members with the channel's    *)
(* pts; whoever is connected is pushed the event at that pts.                *)

DeliverSnapshot(s) ==
  LET t == tx[s] IN
  /\ Ready(s, "deliver") /\ t.got.top = -1
  /\ tx' = [tx EXCEPT ![s].got = [@ EXCEPT !.top = ChannelPts(t.c),
              !.in = {u \in Users : ActiveMember(t.c, u) /\ participants[t.c][u].join < ChannelPts(t.c)}]]
  /\ UNCHANGED <<tables, mix, started, cli, joinPoints>>

\* a client applies a push that continues its pts, unless it is catching up
Applies(c, u, pts) ==
  /\ cli[c][u].pts = pts - 1
  /\ \A r \in Slots : Open(r, "diff") => <<tx[r].c, tx[r].u>> # <<c, u>>

PushPost(s) ==
  LET t == tx[s]
      b == BuildChannelUpdates(t.c, t.got.top - 1, t.got.top) IN
  /\ Ready(s, "deliver") /\ t.got.top # -1
  /\ \E connected \in SUBSET t.got.in :
       cli' = [cli EXCEPT ![t.c] = [u \in Users |->
                 IF u \in connected /\ Applies(t.c, u, t.got.top)
                 THEN [pts |-> b.pts, seen |-> @[u].seen \cup b.shown] ELSE @[u]]]
  /\ Finish(s)
  /\ UNCHANGED <<tables, joinPoints>>

---------------------------------------------------------------------------
(* Time; mix.clock names what may run out in a scenario. *)

BanExpires(c, u) ==
  /\ "ban" \in mix.clock
  /\ IsChannelMember(c, u) /\ participants[c][u].ban = "until"
  /\ participants' = [participants EXCEPT ![c][u].ban = "none"]
  /\ UNCHANGED <<channels, readState, postMarkers, invites, usernames, userNames,
                 nameChanges, posts, events, summaries, ready, mix, started, tx, cli, joinPoints>>

\* the slow-mode period after the user's last post ends
PeriodEnds(c, u) ==
  /\ "period" \in mix.clock
  /\ u \in postMarkers[c]
  /\ postMarkers' = [postMarkers EXCEPT ![c] = @ \ {u}]
  /\ participants' = IF IsChannelMember(c, u)
                     THEN [participants EXCEPT ![c][u].recent = FALSE] ELSE participants
  /\ UNCHANGED <<channels, readState, invites, usernames, userNames, nameChanges,
                 posts, events, summaries, ready, mix, started, tx, cli, joinPoints>>

\* a username change becomes older than the window
ChangeAges(o) ==
  /\ "change" \in mix.clock
  /\ nameChanges[o] > 0
  /\ nameChanges' = [nameChanges EXCEPT ![o] = @ - 1]
  /\ UNCHANGED <<channels, participants, readState, postMarkers, invites, usernames,
                 userNames, posts, events, summaries, ready, mix, started, tx, cli, joinPoints>>

---------------------------------------------------------------------------
Zeroes == [s \in Scopes |-> [n \in Nodes |-> 0]]

\* a channel that exists at the start, with the posts its creation and its
\* members made; one older than the summaries is not ready
StartRow(d) == [ChannelRow(d.creator, d.mega) EXCEPT
                  !.slow = d.slow, !.username = d.username,
                  !.discoverable = (d.username # None)]
StartPosts(d) == <<Post(d.creator, 0, 0, 1)>> \o d.posts
StartMember(r) == [ParticipantRow(r, 0) EXCEPT !.join = IF r = RoleCreator THEN 0 ELSE 1]

\* users that sign in with a username have theirs from the start
StartName(o) ==
  CASE o[1] = "channel" /\ o[2] \in DOMAIN mix.start -> mix.start[o[2]].username
    [] o[1] = "user" /\ o[2] \in DOMAIN mix.names -> mix.names[o[2]]
    [] OTHER -> None

Init ==
  /\ mix \in Mixes
  /\ channels = [c \in Channels |->
                   IF c \in DOMAIN mix.start THEN StartRow(mix.start[c]) ELSE None]
  /\ participants = [c \in Channels |->
       IF c \in DOMAIN mix.start
       THEN LET roles == mix.start[c].roles IN [u \in DOMAIN roles |-> StartMember(roles[u])]
       ELSE <<>>]
  /\ readState = [c \in Channels |->
                    [u \in DOMAIN participants[c] |-> participants[c][u].join]]
  /\ postMarkers = [c \in Channels |-> {}]
  /\ invites = [i \in Invites |->
       IF i \in DOMAIN mix.invites
       THEN [channel |-> mix.invites[i], creator |-> channels[mix.invites[i]].creator,
             revoked |-> FALSE]
       ELSE None]
  /\ userNames = [u \in Users |-> IF u \in DOMAIN mix.names THEN mix.names[u] ELSE None]
  /\ usernames = [h \in Handles |->
       IF \E o \in Owners : StartName(o) = h
       THEN CHOOSE o \in Owners : StartName(o) = h ELSE None]
  /\ nameChanges = [o \in Owners |-> 0]
  /\ posts = [c \in Channels |->
                IF c \in DOMAIN mix.start THEN StartPosts(mix.start[c]) ELSE <<>>]
  /\ events = [c \in Channels |-> [i \in DOMAIN posts[c] |-> i]]
  /\ ready = [c \in Channels |-> c \notin DOMAIN mix.start \/ mix.start[c].posts = <<>>]
  /\ summaries = [c \in Channels |-> Zeroes]
  /\ started = 0
  /\ tx = [s \in Slots |-> Idle]
  /\ cli = [c \in Channels |-> [u \in Users |-> [pts |-> 0, seen |-> {}]]]
  /\ joinPoints = [c \in Channels |->
       [u \in Users |-> IF u \in DOMAIN participants[c] THEN {participants[c][u].join} ELSE {}]]

Commit(s) ==
  \/ CommitCreate(s) \/ CommitExport(s) \/ CommitRevoke(s)
  \/ CommitImport(s) \/ CommitJoin(s) \/ CommitAdd(s)
  \/ CommitRole(s) \/ CommitBan(s) \/ CommitLeave(s)
  \/ CommitRights(s) \/ CommitSlow(s) \/ CommitPin(s)
  \/ CommitChannelName(s) \/ CommitUserName(s) \/ NameFloodWait(s)
  \/ CommitPost(s) \/ PostOrphaned(s)
  \/ CommitReadHistory(s) \/ CommitReadMarker(s) \/ CommitUnready(s) \/ CommitPopulate(s)
  \/ ReadDiffState(s) \/ CommitDiff(s) \/ DeliverSnapshot(s) \/ PushPost(s)

Next ==
  \/ \E s \in Slots : \E r \in mix.reqs : \E call \in Handle(r) : Begin(s, call)
  \/ \E s \in Slots : TakeLock(s) \/ Refuse(s) \/ Abort(s) \/ Commit(s)
  \/ \E c \in Channels, u \in Users : BanExpires(c, u) \/ PeriodEnds(c, u)
  \/ \E o \in Owners : ChangeAges(o)

Spec == Init /\ [][Next]_vars

---------------------------------------------------------------------------
(* Properties. *)

\* The two caps hold through every interleaving of creations, invites, public
\* joins and additions: no channel has more participants than
\* maxChannelParticipants and nobody, banned rows included, is in more channels
\* than maxChannelsPerUser (JoinChannelByInvite, AddChannelMembers).
CapsHold ==
  /\ \A c \in Channels : CountChannelParticipants(c) <= mix.seats
  /\ \A u \in Users : CountChannelsForUser(u) <= mix.joined

\* The dyadic summaries tell every reader, at every marker, the number of live
\* posts of others above it, whatever mix of posts and re-initialisations has
\* run; the dialog list and the full info report that number for the stored
\* marker, and no marker is above the newest post.
UnreadAgrees ==
  \A c \in Channels : Exists(c) =>
    /\ \A u \in DOMAIN readState[c] : readState[c][u] <= TopLocalID(c)
    /\ ready[c] => \A u \in Users : ActiveMember(c, u) =>
         LET Unread(m) == Cardinality({id \in DOMAIN posts[c] :
                            id > m /\ posts[c][id].action = 0 /\ posts[c][id].from # u})
             full == ChannelFullInfoForViewer(c, u)
             dialogs == ChannelDialogsForUser(u) IN
         /\ \A m \in 0 .. TopLocalID(c) : ChannelPostUnreadCount(c, u, m) = Unread(m)
         /\ full # None /\ full.unread = Unread(full.read)
         /\ dialogs # None => dialogs[c].unread = Unread(dialogs[c].read)

\* usernames, channels.username, users.username and publicly_discoverable name
\* the same owner after any race of edits, and so do resolution, the list of
\* administered channels and public search; nobody exceeds the daily limit.
NamesAgree ==
  /\ \A h \in Handles, o \in Owners :
       (o[1] = "user" \/ Exists(o[2])) => (usernames[h] = o <=> NameOf(o) = h)
  /\ \A o \in Owners : nameChanges[o] <= ChangeLimit
  /\ \A c \in Channels : Exists(c) =>
       /\ channels[c].discoverable <=> channels[c].username # None
       /\ c \in DOMAIN SearchPublicChannels(Channels, None) <=> channels[c].discoverable
       /\ \A h \in Handles : usernames[h] = ChannelOwner(c) =>
            HandleResolveUsername(h).username = h

\* What user u is shown of channel c, by each call that shows it, and what
\* anybody finds who looks for it.  The list of dialogs is taken row by row:
\* as a whole it fails when one channel's summaries are being built.
View(c, u) ==
  <<HandleGetFullChannel(c, u), HandleGetChannels(u, {c}), ChannelMembershipsOf(u, {c}),
    c \in MemberChannelIDs(u), IF ActiveMember(c, u) THEN ChannelDialogsQuery(u)[c] ELSE None,
    [f \in Filters |-> HandleGetParticipants(c, u, f, Users)],
    [v \in Users |-> HandleGetParticipant(c, u, v)],
    HandleGetChannelMessages(c, u, 1 .. TopLocalID(c)), HandleExportMessageLink(c, u, 1),
    SearchFilteredChannelPosts(c, u, "document", 1 .. TopLocalID(c)), SearchPinnedChannelPost(c, u),
    c \in DOMAIN HandleGetAdminedPublicChannels(u), SearchMemberChannels(u, {c}, None),
    [i \in ChannelActiveInvite(c) |-> HandleCheckChatInvite(i, u)]>>

FoundAs(c) ==
  <<{h \in Handles : GetUsernameByHandle(h) = ChannelOwner(c)},
    [h \in Handles |-> c \in DOMAIN SearchPublicChannels({c}, h)]>>

\* A call about one channel changes nothing that anybody is shown of another,
\* and a user's change of name nothing of any channel, also when the user's id
\* is a channel's too: handles move between owners of both kinds under the
\* primary key of usernames, and each read path joins that table its own way
\* (EditChannelUsername, UpdateUsername, adminedPublicChannels, searchPublic).
ViewsAreSeparate ==
  [][tables' # tables =>
       \A s \in Slots : tx'[s] # tx[s] =>
         \A c \in Channels : Exists(c) /\ (tx[s].op = "uname" \/ tx[s].c # c) =>
           /\ FoundAs(c)' = FoundAs(c)
           /\ \A u \in Users : View(c, u)' = View(c, u)]_vars

WaitsFor(s, r) == s # r /\ tx[s].todo # <<>> /\ Head(tx[s].todo) \in tx[r].held

\* EditChannelUsername locks its channel's id in the numbering of the users
\* before it locks the channel; only a channel older than the drawn ids can
\* have an id that is a user's.
LocksUserByChannelID(s) == Open(s, "cname") /\ tx[s].c < MinChannelID

\* Transactions wait for each other in a circle in two cases only: owners swap
\* usernames, each holding the handle another claims; or a channel with an id
\* from the old sequence is renamed while the user of that id is admitted to
\* it.  The lock order of every other set of calls excludes it.
OnlyNamesDeadlock ==
  \A ring \in SUBSET Slots \ {{}} :
    (/\ \A s \in ring : \E r \in ring : WaitsFor(s, r)
     /\ \A r \in ring : \E s \in ring : WaitsFor(s, r))
    => \/ \A s \in ring : Head(tx[s].todo)[1] = "handle"
       \/ \E s, r \in ring : /\ LocksUserByChannelID(s)
                             /\ tx[r].op \in {"add", "import", "join"}
                             /\ Head(tx[r].todo) = LOwner(tx[s].c)

Acts(s, op) == Ready(s, op) /\ tables' # tables /\ tx'[s] = Idle

\* A role, a ban, an addition, a right, slow mode, a pin or a channel name is
\* changed only by a caller who still holds the office it needs when it
\* commits, and never of or by the wrong rank: the channel lock is held from
\* the check on, and every demotion, ban and departure takes it.
AdminsActInOffice ==
  [][\A s \in Slots :
       LET t == tx[s] IN
       /\ Acts(s, "add") \/ Acts(s, "rights") \/ Acts(s, "slow") \/ Acts(s, "pin")
            \/ Acts(s, "cname") => ActiveAdmin(t.c, t.u)
       /\ Acts(s, "role") => SetChannelRole(t)
       /\ Acts(s, "ban") => SetChannelBan(t)]_vars

\* A post lands only while its author has a row, once for each random id, and
\* a plain member under slow mode never lands two within the period, not by
\* two concurrent sends and not by leaving and joining again.
PostsAreOrderly ==
  [][\A s \in Slots :
       LET t == tx[s] IN
       Acts(s, "post") =>
         /\ IsChannelMember(t.c, t.u)
         /\ ~ChannelMessageByRandomID(t.c, t.x.rid)
         /\ t.got.slow /\ t.got.role = RoleMember /\ channels[t.c].mega => t.u \notin postMarkers[t.c]
    ]_vars

\* What a reader can observe of the tables.
Log == INSTANCE ChannelLog WITH
         Readers <- Users, Logs <- Channels, Ids <- RandomIDs,
         log <- [c \in Channels |-> [i \in DOMAIN posts[c] |-> posts[c][i].rid]],
         entry <- joinPoints, cursor <- cli

\* The channel as its readers see it: an append-only log without repeated
\* random ids, in which a member admitted while posts are being made is let in
\* exactly at the end of the log and getChannelDifference, reading member,
\* state and events separately and in pages, never skips an event.
ReadersMissNothing == Log!Spec
=============================================================================
