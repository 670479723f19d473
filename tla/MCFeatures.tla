----------------------------- MODULE MCFeatures -----------------------------
(***************************************************************************)
(* Seven parts of the server that share no table and no variable here:     *)
(* files, secret chats, connections, read markers, folders, polls with     *)
(* reactions, and the roles of a chat.  A behaviour belongs to one of      *)
(* them, chosen by its initial state, so that one run explores the sum of  *)
(* their state spaces and not the product.                                 *)
(***************************************************************************)
EXTENDS Media, SecretChats, Connections, ReadMarkers, FolderSync, Polls, ChatAdmins

CONSTANTS x1, x2, x3

VARIABLE part

featureVars == <<part, mediaVars, secretVars, connectionVars, readVars, folderVars, syncVars, pollVars, roleVars>>

-----------------------------------------------------------------------------
(* Files: two saves of one part; a save, of the same size or another,      *)
(* against an assembly; forwards, deletes and a download of a sent file;   *)
(* two sends of one upload, within the quota and over it; a send and its   *)
(* delete; a second part, which fits or does not.                          *)

AllPasses == PartSweepers \cup Reclaimers \cup Erasers

MediaTasks == [save |-> 0, send |-> 0, forward |-> 0, delete |-> 0, download |-> 0,
               fault |-> 1, parts |-> {0}, sizes |-> {1}, passes |-> AllPasses]

MediaScene(tasks0, part0, file0) == [tasks |-> tasks0, part |-> part0, file |-> file0]

MediaScenes ==
    {MediaScene([MediaTasks EXCEPT !.save = 2, !.fault = 0], 0, FALSE),
     MediaScene([MediaTasks EXCEPT !.save = 1, !.send = 1, !.fault = 0, !.sizes = {1, 2}, !.passes = PartSweepers], 1, FALSE),
     MediaScene([MediaTasks EXCEPT !.forward = 1, !.delete = 2, !.download = 1], 0, TRUE),
     MediaScene([MediaTasks EXCEPT !.send = 2, !.fault = 0, !.passes = {}], 1, FALSE),
     MediaScene([MediaTasks EXCEPT !.send = 2, !.fault = 0, !.passes = {}], 2, FALSE),
     MediaScene([MediaTasks EXCEPT !.send = 1, !.delete = 1], 1, FALSE),
     MediaScene([MediaTasks EXCEPT !.save = 1, !.parts = {0, 1}, !.sizes = {1, 2}], 1, FALSE)}

NoMedia == {MediaScene([MediaTasks EXCEPT !.fault = 0, !.passes = {}], 0, FALSE)}

-----------------------------------------------------------------------------
(* Secret chats: two requests with one random id crossing two accepts and  *)
(* a discard; two requests at the cap; sends with one random id crossing a *)
(* discard; a queue that is read, acknowledged and told of unreliably.     *)

SecretTasks(r, a, d, s, g, q, l, rids0, senders0) ==
    [request |-> r, accept |-> a, discard |-> d, send |-> s, difference |-> g, received |-> q,
     lose |-> l, rids |-> rids0, senders |-> senders0]

ActiveChat == 1 :> [admin |-> "a", participant |-> "b", state |-> "active", key |-> "k", rid |-> "m0"]

SecretScene(tasks0, chats0) == [tasks |-> tasks0, chats |-> chats0]

SecretScenes ==
    {SecretScene(SecretTasks(2, 2, 1, 0, 0, 0, 0, {"m1"}, {"a"}), << >>),
     SecretScene(SecretTasks(2, 1, 1, 0, 0, 0, 0, {"m1", "m2"}, {"a"}), << >>),
     SecretScene(SecretTasks(0, 0, 1, 3, 0, 1, 0, {"m1"}, {"a"}), ActiveChat),
     SecretScene(SecretTasks(0, 0, 0, 2, 1, 1, 1, {"m1", "m2"}, {"a"}), ActiveChat)}

NoSecret == {SecretScene(SecretTasks(0, 0, 0, 0, 0, 0, 0, {}, {}), << >>)}

-----------------------------------------------------------------------------
(* Read markers: a dialog read by both sides; one with a deletion; a chat  *)
(* that is joined and left; a chat of three with two sends and two reads.  *)

MarkerTasks(s, r, cs, cr, a, rm, d, ids0, writers0, readers0) ==
    [send |-> s, read |-> r, chatSend |-> cs, chatRead |-> cr, add |-> a, remove |-> rm, delete |-> d,
     ids |-> ids0, writers |-> writers0, readers |-> readers0]

MarkerScene(members0, tasks0) == [members |-> members0, tasks |-> tasks0]

MarkerScenes ==
    {MarkerScene({"a"}, MarkerTasks(3, 2, 0, 0, 0, 0, 0, {0, 2, 3}, {"a", "b"}, {"a", "b"})),
     MarkerScene({"a"}, MarkerTasks(3, 2, 0, 0, 0, 0, 1, {1, 3}, {"a", "b"}, {"b"})),
     MarkerScene({"a", "b"}, MarkerTasks(1, 0, 1, 1, 1, 1, 0, {2, 5}, {"a", "b"}, {"b"})),
     MarkerScene({"a", "b", "c"}, MarkerTasks(1, 0, 2, 2, 0, 0, 1, {3}, {"a"}, {"c", "b"}))}

NoMarkers == {MarkerScene({"a"}, MarkerTasks(0, 0, 0, 0, 0, 0, 0, {}, {}, {}))}

-----------------------------------------------------------------------------
(* Folders: a new socket that changes its session; two changes around a    *)
(* fetch; the mutations themselves; a requester and a listener that        *)
(* reconnects; two connections, one slot and a close; three attempts; a    *)
(* close during the scan of three connections after a reconnect.           *)

FolderScene(sockets0, known0, f, d, m, r, c, l, n, kinds0, ids0, sessions0) ==
    [sockets |-> sockets0, known |-> known0,
     tasks |-> [fetch |-> f, difference |-> d, mutate |-> m, remote |-> r, close |-> c, lose |-> l,
                claims |-> n, kinds |-> kinds0, ids |-> ids0, sessions |-> sessions0]]

FolderScenes ==
    {FolderScene({x1}, << >>, 1, 1, 0, 1, 0, 0, 1, {"save"}, {2}, {0, 1}),
     FolderScene({}, <<x1>>, 1, 0, 0, 2, 0, 0, 1, {"save"}, {2}, {0}),
     FolderScene({x1}, << >>, 1, 0, 0, 2, 0, 0, 0, {"save", "delete", "order"}, {2}, {0}),
     FolderScene({}, <<x1>>, 0, 1, 1, 0, 0, 1, 1, {"save"}, {2}, {0}),
     FolderScene({}, <<x1, x2>>, 0, 0, 0, 1, 1, 0, 1, {"save"}, {2}, {0}),
     FolderScene({}, <<x1>>, 0, 1, 0, 1, 0, 0, 3, {"save"}, {2}, {0}),
     FolderScene({}, <<x1, x2, x3>>, 0, 0, 0, 0, 1, 1, 1, {"save"}, {2}, {0})}

NoFolders == {FolderScene({}, << >>, 0, 0, 0, 0, 0, 0, 0, {}, {}, {})}

TitlesOfDefaults == <<"Work">>

-----------------------------------------------------------------------------
(* Polls: two creates of one poll around a removal and a restriction; two  *)
(* votes around a close and a reading of a quiz; deletes of the last       *)
(* copies of two polls; a revoke past a member who left; votes of several  *)
(* choices; a voter who leaves; a poll among one's own messages.           *)
(* Reactions: in a chat that is left and joined, and in a private dialog.  *)

PollCopies == (1 :> {1, 2, 3}) @@ (2 :> {1, 2}) @@ (3 :> {1, 2}) @@ (4 :> {2})

PollScene(polls0, cr, v, cl, re, d, rv, s, m, r, users0, of0, leavers0) ==
    [polls |-> polls0,
     tasks |-> [create |-> cr, vote |-> v, close |-> cl, react |-> re, delete |-> d, revoke |-> rv, see |-> s,
                member |-> m, restrict |-> r, users |-> users0, of |-> of0, leavers |-> leavers0]]

PollScenes ==
    {PollScene({}, 2, 0, 0, 0, 1, 0, 0, 1, 1, {2}, {1}, {2}),
     PollScene({1}, 0, 2, 1, 0, 0, 0, 1, 0, 0, {2}, {1}, {}),
     PollScene({1, 2}, 0, 0, 0, 0, 2, 0, 0, 0, 0, {1, 2}, {1, 2}, {}),
     PollScene({2}, 0, 0, 0, 0, 1, 1, 0, 1, 0, {1, 2}, {2}, {2}),
     PollScene({2}, 0, 2, 1, 0, 1, 0, 0, 0, 0, {2}, {2}, {}),
     PollScene({1}, 0, 2, 0, 0, 0, 0, 0, 2, 0, {3}, {1}, {3}),
     PollScene({}, 1, 2, 0, 0, 1, 0, 0, 0, 0, {2}, {4}, {}),
     PollScene({}, 0, 0, 0, 2, 1, 0, 0, 2, 0, {1, 3}, {1}, {3}),
     PollScene({}, 0, 0, 0, 2, 0, 1, 0, 0, 0, {1, 2}, {3}, {})}

NoPolls == {PollScene({}, 0, 0, 0, 0, 0, 0, 0, 0, 0, {}, {}, {})}

-----------------------------------------------------------------------------
(* Roles: two changes while a device asks, with a fault; a member who      *)
(* leaves or joins around a change; two targets and two devices.           *)

RoleDevices == {<<2, 1>>, <<2, 2>>}

RoleScene(members0, c, m, d, f) ==
    [members |-> members0, tasks |-> [change |-> c, move |-> m, difference |-> d, fault |-> f]]

RoleScenes ==
    {RoleScene({1, 2}, 2, 0, 2, 1),
     RoleScene({1, 2, 3}, 2, 2, 1, 0),
     RoleScene({1, 2, 3}, 2, 0, 2, 0)}

NoRoles == {RoleScene({1}, 0, 0, 0, 0)}

-----------------------------------------------------------------------------
FeaturesInit ==
    /\ part \in {"media", "secret", "connections", "markers", "folders", "polls", "roles"}
    /\ MediaInit(IF part = "media" THEN MediaScenes ELSE NoMedia)
    /\ SecretInit(IF part = "secret" THEN SecretScenes ELSE NoSecret)
    /\ ConnectionInit
    /\ MarkersInit(IF part = "markers" THEN MarkerScenes ELSE NoMarkers)
    /\ FolderSyncInit(IF part = "folders" THEN FolderScenes ELSE NoFolders)
    /\ PollInit(IF part = "polls" THEN PollScenes ELSE NoPolls)
    /\ RolesInit(IF part = "roles" THEN RoleScenes ELSE NoRoles)

FeaturesNext ==
    \/ /\ part = "media" /\ MediaNext
       /\ UNCHANGED <<part, secretVars, connectionVars, readVars, folderVars, syncVars, pollVars, roleVars>>
    \/ /\ part = "secret" /\ SecretNext
       /\ UNCHANGED <<part, mediaVars, connectionVars, readVars, folderVars, syncVars, pollVars, roleVars>>
    \/ /\ part = "connections" /\ ConnectionNext
       /\ UNCHANGED <<part, mediaVars, secretVars, readVars, folderVars, syncVars, pollVars, roleVars>>
    \/ /\ part = "markers" /\ MarkersNext
       /\ UNCHANGED <<part, mediaVars, secretVars, connectionVars, folderVars, syncVars, pollVars, roleVars>>
    \/ /\ part = "folders" /\ FolderSyncNext
       /\ UNCHANGED <<part, mediaVars, secretVars, connectionVars, readVars, pollVars, roleVars>>
    \/ /\ part = "polls" /\ PollNext
       /\ UNCHANGED <<part, mediaVars, secretVars, connectionVars, readVars, folderVars, syncVars, roleVars>>
    \/ /\ part = "roles" /\ RolesNext
       /\ UNCHANGED <<part, mediaVars, secretVars, connectionVars, readVars, folderVars, syncVars, pollVars>>

\* The sweeps of files are started by tickers and timers for as long as the
\* server runs, a call that was begun goes on unless its process dies, and
\* time passes.
MediaFairness ==
    /\ \A p \in Workers : WF_mediaVars(part = "media" /\ (MediaStep(p) \/ MediaSweep(p)))
    /\ WF_mediaVars(part = "media" /\ TimePasses)

FeaturesSpec == FeaturesInit /\ [][FeaturesNext]_featureVars /\ MediaFairness
=============================================================================
