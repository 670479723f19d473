------------------------------ MODULE MCChannels ------------------------------
(* Scenarios of Channels for TLC.  Each mix starts from its own tables and    *)
(* lets two transactions at a time (three in the last mix), maxOps in         *)
(* all, run any of its requests; the state space is the sum of the mixes.     *)
EXTENDS Channels

MCUsers == 1 .. 3
\* 3 is the id of a channel from before the drawn ids, and of a user
MCChannels == {3, 101, 102}

Req(op, u, c, x) == [op |-> op, u |-> u, c |-> c, x |-> x]
PostReq(u, c, rid, reply) == Req("post", u, c, [rid |-> rid, reply |-> reply])
RoleReq(u, c, v, rights) == Req("role", u, c, [target |-> v, rights |-> rights])
BanReq(u, c, v, rights, until) ==
  Req("ban", u, c, [target |-> v, rights |-> rights, until |-> until])
PinReq(u, c, id) == Req("pin", u, c, [id |-> id, unpin |-> id = 0])
CreateReq(u, mega) == Req("create", u, None, [megagroup |-> mega, broadcast |-> ~mega])
All == {"view_messages"}

Chan(creator, mega, roles, username, old) ==
  [creator |-> creator, mega |-> mega, roles |-> roles, username |-> username,
   slow |-> FALSE, posts |-> old]
Slow(d) == [d EXCEPT !.slow = TRUE]

NoNames == [u \in {} |-> None]

Mix(clock, start, inv, seats, joined, maxOps, reqs) ==
  [clock |-> clock, start |-> start, invites |-> inv, seats |-> seats, joined |-> joined,
   maxOps |-> maxOps, atOnce |-> 2, reqs |-> reqs, names |-> NoNames]

NoInvites == [i \in {} |-> 0]

\* caps: the last seat of 101, and users at their last channel
AdmissionMix ==
  Mix({}, 101 :> Chan(1, FALSE, 1 :> 2, "h1", <<>>), "i1" :> 101, 2, 1, 4,
      {Req("import", 2, 101, "i1"), Req("join", 3, 101, None), CreateReq(2, FALSE),
       CreateReq(3, TRUE), Req("add", 1, 101, <<3, 2>>), Req("export", 1, 101, None),
       Req("revoke", 1, 101, "i1"), Req("leave", 2, 101, None), CreateReq(1, TRUE)})

\* offices: a creator, an administrator and a member act on each other
OfficeMix ==
  Mix({"ban"}, 101 :> Chan(1, TRUE, (1 :> 2) @@ (2 :> 1) @@ (3 :> 0), None, <<>>), NoInvites, 3, 2, 4,
      {RoleReq(1, 101, 2, {}), RoleReq(1, 101, 3, {"pin"}), BanReq(1, 101, 2, All, 2),
       BanReq(2, 101, 3, All, 0), BanReq(2, 101, 3, {}, 0), Req("leave", 1, 101, None),
       Req("rights", 2, 101, TRUE), Req("slow", 2, 101, 10), PinReq(2, 101, 2),
       Req("cname", 2, 101, "h1"), Req("add", 2, 101, <<3>>), PostReq(3, 101, 7, 0),
       PinReq(1, 101, 0)})

\* slow mode, random ids and a plain member who leaves and comes back
SlowMix ==
  Mix({"period"}, 101 :> Slow(Chan(1, TRUE, (1 :> 2) @@ (2 :> 0), "h1", <<>>)), NoInvites, 3, 2, 5,
      {PostReq(2, 101, 7, 0), PostReq(2, 101, 8, 1), PostReq(2, 101, 0, 2),
       Req("leave", 2, 101, None), Req("join", 2, 101, None), Req("diff", 2, 101, None)})

\* readers joining and catching up while others post
ReaderMix ==
  Mix({}, 101 :> Chan(1, TRUE, (1 :> 2) @@ (2 :> 0), "h1", <<>>), NoInvites, 3, 2, 5,
      {PostReq(1, 101, 0, 0), Req("join", 3, 101, None), Req("leave", 3, 101, None),
       Req("diff", 3, 101, None), Req("diff", 2, 101, None), Req("deliver", 0, 101, None)})

\* summaries of a channel older than they are
SummaryMix ==
  Mix({"ban"}, 101 :> Chan(1, TRUE, (1 :> 2) @@ (2 :> 0), "h1", <<Post(2, 0, 0, 0)>>), NoInvites, 3, 2, 4,
      {PostReq(1, 101, 0, 0), PostReq(2, 101, 0, 0), Req("unready", 0, 101, None),
       Req("read", 2, 101, 9), Req("marker", 1, 101, 2), Req("join", 3, 101, None),
       Req("leave", 2, 101, None), BanReq(1, 101, 2, All, 2)})

\* two channels and two users exchange usernames; user 3 has the id of one of
\* the channels
NameMix ==
  [Mix({"change"}, (3 :> Chan(1, TRUE, 1 :> 2, "h1", <<>>)) @@ (102 :> Chan(2, FALSE, 2 :> 2, "h2", <<>>)),
      NoInvites, 3, 2, 4,
      {Req("cname", 1, 3, "h2"), Req("cname", 2, 102, "h1"), Req("cname", 1, 3, None),
       Req("cname", 2, 102, None), Req("uname", 3, None, "h1"), Req("uname", 3, None, None),
       Req("uname", 1, None, "h2"), Req("uname", 2, None, None),
       Req("join", 3, 3, None)})
   EXCEPT !.names = 2 :> "h3"]

\* the channel is renamed while that user is admitted to it, three at once
OldIDMix ==
  [Mix({}, 3 :> Chan(1, TRUE, 1 :> 2, "h1", <<>>), "i1" :> 3, 3, 2, 3,
      {Req("cname", 1, 3, "h2"), Req("add", 1, 3, <<3>>), Req("add", 1, 3, <<2>>),
       Req("import", 3, 3, "i1"), Req("join", 3, 3, None), Req("read", 1, 3, 1),
       Req("uname", 3, None, "h2"), Req("rights", 1, 3, TRUE)})
   EXCEPT !.atOnce = 3]

\* A transaction slot is a place to run in: exchanging two changes nothing.
SlotSymmetry == Permutations(Slots)

MCMixes == {AdmissionMix, OfficeMix, SlowMix, ReaderMix, SummaryMix, NameMix, OldIDMix}
=============================================================================
