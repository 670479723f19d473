---- MODULE Polls ----
(***************************************************************************)
(* Polls and reactions: what the users of a chat attach to a message of    *)
(* which each of them has a copy.  The sources are internal/store/polls.go,*)
(* reactions.go, DeleteMessages and the cleanup trigger of the polls.      *)
(*                                                                         *)
(* A call reads the message without a lock, takes the advisory locks of    *)
(* the owners of its copies in ascending order, reads again, locks the row *)
(* of the poll, decides, and writes and commits.  The locks are released   *)
(* with the commit; a call that fails releases them without a write.       *)
(***************************************************************************)
EXTENDS Integers, FiniteSets, Sequences, SequencesExt

CONSTANTS
    Copies,             \* message -> the users who have a copy of it
    Direct,             \* the messages of private dialogs
    Author,             \* the user who sent every one of the messages
    GroupCreator,       \* the creator of the chat
    Quizzes,            \* the polls that are quizzes, whose votes are final
    Multiple, Timed,    \* the polls of several choices, and with a close date
    PollOptions, PollCalls

VARIABLES
    group,          \* chat_participants
    pollsBanned,    \* send_polls among the chat's default banned rights
    cleared,        \* <<owner, message>>: copies that are deleted
    polls,          \* polls: message -> row
    pollRefs,       \* poll_message_copies: <<owner, message>>
    ballots,        \* poll_votes with their poll_vote_options: message -> voter -> set
    expired,        \* polls whose close date has passed
    reactions,      \* message_reactions: <<owner, message>> -> reactor -> reaction
    pollLocks,      \* the locks each call holds
    pollCalls,      \* what each call is in the middle of
    pollTasks,      \* bounds: the calls of each kind still to come, and their users
    shown,          \* history: <<user, message>> who has been shown the answers of a quiz
    tally,          \* history: the ballots of a poll when it was closed
    informed,       \* history: <<user, message>> who changed a ballot knowing the answers
    frozen          \* history: the reactions of those who left, as they left them

pollVars == <<group, pollsBanned, cleared, polls, pollRefs, ballots, expired, reactions, pollLocks,
              pollCalls, pollTasks, shown, tally, informed, frozen>>

pollHistory == <<shown, tally, informed, frozen>>

Messages == DOMAIN Copies

Members(m) == IF m \in Direct THEN Copies[m] ELSE group

NoCall == [op |-> "none", user |-> 0, of |-> {}, arg |-> {}, at |-> "idle", wants |-> << >>, knows |-> FALSE]

-----------------------------------------------------------------------------
(* Locks and the course of a call.                                         *)

ChatLock == <<"chat", 0>>

OwnerLocks(users) == [i \in 1..Cardinality(users) |-> <<"owner", SetToSortSeq(users, <)[i]>>]

PollLocks(ms) == [i \in 1..Cardinality(ms) |-> <<"poll", SetToSortSeq(ms, <)[i]>>]

Held == UNION {pollLocks[p] : p \in PollCalls}

CallAt(p, at) == pollCalls[p].at = at

\* A commit or a rollback.
Ends(p) ==
    /\ pollCalls' = [pollCalls EXCEPT ![p] = NoCall]
    /\ pollLocks' = [pollLocks EXCEPT ![p] = {}]

Continues(p, at, wants) ==
    /\ pollCalls' = [pollCalls EXCEPT ![p].at = at, ![p].wants = wants]
    /\ UNCHANGED pollLocks

\* A call begins, or is refused by what it reads before any lock.
Begins(p, op, user, of, arg, ok, at, wants) ==
    /\ CallAt(p, "idle")
    /\ p = CHOOSE q \in PollCalls : pollCalls[q].at = "idle"
    /\ pollTasks[op] > 0 /\ user \in pollTasks.users
    /\ pollTasks' = [pollTasks EXCEPT ![op] = @ - 1]
    /\ pollCalls' = [pollCalls EXCEPT ![p] =
            IF ok THEN [op |-> op, user |-> user, of |-> of, arg |-> arg, at |-> at, wants |-> wants,
                        knows |-> \E m \in of : <<user, m>> \in shown]
            ELSE NoCall]
    /\ UNCHANGED <<group, pollsBanned, cleared, polls, pollRefs, ballots, expired, reactions, pollLocks, pollHistory>>

\* The next lock, once nobody holds it.
lockNext(p) ==
    LET c == pollCalls[p]
    IN  /\ c.wants # << >> /\ Head(c.wants) \notin Held
        /\ pollLocks' = [pollLocks EXCEPT ![p] = @ \cup {Head(c.wants)}]
        /\ pollCalls' = [pollCalls EXCEPT ![p].wants = Tail(@)]
        /\ UNCHANGED <<group, pollsBanned, cleared, polls, pollRefs, ballots, expired, reactions, pollTasks, pollHistory>>

\* All the locks that were asked for are held.
Locked(p, at) == CallAt(p, at) /\ pollCalls[p].wants = << >>

Message(p) == CHOOSE m \in pollCalls[p].of : TRUE

-----------------------------------------------------------------------------
(* The tables.                                                             *)

\* A poll belongs to a chat, or to the caller's messages to themselves.
pollPeerAccess(user, m) == IF m \in Direct THEN Copies[m] = {user} ELSE user \in group

pollMessageMatches(user, m) == user \in Copies[m] /\ <<user, m>> \notin cleared

PollByMessage(user, m) == <<user, m>> \in pollRefs /\ <<user, m>> \notin cleared

PollIsClosed(m) == polls[m].closed \/ m \in expired

Selection(m, user) == ballots[m][user]

\* What a caller is shown of a poll: the answers once it is closed or they have voted.
pollView(m, user, voted) ==
    shown' = IF m \in Quizzes /\ (PollIsClosed(m) \/ voted) THEN shown \cup {<<user, m>>} ELSE shown

\* The trigger on messages.deleted: the reference goes, and with the last one
\* the poll. It sees its own transaction's deletes and what others have committed.
LastReferenceGone(copies) ==
    {m \in DOMAIN polls : /\ \E u \in Copies[m] : <<u, m>> \in pollRefs \cap copies
                          /\ \A u \in Copies[m] : <<u, m>> \notin pollRefs \ copies}

-----------------------------------------------------------------------------
(* Creating, voting, closing, reading.                                     *)

\* lockPollMessage, with the membership and the message read before the locks.
lockPollMessage(p, op, user, m, arg) ==
    Begins(p, op, user, {m}, arg, pollPeerAccess(user, m) /\ pollMessageMatches(user, m),
           "reload", OwnerLocks(Copies[m]))

\* In a chat the row of the chat is locked before any owner.
CreatePoll(p, user, m, draft) ==
    IF m \in Direct THEN lockPollMessage(p, "create", user, m, draft)
    ELSE Begins(p, "create", user, {m}, draft, pollPeerAccess(user, m), "chat", <<ChatLock>>)

chatLocked(p) ==
    LET user == pollCalls[p].user
        m == Message(p)
    IN  /\ Locked(p, "chat")
        /\ IF pollPeerAccess(user, m) /\ pollMessageMatches(user, m)
           THEN Continues(p, "reload", OwnerLocks(Copies[m])) ELSE Ends(p)
        /\ UNCHANGED <<group, pollsBanned, cleared, polls, pollRefs, ballots, expired, reactions, pollTasks, pollHistory>>

CastPollVote(p, user, m, options) == lockPollMessage(p, "vote", user, m, options)

ClosePoll(p, user, m) == lockPollMessage(p, "close", user, m, {})

Reloaded(p) == pollMessageMatches(pollCalls[p].user, Message(p)) /\ pollPeerAccess(pollCalls[p].user, Message(p))

\* A poll has two answers or more; what else a draft may get wrong is refused alike.
normalizePollDraft(draft) == Cardinality(draft) >= 2

\* One poll for a message, whose retries find it; linked to every copy not deleted.
insertPoll(p) ==
    LET c == pollCalls[p]
        m == Message(p)
        known == m \in DOMAIN polls
        allowed == normalizePollDraft(c.arg) /\ (m \in Direct \/ c.user = GroupCreator \/ ~pollsBanned)
    IN  /\ Locked(p, "reload") /\ c.op = "create"
        /\ IF Reloaded(p) /\ c.user = Author /\ ~known /\ allowed
           THEN /\ polls' = [n \in DOMAIN polls \cup {m} |-> IF n = m THEN [closed |-> FALSE, answers |-> c.arg] ELSE polls[n]]
                /\ pollRefs' = pollRefs \cup {<<u, m>> : u \in {v \in Copies[m] : <<v, m>> \notin cleared}}
           ELSE UNCHANGED <<polls, pollRefs>>
        /\ IF Reloaded(p) /\ c.user = Author /\ known
           THEN pollView(m, c.user, Selection(m, c.user) # {}) ELSE UNCHANGED shown
        /\ Ends(p)
        /\ UNCHANGED <<group, pollsBanned, cleared, ballots, expired, reactions, pollTasks, tally, informed, frozen>>

\* lockPollForMutation, and the creator's check of ClosePoll.
lockPollForMutation(p) ==
    LET c == pollCalls[p]
        m == Message(p)
    IN  /\ Locked(p, "reload") /\ c.op \in {"vote", "close"}
        /\ IF Reloaded(p) /\ PollByMessage(c.user, m) /\ (c.op = "close" => c.user = Author)
           THEN Continues(p, "poll", PollLocks({m})) ELSE Ends(p)
        /\ UNCHANGED <<group, pollsBanned, cleared, polls, pollRefs, ballots, expired, reactions, pollTasks, pollHistory>>

\* Mutant: a vote is admitted until the poll's close date only.
votableUntilExpiry(m, user, options) ==
    /\ m \notin expired
    /\ options \subseteq polls[m].answers
    /\ Cardinality(options) > 1 => m \in Multiple
    /\ m \in Quizzes => Selection(m, user) = {}

votable(m, user, options) ==
    /\ ~PollIsClosed(m)
    /\ options \subseteq polls[m].answers
    /\ Cardinality(options) > 1 => m \in Multiple
    /\ m \in Quizzes => Selection(m, user) = {}

decideVote(p) ==
    LET c == pollCalls[p]
        m == Message(p)
    IN  /\ Locked(p, "poll") /\ c.op = "vote"
        /\ IF m \in DOMAIN polls /\ Selection(m, c.user) # c.arg /\ votable(m, c.user, c.arg)
           THEN Continues(p, "write", << >>) /\ UNCHANGED shown
           ELSE /\ Ends(p)
                /\ IF m \in DOMAIN polls /\ Selection(m, c.user) = c.arg
                   THEN pollView(m, c.user, c.arg # {}) ELSE UNCHANGED shown
        /\ UNCHANGED <<group, pollsBanned, cleared, polls, pollRefs, ballots, expired, reactions, pollTasks,
                       tally, informed, frozen>>

\* The close date may have passed since the vote was admitted.
replaceVote(p) ==
    LET c == pollCalls[p]
        m == Message(p)
    IN  /\ Locked(p, "write") /\ c.op = "vote"
        /\ ballots' = [ballots EXCEPT ![m][c.user] = c.arg]
        /\ informed' = IF c.knows THEN informed \cup {<<c.user, m>>} ELSE informed
        /\ pollView(m, c.user, c.arg # {})
        /\ Ends(p)
        /\ UNCHANGED <<group, pollsBanned, cleared, polls, pollRefs, expired, reactions, pollTasks, tally, frozen>>

closeLocked(p) ==
    LET m == Message(p)
    IN  /\ Locked(p, "poll") /\ pollCalls[p].op = "close"
        /\ IF m \in DOMAIN polls /\ ~polls[m].closed
           THEN /\ polls' = [polls EXCEPT ![m].closed = TRUE]
                /\ tally' = [tally EXCEPT ![m] = ballots[m]]
           ELSE UNCHANGED <<polls, tally>>
        /\ Ends(p)
        /\ UNCHANGED <<group, pollsBanned, cleared, pollRefs, ballots, expired, reactions, pollTasks,
                       shown, informed, frozen>>

\* One snapshot, no lock.
PollForMessage(user, m) ==
    /\ pollTasks.see > 0 /\ user \in pollTasks.users
    /\ pollTasks' = [pollTasks EXCEPT !.see = @ - 1]
    /\ IF pollPeerAccess(user, m) /\ PollByMessage(user, m)
       THEN pollView(m, user, Selection(m, user) # {}) ELSE UNCHANGED shown
    /\ UNCHANGED <<group, pollsBanned, cleared, polls, pollRefs, ballots, expired, reactions, pollLocks,
                   pollCalls, tally, informed, frozen>>

ClosesByDate(m) ==
    /\ m \in (Timed \cap DOMAIN polls) \ expired
    /\ expired' = expired \cup {m}
    /\ UNCHANGED <<group, pollsBanned, cleared, polls, pollRefs, ballots, reactions, pollLocks, pollCalls,
                   pollTasks, pollHistory>>

-----------------------------------------------------------------------------
(* Reactions.                                                              *)

\* The peer a request names need not be the message's: the store decides.
SendReaction(p, user, m, reaction) ==
    Begins(p, "react", user, {m}, {reaction}, pollMessageMatches(user, m), "reload", OwnerLocks(Copies[m]))

ClearReaction(p, user, m) ==
    Begins(p, "react", user, {m}, {}, pollMessageMatches(user, m), "reload", OwnerLocks(Copies[m]))

\* Mutant: the reaction reaches every copy there is.
ReachedAll(m) == Copies[m]

\* The copies a reaction is written to, deleted ones among them.
Reached(m) == Copies[m] \cap Members(m)

writeReaction(p) ==
    LET c == pollCalls[p]
        m == Message(p)
    IN  /\ Locked(p, "reload") /\ c.op = "react"
        /\ reactions' = IF pollMessageMatches(c.user, m) /\ c.user \in Members(m)
                        THEN [k \in DOMAIN reactions |->
                                IF k[2] = m /\ k[1] \in Reached(m)
                                THEN [reactions[k] EXCEPT ![c.user] = c.arg] ELSE reactions[k]]
                        ELSE reactions
        /\ Ends(p)
        /\ UNCHANGED <<group, pollsBanned, cleared, polls, pollRefs, ballots, expired, pollTasks, pollHistory>>

-----------------------------------------------------------------------------
(* Deletes, and changes of the chat.                                       *)

\* A batch of the caller's copies, or of everybody's.  The rows of the polls
\* are locked in the order of their ids once all the owners are.
DeleteCopies(p, user, batch, revoke) ==
    LET own == \A m \in batch : user \in Copies[m]
        allowed == revoke => \A m \in batch : m \in Direct \/ user \in {Author, GroupCreator}
        owners == {user} \cup UNION {Copies[m] : m \in {n \in batch : revoke \/ n \in Direct}}
    IN  Begins(p, IF revoke THEN "revoke" ELSE "delete", user, batch, {}, own /\ allowed, "targets", OwnerLocks(owners))

Targets(p) ==
    LET c == pollCalls[p]
    IN  IF c.op = "delete" THEN {<<c.user, m>> : m \in c.of}
        ELSE {<<u, m>> \in UNION {Copies[n] \X {n} : n \in c.of} : u \in Members(m)}

lockPollsForDeletedMessageCopies(p) ==
    LET c == pollCalls[p]
    IN  /\ Locked(p, "targets")
        /\ IF c.op = "revoke" /\ \E m \in c.of : c.user \notin Members(m)
           THEN Ends(p)
           ELSE Continues(p, "write", PollLocks({m \in c.of : \E u \in Copies[m] : <<u, m>> \in Targets(p) \cap pollRefs}))
        /\ UNCHANGED <<group, pollsBanned, cleared, polls, pollRefs, ballots, expired, reactions, pollTasks, pollHistory>>

\* A copy of the caller's own that is already gone fails the batch; in a chat a
\* revoke goes past it. The trigger decides here, and others see nothing of it
\* before the commit.
setDeleted(p) ==
    LET c == pollCalls[p]
        fails == \E m \in c.of : <<c.user, m>> \in cleared /\ (c.op = "delete" \/ m \in Direct)
    IN  /\ Locked(p, "write") /\ c.op \in {"delete", "revoke"}
        /\ IF fails THEN Ends(p)
           ELSE /\ pollCalls' = [pollCalls EXCEPT ![p].at = "commit", ![p].arg = LastReferenceGone(Targets(p))]
                /\ UNCHANGED pollLocks
        /\ UNCHANGED <<group, pollsBanned, cleared, polls, pollRefs, ballots, expired, reactions, pollTasks, pollHistory>>

commitDelete(p) ==
    LET gone == pollCalls[p].arg
    IN  /\ Locked(p, "commit")
        /\ cleared' = cleared \cup Targets(p)
        /\ pollRefs' = pollRefs \ Targets(p)
        /\ polls' = [m \in DOMAIN polls \ gone |-> polls[m]]
        /\ ballots' = [m \in Messages |-> IF m \in gone THEN [u \in Copies[m] |-> {}] ELSE ballots[m]]
        /\ Ends(p)
        /\ UNCHANGED <<group, pollsBanned, expired, reactions, pollTasks, pollHistory>>

\* A change of membership announces itself to everybody it concerns, so it
\* holds the row of the chat and the locks of all of them.
changeMember(target) ==
    LET users == group \cup {target}
        left == target \in group
    IN  /\ pollTasks.member > 0 /\ target # GroupCreator
        /\ pollTasks' = [pollTasks EXCEPT !.member = @ - 1]
        /\ Held \cap ({ChatLock} \cup {<<"owner", u>> : u \in users}) = {}
        /\ group' = IF left THEN group \ {target} ELSE users
        /\ frozen' = IF left
                     THEN [frozen EXCEPT ![target] = [m \in {n \in Messages : target \in Copies[n]} |-> reactions[<<target, m>>]]]
                     ELSE frozen
        /\ UNCHANGED <<pollsBanned, cleared, polls, pollRefs, ballots, expired, reactions, pollLocks, pollCalls,
                       shown, tally, informed>>

restrictPolls ==
    /\ pollTasks.restrict > 0
    /\ pollTasks' = [pollTasks EXCEPT !.restrict = @ - 1]
    /\ ChatLock \notin Held
    /\ pollsBanned' = ~pollsBanned
    /\ UNCHANGED <<group, cleared, polls, pollRefs, ballots, expired, reactions, pollLocks, pollCalls, pollHistory>>

-----------------------------------------------------------------------------
PollCall(p, u, m) ==
    \/ ClosePoll(p, u, m) \/ ClearReaction(p, u, m)
    \/ \E options \in SUBSET PollOptions : CastPollVote(p, u, m, options) \/ CreatePoll(p, u, m, options)
    \/ \E r \in PollOptions : SendReaction(p, u, m, r)

PollStep(p) ==
    \/ lockNext(p) \/ chatLocked(p) \/ insertPoll(p) \/ lockPollForMutation(p) \/ decideVote(p)
    \/ replaceVote(p) \/ closeLocked(p) \/ writeReaction(p)
    \/ lockPollsForDeletedMessageCopies(p) \/ setDeleted(p) \/ commitDelete(p)

PollNext ==
    \/ \E p \in PollCalls : \/ PollStep(p)
                            \/ \E u \in pollTasks.users, m \in pollTasks.of : u \in Copies[m] /\ PollCall(p, u, m)
                            \/ \E u \in pollTasks.users, batch \in SUBSET pollTasks.of \ {{}}, revoke \in BOOLEAN :
                                    DeleteCopies(p, u, batch, revoke)
    \/ \E u \in pollTasks.users, m \in pollTasks.of : u \in Copies[m] /\ PollForMessage(u, m)
    \/ \E m \in Messages : ClosesByDate(m)
    \/ \E u \in pollTasks.leavers : changeMember(u)
    \/ restrictPolls

\* The messages have been sent; a scene begins with their polls or without.
PollInit(scenes) ==
    \E s \in scenes :
        /\ pollTasks = s.tasks
        /\ polls = [m \in s.polls |-> [closed |-> FALSE, answers |-> PollOptions]]
        /\ pollRefs = UNION {Copies[m] \X {m} : m \in s.polls}
        /\ group = UNION {Copies[m] : m \in Messages \ Direct}
        /\ pollsBanned = FALSE /\ cleared = {} /\ expired = {}
        /\ ballots = [m \in Messages |-> [u \in Copies[m] |-> {}]]
        /\ reactions = [k \in UNION {Copies[m] \X {m} : m \in Messages} |-> [u \in Copies[k[2]] |-> {}]]
        /\ pollLocks = [p \in PollCalls |-> {}]
        /\ pollCalls = [p \in PollCalls |-> NoCall]
        /\ shown = {} /\ tally = ballots /\ informed = {}
        /\ frozen = [u \in group |-> << >>]

-----------------------------------------------------------------------------
(* Properties.                                                             *)

\* Nobody votes with the answers in hand and nothing is counted after the
\* close, and polls live as long as their messages.  A call made by somebody
\* who had been shown the answers of a quiz never changes their ballot; the
\* ballots of a poll that was closed are those of the moment it was closed; a
\* poll exists exactly while a copy that is not deleted refers to it, so the
\* deletes of its last copies by several owners at once do not keep it; and no
\* calls wait for each other's locks.  This is the poll row lock of
\* CastPollVote and ClosePoll, the cleanup trigger and the order of
\* lockPollsForDeletedMessageCopies.
BallotsAreFair ==
    /\ informed = {}
    /\ \A m \in DOMAIN polls : polls[m].closed => ballots[m] = tally[m]
    /\ pollRefs \cap cleared = {}
    /\ \A m \in Messages : m \in DOMAIN polls <=> \E u \in Copies[m] : <<u, m>> \in pollRefs
    /\ \A S \in SUBSET PollCalls : S # {} =>
          \E p \in S : \/ pollCalls[p].wants = << >>
                       \/ \A q \in S : Head(pollCalls[p].wants) \notin pollLocks[q]

\* Everybody who has been in the chat all along sees the same reactions on a
\* message, both sides of a private dialog do, and what a member had when they
\* left stays as it was while they are away.  This is sendChatReaction's reading
\* of the members under the locks of all owners of copies.
ReactionsAgree ==
    /\ \A m \in Messages : \A u, v \in Copies[m] :
          (m \in Direct \/ (frozen[u] = << >> /\ frozen[v] = << >>)) => reactions[<<u, m>>] = reactions[<<v, m>>]
    /\ \A u \in DOMAIN frozen : frozen[u] # << >> /\ u \notin group =>
          \A m \in (Messages \ Direct) \cap DOMAIN frozen[u] : reactions[<<u, m>>] = frozen[u][m]
====
