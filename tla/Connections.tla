---------------------------- MODULE Connections ----------------------------
(***************************************************************************)
(* The life of a connection: admitted under the pre-auth caps, negotiated, *)
(* then one frame after another, each of which looks its auth key up, is   *)
(* charged against the cap on connections of a key nobody has signed in    *)
(* with, runs its call, and binds the connection to its user in the        *)
(* session registry. Every limiter is a counter that many goroutines share *)
(* and that each connection has to give back exactly once, whichever way   *)
(* it ends.                                                                *)
(***************************************************************************)
EXTENDS Integers, FiniteSets, Sequences

CONSTANTS
    Sockets,                \* connections
    Networks,               \* the networks client addresses fall into
    AuthKeys, Owners,       \* auth keys, users
    None,                   \* no network, no key, no user
    MaxConns, MaxConnsPerNet, MaxConnsPerUnboundKey, MaxPendingLoginConns, MaxUserConns

ASSUME ConnectionConstants ==
    /\ IsFiniteSet(Sockets)
    /\ None \notin Networks \cup AuthKeys \cup Owners
    /\ {MaxConns, MaxConnsPerNet, MaxConnsPerUnboundKey, MaxPendingLoginConns, MaxUserConns}
          \subseteq Nat \ {0}

VARIABLES
    pc,             \* where the goroutine of a connection is
    preConns, perNet, slots, netOf,         \* preAuthLimiter, and who holds what
    unbound, chargedKey, signedIn,          \* unboundKeyLimiter and the holds
    pendingCount, pendingHeld, loaded,      \* pendingLoginLimiter, holders, value loaded
    flagged, observed,                      \* conn.PendingLogin(), pendingLoginObserved
    sessions, totalConns, registeredUser,   \* SessionRegistry, and bind's variable
    frameKey, frameUser,                    \* the key of the frame and the user read for it
    keyOwner                                \* auth_keys: the user of a key; no entry once it is gone

limiterVars == <<preConns, perNet, slots, netOf, unbound, chargedKey, signedIn,
                 pendingCount, pendingHeld, loaded, flagged, observed>>

registryVars == <<sessions, totalConns, registeredUser>>

frameVars == <<frameKey, frameUser>>

connectionVars == <<pc, limiterVars, registryVars, frameVars, keyOwner>>

PreAuthVars == <<preConns, perNet, slots, netOf>>

HoldVars == <<unbound, chargedKey, signedIn>>

PendingVars == <<pendingCount, pendingHeld, loaded, flagged, observed>>

Moves(c, from, to) == pc[c] = from /\ pc' = [pc EXCEPT ![c] = to]

-----------------------------------------------------------------------------
(* Before the first authenticated frame.                                   *)

\* A socket over the cap is closed before anything is allocated for it.
admit(c) ==
    /\ Moves(c, "closed", "address")
    /\ preConns < MaxConns
    /\ preConns' = preConns + 1
    /\ slots' = slots \cup {c}
    /\ UNCHANGED <<perNet, netOf, HoldVars, PendingVars, registryVars, frameVars, keyOwner>>

\* An address that falls into no network is not counted against any.
keyAddr(c, net) ==
    IF net = None \/ perNet[net] < MaxConnsPerNet
    THEN /\ Moves(c, "address", "probe")
         /\ netOf' = [netOf EXCEPT ![c] = net]
         /\ perNet' = IF net = None THEN perNet ELSE [perNet EXCEPT ![net] = @ + 1]
         /\ UNCHANGED <<preConns, slots, HoldVars, PendingVars, registryVars, frameVars, keyOwner>>
    ELSE /\ Moves(c, "address", "clearSlot")
         /\ UNCHANGED <<limiterVars, registryVars, frameVars, keyOwner>>

\* A discovery request is answered and the socket closed; so is a malformed
\* one; the others negotiate their codec.
probePreflight(c) ==
    /\ \/ Moves(c, "probe", "read")
       \/ Moves(c, "probe", "clearSlot")
    /\ UNCHANGED <<limiterVars, registryVars, frameVars, keyOwner>>

\* Mutant: the slot is given back each time.
clearTwice(c) ==
    /\ preConns' = preConns - 1
    /\ slots' = slots \ {c}
    /\ perNet' = IF netOf[c] = None THEN perNet ELSE [perNet EXCEPT ![netOf[c]] = @ - 1]
    /\ netOf' = [netOf EXCEPT ![c] = None]

\* slot.clear, which runs at the first authenticated frame and again when the
\* socket is done with, and has an effect once.
clear(c) ==
    IF c \in slots
    THEN /\ preConns' = preConns - 1
         /\ slots' = slots \ {c}
         /\ perNet' = IF netOf[c] = None THEN perNet ELSE [perNet EXCEPT ![netOf[c]] = @ - 1]
         /\ netOf' = [netOf EXCEPT ![c] = None]
    ELSE UNCHANGED PreAuthVars

-----------------------------------------------------------------------------
(* The session registry.                                                   *)

RegistryRemove(c) ==
    IF registeredUser[c] # None
    THEN /\ sessions' = [sessions EXCEPT ![registeredUser[c]] = @ \ {c}]
         /\ totalConns' = totalConns - 1
         /\ registeredUser' = [registeredUser EXCEPT ![c] = None]
    ELSE UNCHANGED registryVars

RegistryAdd(c, user) ==
    /\ sessions' = [sessions EXCEPT ![user] = @ \cup {c}]
    /\ totalConns' = totalConns + 1
    /\ registeredUser' = [registeredUser EXCEPT ![c] = user]

-----------------------------------------------------------------------------
(* One frame.                                                              *)

\* A key exchange unbinds the connection first. It leaves a new key nobody
\* has signed in with, or it fails and is answered with an error.
runExchange(c, k) ==
    /\ pc[c] = "read"
    /\ \/ /\ k \notin DOMAIN keyOwner
          /\ keyOwner' = [x \in DOMAIN keyOwner \cup {k} |-> IF x = k THEN None ELSE keyOwner[x]]
       \/ UNCHANGED keyOwner
    /\ RegistryRemove(c)
    /\ UNCHANGED <<pc, limiterVars, frameVars>>

\* The key is looked up for every frame. One that is gone ends a connection
\* that is bound and is answered with an error on one that is not.
getKey(c, k) ==
    /\ IF k \in DOMAIN keyOwner
       THEN /\ Moves(c, "read", "decrypt")
            /\ frameKey' = [frameKey EXCEPT ![c] = k]
            /\ frameUser' = [frameUser EXCEPT ![c] = keyOwner[k]]
       ELSE /\ Moves(c, "read", IF registeredUser[c] # None THEN "releasePending" ELSE "read")
            /\ UNCHANGED frameVars
    /\ UNCHANGED <<limiterVars, registryVars, keyOwner>>

\* rpcHandle: a frame that decrypts gives the pre-auth slot back.
rpcHandle(c) ==
    /\ Moves(c, "decrypt", "beforeDispatch")
    /\ clear(c)
    /\ UNCHANGED <<HoldVars, PendingVars, registryVars, frameVars, keyOwner>>

\* unboundKeyLimiter.release of what the hold has, if it has anything.
Released(c) == IF chargedKey[c] = None THEN unbound ELSE [unbound EXCEPT ![chargedKey[c]] = @ - 1]

\* unboundKeyHold.charge(k, user): signing in is for good; a key that is
\* charged already stays charged; any other key is charged instead of it.
charge(c, user, next) ==
    LET k == frameKey[c]
    IN  IF signedIn[c] \/ (user = None /\ chargedKey[c] = k)
        THEN pc' = [pc EXCEPT ![c] = next] /\ UNCHANGED HoldVars
        ELSE IF user # None
        THEN /\ pc' = [pc EXCEPT ![c] = next]
             /\ signedIn' = [signedIn EXCEPT ![c] = TRUE]
             /\ unbound' = Released(c)
             /\ chargedKey' = [chargedKey EXCEPT ![c] = None]
        ELSE IF Released(c)[k] < MaxConnsPerUnboundKey
        THEN /\ pc' = [pc EXCEPT ![c] = next]
             /\ unbound' = [Released(c) EXCEPT ![k] = @ + 1]
             /\ chargedKey' = [chargedKey EXCEPT ![c] = k]
             /\ UNCHANGED signedIn
        ELSE /\ pc' = [pc EXCEPT ![c] = "releasePending"]
             /\ unbound' = Released(c)
             /\ chargedKey' = [chargedKey EXCEPT ![c] = None]
             /\ UNCHANGED signedIn

beforeDispatch(c) ==
    /\ pc[c] = "beforeDispatch"
    /\ IF frameUser[c] # None THEN pc' = [pc EXCEPT ![c] = "dispatch"] /\ UNCHANGED HoldVars
       ELSE charge(c, None, "dispatch")
    /\ UNCHANGED <<PreAuthVars, PendingVars, registryVars, frameVars, keyOwner>>

\* What the call does to the key: nothing, a sign-in, a log-out, or a login
\* that waits for its password. The key may have had a user, whom a sign-in
\* replaces and a login that waits takes away.
dispatchRPC(c) ==
    /\ Moves(c, "dispatch", "pendingLogin")
    /\ \/ UNCHANGED <<keyOwner, flagged>>
       \/ /\ frameKey[c] \in DOMAIN keyOwner
          /\ \E u \in Owners : keyOwner' = [keyOwner EXCEPT ![frameKey[c]] = u]
          /\ UNCHANGED flagged
       \/ /\ keyOwner' = [x \in DOMAIN keyOwner \ {frameKey[c]} |-> keyOwner[x]]
          /\ UNCHANGED flagged
       \/ /\ frameKey[c] \in DOMAIN keyOwner
          /\ keyOwner' = [keyOwner EXCEPT ![frameKey[c]] = None]
          /\ flagged' = [flagged EXCEPT ![c] = TRUE]
    /\ UNCHANGED <<PreAuthVars, HoldVars, pendingCount, pendingHeld, loaded, observed, registryVars, frameVars>>

\* The cap on pending logins: the count is loaded, then swapped for one more
\* if it is still the one that was loaded.
acquireLoad(c) ==
    /\ pc[c] = "pendingLogin"
    /\ IF flagged[c] /\ ~observed[c]
       THEN /\ loaded' = [loaded EXCEPT ![c] = pendingCount]
            /\ pc' = [pc EXCEPT ![c] = IF pendingCount >= MaxPendingLoginConns THEN "releasePending" ELSE "swap"]
       ELSE pc' = [pc EXCEPT ![c] = "recharge"] /\ UNCHANGED loaded
    /\ observed' = [observed EXCEPT ![c] = flagged[c]]
    /\ UNCHANGED <<PreAuthVars, HoldVars, pendingCount, pendingHeld, flagged, registryVars, frameVars, keyOwner>>

acquireSwap(c) ==
    /\ pc[c] = "swap"
    /\ IF pendingCount = loaded[c]
       THEN /\ pendingCount' = pendingCount + 1
            /\ pendingHeld' = pendingHeld \cup {c}
            /\ pc' = [pc EXCEPT ![c] = "recharge"]
            /\ loaded' = [loaded EXCEPT ![c] = 0]
       ELSE /\ loaded' = [loaded EXCEPT ![c] = pendingCount]
            /\ pc' = [pc EXCEPT ![c] = IF pendingCount >= MaxPendingLoginConns THEN "releasePending" ELSE "swap"]
            /\ UNCHANGED <<pendingCount, pendingHeld>>
    /\ UNCHANGED <<PreAuthVars, HoldVars, flagged, observed, registryVars, frameVars, keyOwner>>

\* The key's user is read again where the call may have signed it in. A read
\* that fails ends the connection; a key that is gone does not.
recharge(c) ==
    LET again == frameUser[c] = None /\ ~signedIn[c]
        found == again /\ frameKey[c] \in DOMAIN keyOwner
    IN  /\ pc[c] = "recharge"
        /\ \/ charge(c, IF found THEN keyOwner[frameKey[c]] ELSE frameUser[c], "bind")
           \/ again /\ pc' = [pc EXCEPT ![c] = "releasePending"] /\ UNCHANGED HoldVars
        /\ UNCHANGED <<PreAuthVars, PendingVars, registryVars, frameVars, keyOwner>>

nextFrame(c) ==
    /\ pc' = [pc EXCEPT ![c] = "read"]
    /\ frameKey' = [frameKey EXCEPT ![c] = None]
    /\ frameUser' = [frameUser EXCEPT ![c] = None]

\* bind(userID), with the user that was read before the call: the old entry
\* goes, then the new one comes, if there is room for it.
bind(c) ==
    /\ pc[c] = "bind"
    /\ IF frameUser[c] = registeredUser[c]
       THEN nextFrame(c) /\ UNCHANGED registryVars
       ELSE /\ IF frameUser[c] = None THEN nextFrame(c)
               ELSE pc' = [pc EXCEPT ![c] = "add"] /\ UNCHANGED frameVars
            /\ RegistryRemove(c)
    /\ UNCHANGED <<limiterVars, keyOwner>>

bindAdd(c) ==
    /\ pc[c] = "add"
    /\ IF Cardinality(sessions[frameUser[c]]) >= MaxUserConns
       THEN pc' = [pc EXCEPT ![c] = "releasePending"] /\ UNCHANGED <<registryVars, frameVars>>
       ELSE nextFrame(c) /\ RegistryAdd(c, frameUser[c])
    /\ UNCHANGED <<limiterVars, keyOwner>>

-----------------------------------------------------------------------------
(* The end of a connection: what the defers give back, last one first.     *)

\* The client goes, a timer closes the socket, a call or a write fails.
Disconnect(c) ==
    /\ \/ pc[c] \in {"address", "probe"} /\ pc' = [pc EXCEPT ![c] = "clearSlot"]
       \/ pc[c] \in {"read", "decrypt", "dispatch"} /\ pc' = [pc EXCEPT ![c] = "releasePending"]
    /\ UNCHANGED <<limiterVars, registryVars, frameVars, keyOwner>>

releasePending(c) ==
    /\ Moves(c, "releasePending", "releaseHold")
    /\ pendingCount' = IF c \in pendingHeld THEN pendingCount - 1 ELSE pendingCount
    /\ pendingHeld' = pendingHeld \ {c}
    /\ flagged' = [flagged EXCEPT ![c] = FALSE]
    /\ observed' = [observed EXCEPT ![c] = FALSE]
    /\ loaded' = [loaded EXCEPT ![c] = 0]
    /\ UNCHANGED <<PreAuthVars, HoldVars, registryVars, frameVars, keyOwner>>

releaseHold(c) ==
    /\ Moves(c, "releaseHold", "unbind")
    /\ unbound' = Released(c)
    /\ chargedKey' = [chargedKey EXCEPT ![c] = None]
    /\ signedIn' = [signedIn EXCEPT ![c] = FALSE]
    /\ UNCHANGED <<PreAuthVars, PendingVars, registryVars, frameVars, keyOwner>>

unbind(c) ==
    /\ Moves(c, "unbind", "clearSlot")
    /\ RegistryRemove(c)
    /\ frameKey' = [frameKey EXCEPT ![c] = None]
    /\ frameUser' = [frameUser EXCEPT ![c] = None]
    /\ UNCHANGED <<limiterVars, keyOwner>>

clearSlot(c) ==
    /\ Moves(c, "clearSlot", "closed")
    /\ clear(c)
    /\ UNCHANGED <<HoldVars, PendingVars, registryVars, frameVars, keyOwner>>

-----------------------------------------------------------------------------
ConnectionStep(c) ==
    \/ admit(c) \/ (\E n \in Networks \cup {None} : keyAddr(c, n)) \/ probePreflight(c)
    \/ (\E k \in AuthKeys : runExchange(c, k) \/ getKey(c, k))
    \/ rpcHandle(c) \/ beforeDispatch(c) \/ dispatchRPC(c)
    \/ acquireLoad(c) \/ acquireSwap(c) \/ recharge(c) \/ bind(c) \/ bindAdd(c)
    \/ Disconnect(c) \/ releasePending(c) \/ releaseHold(c) \/ unbind(c) \/ clearSlot(c)

ConnectionNext == \E c \in Sockets : ConnectionStep(c)

ConnectionInit ==
    /\ pc = [c \in Sockets |-> "closed"]
    /\ preConns = 0 /\ perNet = [n \in Networks |-> 0] /\ slots = {} /\ netOf = [c \in Sockets |-> None]
    /\ unbound = [k \in AuthKeys |-> 0] /\ chargedKey = [c \in Sockets |-> None]
    /\ signedIn = [c \in Sockets |-> FALSE]
    /\ pendingCount = 0 /\ pendingHeld = {} /\ loaded = [c \in Sockets |-> 0]
    /\ flagged = [c \in Sockets |-> FALSE] /\ observed = [c \in Sockets |-> FALSE]
    /\ sessions = [u \in Owners |-> {}] /\ totalConns = 0
    /\ registeredUser = [c \in Sockets |-> None]
    /\ frameKey = [c \in Sockets |-> None] /\ frameUser = [c \in Sockets |-> None]
    /\ keyOwner = [k \in {} |-> None]

ConnectionSpec == ConnectionInit /\ [][ConnectionNext]_connectionVars

-----------------------------------------------------------------------------
(* Properties.                                                             *)

\* What TotalConns and TotalSessions report.
TotalConns == totalConns

TotalSessions == Cardinality({u \in Owners : sessions[u] # {}})

\* Every limiter counts exactly the connections that hold something of it and
\* never more than its cap, and the registry has a connection under the user
\* it is bound to and under no other; so a connection that has ended holds
\* nothing, whatever it was refused, charged twice for or bound to before.
\* This is slot.clear's once, the two holds, and bind.
SlotsAccounted ==
    /\ preConns = Cardinality(slots) /\ preConns <= MaxConns
    /\ \A n \in Networks : /\ perNet[n] = Cardinality({c \in Sockets : netOf[c] = n})
                           /\ perNet[n] <= MaxConnsPerNet
    /\ \A k \in AuthKeys : /\ unbound[k] = Cardinality({c \in Sockets : chargedKey[c] = k})
                           /\ unbound[k] <= MaxConnsPerUnboundKey
    /\ pendingCount = Cardinality(pendingHeld) /\ pendingCount <= MaxPendingLoginConns
    /\ \A u \in Owners : /\ sessions[u] = {c \in Sockets : registeredUser[c] = u}
                         /\ Cardinality(sessions[u]) <= MaxUserConns
    /\ TotalConns = Cardinality({c \in Sockets : registeredUser[c] # None})
    /\ TotalSessions = Cardinality({u \in Owners : \E c \in Sockets : registeredUser[c] = u})
    /\ \A c \in Sockets : pc[c] = "closed" =>
          /\ c \notin slots \cup pendingHeld
          /\ netOf[c] = None /\ chargedKey[c] = None /\ registeredUser[c] = None
=============================================================================
