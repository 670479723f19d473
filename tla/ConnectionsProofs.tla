------------------------- MODULE ConnectionsProofs -------------------------
(***************************************************************************)
(* Every limiter of the connections is accounted for, whatever the caps    *)
(* and however many connections, networks, keys and users there are.       *)
(*                                                                         *)
(* SlotsAccounted alone is not inductive: that a counter may be raised or  *)
(* lowered by one depends on whether its connection already holds it, and  *)
(* that is known from where the connection's goroutine is.  PreAuth, Hold, *)
(* Pending and Registry say so, one for each thing that is counted.        *)
(***************************************************************************)
EXTENDS Connections, FiniteSetTheorems, TLAPS

USE SMTT(30), ZenonT(30), SMTT(60)

Frame == {"decrypt", "beforeDispatch", "dispatch", "pendingLogin", "swap", "recharge", "bind", "add"}

Outside == {"closed", "address", "probe", "clearSlot"}

Ending == {"releasePending", "releaseHold", "unbind"}

LimiterTypes ==
    /\ preConns \in Nat /\ perNet \in [Networks -> Nat]
    /\ slots \in SUBSET Sockets /\ netOf \in [Sockets -> Networks \cup {None}]
    /\ unbound \in [AuthKeys -> Nat] /\ chargedKey \in [Sockets -> AuthKeys \cup {None}]
    /\ signedIn \in [Sockets -> BOOLEAN]
    /\ pendingCount \in Nat /\ pendingHeld \in SUBSET Sockets /\ loaded \in [Sockets -> Nat]
    /\ flagged \in [Sockets -> BOOLEAN] /\ observed \in [Sockets -> BOOLEAN]

SessionTypes ==
    /\ sessions \in [Owners -> SUBSET Sockets] /\ totalConns \in Nat
    /\ registeredUser \in [Sockets -> Owners \cup {None}]

\* A frame that is being served has a key.
FrameTypes ==
    /\ pc \in [Sockets -> Frame \cup Outside \cup Ending \cup {"read"}]
    /\ frameKey \in [Sockets -> AuthKeys \cup {None}]
    /\ frameUser \in [Sockets -> Owners \cup {None}]
    /\ DOMAIN keyOwner \subseteq AuthKeys
    /\ \A k \in DOMAIN keyOwner : keyOwner[k] \in Owners \cup {None}
    /\ \A c \in Sockets : pc[c] \in Frame => frameKey[c] \in AuthKeys

PreAuth ==
    /\ preConns = Cardinality(slots) /\ preConns <= MaxConns
    /\ \A n \in Networks : /\ perNet[n] = Cardinality({c \in Sockets : netOf[c] = n})
                           /\ perNet[n] <= MaxConnsPerNet
    /\ \A c \in Sockets : /\ pc[c] = "closed" => c \notin slots
                          /\ pc[c] = "address" => c \in slots /\ netOf[c] = None
                          /\ pc[c] = "probe" => c \in slots
                          /\ c \notin slots => netOf[c] = None

Hold ==
    /\ \A k \in AuthKeys : /\ unbound[k] = Cardinality({c \in Sockets : chargedKey[c] = k})
                           /\ unbound[k] <= MaxConnsPerUnboundKey
    /\ \A c \in Sockets : pc[c] \in Outside \cup {"unbind"} => chargedKey[c] = None

\* A connection is counted as a pending login once, because what it observed
\* stays true until it gives its place back.
Pending ==
    /\ pendingCount = Cardinality(pendingHeld) /\ pendingCount <= MaxPendingLoginConns
    /\ \A c \in Sockets : /\ pc[c] \in Outside \cup {"releaseHold", "unbind", "swap"} => c \notin pendingHeld
                          /\ pc[c] = "swap" => flagged[c] /\ observed[c] /\ loaded[c] < MaxPendingLoginConns
                          /\ c \in pendingHeld => flagged[c] /\ observed[c]

Registry ==
    /\ \A u \in Owners : /\ sessions[u] = {c \in Sockets : registeredUser[c] = u}
                         /\ Cardinality(sessions[u]) <= MaxUserConns
    /\ totalConns = Cardinality({c \in Sockets : registeredUser[c] # None})
    /\ \A c \in Sockets : /\ pc[c] \in Outside \cup {"add"} => registeredUser[c] = None
                          /\ pc[c] = "add" => frameUser[c] \in Owners

ConnectionTypes == LimiterTypes /\ SessionTypes /\ FrameTypes

IInv == ConnectionTypes /\ PreAuth /\ Hold /\ Pending /\ Registry

-----------------------------------------------------------------------------
(* Counting.                                                               *)

\* A set of connections that is joined or left by one.
LEMMA CountMembers ==
    ASSUME NEW H \in SUBSET Sockets, NEW c \in Sockets
    PROVE  /\ Cardinality(H) \in Nat
           /\ c \notin H => Cardinality(H \cup {c}) = Cardinality(H) + 1
           /\ c \in H => Cardinality(H \ {c}) = Cardinality(H) - 1 /\ Cardinality(H) > 0
<1>1. IsFiniteSet(H)
  BY ConnectionConstants, FS_Subset
<1>2. Cardinality(H) \in Nat
  BY <1>1, FS_CardinalityType
<1>3. c \notin H => Cardinality(H \cup {c}) = Cardinality(H) + 1
  BY <1>1, FS_AddElement
<1>4. c \in H => Cardinality(H \ {c}) = Cardinality(H) - 1
  BY <1>1, FS_RemoveElement
<1>5. c \in H => Cardinality(H) > 0
  BY <1>1, <1>2, FS_EmptySet
<1> QED BY <1>2, <1>3, <1>4, <1>5

-----------------------------------------------------------------------------
(* Each thing that is counted, step by step.                               *)

\* A connection that holds something is counted for it.
LEMMA HeldIsCounted ==
    ASSUME IInv, NEW c \in Sockets
    PROVE  /\ c \in slots => preConns > 0
           /\ \A n \in Networks : netOf[c] = n => perNet[n] > 0
           /\ \A k \in AuthKeys : chargedKey[c] = k => unbound[k] > 0
           /\ c \in pendingHeld => pendingCount > 0
           /\ registeredUser[c] # None => totalConns > 0
<1>1. (c \in slots => preConns > 0) /\ (c \in pendingHeld => pendingCount > 0)
  BY ZenonT(60), CountMembers DEF IInv, ConnectionTypes, LimiterTypes, PreAuth, Pending
<1>2. ASSUME NEW n \in Networks, netOf[c] = n
      PROVE  perNet[n] > 0
  <2> DEFINE H == {d \in Sockets : netOf[d] = n}
  <2>1. H \in SUBSET Sockets /\ c \in H /\ perNet[n] = Cardinality(H)
    BY <1>2 DEF IInv, PreAuth
  <2> HIDE DEF H
  <2> QED BY ZenonT(60), <2>1, CountMembers
<1>3. ASSUME NEW k \in AuthKeys, chargedKey[c] = k
      PROVE  unbound[k] > 0
  <2> DEFINE H == {d \in Sockets : chargedKey[d] = k}
  <2>1. H \in SUBSET Sockets /\ c \in H /\ unbound[k] = Cardinality(H)
    BY <1>3 DEF IInv, Hold
  <2> HIDE DEF H
  <2> QED BY ZenonT(60), <2>1, CountMembers
<1>4. ASSUME registeredUser[c] # None
      PROVE  totalConns > 0
  <2> DEFINE H == {d \in Sockets : registeredUser[d] # None}
  <2>1. H \in SUBSET Sockets /\ c \in H /\ totalConns = Cardinality(H)
    BY <1>4 DEF IInv, Registry
  <2> HIDE DEF H
  <2> QED BY ZenonT(60), <2>1, CountMembers
<1> QED BY <1>1, <1>2, <1>3, <1>4

\* What is left of the holds when a connection gives its own back.
LEMMA ReleasedTypes ==
    ASSUME IInv, NEW c \in Sockets
    PROVE  /\ Released(c) \in [AuthKeys -> Nat]
           /\ \A k \in AuthKeys : Released(c)[k] = IF chargedKey[c] = k THEN unbound[k] - 1 ELSE unbound[k]
<1>1. \A k \in AuthKeys : chargedKey[c] = k => unbound[k] > 0
  BY HeldIsCounted
<1> QED BY <1>1, ConnectionConstants DEF IInv, ConnectionTypes, LimiterTypes, Released

\* The three outcomes of a charge, and where each leaves the connection.
LEMMA ChargeOutcomes ==
    ASSUME IInv, NEW c \in Sockets, frameKey[c] \in AuthKeys, NEW user, NEW next, charge(c, user, next)
    PROVE  \/ /\ pc' = [pc EXCEPT ![c] = next]
              /\ UNCHANGED HoldVars
           \/ /\ \/ pc' = [pc EXCEPT ![c] = next]
                 \/ pc' = [pc EXCEPT ![c] = "releasePending"]
              /\ unbound' = Released(c)
              /\ chargedKey' = [chargedKey EXCEPT ![c] = None]
              /\ signedIn' \in [Sockets -> BOOLEAN]
           \/ /\ pc' = [pc EXCEPT ![c] = next]
              /\ chargedKey[c] # frameKey[c]
              /\ unbound[frameKey[c]] < MaxConnsPerUnboundKey
              /\ unbound' = [Released(c) EXCEPT ![frameKey[c]] = @ + 1]
              /\ chargedKey' = [chargedKey EXCEPT ![c] = frameKey[c]]
              /\ UNCHANGED signedIn
<1>1. signedIn \in [Sockets -> BOOLEAN] /\ [signedIn EXCEPT ![c] = TRUE] \in [Sockets -> BOOLEAN]
  BY DEF IInv, ConnectionTypes, LimiterTypes
<1>2. chargedKey[c] # frameKey[c] => Released(c)[frameKey[c]] = unbound[frameKey[c]]
  BY ReleasedTypes
<1>3. CASE signedIn[c] \/ (user = None /\ chargedKey[c] = frameKey[c])
  BY <1>3 DEF charge
<1>4. CASE ~signedIn[c] /\ user # None
  BY ZenonT(60), <1>1, <1>4 DEF charge
<1>5. CASE ~signedIn[c] /\ user = None /\ chargedKey[c] # frameKey[c]
  BY <1>1, <1>2, <1>5 DEF charge
<1> QED BY <1>3, <1>4, <1>5

\* The holds keep their types whichever way a charge goes.
LEMMA ChargeTypes ==
    ASSUME IInv, NEW c \in Sockets, frameKey[c] \in AuthKeys, NEW user, NEW next, charge(c, user, next)
    PROVE  /\ unbound' \in [AuthKeys -> Nat] /\ chargedKey' \in [Sockets -> AuthKeys \cup {None}]
           /\ signedIn' \in [Sockets -> BOOLEAN]
           /\ pc' = [pc EXCEPT ![c] = next] \/ pc' = [pc EXCEPT ![c] = "releasePending"]
<1>1. /\ unbound \in [AuthKeys -> Nat] /\ chargedKey \in [Sockets -> AuthKeys \cup {None}]
      /\ signedIn \in [Sockets -> BOOLEAN]
  BY DEF IInv, ConnectionTypes, LimiterTypes
<1>2. Released(c) \in [AuthKeys -> Nat]
  BY ReleasedTypes
<1>3. [Released(c) EXCEPT ![frameKey[c]] = @ + 1] \in [AuthKeys -> Nat]
  BY <1>2
<1> QED BY <1>1, <1>2, <1>3, ChargeOutcomes DEF HoldVars

\* Types are kept.
LEMMA StepTypes ==
    ASSUME IInv, NEW c \in Sockets, ConnectionStep(c)
    PROVE  ConnectionTypes'
<1> USE ConnectionConstants DEF IInv, ConnectionTypes, LimiterTypes, SessionTypes, FrameTypes, Frame, Outside, Ending,
        limiterVars, registryVars, frameVars, PreAuthVars, HoldVars, PendingVars, Moves
<1>0. /\ c \in slots => preConns > 0
      /\ \A n \in Networks : netOf[c] = n => perNet[n] > 0
      /\ \A k \in AuthKeys : chargedKey[c] = k => unbound[k] > 0
      /\ c \in pendingHeld => pendingCount > 0
      /\ registeredUser[c] # None => totalConns > 0
  BY HeldIsCounted
<1>a. CASE admit(c)
  BY <1>a DEF admit
<1>b. ASSUME NEW n \in Networks \cup {None}, keyAddr(c, n)
      PROVE  ConnectionTypes'
  BY <1>b DEF keyAddr
<1>c. CASE probePreflight(c)
  BY <1>c DEF probePreflight
<1>d. ASSUME NEW k \in AuthKeys, runExchange(c, k)
      PROVE  ConnectionTypes'
  BY <1>0, <1>d DEF runExchange, RegistryRemove
<1>e. ASSUME NEW k \in AuthKeys, getKey(c, k)
      PROVE  ConnectionTypes'
  BY <1>e DEF getKey
<1>f. CASE rpcHandle(c)
  BY <1>0, <1>f DEF rpcHandle, clear
<1>g. CASE beforeDispatch(c)
  BY <1>0, <1>g DEF beforeDispatch, charge, Released
<1>h. CASE dispatchRPC(c)
  BY ZenonT(60), <1>h DEF dispatchRPC
<1>i. CASE acquireLoad(c)
  BY <1>i DEF acquireLoad
<1>j. CASE acquireSwap(c)
  BY <1>j DEF acquireSwap
<1>k. CASE recharge(c)
  <2>1. /\ unbound' \in [AuthKeys -> Nat] /\ chargedKey' \in [Sockets -> AuthKeys \cup {None}]
        /\ signedIn' \in [Sockets -> BOOLEAN]
        /\ pc' = [pc EXCEPT ![c] = "bind"] \/ pc' = [pc EXCEPT ![c] = "releasePending"]
    BY <1>k, ChargeTypes DEF recharge
  <2> QED BY <1>k, <2>1 DEF recharge
<1>l. CASE bind(c)
  BY <1>0, <1>l DEF bind, nextFrame, RegistryRemove
<1>m. CASE bindAdd(c)
  <2>1. frameUser[c] \in Owners
    BY <1>m DEF bindAdd, Registry
  <2>2. CASE nextFrame(c) /\ RegistryAdd(c, frameUser[c])
    BY <1>m, <2>1, <2>2 DEF bindAdd, nextFrame, RegistryAdd
  <2>3. CASE pc' = [pc EXCEPT ![c] = "releasePending"] /\ UNCHANGED <<registryVars, frameVars>>
    BY <1>m, <2>3 DEF bindAdd
  <2> QED BY <1>m, <2>2, <2>3 DEF bindAdd
<1>n. CASE Disconnect(c)
  BY <1>n DEF Disconnect
<1>o. CASE releasePending(c)
  BY <1>0, <1>o DEF releasePending
<1>p. CASE releaseHold(c)
  BY <1>0, <1>p DEF releaseHold, Released
<1>q. CASE unbind(c)
  BY <1>0, <1>q DEF unbind, RegistryRemove
<1>r. CASE clearSlot(c)
  BY <1>0, <1>r DEF clearSlot, clear
<1> QED BY ZenonT(60), <1>a, <1>b, <1>c, <1>d, <1>e, <1>f, <1>g, <1>h, <1>i, <1>j, <1>k, <1>l, <1>m, <1>n, <1>o, <1>p, <1>q, <1>r
        DEF ConnectionStep

\* What slot.clear does, for whichever step runs it.
LEMMA ClearCounts ==
    ASSUME IInv, NEW c \in Sockets, clear(c)
    PROVE  /\ preConns' = Cardinality(slots') /\ preConns' <= MaxConns
           /\ \A n \in Networks : /\ perNet'[n] = Cardinality({d \in Sockets : netOf'[d] = n})
                                  /\ perNet'[n] <= MaxConnsPerNet
           /\ c \notin slots'
           /\ \A d \in Sockets : d # c => (d \in slots' <=> d \in slots) /\ netOf'[d] = netOf[d]
           /\ \A d \in Sockets : d \notin slots' => netOf'[d] = None
<1> USE ConnectionConstants
<1>1. CASE c \notin slots
  BY <1>1 DEF IInv, PreAuth, clear, PreAuthVars
<1>2. CASE c \in slots
  <2>1. slots' = slots \ {c} /\ preConns' = preConns - 1 /\ netOf' = [netOf EXCEPT ![c] = None]
    BY <1>2 DEF clear
  <2>2. preConns' = Cardinality(slots') /\ preConns' <= MaxConns
    BY <1>2, <2>1, CountMembers DEF IInv, PreAuth, ConnectionTypes, LimiterTypes
  <2>3. ASSUME NEW n \in Networks
        PROVE  /\ perNet'[n] = Cardinality({d \in Sockets : netOf'[d] = n})
               /\ perNet'[n] <= MaxConnsPerNet
    <3>1. netOf \in [Sockets -> Networks \cup {None}] /\ perNet \in [Networks -> Nat]
      BY DEF IInv, ConnectionTypes, LimiterTypes
    <3>2. /\ perNet[n] = Cardinality({d \in Sockets : netOf[d] = n}) /\ perNet[n] <= MaxConnsPerNet
      BY DEF IInv, PreAuth
    <3>3. CASE netOf[c] = n
      <4>1. perNet'[n] = perNet[n] - 1
        BY <1>2, <3>1, <3>3 DEF clear
      <4>2. Cardinality({d \in Sockets : netOf'[d] = n}) = Cardinality({d \in Sockets : netOf[d] = n}) - 1
        <5> DEFINE H == {d \in Sockets : netOf[d] = n}
                   G == {d \in Sockets : netOf'[d] = n}
        <5>1. H \in SUBSET Sockets /\ c \in H /\ G = H \ {c}
          BY <2>1, <3>1, <3>3
        <5> HIDE DEF H, G
        <5>2. Cardinality(G) = Cardinality(H) - 1
          BY <5>1, CountMembers
        <5> QED BY <5>2 DEF H, G
      <4> QED BY <3>1, <3>2, <4>1, <4>2
    <3>4. CASE netOf[c] # n
      <4>1. perNet'[n] = perNet[n]
        BY <1>2, <3>1, <3>4 DEF clear
      <4>2. {d \in Sockets : netOf'[d] = n} = {d \in Sockets : netOf[d] = n}
        BY <2>1, <3>1, <3>4
      <4> QED BY <3>2, <4>1, <4>2
    <3> QED BY <3>3, <3>4
  <2>4. \A d \in Sockets : /\ d # c => (d \in slots' <=> d \in slots) /\ netOf'[d] = netOf[d]
                           /\ d \notin slots' => netOf'[d] = None
    BY <1>2, <2>1 DEF IInv, PreAuth, ConnectionTypes, LimiterTypes
  <2> QED BY <2>1, <2>2, <2>3, <2>4
<1> QED BY <1>1, <1>2

\* The pre-auth limiter counts the sockets, and those of each network, that
\* have not been cleared.
LEMMA StepPreAuth ==
    ASSUME IInv, NEW c \in Sockets, ConnectionStep(c)
    PROVE  PreAuth'
<1> USE ConnectionConstants
<1>0. /\ pc \in [Sockets -> Frame \cup Outside \cup Ending \cup {"read"}]
      /\ netOf \in [Sockets -> Networks \cup {None}] /\ perNet \in [Networks -> Nat]
      /\ slots \in SUBSET Sockets /\ preConns \in Nat
      /\ PreAuth
  BY DEF IInv, ConnectionTypes, LimiterTypes, FrameTypes
<1>1. CASE admit(c)
  <2>1. /\ slots' = slots \cup {c} /\ preConns' = preConns + 1 /\ preConns < MaxConns
        /\ netOf' = netOf /\ perNet' = perNet /\ pc' = [pc EXCEPT ![c] = "address"] /\ c \notin slots
    BY <1>0, <1>1 DEF admit, PreAuth, Moves
  <2>2. preConns' = Cardinality(slots') /\ preConns' <= MaxConns
    BY <1>0, <2>1, CountMembers DEF PreAuth
  <2> QED BY <1>0, <2>1, <2>2 DEF PreAuth
<1>2. ASSUME NEW net \in Networks \cup {None}, keyAddr(c, net)
      PROVE  PreAuth'
  <2>1. CASE net = None \/ perNet[net] < MaxConnsPerNet
    <3>1. /\ netOf' = [netOf EXCEPT ![c] = net] /\ preConns' = preConns /\ slots' = slots
          /\ pc' = [pc EXCEPT ![c] = "probe"] /\ netOf[c] = None /\ c \in slots
          /\ perNet' = IF net = None THEN perNet ELSE [perNet EXCEPT ![net] = @ + 1]
      BY <1>0, <1>2, <2>1 DEF keyAddr, PreAuth, Moves
    <3>2. ASSUME NEW n \in Networks
          PROVE  /\ perNet'[n] = Cardinality({d \in Sockets : netOf'[d] = n})
                 /\ perNet'[n] <= MaxConnsPerNet
      <4>1. /\ perNet[n] = Cardinality({d \in Sockets : netOf[d] = n}) /\ perNet[n] <= MaxConnsPerNet
        BY <1>0 DEF PreAuth
      <4>2. CASE net = n
        <5>1. perNet'[n] = perNet[n] + 1 /\ perNet[n] < MaxConnsPerNet
          BY <1>0, <2>1, <3>1, <4>2
        <5>2. Cardinality({d \in Sockets : netOf'[d] = n}) = Cardinality({d \in Sockets : netOf[d] = n}) + 1
          <6> DEFINE H == {d \in Sockets : netOf[d] = n}
                     G == {d \in Sockets : netOf'[d] = n}
          <6>1. H \in SUBSET Sockets /\ c \notin H /\ G = H \cup {c}
            BY <1>0, <3>1, <4>2
          <6> HIDE DEF H, G
          <6>2. Cardinality(G) = Cardinality(H) + 1
            BY <6>1, CountMembers
          <6> QED BY <6>2 DEF H, G
        <5> QED BY <1>0, <4>1, <5>1, <5>2
      <4>3. CASE net # n
        <5>1. perNet'[n] = perNet[n]
          BY <1>0, <3>1, <4>3
        <5>2. {d \in Sockets : netOf'[d] = n} = {d \in Sockets : netOf[d] = n}
          BY <1>0, <3>1, <4>3
        <5> QED BY <4>1, <5>1, <5>2
      <4> QED BY <4>2, <4>3
    <3> QED BY <1>0, <3>1, <3>2 DEF PreAuth
  <2>2. CASE ~(net = None \/ perNet[net] < MaxConnsPerNet)
    BY <1>0, <1>2, <2>2 DEF keyAddr, PreAuth, Moves, limiterVars
  <2> QED BY <2>1, <2>2
<1>3. CASE rpcHandle(c) \/ clearSlot(c)
  <2>1. clear(c) /\ pc' \in {[pc EXCEPT ![c] = "beforeDispatch"], [pc EXCEPT ![c] = "closed"]}
    BY <1>3 DEF rpcHandle, clearSlot, Moves
  <2> QED BY <1>0, <2>1, ClearCounts DEF PreAuth
<1>4. ASSUME /\ UNCHANGED PreAuthVars
             /\ \A d \in Sockets : pc'[d] = pc[d] \/ pc'[d] \notin {"closed", "address", "probe"}
      PROVE  PreAuth'
  BY <1>0, <1>4 DEF PreAuth, PreAuthVars
<1>5. CASE \/ probePreflight(c) \/ (\E k \in AuthKeys : runExchange(c, k) \/ getKey(c, k))
           \/ dispatchRPC(c) \/ acquireLoad(c) \/ acquireSwap(c) \/ bind(c) \/ bindAdd(c) \/ Disconnect(c)
           \/ releasePending(c) \/ releaseHold(c) \/ unbind(c)
  BY ZenonT(60), <1>0, <1>4, <1>5 DEF probePreflight, runExchange, getKey, dispatchRPC, acquireLoad, acquireSwap, bind, bindAdd,
        Disconnect, releasePending, releaseHold, unbind, nextFrame, Moves, limiterVars, PreAuthVars
<1>6. CASE beforeDispatch(c) \/ recharge(c)
  <2>1. frameKey[c] \in AuthKeys
    BY ZenonT(60), <1>6 DEF IInv, ConnectionTypes, FrameTypes, Frame, beforeDispatch, recharge
  <2>2. pc' \in {[pc EXCEPT ![c] = "dispatch"], [pc EXCEPT ![c] = "bind"], [pc EXCEPT ![c] = "releasePending"]}
    BY <1>6, <2>1, ChargeTypes DEF beforeDispatch, recharge
  <2> QED BY ZenonT(60), <1>0, <1>4, <1>6, <2>2 DEF beforeDispatch, recharge
<1> QED BY <1>1, <1>2, <1>3, <1>5, <1>6 DEF ConnectionStep

\* The holds: a key is charged once for each connection that holds it.
LEMMA ReleasedCounts ==
    ASSUME IInv, NEW c \in Sockets, chargedKey' = [chargedKey EXCEPT ![c] = None], NEW k \in AuthKeys
    PROVE  Released(c)[k] = Cardinality({d \in Sockets : chargedKey'[d] = k})
<1> DEFINE H == {d \in Sockets : chargedKey[d] = k}
           G == {d \in Sockets : chargedKey'[d] = k}
<1>1. chargedKey \in [Sockets -> AuthKeys \cup {None}] /\ unbound[k] \in Nat /\ unbound[k] = Cardinality(H)
  BY DEF IInv, ConnectionTypes, LimiterTypes, Hold
<1>2. Released(c)[k] = IF chargedKey[c] = k THEN unbound[k] - 1 ELSE unbound[k]
  BY ReleasedTypes
<1>3. CASE chargedKey[c] = k
  <2>1. H \in SUBSET Sockets /\ c \in H /\ G = H \ {c}
    BY <1>1, <1>3, ConnectionConstants
  <2> HIDE DEF H, G
  <2>2. Cardinality(G) = Cardinality(H) - 1
    BY <2>1, CountMembers
  <2> QED BY <1>1, <1>2, <1>3, <2>2 DEF G
<1>4. CASE chargedKey[c] # k
  <2>1. G = H
    BY <1>1, <1>4, ConnectionConstants
  <2> QED BY <1>1, <1>2, <1>4, <2>1
<1> QED BY <1>3, <1>4

\* A connection that takes a key's place is counted for that key.
LEMMA ChargedCounts ==
    ASSUME IInv, NEW c \in Sockets, NEW j \in AuthKeys, chargedKey[c] # j, unbound[j] < MaxConnsPerUnboundKey,
           unbound' = [Released(c) EXCEPT ![j] = @ + 1], chargedKey' = [chargedKey EXCEPT ![c] = j],
           NEW k \in AuthKeys
    PROVE  /\ unbound'[k] = Cardinality({d \in Sockets : chargedKey'[d] = k})
           /\ unbound'[k] <= MaxConnsPerUnboundKey
<1> DEFINE H == {d \in Sockets : chargedKey[d] = k}
           G == {d \in Sockets : chargedKey'[d] = k}
<1>1. /\ chargedKey \in [Sockets -> AuthKeys \cup {None}] /\ unbound[k] \in Nat /\ unbound[k] = Cardinality(H)
      /\ unbound[k] <= MaxConnsPerUnboundKey
  BY DEF IInv, ConnectionTypes, LimiterTypes, Hold
<1>2. /\ Released(c) \in [AuthKeys -> Nat]
      /\ Released(c)[k] = IF chargedKey[c] = k THEN unbound[k] - 1 ELSE unbound[k]
  BY ReleasedTypes
<1>m. MaxConnsPerUnboundKey \in Nat
  BY ConnectionConstants
<1>3. CASE k = j
  <2>1. H \in SUBSET Sockets /\ c \notin H /\ G = H \cup {c}
    BY <1>1, <1>3
  <2> HIDE DEF H, G
  <2>2. Cardinality(G) = Cardinality(H) + 1
    BY <2>1, CountMembers
  <2>3. unbound'[k] = unbound[k] + 1
    BY <1>2, <1>3
  <2> QED BY <1>1, <1>3, <1>m, <2>2, <2>3 DEF G
<1>4. CASE k # j /\ chargedKey[c] = k
  <2>1. H \in SUBSET Sockets /\ c \in H /\ G = H \ {c}
    BY <1>1, <1>4
  <2> HIDE DEF H, G
  <2>2. Cardinality(G) = Cardinality(H) - 1
    BY <2>1, CountMembers
  <2>3. unbound'[k] = unbound[k] - 1
    BY <1>2, <1>4
  <2> QED BY <1>1, <1>m, <2>2, <2>3 DEF G
<1>5. CASE k # j /\ chargedKey[c] # k
  <2>1. G = H
    BY <1>1, <1>5
  <2>2. unbound'[k] = unbound[k]
    BY <1>2, <1>5
  <2> QED BY <1>1, <2>1, <2>2
<1> QED BY <1>3, <1>4, <1>5

\* The hold on an unbound key: a frame takes it at most once, and the step that
\* ends the connection or binds it to a user gives it back.
LEMMA StepHold ==
    ASSUME IInv, NEW c \in Sockets, ConnectionStep(c)
    PROVE  Hold'
<1> USE ConnectionConstants
<1>0. /\ pc \in [Sockets -> Frame \cup Outside \cup Ending \cup {"read"}]
      /\ chargedKey \in [Sockets -> AuthKeys \cup {None}] /\ unbound \in [AuthKeys -> Nat]
      /\ Hold
  BY DEF IInv, ConnectionTypes, LimiterTypes, FrameTypes
<1>1. ASSUME /\ unbound' = Released(c) /\ chargedKey' = [chargedKey EXCEPT ![c] = None]
             /\ \E to : pc' = [pc EXCEPT ![c] = to]
      PROVE  Hold'
  <2>1. \A k \in AuthKeys : unbound'[k] = Cardinality({d \in Sockets : chargedKey'[d] = k})
    BY ZenonT(60), <1>1, ReleasedCounts
  <2>2. \A k \in AuthKeys : unbound'[k] <= MaxConnsPerUnboundKey
    <3> TAKE k \in AuthKeys
    <3>1. Released(c)[k] = unbound[k] - 1 \/ Released(c)[k] = unbound[k]
      BY ReleasedTypes
    <3>2. unbound[k] \in Nat /\ unbound[k] <= MaxConnsPerUnboundKey /\ MaxConnsPerUnboundKey \in Nat
      BY ZenonT(60), <1>0 DEF Hold
    <3> QED BY <1>1, <3>1, <3>2
  <2>3. \A d \in Sockets : pc'[d] \in Outside \cup {"unbind"} => chargedKey'[d] = None
    BY <1>0, <1>1 DEF Hold
  <2> QED BY <2>1, <2>2, <2>3 DEF Hold
<1>2. ASSUME /\ UNCHANGED HoldVars
             /\ \A d \in Sockets : \/ pc'[d] = pc[d] \/ pc'[d] \notin Outside \cup {"unbind"}
                                   \/ pc[d] \in Outside \cup {"unbind"}
      PROVE  Hold'
  BY <1>0, <1>2 DEF Hold, HoldVars
<1>3. CASE beforeDispatch(c) \/ recharge(c)
  <2>1. frameKey[c] \in AuthKeys
    BY <1>3 DEF IInv, ConnectionTypes, FrameTypes, Frame, beforeDispatch, recharge
  <2>2. ASSUME NEW user, NEW next \in {"dispatch", "bind"}, charge(c, user, next)
        PROVE  Hold'
    <3>1. CASE pc' = [pc EXCEPT ![c] = next] /\ UNCHANGED HoldVars
      BY <1>0, <1>2, <3>1 DEF Outside
    <3>2. CASE unbound' = Released(c) /\ chargedKey' = [chargedKey EXCEPT ![c] = None] /\ \E to : pc' = [pc EXCEPT ![c] = to]
      BY ZenonT(60), <1>1, <3>2
    <3>3. CASE /\ pc' = [pc EXCEPT ![c] = next]
               /\ chargedKey[c] # frameKey[c]
               /\ unbound[frameKey[c]] < MaxConnsPerUnboundKey
               /\ unbound' = [Released(c) EXCEPT ![frameKey[c]] = @ + 1]
               /\ chargedKey' = [chargedKey EXCEPT ![c] = frameKey[c]]
      <4>1. \A k \in AuthKeys : /\ unbound'[k] = Cardinality({d \in Sockets : chargedKey'[d] = k})
                                /\ unbound'[k] <= MaxConnsPerUnboundKey
        BY ZenonT(60), <2>1, <3>3, ChargedCounts
      <4>2. \A d \in Sockets : pc'[d] \in Outside \cup {"unbind"} => chargedKey'[d] = None
        BY <1>0, <3>3 DEF Hold, Outside
      <4> QED BY <4>1, <4>2 DEF Hold
    <3> QED BY ZenonT(60), <2>1, <2>2, <3>1, <3>2, <3>3, ChargeOutcomes
  <2>3. CASE frameUser[c] # None /\ beforeDispatch(c)
    BY <1>0, <1>2, <2>3 DEF beforeDispatch, Outside
  <2>4. CASE pc' = [pc EXCEPT ![c] = "releasePending"] /\ UNCHANGED HoldVars
    BY <1>0, <1>2, <2>4 DEF Outside
  <2> QED BY ZenonT(60), <1>3, <2>2, <2>3, <2>4 DEF beforeDispatch, recharge
<1>4. CASE releaseHold(c)
  BY ZenonT(60), <1>1, <1>4 DEF releaseHold, Moves
<1>5. CASE admit(c) \/ (\E n \in Networks \cup {None} : keyAddr(c, n)) \/ probePreflight(c)
  BY ZenonT(60), <1>0, <1>2, <1>5 DEF admit, keyAddr, probePreflight, Moves, limiterVars, HoldVars, Outside
<1>6. CASE (\E k \in AuthKeys : runExchange(c, k) \/ getKey(c, k)) \/ rpcHandle(c)
  BY <1>0, <1>2, <1>6 DEF runExchange, getKey, rpcHandle, nextFrame, Moves, limiterVars, HoldVars, Outside
<1>7. CASE dispatchRPC(c) \/ acquireLoad(c) \/ acquireSwap(c)
  BY <1>0, <1>2, <1>7 DEF dispatchRPC, acquireLoad, acquireSwap, Moves, limiterVars, HoldVars, Outside
<1>8. CASE bind(c) \/ bindAdd(c)
  BY <1>0, <1>2, <1>8 DEF bind, bindAdd, nextFrame, Moves, limiterVars, HoldVars, Outside
<1>9. CASE Disconnect(c) \/ releasePending(c) \/ unbind(c) \/ clearSlot(c)
  BY <1>0, <1>2, <1>9 DEF Disconnect, releasePending, unbind, clearSlot, Moves, limiterVars, HoldVars, Outside
<1> QED BY ZenonT(60), <1>3, <1>4, <1>5, <1>6, <1>7, <1>8, <1>9 DEF ConnectionStep

\* The pending logins: the swap that takes a place is made by a connection
\* that has none, on the count it compared with the cap.
LEMMA StepPending ==
    ASSUME IInv, NEW c \in Sockets, ConnectionStep(c)
    PROVE  Pending'
<1> USE ConnectionConstants
<1>0. /\ pc \in [Sockets -> Frame \cup Outside \cup Ending \cup {"read"}]
      /\ pendingCount \in Nat /\ pendingHeld \in SUBSET Sockets /\ loaded \in [Sockets -> Nat]
      /\ flagged \in [Sockets -> BOOLEAN] /\ observed \in [Sockets -> BOOLEAN]
      /\ Pending
  BY DEF IInv, ConnectionTypes, LimiterTypes, FrameTypes
<1>1. CASE acquireLoad(c)
  <2>1. pc[c] = "pendingLogin" /\ UNCHANGED <<pendingCount, pendingHeld, flagged>>
    BY ZenonT(60), <1>1 DEF acquireLoad
  <2>2. observed' = [observed EXCEPT ![c] = flagged[c]]
    BY ZenonT(60), <1>1 DEF acquireLoad
  <2>3. \/ /\ flagged[c] /\ loaded' = [loaded EXCEPT ![c] = pendingCount]
           /\ pc' = [pc EXCEPT ![c] = IF pendingCount >= MaxPendingLoginConns THEN "releasePending" ELSE "swap"]
           /\ ~observed[c]
        \/ pc' = [pc EXCEPT ![c] = "recharge"] /\ loaded' = loaded
    BY ZenonT(60), <1>1 DEF acquireLoad
  <2>4. \A e \in Sockets : e \in pendingHeld' => flagged'[e] /\ observed'[e]
    BY <1>0, <2>1, <2>2 DEF Pending
  <2>5. \A e \in Sockets : pc'[e] \in Outside \cup {"releaseHold", "unbind", "swap"} => e \notin pendingHeld'
    BY <1>0, <2>1, <2>3 DEF Pending, Outside
  <2>6. \A e \in Sockets : pc'[e] = "swap" => flagged'[e] /\ observed'[e] /\ loaded'[e] < MaxPendingLoginConns
    BY <1>0, <2>1, <2>2, <2>3 DEF Pending
  <2> QED BY <1>0, <2>1, <2>4, <2>5, <2>6 DEF Pending
<1>2. CASE acquireSwap(c)
  <2>1. CASE pendingCount = loaded[c]
    <3>1. /\ c \notin pendingHeld /\ flagged[c] /\ observed[c] /\ pendingCount < MaxPendingLoginConns
          /\ pendingHeld' = pendingHeld \cup {c} /\ pendingCount' = pendingCount + 1
          /\ pc' = [pc EXCEPT ![c] = "recharge"] /\ UNCHANGED <<flagged, observed>>
          /\ loaded' = [loaded EXCEPT ![c] = 0]
      BY <1>0, <1>2, <2>1 DEF acquireSwap, Pending
    <3>2. pendingCount' = Cardinality(pendingHeld') /\ pendingCount' <= MaxPendingLoginConns
      BY <1>0, <3>1, CountMembers DEF Pending
    <3>3. \A e \in Sockets : pc'[e] \in Outside \cup {"releaseHold", "unbind", "swap"} => e \notin pendingHeld'
      BY <1>0, <3>1 DEF Pending, Outside
    <3>4. \A e \in Sockets : pc'[e] = "swap" => flagged'[e] /\ observed'[e] /\ loaded'[e] < MaxPendingLoginConns
      BY <1>0, <3>1 DEF Pending
    <3>5. \A e \in Sockets : e \in pendingHeld' => flagged'[e] /\ observed'[e]
      BY <1>0, <3>1 DEF Pending
    <3> QED BY <3>2, <3>3, <3>4, <3>5 DEF Pending
  <2>2. CASE pendingCount # loaded[c]
    BY <1>0, <1>2, <2>2 DEF acquireSwap, Pending, Outside
  <2> QED BY <2>1, <2>2
<1>3. CASE releasePending(c)
  <2>1. pendingCount' = Cardinality(pendingHeld') /\ pendingCount' <= MaxPendingLoginConns
    <3>1. CASE c \in pendingHeld
      BY <1>0, <1>3, <3>1, CountMembers DEF releasePending, Pending
    <3>2. CASE c \notin pendingHeld
      <4>1. pendingHeld' = pendingHeld /\ pendingCount' = pendingCount
        BY <1>3, <3>2 DEF releasePending
      <4> QED BY <1>0, <4>1 DEF Pending
    <3> QED BY <3>1, <3>2
  <2> QED BY <1>0, <1>3, <2>1 DEF releasePending, Pending, Moves, Outside
<1>4. CASE dispatchRPC(c)
  BY <1>0, <1>4 DEF dispatchRPC, Pending, Moves, Outside
<1>5. ASSUME /\ UNCHANGED PendingVars
             /\ \A d \in Sockets : \/ pc'[d] = pc[d] \/ pc'[d] \notin Outside \cup {"releaseHold", "unbind", "swap"}
                                   \/ pc'[d] # "swap" /\ pc[d] \in Outside \cup {"releaseHold", "unbind"}
      PROVE  Pending'
  BY <1>0, <1>5 DEF Pending, PendingVars
<1>6. CASE beforeDispatch(c) \/ recharge(c)
  <2>1. frameKey[c] \in AuthKeys
    BY <1>6 DEF IInv, ConnectionTypes, FrameTypes, Frame, beforeDispatch, recharge
  <2>2. pc' \in {[pc EXCEPT ![c] = "dispatch"], [pc EXCEPT ![c] = "bind"], [pc EXCEPT ![c] = "releasePending"]}
    BY <1>6, <2>1, ChargeTypes DEF beforeDispatch, recharge
  <2>3. UNCHANGED PendingVars
    BY ZenonT(60), <1>6 DEF beforeDispatch, recharge
  <2> QED BY <1>0, <1>5, <2>2, <2>3 DEF Outside
<1>7. CASE \/ admit(c) \/ (\E n \in Networks \cup {None} : keyAddr(c, n)) \/ probePreflight(c)
           \/ Disconnect(c) \/ releaseHold(c) \/ unbind(c) \/ clearSlot(c)
  BY ZenonT(60), <1>0, <1>5, <1>7 DEF admit, keyAddr, probePreflight, Disconnect, releaseHold, unbind, clearSlot, Moves,
        limiterVars, PendingVars, Outside
<1>8. CASE \/ (\E k \in AuthKeys : runExchange(c, k) \/ getKey(c, k)) \/ rpcHandle(c) \/ bind(c) \/ bindAdd(c)
  <2>1. /\ UNCHANGED PendingVars
        /\ pc' = pc \/ \E to \in {"read", "decrypt", "beforeDispatch", "releasePending", "add"} : pc' = [pc EXCEPT ![c] = to]
    BY ZenonT(60), <1>8 DEF runExchange, getKey, rpcHandle, bind, bindAdd, nextFrame, Moves, limiterVars, PendingVars
  <2> QED BY ZenonT(60), <1>0, <1>5, <2>1 DEF Outside
<1> QED BY ZenonT(60), <1>1, <1>2, <1>3, <1>4, <1>6, <1>7, <1>8 DEF ConnectionStep

\* Leaving the registry, for whichever step does it.
LEMMA RemoveCounts ==
    ASSUME IInv, NEW c \in Sockets, RegistryRemove(c)
    PROVE  /\ registeredUser' = [registeredUser EXCEPT ![c] = None]
           /\ \A u \in Owners : /\ sessions'[u] = {d \in Sockets : registeredUser'[d] = u}
                                 /\ Cardinality(sessions'[u]) <= MaxUserConns
           /\ totalConns' = Cardinality({d \in Sockets : registeredUser'[d] # None})
<1> USE ConnectionConstants
<1>0. /\ sessions \in [Owners -> SUBSET Sockets] /\ totalConns \in Nat
      /\ registeredUser \in [Sockets -> Owners \cup {None}]
      /\ Registry
  BY DEF IInv, ConnectionTypes, SessionTypes
<1>1. CASE registeredUser[c] = None
  BY <1>0, <1>1 DEF RegistryRemove, registryVars, Registry
<1>2. CASE registeredUser[c] # None
  <2>1. /\ sessions' = [sessions EXCEPT ![registeredUser[c]] = @ \ {c}] /\ totalConns' = totalConns - 1
        /\ registeredUser' = [registeredUser EXCEPT ![c] = None]
    BY <1>2 DEF RegistryRemove
  <2>2. ASSUME NEW u \in Owners
        PROVE  sessions'[u] = {d \in Sockets : registeredUser'[d] = u} /\ Cardinality(sessions'[u]) <= MaxUserConns
    <3>1. sessions[u] = {d \in Sockets : registeredUser[d] = u} /\ Cardinality(sessions[u]) <= MaxUserConns
      BY <1>0 DEF Registry
    <3>2. CASE registeredUser[c] = u
      <4>1. sessions'[u] = sessions[u] \ {c} /\ c \in sessions[u] /\ sessions[u] \in SUBSET Sockets
        BY <1>0, <2>1, <3>1, <3>2
      <4>2. Cardinality(sessions'[u]) = Cardinality(sessions[u]) - 1 /\ Cardinality(sessions[u]) \in Nat
        BY <4>1, CountMembers
      <4> QED BY <1>0, <2>1, <3>1, <3>2, <4>1, <4>2
    <3>3. CASE registeredUser[c] # u
      BY <1>0, <2>1, <3>1, <3>3
    <3> QED BY <3>2, <3>3
  <2>3. totalConns' = Cardinality({d \in Sockets : registeredUser'[d] # None})
    <3> DEFINE H == {d \in Sockets : registeredUser[d] # None}
               G == {d \in Sockets : registeredUser'[d] # None}
    <3>1. H \in SUBSET Sockets /\ c \in H /\ G = H \ {c} /\ totalConns = Cardinality(H)
      BY <1>0, <1>2, <2>1 DEF Registry
    <3> HIDE DEF H, G
    <3>2. Cardinality(G) = Cardinality(H) - 1
      BY <3>1, CountMembers
    <3> QED BY <2>1, <3>1, <3>2 DEF G
  <2> QED BY <2>1, <2>2, <2>3
<1> QED BY <1>1, <1>2

\* The registry: what bind and the end of a connection do to it.
LEMMA StepRegistry ==
    ASSUME IInv, NEW c \in Sockets, ConnectionStep(c)
    PROVE  Registry'
<1> USE ConnectionConstants
<1>0. /\ pc \in [Sockets -> Frame \cup Outside \cup Ending \cup {"read"}]
      /\ frameUser \in [Sockets -> Owners \cup {None}]
      /\ sessions \in [Owners -> SUBSET Sockets] /\ totalConns \in Nat
      /\ registeredUser \in [Sockets -> Owners \cup {None}]
      /\ Registry
  BY DEF IInv, ConnectionTypes, SessionTypes, FrameTypes
<1>1. ASSUME /\ RegistryRemove(c)
             /\ \A d \in Sockets : d # c => pc'[d] = pc[d] /\ frameUser'[d] = frameUser[d]
             /\ pc'[c] = "add" => frameUser'[c] \in Owners
      PROVE  Registry'
  <2>1. \A d \in Sockets : /\ pc'[d] \in Outside \cup {"add"} => registeredUser'[d] = None
                           /\ pc'[d] = "add" => frameUser'[d] \in Owners
    <3>1. registeredUser' = [registeredUser EXCEPT ![c] = None]
      BY ZenonT(60), <1>1, RemoveCounts
    <3> QED BY <1>0, <1>1, <3>1 DEF Registry
  <2> QED BY <1>1, <2>1, RemoveCounts DEF Registry
<1>2. CASE \/ (\E k \in AuthKeys : runExchange(c, k)) \/ unbind(c)
  BY ZenonT(60), <1>0, <1>1, <1>2 DEF runExchange, unbind, Moves, frameVars, Registry
<1>3. ASSUME /\ UNCHANGED registryVars
             /\ \A d \in Sockets : \/ pc'[d] = pc[d] /\ frameUser'[d] = frameUser[d]
                                   \/ pc'[d] \notin Outside \cup {"add"}
                                   \/ pc'[d] # "add" /\ pc[d] \in Outside
      PROVE  Registry'
  BY ZenonT(60), <1>0, <1>3 DEF Registry, registryVars
<1>4. CASE bind(c)
  <2>1. CASE frameUser[c] = registeredUser[c]
    BY ZenonT(60), <1>0, <1>3, <1>4, <2>1 DEF bind, nextFrame, Outside
  <2>2. CASE frameUser[c] # registeredUser[c]
    BY ZenonT(60), <1>0, <1>1, <1>4, <2>2 DEF bind, nextFrame, frameVars
  <2> QED BY <2>1, <2>2
<1>5. CASE bindAdd(c)
  <2>1. frameUser[c] \in Owners /\ registeredUser[c] = None
    BY <1>0, <1>5 DEF bindAdd, Registry
  <2>2. CASE Cardinality(sessions[frameUser[c]]) >= MaxUserConns
    BY <1>0, <1>3, <1>5, <2>2 DEF bindAdd, frameVars, Outside
  <2>3. CASE ~(Cardinality(sessions[frameUser[c]]) >= MaxUserConns)
    <3>1. /\ sessions' = [sessions EXCEPT ![frameUser[c]] = @ \cup {c}] /\ totalConns' = totalConns + 1
          /\ registeredUser' = [registeredUser EXCEPT ![c] = frameUser[c]] /\ pc' = [pc EXCEPT ![c] = "read"]
          /\ frameUser' = [frameUser EXCEPT ![c] = None]
      BY <1>5, <2>3 DEF bindAdd, RegistryAdd, nextFrame
    <3>2. ASSUME NEW u \in Owners
          PROVE  sessions'[u] = {d \in Sockets : registeredUser'[d] = u} /\ Cardinality(sessions'[u]) <= MaxUserConns
      <4>1. sessions[u] = {d \in Sockets : registeredUser[d] = u} /\ Cardinality(sessions[u]) <= MaxUserConns
        BY <1>0 DEF Registry
      <4>2. CASE frameUser[c] = u
        <5>1. sessions'[u] = sessions[u] \cup {c} /\ c \notin sessions[u] /\ sessions[u] \in SUBSET Sockets
          BY <1>0, <2>1, <3>1, <4>1, <4>2
        <5>2. Cardinality(sessions'[u]) = Cardinality(sessions[u]) + 1 /\ Cardinality(sessions[u]) \in Nat
          BY ZenonT(60), <5>1, CountMembers
        <5>3. MaxUserConns \in Nat /\ ~(Cardinality(sessions[u]) >= MaxUserConns)
          BY <2>3, <4>2
        <5> QED BY <1>0, <3>1, <4>1, <4>2, <5>1, <5>2, <5>3
      <4>3. CASE frameUser[c] # u
        BY ZenonT(60), <1>0, <2>1, <3>1, <4>1, <4>3
      <4> QED BY <4>2, <4>3
    <3>3. totalConns' = Cardinality({d \in Sockets : registeredUser'[d] # None})
      <4> DEFINE H == {d \in Sockets : registeredUser[d] # None}
                 G == {d \in Sockets : registeredUser'[d] # None}
      <4>1. H \in SUBSET Sockets /\ c \notin H /\ G = H \cup {c} /\ totalConns = Cardinality(H)
        BY <1>0, <2>1, <3>1 DEF Registry
      <4> HIDE DEF H, G
      <4>2. Cardinality(G) = Cardinality(H) + 1
        BY <4>1, CountMembers
      <4> QED BY <3>1, <4>1, <4>2 DEF G
    <3>4. \A d \in Sockets : /\ pc'[d] \in Outside \cup {"add"} => registeredUser'[d] = None
                             /\ pc'[d] = "add" => frameUser'[d] \in Owners
      BY <1>0, <3>1 DEF Registry, Outside
    <3> QED BY <3>2, <3>3, <3>4 DEF Registry
  <2> QED BY ZenonT(60), <2>2, <2>3
<1>6. CASE beforeDispatch(c) \/ recharge(c)
  <2>1. frameKey[c] \in AuthKeys
    BY <1>6 DEF IInv, ConnectionTypes, FrameTypes, Frame, beforeDispatch, recharge
  <2>2. pc' \in {[pc EXCEPT ![c] = "dispatch"], [pc EXCEPT ![c] = "bind"], [pc EXCEPT ![c] = "releasePending"]}
    BY <1>6, <2>1, ChargeTypes DEF beforeDispatch, recharge
  <2>3. UNCHANGED <<registryVars, frameVars>>
    BY <1>6 DEF beforeDispatch, recharge
  <2> QED BY <1>0, <1>3, <2>2, <2>3 DEF Outside, frameVars
<1>7. CASE \/ admit(c) \/ (\E n \in Networks \cup {None} : keyAddr(c, n)) \/ probePreflight(c)
           \/ rpcHandle(c) \/ dispatchRPC(c) \/ acquireLoad(c) \/ acquireSwap(c)
           \/ Disconnect(c) \/ releasePending(c) \/ releaseHold(c) \/ clearSlot(c)
  BY ZenonT(60), <1>0, <1>3, <1>7 DEF admit, keyAddr, probePreflight, rpcHandle, dispatchRPC, acquireLoad, acquireSwap,
        Disconnect, releasePending, releaseHold, clearSlot, Moves, frameVars, Outside
<1>8. CASE \E k \in AuthKeys : getKey(c, k)
  BY ZenonT(60), <1>0, <1>3, <1>8 DEF getKey, Moves, frameVars, Outside
<1> QED BY ZenonT(60), <1>2, <1>4, <1>5, <1>6, <1>7, <1>8 DEF ConnectionStep

-----------------------------------------------------------------------------
(* The theorems.                                                           *)

\* The inductive invariant holds of every behaviour.
THEOREM ConnectionsInductive == ConnectionSpec => []IInv
<1>1. ConnectionInit => IInv
  <2> SUFFICES ASSUME ConnectionInit PROVE IInv
    OBVIOUS
  <2>1. ConnectionTypes
    BY ConnectionConstants
    DEF ConnectionInit, ConnectionTypes, LimiterTypes, SessionTypes, FrameTypes, Frame, Outside, Ending
  <2>2. /\ \A n \in Networks : {c \in Sockets : netOf[c] = n} = {}
        /\ \A k \in AuthKeys : {c \in Sockets : chargedKey[c] = k} = {}
        /\ \A u \in Owners : {c \in Sockets : registeredUser[c] = u} = {}
        /\ {c \in Sockets : registeredUser[c] # None} = {}
    BY ConnectionConstants DEF ConnectionInit
  <2>c. Cardinality({}) = 0
    BY FS_EmptySet
  <2>m. /\ MaxConns \in Nat /\ MaxConnsPerNet \in Nat /\ MaxConnsPerUnboundKey \in Nat
        /\ MaxPendingLoginConns \in Nat /\ MaxUserConns \in Nat
    BY ConnectionConstants
  <2>n. /\ \A n \in Networks : Cardinality({c \in Sockets : netOf[c] = n}) = 0
        /\ \A k \in AuthKeys : Cardinality({c \in Sockets : chargedKey[c] = k}) = 0
        /\ Cardinality({c \in Sockets : registeredUser[c] # None}) = 0
    BY <2>2, <2>c, Zenon
  <2>3. PreAuth
    <3>1. /\ preConns = 0 /\ slots = {} /\ \A n \in Networks : perNet[n] = 0
          /\ \A c \in Sockets : pc[c] = "closed" /\ netOf[c] = None
      BY DEF ConnectionInit
    <3> QED BY <2>n, <2>c, <2>m, <3>1 DEF PreAuth
  <2>4. Hold
    <3>1. (\A k \in AuthKeys : unbound[k] = 0) /\ (\A c \in Sockets : chargedKey[c] = None)
      BY DEF ConnectionInit
    <3> QED BY <2>n, <2>m, <3>1 DEF Hold
  <2>5. Pending
    BY <2>c, <2>m DEF ConnectionInit, Pending
  <2>6. Registry
    <3>1. /\ \A u \in Owners : sessions[u] = {}
          /\ totalConns = 0 /\ \A c \in Sockets : registeredUser[c] = None /\ pc[c] = "closed"
      BY DEF ConnectionInit
    <3>2. \A u \in Owners : /\ sessions[u] = {c \in Sockets : registeredUser[c] = u}
                            /\ Cardinality(sessions[u]) <= MaxUserConns
      BY <2>2, <2>c, <2>m, <3>1
    <3> QED BY <2>n, <3>1, <3>2 DEF Registry
  <2> QED BY <2>1, <2>3, <2>4, <2>5, <2>6 DEF IInv
<1>2. IInv /\ [ConnectionNext]_connectionVars => IInv'
  <2> SUFFICES ASSUME IInv, [ConnectionNext]_connectionVars PROVE IInv'
    OBVIOUS
  <2>1. ASSUME NEW c \in Sockets, ConnectionStep(c) PROVE IInv'
    BY <2>1, StepTypes, StepPreAuth, StepHold, StepPending, StepRegistry DEF IInv
  <2>2. CASE UNCHANGED connectionVars
    <3> USE <2>2 DEF connectionVars, limiterVars, registryVars, frameVars
    <3>1. LimiterTypes' /\ SessionTypes'
      BY DEF IInv, ConnectionTypes, LimiterTypes, SessionTypes
    <3>2. FrameTypes'
      BY DEF IInv, ConnectionTypes, FrameTypes
    <3>3. PreAuth'
      BY DEF IInv, PreAuth
    <3>4. Hold' /\ Pending'
      BY DEF IInv, Hold, Pending
    <3>5. Registry'
      BY DEF IInv, Registry
    <3> QED BY ZenonT(60), <3>1, <3>2, <3>3, <3>4, <3>5 DEF IInv, ConnectionTypes
  <2> QED BY <2>1, <2>2 DEF ConnectionNext
<1> QED BY <1>1, <1>2, PTL DEF ConnectionSpec

\* Every limiter is given back exactly once and never exceeds its cap, for any
\* caps and any number of connections, networks, keys and users.
THEOREM EverySlotIsAccounted == ConnectionSpec => []SlotsAccounted
<1>1. IInv => SlotsAccounted
  <2> SUFFICES ASSUME IInv PROVE SlotsAccounted
    OBVIOUS
  <2>1. {u \in Owners : sessions[u] # {}} = {u \in Owners : \E c \in Sockets : registeredUser[c] = u}
    BY DEF IInv, Registry
  <2>2. TotalSessions = Cardinality({u \in Owners : \E c \in Sockets : registeredUser[c] = u})
    BY ZenonT(60), <2>1 DEF TotalSessions
  <2>3. \A c \in Sockets : pc[c] = "closed" =>
          /\ c \notin slots \cup pendingHeld
          /\ netOf[c] = None /\ chargedKey[c] = None /\ registeredUser[c] = None
    BY ZenonT(60) DEF IInv, PreAuth, Hold, Pending, Registry, Outside
  <2> QED BY ZenonT(60), <2>2, <2>3 DEF IInv, PreAuth, Hold, Pending, Registry, SlotsAccounted, TotalConns
<1> QED BY <1>1, ConnectionsInductive, PTL
=============================================================================
