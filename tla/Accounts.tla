-------------------------------- MODULE Accounts --------------------------------
(* Logging in: codes, sign-in, sign-up by invite, the second factor, sessions *)
(* and the quotas in front of them.  A call of the API runs in a slot as a    *)
(* program: one step for each statement or transaction, so that everything it *)
(* has read may be stale by its next step.  Two transactions hold a lock over *)
(* two steps: AttemptSignIn that of its network, AdmitUsername its key's row. *)
EXTENDS AccountTables

CONSTANTS
  Slots,           \* calls in progress at once
  Secrets,         \* sequence: the secret of each invite
  Reserved,        \* handles nobody may take
  Operator         \* the handle of the operator's account

VARIABLES
  mix,      \* the scenario: what is called and what the bounds are
  call,     \* slot -> the call it runs
  made,     \* number of calls begun
  issued    \* history, by challenge id: [key, user, spent]

vars == <<now, quotas, tables, mix, call, made, issued>>

NoTicket == [user |-> 0, clear |-> FALSE]
Idle == [op |-> "none", todo |-> <<>>]

\* The handlers: their steps, in order, when nothing is refused
handleSendCode == <<"chargeIP", "issueCode">>
handleSignInPhone == <<"attempt", "verdict", "secondFactor", "enter">>
handleSignInUsername == <<"checkHash", "resolveName", "hasVerifier", "pend">>
handleSignUp == <<"limit", "unbound", "admit", "admitted">>
handleLogOut == <<"revoke">>
handleGetPassword == <<"target", "verifier", "limit", "challenge">>
handleCheckPassword ==
  <<"pendingUser", "reserve", "reserveIP", "consume", "verify", "refund", "refundIP", "promote">>
handleUpdatePasswordSettings == <<"current", "reserve", "consume", "verify", "refund", "write">>
handleGetPasswordSettings == <<"reserve", "consume", "verify", "refund">>
handleResetAuthorization == <<"findKey", "revoke">>
handleUpdateProfile == <<"limit", "rename">>
handleContactsSearch == <<"limit", "lookName">>
handleResolveUsername == <<"lookName">>
handleResolvePhone == <<"lookPhone">>
handleAddContact == <<"addContact">>
handleDeleteContacts == <<"dropContacts">>

Program(op) ==
  CASE op = "sendCode"       -> handleSendCode
    [] op = "signIn"         -> handleSignInPhone
    [] op = "signInName"     -> handleSignInUsername
    [] op = "signUp"         -> handleSignUp
    [] op = "getPassword"    -> handleGetPassword
    [] op = "checkPassword"  -> handleCheckPassword
    [] op = "setPassword"    -> handleUpdatePasswordSettings
    [] op = "getSettings"    -> handleGetPasswordSettings
    [] op = "logOut"         -> handleLogOut
    [] op = "reset"          -> handleResetAuthorization
    [] op = "profile"        -> handleUpdateProfile
    [] op = "search"         -> handleContactsSearch
    [] op = "resolveName"    -> handleResolveUsername
    [] op = "resolvePhone"   -> handleResolvePhone
    [] op = "addContact"     -> handleAddContact
    [] op = "deleteContacts" -> handleDeleteContacts

\* the counter a step of a call charges
Surface(s, step) ==
  LET op == call[s].op IN
  CASE op = "signUp"        -> "sign_up_ip"
    [] op = "checkPassword" -> IF step = "reserveIP" THEN "check_password_ip" ELSE "check_password"
    [] op \in {"setPassword", "getSettings"} -> "password_proof"
    [] op = "profile"       -> "update_profile"
    [] op = "search"        -> "contacts_search"
    [] op = "getPassword"   -> IF call[s].me = 0 THEN "get_password_ip" ELSE "get_password"

NeedsUser == {"setPassword", "getSettings", "reset", "profile", "search", "resolveName",
              "resolvePhone", "addContact", "deleteContacts"}
provisionalAllowList == {"getPassword", "setPassword", "logOut"}
provisionalBlocked(op, k) == Provisional(k) /\ op \notin provisionalAllowList

\* what a caller may present as a hash or as a challenge's id
Presented(op) ==
  CASE op \in {"signIn", "signInName", "signUp"} -> DOMAIN codes
    [] op \in {"checkPassword", "setPassword", "getSettings"} -> IF issued = <<>> THEN {0} ELSE DOMAIN issued
    [] OTHER -> {0}

Init ==
  /\ now = 0 /\ made = 0
  /\ windows = <<>> /\ ledger = <<>> /\ askedFor = {} /\ lookups = {}
  /\ invites = <<>> /\ contacts = {}
  /\ call = [s \in Slots |-> Idle]

\* a request is read with the user its key has at that moment
Begin(s) ==
  /\ call[s] = Idle
  /\ made < mix.budget
  /\ \E a \in mix.calls : \E ref \in Presented(a.op) :
       /\ AuthKeyByID(a.key)
       /\ ~provisionalBlocked(a.op, a.key)
       /\ a.op \in NeedsUser => UserOf(a.key) # 0
       /\ call' = [call EXCEPT ![s] =
            [op |-> a.op, todo |-> Program(a.op), key |-> a.key, ip |-> a.ip, who |-> a.who,
             word |-> a.word, proof |-> a.proof, new |-> a.new, ref |-> ref, me |-> UserOf(a.key), user |-> UserOf(a.key),
             seen |-> 0, row |-> <<>>, begun |-> now, own |-> -1, net |-> -1,
             ticket |-> NoTicket, proved |-> 0]]
  /\ made' = made + 1
  /\ UNCHANGED <<now, quotas, tables, mix, issued>>

---------------------------------------------------------------------------
(* Steps.  Doing(s, x): slot s is at step x. *)

Doing(s, x) == call[s].todo # <<>> /\ Head(call[s].todo) = x

\* the call goes on as c with what is left to do
GoOn(s, c, todo) == call' = [call EXCEPT ![s] = IF todo = <<>> THEN Idle ELSE [c EXCEPT !.todo = todo]]
Next1(s, c) == GoOn(s, c, Tail(call[s].todo))
Done(s) == call' = [call EXCEPT ![s] = Idle]

\* the row of a key is locked from LockUnboundAuthKey to the commit
KeyRowFree(s, k) == \A o \in Slots \ {s} : Doing(o, "admitted") => call[o].key # k

\* the network's advisory lock is held by AttemptSignIn
NetworkFree(s) == \A o \in Slots \ {s} : Doing(o, "verdict") => call[o].ip # call[s].ip

\* the counter and its subject: a network, or the account
Counter(s, surface) ==
  <<surface, IF surface \in {"sign_up_ip", "check_password_ip", "get_password_ip"}
             THEN call[s].ip ELSE call[s].user>>

\* CheckRateLimitCost of one token, and ReserveRateLimit: takes when its query writes a row,
\* and c is then the call with the token
TakeToken(s, surface, takes, c) ==
  LET k == Counter(s, surface) IN
  IF ~Enabled(surface) THEN Next1(s, call[s]) /\ UNCHANGED <<windows, ledger>>
  ELSE IF takes THEN Grant(k, now, 1) /\ Next1(s, c)
  ELSE GoOn(s, call[s], <<"denied">> \o call[s].todo) /\ UNCHANGED <<windows, ledger>>

TokenStart(s, surface) == Charged(Counter(s, surface), now, 1).start

\* the second read of a denied caller: a row swept meanwhile lets it through
Denied(s) ==
  /\ Doing(s, "denied")
  /\ LET step == call[s].todo[2]
         k == Counter(s, Surface(s, step)) IN
     IF ~GetRateLimitExpiresAt(k) THEN GoOn(s, call[s], Tail(Tail(call[s].todo)))
     ELSE IF step = "reserveIP" THEN GoOn(s, call[s], <<"refund">>)
     ELSE Done(s)
  /\ UNCHANGED <<now, quotas, tables, mix, made, issued>>

checkRateLimit(s) ==
  /\ Doing(s, "limit")
  /\ IF call[s].op = "getPassword" /\ call[s].seen = 0
     THEN Next1(s, call[s]) /\ UNCHANGED <<windows, ledger>>
     ELSE LET k == Counter(s, Surface(s, "limit")) IN
          TakeToken(s, Surface(s, "limit"), TryConsumeRateLimitCost(k, now, 1), call[s])
  /\ UNCHANGED <<now, askedFor, lookups, tables, mix, made, issued>>

ReserveRateLimit(s) ==
  /\ Doing(s, "reserve")
  /\ TakeToken(s, Surface(s, "reserve"), TryConsumeRateLimit(Counter(s, Surface(s, "reserve")), now),
               [call[s] EXCEPT !.own = TokenStart(s, Surface(s, "reserve"))])
  /\ UNCHANGED <<now, askedFor, lookups, tables, mix, made, issued>>

reserveRateLimitIP(s) ==
  /\ Doing(s, "reserveIP")
  /\ TakeToken(s, "check_password_ip", TryConsumeRateLimit(Counter(s, "check_password_ip"), now),
               [call[s] EXCEPT !.net = TokenStart(s, "check_password_ip")])
  /\ UNCHANGED <<now, askedFor, lookups, tables, mix, made, issued>>

\* a reservation that was never made is not refunded
Refund(s) ==
  /\ Doing(s, "refund")
  /\ IF call[s].own = -1 THEN UNCHANGED <<windows, ledger>>
     ELSE RefundRateLimit(Counter(s, Surface(s, "reserve")), call[s].own)
  /\ Next1(s, call[s])
  /\ UNCHANGED <<now, askedFor, lookups, tables, mix, made, issued>>

refundRateLimitIP(s) ==
  /\ Doing(s, "refundIP")
  /\ IF call[s].net = -1 THEN UNCHANGED <<windows, ledger>>
     ELSE RefundRateLimit(Counter(s, "check_password_ip"), call[s].net)
  /\ Next1(s, call[s])
  /\ UNCHANGED <<now, askedFor, lookups, tables, mix, made, issued>>

---------------------------------------------------------------------------
(* auth.sendCode *)

checkSendCodeIP(s) ==
  LET c == call[s] IN
  /\ Doing(s, "chargeIP")
  /\ CheckAndChargeSendCodeIP(c.ip, c.who, c.begun)
  /\ IF SendCodeIPAllowed(c.ip, c.who, c.begun) THEN Next1(s, [c EXCEPT !.begun = now]) ELSE Done(s)
  /\ UNCHANGED <<now, lookups, tables, mix, made, issued>>

Cooling(h) == codes[h].state # "consumed" /\ now - codes[h].created < ResendCooldown

\* the cooldown is a phone's; a username's codes are not limited, and take one statement
IssueCode(s) ==
  LET c == call[s]
      phone == c.who \in mix.phones
      latest == IF phone THEN GetLatestCode(c.who) ELSE {} IN
  /\ Doing(s, "issueCode")
  /\ \/ (\E h \in latest : Cooling(h)) /\ UNCHANGED codes
     \/ /\ latest = {} \/ \E h \in latest : ~Cooling(h)
        /\ \E began \in (IF phone THEN c.begun ELSE now) .. now : codes' = InsertCode(c.who, began)
  /\ Done(s)
  /\ UNCHANGED <<now, quotas, keys, users, names, passwords, invites, election, states, contacts,
                 challenges, mix, made, issued>>

---------------------------------------------------------------------------
(* auth.signIn with a phone number *)

\* AttemptSignIn up to the read of the code, under the network's lock
AttemptSignIn(s) ==
  LET c == call[s] IN
  /\ Doing(s, "attempt")
  /\ Enabled("sign_in_fail") => NetworkFree(s)
  /\ IF Enabled("sign_in_fail") /\ CheckSignInFailBudget(<<"sign_in_fail", c.ip>>)
     THEN Done(s)
     ELSE Next1(s, [c EXCEPT !.row = IF GetCodeByHash(c.ref) THEN <<codes[c.ref]>> ELSE <<>>])
  /\ UNCHANGED <<now, quotas, tables, mix, made, issued>>

\* verifyCodeWith, from the row that was read: the codes it leaves, and whether it is right
RowStands(c) ==
  /\ c.row # <<>>
  /\ LET row == c.row[1] IN
     row.who = c.who /\ row.state = "open" /\ now <= row.expires
       /\ row.attempts < MaxAttempts

verifyCodeWith(c) ==
  LET t == IF Enabled("sign_in_fail") THEN c.begun ELSE now
      swap == ConsumeCode(c.ref, c.who, c.word, t) IN
  IF ~RowStands(c) THEN [right |-> FALSE, codes |-> codes]
  ELSE IF c.row[1].code # c.word THEN [right |-> FALSE, codes |-> IncrementCodeAttempts(c.ref)]
  ELSE IF swap = {} THEN [right |-> FALSE, codes |-> codes]
  ELSE [right |-> TRUE, codes |-> CHOOSE new \in swap : TRUE]

\* history: what an account's code entitles its bearer to, if it was not used before
TicketFor(c) ==
  LET us == UserByPhone(c.who) IN
  IF us = {} \/ codes[c.ref].state # "open" THEN NoTicket
  ELSE LET u == CHOOSE u \in us : TRUE IN [user |-> u, clear |-> PasswordByUser(u) = 0]

\* the rest of AttemptSignIn: a refusal is charged, or everything is rolled back
verdict(s) ==
  LET c == call[s]
      v == verifyCodeWith(c)
      right == v.right /\ UserByPhone(c.who) # {}
      k == <<"sign_in_fail", c.ip>> IN
  /\ Doing(s, "verdict")
  /\ IF right
     THEN /\ codes' = v.codes
          /\ Next1(s, [c EXCEPT !.row = <<>>, !.ticket = TicketFor(c),
                                 !.user = CHOOSE u \in UserByPhone(c.who) : TRUE])
          /\ UNCHANGED <<windows, ledger>>
     ELSE /\ IF ~Enabled("sign_in_fail") THEN codes' = v.codes /\ UNCHANGED <<windows, ledger>>
             ELSE IF ChargeSignInFailCall(k, c.begun)
             THEN codes' = v.codes /\ Grant(k, c.begun, 1)
             ELSE UNCHANGED <<codes, windows, ledger>>
          /\ Done(s)
  /\ UNCHANGED <<now, askedFor, lookups, keys, users, names, passwords, invites, election, states,
                 contacts, challenges, mix, made, issued>>

\* handleSignInPhone after AttemptSignIn: the password is read, and then acted on
secondFactor(s) ==
  /\ Doing(s, "secondFactor")
  /\ Next1(s, [call[s] EXCEPT !.seen = PasswordByUser(call[s].user)])
  /\ UNCHANGED <<now, quotas, tables, mix, made, issued>>

enter(s) ==
  LET c == call[s]
      new == IF c.seen # 0 THEN SetPendingUser(c.key, c.user) ELSE BindAuthKeyUser(c.key, c.user) IN
  /\ Doing(s, "enter")
  /\ KeyRowFree(s, c.key)
  /\ IF new = {} THEN UNCHANGED keys ELSE keys' \in new
  /\ Done(s)
  /\ UNCHANGED <<now, quotas, codes, users, names, passwords, invites, election, states, contacts,
                 challenges, mix, made, issued>>

---------------------------------------------------------------------------
(* auth.signIn with a username *)

CheckCodeHash(s) ==
  LET c == call[s] IN
  /\ Doing(s, "checkHash")
  /\ IF GetCodeByHashAndPhone(c.ref, c.who) /\ validateCodeHash(codes[c.ref])
     THEN Next1(s, c) ELSE Done(s)
  /\ UNCHANGED <<now, quotas, tables, mix, made, issued>>

\* an unknown name is told to sign up, and what it sent may be an invite's secret
resolveName(s) ==
  LET c == call[s]
      found == GetUserByUsernameWithLoginMode(c.who) IN
  /\ Doing(s, "resolveName")
  /\ IF found = {}
     THEN IF c.word # "" /\ ~isGeneratedCode(c.word) THEN GoOn(s, c, <<"setCode">>) ELSE Done(s)
     ELSE LET u == CHOOSE u \in found : TRUE IN
          IF GetUserLoginMode(u) = "username" THEN Next1(s, [c EXCEPT !.user = u]) ELSE Done(s)
  /\ UNCHANGED <<now, quotas, tables, mix, made, issued>>

SetCodeForUsername(s) ==
  LET new == SetCodeByHashAndPhone(call[s].ref, call[s].who, capPhoneCode(call[s].word)) IN
  /\ Doing(s, "setCode")
  /\ IF new = {} THEN UNCHANGED codes ELSE codes' \in new
  /\ Done(s)
  /\ UNCHANGED <<now, quotas, keys, users, names, passwords, invites, election, states, contacts,
                 challenges, mix, made, issued>>

hasVerifier(s) ==
  /\ Doing(s, "hasVerifier")
  /\ IF PasswordByUser(call[s].user) # 0 THEN Next1(s, call[s]) ELSE Done(s)
  /\ UNCHANGED <<now, quotas, tables, mix, made, issued>>

pend(s) ==
  LET new == SetPendingUser(call[s].key, call[s].user) IN
  /\ Doing(s, "pend")
  /\ KeyRowFree(s, call[s].key)
  /\ IF new = {} THEN UNCHANGED keys ELSE keys' \in new
  /\ Done(s)
  /\ UNCHANGED <<now, quotas, codes, users, names, passwords, invites, election, states, contacts,
                 challenges, mix, made, issued>>

---------------------------------------------------------------------------
(* auth.signUp *)

unbound(s) ==
  /\ Doing(s, "unbound")
  /\ IF AuthKeyByID(call[s].key) /\ UserOf(call[s].key) = 0 /\ call[s].who \notin Reserved
     THEN Next1(s, [call[s] EXCEPT !.begun = now]) ELSE Done(s)
  /\ UNCHANGED <<now, quotas, tables, mix, made, issued>>

\* AdmitUsername: the key's row is locked, the code and the name are read
AdmitUsername(s) ==
  LET c == call[s] IN
  /\ Doing(s, "admit")
  /\ KeyRowFree(s, c.key)
  /\ IF /\ LockUnboundAuthKey(c.key)
        /\ GetCodeByHashAndPhone(c.ref, c.who) /\ validateCodeHash(codes[c.ref])
        /\ ~GetUsernameByHandle(c.who)
     THEN Next1(s, [c EXCEPT !.row = <<codes[c.ref]>>]) ELSE Done(s)
  /\ UNCHANGED <<now, quotas, tables, mix, made, issued>>

\* the invites after the handle's live one is spent on this secret, or none
\* mutant: the invite is verified, as VerifyInvite does, and not spent
OnlyVerifyInvite(handle, secret) ==
  {invites : i \in {i \in LiveRegistrationInviteForUpdate(handle) :
                      invites[i].expires > now /\ inviteSecretMatches(i, secret)}}
ConsumeInvite(handle, secret) ==
  UNION {IF inviteSecretMatches(i, secret) THEN ConsumeRegistrationInvite(i, secret) ELSE {} :
           i \in LiveRegistrationInviteForUpdate(handle)}

\* ... and the commit: invite, code, account, name, election and key together
admitted(s) ==
  LET c == call[s]
      u == NextUser
      spent == IF mix.invited THEN ConsumeInvite(c.who, c.row[1].code) ELSE {invites}
      swap == ConsumeCodeForUsername(c.ref, c.who, c.begun)
      claim == ClaimUsername(c.who, u)
      bound == BindAuthKeyUser(c.key, u) IN
  /\ Doing(s, "admitted")
  /\ IF spent # {} /\ swap # {} /\ claim # {} /\ bound # {}
     THEN /\ invites' \in spent /\ codes' \in swap /\ names' \in claim /\ keys' \in bound
          /\ users' = Put(users, u, SetUsername(CreateUsernameUser(""), c.who))
          /\ states' = states \cup {u}
          /\ election' = ElectServerAdministrator(u)
     ELSE UNCHANGED <<invites, codes, names, keys, users, states, election>>
  /\ Done(s)
  /\ UNCHANGED <<now, quotas, passwords, contacts, challenges, mix, made, issued>>

---------------------------------------------------------------------------
(* The second factor *)

\* resolvePasswordUser and resolvePendingUserID: the key's user, or the one it waits to be
resolvePasswordUser(s) ==
  LET c == call[s]
      u == IF c.me # 0 THEN c.me ELSE PendingOf(c.key) IN
  /\ Doing(s, "target") \/ Doing(s, "pendingUser")
  /\ IF u = 0 THEN Done(s) ELSE Next1(s, [c EXCEPT !.user = u])
  /\ UNCHANGED <<now, quotas, tables, mix, made, issued>>

readVerifier(s) ==
  /\ Doing(s, "verifier")
  /\ Next1(s, [call[s] EXCEPT !.seen = PasswordByUser(call[s].user)])
  /\ UNCHANGED <<now, quotas, tables, mix, made, issued>>

\* h.srp.Issue for the verifier that was read
issueChallenge(s) ==
  LET c == call[s]
      id == Len(issued) + 1 IN
  /\ Doing(s, "challenge")
  /\ IF c.seen = 0 THEN UNCHANGED <<challenges, issued>>
     ELSE /\ challenges' = Issue(id, c.key, c.user, c.seen)
          /\ issued' = Append(issued, [key |-> c.key, user |-> c.user, spent |-> FALSE])
  /\ Done(s)
  /\ UNCHANGED <<now, quotas, codes, keys, users, names, passwords, invites, election, states,
                 contacts, mix, made>>

\* consumeAndVerify: the challenge is spent, then the password is read again
consumeChallenge(s) ==
  LET c == call[s] IN
  /\ Doing(s, "consume")
  /\ challenges' = Consume(c.ref, c.key)
  /\ IF Consumable(c.ref, c.key)
     THEN Next1(s, [c EXCEPT !.row = <<challenges[c.ref]>>,
                             !.proved = IF issued[c.ref].spent \/ issued[c.ref].key # c.key
                                        THEN 0 ELSE issued[c.ref].user])
     ELSE Done(s)
  /\ issued' = IF c.ref \in DOMAIN issued /\ issued[c.ref].key = c.key
               THEN [issued EXCEPT ![c.ref].spent = TRUE] ELSE issued
  /\ UNCHANGED <<now, quotas, codes, keys, users, names, passwords, invites, election, states,
                 contacts, mix, made>>

\* the proof holds for one password, that of the challenge and of the account now
verifyProof(s) ==
  LET c == call[s]
      p == c.row[1]
      holds == PasswordByUser(p.user) # 0 /\ PasswordByUser(p.user) = p.verifier /\ c.proof = p.verifier
  IN
  /\ Doing(s, "verify")
  /\ IF holds /\ (c.op # "checkPassword" => p.user = c.me)
     THEN Next1(s, [c EXCEPT !.row = <<>>, !.seen = p.user,
                             !.proved = IF PasswordByUser(@) = c.proof THEN @ ELSE 0])
     ELSE Done(s)
  /\ UNCHANGED <<now, quotas, tables, mix, made, issued>>

\* mutant: the key is given to whoever proved a password
PromoteAnyone(s) ==
  LET new == BindAuthKeyUser(call[s].key, call[s].seen) IN
  /\ Doing(s, "promote")
  /\ KeyRowFree(s, call[s].key)
  /\ IF new = {} THEN UNCHANGED keys ELSE keys' \in new
  /\ Done(s)
  /\ UNCHANGED <<now, quotas, codes, users, names, passwords, invites, election, states, contacts,
                 challenges, mix, made, issued>>
promote(s) ==
  LET new == PromotePendingUser(call[s].key, call[s].seen) IN
  /\ Doing(s, "promote")
  /\ KeyRowFree(s, call[s].key)
  /\ IF new = {} THEN UNCHANGED keys ELSE keys' \in new
  /\ Done(s)
  /\ UNCHANGED <<now, quotas, codes, users, names, passwords, invites, election, states, contacts,
                 challenges, mix, made, issued>>

\* account.updatePasswordSettings: a first password needs no proof; 0 removes it
currentPassword(s) ==
  LET c == call[s] IN
  /\ Doing(s, "current")
  /\ IF c.new = 0 /\ GetUserLoginMode(c.me) = "username" THEN Done(s)
     ELSE IF PasswordByUser(c.me) = 0 THEN GoOn(s, c, <<"write">>)
     ELSE Next1(s, c)
  /\ UNCHANGED <<now, quotas, tables, mix, made, issued>>

\* history: whoever holds a ticket for an account that has no password any more may enter
Cleared(u) ==
  [s \in Slots |-> IF call[s] # Idle /\ call[s].ticket.user = u
                   THEN [call[s] EXCEPT !.ticket.clear = TRUE] ELSE call[s]]

writePassword(s) ==
  LET c == call[s] IN
  /\ Doing(s, "write")
  /\ IF c.new = 0
     THEN passwords' = DeletePassword(c.me) /\ call' = [Cleared(c.me) EXCEPT ![s] = Idle]
     ELSE /\ passwords' = IF c.new < 0 THEN passwords ELSE UpsertPassword(c.me, c.new)
          /\ Done(s)
  /\ UNCHANGED <<now, quotas, codes, keys, users, names, invites, election, states, contacts,
                 challenges, mix, made, issued>>

---------------------------------------------------------------------------
(* Sessions, profile, lookups and contacts *)

\* account.resetAuthorization: only a key of the caller's own
ownKey(s) ==
  LET c == call[s] IN
  /\ Doing(s, "findKey")
  /\ IF AuthKeyByID(c.who) /\ UserOf(c.who) = c.me THEN Next1(s, c) ELSE Done(s)
  /\ UNCHANGED <<now, quotas, tables, mix, made, issued>>

\* DeleteAuthKey by auth.logOut of the caller's key, or by the above of the one it named
revoke(s) ==
  LET k == IF call[s].op = "logOut" THEN call[s].key ELSE call[s].who IN
  /\ Doing(s, "revoke")
  /\ KeyRowFree(s, k)
  /\ keys' = DeleteAuthKey(k)
  /\ Done(s)
  /\ UNCHANGED <<now, quotas, codes, users, names, passwords, invites, election, states, contacts,
                 challenges, mix, made, issued>>

UpdateProfile(s) ==
  /\ Doing(s, "rename")
  /\ users' \in UpdateUserProfile(call[s].me, call[s].word)
  /\ Done(s)
  /\ UNCHANGED <<now, quotas, codes, keys, names, passwords, invites, election, states, contacts,
                 challenges, mix, made, issued>>

\* contacts.resolveUsername, and the exact name of contacts.search: a refusal leaves nothing
lookName(s) ==
  LET new == CheckAndChargeUsernameLookup(call[s].me, call[s].who) IN
  /\ Doing(s, "lookName")
  /\ IF new = {} THEN UNCHANGED lookups ELSE lookups' \in new
  /\ Done(s)
  /\ UNCHANGED <<now, windows, ledger, askedFor, tables, mix, made, issued>>

lookPhone(s) ==
  LET new == CheckAndChargeLookup(call[s].me, call[s].who, call[s].begun) IN
  /\ Doing(s, "lookPhone")
  /\ IF new = {} THEN UNCHANGED lookups ELSE lookups' \in new
  /\ Done(s)
  /\ UNCHANGED <<now, windows, ledger, askedFor, tables, mix, made, issued>>

\* the owner's lock covers the count and the insert
AddContact(s) ==
  LET c == call[s] IN
  /\ Doing(s, "addContact")
  /\ contacts' = IF \/ c.new = c.me \/ c.new \notin DOMAIN users \/ ContactExists(c.me, c.new)
                    \/ CountContacts(c.me) >= MaxContacts
                 THEN contacts ELSE InsertContact(c.me, c.new)
  /\ Done(s)
  /\ UNCHANGED <<now, quotas, codes, keys, users, names, passwords, invites, election, states,
                 challenges, mix, made, issued>>

RemoveContacts(s) ==
  LET c == call[s] IN
  /\ Doing(s, "dropContacts")
  /\ contacts' = IF c.new = c.me \/ c.new \notin DOMAIN users THEN contacts
                 ELSE DeleteContacts(c.me, {c.new})
  /\ Done(s)
  /\ UNCHANGED <<now, quotas, codes, keys, users, names, passwords, invites, election, states,
                 challenges, mix, made, issued>>

---------------------------------------------------------------------------
(* The operator's commands, provisioning, the key exchange and the sweeps *)

IssueInvite ==
  /\ "invite" \in mix.cli /\ Len(invites) < Len(Secrets)
  /\ \E handle \in mix.handles :
       invites' \in InsertRegistrationInvite(ExpireRegistrationInvite(handle), handle,
                                             Secrets[Len(invites) + 1])
  /\ UNCHANGED <<now, quotas, codes, keys, users, names, passwords, election, states, contacts,
                 challenges, mix, call, made, issued>>

RevokeInvite ==
  /\ "revoke" \in mix.cli
  /\ \E i \in DOMAIN invites : invites' = RevokeRegistrationInvite(i) /\ invites' # invites
  /\ UNCHANGED <<now, quotas, codes, keys, users, names, passwords, election, states, contacts,
                 challenges, mix, call, made, issued>>

\* a username account that has a password is given another
ResetUsernamePassword ==
  /\ "password" \in mix.cli
  /\ \E handle \in DOMAIN names, version \in mix.versions :
       LET u == names[handle] IN
       /\ GetUserLoginMode(u) = "username"
       /\ PasswordByUser(u) \notin {0, version}
       /\ passwords' = UpsertPassword(u, version)
  /\ UNCHANGED <<now, quotas, codes, keys, users, names, invites, election, states, contacts,
                 challenges, mix, call, made, issued>>

\* lockOperatorAccount, lockOperatorUsername and lockReadableOperatorVerifier
lockOperator(u) ==
  /\ users[u].mode = "username" /\ users[u].name = Operator
  /\ GetUsernameByHandle(Operator) /\ names[Operator] = u
  /\ PasswordByUser(u) # 0

\* once the election is closed with nobody elected, and the operator is the only account
AssignOperatorServerAdministrator ==
  /\ "operator" \in mix.cli
  /\ election.closed /\ election.admin = 0
  /\ \E u \in DOMAIN users :
       /\ DOMAIN users = {u}
       /\ lockOperator(u)
       /\ election' = [election EXCEPT !.admin = u]
  /\ UNCHANGED <<now, quotas, codes, keys, users, names, passwords, invites, states, contacts,
                 challenges, mix, call, made, issued>>

CreateUser ==
  /\ "create" \in mix.cli
  /\ \E phone \in mix.phones :
       /\ users' \in InsertUser(phone)
       /\ states' = states \cup {NextUser}
       /\ election' = ElectServerAdministrator(NextUser)
  /\ UNCHANGED <<now, quotas, codes, keys, names, passwords, invites, contacts, challenges, mix,
                 call, made, issued>>

\* runExchange: an id is the hash of a fresh key
Exchange ==
  /\ \E k \in mix.fresh : keys' = SaveAuthKey(k) /\ mix' = [mix EXCEPT !.fresh = @ \ {k}]
  /\ UNCHANGED <<now, quotas, codes, users, names, passwords, invites, election, states, contacts,
                 challenges, call, made, issued>>

Sweep ==
  /\ "sweep" \in mix.cli
  /\ \/ /\ codes' = DeleteExpiredCodes /\ codes' # codes
        /\ UNCHANGED <<windows, askedFor>>
     \/ /\ \E S \in {SweepExpiredRateLimits, SweepExpiredSendCodeIPCalls, SweepExpiredSignInFailCalls} :
             S # {} /\ windows' = Without(windows, S)
        /\ UNCHANGED <<codes, askedFor>>
     \/ /\ SweepExpiredSendCodeIPPhones # {}
        /\ askedFor' = askedFor \ SweepExpiredSendCodeIPPhones
        /\ UNCHANGED <<codes, windows>>
  /\ UNCHANGED <<now, ledger, lookups, keys, users, names, passwords, invites, election, states,
                 contacts, challenges, mix, call, made, issued>>

Tick ==
  /\ now < mix.horizon
  /\ now' = now + 1
  /\ UNCHANGED <<quotas, tables, mix, call, made, issued>>

---------------------------------------------------------------------------

Step(s) ==
  \/ Begin(s) \/ Denied(s) \/ checkRateLimit(s) \/ ReserveRateLimit(s) \/ reserveRateLimitIP(s)
  \/ Refund(s) \/ refundRateLimitIP(s) \/ checkSendCodeIP(s) \/ IssueCode(s)
  \/ AttemptSignIn(s) \/ verdict(s) \/ secondFactor(s) \/ enter(s)
  \/ CheckCodeHash(s) \/ resolveName(s) \/ SetCodeForUsername(s) \/ hasVerifier(s) \/ pend(s)
  \/ unbound(s) \/ AdmitUsername(s) \/ admitted(s)
  \/ resolvePasswordUser(s) \/ readVerifier(s) \/ issueChallenge(s) \/ consumeChallenge(s)
  \/ verifyProof(s) \/ promote(s) \/ currentPassword(s) \/ writePassword(s)
  \/ ownKey(s) \/ revoke(s) \/ UpdateProfile(s) \/ lookName(s)
  \/ lookPhone(s) \/ AddContact(s) \/ RemoveContacts(s)

Next ==
  \/ \E s \in Slots : Step(s)
  \/ IssueInvite \/ RevokeInvite \/ ResetUsernamePassword \/ AssignOperatorServerAdministrator
  \/ CreateUser \/ Exchange \/ Sweep \/ Tick

Spec == Init /\ [][Next]_vars

---------------------------------------------------------------------------
(* Properties *)

\* The call in slot s has earned key k for user u.
Earned(s, k, u) ==
  LET c == call[s] IN
  /\ c # Idle /\ c.key = k
  /\ \/ c.op = "signIn" /\ c.ticket.user = u /\ c.ticket.clear
     \/ c.op = "checkPassword" /\ c.proved = u /\ keys[k].pending = u
     \/ /\ c.op = "signUp" /\ u \notin DOMAIN users
        /\ c.who \in DOMAIN names' /\ names'[c.who] = u
        /\ codes[c.ref].state = "open" /\ codes'[c.ref].state = "consumed"

\* A key becomes a user's in one of three ways only, whatever runs beside it: a code of that
\* user's phone, spent for the first time by this call, when the account had no password at some
\* moment since (auth.signIn); the answer to a challenge issued to this key for that user and
\* never answered before, right for the password of that moment, while the key still waits to be
\* that user's (auth.checkPassword); or as the first key of an account that comes into being
\* with it, its code and its name (auth.signUp).
LoginsAreEarned ==
  [][\A k \in DOMAIN keys' :
       keys'[k].user # 0 /\ keys'[k].user # UserOf(k)
         => \E s \in Slots : Earned(s, k, keys'[k].user)]_vars

\* No limit is exceeded, however calls, refunds, sweeps and the clock interleave: a window of a
\* counter never has more tokens out than its limit and its row says how many; a network's live
\* numbers, a caller's distinct lookups in their windows and its contacts stay within theirs; a
\* code is guessed at most once more than MaxAttempts for each further call in progress
\* (verifyCodeWith reads the attempts before it adds one); and a phone is issued no code within
\* the cooldown of the time the call began that issued it another, unless a code of a call that
\* began no earlier than that one has been spent (IssueCode, which takes the latest by created_at).
QuotasHold ==
  /\ \A e \in DOMAIN ledger : ledger[e] \in 0 .. Limits[e[1]].limit
  /\ \A k \in DOMAIN windows : windows[k].count = ledger[<<k[1], k[2], windows[k].start>>]
  /\ \A r \in askedFor :
       Cardinality({q.phone : q \in {q \in askedFor : q.ip = r.ip /\ q.expires > now}})
         <= Limits["send_code_phones"].limit
  /\ \A r \in lookups :
       r.surface = "name" =>
         CountLookups(lookups, "name", r.caller, now - Limits["burst"].window) <= Limits["burst"].limit
  /\ \A r \in lookups :
       CountLookups(lookups, r.surface, r.caller, now - Limits[r.surface].window)
         <= Limits[r.surface].limit
  /\ \A u \in DOMAIN users :
       Cardinality(ListContacts(u)) = CountContacts(u) /\ CountContacts(u) <= MaxContacts
  /\ \A h \in DOMAIN codes : codes[h].attempts < MaxAttempts + Cardinality(Slots)
  /\ \A g, h \in DOMAIN codes :
       g < h /\ codes[g].who = codes[h].who /\ codes[g].who \in mix.phones
         /\ codes[h].expires - CodeTTL - codes[g].created < ResendCooldown
         => \E l \in 1 .. h - 1 : /\ codes[l].who = codes[g].who /\ codes[l].created >= codes[g].created
                                  /\ codes[l].state \in {"consumed", "spent"}

\* Sign-up is all or nothing: the two tables of names agree, every account has its update state,
\* the first account closes the election and is its administrator, a username account that has
\* no password yet has no key but the one it was admitted with, a handle has one live invite at
\* most, an account admitted by invite has spent exactly one (ConsumeInvite's compare-and-swap
\* inside AdmitUsername's transaction), and the listing calls issued those that would admit.
AdmissionIsWhole ==
  /\ \A h \in DOMAIN names : users[names[h]].name = h
  /\ \A u \in DOMAIN users : users[u].name # "" => names[users[u].name] = u
  /\ states = DOMAIN users
  /\ users # <<>> => election.closed
  /\ election.admin # 0 => IsServerAdministrator(election.admin) /\ election.admin \in DOMAIN users
  /\ \A u \in DOMAIN users : GetUserLoginMode(u) = "username" /\ PasswordByUser(u) = 0
       => Cardinality(AuthKeysByUser(u)) <= 1
  /\ \A h \in mix.handles :
       Cardinality({i \in DOMAIN invites : invites[i].handle = h /\ invites[i].state = "issued"}) <= 1
  /\ mix.invited => \A h \in mix.handles :
       Cardinality({i \in DOMAIN invites : invites[i].handle = h /\ invites[i].state = "consumed"})
         = IF h \in DOMAIN names THEN 1 ELSE 0
  /\ \A i \in DOMAIN invites :
       ListRegistrationInvites[i] = "issued"
         <=> \E new \in ConsumeInvite(invites[i].handle, invites[i].secret) : new[i].state = "consumed"

===========================================================================
