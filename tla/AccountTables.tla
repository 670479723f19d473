----------------------------- MODULE AccountTables -----------------------------
(* The tables behind logging in: codes, auth keys, users and their names,     *)
(* passwords, invites, the administrator's election, contacts, and the        *)
(* in-memory challenges of the password protocol.  One operator for a query.  *)
(* A conditional UPDATE or INSERT is the set of tables it may leave: empty    *)
(* when it changes no row.                                                    *)
EXTENDS Quotas, Sequences

CONSTANTS
  CodeTTL, MaxAttempts, ResendCooldown,   \* codes.go
  InviteLifetime, SRPTTL, MaxContacts

ASSUME TimesAssumption == ResendCooldown <= CodeTTL /\ MaxAttempts > 0

VARIABLES
  codes,       \* sequence by hash of [who, code, attempts, created, expires, state]
  keys,        \* auth key -> [user, pending], 0 for NULL, for the rows there are
  users,       \* user id -> [phone, name, mode, title]
  names,       \* usernames: handle -> user id
  passwords,   \* user id -> the verifier's version
  invites,     \* sequence by id of [handle, secret, state, expires]
  election,    \* server_administration: [closed, admin]
  states,      \* the users that have an update_state row
  contacts,    \* set of <<owner, contact>>
  challenges   \* srp: id -> [key, user, verifier, expires]

tables == <<codes, keys, users, names, passwords, invites, election, states, contacts, challenges>>

---------------------------------------------------------------------------
(* phone_codes *)

Generated == "12345"          \* what randDigits5 makes; clients may guess it
isGeneratedCode(code) == code \in {Generated, "54321"}
capPhoneCode(code) == IF code = "long" THEN "cut" ELSE code

ExpiresAt(h) == codes[h].expires
GetCodeByHash(h) == h \in DOMAIN codes /\ codes[h].state \in {"open", "consumed"}
GetCodeByHashAndPhone(h, who) == GetCodeByHash(h) /\ codes[h].who = who

\* ORDER BY created_at DESC LIMIT 1: of rows as old as each other, any
GetLatestCode(who) ==
  LET rows == {h \in DOMAIN codes : GetCodeByHashAndPhone(h, who)} IN
  {h \in rows : \A g \in rows : codes[g].created <= codes[h].created}

\* created_at is when the transaction began, expires_at is counted from now
InsertCode(who, began) ==
  Append(codes, [who |-> who, code |-> Generated, attempts |-> 0,
                 created |-> began, expires |-> now + CodeTTL, state |-> "open"])

\* the guards shared by the conditional updates, at the transaction's time
Usable(h, t) == codes[h].state = "open" /\ ExpiresAt(h) >= t /\ codes[h].attempts < MaxAttempts

ConsumeCode(h, who, code, t) ==
  IF GetCodeByHashAndPhone(h, who) /\ codes[h].code = code /\ Usable(h, t)
  THEN {[codes EXCEPT ![h].state = "consumed"]} ELSE {}

ConsumeCodeForUsername(h, who, t) ==
  IF GetCodeByHashAndPhone(h, who) /\ Usable(h, t) /\ codes[h].code # ""
  THEN {[codes EXCEPT ![h].state = "consumed", ![h].code = ""]} ELSE {}

SetCodeByHashAndPhone(h, who, code) ==
  IF /\ GetCodeByHashAndPhone(h, who) /\ Usable(h, now)
     /\ isGeneratedCode(codes[h].code) /\ ~isGeneratedCode(code)
  THEN {[codes EXCEPT ![h].code = code]} ELSE {}

IncrementCodeAttempts(h) ==
  IF GetCodeByHash(h) THEN [codes EXCEPT ![h].attempts = @ + 1] ELSE codes

\* a row that is gone is kept as history: spent or not
DeleteExpiredCodes ==
  [h \in DOMAIN codes |->
     IF GetCodeByHash(h) /\ ExpiresAt(h) < now
     THEN [codes[h] EXCEPT !.state = IF @ = "open" THEN "lapsed" ELSE "spent"] ELSE codes[h]]

validateCodeHash(row) ==
  /\ row.state = "open"
  /\ row.code # ""
  /\ now <= row.expires
  /\ row.attempts < MaxAttempts

---------------------------------------------------------------------------
(* auth_keys *)

AuthKeyByID(k) == k \in DOMAIN keys
UserOf(k) == IF AuthKeyByID(k) THEN keys[k].user ELSE 0
PendingOf(k) == IF AuthKeyByID(k) THEN keys[k].pending ELSE 0
AuthKeysByUser(u) == {k \in DOMAIN keys : keys[k].user = u}

SaveAuthKey(k) == Put(keys, k, [user |-> 0, pending |-> 0])

BindAuthKeyUser(k, u) ==
  IF AuthKeyByID(k) THEN {[keys EXCEPT ![k] = [user |-> u, pending |-> 0]]} ELSE {}

SetPendingUser(k, u) ==
  IF AuthKeyByID(k) THEN {[keys EXCEPT ![k] = [user |-> 0, pending |-> u]]} ELSE {}

PromotePendingUser(k, u) ==
  IF AuthKeyByID(k) /\ keys[k].pending = u
  THEN {[keys EXCEPT ![k] = [user |-> u, pending |-> 0]]} ELSE {}

LockUnboundAuthKey(k) == AuthKeyByID(k) /\ keys[k].user = 0
DeleteAuthKey(k) == Without(keys, {k})

---------------------------------------------------------------------------
(* user_passwords, users, usernames *)

PasswordByUser(u) == IF u \in DOMAIN passwords THEN passwords[u] ELSE 0
UpsertPassword(u, version) == Put(passwords, u, version)
DeletePassword(u) == Without(passwords, {u})

UserByPhone(phone) == {u \in DOMAIN users : users[u].phone = phone}
GetUserLoginMode(u) == users[u].mode
GetUsernameByHandle(handle) == handle \in DOMAIN names
GetUserByUsernameWithLoginMode(handle) == IF GetUsernameByHandle(handle) THEN {names[handle]} ELSE {}

NextUser == Cardinality(DOMAIN users) + 1
InsertUser(phone) ==
  IF UserByPhone(phone) = {}
  THEN {Put(users, NextUser, [phone |-> phone, name |-> "", mode |-> "phone", title |-> ""])}
  ELSE {}
\* CreateUsernameUser and then SetUsername of the claimed handle
CreateUsernameUser(title) == [phone |-> "", name |-> "", mode |-> "username", title |-> title]
SetUsername(row, handle) == [row EXCEPT !.name = handle]
ClaimUsername(handle, u) ==
  IF GetUsernameByHandle(handle) THEN {} ELSE {Put(names, handle, u)}
UpdateUserProfile(u, title) ==
  IF u \in DOMAIN users THEN {[users EXCEPT ![u].title = title]} ELSE {}

\* authKeyFromDB: bound to a username account that has not set its password
Provisional(k) ==
  /\ UserOf(k) # 0
  /\ users[UserOf(k)].mode = "username"
  /\ PasswordByUser(UserOf(k)) = 0

---------------------------------------------------------------------------
(* registration_invites *)

\* ORDER BY id DESC LIMIT 1
LiveRegistrationInviteForUpdate(handle) ==
  LET rows == {i \in DOMAIN invites : invites[i].handle = handle /\ invites[i].state = "issued"}
  IN {i \in rows : \A j \in rows : j <= i}

inviteSecretMatches(i, secret) == invites[i].secret = secret

ExpireRegistrationInvite(handle) ==
  [i \in DOMAIN invites |->
     IF /\ invites[i].handle = handle /\ invites[i].state = "issued"
        /\ invites[i].expires <= now
     THEN [invites[i] EXCEPT !.state = "expired"] ELSE invites[i]]

\* registration_invites_live_handle_idx: one issued row for a handle
InsertRegistrationInvite(rows, handle, secret) ==
  IF \E i \in DOMAIN rows : rows[i].handle = handle /\ rows[i].state = "issued" THEN {}
  ELSE {Append(rows, [handle |-> handle, secret |-> secret, state |-> "issued",
                      expires |-> now + InviteLifetime])}

ConsumeRegistrationInvite(i, secret) ==
  IF invites[i].secret = secret /\ invites[i].state = "issued" /\ invites[i].expires > now
  THEN {[invites EXCEPT ![i].state = "consumed"]} ELSE {}

RevokeRegistrationInvite(i) ==
  IF invites[i].state = "issued" /\ invites[i].expires > now
  THEN [invites EXCEPT ![i].state = "revoked"] ELSE invites

\* the state a listing shows
ListRegistrationInvites ==
  [i \in DOMAIN invites |->
     IF invites[i].state = "issued" /\ invites[i].expires <= now
     THEN "expired" ELSE invites[i].state]

---------------------------------------------------------------------------
(* server_administration, user_contacts *)

ElectServerAdministrator(u) ==
  IF election.closed THEN election ELSE [closed |-> TRUE, admin |-> u]

IsServerAdministrator(u) == election.closed /\ election.admin = u

ContactExists(u, v) == <<u, v>> \in contacts
CountContacts(u) == Cardinality({p \in contacts : p[1] = u})
InsertContact(u, v) == contacts \cup {<<u, v>>}
DeleteContacts(u, S) == {p \in contacts : ~(p[1] = u /\ p[2] \in S)}
ListContacts(u) == {[id |-> p[2], mutual |-> <<p[2], u>> \in contacts] : p \in {q \in contacts : q[1] = u}}

---------------------------------------------------------------------------
(* srp.ChallengeStore: s.entries, swept of what is past its time.  s.byUser is *)
(* the index of the entries by key and user, so it is not kept apart.          *)

sweepLocked == {i \in DOMAIN challenges : now > challenges[i].expires}

\* the entry a new one replaces: at most one for a key and a user
prevLocked(k, u) == {i \in DOMAIN challenges : challenges[i].key = k /\ challenges[i].user = u}

Issue(id, k, u, verifier) ==
  Put(Without(challenges, sweepLocked \cup prevLocked(k, u)), id,
      [key |-> k, user |-> u, verifier |-> verifier, expires |-> now + SRPTTL])

\* what a presented id yields: one use, by the key it was issued to, in time
Consumable(id, k) ==
  id \in DOMAIN challenges /\ challenges[id].key = k /\ now <= challenges[id].expires

Consume(id, k) ==
  IF id \in DOMAIN challenges /\ challenges[id].key = k
  THEN Without(challenges, {id}) ELSE challenges

===========================================================================
