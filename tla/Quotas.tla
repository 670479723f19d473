-------------------------------- MODULE Quotas --------------------------------
(* The counters that bound what a caller or a network may ask for:            *)
(* fixed windows of tokens (rate_limits, send_code_ip_calls,                  *)
(* sign_in_fail_calls), the numbers a network has asked codes for             *)
(* (send_code_ip_phones) and the distinct numbers and names a user has looked *)
(* up (phone_lookups, username_lookups).  Operators compute what a query      *)
(* leaves of its table and what a store function decides from it; the calls   *)
(* that use them are steps of Accounts.                                       *)
EXTENDS Integers, FiniteSets, Functions

CONSTANT Limits      \* surface -> [limit, window], limit 0 when it is disabled

VARIABLES
  now,        \* the clock
  windows,    \* <<surface, subject>> -> [start, expires, count], for the rows there are
  ledger,     \* history: <<surface, subject, start>> -> tokens granted and not refunded
  askedFor,   \* send_code_ip_phones: set of [ip, phone, expires]
  lookups     \* phone_lookups and username_lookups: set of [surface, caller, name, at]

quotas == <<windows, ledger, askedFor, lookups>>

Enabled(surface) == Limits[surface].limit > 0 /\ Limits[surface].window > 0

At(f, x) == IF x \in DOMAIN f THEN f[x] ELSE 0
Put(f, x, y) == [z \in DOMAIN f \cup {x} |-> IF z = x THEN y ELSE f[z]]
Without(f, S) == Restrict(f, DOMAIN f \ S)

---------------------------------------------------------------------------
(* Windows of tokens.  A statement sees the time t its transaction began.    *)

Expired(k, t) == windows[k].expires <= t

NewWindow(k, t, cost) == [start |-> t, expires |-> t + Limits[k[1]].window, count |-> cost]

\* the row after INSERT ... ON CONFLICT DO UPDATE of cost tokens
Charged(k, t, cost) ==
  IF k \notin DOMAIN windows \/ Expired(k, t) THEN NewWindow(k, t, cost)
  ELSE [windows[k] EXCEPT !.count = @ + cost]

\* whether the statement writes a row
TryConsumeRateLimitCost(k, t, cost) ==
  /\ cost <= Limits[k[1]].limit
  /\ k \notin DOMAIN windows \/ Expired(k, t) \/ windows[k].count + cost <= Limits[k[1]].limit

TryConsumeRateLimit(k, t) ==
  k \notin DOMAIN windows \/ Expired(k, t) \/ windows[k].count < Limits[k[1]].limit

TryConsumeSendCodeIPCall(k, t) == TryConsumeRateLimit(k, t)

ChargeSignInFailCall(k, t) == TryConsumeRateLimit(k, t)

\* grant cost tokens of k: the row and the history, which starts anew with the window
Grant(k, t, cost) ==
  LET w == Charged(k, t, cost)
      entry == <<k[1], k[2], w.start>> IN
  /\ windows' = Put(windows, k, w)
  /\ ledger' = Put(ledger, entry,
                   IF w.count = cost THEN cost ELSE At(ledger, entry) + cost)

\* RefundRateLimit: only in the window the token was taken from, never below zero
\* mutant: whatever window there is by now
RefundAnyWindow(k, start) ==
  LET entry == <<k[1], k[2], start>> IN
  /\ windows' = IF k \in DOMAIN windows
                THEN [windows EXCEPT ![k].count = IF @ > 0 THEN @ - 1 ELSE 0]
                ELSE windows
  /\ ledger' = [ledger EXCEPT ![entry] = @ - 1]
RefundRateLimit(k, start) ==
  LET entry == <<k[1], k[2], start>> IN
  /\ windows' = IF k \in DOMAIN windows /\ windows[k].start = start
                THEN [windows EXCEPT ![k].count = IF @ > 0 THEN @ - 1 ELSE 0]
                ELSE windows
  /\ ledger' = [ledger EXCEPT ![entry] = @ - 1]

\* the answer to a denied caller: the row may have been swept meanwhile
GetRateLimitExpiresAt(k) == k \in DOMAIN windows

CheckSignInFailBudget(k) ==
  k \in DOMAIN windows /\ windows[k].expires > now /\ windows[k].count >= Limits[k[1]].limit

\* the three sweeps of token windows; only rate_limits keeps a row that expires now
SweepExpiredRateLimits ==
  {k \in DOMAIN windows : k[1] \notin {"send_code_ip", "sign_in_fail"} /\ windows[k].expires < now}
SweepExpiredSendCodeIPCalls ==
  {k \in DOMAIN windows : k[1] = "send_code_ip" /\ windows[k].expires <= now}
SweepExpiredSignInFailCalls ==
  {k \in DOMAIN windows : k[1] = "sign_in_fail" /\ windows[k].expires <= now}

---------------------------------------------------------------------------
(* Numbers a network has asked codes for. *)

DeleteExpiredSendCodeIPPhones(ip, t) == {r \in askedFor : r.ip = ip /\ r.expires <= t}

GetSendCodeIPPhoneUsage(rows, ip) == {r.phone : r \in {q \in rows : q.ip = ip}}

InsertSendCodeIPPhone(rows, ip, phone, t) ==
  rows \cup {[ip |-> ip, phone |-> phone, expires |-> t + Limits["send_code_phones"].window]}

SweepExpiredSendCodeIPPhones == {r \in askedFor : r.expires <= now}

\* the rows after the charge, or none when the number is one too many
chargeSendCodeIPPhone(ip, phone, t) ==
  LET kept == askedFor \ DeleteExpiredSendCodeIPPhones(ip, t)
      used == GetSendCodeIPPhoneUsage(kept, ip) IN
  IF ~Enabled("send_code_phones") THEN {askedFor}
  ELSE IF phone \in used THEN {kept}
  ELSE IF Cardinality(used) >= Limits["send_code_phones"].limit THEN {}
  ELSE {InsertSendCodeIPPhone(kept, ip, phone, t)}

\* one call of auth.sendCode from ip: both counters move or neither
chargeSendCodeIPCall(ip, t) ==
  ~Enabled("send_code_ip") \/ TryConsumeSendCodeIPCall(<<"send_code_ip", ip>>, t)

CheckAndChargeSendCodeIP(ip, phone, t) ==
  LET rows == IF chargeSendCodeIPCall(ip, t) THEN chargeSendCodeIPPhone(ip, phone, t) ELSE {}
  IN IF rows = {} THEN UNCHANGED <<windows, ledger, askedFor>>
     ELSE /\ askedFor' \in rows
          /\ IF Enabled("send_code_ip") THEN Grant(<<"send_code_ip", ip>>, t, 1)
             ELSE UNCHANGED <<windows, ledger>>

SendCodeIPAllowed(ip, phone, t) ==
  chargeSendCodeIPCall(ip, t) /\ chargeSendCodeIPPhone(ip, phone, t) # {}

---------------------------------------------------------------------------
(* Lookups: distinct names within a sliding window, and within a burst. *)

DeleteExpiredLookups(surface, caller) ==
  {r \in lookups : r.surface = surface /\ r.caller = caller
                     /\ r.at < now - Limits[surface].window}

CountLookups(rows, surface, caller, cutoff) ==
  Cardinality({r.name : r \in {q \in rows : /\ q.surface = surface
                                             /\ q.caller = caller
                                             /\ q.at >= cutoff}})

InsertLookup(rows, surface, caller, name, t) ==
  rows \cup {[surface |-> surface, caller |-> caller, name |-> name, at |-> t]}

\* the rows a lookup leaves, or none when it is refused and rolled back
CheckAndChargeLookup(caller, phone, t) ==
  LET rows == InsertLookup(lookups \ DeleteExpiredLookups("phone", caller), "phone", caller, phone, t)
  IN IF CountLookups(rows, "phone", caller, now - Limits["phone"].window) > Limits["phone"].limit
     THEN {} ELSE {rows}

CheckAndChargeUsernameLookup(caller, handle) ==
  LET rows == InsertLookup(lookups \ DeleteExpiredLookups("name", caller), "name", caller, handle, now)
  IN IF \/ CountLookups(rows, "name", caller, now - Limits["name"].window) > Limits["name"].limit
        \/ CountLookups(rows, "name", caller, now - Limits["burst"].window) > Limits["burst"].limit
     THEN {} ELSE {rows}

===========================================================================
