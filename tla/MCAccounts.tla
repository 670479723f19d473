------------------------------- MODULE MCAccounts -------------------------------
(* Accounts on small instances: one scenario of calls is chosen at the start, *)
(* so that the states of the run are the sum of the scenarios'.               *)
EXTENDS Accounts, TLC

MCLimits ==
  [surface \in {"send_code_ip", "send_code_phones", "sign_in_fail", "sign_up_ip", "get_password",
                "get_password_ip", "check_password", "check_password_ip", "password_proof",
                "update_profile", "contacts_search", "phone", "name", "burst"} |->
     CASE surface \in {"send_code_ip", "name", "check_password_ip"} -> [limit |-> 2, window |-> 2]
       [] surface = "burst" -> [limit |-> 1, window |-> 1]
       [] surface = "sign_up_ip" -> [limit |-> 0, window |-> 0]
       [] OTHER -> [limit |-> 1, window |-> 2]]

MCSecrets == <<"s1", "s2">>

Call(op, key, ip, who) ==
  [op |-> op, key |-> key, ip |-> ip, who |-> who, word |-> "", proof |-> 0, new |-> 0]
Typed(c, word) == [c EXCEPT !.word = word]
Proved(c, proof, new) == [c EXCEPT !.proof = proof, !.new = new]

Base == [cli |-> {}, fresh |-> {}, calls |-> {}, phones |-> {"+1", "+2"}, handles |-> {},
         versions |-> {}, invited |-> FALSE, horizon |-> 0, budget |-> 3]

PhoneUser(phone) == [phone |-> phone, name |-> "", mode |-> "phone", title |-> ""]
NameUser(handle) == [phone |-> "", name |-> handle, mode |-> "username", title |-> ""]

Key(user, pending) == [user |-> user, pending |-> pending]

\* a server with one account, no codes and no challenges
Start(users0) ==
  [mix |-> Base, users |-> users0, names |-> <<>>, passwords |-> <<>>, admin |-> 1, codes |-> <<>>,
   challenges |-> <<>>, keys |-> [k \in {"k1", "k2"} |-> Key(0, 0)]]
Code(who) == [who |-> who, code |-> "12345", attempts |-> 0, created |-> 0, expires |-> CodeTTL, state |-> "open"]
Challenge(k, u) == [key |-> k, user |-> u, verifier |-> 1, expires |-> SRPTTL]

\* a code presented from two networks, right and wrong, while a password is set and removed
Phones ==
  [Start(<<PhoneUser("+1")>>) EXCEPT
     !.mix = [Base EXCEPT !.calls = {Call("sendCode", "k1", 101, "+1"),
                                     Typed(Call("signIn", "k1", 101, "+1"), "12345"),
                                     Typed(Call("signIn", "k2", 102, "+1"), "12345"),
                                     Typed(Call("signIn", "k2", 101, "+1"), "54321"),
                                     Proved(Call("setPassword", "k3", 101, ""), 0, 1)},
                          !.horizon = 1],
     !.codes = <<Code("+1")>>,
     !.keys = [k \in {"k1", "k2", "k3"} |-> IF k = "k3" THEN Key(1, 0) ELSE Key(0, 0)]]

\* two networks asking for codes for two numbers, with and without an account
Networks ==
  [Start(<<PhoneUser("+1")>>) EXCEPT
     !.mix = [Base EXCEPT !.calls = {Call("sendCode", "k1", 101, "+1"),
                                     Call("sendCode", "k1", 101, "+2"),
                                     Call("sendCode", "k1", 102, "+2"),
                                     Typed(Call("signIn", "k1", 101, "+2"), "12345")},
                          !.cli = {"sweep", "create"}, !.horizon = 2]]

\* two keys signing up for one handle with an invite, the first accounts of the server
Invites ==
  [Start(<<>>) EXCEPT
     !.mix = [Base EXCEPT !.calls = {Typed(Call("signInName", "k1", 101, "ada"), "s1"),
                                     Call("signUp", "k1", 101, "ada"),
                                     Call("signUp", "k2", 102, "ada"),
                                     Call("logOut", "k1", 101, "")},
                          !.cli = {"invite", "revoke"}, !.handles = {"ada"}, !.invited = TRUE,
                          !.phones = {}, !.horizon = 1],
     !.admin = 0, !.codes = <<Code("ada")>>]

\* the same without invites: one handle, two codes, a phone account besides
Open ==
  [Start(<<>>) EXCEPT
     !.mix = [Base EXCEPT !.calls = {Call("sendCode", "k1", 101, "ada"),
                                     Call("signUp", "k1", 101, "ada"),
                                     Call("signUp", "k2", 102, "ada"),
                                     Call("signUp", "k2", 102, "admin"),
                                     Typed(Call("signInName", "k1", 101, "ada"), "long"),
                                     Proved(Call("setPassword", "k1", 101, ""), 0, 1),
                                     Call("profile", "k1", 101, "")},
                          !.cli = {"create"}, !.phones = {"+1"}, !.fresh = {"k2"}, !.budget = 4],
     !.admin = 0, !.codes = <<Code("ada")>>, !.keys = [k \in {"k1"} |-> Key(0, 0)]]

\* proofs of a username account's password by a key that waits for it, while it is reset
Proofs ==
  [Start(<<NameUser("ada"), NameUser("bob")>>) EXCEPT
     !.mix = [Base EXCEPT !.calls = {Call("getPassword", "k1", 101, ""),
                                     Proved(Call("checkPassword", "k1", 101, ""), 1, 0),
                                     Call("signInName", "k1", 101, "bob")},
                          !.cli = {"password"}, !.versions = {2}],
     !.names = [h \in {"ada", "bob"} |-> IF h = "ada" THEN 1 ELSE 2], !.passwords = <<1, 1>>,
     !.codes = <<Code("bob")>>, !.challenges = <<Challenge("k1", 1), Challenge("k1", 2)>>,
     !.keys = [k \in {"k1"} |-> Key(0, 1)]]

\* tokens reserved, refunded, denied and swept over two windows
Refunds ==
  [Start(<<NameUser("ada"), NameUser("bob")>>) EXCEPT
     !.mix = [Base EXCEPT !.calls = {Proved(Call("checkPassword", "k1", 101, ""), 1, 0),
                                     Proved(Call("checkPassword", "k2", 101, ""), 1, 0)},
                          !.cli = {"sweep"}, !.horizon = 3],
     !.names = [h \in {"ada", "bob"} |-> IF h = "ada" THEN 1 ELSE 2], !.passwords = <<1, 1>>,
     !.challenges = <<Challenge("k1", 1), Challenge("k2", 1)>>,
     !.keys = [k \in {"k1", "k2"} |-> Key(0, 1)]]

\* a phone account's password changed and removed by a session that is revoked
Settings ==
  [Start(<<PhoneUser("+1")>>) EXCEPT
     !.mix = [Base EXCEPT !.calls = {Call("getPassword", "k1", 101, ""),
                                     Proved(Call("setPassword", "k1", 101, ""), 1, 2),
                                     Proved(Call("setPassword", "k1", 101, ""), 1, 0),
                                     Proved(Call("setPassword", "k1", 101, ""), 1, -1),
                                     Proved(Call("getSettings", "k1", 101, ""), 1, 0),
                                     Typed(Call("signIn", "k2", 102, "+1"), "12345"),
                                     Call("reset", "k2", 101, "k1")},
                          !.horizon = 1],
     !.passwords = <<1>>, !.codes = <<Code("+1")>>, !.challenges = <<Challenge("k1", 1)>>,
     !.keys = [k \in {"k1", "k2"} |-> Key(1, 0)]]

\* lookups and searches of one user
Lookups ==
  [Start(<<PhoneUser("+1"), PhoneUser("+2")>>) EXCEPT
     !.mix = [Base EXCEPT !.calls = {Call("resolveName", "k1", 101, "ada"),
                                     Call("resolveName", "k1", 101, "bob"),
                                     Call("search", "k1", 101, "eve"),
                                     Call("resolvePhone", "k1", 101, "+1"),
                                     Call("resolvePhone", "k1", 101, "+2")},
                          !.horizon = 3],
     !.keys = [k \in {"k1"} |-> Key(1, 0)]]

\* contacts and the profile
Contacts ==
  [Start(<<PhoneUser("+1"), PhoneUser("+2"), PhoneUser("+3")>>) EXCEPT
     !.mix = [Base EXCEPT !.calls = {Typed(Call("profile", "k1", 101, ""), "Ada"),
                                     Proved(Call("addContact", "k1", 101, ""), 0, 2),
                                     Proved(Call("addContact", "k1", 101, ""), 0, 3),
                                     Proved(Call("deleteContacts", "k1", 101, ""), 0, 2)},
                          !.cli = {"sweep"}, !.horizon = 3],
     !.keys = [k \in {"k1"} |-> Key(1, 0)]]

\* a server whose election was closed without an administrator
Appointed ==
  [Start(<<NameUser("operator")>>) EXCEPT
     !.mix = [Base EXCEPT !.calls = {Call("sendCode", "k1", 101, "ada"), Call("signUp", "k1", 101, "ada")},
                          !.cli = {"operator", "create"}, !.budget = 2],
     !.names = [h \in {"operator"} |-> 1], !.passwords = <<1>>, !.admin = 0]

MCInit ==
  /\ Init
  /\ \E sc \in {Phones, Networks, Invites, Open, Proofs, Refunds, Settings, Lookups, Contacts, Appointed} :
       /\ mix = sc.mix /\ users = sc.users /\ names = sc.names /\ passwords = sc.passwords
       /\ keys = sc.keys /\ states = DOMAIN sc.users /\ codes = sc.codes
       /\ challenges = sc.challenges
       /\ issued = [i \in DOMAIN sc.challenges |->
                      [key |-> sc.challenges[i].key, user |-> sc.challenges[i].user, spent |-> FALSE]]
       /\ election = [closed |-> sc.users # <<>>, admin |-> sc.admin]

MCSpec == MCInit /\ [][Next]_vars

Symmetry == Permutations(Slots)

===========================================================================
