------------------------------- MODULE MCAccess --------------------------------
(* Small instances of Access for TLC: every deployment sends another traffic. *)
EXTENDS Access

CONSTANTS n1, n2, n3, e1, p1, p2

\* n2 is n1 in capitals.
MCFold == [x \in {n1, n2, n3, e1} |-> IF x = n2 THEN n1 ELSE x]

MCPatches ==
  {[name |-> Nothing, role |-> "user", enabled |-> TRUE, password |-> Nothing],
   [name |-> n2, role |-> "root", enabled |-> FALSE, password |-> p2]}

Account(id, n, role, p) ==
  [id |-> id, name |-> n, role |-> role, enabled |-> TRUE, password |-> p, email |-> e1,
   secret |-> 0, twofa |-> FALSE, recovery |-> {}]

\* An account with a second factor and the recovery codes of generation 0.
Guarded(id, n, p) ==
  [Account(id, n, "user", p) EXCEPT !.secret = 100, !.twofa = TRUE,
                                    !.recovery = {0} \X (1..RecoveryCodes)]

Empty == [kinds |-> {}, names |-> {n1, n2}, requests |-> 0, redis |-> FALSE, captchaLogin |-> FALSE,
          verifyEmail |-> FALSE, users |-> <<>>, sessions |-> {}]

\* The sessions of the accounts of these names, left in Redis.
KeepSessions(names) == {[token |-> 0, name |-> n] : n \in names}

MCDeployments ==
  {\* one account, whose name and address are typed
   [Empty EXCEPT !.kinds = {"login"}, !.requests = 5, !.users = <<Account(1, n1, "user", p1)>>],
   \* login with captchas, and logout
   [Empty EXCEPT !.kinds = {"captcha", "login", "logout"}, !.requests = 4,
                 !.captchaLogin = TRUE, !.users = <<Guarded(1, n1, p1)>>],
   \* nobody yet
   [Empty EXCEPT !.kinds = {"captcha", "register", "setup"}, !.names = {n1, n2, n3}, !.requests = 4],
   \* registration by mail
   [Empty EXCEPT !.kinds = {"captcha", "register"}, !.requests = 5, !.verifyEmail = TRUE],
   \* the second factor is set up
   [Empty EXCEPT !.kinds = {"twofa"}, !.requests = 5, !.redis = TRUE,
                 !.users = <<Account(1, n1, "user", p1)>>, !.sessions = KeepSessions({n1})],
   \* recovery codes are used
   [Empty EXCEPT !.kinds = {"verify"}, !.requests = 6, !.users = <<Guarded(1, n1, p1)>>],
   \* addresses and passwords by mail
   [Empty EXCEPT !.kinds = {"email", "reset"}, !.requests = 5, !.redis = TRUE,
                 !.users = <<Account(1, n1, "user", p1), Account(2, n2, "user", p2)>>,
                 !.sessions = KeepSessions({n1})],
   \* administration beside third-party logins, and beside the second factor
   [Empty EXCEPT !.kinds = {"admin", "oauth"}, !.requests = 3, !.redis = TRUE,
                 !.users = <<Account(1, n1, "root", p1)>>, !.sessions = KeepSessions({n1})],
   [Empty EXCEPT !.kinds = {"admin", "twofa"}, !.requests = 3, !.redis = TRUE,
                 !.users = <<Account(1, n1, "root", p1), Guarded(2, n2, p2)>>,
                 !.sessions = KeepSessions({n1, n2})]}

Symmetry == Permutations(Workers)
================================================================================
