-------------------------------- MODULE Access ---------------------------------
(***************************************************************************)
(* Who gets in: the user table, logins with their lock, sums to solve      *)
(* (captchas), codes and tokens sent by mail, the second factor with its   *)
(* recovery codes, third-party logins, the first account, the              *)
(* administration of accounts, and the sessions.                           *)
(*                                                                         *)
(* Each store has a mutex of its own, so an action is one critical         *)
(* section, and a request is a chain of them; other requests, the clock    *)
(* and a crash act in between.  The user table is written through to disk; *)
(* every other store is in memory only, sessions too unless Redis is on.   *)
(***************************************************************************)
EXTENDS Integers, Sequences, SequencesExt, FiniteSets, FiniteSetsExt, Functions

CONSTANTS
  Workers,         \* goroutines that serve requests
  Names, Emails,   \* user names and mail addresses
  Nothing,         \* no name, address, password or code
  Fold,            \* strings.EqualFold: what a name or address is when its case is ignored
  Passwords,
  Patches,         \* forms the administrator fills in: [name, role, enabled, password]
  Deployments,     \* settings, accounts on disk and traffic of the instances
  Threshold,       \* authFailThreshold
  Lockout,         \* authLockoutDur
  MaxCaptchas,     \* maxCaptchas
  CaptchaTTL, CodeTTL, ResetTTL,   \* life of a captcha, of a mailed code, of a reset token
  RecoveryCodes,   \* codes generateRecoveryCodes makes
  MaxTime,         \* bound: ticks in a behaviour
  MaxCrashes       \* bound: crashes in a behaviour

AllKinds == {"captcha", "login", "logout", "register", "setup", "oauth", "twofa", "verify",
             "email", "reset", "admin"}

Typed == Names \union Emails

Roles == {"root", "user"}

User == [id: Nat, name: Names, role: Roles, enabled: BOOLEAN, password: Passwords \union {Nothing},
         email: Emails \union {Nothing}, secret: Nat, twofa: BOOLEAN,
         recovery: SUBSET (Nat \X (1..RecoveryCodes))]

ASSUME WorkersAssumption == IsFiniteSet(Workers) /\ Workers # {}
ASSUME NamesAssumption  == Nothing \notin Names \union Emails \union Passwords \union Roles
ASSUME FoldAssumption   == Typed \subseteq DOMAIN Fold
ASSUME LimitAssumption  ==
  {Threshold, Lockout, MaxCaptchas, CaptchaTTL, CodeTTL, ResetTTL, RecoveryCodes}
    \subseteq Nat \ {0}
ASSUME BoundAssumption  == {MaxTime, MaxCrashes} \subseteq Nat
ASSUME PatchAssumption ==
  Patches \subseteq [name: Names \union {Nothing}, role: Roles \union {Nothing}, enabled: BOOLEAN,
                     password: Passwords \union {Nothing}]

\* The accounts on disk were written by this program: no two share a name or an ID, one that
\* needs a second factor has a key, and the recovery codes are of a generation before the first.
ASSUME DeploymentAssumption ==
  \A d \in Deployments :
    /\ d.kinds \subseteq AllKinds /\ d.names \subseteq Names /\ d.requests \in Nat
    /\ {d.redis, d.captchaLogin, d.verifyEmail} \subseteq BOOLEAN
    /\ d.sessions \subseteq [token: Nat, name: Names]
    /\ d.users \in Seq(User)
    /\ \A i, j \in DOMAIN d.users :
         i # j => d.users[i].id # d.users[j].id /\ d.users[i].name # d.users[j].name
    /\ \A i \in DOMAIN d.users :
         /\ d.users[i].twofa => d.users[i].secret # 0
         /\ d.users[i].recovery \subseteq {0} \X (1..RecoveryCodes)

VARIABLES
  deployment,   \* kinds, names, requests: what is sent; redis, captchaLogin, verifyEmail: settings
  users,        \* the table, in the order of its rows
  userNext,     \* the next ID
  sessions,     \* sessions, or the sess: keys of Redis: [token, name]
  authFails,    \* by typed name: [count, until]
  captchas,     \* the sums not answered yet: [id, exp]
  regCodes,     \* by address: [code, exp]
  emailCodes,   \* [name, email, code, exp]
  resetTokens,  \* [token, name, exp]
  now,
  serial,       \* the next random value: a code, token, key or captcha
  task,         \* what each goroutine is doing
  requests, crashes,
  guesses,      \* history: failures under a typed name since its last success
  redeemed,     \* history: how often a code, token or captcha was accepted
  proved,       \* history: keys a right code was shown for, by account
  firsts,       \* history: accounts that became root because there were none
  spent,        \* history: recovery codes accepted, by name and generation
  renamed,      \* history: names that were given to an account there was
  asked         \* history: the captchas made, oldest first, and whether they were tried

memory  == <<sessions, authFails, captchas, regCodes, emailCodes, resetTokens>>
history == <<guesses, redeemed, proved, firsts, spent, renamed, asked>>
vars == <<deployment, users, userNext, sessions, authFails, captchas, regCodes, emailCodes,
          resetTokens, now, serial, task, requests, crashes, guesses, redeemed, proved, firsts,
          spent, renamed, asked>>

-------------------------------------------------------------------------------
(* Requests                                                                *)

Stages == {"idle", "login", "verify", "fail", "reset", "resetOnly", "session", "register", "count",
           "create", "oauthCreate", "oauthEmail", "enable", "confirm", "recovery", "disable",
           "spend", "email", "token", "find", "password", "admin"}

\* typed: the name of a login; name, role: the account it is about; item: the code, key or
\* ID it holds; codes: the recovery codes it will leave.
Idle == [stage |-> "idle", typed |-> Nothing, name |-> Nothing, email |-> Nothing,
         role |-> "user", item |-> 0, codes |-> {}]

At(w, stage) == task[w].stage = stage

Become(w, t) == task' = [task EXCEPT ![w] = t] /\ UNCHANGED requests
GoTo(w, stage) == Become(w, [task[w] EXCEPT !.stage = stage])
Return(w) == Become(w, Idle)

\* A request of this kind arrives.
Arrive(kind) ==
  /\ kind \in deployment.kinds /\ requests < deployment.requests
  /\ requests' = requests + 1
  /\ UNCHANGED <<deployment, now, crashes>>

\* It arrives at an idle goroutine and goes on as t.
Begin(w, kind, t) ==
  /\ Arrive(kind) /\ At(w, "idle")
  /\ task' = [task EXCEPT ![w] = t]

Step == UNCHANGED <<deployment, now, crashes>>

Draw == serial' = serial + 1

NoEntries == [x \in {} |-> 0]

\* A map with the value of x replaced or added, and a count with one more of x.
Put(f, x, v) == [y \in DOMAIN f \union {x} |-> IF y = x THEN v ELSE f[y]]
Counted(f, x) == IF x \in DOMAIN f THEN f[x] ELSE 0
OneMore(f, x) == Put(f, x, Counted(f, x) + 1)

Accept(ticket) == redeemed' = OneMore(redeemed, ticket)

Live(entries) == {e \in entries : now <= e.exp}

-------------------------------------------------------------------------------
(* The user table: model/user.go                                           *)

Rows == DOMAIN users

HasName(n) == \E i \in Rows : users[i].name = n
IsFirst(i, n) == users[i].name = n /\ \A j \in 1..(i - 1) : users[j].name # n
RowOf(n)   == CHOOSE i \in Rows : IsFirst(i, n)
IsRoot(n)  == HasName(n) /\ users[RowOf(n)].role = "root"

\* The first row of that name, if any, is changed.
SetUserEmail(n, e) ==
  users' = [i \in Rows |-> IF IsFirst(i, n) THEN [users[i] EXCEPT !.email = e] ELSE users[i]]
SetUser2FA(n, secret, enabled) ==
  users' = [i \in Rows |-> IF IsFirst(i, n)
                             THEN [users[i] EXCEPT !.secret = secret, !.twofa = enabled]
                             ELSE users[i]]
SetUserRecovery(n, codes) ==
  users' = [i \in Rows |-> IF IsFirst(i, n) THEN [users[i] EXCEPT !.recovery = codes] ELSE users[i]]

NewUser(n, p, role) ==
  [id |-> userNext, name |-> n, role |-> role, enabled |-> TRUE, password |-> p,
   email |-> Nothing, secret |-> 0, twofa |-> FALSE, recovery |-> {}]

\* CreateUser when the name is free.
AddUser(n, p, role) ==
  /\ ~HasName(n)
  /\ users' = Append(users, NewUser(n, p, role))
  /\ userNext' = userNext + 1

\* VerifyUser looks at the first enabled account the typed name fits, and at no other.
Fits(i, typed) ==
  /\ users[i].enabled
  /\ \/ Fold[users[i].name] = Fold[typed]
     \/ users[i].email # Nothing /\ Fold[users[i].email] = Fold[typed]

FirstFit(typed) == {i \in Rows : Fits(i, typed) /\ \A j \in 1..(i - 1) : ~Fits(j, typed)}

VerifyUser(typed, p) == {i \in FirstFit(typed) : users[i].password = p}

\* UpdateUser: a name and a password that are empty and a role that is empty stay.
Patched(u, patch) ==
  [u EXCEPT !.name     = IF patch.name = Nothing THEN @ ELSE patch.name,
            !.role     = IF patch.role = Nothing THEN @ ELSE patch.role,
            !.password = IF patch.password = Nothing THEN @ ELSE patch.password,
            !.enabled  = patch.enabled]

UpdateUser(i, patch) == users' = [users EXCEPT ![i] = Patched(users[i], patch)]

NameIsFree(i, n) == n = Nothing \/ \A j \in Rows \ {i} : users[j].name # n

-------------------------------------------------------------------------------
(* Captchas: handler/feat_captcha.go                                       *)

\* dropOldestCaptchaLocked
DropOldest(entries) ==
  {e \in entries : Cardinality(entries) > MaxCaptchas => \E older \in entries : older.id < e.id}

CaptchaHandler ==
  LET made == [id |-> serial, exp |-> now + CaptchaTTL] IN
  /\ Arrive("captcha")
  /\ captchas' = DropOldest(Live(captchas) \union {made})
  /\ asked' = Append(asked, [id |-> serial, exp |-> now + CaptchaTTL, tried |-> FALSE])
  /\ Draw
  /\ UNCHANGED <<users, userNext, sessions, authFails, regCodes, emailCodes, resetTokens, task,
                 guesses, redeemed, proved, firsts, spent, renamed>>

Tried(id) ==
  asked' = [i \in DOMAIN asked |-> [asked[i] EXCEPT !.tried = @ \/ asked[i].id = id]]

Standing(id) == \E e \in Live(captchas) : e.id = id

\* Slip: a captcha that was answered is not removed.
VerifyCaptchaKept(id, right) ==
  /\ captchas' = Live(captchas)
  /\ Tried(id)
  /\ IF right /\ Standing(id) THEN Accept(<<"captcha", id>>) ELSE UNCHANGED redeemed

\* VerifyCaptcha: the first try removes the captcha, whatever the answer.
VerifyCaptcha(id, right) ==
  /\ captchas' = {e \in Live(captchas) : e.id # id}
  /\ Tried(id)
  /\ IF right /\ Standing(id) THEN Accept(<<"captcha", id>>) ELSE UNCHANGED redeemed

\* A handler goes on as t when the captcha is accepted.
PassCaptcha(w, kind, id, right, t) ==
  /\ VerifyCaptcha(id, right)
  /\ Begin(w, kind, IF right /\ Standing(id) THEN t ELSE Idle)
  /\ UNCHANGED <<users, userNext, sessions, authFails, regCodes, emailCodes, resetTokens, serial,
                 guesses, proved, firsts, spent, renamed>>

-------------------------------------------------------------------------------
(* Login and logout: handler/auth.go                                       *)

FailureCount(typed) == IF typed \in DOMAIN authFails THEN authFails[typed].count ELSE 0
LockedUntil(typed)  == IF typed \in DOMAIN authFails THEN authFails[typed].until ELSE 0

Locked(typed) == now < LockedUntil(typed)

LoginCaptcha(w, id, right) ==
  /\ deployment.captchaLogin
  /\ PassCaptcha(w, "login", id, right, [Idle EXCEPT !.stage = "login"])

\* authLoginLocked; a locked name is refused.
LoginCheck(w, typed) ==
  LET t == IF Locked(typed) THEN Idle ELSE [Idle EXCEPT !.stage = "verify", !.typed = typed] IN
  /\ \/ ~deployment.captchaLogin /\ Begin(w, "login", t)
     \/ At(w, "login") /\ Become(w, t) /\ Step
  /\ UNCHANGED <<users, userNext, memory, serial, history>>

\* The row is copied: what is done to the account from now on is not seen.
LoginVerify(w, p) ==
  LET found == VerifyUser(task[w].typed, p) IN
  /\ At(w, "verify") /\ Step
  /\ IF found = {} THEN GoTo(w, "fail")
     ELSE \E i \in found :
            Become(w, [task[w] EXCEPT !.stage = IF users[i].twofa THEN "resetOnly" ELSE "reset",
                                      !.name = users[i].name])
  /\ UNCHANGED <<users, userNext, memory, serial, history>>

\* Slip: the lock comes one failure late.
LoginFailLate(w) ==
  LET typed == task[w].typed
      count == FailureCount(typed) + 1
      until == IF count > Threshold + 1 THEN now + Lockout ELSE LockedUntil(typed)
  IN
  /\ At(w, "fail") /\ Step /\ Return(w)
  /\ authFails' = Put(authFails, typed, [count |-> count, until |-> until])
  /\ guesses' = [guesses EXCEPT ![typed] = @ + 1]
  /\ UNCHANGED <<users, userNext, sessions, captchas, regCodes, emailCodes, resetTokens, serial,
                 redeemed, proved, firsts, spent, renamed, asked>>

\* authLoginFail: the count outlives the lock.
LoginFail(w) ==
  LET typed == task[w].typed
      count == FailureCount(typed) + 1
      until == IF count >= Threshold THEN now + Lockout ELSE LockedUntil(typed)
  IN
  /\ At(w, "fail") /\ Step /\ Return(w)
  /\ authFails' = Put(authFails, typed, [count |-> count, until |-> until])
  /\ guesses' = [guesses EXCEPT ![typed] = @ + 1]
  /\ UNCHANGED <<users, userNext, sessions, captchas, regCodes, emailCodes, resetTokens, serial,
                 redeemed, proved, firsts, spent, renamed, asked>>

\* authLoginReset; an account with a second factor gets its session from TwoFAVerify.
LoginReset(w) ==
  LET typed == task[w].typed IN
  /\ \/ At(w, "reset") /\ GoTo(w, "session")
     \/ At(w, "resetOnly") /\ Return(w)
  /\ Step
  /\ authFails' = Restrict(authFails, DOMAIN authFails \ {typed})
  /\ guesses' = [guesses EXCEPT ![typed] = 0]
  /\ UNCHANGED <<users, userNext, sessions, captchas, regCodes, emailCodes, resetTokens, serial,
                 redeemed, proved, firsts, spent, renamed, asked>>

CreateSession(w) ==
  /\ At(w, "session") /\ Step /\ Return(w)
  /\ sessions' = sessions \union {[token |-> serial, name |-> task[w].name]}
  /\ Draw
  /\ UNCHANGED <<users, userNext, authFails, captchas, regCodes, emailCodes, resetTokens, history>>

\* LogoutHandler, and the end of the life of a key of Redis.
DeleteSession(s) ==
  /\ \/ Arrive("logout")
     \/ deployment.redis /\ UNCHANGED requests /\ Step
  /\ sessions' = sessions \ {s}
  /\ UNCHANGED <<users, userNext, authFails, captchas, regCodes, emailCodes, resetTokens, serial,
                 task, history>>

-------------------------------------------------------------------------------
(* Registration and setup: handler/auth.go, handler/feat_setup.go          *)

RegisterCaptcha(w, id, right, n) ==
  PassCaptcha(w, "register", id, right, [Idle EXCEPT !.stage = "register", !.name = n])

LiveRegCodes == {e \in DOMAIN regCodes : now <= regCodes[e].exp}

\* Without a code one is sent; it replaces the last one sent to that address.
RegisterSendCode(w, e) ==
  /\ At(w, "register") /\ deployment.verifyEmail
  /\ Step /\ Return(w)
  /\ regCodes' = Put(Restrict(regCodes, LiveRegCodes), e, [code |-> serial, exp |-> now + CodeTTL])
  /\ Draw
  /\ UNCHANGED <<users, userNext, sessions, authFails, captchas, emailCodes, resetTokens, history>>

\* The code of the address is removed, whether it is the one that was given or not.
RegisterTakeCode(w, e, code) ==
  LET right == e \in LiveRegCodes /\ regCodes[e].code = code IN
  /\ At(w, "register") /\ deployment.verifyEmail /\ Step
  /\ regCodes' = Restrict(regCodes, LiveRegCodes \ {e})
  /\ IF right THEN GoTo(w, "count") ELSE Return(w)
  /\ IF right THEN Accept(<<"regCode", code>>) ELSE UNCHANGED redeemed
  /\ UNCHANGED <<users, userNext, sessions, authFails, captchas, emailCodes, resetTokens, serial,
                 guesses, proved, firsts, spent, renamed, asked>>

\* Slip: the accounts are those there were at the start.
RegisterCountAtStart(w) ==
  /\ \/ At(w, "count")
     \/ At(w, "register") /\ ~deployment.verifyEmail
  /\ Step
  /\ Become(w, [task[w] EXCEPT !.stage = "create",
                               !.role = IF deployment.users = <<>> THEN "root" ELSE "user"])
  /\ UNCHANGED <<users, userNext, memory, serial, history>>

\* CountUsers: the first account is to be the administrator.
RegisterCount(w) ==
  /\ \/ At(w, "count")
     \/ At(w, "register") /\ ~deployment.verifyEmail
  /\ Step
  /\ Become(w, [task[w] EXCEPT !.stage = "create", !.role = IF users = <<>> THEN "root" ELSE "user"])
  /\ UNCHANGED <<users, userNext, memory, serial, history>>

\* SetupHandler, which is refused when there are accounts.
SetupCount(w, n) ==
  /\ Begin(w, "setup",
           IF users = <<>> THEN [Idle EXCEPT !.stage = "create", !.name = n, !.role = "root"]
           ELSE Idle)
  /\ UNCHANGED <<users, userNext, memory, serial, history>>

CreateUser(w, p) ==
  /\ At(w, "create") /\ Step
  /\ \/ /\ AddUser(task[w].name, p, task[w].role) /\ GoTo(w, "session")
        /\ firsts' = IF task[w].role = "root" THEN firsts \union {userNext} ELSE firsts
     \/ /\ HasName(task[w].name) /\ Return(w)
        /\ UNCHANGED <<users, userNext, firsts>>
  /\ UNCHANGED <<memory, serial, guesses, redeemed, proved, spent, renamed, asked>>

-------------------------------------------------------------------------------
(* Third-party login: handler/feat_oauth.go                                *)

\* The provider has said who it is.
OAuthLookup(w, n, e) ==
  /\ Begin(w, "oauth", [Idle EXCEPT !.stage = IF HasName(n) THEN "oauthEmail" ELSE "oauthCreate",
                                    !.name = n, !.email = e])
  /\ UNCHANGED <<users, userNext, memory, serial, history>>

\* The password is a random one that nobody knows.  That the name has been taken
\* meanwhile is no error.
OAuthCreate(w) ==
  /\ At(w, "oauthCreate") /\ Step /\ GoTo(w, "oauthEmail")
  /\ \/ AddUser(task[w].name, Nothing, "user")
     \/ HasName(task[w].name) /\ UNCHANGED <<users, userNext>>
  /\ UNCHANGED <<memory, serial, history>>

OAuthEmail(w) ==
  /\ At(w, "oauthEmail") /\ Step /\ GoTo(w, "session")
  /\ IF task[w].email = Nothing THEN UNCHANGED users ELSE SetUserEmail(task[w].name, task[w].email)
  /\ UNCHANGED <<userNext, memory, serial, history>>

-------------------------------------------------------------------------------
(* Second factor: handler/feat_2fa.go                                      *)

\* authorizedUser
Authorized(n) == \E s \in sessions : s.name = n \/ IsRoot(s.name)

TwoFA(n) == HasName(n) /\ users[RowOf(n)].twofa
Secret(n) == IF HasName(n) THEN users[RowOf(n)].secret ELSE 0

\* GetUser2FA, and the key is stored afterwards.
TwoFAEnable(w, n) ==
  /\ Authorized(n) /\ ~TwoFA(n)
  /\ Begin(w, "twofa", [Idle EXCEPT !.stage = "enable", !.name = n])
  /\ UNCHANGED <<users, userNext, memory, serial, history>>

StoreSecret(w) ==
  /\ At(w, "enable") /\ Step /\ Return(w)
  /\ SetUser2FA(task[w].name, serial, FALSE)
  /\ Draw
  /\ UNCHANGED <<userNext, memory, history>>

\* The code of the key that is stored is right.
TwoFAConfirm(w, n) ==
  /\ Authorized(n) /\ ~TwoFA(n) /\ Secret(n) # 0
  /\ Begin(w, "twofa", [Idle EXCEPT !.stage = "confirm", !.name = n, !.item = Secret(n)])
  /\ proved' = proved \union {Secret(n)}
  /\ UNCHANGED <<users, userNext, memory, serial, guesses, redeemed, firsts, spent, renamed, asked>>

\* Slip: whatever key is stored now is enabled.
EnableStoredSecret(w) ==
  /\ At(w, "confirm") /\ Step /\ GoTo(w, "recovery")
  /\ SetUser2FA(task[w].name, Secret(task[w].name), TRUE)
  /\ UNCHANGED <<userNext, memory, serial, history>>

\* The key that was read is enabled ...
EnableSecret(w) ==
  /\ At(w, "confirm") /\ Step /\ GoTo(w, "recovery")
  /\ SetUser2FA(task[w].name, task[w].item, TRUE)
  /\ UNCHANGED <<userNext, memory, serial, history>>

\* ... and the recovery codes, which bear the number of their generation, follow.
StoreRecovery(w) ==
  /\ At(w, "recovery") /\ Step /\ Return(w)
  /\ SetUserRecovery(task[w].name, {serial} \X (1..RecoveryCodes))
  /\ Draw
  /\ UNCHANGED <<userNext, memory, history>>

TwoFADisable(w, n) ==
  /\ Authorized(n) /\ TwoFA(n)
  /\ Begin(w, "twofa", [Idle EXCEPT !.stage = "disable", !.name = n])
  /\ UNCHANGED <<users, userNext, memory, serial, history>>

\* The recovery codes stay.
ClearSecret(w) ==
  /\ At(w, "disable") /\ Step /\ Return(w)
  /\ SetUser2FA(task[w].name, 0, FALSE)
  /\ UNCHANGED <<userNext, memory, serial, history>>

\* TwoFAVerifyHandler with a code of the key.
VerifyTOTP(w, n) ==
  /\ TwoFA(n)
  /\ Begin(w, "verify", [Idle EXCEPT !.stage = "session", !.name = n])
  /\ UNCHANGED <<users, userNext, memory, serial, history>>

\* Or with one of the recovery codes; the list without it is written afterwards.
VerifyRecovery(w, n, code) ==
  /\ HasName(n) /\ code \in users[RowOf(n)].recovery
  /\ Begin(w, "verify", [Idle EXCEPT !.stage = "spend", !.name = n, !.item = code[1],
                                     !.codes = users[RowOf(n)].recovery \ {code}])
  /\ UNCHANGED <<users, userNext, memory, serial, history>>

\* Slip: the shorter list is not written.
SpendRecoveryForgotten(w) ==
  /\ At(w, "spend") /\ Step /\ GoTo(w, "session")
  /\ spent' = OneMore(spent, <<task[w].name, task[w].item>>)
  /\ UNCHANGED <<users, userNext, memory, serial, guesses, redeemed, proved, firsts, renamed, asked>>

SpendRecovery(w) ==
  /\ At(w, "spend") /\ Step /\ GoTo(w, "session")
  /\ SetUserRecovery(task[w].name, task[w].codes)
  /\ spent' = OneMore(spent, <<task[w].name, task[w].item>>)
  /\ UNCHANGED <<userNext, memory, serial, guesses, redeemed, proved, firsts, renamed, asked>>

-------------------------------------------------------------------------------
(* Mailed codes and tokens: handler/feat_email.go                          *)

EmailSendCode(n, e) ==
  /\ Authorized(n) /\ Arrive("email")
  /\ emailCodes' = Live(emailCodes)
       \union {[name |-> n, email |-> e, code |-> serial, exp |-> now + CodeTTL]}
  /\ Draw
  /\ UNCHANGED <<users, userNext, sessions, authFails, captchas, regCodes, resetTokens, task,
                 history>>

\* emailVerify removes the code ...
EmailTakeCode(w, n, code) ==
  LET found == {e \in Live(emailCodes) : e.name = n /\ e.code = code} IN
  /\ Authorized(n) /\ found # {}
  /\ emailCodes' = Live(emailCodes) \ found
  /\ Accept(<<"emailCode", code>>)
  /\ \E e \in found : Begin(w, "email", [Idle EXCEPT !.stage = "email", !.name = n, !.email = e.email])
  /\ UNCHANGED <<users, userNext, sessions, authFails, captchas, regCodes, resetTokens, serial,
                 guesses, proved, firsts, spent, renamed, asked>>

\* ... and binds the address it was sent to.
BindEmail(w) ==
  /\ At(w, "email") /\ Step /\ Return(w)
  /\ SetUserEmail(task[w].name, task[w].email)
  /\ UNCHANGED <<userNext, memory, serial, history>>

\* resetSendLink: the first account with that address, ...
ResetFindAddress(w, e) ==
  /\ \E i \in Rows :
       /\ users[i].email = e /\ \A j \in 1..(i - 1) : users[j].email # e
       /\ Begin(w, "reset", [Idle EXCEPT !.stage = "token", !.name = users[i].name])
  /\ UNCHANGED <<users, userNext, memory, serial, history>>

\* ... whose name the token holds.
ResetSendLink(w) ==
  /\ At(w, "token") /\ Step /\ Return(w)
  /\ resetTokens' = Live(resetTokens)
       \union {[token |-> serial, name |-> task[w].name, exp |-> now + ResetTTL]}
  /\ Draw
  /\ UNCHANGED <<users, userNext, sessions, authFails, captchas, regCodes, emailCodes, history>>

\* resetApply removes the token, ...
ResetTakeToken(w, token) ==
  LET found == {e \in Live(resetTokens) : e.token = token} IN
  /\ found # {}
  /\ resetTokens' = Live(resetTokens) \ found
  /\ Accept(<<"resetToken", token>>)
  /\ \E e \in found : Begin(w, "reset", [Idle EXCEPT !.stage = "find", !.name = e.name])
  /\ UNCHANGED <<users, userNext, sessions, authFails, captchas, regCodes, emailCodes, serial,
                 guesses, proved, firsts, spent, renamed, asked>>

\* ... looks the account up ...
ResetFind(w) ==
  LET n == task[w].name IN
  /\ At(w, "find") /\ Step
  /\ IF HasName(n)
       THEN Become(w, [task[w] EXCEPT !.stage = "password", !.item = users[RowOf(n)].id])
       ELSE Return(w)
  /\ UNCHANGED <<users, userNext, memory, serial, history>>

\* ... and writes a form of which only the password is filled in: the account is disabled.
ResetApply(w, p) ==
  LET form == [name |-> Nothing, role |-> Nothing, password |-> p, enabled |-> FALSE]
      hit  == {i \in Rows : users[i].id = task[w].item} IN
  /\ At(w, "password") /\ Step /\ Return(w)
  /\ IF hit = {} THEN UNCHANGED users ELSE \E i \in hit : UpdateUser(i, form)
  /\ UNCHANGED <<userNext, memory, serial, history>>

-------------------------------------------------------------------------------
(* Administration of accounts: handler/manage.go                           *)

\* The session is looked up and is the administrator's; what it asks for is done later.
AdminCheck(w) ==
  /\ \E s \in sessions : IsRoot(s.name)
  /\ Begin(w, "admin", [Idle EXCEPT !.stage = "admin"])
  /\ UNCHANGED <<users, userNext, memory, serial, history>>

AdminUpdate(w, i, patch) ==
  /\ At(w, "admin") /\ i \in Rows /\ NameIsFree(i, patch.name)
  /\ Step /\ Return(w)
  /\ UpdateUser(i, patch)
  /\ renamed' = renamed \union ({patch.name} \ {Nothing, users[i].name})
  /\ UNCHANGED <<userNext, memory, serial, guesses, redeemed, proved, firsts, spent, asked>>

AdminCreate(w, form) ==
  /\ At(w, "admin") /\ form.name # Nothing /\ form.password # Nothing
  /\ Step /\ Return(w)
  /\ AddUser(form.name, form.password, IF form.role = Nothing THEN "user" ELSE form.role)
  /\ UNCHANGED <<memory, serial, history>>

\* DeleteUser refuses the administrator.
AdminDelete(w, i) ==
  /\ At(w, "admin") /\ i \in Rows /\ users[i].role # "root"
  /\ Step /\ Return(w)
  /\ users' = RemoveAt(users, i)
  /\ UNCHANGED <<userNext, memory, serial, history>>

\* 2fa-reset finds the name of the ID first, then does what TwoFADisable does.
AdminReset2FA(w, i) ==
  /\ At(w, "admin") /\ i \in Rows
  /\ Step /\ Become(w, [Idle EXCEPT !.stage = "disable", !.name = users[i].name])
  /\ UNCHANGED <<users, userNext, memory, serial, history>>

-------------------------------------------------------------------------------
(* The clock and the crash                                                 *)

Tick ==
  /\ now < MaxTime
  /\ now' = now + 1
  /\ UNCHANGED <<deployment, users, userNext, memory, serial, task, requests, crashes, history>>

\* A crash and the restart: InitUsers counts the IDs on from the highest one.
Crash ==
  /\ crashes < MaxCrashes
  /\ crashes' = crashes + 1
  /\ task' = [w \in Workers |-> Idle]
  /\ sessions' = IF deployment.redis THEN sessions ELSE {}
  /\ authFails' = NoEntries /\ regCodes' = NoEntries
  /\ captchas' = {} /\ emailCodes' = {} /\ resetTokens' = {}
  /\ userNext' = Max({0} \union {users[i].id : i \in Rows}) + 1
  /\ firsts' = firsts \intersect {users[i].id : i \in Rows}
  /\ guesses' = [t \in Typed |-> 0]
  /\ asked' = <<>>
  /\ UNCHANGED <<deployment, users, now, serial, requests, redeemed, proved, spent, renamed>>

-------------------------------------------------------------------------------
(* Specification                                                           *)

\* The program has just started with the accounts it has on disk and, with Redis, the
\* sessions that are left there.
Init ==
  /\ deployment \in Deployments
  /\ users = deployment.users
  /\ userNext = Max({0} \union {users[i].id : i \in Rows}) + 1
  /\ sessions = deployment.sessions
  /\ authFails = NoEntries /\ regCodes = NoEntries
  /\ captchas = {} /\ emailCodes = {} /\ resetTokens = {}
  /\ now = 0
  /\ serial = 1
  /\ task = [w \in Workers |-> Idle]
  /\ requests = 0 /\ crashes = 0
  /\ guesses = [t \in Typed |-> 0]
  /\ redeemed = NoEntries
  /\ proved = {users[i].secret : i \in Rows}
  /\ firsts = {}
  /\ spent = NoEntries
  /\ renamed = {}
  /\ asked = <<>>

\* The names that are used in this deployment.
Clients == deployment.names

SessionTraffic(w) ==
  \/ \E id \in 1..serial, right \in BOOLEAN : LoginCaptcha(w, id, right)
  \/ \E typed \in Clients \union Emails : LoginCheck(w, typed)
  \/ \E p \in Passwords : LoginVerify(w, p)
  \/ LoginFail(w) \/ LoginReset(w) \/ CreateSession(w)

RegisterTraffic(w) ==
  \/ \E id \in 1..serial, right \in BOOLEAN, n \in Clients : RegisterCaptcha(w, id, right, n)
  \/ \E e \in Emails : RegisterSendCode(w, e)
  \/ \E e \in Emails, code \in 1..serial : RegisterTakeCode(w, e, code)
  \/ RegisterCount(w) \/ (\E p \in Passwords : CreateUser(w, p))
  \/ \E n \in Clients : SetupCount(w, n)
  \/ \E n \in Clients, e \in Emails \union {Nothing} : OAuthLookup(w, n, e)
  \/ OAuthCreate(w) \/ OAuthEmail(w)

TwoFATraffic(w) ==
  \/ \E n \in Clients : TwoFAEnable(w, n) \/ TwoFAConfirm(w, n) \/ TwoFADisable(w, n)
  \/ StoreSecret(w) \/ EnableSecret(w) \/ StoreRecovery(w) \/ ClearSecret(w)
  \/ \E n \in Clients : VerifyTOTP(w, n)
  \/ \E i \in Rows : \E code \in users[i].recovery : VerifyRecovery(w, users[i].name, code)
  \/ SpendRecovery(w)

MailTraffic(w) ==
  \/ \E n \in Clients, code \in 1..serial : EmailTakeCode(w, n, code)
  \/ BindEmail(w)
  \/ \E e \in Emails : ResetFindAddress(w, e)
  \/ ResetSendLink(w) \/ ResetFind(w)
  \/ \E token \in 1..serial : ResetTakeToken(w, token)
  \/ \E p \in Passwords : ResetApply(w, p)

AdminTraffic(w) ==
  \/ AdminCheck(w)
  \/ \E i \in Rows : AdminDelete(w, i) \/ AdminReset2FA(w, i)
  \/ \E form \in Patches : AdminCreate(w, form) \/ (\E i \in Rows : AdminUpdate(w, i, form))

Next ==
  \/ \E w \in Workers : \/ SessionTraffic(w) \/ RegisterTraffic(w) \/ TwoFATraffic(w)
                        \/ MailTraffic(w) \/ AdminTraffic(w)
  \/ CaptchaHandler
  \/ \E n \in Clients, e \in Emails : EmailSendCode(n, e)
  \/ \E s \in sessions : DeleteSession(s)
  \/ Tick
  \/ Crash

Spec == Init /\ [][Next]_vars

-------------------------------------------------------------------------------
(* Properties                                                              *)

Task == [stage: Stages, typed: Typed \union {Nothing}, name: Names \union {Nothing},
         email: Emails \union {Nothing}, role: Roles, item: Nat,
         codes: SUBSET (Nat \X (1..RecoveryCodes))]

\* Every variable keeps its type, and no two accounts share a name or an ID.
TypeOK ==
  /\ deployment \in Deployments
  /\ users \in Seq(User) /\ userNext \in Nat
  /\ \A i, j \in Rows : i # j => users[i].id # users[j].id /\ users[i].name # users[j].name
  /\ sessions \subseteq [token: Nat, name: Names]
  /\ DOMAIN authFails \subseteq Typed /\ Range(authFails) \subseteq [count: Nat, until: Nat]
  /\ captchas \subseteq [id: Nat, exp: Nat] /\ asked \in Seq([id: Nat, exp: Nat, tried: BOOLEAN])
  /\ DOMAIN regCodes \subseteq Emails /\ Range(regCodes) \subseteq [code: Nat, exp: Nat]
  /\ emailCodes \subseteq [name: Names, email: Emails, code: Nat, exp: Nat]
  /\ resetTokens \subseteq [token: Nat, name: Names, exp: Nat]
  /\ now \in 0..MaxTime /\ serial \in Nat \ {0}
  /\ task \in [Workers -> Task]
  /\ requests \in 0..deployment.requests /\ crashes \in 0..MaxCrashes
  /\ guesses \in [Typed -> Nat] /\ Range(redeemed) \subseteq Nat
  /\ DOMAIN spent \subseteq Names \X Nat /\ Range(spent) \subseteq Nat /\ renamed \subseteq Names
  /\ proved \subseteq Nat /\ firsts \subseteq Nat

\* RegisterHandler and SetupHandler count the accounts and create one later, so
\* several requests may all find none.  Only those under way at once can: no more
\* accounts become root without an administrator than there are goroutines.
FirstRootsBounded ==
  Cardinality({i \in Rows : users[i].role = "root" /\ users[i].id \in firsts})
    <= Cardinality(Workers)

\* The lock is read before the password is tried and set after it, and the count
\* outlives it.  All the same a typed name that never succeeds fails at most one time
\* for each goroutine in a lock period, once the threshold is reached.
FailuresBounded ==
  \A t \in Typed :
    guesses[t] <= Threshold - 1 + Cardinality(Workers) * (1 + now \div Lockout)

\* A captcha, a registration code, an address code and a reset token are accepted once,
\* whatever requests race for them.
AcceptedOnce == \A t \in DOMAIN redeemed : redeemed[t] <= 1

\* Whatever Enable, Confirm and Disable do in between, a key that is required at
\* login is one a right code was shown for.
EnabledSecretWasProved == \A i \in Rows : users[i].twofa => users[i].secret \in proved \ {0}

\* verifyRecoveryCode reads the list and writes it without the code later, so a used
\* code may be used again or come back, and a list may even come to whoever has the name
\* by then.  As long as no account is given the name of another, W goroutines and N codes
\* of one generation still admit at most C(N + W, W) - 1 times: each time there is one
\* less of the ways in which the goroutines may have 0 to N codes before them.
Ways == {count \in [1..RecoveryCodes -> 0..Cardinality(Workers)] :
           \A m, n \in 1..RecoveryCodes : m <= n => count[n] <= count[m]}

RecoveryBounded ==
  \A k \in DOMAIN spent : k[1] \notin renamed => spent[k] <= Cardinality(Ways) - 1

\* The store is bounded and drops the oldest captcha: one that nobody tried, that has
\* not expired and after which fewer than MaxCaptchas were made can still be answered.
RecentCaptchaKept ==
  /\ Cardinality(captchas) <= MaxCaptchas
  /\ \A i \in DOMAIN asked :
       ~asked[i].tried /\ asked[i].exp >= now /\ Len(asked) - i < MaxCaptchas =>
         [id |-> asked[i].id, exp |-> asked[i].exp] \in captchas

\* A captcha, a code and a link work when they are shown in time, and once.
HandedOutWorksOnce == AcceptedOnce /\ RecentCaptchaKept

================================================================================
