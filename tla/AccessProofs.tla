------------------------------ MODULE AccessProofs -----------------------------
(***************************************************************************)
(* Theorems about Access for any number of goroutines, accounts, requests  *)
(* and crashes: how many accounts become the first one, how often a locked *)
(* name fails, that what is handed out works once, that a key that is      *)
(* required was proved, and how often the recovery codes admit.            *)
(***************************************************************************)
EXTENDS Access, Induction

-------------------------------------------------------------------------------
(* Requests                                                                *)

\* Where a request is about an account, and where about a name that was typed.
NamedStages == Stages \ {"idle", "login", "verify", "fail", "admin"}
TypedStages == {"verify", "fail", "reset", "resetOnly"}

Sound(t) ==
  /\ t.stage \in NamedStages => t.name \in Names
  /\ t.stage \in TypedStages => t.typed \in Typed

TaskOK == task \in [Workers -> Task] /\ \A w \in Workers : Sound(task[w])

\* The goroutine goes from one stage to another, and the others do nothing.
Goes(w, from, to) ==
  /\ task[w].stage \in from /\ task'[w] \in Task /\ Sound(task'[w]) /\ task'[w].stage \in to
  /\ task' = [task EXCEPT ![w] = task'[w]]
  /\ \A v \in Workers \ {w} : task'[v] = task[v]

LEMMA Roots == "root" \in Roles /\ "user" \in Roles /\ "root" # "user"
BY DEF Roles

LEMMA IdleTask ==
  /\ Idle \in Task /\ Sound(Idle) /\ Idle.stage = "idle" /\ Idle.typed = Nothing
  /\ Idle.name = Nothing /\ Idle.email = Nothing /\ Idle.role = "user" /\ Idle.item = 0
  /\ Idle.codes = {}
BY DEF Idle, Task, Stages, Roles, Sound, NamedStages, TypedStages

LEMMA StageNames ==
  /\ "idle" \in Stages /\ "login" \in Stages /\ "verify" \in Stages /\ "fail" \in Stages
  /\ "reset" \in Stages /\ "resetOnly" \in Stages /\ "session" \in Stages
  /\ "register" \in Stages /\ "count" \in Stages /\ "create" \in Stages
  /\ "oauthCreate" \in Stages /\ "oauthEmail" \in Stages /\ "enable" \in Stages
  /\ "confirm" \in Stages /\ "recovery" \in Stages /\ "disable" \in Stages
  /\ "spend" \in Stages /\ "email" \in Stages /\ "token" \in Stages /\ "find" \in Stages
  /\ "password" \in Stages /\ "admin" \in Stages
BY DEF Stages

LEMMA StageOf ==
  ASSUME NEW t \in Task, NEW s \in Stages
  PROVE  /\ [t EXCEPT !.stage = s] \in Task
         /\ [t EXCEPT !.stage = s].stage = s
         /\ [t EXCEPT !.stage = s].typed = t.typed /\ [t EXCEPT !.stage = s].name = t.name
         /\ [t EXCEPT !.stage = s].email = t.email /\ [t EXCEPT !.stage = s].role = t.role
         /\ [t EXCEPT !.stage = s].item = t.item /\ [t EXCEPT !.stage = s].codes = t.codes
BY DEF Task

\* A request about an account and no typed name, as the handlers begin one.
LEMMA NamedTask ==
  ASSUME NEW s \in Stages \ TypedStages, NEW n \in Names
  PROVE  /\ [Idle EXCEPT !.stage = s, !.name = n] \in Task
         /\ Sound([Idle EXCEPT !.stage = s, !.name = n])
         /\ [Idle EXCEPT !.stage = s, !.name = n].stage = s
         /\ [Idle EXCEPT !.stage = s, !.name = n].name = n
BY IdleTask DEF Idle, Task, Sound

\* What Become, GoTo, Return and Begin do.
LEMMA ControlGoes ==
  ASSUME TaskOK, NEW w \in Workers
  PROVE  /\ task[w] \in Task /\ Sound(task[w])
         /\ \A t \in Task : Sound(t) /\ Become(w, t) =>
              Goes(w, {task[w].stage}, {t.stage}) /\ task'[w] = t
         /\ \A s \in Stages \ TypedStages : task[w].stage \in NamedStages /\ GoTo(w, s) =>
              Goes(w, {task[w].stage}, {s}) /\ task'[w] = [task[w] EXCEPT !.stage = s]
         /\ Return(w) => Goes(w, {task[w].stage}, {"idle"}) /\ task'[w] = Idle
         /\ \A kind : \A t \in Task : Sound(t) /\ Begin(w, kind, t) =>
              Goes(w, {"idle"}, {t.stage}) /\ task'[w] = t
<1>1. task \in [Workers -> Task] /\ task[w] \in Task /\ Sound(task[w])
  BY DEF TaskOK
<1>2. ASSUME NEW t \in Task, Sound(t), task' = [task EXCEPT ![w] = t]
      PROVE  Goes(w, {task[w].stage}, {t.stage}) /\ task'[w] = t
  BY <1>1, <1>2 DEF Goes
<1>3. ASSUME NEW s \in Stages \ TypedStages, task[w].stage \in NamedStages, GoTo(w, s)
      PROVE  Goes(w, {task[w].stage}, {s}) /\ task'[w] = [task[w] EXCEPT !.stage = s]
  <2> DEFINE t == [task[w] EXCEPT !.stage = s]
  <2>1. /\ t \in Task /\ t.stage = s /\ task' = [task EXCEPT ![w] = t]
        /\ t.name = task[w].name
    BY <1>1, <1>3, StageOf DEF GoTo, Become
  <2>2. Sound(t)
    <3> HIDE DEF t
    <3>1. QED
      BY <1>1, <1>3, <2>1 DEF Sound
  <2> HIDE DEF t
  <2>3. QED
    BY <1>2, <2>1, <2>2 DEF t
<1>4. QED
  BY <1>1, <1>2, <1>3, IdleTask DEF Become, Return, Begin, At

LEMMA BeginGoes ==
  ASSUME TaskOK, NEW w \in Workers, NEW kind, NEW s \in Stages \ TypedStages, NEW n \in Names,
         Begin(w, kind, [Idle EXCEPT !.stage = s, !.name = n])
  PROVE  Goes(w, {"idle"}, {s})
<1> DEFINE t == [Idle EXCEPT !.stage = s, !.name = n]
<1>1. t \in Task /\ Sound(t) /\ t.stage = s
  BY NamedTask
<1>2. Begin(w, kind, t)
  OBVIOUS
<1> HIDE DEF t
<1>3. QED
  BY <1>1, <1>2, ControlGoes

LEMMA GoesTask == ASSUME TaskOK, NEW w \in Workers, NEW from, NEW to, Goes(w, from, to) PROVE TaskOK'
BY DEF TaskOK, Goes

-------------------------------------------------------------------------------
(* The user table                                                          *)

Unique == \A i, j \in Rows : i # j => users[i].id # users[j].id /\ users[i].name # users[j].name

TableOK == users \in Seq(User) /\ userNext \in Nat /\ Unique

LEMMA RowNumbers ==
  ASSUME TableOK
  PROVE  /\ Len(users) \in Nat /\ Rows = 1 .. Len(users)
         /\ \A i \in Rows : users[i] \in User /\ i \in Nat
         /\ \A i \in Rows : \A n : IsFirst(i, n) <=> users[i].name = n
<1>1. Len(users) \in Nat /\ Rows = 1 .. Len(users)
  BY DEF TableOK, Rows
<1>2. \A i \in Rows : users[i] \in User /\ i \in Nat
  BY <1>1 DEF TableOK
<1>3. ASSUME NEW i \in Rows, NEW n PROVE IsFirst(i, n) <=> users[i].name = n
  <2>1. SUFFICES ASSUME users[i].name = n, NEW j \in 1 .. (i - 1) PROVE users[j].name # n
    BY DEF IsFirst
  <2>2. i \in Nat /\ i <= Len(users)
    BY <1>1
  <2>3. j \in Rows /\ j # i
    BY <1>1, <2>2
  <2>4. QED
    BY <2>1, <2>3 DEF TableOK, Unique
<1>4. QED
  BY <1>1, <1>2, <1>3

\* The row found by name.
LEMMA RowFound ==
  ASSUME TableOK, NEW i \in Rows, NEW n, users[i].name = n
  PROVE  HasName(n) /\ RowOf(n) = i
<1>1. IsFirst(i, n) /\ HasName(n)
  BY RowNumbers DEF HasName
<1>2. RowOf(n) \in Rows /\ IsFirst(RowOf(n), n)
  BY <1>1 DEF RowOf
<1>3. users[RowOf(n)].name = n
  BY <1>2 DEF IsFirst
<1>4. QED
  BY <1>1, <1>2, <1>3 DEF TableOK, Unique

LEMMA NameFound ==
  ASSUME TableOK, NEW n, HasName(n)
  PROVE  RowOf(n) \in Rows /\ users[RowOf(n)].name = n /\ users[RowOf(n)] \in User
<1>1. PICK i \in Rows : users[i].name = n
  BY DEF HasName
<1>2. RowOf(n) = i
  BY <1>1, RowFound
<1>3. QED
  BY <1>1, <1>2, RowNumbers

\* The same rows, each with its ID and its name.
SameRows ==
  /\ users' \in Seq(User) /\ Rows' = Rows
  /\ \A i \in Rows : users'[i].id = users[i].id /\ users'[i].name = users[i].name

LEMMA RowsRewritten ==
  ASSUME TableOK, NEW table \in [Rows -> User], users' = table,
         \A i \in Rows : table[i].id = users[i].id /\ table[i].name = users[i].name
  PROVE  SameRows
<1>1. Len(users) \in Nat /\ Rows = 1 .. Len(users)
  BY RowNumbers
<1>2. users' \in Seq(User)
  BY <1>1
<1>3. Rows' = Rows
  BY DEF Rows
<1>4. QED
  BY <1>2, <1>3 DEF SameRows

LEMMA SameRowsOK == ASSUME TableOK, SameRows, userNext' \in Nat PROVE TableOK'
<1>1. Unique'
  BY DEF TableOK, SameRows, Unique
<1>2. QED
  BY <1>1 DEF TableOK, SameRows

\* What each of the edits by name does to the rows.
LEMMA EditsByName ==
  ASSUME TableOK, NEW n
  PROVE  /\ \A e \in Emails \union {Nothing} : SetUserEmail(n, e) =>
              /\ SameRows
              /\ \A i \in Rows : /\ users'[i].secret = users[i].secret
                                 /\ users'[i].twofa = users[i].twofa
                                 /\ users'[i].recovery = users[i].recovery
         /\ \A secret \in Nat, enabled \in BOOLEAN : SetUser2FA(n, secret, enabled) =>
              /\ SameRows
              /\ \A i \in Rows :
                   /\ users'[i].recovery = users[i].recovery
                   /\ users[i].name = n => users'[i].secret = secret /\ users'[i].twofa = enabled
                   /\ users[i].name # n => users'[i] = users[i]
         /\ \A codes \in SUBSET (Nat \X (1..RecoveryCodes)) : SetUserRecovery(n, codes) =>
              /\ SameRows
              /\ \A i \in Rows :
                   /\ users'[i].secret = users[i].secret /\ users'[i].twofa = users[i].twofa
                   /\ users[i].name = n => users'[i].recovery = codes
                   /\ users[i].name # n => users'[i] = users[i]
<1>1. \A i \in Rows : users[i] \in User /\ (IsFirst(i, n) <=> users[i].name = n)
  BY RowNumbers
<1>2. ASSUME NEW e \in Emails \union {Nothing}, SetUserEmail(n, e)
      PROVE  /\ SameRows
             /\ \A i \in Rows : /\ users'[i].secret = users[i].secret
                                /\ users'[i].twofa = users[i].twofa
                                /\ users'[i].recovery = users[i].recovery
  <2> DEFINE table == [i \in Rows |-> IF IsFirst(i, n) THEN [users[i] EXCEPT !.email = e]
                                      ELSE users[i]]
  <2>1. users' = table
    BY <1>2 DEF SetUserEmail
  <2>2. \A i \in Rows : /\ table[i] \in User /\ table[i].id = users[i].id
                        /\ table[i].name = users[i].name /\ table[i].secret = users[i].secret
                        /\ table[i].twofa = users[i].twofa
                        /\ table[i].recovery = users[i].recovery
    BY <1>1 DEF User
  <2>3. table \in [Rows -> User]
    BY <2>2
  <2> HIDE DEF table
  <2>4. SameRows
    BY <2>1, <2>2, <2>3, RowsRewritten
  <2>5. QED
    BY <2>1, <2>2, <2>4
<1>3. ASSUME NEW secret \in Nat, NEW enabled \in BOOLEAN, SetUser2FA(n, secret, enabled)
      PROVE  /\ SameRows
             /\ \A i \in Rows :
                  /\ users'[i].recovery = users[i].recovery
                  /\ users[i].name = n => users'[i].secret = secret /\ users'[i].twofa = enabled
                  /\ users[i].name # n => users'[i] = users[i]
  <2> DEFINE table == [i \in Rows |-> IF IsFirst(i, n)
                                        THEN [users[i] EXCEPT !.secret = secret, !.twofa = enabled]
                                        ELSE users[i]]
  <2>1. users' = table
    BY <1>3 DEF SetUser2FA
  <2>2. \A i \in Rows :
          /\ table[i] \in User /\ table[i].id = users[i].id /\ table[i].name = users[i].name
          /\ table[i].recovery = users[i].recovery
          /\ users[i].name = n => table[i].secret = secret /\ table[i].twofa = enabled
          /\ users[i].name # n => table[i] = users[i]
    BY <1>1, ZenonT(60) DEF User
  <2>3. table \in [Rows -> User]
    BY <2>2
  <2> HIDE DEF table
  <2>4. SameRows
    BY <2>1, <2>2, <2>3, RowsRewritten
  <2>5. QED
    BY <2>1, <2>2, <2>4
<1>4. ASSUME NEW codes \in SUBSET (Nat \X (1..RecoveryCodes)), SetUserRecovery(n, codes)
      PROVE  /\ SameRows
             /\ \A i \in Rows :
                  /\ users'[i].secret = users[i].secret /\ users'[i].twofa = users[i].twofa
                  /\ users[i].name = n => users'[i].recovery = codes
                  /\ users[i].name # n => users'[i] = users[i]
  <2> DEFINE table == [i \in Rows |-> IF IsFirst(i, n) THEN [users[i] EXCEPT !.recovery = codes]
                                      ELSE users[i]]
  <2>1. users' = table
    BY <1>4 DEF SetUserRecovery
  <2>2. \A i \in Rows :
          /\ table[i] \in User /\ table[i].id = users[i].id /\ table[i].name = users[i].name
          /\ table[i].secret = users[i].secret /\ table[i].twofa = users[i].twofa
          /\ users[i].name = n => table[i].recovery = codes
          /\ users[i].name # n => table[i] = users[i]
    BY <1>1 DEF User
  <2>3. table \in [Rows -> User]
    BY <2>2
  <2> HIDE DEF table
  <2>4. SameRows
    BY <2>1, <2>2, <2>3, RowsRewritten
  <2>5. QED
    BY <2>1, <2>2, <2>4
<1>5. QED
  BY <1>2, <1>3, <1>4

\* A form that is filled in; IDs, keys and recovery codes stay.
LEMMA FormApplied ==
  ASSUME TableOK, NEW i \in Rows,
         NEW patch \in [name: Names \union {Nothing}, role: Roles \union {Nothing},
                        enabled: BOOLEAN, password: Passwords \union {Nothing}],
         UpdateUser(i, patch), NameIsFree(i, patch.name), userNext' \in Nat
  PROVE  /\ TableOK' /\ Rows' = Rows
         /\ \A j \in Rows \ {i} : users'[j] = users[j]
         /\ users'[i].id = users[i].id /\ users'[i].secret = users[i].secret
         /\ users'[i].twofa = users[i].twofa /\ users'[i].recovery = users[i].recovery
         /\ users'[i].name = IF patch.name = Nothing THEN users[i].name ELSE patch.name
<1> DEFINE u == Patched(users[i], patch)
<1>1. /\ Len(users) \in Nat /\ Rows = 1 .. Len(users) /\ users \in [Rows -> User]
      /\ users[i] \in User
  <2>1. Len(users) \in Nat /\ Rows = 1 .. Len(users) /\ users[i] \in User
    BY RowNumbers
  <2>2. users \in [1 .. Len(users) -> User]
    BY DEF TableOK
  <2>3. QED
    BY <2>1, <2>2
<1>2. /\ u \in User /\ u.id = users[i].id /\ u.secret = users[i].secret
      /\ u.twofa = users[i].twofa /\ u.recovery = users[i].recovery
      /\ u.name = IF patch.name = Nothing THEN users[i].name ELSE patch.name
  BY <1>1, ZenonT(60) DEF User, Patched
<1>3. users' = [users EXCEPT ![i] = u]
  BY DEF UpdateUser
<1> HIDE DEF u
<1>4. users' \in Seq(User) /\ users' \in [Rows -> User]
  <2>1. users' \in [Rows -> User]
    BY <1>1, <1>2, <1>3
  <2>2. QED
    BY <1>1, <2>1
<1>5. Rows' = Rows
  BY <1>4 DEF Rows
<1>6. \A j \in Rows \ {i} : users'[j] = users[j]
  BY <1>1, <1>3
<1>7. users'[i] = u
  BY <1>1, <1>3
<1>8. \A j \in Rows \ {i} : users[j].id # u.id /\ users[j].name # u.name
  BY <1>2 DEF TableOK, Unique, NameIsFree
<1>9. Unique'
  BY <1>5, <1>6, <1>7, <1>8 DEF TableOK, Unique
<1>10. QED
  BY <1>2, <1>4, <1>5, <1>6, <1>7, <1>9 DEF TableOK

LEMMA NewUserFields ==
  ASSUME userNext \in Nat, NEW n \in Names, NEW p \in Passwords \union {Nothing}, NEW role \in Roles
  PROVE  LET u == NewUser(n, p, role) IN
         /\ u \in User /\ u.id = userNext /\ u.name = n /\ u.role = role
         /\ ~u.twofa /\ u.recovery = {}
BY DEF NewUser, User

\* A new row at the end.
LEMMA RowAdded ==
  ASSUME TableOK, \A i \in Rows : users[i].id < userNext,
         NEW n \in Names, NEW p \in Passwords \union {Nothing}, NEW role \in Roles,
         AddUser(n, p, role)
  PROVE  LET new == Len(users) + 1 IN
         /\ TableOK' /\ userNext' = userNext + 1
         /\ new \notin Rows /\ Rows' = Rows \union {new}
         /\ \A i \in Rows : users'[i] = users[i] /\ users[i].name # n
         /\ users'[new] = NewUser(n, p, role)
<1> DEFINE new == Len(users) + 1
           u   == NewUser(n, p, role)
<1>1. /\ Len(users) \in Nat /\ Rows = 1 .. Len(users) /\ users \in Seq(User)
      /\ userNext \in Nat
  BY RowNumbers DEF TableOK
<1>2. u \in User /\ u.id = userNext /\ u.name = n
  BY <1>1, NewUserFields
<1>3. /\ users' = Append(users, u) /\ userNext' = userNext + 1 /\ userNext' \in Nat
      /\ \A i \in Rows : users[i].name # n
  BY <1>1 DEF AddUser, HasName
<1> HIDE DEF u
<1>4. /\ users' \in Seq(User) /\ Len(users') = new
      /\ \A i \in Rows : users'[i] = users[i]
      /\ users'[new] = u
  BY <1>1, <1>2, <1>3
<1>5. Rows' = 1 .. new
  BY <1>4 DEF Rows
<1>6. new \notin Rows /\ Rows' = Rows \union {new}
  BY <1>1, <1>5
<1>7. \A i \in Rows : users[i].id # userNext
  BY <1>1, RowNumbers DEF User
<1>8. Unique'
  <2>1. SUFFICES ASSUME NEW j \in Rows', NEW k \in Rows', j # k
                 PROVE  users'[j].id # users'[k].id /\ users'[j].name # users'[k].name
    BY DEF Unique
  <2>2. CASE j \in Rows /\ k \in Rows
    BY <1>4, <2>1, <2>2 DEF TableOK, Unique
  <2>3. CASE j = new /\ k \in Rows
    BY <1>2, <1>3, <1>4, <1>7, <2>3
  <2>4. CASE k = new /\ j \in Rows
    BY <1>2, <1>3, <1>4, <1>7, <2>4
  <2>5. QED
    BY <1>6, <2>1, <2>2, <2>3, <2>4
<1>9. QED
  BY <1>3, <1>4, <1>6, <1>8 DEF TableOK, u

\* A row removed: every row is one there was, and none is twice there.
LEMMA RowRemoved ==
  ASSUME TableOK, NEW i \in Rows, users' = RemoveAt(users, i), userNext' \in Nat
  PROVE  /\ TableOK'
         /\ \A j \in Rows' : \E k \in Rows \ {i} : users'[j] = users[k]
         /\ \A k \in Rows \ {i} : \E j \in Rows' : users'[j] = users[k]
<1>1. /\ Len(users) \in Nat /\ Rows = 1 .. Len(users) /\ users \in Seq(User) /\ i \in Rows
  BY RowNumbers DEF TableOK
<1>2. users' = SubSeq(users, 1, i - 1) \o SubSeq(users, i + 1, Len(users))
  BY DEF RemoveAt
<1>3. /\ SubSeq(users, 1, i - 1) \in Seq(User) /\ Len(SubSeq(users, 1, i - 1)) = i - 1
      /\ \A j \in 1 .. i - 1 : SubSeq(users, 1, i - 1)[j] = users[j]
  BY <1>1
<1>4. /\ SubSeq(users, i + 1, Len(users)) \in Seq(User)
      /\ Len(SubSeq(users, i + 1, Len(users))) = Len(users) - i
      /\ \A j \in 1 .. Len(users) - i : SubSeq(users, i + 1, Len(users))[j] = users[i + j]
  BY <1>1
<1> DEFINE s == SubSeq(users, 1, i - 1)
           t == SubSeq(users, i + 1, Len(users))
<1>5. /\ s \in Seq(User) /\ Len(s) = i - 1 /\ \A j \in 1 .. i - 1 : s[j] = users[j]
      /\ t \in Seq(User) /\ Len(t) = Len(users) - i
      /\ \A j \in 1 .. Len(users) - i : t[j] = users[i + j]
      /\ users' = s \o t
  BY <1>2, <1>3, <1>4
<1> HIDE DEF s, t
<1>6. /\ users' \in Seq(User) /\ Len(users') = Len(users) - 1
      /\ \A j \in 1 .. i - 1 : users'[j] = s[j]
      /\ \A j \in i .. Len(users) - 1 : users'[j] = t[j - (i - 1)]
  BY <1>1, <1>5, SMTT(30)
<1>7. /\ Rows' = 1 .. Len(users) - 1
      /\ \A j \in 1 .. i - 1 : users'[j] = users[j]
      /\ \A j \in i .. Len(users) - 1 : users'[j] = users[j + 1]
  <2>1. \A j \in i .. Len(users) - 1 : j - (i - 1) \in 1 .. Len(users) - i /\ i + (j - (i - 1)) = j + 1
    BY <1>1
  <2>2. Rows' = 1 .. Len(users) - 1
    BY <1>1, <1>6 DEF Rows
  <2>3. \A j \in 1 .. i - 1 : users'[j] = users[j]
    BY <1>5, <1>6
  <2>4. ASSUME NEW j \in i .. Len(users) - 1 PROVE users'[j] = users[j + 1]
    <3>1. t[j - (i - 1)] = users[i + (j - (i - 1))]
      BY <1>5, <2>1
    <3>2. QED
      BY <1>6, <2>1, <3>1
  <2>5. QED
    BY <2>2, <2>3, <2>4
<1> DEFINE old(j) == IF j < i THEN j ELSE j + 1
<1>8. \A j \in Rows' : old(j) \in Rows \ {i} /\ users'[j] = users[old(j)]
  BY <1>1, <1>7
<1>9. \A j, k \in Rows' : j # k => old(j) # old(k)
  BY <1>1, <1>7
<1>10. ASSUME NEW k \in Rows \ {i} PROVE \E j \in Rows' : users'[j] = users[k]
  <2>1. CASE k < i
    BY <1>1, <1>7, <2>1
  <2>2. CASE k > i
    <3>1. k - 1 \in i .. Len(users) - 1 /\ (k - 1) + 1 = k /\ k - 1 \in Rows'
      BY <1>1, <1>7, <2>2
    <3>2. QED
      BY <1>7, <3>1
  <2>3. QED
    BY <1>1, <2>1, <2>2
<1>11. Unique'
  <2> SUFFICES ASSUME NEW j \in Rows', NEW k \in Rows', j # k
               PROVE  users'[j].id # users'[k].id /\ users'[j].name # users'[k].name
    BY DEF Unique
  <2>1. /\ old(j) \in Rows /\ old(k) \in Rows /\ old(j) # old(k)
        /\ users'[j] = users[old(j)] /\ users'[k] = users[old(k)]
    BY <1>8, <1>9
  <2> HIDE DEF old
  <2>2. QED
    BY <2>1 DEF TableOK, Unique
<1>12. QED
  BY <1>6, <1>8, <1>10, <1>11 DEF TableOK


-------------------------------------------------------------------------------
(* Where each step leads                                                   *)

LEMMA ClientNames ==
  ASSUME deployment \in Deployments
  PROVE  Clients \subseteq Names /\ Nothing \notin Clients
BY DeploymentAssumption, NamesAssumption DEF Clients

Codes == Nat \X (1..RecoveryCodes)

LEMMA SessionGoes ==
  ASSUME deployment \in Deployments, TaskOK, TableOK, NEW w \in Workers
  PROVE  /\ \A id, right : LoginCaptcha(w, id, right) => Goes(w, {"idle"}, {"idle", "login"})
         /\ \A typed \in Clients \union Emails : LoginCheck(w, typed) =>
              /\ Goes(w, {"idle", "login"}, {"idle", "verify"})
              /\ task'[w].stage = "verify" => task'[w].typed = typed /\ ~Locked(typed)
         /\ \A p : LoginVerify(w, p) =>
              /\ Goes(w, {"verify"}, {"fail", "reset", "resetOnly"})
              /\ task'[w].typed = task[w].typed
         /\ LoginFail(w) => Goes(w, {"fail"}, {"idle"})
         /\ LoginReset(w) => Goes(w, {"reset", "resetOnly"}, {"session", "idle"})
         /\ CreateSession(w) => Goes(w, {"session"}, {"idle"})
<1>t. task[w] \in Task /\ Sound(task[w])
  BY ControlGoes
<1>1. ASSUME NEW id, NEW right, LoginCaptcha(w, id, right)
      PROVE  Goes(w, {"idle"}, {"idle", "login"})
  <2> DEFINE t == IF right /\ Standing(id) THEN [Idle EXCEPT !.stage = "login"] ELSE Idle
  <2>1. t \in Task /\ Sound(t) /\ t.stage \in {"idle", "login"}
    BY StageOf, StageNames, IdleTask DEF Sound, NamedStages, TypedStages
  <2>2. Begin(w, "login", t)
    BY <1>1 DEF LoginCaptcha, PassCaptcha
  <2> HIDE DEF t
  <2>3. Goes(w, {"idle"}, {t.stage})
    BY <2>1, <2>2, ControlGoes
  <2>4. QED
    BY <2>1, <2>3 DEF Goes
<1>2. ASSUME NEW typed \in Clients \union Emails, LoginCheck(w, typed)
      PROVE  /\ Goes(w, {"idle", "login"}, {"idle", "verify"})
             /\ task'[w].stage = "verify" => task'[w].typed = typed /\ ~Locked(typed)
  <2> DEFINE t == IF Locked(typed) THEN Idle
                  ELSE [Idle EXCEPT !.stage = "verify", !.typed = typed]
  <2>1. /\ t \in Task /\ Sound(t) /\ t.stage \in {"idle", "verify"}
        /\ t.stage = "verify" => t.typed = typed /\ ~Locked(typed)
    <3>1. /\ [Idle EXCEPT !.stage = "verify", !.typed = typed] \in Task
          /\ Sound([Idle EXCEPT !.stage = "verify", !.typed = typed])
      BY ClientNames, IdleTask DEF Task, Typed, Stages, Sound, NamedStages, Idle
    <3>2. QED
      BY <3>1, IdleTask DEF Idle
  <2>2. Begin(w, "login", t) \/ (At(w, "login") /\ Become(w, t))
    BY <1>2 DEF LoginCheck
  <2> HIDE DEF t
  <2>3. Goes(w, {"idle", "login"}, {t.stage}) /\ task'[w] = t
    <3>1. CASE Begin(w, "login", t)
      BY <2>1, <3>1, ControlGoes DEF Goes
    <3>2. CASE At(w, "login") /\ Become(w, t)
      BY <2>1, <3>2, ControlGoes DEF At, Goes
    <3>3. QED
      BY <2>2, <3>1, <3>2
  <2>4. QED
    BY <2>1, <2>3 DEF Goes
<1>3. ASSUME NEW p, LoginVerify(w, p)
      PROVE  /\ Goes(w, {"verify"}, {"fail", "reset", "resetOnly"})
             /\ task'[w].typed = task[w].typed
  <2>1. At(w, "verify")
    BY <1>3 DEF LoginVerify
  <2>2. CASE GoTo(w, "fail")
    <3> DEFINE t == [task[w] EXCEPT !.stage = "fail"]
    <3>1. t \in Task /\ t.stage = "fail" /\ t.typed = task[w].typed
      BY <1>t, StageOf, StageNames
    <3>2. Sound(t)
      <4> HIDE DEF t
      <4>1. QED
        BY <1>t, <2>1, <3>1 DEF At, Sound, NamedStages, TypedStages
    <3>3. Become(w, t)
      BY <2>2 DEF GoTo
    <3> HIDE DEF t
    <3>4. Goes(w, {"verify"}, {"fail"}) /\ task'[w] = t
      BY <2>1, <3>1, <3>2, <3>3, ControlGoes DEF At
    <3>5. QED
      BY <3>1, <3>4 DEF Goes
  <2>3. CASE \E i \in VerifyUser(task[w].typed, p) :
               Become(w, [task[w] EXCEPT !.stage = IF users[i].twofa THEN "resetOnly" ELSE "reset",
                                         !.name = users[i].name])
    <3>1. PICK i \in VerifyUser(task[w].typed, p) :
               Become(w, [task[w] EXCEPT !.stage = IF users[i].twofa THEN "resetOnly" ELSE "reset",
                                         !.name = users[i].name])
      BY <2>3
    <3> DEFINE t == [task[w] EXCEPT !.stage = IF users[i].twofa THEN "resetOnly" ELSE "reset",
                                    !.name = users[i].name]
    <3>2. i \in Rows /\ users[i] \in User
      BY RowNumbers DEF VerifyUser, FirstFit
    <3>3. /\ t \in Task /\ t.stage \in {"reset", "resetOnly"} /\ t.typed = task[w].typed
          /\ t.name = users[i].name /\ users[i].name \in Names
      BY <3>2, <1>t, ZenonT(60) DEF Task, User, Stages
    <3>4. Become(w, t) /\ Sound(t)
      <4>1. Become(w, t)
        BY <3>1
      <4> HIDE DEF t
      <4>2. QED
        BY <1>t, <2>1, <3>3, <4>1 DEF At, Sound, TypedStages
    <3> HIDE DEF t
    <3>5. Goes(w, {"verify"}, {t.stage}) /\ task'[w] = t
      BY <2>1, <3>3, <3>4, ControlGoes DEF At
    <3>6. QED
      BY <3>3, <3>5 DEF Goes
  <2>4. QED
    BY <1>3, <2>2, <2>3 DEF LoginVerify
<1>4. LoginFail(w) => Goes(w, {"fail"}, {"idle"})
  BY ControlGoes DEF LoginFail, At
<1>5. LoginReset(w) => Goes(w, {"reset", "resetOnly"}, {"session", "idle"})
  <2>1. CASE At(w, "reset") /\ GoTo(w, "session")
    BY <2>1, ControlGoes, StageNames DEF At, Goes, NamedStages, TypedStages
  <2>2. CASE At(w, "resetOnly") /\ Return(w)
    BY <2>2, ControlGoes DEF At, Goes
  <2>3. QED
    BY <2>1, <2>2 DEF LoginReset
<1>6. CreateSession(w) => Goes(w, {"session"}, {"idle"})
  BY ControlGoes DEF CreateSession, At
<1>7. QED
  BY <1>1, <1>2, <1>3, <1>4, <1>5, <1>6

LEMMA RegisterGoes ==
  ASSUME deployment \in Deployments, TaskOK, TableOK, NEW w \in Workers
  PROVE  /\ \A id, right : \A n \in Clients : RegisterCaptcha(w, id, right, n) =>
              Goes(w, {"idle"}, {"idle", "register"})
         /\ \A e : RegisterSendCode(w, e) => Goes(w, {"register"}, {"idle"})
         /\ \A e, code : RegisterTakeCode(w, e, code) => Goes(w, {"register"}, {"idle", "count"})
         /\ RegisterCount(w) =>
              /\ Goes(w, {"count", "register"}, {"create"})
              /\ task'[w].role = "root" => users = <<>>
         /\ \A p : CreateUser(w, p) => Goes(w, {"create"}, {"idle", "session"})
         /\ \A n \in Clients : SetupCount(w, n) =>
              /\ Goes(w, {"idle"}, {"idle", "create"})
              /\ task'[w].stage = "create" => users = <<>>
         /\ \A n \in Clients, e \in Emails \union {Nothing} : OAuthLookup(w, n, e) =>
              Goes(w, {"idle"}, {"oauthEmail", "oauthCreate"})
         /\ OAuthCreate(w) => Goes(w, {"oauthCreate"}, {"oauthEmail"})
         /\ OAuthEmail(w) => Goes(w, {"oauthEmail"}, {"session"})
<1>t. task[w] \in Task /\ Sound(task[w])
  BY ControlGoes
<1>1. ASSUME NEW id, NEW right, NEW n \in Clients, RegisterCaptcha(w, id, right, n)
      PROVE  Goes(w, {"idle"}, {"idle", "register"})
  <2> DEFINE t == IF right /\ Standing(id) THEN [Idle EXCEPT !.stage = "register", !.name = n]
                  ELSE Idle
  <2>1. t \in Task /\ Sound(t) /\ t.stage \in {"idle", "register"}
    BY NamedTask, ClientNames, StageNames, IdleTask DEF TypedStages
  <2>2. Begin(w, "register", t)
    BY <1>1 DEF RegisterCaptcha, PassCaptcha
  <2> HIDE DEF t
  <2>3. Goes(w, {"idle"}, {t.stage})
    BY <2>1, <2>2, ControlGoes
  <2>4. QED
    BY <2>1, <2>3 DEF Goes
<1>2. ASSUME NEW e, RegisterSendCode(w, e) PROVE Goes(w, {"register"}, {"idle"})
  BY <1>2, ControlGoes DEF RegisterSendCode, At
<1>3. ASSUME NEW e, NEW code, RegisterTakeCode(w, e, code)
      PROVE  Goes(w, {"register"}, {"idle", "count"})
  <2>1. At(w, "register") /\ (GoTo(w, "count") \/ Return(w))
    BY <1>3 DEF RegisterTakeCode
  <2>2. QED
    BY <2>1, ControlGoes, StageNames DEF At, Goes, NamedStages, TypedStages
<1>4. ASSUME RegisterCount(w)
      PROVE  /\ Goes(w, {"count", "register"}, {"create"})
             /\ task'[w].role = "root" => users = <<>>
  <2> DEFINE role == IF users = <<>> THEN "root" ELSE "user"
             t    == [task[w] EXCEPT !.stage = "create", !.role = role]
  <2>1. Become(w, t) /\ task[w].stage \in {"count", "register"}
    BY <1>4 DEF RegisterCount, At
  <2>2. role \in Roles /\ (role = "root" => users = <<>>)
    BY Roots
  <2> HIDE DEF role
  <2>3. t \in Task /\ t.stage = "create" /\ t.name = task[w].name /\ t.role = role
    BY <1>t, <2>2, StageNames DEF Task
  <2> HIDE DEF t
  <2>4. Sound(t)
    BY <1>t, <2>1, <2>3, StageNames DEF Sound, NamedStages, TypedStages
  <2>5. Goes(w, {task[w].stage}, {"create"}) /\ task'[w] = t
    BY <2>1, <2>3, <2>4, ControlGoes
  <2>6. QED
    BY <2>1, <2>2, <2>3, <2>5 DEF Goes
<1>5. ASSUME NEW p, CreateUser(w, p) PROVE Goes(w, {"create"}, {"idle", "session"})
  <2>1. At(w, "create") /\ (GoTo(w, "session") \/ Return(w))
    BY <1>5 DEF CreateUser
  <2>2. QED
    BY <2>1, ControlGoes, StageNames DEF At, Goes, NamedStages, TypedStages
<1>6. ASSUME NEW n \in Clients, SetupCount(w, n)
      PROVE  /\ Goes(w, {"idle"}, {"idle", "create"})
             /\ task'[w].stage = "create" => users = <<>>
  <2> DEFINE t == IF users = <<>> THEN [Idle EXCEPT !.stage = "create", !.name = n, !.role = "root"]
                  ELSE Idle
  <2>1. /\ t \in Task /\ Sound(t) /\ t.stage \in {"idle", "create"}
        /\ t.stage = "create" => users = <<>>
    <3>1. CASE users = <<>>
      <4> DEFINE s == [Idle EXCEPT !.stage = "create", !.name = n, !.role = "root"]
      <4>1. s \in Task /\ s.stage = "create" /\ s.name \in Names
        BY ClientNames, IdleTask, StageNames, Roots DEF Task, Idle
      <4>2. t = s
        BY <3>1
      <4> HIDE DEF s, t
      <4>3. QED
        BY <3>1, <4>1, <4>2 DEF Sound, TypedStages
    <3>2. CASE users # <<>>
      <4>1. t = Idle
        BY <3>2
      <4> HIDE DEF t
      <4>2. QED
        BY <4>1, IdleTask
    <3>3. QED
      BY <3>1, <3>2
  <2>2. Begin(w, "setup", t)
    BY <1>6 DEF SetupCount
  <2> HIDE DEF t
  <2>3. Goes(w, {"idle"}, {t.stage}) /\ task'[w] = t
    BY <2>1, <2>2, ControlGoes
  <2>4. QED
    BY <2>1, <2>3 DEF Goes
<1>7. ASSUME NEW n \in Clients, NEW e \in Emails \union {Nothing}, OAuthLookup(w, n, e)
      PROVE  Goes(w, {"idle"}, {"oauthEmail", "oauthCreate"})
  <2> DEFINE s == IF HasName(n) THEN "oauthEmail" ELSE "oauthCreate"
             t == [Idle EXCEPT !.stage = s, !.name = n, !.email = e]
  <2>1. Begin(w, "oauth", t)
    BY <1>7 DEF OAuthLookup
  <2>2. s \in Stages /\ s \in {"oauthEmail", "oauthCreate"}
    BY StageNames
  <2> HIDE DEF s
  <2>3. t \in Task /\ t.stage = s /\ t.name \in Names
    BY <2>2, ClientNames, IdleTask DEF Task, Idle
  <2> HIDE DEF t
  <2>4. Sound(t)
    BY <2>2, <2>3 DEF Sound, TypedStages
  <2>5. Goes(w, {"idle"}, {s})
    BY <2>1, <2>3, <2>4, ControlGoes
  <2>6. QED
    BY <2>2, <2>5 DEF Goes
<1>8. OAuthCreate(w) => Goes(w, {"oauthCreate"}, {"oauthEmail"})
  BY ControlGoes, StageNames DEF OAuthCreate, At, NamedStages, TypedStages
<1>9. OAuthEmail(w) => Goes(w, {"oauthEmail"}, {"session"})
  BY ControlGoes, StageNames DEF OAuthEmail, At, NamedStages, TypedStages
<1>10. QED
  BY <1>1, <1>2, <1>3, <1>4, <1>5, <1>6, <1>7, <1>8, <1>9

LEMMA MailGoes ==
  ASSUME deployment \in Deployments, TaskOK, TableOK, NEW w \in Workers,
         emailCodes \subseteq [name: Names, email: Emails, code: Nat, exp: Nat],
         resetTokens \subseteq [token: Nat, name: Names, exp: Nat]
  PROVE  /\ \A n \in Clients : \A code : EmailTakeCode(w, n, code) => Goes(w, {"idle"}, {"email"})
         /\ BindEmail(w) => Goes(w, {"email"}, {"idle"})
         /\ \A e \in Emails : ResetFindAddress(w, e) => Goes(w, {"idle"}, {"token"})
         /\ ResetSendLink(w) => Goes(w, {"token"}, {"idle"})
         /\ \A token : ResetTakeToken(w, token) => Goes(w, {"idle"}, {"find"})
         /\ ResetFind(w) => Goes(w, {"find"}, {"password", "idle"})
         /\ \A p : ResetApply(w, p) => Goes(w, {"password"}, {"idle"})
<1>t. task[w] \in Task /\ Sound(task[w])
  BY ControlGoes
<1>1. ASSUME NEW n \in Clients, NEW code, EmailTakeCode(w, n, code)
      PROVE  Goes(w, {"idle"}, {"email"})
  <2>1. PICK e \in Live(emailCodes) :
               Begin(w, "email", [Idle EXCEPT !.stage = "email", !.name = n, !.email = e.email])
    BY <1>1 DEF EmailTakeCode
  <2>2. e.email \in Emails
    BY DEF Live
  <2> DEFINE t == [Idle EXCEPT !.stage = "email", !.name = n, !.email = e.email]
  <2>3. t \in Task /\ t.stage = "email" /\ t.name \in Names
    BY <2>2, ClientNames, IdleTask, StageNames DEF Task, Idle
  <2>4. Begin(w, "email", t)
    BY <2>1
  <2> HIDE DEF t
  <2>5. QED
    BY <2>3, <2>4, ControlGoes DEF Sound, TypedStages
<1>2. BindEmail(w) => Goes(w, {"email"}, {"idle"})
  BY ControlGoes DEF BindEmail, At
<1>3. ASSUME NEW e \in Emails, ResetFindAddress(w, e) PROVE Goes(w, {"idle"}, {"token"})
  <2>1. PICK i \in Rows : Begin(w, "reset", [Idle EXCEPT !.stage = "token", !.name = users[i].name])
    BY <1>3 DEF ResetFindAddress
  <2>2. users[i].name \in Names
    BY RowNumbers DEF User
  <2>3. QED
    BY <2>1, <2>2, BeginGoes, StageNames DEF TypedStages
<1>4. ResetSendLink(w) => Goes(w, {"token"}, {"idle"})
  BY ControlGoes DEF ResetSendLink, At
<1>5. ASSUME NEW token, ResetTakeToken(w, token) PROVE Goes(w, {"idle"}, {"find"})
  <2>1. PICK e \in Live(resetTokens) :
               Begin(w, "reset", [Idle EXCEPT !.stage = "find", !.name = e.name])
    BY <1>5 DEF ResetTakeToken
  <2>2. e.name \in Names
    BY DEF Live
  <2>3. QED
    BY <2>1, <2>2, BeginGoes, StageNames DEF TypedStages
<1>6. ASSUME ResetFind(w) PROVE Goes(w, {"find"}, {"password", "idle"})
  <2> DEFINE n == task[w].name
  <2>1. At(w, "find")
    BY <1>6 DEF ResetFind
  <2>2. CASE Return(w)
    BY <2>1, <2>2, ControlGoes DEF At, Goes
  <2>3. CASE HasName(n) /\ Become(w, [task[w] EXCEPT !.stage = "password",
                                                    !.item = users[RowOf(n)].id])
    <3> DEFINE id == users[RowOf(n)].id
               t  == [task[w] EXCEPT !.stage = "password", !.item = id]
    <3>1. id \in Nat
      <4> HIDE DEF n
      <4>1. QED
        BY <2>3, NameFound DEF User
    <3>2. Become(w, t)
      BY <2>3
    <3> HIDE DEF id
    <3>3. t \in Task /\ t.stage = "password" /\ t.name = task[w].name
      BY <1>t, <3>1, StageNames DEF Task
    <3> HIDE DEF t
    <3>4. Sound(t)
      BY <1>t, <2>1, <3>3, StageNames DEF At, Sound, NamedStages, TypedStages
    <3>5. Goes(w, {task[w].stage}, {"password"})
      BY <3>2, <3>3, <3>4, ControlGoes
    <3>6. QED
      BY <2>1, <3>5 DEF At, Goes
  <2>4. QED
    BY <1>6, <2>2, <2>3 DEF ResetFind
<1>7. ASSUME NEW p, ResetApply(w, p) PROVE Goes(w, {"password"}, {"idle"})
  BY <1>7, ControlGoes DEF ResetApply, At
<1>8. QED
  BY <1>1, <1>2, <1>3, <1>4, <1>5, <1>6, <1>7

LEMMA FactorGoes ==
  ASSUME deployment \in Deployments, TaskOK, TableOK, NEW w \in Workers
  PROVE  /\ \A n \in Clients : TwoFAEnable(w, n) => Goes(w, {"idle"}, {"enable"})
         /\ \A n \in Clients : TwoFAConfirm(w, n) =>
              /\ Goes(w, {"idle"}, {"confirm"})
              /\ task'[w].item = Secret(n) /\ Secret(n) \in Nat \ {0}
         /\ \A n \in Clients : TwoFADisable(w, n) => Goes(w, {"idle"}, {"disable"})
         /\ StoreSecret(w) => Goes(w, {"enable"}, {"idle"})
         /\ EnableSecret(w) => Goes(w, {"confirm"}, {"recovery"})
         /\ StoreRecovery(w) => Goes(w, {"recovery"}, {"idle"})
         /\ ClearSecret(w) => Goes(w, {"disable"}, {"idle"})
         /\ \A n \in Clients : VerifyTOTP(w, n) => Goes(w, {"idle"}, {"session"})
         /\ \A i \in Rows : \A code \in users[i].recovery :
              VerifyRecovery(w, users[i].name, code) =>
                /\ Goes(w, {"idle"}, {"spend"})
                /\ task'[w].name = users[i].name /\ task'[w].item = code[1]
                /\ task'[w].codes = users[i].recovery \ {code}
         /\ SpendRecovery(w) => Goes(w, {"spend"}, {"session"})
<1>t. task[w] \in Task /\ Sound(task[w]) /\ Clients \subseteq Names
  BY ControlGoes, ClientNames
<1>1. ASSUME NEW n \in Clients, TwoFAEnable(w, n) PROVE Goes(w, {"idle"}, {"enable"})
  BY <1>t, <1>1, BeginGoes, StageNames DEF TwoFAEnable, TypedStages
<1>2. ASSUME NEW n \in Clients, TwoFAConfirm(w, n)
      PROVE  /\ Goes(w, {"idle"}, {"confirm"})
             /\ task'[w].item = Secret(n) /\ Secret(n) \in Nat \ {0}
  <2> DEFINE key == Secret(n)
             t   == [Idle EXCEPT !.stage = "confirm", !.name = n, !.item = key]
  <2>1. Begin(w, "twofa", t)
    BY <1>2 DEF TwoFAConfirm
  <2>2. key \in Nat \ {0}
    BY <1>2, NameFound DEF TwoFAConfirm, Secret, User
  <2> HIDE DEF key
  <2>3. t \in Task /\ t.stage = "confirm" /\ t.name \in Names /\ t.item = key
    BY <1>t, <2>2, IdleTask, StageNames DEF Task, Idle
  <2> HIDE DEF t
  <2>4. Goes(w, {"idle"}, {"confirm"}) /\ task'[w] = t
    BY <2>1, <2>3, ControlGoes DEF Sound, TypedStages
  <2>5. QED
    BY <2>2, <2>3, <2>4 DEF key
<1>3. ASSUME NEW n \in Clients, TwoFADisable(w, n) PROVE Goes(w, {"idle"}, {"disable"})
  BY <1>t, <1>3, BeginGoes, StageNames DEF TwoFADisable, TypedStages
<1>4. StoreSecret(w) => Goes(w, {"enable"}, {"idle"})
  BY ControlGoes DEF StoreSecret, At
<1>5. EnableSecret(w) => Goes(w, {"confirm"}, {"recovery"})
  BY ControlGoes, StageNames DEF EnableSecret, At, NamedStages, TypedStages
<1>6. StoreRecovery(w) => Goes(w, {"recovery"}, {"idle"})
  BY ControlGoes DEF StoreRecovery, At
<1>7. ClearSecret(w) => Goes(w, {"disable"}, {"idle"})
  BY ControlGoes DEF ClearSecret, At
<1>8. ASSUME NEW n \in Clients, VerifyTOTP(w, n) PROVE Goes(w, {"idle"}, {"session"})
  BY <1>t, <1>8, BeginGoes, StageNames DEF VerifyTOTP, TypedStages
<1>9. ASSUME NEW i \in Rows, NEW code \in users[i].recovery,
             VerifyRecovery(w, users[i].name, code)
      PROVE  /\ Goes(w, {"idle"}, {"spend"})
             /\ task'[w].name = users[i].name /\ task'[w].item = code[1]
             /\ task'[w].codes = users[i].recovery \ {code}
  <2> DEFINE n == users[i].name
             g == code[1]
             left == users[i].recovery \ {code}
             t == [Idle EXCEPT !.stage = "spend", !.name = n, !.item = g, !.codes = left]
  <2>1. users[i] \in User /\ RowOf(n) = i
    BY RowNumbers, RowFound
  <2>2. n \in Names /\ g \in Nat /\ left \in SUBSET (Nat \X (1..RecoveryCodes))
    BY <2>1 DEF User
  <2>3. Begin(w, "verify", t)
    <3>1. Begin(w, "verify", [Idle EXCEPT !.stage = "spend", !.name = n, !.item = g,
                                          !.codes = users[RowOf(n)].recovery \ {code}])
      BY <1>9 DEF VerifyRecovery
    <3>2. QED
      BY <2>1, <3>1
  <2> HIDE DEF n, g, left
  <2>4. /\ t \in Task /\ t.stage = "spend" /\ t.name = n /\ t.item = g /\ t.codes = left
    BY <2>2, IdleTask, StageNames DEF Task, Idle
  <2> HIDE DEF t
  <2>5. Goes(w, {"idle"}, {"spend"}) /\ task'[w] = t
    BY <2>2, <2>3, <2>4, ControlGoes DEF Sound, TypedStages
  <2>6. QED
    BY <2>4, <2>5 DEF n, g, left
<1>10. SpendRecovery(w) => Goes(w, {"spend"}, {"session"})
  BY ControlGoes, StageNames DEF SpendRecovery, At, NamedStages, TypedStages
<1>11. QED
  BY <1>1, <1>2, <1>3, <1>4, <1>5, <1>6, <1>7, <1>8, <1>9, <1>10

LEMMA AdminGoes ==
  ASSUME TaskOK, TableOK, NEW w \in Workers
  PROVE  /\ AdminCheck(w) => Goes(w, {"idle"}, {"admin"})
         /\ \A i \in Rows : AdminDelete(w, i) => Goes(w, {"admin"}, {"idle"})
         /\ \A i \in Rows : AdminReset2FA(w, i) => Goes(w, {"admin"}, {"disable"})
         /\ \A form : AdminCreate(w, form) => Goes(w, {"admin"}, {"idle"})
         /\ \A i, form : AdminUpdate(w, i, form) => Goes(w, {"admin"}, {"idle"})
<1>1. ASSUME AdminCheck(w) PROVE Goes(w, {"idle"}, {"admin"})
  <2> DEFINE t == [Idle EXCEPT !.stage = "admin"]
  <2>1. t \in Task /\ t.stage = "admin"
    BY IdleTask, StageOf, StageNames
  <2>2. Begin(w, "admin", t)
    BY <1>1 DEF AdminCheck
  <2> HIDE DEF t
  <2>3. QED
    BY <2>1, <2>2, ControlGoes DEF Sound, NamedStages, TypedStages
<1>2. ASSUME NEW i \in Rows, AdminDelete(w, i) PROVE Goes(w, {"admin"}, {"idle"})
  BY <1>2, ControlGoes DEF AdminDelete, At
<1>3. ASSUME NEW i \in Rows, AdminReset2FA(w, i) PROVE Goes(w, {"admin"}, {"disable"})
  <2> DEFINE n == users[i].name
             t == [Idle EXCEPT !.stage = "disable", !.name = n]
  <2>1. n \in Names
    BY RowNumbers DEF User
  <2>2. At(w, "admin") /\ Become(w, t)
    BY <1>3 DEF AdminReset2FA
  <2>3. t \in Task /\ Sound(t) /\ t.stage = "disable"
    <3> HIDE DEF n
    <3>1. QED
      BY <2>1, NamedTask, StageNames DEF TypedStages
  <2> HIDE DEF t
  <2>4. QED
    BY <2>2, <2>3, ControlGoes DEF At
<1>4. ASSUME NEW form, AdminCreate(w, form) PROVE Goes(w, {"admin"}, {"idle"})
  BY <1>4, ControlGoes DEF AdminCreate, At
<1>5. ASSUME NEW i, NEW form, AdminUpdate(w, i, form) PROVE Goes(w, {"admin"}, {"idle"})
  BY <1>5, ControlGoes DEF AdminUpdate, At
<1>6. QED
  BY <1>1, <1>2, <1>3, <1>4, <1>5

-------------------------------------------------------------------------------
(* Types                                                                   *)

IdsBelow == \A i \in Rows : users[i].id < userNext

ClockOK ==
  /\ deployment \in Deployments /\ now \in 0..MaxTime
  /\ requests \in 0..deployment.requests /\ crashes \in 0..MaxCrashes

FailsOK ==
  /\ DOMAIN authFails \subseteq Typed /\ Range(authFails) \subseteq [count: Nat, until: Nat]
  /\ guesses \in [Typed -> Nat]

CaptchasOK ==
  captchas \subseteq [id: Nat, exp: Nat] /\ asked \in Seq([id: Nat, exp: Nat, tried: BOOLEAN])

CodesOK ==
  /\ DOMAIN regCodes \subseteq Emails /\ Range(regCodes) \subseteq [code: Nat, exp: Nat]
  /\ emailCodes \subseteq [name: Names, email: Emails, code: Nat, exp: Nat]
  /\ resetTokens \subseteq [token: Nat, name: Names, exp: Nat]

SessionsOK == sessions \subseteq [token: Nat, name: Names]

HistoryOK ==
  /\ Range(redeemed) \subseteq Nat
  /\ DOMAIN spent \subseteq Names \X Nat /\ Range(spent) \subseteq Nat /\ renamed \subseteq Names
  /\ proved \subseteq Nat /\ firsts \subseteq Nat

SerialOK == serial \in Nat \ {0}

StoresOK ==
  ClockOK /\ FailsOK /\ CaptchasOK /\ CodesOK /\ SessionsOK /\ HistoryOK /\ SerialOK

Typing == TableOK /\ IdsBelow /\ TaskOK /\ StoresOK

LEMMA TypingGivesTypes == Typing => TypeOK
BY DEF Typing, TypeOK, TableOK, Unique, TaskOK, StoresOK, ClockOK, FailsOK, CaptchasOK, CodesOK,
       SessionsOK, HistoryOK, SerialOK

LEMMA Limits ==
  /\ Threshold \in Nat \ {0} /\ Lockout \in Nat \ {0} /\ MaxCaptchas \in Nat \ {0}
  /\ CaptchaTTL \in Nat \ {0} /\ CodeTTL \in Nat \ {0} /\ ResetTTL \in Nat \ {0}
  /\ RecoveryCodes \in Nat \ {0} /\ MaxTime \in Nat /\ MaxCrashes \in Nat
BY LimitAssumption, BoundAssumption

\* Maps that are added to and restricted.
LEMMA PutType ==
  ASSUME NEW A, NEW B, NEW f, DOMAIN f \subseteq A, Range(f) \subseteq B, NEW x \in A, NEW v \in B
  PROVE  /\ DOMAIN Put(f, x, v) \subseteq A /\ Range(Put(f, x, v)) \subseteq B
         /\ DOMAIN Put(f, x, v) = DOMAIN f \union {x} /\ Put(f, x, v)[x] = v
         /\ \A y \in DOMAIN f : y # x => Put(f, x, v)[y] = f[y]
BY DEF Put, Range

LEMMA RestrictType ==
  ASSUME NEW A, NEW B, NEW f, DOMAIN f \subseteq A, Range(f) \subseteq B, NEW S \in SUBSET DOMAIN f
  PROVE  /\ DOMAIN Restrict(f, S) \subseteq A /\ Range(Restrict(f, S)) \subseteq B
         /\ DOMAIN Restrict(f, S) = S /\ \A y \in S : Restrict(f, S)[y] = f[y]
BY DEF Restrict, Range

LEMMA NoEntriesType == \A B : DOMAIN NoEntries = {} /\ Range(NoEntries) \subseteq B
BY DEF NoEntries, Range

LEMMA OneMoreType ==
  ASSUME NEW f, Range(f) \subseteq Nat, NEW x
  PROVE  /\ DOMAIN OneMore(f, x) = DOMAIN f \union {x} /\ Range(OneMore(f, x)) \subseteq Nat
         /\ Counted(f, x) \in Nat /\ OneMore(f, x)[x] = Counted(f, x) + 1
         /\ \A y \in DOMAIN f : y # x => OneMore(f, x)[y] = f[y]
<1>1. Counted(f, x) \in Nat
  BY DEF Counted, Range
<1>2. OneMore(f, x) = Put(f, x, Counted(f, x) + 1)
  BY DEF OneMore
<1> DEFINE v == Counted(f, x) + 1
<1>3. v \in Nat
  BY <1>1
<1> HIDE DEF v
<1>4. /\ DOMAIN Put(f, x, v) = DOMAIN f \union {x} /\ Range(Put(f, x, v)) \subseteq Nat
      /\ Put(f, x, v)[x] = v /\ \A y \in DOMAIN f : y # x => Put(f, x, v)[y] = f[y]
  BY <1>3 DEF Put, Range
<1>5. QED
  BY <1>1, <1>2, <1>4 DEF v

LEMMA OneMoreKeeps == \A f, x : \A y \in DOMAIN f : y # x => OneMore(f, x)[y] = f[y]
BY DEF OneMore, Put

\* The clock and the counts of what arrives.
LEMMA ClockKept ==
  ASSUME ClockOK
  PROVE  /\ \A kind : Arrive(kind) => ClockOK'
         /\ \A w, kind, t : Begin(w, kind, t) => ClockOK'
         /\ \A w, t : Step /\ Become(w, t) => ClockOK'
         /\ \A w, s : Step /\ GoTo(w, s) => ClockOK'
         /\ \A w : Step /\ Return(w) => ClockOK'
<1>1. deployment.requests \in Nat
  BY DeploymentAssumption DEF ClockOK
<1>2. \A kind : Arrive(kind) => ClockOK'
  BY <1>1 DEF ClockOK, Arrive
<1>3. Step /\ UNCHANGED requests => ClockOK'
  BY DEF ClockOK, Step
<1>4. QED
  BY <1>2, <1>3 DEF Begin, Become, GoTo, Return

LEMMA TableKept ==
  ASSUME TableOK, IdsBelow, UNCHANGED <<users, userNext>> PROVE TableOK' /\ IdsBelow'
BY DEF TableOK, IdsBelow, Unique, Rows

LEMMA RowsKept == ASSUME TableOK, IdsBelow, SameRows, UNCHANGED userNext PROVE TableOK' /\ IdsBelow'
<1>1. TableOK'
  BY SameRowsOK DEF TableOK
<1>2. QED
  BY <1>1 DEF SameRows, IdsBelow

\* A captcha that is tried.
LEMMA TryType ==
  ASSUME CaptchasOK, HistoryOK, NEW id, NEW right, VerifyCaptcha(id, right)
  PROVE  CaptchasOK' /\ Range(redeemed') \subseteq Nat
<1>1. Range(redeemed') \subseteq Nat
  BY OneMoreType DEF VerifyCaptcha, Accept, HistoryOK
<1>2. captchas' \subseteq [id: Nat, exp: Nat]
  BY DEF VerifyCaptcha, Live, CaptchasOK
<1>3. asked' \in Seq([id: Nat, exp: Nat, tried: BOOLEAN])
  <2> DEFINE R == [id: Nat, exp: Nat, tried: BOOLEAN]
  <2>1. \A r \in R : \A b \in BOOLEAN : [r EXCEPT !.tried = b] \in R
    OBVIOUS
  <2>2. asked \in Seq(R) /\ \A r \in R : r.tried \in BOOLEAN
    BY DEF CaptchasOK
  <2>3. asked' = [i \in DOMAIN asked |-> [asked[i] EXCEPT !.tried = asked[i].tried \/ asked[i].id = id]]
    BY DEF VerifyCaptcha, Tried
  <2> HIDE DEF R
  <2>4. Len(asked) \in Nat /\ DOMAIN asked = 1..Len(asked) /\ \A i \in DOMAIN asked : asked[i] \in R
    BY <2>2
  <2>5. ASSUME NEW i \in DOMAIN asked PROVE asked'[i] \in R
    <3> DEFINE b == asked[i].tried \/ asked[i].id = id
    <3>1. b \in BOOLEAN
      BY <2>2, <2>4
    <3>2. asked'[i] = [asked[i] EXCEPT !.tried = b]
      BY <2>3, Zenon
    <3> HIDE DEF b
    <3>3. QED
      BY <2>1, <2>4, <3>1, <3>2, ZenonT(60)
  <2>6. DOMAIN asked' = DOMAIN asked /\ asked' \in [1..Len(asked) -> R]
    BY <2>3, <2>4, <2>5
  <2>7. asked' \in Seq(R)
    BY <2>4, <2>6
  <2>8. QED
    BY <2>7 DEF R
<1>4. QED
  BY <1>1, <1>2, <1>3 DEF CaptchasOK

LEMMA PassType ==
  ASSUME StoresOK, NEW w, NEW kind, NEW id, NEW right, NEW t, PassCaptcha(w, kind, id, right, t)
  PROVE  StoresOK'
<1>1. ClockOK'
  BY ClockKept DEF StoresOK, PassCaptcha
<1>2. CaptchasOK' /\ Range(redeemed') \subseteq Nat
  BY TryType DEF StoresOK, PassCaptcha
<1>3. FailsOK' /\ CodesOK' /\ SessionsOK' /\ HistoryOK' /\ SerialOK'
  BY <1>2 DEF StoresOK, PassCaptcha, FailsOK, CodesOK, SessionsOK, HistoryOK, SerialOK
<1>4. QED
  BY <1>1, <1>2, <1>3 DEF StoresOK

LEMMA FailureTypes ==
  ASSUME StoresOK, NEW t
  PROVE  FailureCount(t) \in Nat /\ LockedUntil(t) \in Nat /\ now \in Nat
<1>1. now \in Nat
  BY Limits DEF StoresOK, ClockOK
<1>2. t \in DOMAIN authFails => authFails[t] \in [count: Nat, until: Nat]
  BY DEF StoresOK, FailsOK, Range
<1>3. QED
  BY <1>1, <1>2 DEF FailureCount, LockedUntil

LEMMA SessionTypes == ASSUME Typing, NEW w \in Workers, SessionTraffic(w) PROVE Typing'
<1>1. /\ TableOK /\ IdsBelow /\ TaskOK /\ StoresOK /\ deployment \in Deployments
      /\ task[w] \in Task /\ Sound(task[w]) /\ guesses \in [Typed -> Nat]
  BY ControlGoes DEF Typing, StoresOK, ClockOK, FailsOK
<1>2. CASE \E id \in 1..serial, right \in BOOLEAN : LoginCaptcha(w, id, right)
  <2>1. PICK id \in 1..serial, right \in BOOLEAN : LoginCaptcha(w, id, right)
    BY <1>2
  <2>2. StoresOK'
    BY <1>1, <2>1, PassType DEF LoginCaptcha
  <2>3. TableOK' /\ IdsBelow'
    BY <1>1, <2>1, TableKept DEF LoginCaptcha, PassCaptcha
  <2>4. QED
    BY <1>1, <2>1, <2>2, <2>3, SessionGoes, GoesTask DEF Typing
<1>3. CASE \E typed \in Clients \union Emails : LoginCheck(w, typed)
  <2>1. PICK typed \in Clients \union Emails : LoginCheck(w, typed)
    BY <1>3
  <2>2. ClockOK'
    BY <1>1, <2>1, ClockKept DEF StoresOK, LoginCheck
  <2>3. StoresOK'
    BY <1>1, <2>1, <2>2 DEF LoginCheck, StoresOK, FailsOK, CaptchasOK, CodesOK, SessionsOK,
                            HistoryOK, SerialOK, memory, history
  <2>4. TableOK' /\ IdsBelow'
    BY <1>1, <2>1, TableKept DEF LoginCheck
  <2>5. QED
    BY <1>1, <2>1, <2>3, <2>4, SessionGoes, GoesTask DEF Typing
<1>4. CASE \E p \in Passwords : LoginVerify(w, p)
  <2>1. PICK p \in Passwords : LoginVerify(w, p)
    BY <1>4
  <2>2. ClockOK'
    BY <1>1, <2>1, ClockKept DEF StoresOK, LoginVerify
  <2>3. StoresOK'
    BY <1>1, <2>1, <2>2 DEF LoginVerify, StoresOK, FailsOK, CaptchasOK, CodesOK, SessionsOK,
                            HistoryOK, SerialOK, memory, history
  <2>4. TableOK' /\ IdsBelow'
    BY <1>1, <2>1, TableKept DEF LoginVerify
  <2>5. QED
    BY <1>1, <2>1, <2>3, <2>4, SessionGoes, GoesTask DEF Typing
<1>5. CASE LoginFail(w)
  <2> DEFINE typed == task[w].typed
             count == FailureCount(typed) + 1
             until == IF count >= Threshold THEN now + Lockout ELSE LockedUntil(typed)
             entry == [count |-> count, until |-> until]
  <2>1. typed \in Typed
    BY <1>1, <1>5 DEF LoginFail, At, Sound, TypedStages
  <2>2. ClockOK'
    BY <1>1, <1>5, ClockKept DEF StoresOK, LoginFail
  <2>3. FailureCount(typed) \in Nat /\ LockedUntil(typed) \in Nat /\ now \in Nat
    BY <1>1, FailureTypes
  <2>4. count \in Nat /\ until \in Nat
    BY <2>3, Limits
  <2>5. authFails' = Put(authFails, typed, entry) /\ guesses' = [guesses EXCEPT ![typed] = @ + 1]
    BY <1>5 DEF LoginFail
  <2> HIDE DEF typed, count, until
  <2>6. entry \in [count: Nat, until: Nat]
    BY <2>4
  <2> HIDE DEF entry
  <2>7. DOMAIN authFails' \subseteq Typed /\ Range(authFails') \subseteq [count: Nat, until: Nat]
    <3> DEFINE E == [count: Nat, until: Nat]
    <3>1. DOMAIN authFails \subseteq Typed /\ Range(authFails) \subseteq E /\ entry \in E
      BY <1>1, <2>6 DEF StoresOK, FailsOK
    <3> HIDE DEF E
    <3>2. DOMAIN authFails' \subseteq Typed /\ Range(authFails') \subseteq E
      BY <2>1, <2>5, <3>1, PutType, Zenon
    <3>3. QED
      BY <3>2 DEF E
  <2>8. guesses' \in [Typed -> Nat]
    BY <1>1, <2>1, <2>5
  <2>9. StoresOK'
    BY <1>1, <1>5, <2>2, <2>7, <2>8 DEF LoginFail, StoresOK, FailsOK, CaptchasOK, CodesOK,
                                        SessionsOK, HistoryOK, SerialOK
  <2>10. TableOK' /\ IdsBelow'
    BY <1>1, <1>5, TableKept DEF LoginFail
  <2>11. QED
    BY <1>1, <1>5, <2>9, <2>10, SessionGoes, GoesTask DEF Typing
<1>6. CASE LoginReset(w)
  <2> DEFINE S == DOMAIN authFails \ {task[w].typed}
  <2>1. ClockOK'
    BY <1>1, <1>6, ClockKept DEF StoresOK, LoginReset
  <2>2. authFails' = Restrict(authFails, S) /\ S \in SUBSET DOMAIN authFails
    BY <1>6 DEF LoginReset
  <2> HIDE DEF S
  <2>3. DOMAIN authFails' \subseteq Typed /\ Range(authFails') \subseteq [count: Nat, until: Nat]
    BY <1>1, <2>2, RestrictType DEF StoresOK, FailsOK
  <2>4. guesses' \in [Typed -> Nat]
    BY <1>1, <1>6 DEF LoginReset
  <2>5. StoresOK'
    BY <1>1, <1>6, <2>1, <2>3, <2>4 DEF LoginReset, StoresOK, FailsOK, CaptchasOK, CodesOK,
                                        SessionsOK, HistoryOK, SerialOK
  <2>6. TableOK' /\ IdsBelow'
    BY <1>1, <1>6, TableKept DEF LoginReset
  <2>7. QED
    BY <1>1, <1>6, <2>5, <2>6, SessionGoes, GoesTask DEF Typing
<1>7. CASE CreateSession(w)
  <2>1. ClockOK'
    BY <1>1, <1>7, ClockKept DEF StoresOK, CreateSession
  <2>2. task[w].name \in Names /\ serial \in Nat
    BY <1>1, <1>7, StageNames DEF CreateSession, At, Sound, NamedStages, StoresOK, SerialOK
  <2>3. SessionsOK' /\ SerialOK'
    BY <1>1, <1>7, <2>2 DEF CreateSession, StoresOK, SessionsOK, SerialOK, Draw
  <2>4. StoresOK'
    BY <1>1, <1>7, <2>1, <2>3 DEF CreateSession, StoresOK, FailsOK, CaptchasOK, CodesOK,
                                  HistoryOK, history
  <2>5. TableOK' /\ IdsBelow'
    BY <1>1, <1>7, TableKept DEF CreateSession
  <2>6. QED
    BY <1>1, <1>7, <2>4, <2>5, SessionGoes, GoesTask DEF Typing
<1>8. QED
  BY <1>2, <1>3, <1>4, <1>5, <1>6, <1>7 DEF SessionTraffic

LEMMA AddedTypes ==
  ASSUME TableOK, IdsBelow, NEW n \in Names, NEW p \in Passwords \union {Nothing},
         NEW role \in Roles, AddUser(n, p, role)
  PROVE  TableOK' /\ IdsBelow'
<1> DEFINE new == Len(users) + 1
<1>1. /\ TableOK' /\ userNext' = userNext + 1 /\ Rows' = Rows \union {new}
      /\ \A i \in Rows : users'[i] = users[i]
      /\ users'[new] = NewUser(n, p, role)
  BY RowAdded DEF IdsBelow
<1>2. users'[new].id = userNext /\ userNext \in Nat
  <2>1. userNext \in Nat
    BY DEF TableOK
  <2>2. NewUser(n, p, role).id = userNext
    BY <2>1, NewUserFields
  <2> HIDE DEF new
  <2>3. QED
    BY <1>1, <2>1, <2>2
<1>3. \A i \in Rows : users[i].id \in Nat
  BY RowNumbers DEF User
<1> HIDE DEF new
<1>4. IdsBelow'
  BY <1>1, <1>2, <1>3 DEF IdsBelow
<1>5. QED
  BY <1>1, <1>4

LEMMA RegisterTypes == ASSUME Typing, NEW w \in Workers, RegisterTraffic(w) PROVE Typing'
<1>1. /\ TableOK /\ IdsBelow /\ TaskOK /\ StoresOK /\ deployment \in Deployments
      /\ task[w] \in Task /\ Sound(task[w]) /\ serial \in Nat /\ now \in Nat /\ CodesOK
  BY ControlGoes, FailureTypes DEF Typing, StoresOK, ClockOK, SerialOK
<1>s. LiveRegCodes \in SUBSET DOMAIN regCodes
  BY DEF LiveRegCodes
<1>2. CASE \E id \in 1..serial, right \in BOOLEAN, n \in Clients : RegisterCaptcha(w, id, right, n)
  <2>1. PICK id \in 1..serial, right \in BOOLEAN, n \in Clients : RegisterCaptcha(w, id, right, n)
    BY <1>2
  <2>2. StoresOK'
    BY <1>1, <2>1, PassType DEF RegisterCaptcha
  <2>3. TableOK' /\ IdsBelow'
    BY <1>1, <2>1, TableKept DEF RegisterCaptcha, PassCaptcha
  <2>4. QED
    BY <1>1, <2>1, <2>2, <2>3, RegisterGoes, GoesTask DEF Typing
<1>3. CASE \E e \in Emails : RegisterSendCode(w, e)
  <2>1. PICK e \in Emails : RegisterSendCode(w, e)
    BY <1>3
  <2> DEFINE entry == [code |-> serial, exp |-> now + CodeTTL]
             left  == Restrict(regCodes, LiveRegCodes)
             E     == [code: Nat, exp: Nat]
  <2>2. ClockOK'
    BY <1>1, <2>1, ClockKept DEF StoresOK, RegisterSendCode
  <2>3. entry \in E
    BY <1>1, Limits
  <2>4. regCodes' = Put(left, e, entry)
    BY <2>1 DEF RegisterSendCode
  <2>5. DOMAIN regCodes \subseteq Emails /\ Range(regCodes) \subseteq E
    BY <1>1 DEF CodesOK
  <2> HIDE DEF entry, E
  <2>6. DOMAIN left \subseteq Emails /\ Range(left) \subseteq E
    BY <1>s, <2>5, RestrictType, ZenonT(60)
  <2> HIDE DEF left
  <2>7. DOMAIN regCodes' \subseteq Emails /\ Range(regCodes') \subseteq E
    BY <2>1, <2>3, <2>4, <2>6, PutType, Zenon
  <2>8. CodesOK'
    BY <1>1, <2>1, <2>7 DEF CodesOK, RegisterSendCode, E
  <2>9. StoresOK'
    BY <1>1, <2>1, <2>2, <2>8 DEF RegisterSendCode, StoresOK, FailsOK, CaptchasOK, SessionsOK,
                                  HistoryOK, SerialOK, Draw, history
  <2>10. TableOK' /\ IdsBelow'
    BY <1>1, <2>1, TableKept DEF RegisterSendCode
  <2>11. QED
    BY <1>1, <2>1, <2>9, <2>10, RegisterGoes, GoesTask DEF Typing
<1>4. CASE \E e \in Emails, code \in 1..serial : RegisterTakeCode(w, e, code)
  <2>1. PICK e \in Emails, code \in 1..serial : RegisterTakeCode(w, e, code)
    BY <1>4
  <2> DEFINE left == LiveRegCodes \ {e}
  <2>2. ClockOK'
    BY <1>1, <2>1, ClockKept DEF StoresOK, RegisterTakeCode
  <2>3. regCodes' = Restrict(regCodes, left) /\ left \in SUBSET DOMAIN regCodes
    BY <1>s, <2>1 DEF RegisterTakeCode
  <2> HIDE DEF left
  <2>4. CodesOK'
    <3> DEFINE E == [code: Nat, exp: Nat]
    <3>1. DOMAIN regCodes \subseteq Emails /\ Range(regCodes) \subseteq E
      BY <1>1 DEF CodesOK
    <3> HIDE DEF E
    <3>2. DOMAIN regCodes' \subseteq Emails /\ Range(regCodes') \subseteq E
      BY <2>3, <3>1, RestrictType
    <3>3. QED
      BY <1>1, <2>1, <3>2 DEF CodesOK, RegisterTakeCode, E
  <2>5. HistoryOK'
    BY <1>1, <2>1, OneMoreType DEF StoresOK, HistoryOK, RegisterTakeCode, Accept
  <2>6. StoresOK'
    BY <1>1, <2>1, <2>2, <2>4, <2>5 DEF RegisterTakeCode, StoresOK, FailsOK, CaptchasOK,
                                        SessionsOK, SerialOK
  <2>7. TableOK' /\ IdsBelow'
    BY <1>1, <2>1, TableKept DEF RegisterTakeCode
  <2>8. QED
    BY <1>1, <2>1, <2>6, <2>7, RegisterGoes, GoesTask DEF Typing
<1>5. CASE RegisterCount(w)
  <2>1. ClockOK'
    BY <1>1, <1>5, ClockKept DEF StoresOK, RegisterCount
  <2>2. StoresOK'
    BY <1>1, <1>5, <2>1 DEF RegisterCount, StoresOK, FailsOK, CaptchasOK, CodesOK, SessionsOK,
                            HistoryOK, SerialOK, memory, history
  <2>3. TableOK' /\ IdsBelow'
    BY <1>1, <1>5, TableKept DEF RegisterCount
  <2>4. QED
    BY <1>1, <1>5, <2>2, <2>3, RegisterGoes, GoesTask DEF Typing
<1>6. CASE \E p \in Passwords : CreateUser(w, p)
  <2>1. PICK p \in Passwords : CreateUser(w, p)
    BY <1>6
  <2>2. ClockOK'
    BY <1>1, <2>1, ClockKept DEF StoresOK, CreateUser
  <2>3. firsts' \subseteq Nat
    BY <1>1, <2>1 DEF CreateUser, StoresOK, HistoryOK, TableOK
  <2>4. StoresOK'
    BY <1>1, <2>1, <2>2, <2>3 DEF CreateUser, StoresOK, FailsOK, CaptchasOK, CodesOK, SessionsOK,
                                  HistoryOK, SerialOK, memory
  <2>5. TableOK' /\ IdsBelow'
    <3>1. CASE AddUser(task[w].name, p, task[w].role)
      <4>1. task[w].name \in Names /\ task[w].role \in Roles
        BY <1>1, <2>1, StageNames DEF CreateUser, At, Sound, NamedStages, Task
      <4>2. QED
        BY <1>1, <3>1, <4>1, AddedTypes
    <3>2. CASE UNCHANGED <<users, userNext>>
      BY <1>1, <3>2, TableKept
    <3>3. QED
      BY <2>1, <3>1, <3>2 DEF CreateUser
  <2>6. QED
    BY <1>1, <2>1, <2>4, <2>5, RegisterGoes, GoesTask DEF Typing
<1>7. CASE \E n \in Clients : SetupCount(w, n)
  <2>1. PICK n \in Clients : SetupCount(w, n)
    BY <1>7
  <2>2. ClockOK'
    BY <1>1, <2>1, ClockKept DEF StoresOK, SetupCount
  <2>3. StoresOK'
    BY <1>1, <2>1, <2>2 DEF SetupCount, StoresOK, FailsOK, CaptchasOK, CodesOK, SessionsOK,
                            HistoryOK, SerialOK, memory, history
  <2>4. TableOK' /\ IdsBelow'
    BY <1>1, <2>1, TableKept DEF SetupCount
  <2>5. QED
    BY <1>1, <2>1, <2>3, <2>4, RegisterGoes, GoesTask DEF Typing
<1>8. CASE \E n \in Clients, e \in Emails \union {Nothing} : OAuthLookup(w, n, e)
  <2>1. PICK n \in Clients, e \in Emails \union {Nothing} : OAuthLookup(w, n, e)
    BY <1>8
  <2>2. ClockOK'
    BY <1>1, <2>1, ClockKept DEF StoresOK, OAuthLookup
  <2>3. StoresOK'
    BY <1>1, <2>1, <2>2 DEF OAuthLookup, StoresOK, FailsOK, CaptchasOK, CodesOK, SessionsOK,
                            HistoryOK, SerialOK, memory, history
  <2>4. TableOK' /\ IdsBelow'
    BY <1>1, <2>1, TableKept DEF OAuthLookup
  <2>5. QED
    BY <1>1, <2>1, <2>3, <2>4, RegisterGoes, GoesTask DEF Typing
<1>9. CASE OAuthCreate(w)
  <2>1. ClockOK'
    BY <1>1, <1>9, ClockKept DEF StoresOK, OAuthCreate
  <2>2. StoresOK'
    BY <1>1, <1>9, <2>1 DEF OAuthCreate, StoresOK, FailsOK, CaptchasOK, CodesOK, SessionsOK,
                            HistoryOK, SerialOK, memory, history
  <2>3. TableOK' /\ IdsBelow'
    <3>1. CASE AddUser(task[w].name, Nothing, "user")
      <4>1. task[w].name \in Names
        BY <1>1, <1>9, StageNames DEF OAuthCreate, At, Sound, NamedStages
      <4>2. QED
        BY <1>1, <3>1, <4>1, AddedTypes, Roots
    <3>2. CASE UNCHANGED <<users, userNext>>
      BY <1>1, <3>2, TableKept
    <3>3. QED
      BY <1>9, <3>1, <3>2 DEF OAuthCreate
  <2>4. QED
    BY <1>1, <1>9, <2>2, <2>3, RegisterGoes, GoesTask DEF Typing
<1>10. CASE OAuthEmail(w)
  <2>1. ClockOK'
    BY <1>1, <1>10, ClockKept DEF StoresOK, OAuthEmail
  <2>2. StoresOK'
    BY <1>1, <1>10, <2>1 DEF OAuthEmail, StoresOK, FailsOK, CaptchasOK, CodesOK, SessionsOK,
                            HistoryOK, SerialOK, memory, history
  <2>3. TableOK' /\ IdsBelow'
    <3>1. CASE UNCHANGED users
      BY <1>1, <1>10, <3>1, TableKept DEF OAuthEmail
    <3>2. CASE SetUserEmail(task[w].name, task[w].email)
      <4>1. task[w].email \in Emails \union {Nothing}
        BY <1>1 DEF Task
      <4>2. SameRows
        BY <1>1, <3>2, <4>1, EditsByName
      <4>3. QED
        BY <1>1, <1>10, <4>2, RowsKept DEF OAuthEmail
    <3>3. QED
      BY <1>10, <3>1, <3>2 DEF OAuthEmail
  <2>4. QED
    BY <1>1, <1>10, <2>2, <2>3, RegisterGoes, GoesTask DEF Typing
<1>11. QED
  BY <1>2, <1>3, <1>4, <1>5, <1>6, <1>7, <1>8, <1>9, <1>10 DEF RegisterTraffic

LEMMA StoresKept ==
  ASSUME StoresOK, ClockOK', UNCHANGED memory, serial' \in {serial, serial + 1}
  PROVE  /\ UNCHANGED history => StoresOK'
         /\ HistoryOK' /\ UNCHANGED <<guesses, asked>> => StoresOK'
<1>1. FailsOK /\ UNCHANGED <<authFails, guesses>> => FailsOK'
  BY DEF FailsOK
<1>2. CaptchasOK /\ UNCHANGED <<captchas, asked>> => CaptchasOK'
  BY DEF CaptchasOK
<1>3. CodesOK /\ UNCHANGED <<regCodes, emailCodes, resetTokens>> => CodesOK'
  BY DEF CodesOK
<1>4. SessionsOK /\ UNCHANGED sessions => SessionsOK'
  BY DEF SessionsOK
<1>5. HistoryOK /\ UNCHANGED history => HistoryOK'
  BY DEF HistoryOK, history
<1>6. SerialOK'
  BY DEF StoresOK, SerialOK
<1>7. UNCHANGED <<guesses, asked>> => FailsOK' /\ CaptchasOK' /\ CodesOK' /\ SessionsOK'
  BY <1>1, <1>2, <1>3, <1>4 DEF StoresOK, memory
<1>8. UNCHANGED history => UNCHANGED <<guesses, asked>> /\ HistoryOK'
  BY <1>5 DEF StoresOK, history
<1>9. QED
  BY <1>6, <1>7, <1>8 DEF StoresOK

LEMMA FactorTypes == ASSUME Typing, NEW w \in Workers, TwoFATraffic(w) PROVE Typing'
<1>1. /\ TableOK /\ IdsBelow /\ TaskOK /\ StoresOK /\ deployment \in Deployments
      /\ task[w] \in Task /\ Sound(task[w]) /\ serial \in Nat /\ HistoryOK
  BY ControlGoes DEF Typing, StoresOK, ClockOK, SerialOK
<1>2. CASE \E n \in Clients : TwoFAEnable(w, n) \/ TwoFADisable(w, n) \/ VerifyTOTP(w, n)
  <2>1. PICK n \in Clients : TwoFAEnable(w, n) \/ TwoFADisable(w, n) \/ VerifyTOTP(w, n)
    BY <1>2
  <2>2. ClockOK' /\ UNCHANGED <<users, userNext>> /\ UNCHANGED memory /\ UNCHANGED serial
        /\ UNCHANGED history
    BY <1>1, <2>1, ClockKept DEF StoresOK, TwoFAEnable, TwoFADisable, VerifyTOTP
  <2>3. StoresOK'
    BY <1>1, <2>2, StoresKept
  <2>4. QED
    BY <1>1, <2>1, <2>2, <2>3, TableKept, FactorGoes, GoesTask DEF Typing
<1>3. CASE \E n \in Clients : TwoFAConfirm(w, n)
  <2>1. PICK n \in Clients : TwoFAConfirm(w, n)
    BY <1>3
  <2>2. /\ ClockOK' /\ UNCHANGED <<users, userNext>> /\ UNCHANGED memory /\ UNCHANGED serial
        /\ UNCHANGED <<guesses, asked>>
    BY <1>1, <2>1, ClockKept DEF StoresOK, TwoFAConfirm
  <2>3. Goes(w, {"idle"}, {"confirm"}) /\ Secret(n) \in Nat
    BY <1>1, <2>1, FactorGoes
  <2>4. HistoryOK'
    BY <1>1, <2>1, <2>3 DEF TwoFAConfirm, HistoryOK
  <2>5. StoresOK'
    BY <1>1, <2>2, <2>4, StoresKept
  <2>6. QED
    BY <1>1, <2>2, <2>3, <2>5, TableKept, GoesTask DEF Typing
<1>4. CASE StoreSecret(w)
  <2>1. /\ ClockOK' /\ UNCHANGED memory /\ UNCHANGED history /\ serial' = serial + 1
        /\ UNCHANGED userNext
    BY <1>1, <1>4, ClockKept DEF StoresOK, StoreSecret, Draw
  <2>2. SameRows
    BY <1>1, <1>4, EditsByName DEF StoreSecret
  <2>3. StoresOK'
    BY <1>1, <2>1, StoresKept
  <2>4. QED
    BY <1>1, <1>4, <2>1, <2>2, <2>3, RowsKept, FactorGoes, GoesTask DEF Typing
<1>5. CASE EnableSecret(w)
  <2>1. /\ ClockOK' /\ UNCHANGED memory /\ UNCHANGED history /\ UNCHANGED serial
        /\ UNCHANGED userNext
    BY <1>1, <1>5, ClockKept DEF StoresOK, EnableSecret
  <2>2. SameRows
    <3>1. task[w].item \in Nat
      BY <1>1 DEF Task
    <3>2. QED
      BY <1>1, <1>5, <3>1, EditsByName DEF EnableSecret
  <2>3. StoresOK'
    BY <1>1, <2>1, StoresKept
  <2>4. QED
    BY <1>1, <1>5, <2>1, <2>2, <2>3, RowsKept, FactorGoes, GoesTask DEF Typing
<1>6. CASE StoreRecovery(w)
  <2>1. /\ ClockOK' /\ UNCHANGED memory /\ UNCHANGED history /\ serial' = serial + 1
        /\ UNCHANGED userNext
    BY <1>1, <1>6, ClockKept DEF StoresOK, StoreRecovery, Draw
  <2>2. SameRows
    <3>1. {serial} \X (1..RecoveryCodes) \in SUBSET (Nat \X (1..RecoveryCodes))
      BY <1>1
    <3>2. QED
      BY <1>1, <1>6, <3>1, EditsByName DEF StoreRecovery
  <2>3. StoresOK'
    BY <1>1, <2>1, StoresKept
  <2>4. QED
    BY <1>1, <1>6, <2>1, <2>2, <2>3, RowsKept, FactorGoes, GoesTask DEF Typing
<1>7. CASE ClearSecret(w)
  <2>1. /\ ClockOK' /\ UNCHANGED memory /\ UNCHANGED history /\ UNCHANGED serial
        /\ UNCHANGED userNext
    BY <1>1, <1>7, ClockKept DEF StoresOK, ClearSecret
  <2>2. SameRows
    BY <1>1, <1>7, EditsByName DEF ClearSecret
  <2>3. StoresOK'
    BY <1>1, <2>1, StoresKept
  <2>4. QED
    BY <1>1, <1>7, <2>1, <2>2, <2>3, RowsKept, FactorGoes, GoesTask DEF Typing
<1>8. CASE \E i \in Rows : \E code \in users[i].recovery : VerifyRecovery(w, users[i].name, code)
  <2>1. PICK i \in Rows : \E code \in users[i].recovery : VerifyRecovery(w, users[i].name, code)
    BY <1>8
  <2>2. PICK code \in users[i].recovery : VerifyRecovery(w, users[i].name, code)
    BY <2>1
  <2>3. /\ ClockOK' /\ UNCHANGED <<users, userNext>> /\ UNCHANGED memory /\ UNCHANGED serial
        /\ UNCHANGED history
    BY <1>1, <2>2, ClockKept DEF StoresOK, VerifyRecovery
  <2>4. StoresOK'
    BY <1>1, <2>3, StoresKept
  <2>5. Goes(w, {"idle"}, {"spend"})
    BY <1>1, <2>2, FactorGoes
  <2>6. QED
    BY <1>1, <2>3, <2>4, <2>5, TableKept, GoesTask DEF Typing
<1>9. CASE SpendRecovery(w)
  <2>1. /\ ClockOK' /\ UNCHANGED memory /\ UNCHANGED <<guesses, asked>> /\ UNCHANGED serial
        /\ UNCHANGED userNext
    BY <1>1, <1>9, ClockKept DEF StoresOK, SpendRecovery
  <2>2. SameRows
    <3>1. task[w].codes \in SUBSET (Nat \X (1..RecoveryCodes))
      BY <1>1 DEF Task
    <3>2. QED
      BY <1>1, <1>9, <3>1, EditsByName DEF SpendRecovery
  <2>3. task[w].name \in Names /\ task[w].item \in Nat
    BY <1>1, <1>9, StageNames DEF SpendRecovery, At, Sound, NamedStages, Task
  <2>4. HistoryOK'
    <3> DEFINE k == <<task[w].name, task[w].item>>
    <3>1. k \in Names \X Nat /\ spent' = OneMore(spent, k)
      BY <1>9, <2>3 DEF SpendRecovery
    <3> HIDE DEF k
    <3>2. DOMAIN spent' = DOMAIN spent \union {k} /\ Range(spent') \subseteq Nat
      BY <1>1, <3>1, OneMoreType DEF HistoryOK
    <3>3. QED
      BY <1>1, <1>9, <3>1, <3>2 DEF SpendRecovery, HistoryOK
  <2>5. StoresOK'
    BY <1>1, <2>1, <2>4, StoresKept
  <2>6. QED
    BY <1>1, <1>9, <2>1, <2>2, <2>5, RowsKept, FactorGoes, GoesTask DEF Typing
<1>10. QED
  BY <1>2, <1>3, <1>4, <1>5, <1>6, <1>7, <1>8, <1>9 DEF TwoFATraffic

LEMMA MailTypes == ASSUME Typing, NEW w \in Workers, MailTraffic(w) PROVE Typing'
<1>1. /\ TableOK /\ IdsBelow /\ TaskOK /\ StoresOK /\ deployment \in Deployments
      /\ task[w] \in Task /\ Sound(task[w]) /\ serial \in Nat /\ now \in Nat /\ HistoryOK
      /\ CodesOK
      /\ emailCodes \subseteq [name: Names, email: Emails, code: Nat, exp: Nat]
      /\ resetTokens \subseteq [token: Nat, name: Names, exp: Nat]
  BY ControlGoes, FailureTypes DEF Typing, StoresOK, ClockOK, SerialOK, CodesOK
<1>2. CASE \E n \in Clients, code \in 1..serial : EmailTakeCode(w, n, code)
  <2>1. PICK n \in Clients, code \in 1..serial : EmailTakeCode(w, n, code)
    BY <1>2
  <2>2. ClockOK'
    BY <1>1, <2>1, ClockKept DEF StoresOK, EmailTakeCode
  <2>3. CodesOK'
    BY <1>1, <2>1 DEF EmailTakeCode, CodesOK, Live
  <2>4. HistoryOK'
    BY <1>1, <2>1, OneMoreType DEF EmailTakeCode, Accept, HistoryOK
  <2>5. StoresOK'
    BY <1>1, <2>1, <2>2, <2>3, <2>4 DEF EmailTakeCode, StoresOK, FailsOK, CaptchasOK, SessionsOK,
                                        SerialOK
  <2>6. Goes(w, {"idle"}, {"email"})
    BY <1>1, <2>1, MailGoes
  <2>7. TableOK' /\ IdsBelow'
    BY <1>1, <2>1, TableKept DEF EmailTakeCode
  <2>8. QED
    BY <1>1, <2>5, <2>6, <2>7, GoesTask DEF Typing
<1>3. CASE BindEmail(w)
  <2>1. /\ ClockOK' /\ UNCHANGED memory /\ UNCHANGED history /\ UNCHANGED serial
        /\ UNCHANGED userNext
    BY <1>1, <1>3, ClockKept DEF StoresOK, BindEmail
  <2>2. SameRows
    <3>1. task[w].email \in Emails \union {Nothing}
      BY <1>1 DEF Task
    <3>2. QED
      BY <1>1, <1>3, <3>1, EditsByName DEF BindEmail
  <2>3. StoresOK'
    BY <1>1, <2>1, StoresKept
  <2>4. QED
    BY <1>1, <1>3, <2>1, <2>2, <2>3, RowsKept, MailGoes, GoesTask DEF Typing
<1>4. CASE \E e \in Emails : ResetFindAddress(w, e)
  <2>1. PICK e \in Emails : ResetFindAddress(w, e)
    BY <1>4
  <2>2. /\ ClockOK' /\ UNCHANGED <<users, userNext>> /\ UNCHANGED memory /\ UNCHANGED serial
        /\ UNCHANGED history
    BY <1>1, <2>1, ClockKept DEF StoresOK, ResetFindAddress
  <2>3. StoresOK' /\ Goes(w, {"idle"}, {"token"})
    BY <1>1, <2>1, <2>2, StoresKept, MailGoes
  <2>4. QED
    BY <1>1, <2>2, <2>3, TableKept, GoesTask DEF Typing
<1>5. CASE ResetSendLink(w)
  <2> DEFINE link == [token |-> serial, name |-> task[w].name, exp |-> now + ResetTTL]
  <2>1. ClockOK'
    BY <1>1, <1>5, ClockKept DEF StoresOK, ResetSendLink
  <2>2. task[w].name \in Names
    BY <1>1, <1>5, StageNames DEF ResetSendLink, At, Sound, NamedStages
  <2>3. link \in [token: Nat, name: Names, exp: Nat]
    BY <1>1, <2>2, Limits
  <2>4. resetTokens' = Live(resetTokens) \union {link}
    BY <1>5 DEF ResetSendLink
  <2> HIDE DEF link
  <2>5. CodesOK'
    BY <1>1, <1>5, <2>3, <2>4 DEF ResetSendLink, CodesOK, Live
  <2>6. StoresOK'
    BY <1>1, <1>5, <2>1, <2>5 DEF ResetSendLink, StoresOK, FailsOK, CaptchasOK, SessionsOK,
                                  HistoryOK, SerialOK, Draw, history
  <2>7. TableOK' /\ IdsBelow'
    BY <1>1, <1>5, TableKept DEF ResetSendLink
  <2>8. QED
    BY <1>1, <1>5, <2>6, <2>7, MailGoes, GoesTask DEF Typing
<1>6. CASE ResetFind(w)
  <2>1. /\ ClockOK' /\ UNCHANGED <<users, userNext>> /\ UNCHANGED memory /\ UNCHANGED serial
        /\ UNCHANGED history
    BY <1>1, <1>6, ClockKept DEF StoresOK, ResetFind
  <2>2. StoresOK'
    BY <1>1, <2>1, StoresKept
  <2>3. QED
    BY <1>1, <1>6, <2>1, <2>2, TableKept, MailGoes, GoesTask DEF Typing
<1>7. CASE \E token \in 1..serial : ResetTakeToken(w, token)
  <2>1. PICK token \in 1..serial : ResetTakeToken(w, token)
    BY <1>7
  <2>2. ClockOK'
    BY <1>1, <2>1, ClockKept DEF StoresOK, ResetTakeToken
  <2>3. CodesOK'
    BY <1>1, <2>1 DEF ResetTakeToken, CodesOK, Live
  <2>4. HistoryOK'
    BY <1>1, <2>1, OneMoreType DEF ResetTakeToken, Accept, HistoryOK
  <2>5. StoresOK'
    BY <1>1, <2>1, <2>2, <2>3, <2>4 DEF ResetTakeToken, StoresOK, FailsOK, CaptchasOK, SessionsOK,
                                        SerialOK
  <2>6. Goes(w, {"idle"}, {"find"})
    BY <1>1, <2>1, MailGoes
  <2>7. TableOK' /\ IdsBelow'
    BY <1>1, <2>1, TableKept DEF ResetTakeToken
  <2>8. QED
    BY <1>1, <2>5, <2>6, <2>7, GoesTask DEF Typing
<1>8. CASE \E p \in Passwords : ResetApply(w, p)
  <2>1. PICK p \in Passwords : ResetApply(w, p)
    BY <1>8
  <2>2. /\ ClockOK' /\ UNCHANGED memory /\ UNCHANGED serial /\ UNCHANGED history
        /\ UNCHANGED userNext
    BY <1>1, <2>1, ClockKept DEF StoresOK, ResetApply
  <2>3. TableOK' /\ IdsBelow'
    <3> DEFINE form == [name |-> Nothing, role |-> Nothing, password |-> p, enabled |-> FALSE]
    <3>1. CASE UNCHANGED users
      BY <1>1, <2>2, <3>1, TableKept
    <3>2. CASE \E i \in Rows : UpdateUser(i, form)
      <4>1. PICK i \in Rows : UpdateUser(i, form)
        BY <3>2
      <4>2. /\ form \in [name: Names \union {Nothing}, role: Roles \union {Nothing},
                         enabled: BOOLEAN, password: Passwords \union {Nothing}]
            /\ form.name = Nothing
        OBVIOUS
      <4> HIDE DEF form
      <4>3. NameIsFree(i, form.name) /\ userNext' \in Nat
        BY <1>1, <2>2, <4>2 DEF NameIsFree, TableOK
      <4>4. TableOK' /\ Rows' = Rows /\ \A j \in Rows : users'[j].id = users[j].id
        BY <1>1, <4>1, <4>2, <4>3, FormApplied
      <4>5. QED
        BY <1>1, <2>2, <4>4 DEF IdsBelow
    <3>3. QED
      BY <2>1, <3>1, <3>2 DEF ResetApply
  <2>4. StoresOK'
    BY <1>1, <2>2, StoresKept
  <2>5. QED
    BY <1>1, <2>1, <2>3, <2>4, MailGoes, GoesTask DEF Typing
<1>9. QED
  BY <1>2, <1>3, <1>4, <1>5, <1>6, <1>7, <1>8 DEF MailTraffic

LEMMA AdminTypes == ASSUME Typing, NEW w \in Workers, AdminTraffic(w) PROVE Typing'
<1>1. /\ TableOK /\ IdsBelow /\ TaskOK /\ StoresOK /\ HistoryOK /\ userNext \in Nat
  BY DEF Typing, StoresOK, TableOK
<1>2. CASE AdminCheck(w)
  <2>1. /\ ClockOK' /\ UNCHANGED <<users, userNext>> /\ UNCHANGED memory /\ UNCHANGED serial
        /\ UNCHANGED history
    BY <1>1, <1>2, ClockKept DEF StoresOK, AdminCheck
  <2>2. QED
    BY <1>1, <1>2, <2>1, StoresKept, TableKept, AdminGoes, GoesTask DEF Typing
<1>3. CASE \E i \in Rows : AdminDelete(w, i)
  <2>1. PICK i \in Rows : AdminDelete(w, i)
    BY <1>3
  <2>2. /\ ClockOK' /\ UNCHANGED memory /\ UNCHANGED serial /\ UNCHANGED history
        /\ UNCHANGED userNext
    BY <1>1, <2>1, ClockKept DEF StoresOK, AdminDelete
  <2>3. TableOK' /\ \A j \in Rows' : \E k \in Rows \ {i} : users'[j] = users[k]
    BY <1>1, <2>1, <2>2, RowRemoved DEF AdminDelete
  <2>4. IdsBelow'
    BY <1>1, <2>2, <2>3 DEF IdsBelow
  <2>5. StoresOK' /\ Goes(w, {"admin"}, {"idle"})
    BY <1>1, <2>1, <2>2, StoresKept, AdminGoes
  <2>6. QED
    BY <1>1, <2>3, <2>4, <2>5, GoesTask DEF Typing
<1>4. CASE \E i \in Rows : AdminReset2FA(w, i)
  <2>1. PICK i \in Rows : AdminReset2FA(w, i)
    BY <1>4
  <2>2. /\ ClockOK' /\ UNCHANGED <<users, userNext>> /\ UNCHANGED memory /\ UNCHANGED serial
        /\ UNCHANGED history
    BY <1>1, <2>1, ClockKept DEF StoresOK, AdminReset2FA
  <2>3. StoresOK' /\ Goes(w, {"admin"}, {"disable"})
    BY <1>1, <2>1, <2>2, StoresKept, AdminGoes
  <2>4. QED
    BY <1>1, <2>2, <2>3, TableKept, GoesTask DEF Typing
<1>5. CASE \E form \in Patches : AdminCreate(w, form)
  <2>1. PICK form \in Patches : AdminCreate(w, form)
    BY <1>5
  <2>2. /\ ClockOK' /\ UNCHANGED memory /\ UNCHANGED serial /\ UNCHANGED history
    BY <1>1, <2>1, ClockKept DEF StoresOK, AdminCreate
  <2>3. TableOK' /\ IdsBelow'
    <3> DEFINE role == IF form.role = Nothing THEN "user" ELSE form.role
    <3>1. form.name \in Names /\ form.password \in Passwords /\ role \in Roles
      BY <2>1, PatchAssumption, Roots DEF AdminCreate
    <3>2. AddUser(form.name, form.password, role)
      BY <2>1 DEF AdminCreate
    <3> HIDE DEF role
    <3>3. QED
      BY <1>1, <3>1, <3>2, AddedTypes
  <2>4. StoresOK' /\ Goes(w, {"admin"}, {"idle"})
    BY <1>1, <2>1, <2>2, StoresKept, AdminGoes
  <2>5. QED
    BY <1>1, <2>3, <2>4, GoesTask DEF Typing
<1>6. CASE \E form \in Patches : \E i \in Rows : AdminUpdate(w, i, form)
  <2>1. PICK form \in Patches, i \in Rows : AdminUpdate(w, i, form)
    BY <1>6
  <2>2. /\ ClockOK' /\ UNCHANGED memory /\ UNCHANGED serial /\ UNCHANGED <<guesses, asked>>
        /\ UNCHANGED userNext
    BY <1>1, <2>1, ClockKept DEF StoresOK, AdminUpdate
  <2>3. form \in [name: Names \union {Nothing}, role: Roles \union {Nothing},
                 enabled: BOOLEAN, password: Passwords \union {Nothing}]
    BY PatchAssumption
  <2>4. TableOK' /\ Rows' = Rows /\ \A j \in Rows : users'[j].id = users[j].id
    BY <1>1, <2>1, <2>2, <2>3, FormApplied DEF AdminUpdate
  <2>5. IdsBelow'
    BY <1>1, <2>2, <2>4 DEF IdsBelow
  <2>6. HistoryOK'
    BY <1>1, <2>1, <2>3 DEF AdminUpdate, HistoryOK
  <2>7. StoresOK' /\ Goes(w, {"admin"}, {"idle"})
    BY <1>1, <2>1, <2>2, <2>6, StoresKept, AdminGoes
  <2>8. QED
    BY <1>1, <2>4, <2>5, <2>7, GoesTask DEF Typing
<1>7. QED
  BY <1>2, <1>3, <1>4, <1>5, <1>6 DEF AdminTraffic

\* InitUsers counts the IDs on from the highest one.
LEMMA NextId ==
  ASSUME users \in Seq(User)
  PROVE  LET highest == Max({0} \union {users[i].id : i \in Rows}) IN
         highest \in Nat /\ \A i \in Rows : users[i].id < highest + 1
<1> DEFINE f == [i \in 1..Len(users) |-> users[i].id]
           S == {0} \union {users[i].id : i \in Rows}
<1>1. Len(users) \in Nat /\ Rows = 1..Len(users) /\ \A i \in Rows : users[i].id \in Nat
  <2>1. Len(users) \in Nat /\ Rows = 1..Len(users) /\ \A i \in Rows : users[i] \in User
    BY DEF Rows
  <2>2. \A u \in User : u.id \in Nat
    BY DEF User
  <2>3. QED
    BY <2>1, <2>2
<1>2. f \in [1..Len(users) -> Nat] /\ \A i \in Rows : f[i] = users[i].id
  BY <1>1
<1>3. PICK m \in {0} \union {f[i] : i \in 1..Len(users)} : \A i \in 1..Len(users) : f[i] <= m
  <2> HIDE DEF f
  <2>1. QED
    BY <1>1, <1>2, GreatestValue
<1>4. m \in S /\ \A x \in S : x \in Nat
  BY <1>1, <1>2
<1>5. \A y \in S : m >= y
  BY <1>1, <1>2, <1>3, <1>4
<1>6. \A i \in Rows : users[i].id \in S
  OBVIOUS
<1> HIDE DEF S, f
<1>7. Max(S) \in S /\ \A y \in S : Max(S) >= y
  BY <1>4, <1>5 DEF Max
<1>8. Max(S) \in Nat /\ \A i \in Rows : users[i].id < Max(S) + 1
  <2> DEFINE highest == Max(S)
  <2>1. highest \in Nat /\ \A i \in Rows : highest >= users[i].id
    BY <1>4, <1>6, <1>7
  <2> HIDE DEF highest
  <2>2. highest \in Nat /\ \A i \in Rows : users[i].id < highest + 1
    BY <1>1, <2>1
  <2>3. QED
    BY <2>2 DEF highest
<1>9. QED
  BY <1>8 DEF S

LEMMA GlobalTypes ==
  ASSUME Typing
  PROVE  /\ CaptchaHandler => Typing'
         /\ \A n \in Clients, e \in Emails : EmailSendCode(n, e) => Typing'
         /\ \A s : DeleteSession(s) => Typing'
         /\ Tick => Typing'
         /\ Crash => Typing'
         /\ UNCHANGED vars => Typing'
<1>1. /\ TableOK /\ IdsBelow /\ TaskOK /\ StoresOK /\ serial \in Nat /\ now \in Nat
      /\ ClockOK /\ CaptchasOK /\ CodesOK /\ SessionsOK /\ HistoryOK
  BY FailureTypes DEF Typing, StoresOK, SerialOK
<1>t. UNCHANGED task => TaskOK'
  BY <1>1 DEF TaskOK
<1>2. ASSUME CaptchaHandler PROVE Typing'
  <2> DEFINE made  == [id |-> serial, exp |-> now + CaptchaTTL]
             entry == [id |-> serial, exp |-> now + CaptchaTTL, tried |-> FALSE]
             R     == [id: Nat, exp: Nat, tried: BOOLEAN]
  <2>1. ClockOK'
    BY <1>1, <1>2, ClockKept DEF CaptchaHandler
  <2>2. made \in [id: Nat, exp: Nat] /\ entry \in R
    BY <1>1, Limits
  <2>3. captchas' = DropOldest(Live(captchas) \union {made}) /\ asked' = Append(asked, entry)
    BY <1>2 DEF CaptchaHandler
  <2>4. asked \in Seq(R)
    BY <1>1 DEF CaptchasOK
  <2> HIDE DEF made, entry, R
  <2>5. captchas' \subseteq [id: Nat, exp: Nat]
    BY <1>1, <2>2, <2>3 DEF DropOldest, Live, CaptchasOK
  <2>6. asked' \in Seq(R)
    BY <2>2, <2>3, <2>4
  <2>7. CaptchasOK'
    BY <2>5, <2>6 DEF CaptchasOK, R
  <2>8. FailsOK' /\ CodesOK' /\ SessionsOK' /\ HistoryOK' /\ SerialOK'
    BY <1>1, <1>2 DEF CaptchaHandler, StoresOK, FailsOK, CodesOK, SessionsOK, HistoryOK, SerialOK,
                      Draw
  <2>9. StoresOK'
    BY <2>1, <2>7, <2>8 DEF StoresOK
  <2>10. QED
    BY <1>1, <1>t, <1>2, <2>9, TableKept DEF CaptchaHandler, Typing
<1>3. ASSUME NEW n \in Clients, NEW e \in Emails, EmailSendCode(n, e) PROVE Typing'
  <2> DEFINE sent == [name |-> n, email |-> e, code |-> serial, exp |-> now + CodeTTL]
  <2>1. ClockOK'
    BY <1>1, <1>3, ClockKept DEF EmailSendCode
  <2>2. n \in Names
    BY <1>1, ClientNames DEF ClockOK
  <2>3. sent \in [name: Names, email: Emails, code: Nat, exp: Nat]
    BY <1>1, <2>2, Limits
  <2>4. emailCodes' = Live(emailCodes) \union {sent}
    BY <1>3 DEF EmailSendCode
  <2> HIDE DEF sent
  <2>5. CodesOK'
    BY <1>1, <1>3, <2>3, <2>4 DEF EmailSendCode, CodesOK, Live
  <2>6. StoresOK'
    BY <1>1, <1>3, <2>1, <2>5 DEF EmailSendCode, StoresOK, FailsOK, CaptchasOK, SessionsOK,
                                  HistoryOK, SerialOK, Draw, history
  <2>7. QED
    BY <1>1, <1>t, <1>3, <2>6, TableKept DEF EmailSendCode, Typing
<1>4. ASSUME NEW s, DeleteSession(s) PROVE Typing'
  <2>1. ClockOK'
    BY <1>1, <1>4, ClockKept DEF DeleteSession, Step, ClockOK
  <2>2. StoresOK'
    BY <1>1, <1>4, <2>1 DEF DeleteSession, StoresOK, FailsOK, CaptchasOK, CodesOK, SessionsOK,
                            HistoryOK, SerialOK, history
  <2>3. QED
    BY <1>1, <1>t, <1>4, <2>2, TableKept DEF DeleteSession, Typing
<1>5. ASSUME Tick PROVE Typing'
  <2>1. ClockOK'
    BY <1>1, <1>5, Limits DEF Tick, ClockOK
  <2>2. StoresOK'
    BY <1>1, <1>5, <2>1, StoresKept DEF Tick
  <2>3. QED
    BY <1>1, <1>t, <1>5, <2>2, TableKept DEF Tick, Typing
<1>6. ASSUME Crash PROVE Typing'
  <2>1. ClockOK'
    BY <1>1, <1>6, Limits DEF Crash, ClockOK
  <2>2. FailsOK' /\ CaptchasOK' /\ CodesOK'
    BY <1>6 DEF Crash, FailsOK, CaptchasOK, CodesOK, NoEntries, Range
  <2>3. SessionsOK' /\ HistoryOK' /\ SerialOK'
    BY <1>1, <1>6 DEF Crash, SessionsOK, HistoryOK, SerialOK, StoresOK
  <2>4. TableOK' /\ IdsBelow'
    <3> DEFINE highest == Max({0} \union {users[i].id : i \in Rows})
    <3>1. highest \in Nat /\ \A i \in Rows : users[i].id < highest + 1
      BY <1>1, NextId DEF TableOK
    <3>2. userNext' = highest + 1 /\ UNCHANGED users
      BY <1>6 DEF Crash
    <3> HIDE DEF highest
    <3>3. QED
      BY <1>1, <3>1, <3>2 DEF TableOK, IdsBelow, Unique, Rows
  <2>5. TaskOK'
    BY <1>6, IdleTask DEF Crash, TaskOK
  <2>6. QED
    BY <2>1, <2>2, <2>3, <2>4, <2>5 DEF Typing, StoresOK
<1>7. ASSUME UNCHANGED vars PROVE Typing'
  <2>1. ClockOK'
    BY <1>1, <1>7 DEF vars, ClockOK
  <2>2. StoresOK'
    BY <1>1, <1>7, <2>1, StoresKept DEF vars, memory, history
  <2>3. QED
    BY <1>1, <1>t, <1>7, <2>2, TableKept DEF vars, Typing
<1>8. QED
  BY <1>2, <1>3, <1>4, <1>5, <1>6, <1>7

LEMMA StartTypes == Init => Typing
<1>1. SUFFICES ASSUME Init PROVE Typing
  OBVIOUS
<1>2. /\ users \in Seq(User) /\ users = deployment.users /\ deployment \in Deployments
      /\ deployment.requests \in Nat /\ sessions \subseteq [token: Nat, name: Names]
      /\ \A i \in Rows : users[i].secret \in Nat
  <2>1. /\ users \in Seq(User) /\ users = deployment.users /\ deployment \in Deployments
        /\ deployment.requests \in Nat /\ sessions \subseteq [token: Nat, name: Names]
    BY <1>1, DeploymentAssumption DEF Init
  <2>2. \A i \in Rows : users[i] \in User
    BY <2>1 DEF Rows
  <2>3. \A u \in User : u.secret \in Nat
    BY DEF User
  <2>4. QED
    BY <2>1, <2>2, <2>3
<1>3. TableOK /\ IdsBelow
  <2> DEFINE highest == Max({0} \union {users[i].id : i \in Rows})
  <2>1. highest \in Nat /\ \A i \in Rows : users[i].id < highest + 1
    BY <1>2, NextId
  <2>2. userNext = highest + 1
    BY <1>1 DEF Init
  <2>3. Unique
    BY <1>2, DeploymentAssumption DEF Unique, Rows
  <2> HIDE DEF highest
  <2>4. QED
    BY <1>2, <2>1, <2>2, <2>3 DEF TableOK, IdsBelow
<1>4. TaskOK
  BY <1>1, IdleTask DEF Init, TaskOK
<1>5. ClockOK
  BY <1>1, <1>2, Limits DEF Init, ClockOK
<1>6. FailsOK /\ CaptchasOK /\ CodesOK
  BY <1>1, NoEntriesType DEF Init, FailsOK, CaptchasOK, CodesOK
<1>7. SessionsOK /\ HistoryOK /\ SerialOK
  BY <1>1, <1>2 DEF Init, SessionsOK, HistoryOK, SerialOK, NoEntries, Range
<1>8. QED
  BY <1>3, <1>4, <1>5, <1>6, <1>7 DEF Typing, StoresOK

LEMMA NextTypes == Typing /\ [Next]_vars => Typing'
BY SessionTypes, RegisterTypes, FactorTypes, MailTypes, AdminTypes, GlobalTypes DEF Next

LEMMA TypingHolds == Spec => []Typing
<1>1. Init => Typing
  BY StartTypes
<1>2. Typing /\ [Next]_vars => Typing'
  BY NextTypes
<1>3. QED
  BY <1>1, <1>2, PTL DEF Spec

\* Every variable keeps its type, and no two accounts share a name or an ID: the checks
\* of CreateUser and UpdateUser are under the lock of the table (model/user.go).
THEOREM Types == Spec => []TypeOK
<1>1. Typing => TypeOK
  BY TypingGivesTypes
<1>2. QED
  BY <1>1, TypingHolds, PTL

-------------------------------------------------------------------------------
(* What each kind of request leaves alone                                  *)

SessionStages  == {"idle", "login", "verify", "fail", "reset", "resetOnly", "session"}
RegisterStages == {"idle", "register", "count", "create", "oauthCreate", "oauthEmail", "session"}
FactorStages   == {"idle", "enable", "confirm", "recovery", "disable", "spend", "session"}
MailStages     == {"idle", "email", "token", "find", "password"}
AdminStages    == {"idle", "admin", "disable"}

LEMMA GoesWithin ==
  ASSUME NEW w, NEW from, NEW to, NEW all, Goes(w, from, to), from \subseteq all, to \subseteq all
  PROVE  Goes(w, all, all)
BY DEF Goes

LEMMA SessionFrame ==
  ASSUME Typing, NEW w \in Workers, SessionTraffic(w)
  PROVE  /\ Goes(w, SessionStages, SessionStages)
         /\ UNCHANGED <<users, userNext, firsts, proved, spent, renamed>>
         /\ UNCHANGED <<regCodes, emailCodes, resetTokens, now, deployment>>
         /\ serial' \in {serial, serial + 1}
<1>1. deployment \in Deployments /\ TaskOK /\ TableOK
  BY DEF Typing, StoresOK, ClockOK
<1>2. Goes(w, SessionStages, SessionStages)
  <2> DEFINE all == SessionStages
  <2>1. /\ {"idle"} \subseteq all /\ {"idle", "login"} \subseteq all /\ {"idle", "verify"} \subseteq all
        /\ {"verify"} \subseteq all /\ {"fail", "reset", "resetOnly"} \subseteq all
        /\ {"fail"} \subseteq all /\ {"reset", "resetOnly"} \subseteq all
        /\ {"session", "idle"} \subseteq all /\ {"session"} \subseteq all
    BY DEF SessionStages
  <2> HIDE DEF all
  <2>2. QED
    BY <1>1, <2>1, SessionGoes, GoesWithin DEF SessionTraffic, all
<1>3. /\ UNCHANGED <<users, userNext, firsts, proved, spent, renamed>>
      /\ UNCHANGED <<regCodes, emailCodes, resetTokens, now, deployment>>
  BY DEF SessionTraffic, LoginCaptcha, PassCaptcha, LoginCheck, LoginVerify, LoginFail, LoginReset,
         CreateSession, Begin, Arrive, Step, memory, history
<1>4. serial' \in {serial, serial + 1}
  BY DEF SessionTraffic, LoginCaptcha, PassCaptcha, LoginCheck, LoginVerify, LoginFail, LoginReset,
         CreateSession, Draw
<1>5. QED
  BY <1>2, <1>3, <1>4

LEMMA RegisterFrame ==
  ASSUME Typing, NEW w \in Workers, RegisterTraffic(w)
  PROVE  /\ Goes(w, RegisterStages, RegisterStages)
         /\ UNCHANGED <<authFails, guesses, emailCodes, resetTokens>>
         /\ UNCHANGED <<proved, spent, renamed, now, deployment>>
         /\ serial' \in {serial, serial + 1}
<1>1. deployment \in Deployments /\ TaskOK /\ TableOK
  BY DEF Typing, StoresOK, ClockOK
<1>2. Goes(w, RegisterStages, RegisterStages)
  <2> DEFINE all == RegisterStages
  <2>1. /\ {"idle"} \subseteq all /\ {"idle", "register"} \subseteq all /\ {"register"} \subseteq all
        /\ {"idle", "count"} \subseteq all /\ {"count", "register"} \subseteq all
        /\ {"create"} \subseteq all /\ {"idle", "session"} \subseteq all
        /\ {"idle", "create"} \subseteq all /\ {"oauthEmail", "oauthCreate"} \subseteq all
        /\ {"oauthCreate"} \subseteq all /\ {"oauthEmail"} \subseteq all /\ {"session"} \subseteq all
    BY DEF RegisterStages
  <2> HIDE DEF all
  <2>2. QED
    BY <1>1, <2>1, RegisterGoes, GoesWithin DEF RegisterTraffic, all
<1>3. /\ UNCHANGED <<authFails, guesses, emailCodes, resetTokens>>
      /\ UNCHANGED <<proved, spent, renamed, now, deployment>>
  BY DEF RegisterTraffic, RegisterCaptcha, PassCaptcha, RegisterSendCode, RegisterTakeCode,
         RegisterCount, CreateUser, SetupCount, OAuthLookup, OAuthCreate, OAuthEmail, Begin, Arrive,
         Step, memory, history
<1>4. serial' \in {serial, serial + 1}
  BY DEF RegisterTraffic, RegisterCaptcha, PassCaptcha, RegisterSendCode, RegisterTakeCode,
         RegisterCount, CreateUser, SetupCount, OAuthLookup, OAuthCreate, OAuthEmail, Draw
<1>5. QED
  BY <1>2, <1>3, <1>4

LEMMA FactorFrame ==
  ASSUME Typing, NEW w \in Workers, TwoFATraffic(w)
  PROVE  /\ Goes(w, FactorStages, FactorStages)
         /\ UNCHANGED memory /\ UNCHANGED <<userNext, guesses, redeemed, firsts, renamed, asked>>
         /\ UNCHANGED <<now, deployment>>
         /\ serial' \in {serial, serial + 1}
<1>1. deployment \in Deployments /\ TaskOK /\ TableOK
  BY DEF Typing, StoresOK, ClockOK
<1>2. Goes(w, FactorStages, FactorStages)
  <2> DEFINE all == FactorStages
  <2>1. /\ {"idle"} \subseteq all /\ {"enable"} \subseteq all /\ {"confirm"} \subseteq all
        /\ {"disable"} \subseteq all /\ {"recovery"} \subseteq all /\ {"spend"} \subseteq all
        /\ {"session"} \subseteq all
    BY DEF FactorStages
  <2> HIDE DEF all
  <2>2. QED
    BY <1>1, <2>1, FactorGoes, GoesWithin DEF TwoFATraffic, all
<1>3. /\ UNCHANGED memory /\ UNCHANGED <<userNext, guesses, redeemed, firsts, renamed, asked>>
      /\ UNCHANGED <<now, deployment>>
  BY DEF TwoFATraffic, TwoFAEnable, TwoFAConfirm, TwoFADisable, StoreSecret, EnableSecret,
         StoreRecovery, ClearSecret, VerifyTOTP, VerifyRecovery, SpendRecovery, Begin, Arrive, Step,
         history
<1>4. serial' \in {serial, serial + 1}
  BY DEF TwoFATraffic, TwoFAEnable, TwoFAConfirm, TwoFADisable, StoreSecret, EnableSecret,
         StoreRecovery, ClearSecret, VerifyTOTP, VerifyRecovery, SpendRecovery, Draw
<1>5. QED
  BY <1>2, <1>3, <1>4

LEMMA MailFrame ==
  ASSUME Typing, NEW w \in Workers, MailTraffic(w)
  PROVE  /\ Goes(w, MailStages, MailStages)
         /\ UNCHANGED <<authFails, guesses, captchas, asked, regCodes, firsts, proved, spent, renamed>>
         /\ UNCHANGED <<userNext, now, deployment>>
         /\ serial' \in {serial, serial + 1}
<1>1. /\ deployment \in Deployments /\ TaskOK /\ TableOK
      /\ emailCodes \subseteq [name: Names, email: Emails, code: Nat, exp: Nat]
      /\ resetTokens \subseteq [token: Nat, name: Names, exp: Nat]
  BY DEF Typing, StoresOK, ClockOK, CodesOK
<1>2. Goes(w, MailStages, MailStages)
  <2> DEFINE all == MailStages
  <2>1. /\ {"idle"} \subseteq all /\ {"email"} \subseteq all /\ {"token"} \subseteq all
        /\ {"find"} \subseteq all /\ {"password", "idle"} \subseteq all
        /\ {"password"} \subseteq all
    BY DEF MailStages
  <2> HIDE DEF all
  <2>2. QED
    BY <1>1, <2>1, MailGoes, GoesWithin DEF MailTraffic, all
<1>3. /\ UNCHANGED <<authFails, guesses, captchas, asked, regCodes, firsts, proved, spent, renamed>>
      /\ UNCHANGED <<userNext, now, deployment>>
  BY DEF MailTraffic, EmailTakeCode, BindEmail, ResetFindAddress, ResetSendLink, ResetFind,
         ResetTakeToken, ResetApply, Begin, Arrive, Step, memory, history
<1>4. serial' \in {serial, serial + 1}
  BY DEF MailTraffic, EmailTakeCode, BindEmail, ResetFindAddress, ResetSendLink, ResetFind,
         ResetTakeToken, ResetApply, Draw
<1>5. QED
  BY <1>2, <1>3, <1>4

LEMMA AdminFrame ==
  ASSUME Typing, NEW w \in Workers, AdminTraffic(w)
  PROVE  /\ Goes(w, AdminStages, AdminStages)
         /\ UNCHANGED memory
         /\ UNCHANGED <<serial, guesses, redeemed, proved, firsts, spent, asked, now, deployment>>
<1>1. TaskOK /\ TableOK
  BY DEF Typing
<1>2. Goes(w, AdminStages, AdminStages)
  <2> DEFINE all == AdminStages
  <2>1. {"idle"} \subseteq all /\ {"admin"} \subseteq all /\ {"disable"} \subseteq all
    BY DEF AdminStages
  <2> HIDE DEF all
  <2>2. QED
    BY <1>1, <2>1, AdminGoes, GoesWithin DEF AdminTraffic, all
<1>3. /\ UNCHANGED memory
      /\ UNCHANGED <<serial, guesses, redeemed, proved, firsts, spent, asked, now, deployment>>
  BY DEF AdminTraffic, AdminCheck, AdminDelete, AdminReset2FA, AdminCreate, AdminUpdate, Begin,
         Arrive, Step, history
<1>4. QED
  BY <1>2, <1>3

\* Who is in a stage that a goroutine does not come to: no more than were.
LEMMA StaysOut ==
  ASSUME NEW w, NEW from, NEW to, Goes(w, from, to)
  PROVE  \A v \in Workers : task'[v].stage \notin to => v # w /\ task'[v] = task[v]
BY DEF Goes

-------------------------------------------------------------------------------
(* The first account                                                       *)

\* The goroutines that found no account and will create the root, and the accounts
\* there are that were created so.
RootMakers == {w \in Workers : task[w].stage = "create" /\ task[w].role = "root"}
FirstIds   == {x \in firsts : \E i \in Rows : users[i].id = x}

RootsInv ==
  /\ \A x \in firsts : x < userNext
  /\ Cardinality(FirstIds) + Cardinality(RootMakers) <= Cardinality(Workers)

LEMMA MakersCount ==
  /\ IsFiniteSet(RootMakers) /\ Cardinality(RootMakers) \in Nat /\ Cardinality(Workers) \in Nat
  /\ Cardinality(RootMakers) <= Cardinality(Workers)
BY WorkersAssumption, FS_Subset, FS_CardinalityType DEF RootMakers

LEMMA FirstsCount ==
  ASSUME Typing, \A x \in firsts : x < userNext
  PROVE  IsFiniteSet(FirstIds) /\ Cardinality(FirstIds) \in Nat
<1>1. FirstIds \in SUBSET Nat /\ userNext \in Nat /\ \A x \in FirstIds : x <= userNext
  <2>1. firsts \in SUBSET Nat /\ userNext \in Nat
    BY DEF Typing, StoresOK, HistoryOK, TableOK
  <2>2. FirstIds \in SUBSET firsts
    BY DEF FirstIds
  <2>3. QED
    BY <2>1, <2>2
<1>2. QED
  BY <1>1, FS_BoundedSetOfNaturals, FS_CardinalityType

\* Steps after which there are no more of either.
LEMMA RootsKept ==
  ASSUME Typing, Typing', RootsInv, \A x \in firsts' : x < userNext',
         FirstIds' \subseteq FirstIds, RootMakers' \subseteq RootMakers
  PROVE  RootsInv'
<1>1. /\ IsFiniteSet(FirstIds) /\ Cardinality(FirstIds) \in Nat /\ IsFiniteSet(RootMakers)
      /\ Cardinality(RootMakers) \in Nat /\ Cardinality(Workers) \in Nat
  BY FirstsCount, MakersCount DEF RootsInv
<1>2. /\ Cardinality(FirstIds') \in Nat /\ Cardinality(FirstIds') <= Cardinality(FirstIds)
      /\ Cardinality(RootMakers') \in Nat /\ Cardinality(RootMakers') <= Cardinality(RootMakers)
  BY <1>1, FS_Subset, FS_CardinalityType
<1>3. QED
  BY <1>1, <1>2 DEF RootsInv

\* Nobody comes to "create", and the accounts that were first are not more.
LEMMA RootsQuiet ==
  ASSUME Typing, Typing', RootsInv, firsts' = firsts, FirstIds' \subseteq FirstIds,
         userNext' \in Nat, userNext' >= userNext,
         \/ UNCHANGED task
         \/ \E w \in Workers : \E from, to : Goes(w, from, to) /\ "create" \notin to
  PROVE  RootsInv'
<1>1. RootMakers' \subseteq RootMakers
  <2>1. CASE UNCHANGED task
    BY <2>1 DEF RootMakers
  <2>2. CASE \E w \in Workers : \E from, to : Goes(w, from, to) /\ "create" \notin to
    <3>1. PICK w \in Workers : \E from, to : Goes(w, from, to) /\ "create" \notin to
      BY <2>2
    <3>2. PICK from, to : Goes(w, from, to) /\ "create" \notin to
      BY <3>1
    <3>3. QED
      BY <3>2, StaysOut DEF RootMakers
  <2>3. QED
    BY <2>1, <2>2
<1>2. \A x \in firsts' : x < userNext'
  BY DEF RootsInv, Typing, TableOK, StoresOK, HistoryOK
<1>3. QED
  BY <1>1, <1>2, RootsKept

LEMMA SameFirsts ==
  ASSUME firsts' = firsts, UNCHANGED users \/ SameRows PROVE FirstIds' \subseteq FirstIds
BY DEF FirstIds, SameRows, Rows

\* A row that another request adds is none of them.
LEMMA AddedFirsts ==
  ASSUME Typing, RootsInv, firsts' = firsts, NEW n \in Names,
         NEW p \in Passwords \union {Nothing}, NEW role \in Roles, AddUser(n, p, role)
  PROVE  FirstIds' \subseteq FirstIds /\ userNext' \in Nat /\ userNext' >= userNext
<1> DEFINE new == Len(users) + 1
<1>1. /\ TableOK' /\ userNext' = userNext + 1 /\ Rows' = Rows \union {new}
      /\ \A i \in Rows : users'[i] = users[i]
      /\ users'[new] = NewUser(n, p, role)
  BY RowAdded DEF Typing, IdsBelow
<1>2. NewUser(n, p, role).id = userNext /\ userNext \in Nat
  BY NewUserFields DEF Typing, TableOK
<1> HIDE DEF new
<1>3. userNext \notin firsts
  BY <1>2 DEF RootsInv
<1>4. FirstIds' \subseteq FirstIds
  BY <1>1, <1>2, <1>3 DEF FirstIds
<1>5. QED
  BY <1>1, <1>2, <1>4

LEMMA RegisterRoots ==
  ASSUME Typing, Typing', RootsInv, NEW w \in Workers, RegisterTraffic(w) PROVE RootsInv'
<1>1. /\ deployment \in Deployments /\ TaskOK /\ TableOK /\ userNext \in Nat
      /\ task[w] \in Task /\ Sound(task[w])
  BY ControlGoes DEF Typing, StoresOK, ClockOK, TableOK
<1>q. userNext >= userNext
  BY <1>1
<1>g. /\ "create" \notin {"idle", "register"} /\ "create" \notin {"idle"}
      /\ "create" \notin {"idle", "count"} /\ "create" \notin {"oauthEmail", "oauthCreate"}
      /\ "create" \notin {"oauthEmail"} /\ "create" \notin {"session"}
      /\ "create" \notin {"idle", "session"}
  OBVIOUS
<1>2. CASE \E id \in 1..serial, right \in BOOLEAN, n \in Clients : RegisterCaptcha(w, id, right, n)
  <2>1. PICK id \in 1..serial, right \in BOOLEAN, n \in Clients : RegisterCaptcha(w, id, right, n)
    BY <1>2
  <2>2. UNCHANGED <<users, userNext, firsts>> /\ Goes(w, {"idle"}, {"idle", "register"})
    BY <1>1, <2>1, RegisterGoes DEF RegisterCaptcha, PassCaptcha
  <2>3. QED
    BY <1>1, <1>q, <1>g, <2>2, SameFirsts, RootsQuiet
<1>3. CASE \E e \in Emails : RegisterSendCode(w, e)
  <2>1. PICK e \in Emails : RegisterSendCode(w, e)
    BY <1>3
  <2>2. UNCHANGED <<users, userNext, firsts>> /\ Goes(w, {"register"}, {"idle"})
    BY <1>1, <2>1, RegisterGoes DEF RegisterSendCode, history
  <2>3. QED
    BY <1>1, <1>q, <1>g, <2>2, SameFirsts, RootsQuiet
<1>4. CASE \E e \in Emails, code \in 1..serial : RegisterTakeCode(w, e, code)
  <2>1. PICK e \in Emails, code \in 1..serial : RegisterTakeCode(w, e, code)
    BY <1>4
  <2>2. UNCHANGED <<users, userNext, firsts>> /\ Goes(w, {"register"}, {"idle", "count"})
    BY <1>1, <2>1, RegisterGoes DEF RegisterTakeCode
  <2>3. QED
    BY <1>1, <1>q, <1>g, <2>2, SameFirsts, RootsQuiet
<1>5. CASE RegisterCount(w) \/ \E n \in Clients : SetupCount(w, n)
  <2>1. /\ UNCHANGED <<users, userNext, firsts>>
        /\ \E from, to : Goes(w, from, to)
        /\ task'[w].stage = "create" /\ task'[w].role = "root" => users = <<>>
    <3>1. CASE RegisterCount(w)
      BY <1>1, <3>1, RegisterGoes DEF RegisterCount, history
    <3>2. CASE \E n \in Clients : SetupCount(w, n)
      <4>1. PICK n \in Clients : SetupCount(w, n)
        BY <3>2
      <4>2. QED
        BY <1>1, <4>1, RegisterGoes DEF SetupCount, history
    <3>3. QED
      BY <1>5, <3>1, <3>2
  <2>2. CASE users = <<>>
    <3>1. FirstIds' = {}
      BY <2>1, <2>2 DEF FirstIds, Rows
    <3>2. Cardinality(FirstIds') = 0 /\ Cardinality(RootMakers') \in Nat
          /\ Cardinality(RootMakers') <= Cardinality(Workers) /\ Cardinality(Workers) \in Nat
      <4>1. RootMakers' \in SUBSET Workers
        BY DEF RootMakers
      <4>2. QED
        BY <3>1, <4>1, WorkersAssumption, FS_Subset, FS_CardinalityType, FS_EmptySet
    <3>3. QED
      BY <2>1, <3>2 DEF RootsInv
  <2>3. CASE users # <<>>
    <3>1. RootMakers' \subseteq RootMakers
      BY <2>1, <2>3 DEF RootMakers, Goes
    <3>2. FirstIds' \subseteq FirstIds
      BY <2>1, SameFirsts
    <3>3. QED
      BY <2>1, <3>1, <3>2, RootsKept DEF RootsInv
  <2>4. QED
    BY <2>2, <2>3
<1>6. CASE \E p \in Passwords : CreateUser(w, p)
  <2>1. PICK p \in Passwords : CreateUser(w, p)
    BY <1>6
  <2>2. Goes(w, {"create"}, {"idle", "session"})
    BY <1>1, <2>1, RegisterGoes
  <2>3. task[w].name \in Names /\ task[w].role \in Roles
    BY <1>1, <2>1, StageNames DEF CreateUser, At, Sound, NamedStages, Task
  <2>4. CASE UNCHANGED <<users, userNext, firsts>>
    BY <1>1, <1>q, <1>g, <2>2, <2>4, SameFirsts, RootsQuiet
  <2>5. CASE AddUser(task[w].name, p, task[w].role) /\ firsts' = firsts
    BY <1>1, <1>g, <2>2, <2>3, <2>5, AddedFirsts, RootsQuiet
  <2>6. CASE /\ AddUser(task[w].name, p, task[w].role) /\ task[w].role = "root"
             /\ firsts' = firsts \union {userNext}
    <3> DEFINE new == Len(users) + 1
               n   == task[w].name
    <3>1. /\ userNext' = userNext + 1 /\ Rows' = Rows \union {new}
          /\ \A i \in Rows : users'[i] = users[i]
          /\ users'[new] = NewUser(n, p, "root")
      BY <2>3, <2>6, RowAdded DEF Typing, IdsBelow
    <3>2. NewUser(n, p, "root").id = userNext
      BY <1>1, <2>3, NewUserFields, Roots
    <3> HIDE DEF new, n
    <3>3. userNext \notin firsts /\ \A x \in firsts : x \in Nat
      BY <1>1 DEF RootsInv, Typing, StoresOK, HistoryOK
    <3>4. FirstIds' \subseteq FirstIds \union {userNext}
      BY <2>6, <3>1, <3>2 DEF FirstIds
    <3>5. RootMakers' \subseteq RootMakers \ {w} /\ w \in RootMakers
      BY <2>1, <2>2, <2>6 DEF RootMakers, Goes, CreateUser, At
    <3>6. /\ IsFiniteSet(FirstIds) /\ Cardinality(FirstIds) \in Nat /\ IsFiniteSet(RootMakers)
          /\ Cardinality(RootMakers) \in Nat /\ Cardinality(Workers) \in Nat
      BY FirstsCount, MakersCount DEF RootsInv
    <3>7. /\ IsFiniteSet(FirstIds \union {userNext})
          /\ Cardinality(FirstIds \union {userNext}) <= Cardinality(FirstIds) + 1
          /\ Cardinality(FirstIds \union {userNext}) \in Nat
      <4>1. IsFiniteSet(FirstIds \union {userNext})
        BY <3>6, FS_AddElement
      <4>2. Cardinality(FirstIds \union {userNext}) \in {Cardinality(FirstIds), Cardinality(FirstIds) + 1}
        BY <3>6, FS_AddElement
      <4>3. QED
        BY <3>6, <4>1, <4>2
    <3>8. /\ IsFiniteSet(RootMakers \ {w}) /\ Cardinality(RootMakers \ {w}) \in Nat
          /\ Cardinality(RootMakers \ {w}) = Cardinality(RootMakers) - 1
      BY <3>5, <3>6, FS_RemoveElement, FS_CardinalityType
    <3>9. /\ Cardinality(FirstIds') <= Cardinality(FirstIds \union {userNext})
          /\ Cardinality(RootMakers') <= Cardinality(RootMakers \ {w})
          /\ Cardinality(FirstIds') \in Nat /\ Cardinality(RootMakers') \in Nat
      BY <3>4, <3>5, <3>7, <3>8, FS_Subset, FS_CardinalityType
    <3>10. \A x \in firsts' : x < userNext'
      BY <1>1, <2>6, <3>1, <3>3 DEF RootsInv
    <3>11. QED
      BY <3>6, <3>7, <3>8, <3>9, <3>10 DEF RootsInv
  <2>7. QED
    BY <2>1, <2>4, <2>5, <2>6 DEF CreateUser
<1>7. CASE \E n \in Clients, e \in Emails \union {Nothing} : OAuthLookup(w, n, e)
  <2>1. PICK n \in Clients, e \in Emails \union {Nothing} : OAuthLookup(w, n, e)
    BY <1>7
  <2>2. UNCHANGED <<users, userNext, firsts>> /\ Goes(w, {"idle"}, {"oauthEmail", "oauthCreate"})
    BY <1>1, <2>1, RegisterGoes DEF OAuthLookup, history
  <2>3. QED
    BY <1>1, <1>q, <1>g, <2>2, SameFirsts, RootsQuiet
<1>8. CASE OAuthCreate(w)
  <2>1. Goes(w, {"oauthCreate"}, {"oauthEmail"}) /\ firsts' = firsts
    BY <1>1, <1>8, RegisterGoes DEF OAuthCreate, history
  <2>2. CASE UNCHANGED <<users, userNext>>
    BY <1>1, <1>q, <1>g, <2>1, <2>2, SameFirsts, RootsQuiet
  <2>3. CASE AddUser(task[w].name, Nothing, "user")
    <3>1. task[w].name \in Names
      BY <1>1, <1>8, StageNames DEF OAuthCreate, At, Sound, NamedStages
    <3>2. QED
      BY <1>1, <1>g, <2>1, <2>3, <3>1, Roots, AddedFirsts, RootsQuiet
  <2>4. QED
    BY <1>8, <2>2, <2>3 DEF OAuthCreate
<1>9. CASE OAuthEmail(w)
  <2>1. Goes(w, {"oauthEmail"}, {"session"}) /\ firsts' = firsts /\ userNext' = userNext
    BY <1>1, <1>9, RegisterGoes DEF OAuthEmail, history
  <2>2. UNCHANGED users \/ SameRows
    <3>1. task[w].email \in Emails \union {Nothing}
      BY <1>1 DEF Task
    <3>2. QED
      BY <1>1, <1>9, <3>1, EditsByName DEF OAuthEmail
  <2>3. QED
    BY <1>1, <1>q, <1>g, <2>1, <2>2, SameFirsts, RootsQuiet
<1>10. QED
  BY <1>2, <1>3, <1>4, <1>5, <1>6, <1>7, <1>8, <1>9 DEF RegisterTraffic

\* The rows after a step of the second factor or of a mailed link: the same ones.
LEMMA FactorRows ==
  ASSUME Typing, NEW w \in Workers, TwoFATraffic(w) PROVE UNCHANGED users \/ SameRows
<1>1. TableOK /\ TaskOK /\ task[w] \in Task /\ serial \in Nat
  BY ControlGoes DEF Typing, StoresOK, SerialOK
<1>2. StoreSecret(w) \/ ClearSecret(w) => SameRows
  BY <1>1, EditsByName DEF StoreSecret, ClearSecret
<1>3. EnableSecret(w) => SameRows
  <2>1. task[w].item \in Nat
    BY <1>1 DEF Task
  <2>2. QED
    BY <1>1, <2>1, EditsByName DEF EnableSecret
<1>4. StoreRecovery(w) => SameRows
  <2>1. {serial} \X (1..RecoveryCodes) \in SUBSET (Nat \X (1..RecoveryCodes))
    BY <1>1
  <2>2. QED
    BY <1>1, <2>1, EditsByName DEF StoreRecovery
<1>5. SpendRecovery(w) => SameRows
  <2>1. task[w].codes \in SUBSET (Nat \X (1..RecoveryCodes))
    BY <1>1 DEF Task
  <2>2. QED
    BY <1>1, <2>1, EditsByName DEF SpendRecovery
<1>6. QED
  BY <1>2, <1>3, <1>4, <1>5 DEF TwoFATraffic, TwoFAEnable, TwoFAConfirm, TwoFADisable, VerifyTOTP,
                                VerifyRecovery

\* The form of a mailed link changes one row or none, and none of its ID, key and codes.
SameFactors ==
  /\ Rows' = Rows
  /\ \A i \in Rows : /\ users'[i].id = users[i].id /\ users'[i].name = users[i].name
                     /\ users'[i].secret = users[i].secret /\ users'[i].twofa = users[i].twofa
                     /\ users'[i].recovery = users[i].recovery

LEMMA MailRows ==
  ASSUME Typing, NEW w \in Workers, MailTraffic(w) PROVE SameFactors
<1>1. TableOK /\ TaskOK /\ task[w] \in Task /\ userNext \in Nat /\ UNCHANGED userNext
  BY ControlGoes, MailFrame DEF Typing, TableOK
<1>2. BindEmail(w) => SameFactors
  <2>1. task[w].email \in Emails \union {Nothing}
    BY <1>1 DEF Task
  <2>2. QED
    BY <1>1, <2>1, EditsByName DEF BindEmail, SameRows, SameFactors
<1>3. UNCHANGED users => SameFactors
  BY DEF SameFactors, Rows
<1>4. ASSUME NEW p \in Passwords, ResetApply(w, p) PROVE SameFactors
  <2> DEFINE form == [name |-> Nothing, role |-> Nothing, password |-> p, enabled |-> FALSE]
  <2>1. CASE \E i \in Rows : UpdateUser(i, form)
    <3>1. PICK i \in Rows : UpdateUser(i, form)
      BY <2>1
    <3>2. /\ form \in [name: Names \union {Nothing}, role: Roles \union {Nothing},
                       enabled: BOOLEAN, password: Passwords \union {Nothing}]
          /\ form.name = Nothing
      OBVIOUS
    <3> HIDE DEF form
    <3>3. NameIsFree(i, form.name) /\ userNext' \in Nat
      BY <1>1, <3>2 DEF NameIsFree
    <3>4. /\ Rows' = Rows /\ \A j \in Rows \ {i} : users'[j] = users[j]
          /\ users'[i].id = users[i].id /\ users'[i].secret = users[i].secret
          /\ users'[i].twofa = users[i].twofa /\ users'[i].recovery = users[i].recovery
          /\ users'[i].name = users[i].name
      BY <1>1, <3>1, <3>2, <3>3, FormApplied
    <3>5. QED
      BY <3>4 DEF SameFactors
  <2>2. QED
    BY <1>3, <1>4, <2>1 DEF ResetApply
<1>5. QED
  BY <1>2, <1>3, <1>4 DEF MailTraffic, EmailTakeCode, ResetFindAddress, ResetSendLink, ResetFind,
                          ResetTakeToken

LEMMA AdminRoots ==
  ASSUME Typing, Typing', RootsInv, NEW w \in Workers, AdminTraffic(w) PROVE RootsInv'
<1>1. /\ Goes(w, AdminStages, AdminStages) /\ "create" \notin AdminStages /\ firsts' = firsts
      /\ TableOK /\ userNext \in Nat
  BY AdminFrame DEF AdminStages, Typing, TableOK
<1>q. userNext >= userNext
  BY <1>1
<1>2. CASE UNCHANGED <<users, userNext>>
  BY <1>1, <1>q, <1>2, SameFirsts, RootsQuiet
<1>3. CASE \E i \in Rows : AdminDelete(w, i)
  <2>1. PICK i \in Rows : AdminDelete(w, i)
    BY <1>3
  <2>2. UNCHANGED userNext /\ \A j \in Rows' : \E k \in Rows \ {i} : users'[j] = users[k]
    BY <1>1, <2>1, RowRemoved DEF AdminDelete
  <2>3. FirstIds' \subseteq FirstIds
    BY <1>1, <2>2 DEF FirstIds
  <2>4. QED
    BY <1>1, <1>q, <2>2, <2>3, RootsQuiet
<1>4. CASE \E form \in Patches : AdminCreate(w, form)
  <2>1. PICK form \in Patches : AdminCreate(w, form)
    BY <1>4
  <2> DEFINE role == IF form.role = Nothing THEN "user" ELSE form.role
  <2>2. form.name \in Names /\ form.password \in Passwords /\ role \in Roles
    BY <2>1, PatchAssumption, Roots DEF AdminCreate
  <2>3. AddUser(form.name, form.password, role)
    BY <2>1 DEF AdminCreate
  <2> HIDE DEF role
  <2>4. FirstIds' \subseteq FirstIds /\ userNext' \in Nat /\ userNext' >= userNext
    BY <1>1, <2>2, <2>3, AddedFirsts
  <2>5. QED
    BY <1>1, <2>4, RootsQuiet
<1>5. CASE \E form \in Patches : \E i \in Rows : AdminUpdate(w, i, form)
  <2>1. PICK form \in Patches, i \in Rows : AdminUpdate(w, i, form)
    BY <1>5
  <2>2. form \in [name: Names \union {Nothing}, role: Roles \union {Nothing},
                 enabled: BOOLEAN, password: Passwords \union {Nothing}]
    BY PatchAssumption
  <2>3. UNCHANGED userNext /\ Rows' = Rows /\ \A j \in Rows : users'[j].id = users[j].id
    BY <1>1, <2>1, <2>2, FormApplied DEF AdminUpdate
  <2>4. FirstIds' \subseteq FirstIds
    BY <1>1, <2>3 DEF FirstIds
  <2>5. QED
    BY <1>1, <1>q, <2>3, <2>4, RootsQuiet
<1>6. QED
  BY <1>2, <1>3, <1>4, <1>5 DEF AdminTraffic, AdminCheck, AdminReset2FA

LEMMA GlobalRoots == ASSUME Typing, Typing', RootsInv, Crash PROVE RootsInv'
<1>1. /\ users' = users /\ firsts' = firsts \intersect {users[i].id : i \in Rows}
      /\ task' = [w \in Workers |-> Idle]
  BY DEF Crash
<1>2. FirstIds' \subseteq FirstIds
  BY <1>1 DEF FirstIds, Rows
<1>3. RootMakers' \subseteq RootMakers
  BY <1>1, IdleTask DEF RootMakers
<1>4. \A x \in firsts' : x < userNext'
  BY <1>1 DEF Typing, IdsBelow, Rows
<1>5. QED
  BY <1>2, <1>3, <1>4, RootsKept

LEMMA RootsStep == Typing /\ Typing' /\ RootsInv /\ [Next]_vars => RootsInv'
<1>1. SUFFICES ASSUME Typing, Typing', RootsInv, [Next]_vars PROVE RootsInv'
  OBVIOUS
<1>2. userNext \in Nat /\ userNext >= userNext
  BY <1>1 DEF Typing, TableOK
<1>3. CASE \E w \in Workers : SessionTraffic(w)
  <2>1. PICK w \in Workers : SessionTraffic(w)
    BY <1>3
  <2>2. Goes(w, SessionStages, SessionStages) /\ UNCHANGED <<users, userNext, firsts>>
    BY <1>1, <2>1, SessionFrame
  <2>3. "create" \notin SessionStages
    BY DEF SessionStages
  <2>4. QED
    BY <1>1, <1>2, <2>2, <2>3, SameFirsts, RootsQuiet
<1>4. CASE \E w \in Workers : RegisterTraffic(w)
  BY <1>1, <1>4, RegisterRoots
<1>5. CASE \E w \in Workers : TwoFATraffic(w)
  <2>1. PICK w \in Workers : TwoFATraffic(w)
    BY <1>5
  <2>2. Goes(w, FactorStages, FactorStages) /\ UNCHANGED <<userNext, firsts>>
    BY <1>1, <2>1, FactorFrame
  <2>3. "create" \notin FactorStages
    BY DEF FactorStages
  <2>4. QED
    BY <1>1, <1>2, <2>1, <2>2, <2>3, FactorRows, SameFirsts, RootsQuiet
<1>6. CASE \E w \in Workers : MailTraffic(w)
  <2>1. PICK w \in Workers : MailTraffic(w)
    BY <1>6
  <2>2. Goes(w, MailStages, MailStages) /\ UNCHANGED <<userNext, firsts>>
    BY <1>1, <2>1, MailFrame
  <2>3. "create" \notin MailStages
    BY DEF MailStages
  <2>4. FirstIds' \subseteq FirstIds
    BY <1>1, <2>1, <2>2, MailRows DEF SameFactors, FirstIds
  <2>5. QED
    BY <1>1, <1>2, <2>2, <2>3, <2>4, RootsQuiet
<1>7. CASE \E w \in Workers : AdminTraffic(w)
  BY <1>1, <1>7, AdminRoots
<1>8. CASE Crash
  BY <1>1, <1>8, GlobalRoots
<1>9. CASE \/ CaptchaHandler \/ \E n \in Clients, e \in Emails : EmailSendCode(n, e)
           \/ \E s \in sessions : DeleteSession(s)
           \/ Tick \/ UNCHANGED vars
  <2>1. UNCHANGED <<users, userNext, firsts, task>>
    BY <1>9 DEF CaptchaHandler, EmailSendCode, DeleteSession, Tick, vars, history
  <2>2. QED
    BY <1>1, <1>2, <2>1, SameFirsts, RootsQuiet
<1>10. QED
  BY <1>1, <1>3, <1>4, <1>5, <1>6, <1>7, <1>8, <1>9 DEF Next

LEMMA RootsStart == Init /\ Typing => RootsInv
<1>1. SUFFICES ASSUME Init, Typing PROVE RootsInv
  OBVIOUS
<1>2. FirstIds = {} /\ firsts = {}
  BY <1>1 DEF Init, FirstIds
<1>3. QED
  BY <1>2, MakersCount, FS_EmptySet DEF RootsInv

\* RegisterHandler and SetupHandler count the accounts and create one later: no more
\* accounts become root without an administrator than there are goroutines.
THEOREM FirstRoots == Spec => []FirstRootsBounded
<1>1. Typing /\ RootsInv => FirstRootsBounded
  <2>1. SUFFICES ASSUME Typing, RootsInv PROVE FirstRootsBounded
    OBVIOUS
  <2> DEFINE R == {i \in Rows : users[i].role = "root" /\ users[i].id \in firsts}
             f == [i \in R |-> users[i].id]
  <2>2. IsFiniteSet(FirstIds) /\ Cardinality(FirstIds) \in Nat
    BY <2>1, FirstsCount DEF RootsInv
  <2>3. f \in Injection(R, FirstIds)
    <3>1. f \in [R -> FirstIds]
      BY DEF FirstIds
    <3>2. \A i, j \in R : i # j => f[i] # f[j]
      BY <2>1 DEF Typing, TableOK, Unique
    <3>3. QED
      BY <3>1, <3>2 DEF Injection, IsInjective
  <2> HIDE DEF f
  <2>4. IsFiniteSet(R) /\ Cardinality(R) <= Cardinality(FirstIds) /\ Cardinality(R) \in Nat
    BY <2>2, <2>3, FS_Injection, FS_CardinalityType
  <2> HIDE DEF R
  <2>5. Cardinality(R) <= Cardinality(Workers)
    BY <2>1, <2>2, <2>4, MakersCount DEF RootsInv
  <2>6. QED
    BY <2>5 DEF R, FirstRootsBounded
<1>2. Spec => []RootsInv
  BY StartTypes, RootsStart, RootsStep, TypingHolds, PTL DEF Spec
<1>3. QED
  BY <1>1, <1>2, TypingHolds, PTL

-------------------------------------------------------------------------------
(* The second factor                                                       *)

\* Every row has the key and the codes of an old one, with its name unless that was
\* given to it now, or it is new.
Carried ==
  \A j \in Rows' :
    \/ ~users'[j].twofa /\ users'[j].recovery = {}
    \/ \E k \in Rows : /\ users'[j].secret = users[k].secret /\ users'[j].twofa = users[k].twofa
                      /\ users'[j].recovery = users[k].recovery
                      /\ users'[j].name \in {users[k].name} \union renamed'

LEMMA UsersCarried == UNCHANGED users => Carried
BY DEF Carried, Rows

LEMMA SameCarried == SameFactors => Carried
BY DEF SameFactors, Carried

LEMMA AddedCarried ==
  ASSUME Typing, NEW n \in Names, NEW p \in Passwords \union {Nothing}, NEW role \in Roles,
         AddUser(n, p, role)
  PROVE  Carried
<1> DEFINE new == Len(users) + 1
<1>1. /\ Rows' = Rows \union {new} /\ \A i \in Rows : users'[i] = users[i]
      /\ users'[new] = NewUser(n, p, role)
  BY RowAdded DEF Typing, IdsBelow
<1>2. ~NewUser(n, p, role).twofa /\ NewUser(n, p, role).recovery = {}
  BY NewUserFields DEF Typing, TableOK
<1> HIDE DEF new
<1>3. QED
  BY <1>1, <1>2 DEF Carried

LEMMA RegisterCarried == ASSUME Typing, NEW w \in Workers, RegisterTraffic(w) PROVE Carried
<1>1. TaskOK /\ TableOK /\ task[w] \in Task /\ Sound(task[w])
  BY ControlGoes DEF Typing
<1>2. ASSUME NEW p \in Passwords, CreateUser(w, p) PROVE Carried
  <2>1. task[w].name \in Names /\ task[w].role \in Roles
    BY <1>1, <1>2, StageNames DEF CreateUser, At, Sound, NamedStages, Task
  <2>2. QED
    BY <1>2, <2>1, AddedCarried, UsersCarried DEF CreateUser
<1>3. ASSUME OAuthCreate(w) PROVE Carried
  <2>1. task[w].name \in Names
    BY <1>1, <1>3, StageNames DEF OAuthCreate, At, Sound, NamedStages
  <2>2. QED
    BY <1>3, <2>1, Roots, AddedCarried, UsersCarried DEF OAuthCreate
<1>4. ASSUME OAuthEmail(w) PROVE Carried
  <2>1. task[w].email \in Emails \union {Nothing}
    BY <1>1 DEF Task
  <2>2. UNCHANGED users \/ SameFactors
    BY <1>1, <1>4, <2>1, EditsByName DEF OAuthEmail, SameRows, SameFactors
  <2>3. QED
    BY <2>2, UsersCarried, SameCarried
<1>5. QED
  BY <1>2, <1>3, <1>4, UsersCarried
     DEF RegisterTraffic, RegisterCaptcha, PassCaptcha, RegisterSendCode, RegisterTakeCode,
         RegisterCount, SetupCount, OAuthLookup

LEMMA AdminCarried == ASSUME Typing, NEW w \in Workers, AdminTraffic(w) PROVE Carried
<1>1. TableOK /\ userNext \in Nat
  BY DEF Typing, TableOK
<1>2. ASSUME NEW i \in Rows, AdminDelete(w, i) PROVE Carried
  <2>1. \A j \in Rows' : \E k \in Rows \ {i} : users'[j] = users[k]
    BY <1>1, <1>2, RowRemoved DEF AdminDelete
  <2>2. QED
    BY <2>1 DEF Carried
<1>3. ASSUME NEW form \in Patches, AdminCreate(w, form) PROVE Carried
  <2> DEFINE role == IF form.role = Nothing THEN "user" ELSE form.role
  <2>1. form.name \in Names /\ form.password \in Passwords /\ role \in Roles
    BY <1>3, PatchAssumption, Roots DEF AdminCreate
  <2>2. AddUser(form.name, form.password, role)
    BY <1>3 DEF AdminCreate
  <2> HIDE DEF role
  <2>3. QED
    BY <2>1, <2>2, AddedCarried
<1>4. ASSUME NEW form \in Patches, NEW i \in Rows, AdminUpdate(w, i, form) PROVE Carried
  <2>1. form \in [name: Names \union {Nothing}, role: Roles \union {Nothing},
                 enabled: BOOLEAN, password: Passwords \union {Nothing}]
    BY PatchAssumption
  <2>2. /\ Rows' = Rows /\ \A j \in Rows \ {i} : users'[j] = users[j]
        /\ users'[i].secret = users[i].secret /\ users'[i].twofa = users[i].twofa
        /\ users'[i].recovery = users[i].recovery
        /\ users'[i].name = IF form.name = Nothing THEN users[i].name ELSE form.name
    BY <1>1, <1>4, <2>1, FormApplied DEF AdminUpdate
  <2>3. renamed' = renamed \union ({form.name} \ {Nothing, users[i].name})
    BY <1>4 DEF AdminUpdate
  <2>4. users'[i].name \in {users[i].name} \union renamed'
    BY <2>2, <2>3
  <2>5. QED
    BY <2>2, <2>4 DEF Carried
<1>5. QED
  BY <1>2, <1>3, <1>4, UsersCarried DEF AdminTraffic, AdminCheck, AdminReset2FA

\* Only a step of the second factor changes the key or the codes of an account.
LEMMA RowsCarried == ASSUME Typing, [Next]_vars PROVE Carried \/ \E w \in Workers : TwoFATraffic(w)
<1>1. ASSUME NEW w \in Workers, SessionTraffic(w) \/ MailTraffic(w) PROVE Carried
  BY <1>1, SessionFrame, MailRows, UsersCarried, SameCarried
<1>2. CaptchaHandler \/ Tick \/ Crash \/ UNCHANGED vars => Carried
  BY UsersCarried DEF CaptchaHandler, Tick, Crash, vars
<1>3. ASSUME \/ \E n \in Clients, e \in Emails : EmailSendCode(n, e)
             \/ \E s \in sessions : DeleteSession(s)
      PROVE  Carried
  BY <1>3, UsersCarried DEF EmailSendCode, DeleteSession
<1>4. QED
  BY <1>1, <1>2, <1>3, RegisterCarried, AdminCarried DEF Next

\* A key that is required was proved, and so was one that is about to be.
SecretsInv ==
  /\ EnabledSecretWasProved
  /\ \A w \in Workers : task[w].stage = "confirm" => task[w].item \in proved \ {0}

LEMMA SecretsQuiet ==
  ASSUME SecretsInv, Carried, proved' = proved,
         \/ UNCHANGED task
         \/ task' = [w \in Workers |-> Idle]
         \/ \E w \in Workers : \E from, to : Goes(w, from, to) /\ "confirm" \notin to
  PROVE  SecretsInv'
<1>1. EnabledSecretWasProved'
  BY DEF SecretsInv, Carried, EnabledSecretWasProved
<1>2. \A w \in Workers : task'[w].stage = "confirm" => task'[w] = task[w]
  <2>1. CASE UNCHANGED task
    BY <2>1
  <2>2. CASE task' = [w \in Workers |-> Idle]
    BY <2>2, IdleTask
  <2>3. CASE \E w \in Workers : \E from, to : Goes(w, from, to) /\ "confirm" \notin to
    <3>1. PICK w \in Workers : \E from, to : Goes(w, from, to) /\ "confirm" \notin to
      BY <2>3
    <3>2. PICK from, to : Goes(w, from, to) /\ "confirm" \notin to
      BY <3>1
    <3>3. QED
      BY <3>2, StaysOut
  <2>4. QED
    BY <2>1, <2>2, <2>3
<1>3. QED
  BY <1>1, <1>2 DEF SecretsInv

LEMMA FactorSecrets ==
  ASSUME Typing, SecretsInv, NEW w \in Workers, TwoFATraffic(w) PROVE SecretsInv'
<1>1. /\ deployment \in Deployments /\ TaskOK /\ TableOK /\ task[w] \in Task
      /\ serial \in Nat /\ proved \subseteq Nat
  BY ControlGoes DEF Typing, StoresOK, ClockOK, SerialOK, HistoryOK
<1>2. ASSUME NEW n \in Clients, TwoFAConfirm(w, n) PROVE SecretsInv'
  <2>1. /\ Goes(w, {"idle"}, {"confirm"}) /\ task'[w].item = Secret(n) /\ Secret(n) \in Nat \ {0}
        /\ users' = users /\ proved' = proved \union {Secret(n)}
    BY <1>1, <1>2, FactorGoes DEF TwoFAConfirm
  <2>2. EnabledSecretWasProved'
    BY <2>1 DEF SecretsInv, EnabledSecretWasProved, Rows
  <2>3. QED
    BY <2>1, <2>2 DEF SecretsInv, Goes
<1>3. ASSUME EnableSecret(w) PROVE SecretsInv'
  <2>1. /\ Goes(w, {"confirm"}, {"recovery"}) /\ task[w].stage = "confirm"
        /\ SetUser2FA(task[w].name, task[w].item, TRUE) /\ proved' = proved
    BY <1>1, <1>3, FactorGoes DEF EnableSecret, At, history
  <2>2. task[w].item \in Nat /\ task[w].item \in proved \ {0}
    BY <1>1, <2>1 DEF Task, SecretsInv
  <2>3. /\ SameRows
        /\ \A i \in Rows : \/ users'[i].secret = task[w].item
                           \/ users'[i] = users[i]
    BY <1>1, <2>1, <2>2, EditsByName
  <2>4. EnabledSecretWasProved'
    BY <2>1, <2>2, <2>3 DEF SameRows, SecretsInv, EnabledSecretWasProved
  <2>5. QED
    BY <2>1, <2>4 DEF SecretsInv, Goes
<1>4. ASSUME StoreSecret(w) \/ ClearSecret(w) PROVE SecretsInv'
  <2>1. /\ \E from : Goes(w, from, {"idle"}) /\ proved' = proved
        /\ \E secret \in Nat : SetUser2FA(task[w].name, secret, FALSE)
    BY <1>1, <1>4, FactorGoes DEF StoreSecret, ClearSecret, history
  <2>2. SameRows /\ \A i \in Rows : ~users'[i].twofa \/ users'[i] = users[i]
    BY <1>1, <2>1, EditsByName
  <2>3. EnabledSecretWasProved'
    BY <2>1, <2>2 DEF SameRows, SecretsInv, EnabledSecretWasProved
  <2>4. QED
    BY <2>1, <2>3 DEF SecretsInv, Goes
<1>5. ASSUME StoreRecovery(w) \/ SpendRecovery(w) PROVE SecretsInv'
  <2>1. /\ \E from, to : Goes(w, from, to) /\ "confirm" \notin to
        /\ proved' = proved
        /\ \E codes \in SUBSET (Nat \X (1..RecoveryCodes)) : SetUserRecovery(task[w].name, codes)
    <3>1. {serial} \X (1..RecoveryCodes) \in SUBSET (Nat \X (1..RecoveryCodes))
      BY <1>1
    <3>2. task[w].codes \in SUBSET (Nat \X (1..RecoveryCodes))
      BY <1>1 DEF Task
    <3>3. "confirm" \notin {"idle"} /\ "confirm" \notin {"session"}
      OBVIOUS
    <3>4. (StoreRecovery(w) => Goes(w, {"recovery"}, {"idle"}))
          /\ (SpendRecovery(w) => Goes(w, {"spend"}, {"session"}))
      BY <1>1, FactorGoes
    <3>5. QED
      BY <1>5, <3>1, <3>2, <3>3, <3>4 DEF StoreRecovery, SpendRecovery, history
  <2>2. SameRows /\ \A i \in Rows : users'[i].secret = users[i].secret /\ users'[i].twofa = users[i].twofa
    BY <1>1, <2>1, EditsByName
  <2>3. EnabledSecretWasProved'
    BY <2>1, <2>2 DEF SameRows, SecretsInv, EnabledSecretWasProved
  <2>4. QED
    BY <2>1, <2>3, StaysOut DEF SecretsInv
<1>6. ASSUME \/ \E n \in Clients : TwoFAEnable(w, n) \/ TwoFADisable(w, n) \/ VerifyTOTP(w, n)
             \/ \E i \in Rows : \E code \in users[i].recovery : VerifyRecovery(w, users[i].name, code)
      PROVE  SecretsInv'
  <2>1. /\ \E from, to : Goes(w, from, to) /\ "confirm" \notin to
        /\ proved' = proved /\ users' = users
    <3>1. /\ "confirm" \notin {"enable"} /\ "confirm" \notin {"session"}
          /\ "confirm" \notin {"disable"} /\ "confirm" \notin {"spend"}
      OBVIOUS
    <3>2. proved' = proved /\ users' = users
      BY <1>6 DEF TwoFAEnable, TwoFADisable, VerifyTOTP, VerifyRecovery, history
    <3>3. QED
      BY <1>1, <1>6, <3>1, <3>2, FactorGoes
  <2>2. QED
    BY <2>1, UsersCarried, SecretsQuiet
<1>7. QED
  BY <1>2, <1>3, <1>4, <1>5, <1>6 DEF TwoFATraffic

LEMMA SecretsStep == Typing /\ SecretsInv /\ [Next]_vars => SecretsInv'
<1>1. SUFFICES ASSUME Typing, SecretsInv, [Next]_vars, ~\E w \in Workers : TwoFATraffic(w)
               PROVE  SecretsInv'
  BY FactorSecrets
<1>2. Carried
  BY <1>1, RowsCarried
<1>3. ASSUME NEW w \in Workers,
             SessionTraffic(w) \/ RegisterTraffic(w) \/ MailTraffic(w) \/ AdminTraffic(w)
      PROVE  SecretsInv'
  <2>1. /\ "confirm" \notin SessionStages /\ "confirm" \notin RegisterStages
        /\ "confirm" \notin MailStages /\ "confirm" \notin AdminStages
    BY DEF SessionStages, RegisterStages, MailStages, AdminStages
  <2>2. proved' = proved /\ \E from, to : Goes(w, from, to) /\ "confirm" \notin to
    BY <1>1, <1>3, <2>1, SessionFrame, RegisterFrame, MailFrame, AdminFrame
  <2>3. QED
    BY <1>1, <1>2, <2>2, SecretsQuiet
<1>4. CASE Crash
  BY <1>1, <1>2, <1>4, SecretsQuiet DEF Crash
<1>5. CASE \/ CaptchaHandler \/ \E n \in Clients, e \in Emails : EmailSendCode(n, e)
           \/ \E s \in sessions : DeleteSession(s)
           \/ Tick \/ UNCHANGED vars
  <2>1. UNCHANGED <<proved, task>>
    BY <1>5 DEF CaptchaHandler, EmailSendCode, DeleteSession, Tick, vars, history
  <2>2. QED
    BY <1>1, <1>2, <2>1, SecretsQuiet
<1>6. QED
  BY <1>1, <1>3, <1>4, <1>5 DEF Next

\* Whatever Enable, Confirm, Disable and the administrator do in between, a key that is
\* required at login is one a right code was shown for (handler/feat_2fa.go).
THEOREM SecretsProved == Spec => []EnabledSecretWasProved
<1>1. Init /\ Typing => SecretsInv
  <2>1. SUFFICES ASSUME Init, Typing PROVE SecretsInv
    OBVIOUS
  <2>2. \A i \in Rows : users[i].twofa => users[i].secret # 0
    BY <2>1, DeploymentAssumption DEF Init, Rows
  <2>3. QED
    BY <2>1, <2>2, IdleTask DEF Init, SecretsInv, EnabledSecretWasProved
<1>2. Spec => []SecretsInv
  BY <1>1, StartTypes, SecretsStep, TypingHolds, PTL DEF Spec
<1>3. SecretsInv => EnabledSecretWasProved
  BY DEF SecretsInv
<1>4. QED
  BY <1>2, <1>3, PTL

-------------------------------------------------------------------------------
(* What is handed out                                                      *)

Tickets == {"captcha", "regCode", "emailCode", "resetToken"}

Fresh(kind, n) == n < serial /\ <<kind, n>> \notin DOMAIN redeemed
FreshNext(kind, n) == n < serial' /\ <<kind, n>> \notin DOMAIN redeemed'

\* What can still be shown was not accepted yet, and nothing else bears its number.
RedeemedOnce ==
  /\ DOMAIN redeemed \subseteq Tickets \X (0 .. (serial - 1))
  /\ \A t \in DOMAIN redeemed : redeemed[t] = 1

CaptchasFresh == \A e \in captchas : Fresh("captcha", e.id)
RegCodesFresh ==
  /\ \A a \in DOMAIN regCodes : Fresh("regCode", regCodes[a].code)
  /\ \A a, b \in DOMAIN regCodes : a # b => regCodes[a].code # regCodes[b].code
EmailCodesFresh ==
  /\ \A e \in emailCodes : Fresh("emailCode", e.code)
  /\ \A d, e \in emailCodes : d.code = e.code => d = e
TokensFresh == \A e \in resetTokens : Fresh("resetToken", e.token)

TicketsInv == RedeemedOnce /\ CaptchasFresh /\ RegCodesFresh /\ EmailCodesFresh /\ TokensFresh

\* The entries of a store are old ones, or the one that was made now.
NewCaptcha  == \A e \in captchas' : e \in captchas \/ (e.id = serial /\ serial' = serial + 1)
NewRegCode  ==
  \E x : \A a \in DOMAIN regCodes' :
    \/ a \in DOMAIN regCodes /\ regCodes'[a] = regCodes[a]
    \/ a = x /\ regCodes'[a].code = serial /\ serial' = serial + 1
NewMailCode ==
  \E m : \A e \in emailCodes' :
    e \in emailCodes \/ (e = m /\ e.code = serial /\ serial' = serial + 1)
NewToken    == \A e \in resetTokens' : e \in resetTokens \/ (e.token = serial /\ serial' = serial + 1)

Fewer ==
  /\ captchas' \subseteq captchas /\ emailCodes' \subseteq emailCodes
  /\ resetTokens' \subseteq resetTokens
  /\ \A a \in DOMAIN regCodes' : a \in DOMAIN regCodes /\ regCodes'[a] = regCodes[a]

LEMMA NumbersAre ==
  ASSUME Typing
  PROVE  /\ serial \in Nat /\ now \in Nat /\ \A e \in captchas : e.id \in Nat /\ e.exp \in Nat
         /\ \A a \in DOMAIN regCodes : regCodes[a].code \in Nat
         /\ \A e \in emailCodes : e.code \in Nat
         /\ \A e \in resetTokens : e.token \in Nat
<1>1. StoresOK /\ CaptchasOK /\ CodesOK /\ serial \in Nat
  BY DEF Typing, StoresOK, SerialOK
<1>2. now \in Nat
  BY <1>1, FailureTypes
<1>3. \A a \in DOMAIN regCodes : regCodes[a] \in [code: Nat, exp: Nat]
  BY <1>1 DEF CodesOK, Range
<1>4. QED
  BY <1>1, <1>2, <1>3 DEF CaptchasOK, CodesOK

LEMMA StaysFresh ==
  ASSUME Typing, redeemed' = redeemed, serial' \in {serial, serial + 1}
  PROVE  \A kind : \A n \in Nat : Fresh(kind, n) => FreshNext(kind, n)
<1>1. serial \in Nat /\ serial' \in Nat /\ serial' >= serial
  BY NumbersAre
<1>2. QED
  BY <1>1 DEF Fresh, FreshNext

LEMMA NewIsFresh ==
  ASSUME Typing, RedeemedOnce, redeemed' = redeemed, serial' = serial + 1
  PROVE  \A kind : FreshNext(kind, serial)
<1>1. serial \in Nat /\ serial < serial'
  BY NumbersAre
<1>2. \A kind : <<kind, serial>> \notin Tickets \X (0 .. (serial - 1))
  BY <1>1
<1>3. QED
  BY <1>1, <1>2 DEF FreshNext, RedeemedOnce

\* Nothing is accepted; at most one entry is new in each store.
LEMMA Issued ==
  ASSUME Typing, TicketsInv, redeemed' = redeemed, serial' \in {serial, serial + 1},
         NewCaptcha, NewRegCode, NewMailCode, NewToken
  PROVE  TicketsInv'
<1>1. RedeemedOnce'
  BY NumbersAre DEF TicketsInv, RedeemedOnce
<1>2. CaptchasFresh'
  BY NumbersAre, StaysFresh, NewIsFresh DEF TicketsInv, CaptchasFresh, NewCaptcha, Fresh, FreshNext
<1>3. TokensFresh'
  BY NumbersAre, StaysFresh, NewIsFresh DEF TicketsInv, TokensFresh, NewToken, Fresh, FreshNext
<1>4. RegCodesFresh'
  <2>1. PICK x : \A a \in DOMAIN regCodes' :
                   \/ a \in DOMAIN regCodes /\ regCodes'[a] = regCodes[a]
                   \/ a = x /\ regCodes'[a].code = serial /\ serial' = serial + 1
    BY DEF NewRegCode
  <2>2. \A a \in DOMAIN regCodes : regCodes[a].code \in Nat /\ Fresh("regCode", regCodes[a].code)
    BY NumbersAre DEF TicketsInv, RegCodesFresh
  <2>3. \A a \in DOMAIN regCodes' : FreshNext("regCode", regCodes'[a].code)
    BY <2>1, <2>2, StaysFresh, NewIsFresh DEF TicketsInv
  <2>4. \A a \in DOMAIN regCodes : regCodes[a].code # serial
    <3>1. serial \in Nat
      BY NumbersAre
    <3>2. \A n \in Nat : n < serial => n # serial
      BY <3>1
    <3>3. QED
      BY <2>2, <3>2 DEF Fresh
  <2>5. \A a, b \in DOMAIN regCodes' : a # b => regCodes'[a].code # regCodes'[b].code
    BY <2>1, <2>4 DEF TicketsInv, RegCodesFresh
  <2>6. QED
    BY <2>3, <2>5 DEF RegCodesFresh, Fresh, FreshNext
<1>5. EmailCodesFresh'
  <2>1. PICK m : \A e \in emailCodes' :
                   e \in emailCodes \/ (e = m /\ e.code = serial /\ serial' = serial + 1)
    BY DEF NewMailCode
  <2>2. \A e \in emailCodes : e.code \in Nat /\ Fresh("emailCode", e.code)
    BY NumbersAre DEF TicketsInv, EmailCodesFresh
  <2>3. \A e \in emailCodes' : FreshNext("emailCode", e.code)
    BY <2>1, <2>2, StaysFresh, NewIsFresh DEF TicketsInv
  <2>4. \A e \in emailCodes : e.code # serial
    <3>1. serial \in Nat
      BY NumbersAre
    <3>2. \A n \in Nat : n < serial => n # serial
      BY <3>1
    <3>3. QED
      BY <2>2, <3>2 DEF Fresh
  <2>5. \A d, e \in emailCodes' : d.code = e.code => d = e
    BY <2>1, <2>4 DEF TicketsInv, EmailCodesFresh
  <2>6. QED
    BY <2>3, <2>5 DEF EmailCodesFresh, Fresh, FreshNext
<1>6. QED
  BY <1>1, <1>2, <1>3, <1>4, <1>5 DEF TicketsInv

LEMMA FewerIssued == ASSUME Fewer PROVE NewCaptcha /\ NewRegCode /\ NewMailCode /\ NewToken
BY DEF Fewer, NewCaptcha, NewRegCode, NewMailCode, NewToken

LEMMA SameTickets ==
  ASSUME Typing, TicketsInv, redeemed' = redeemed, serial' \in {serial, serial + 1},
         UNCHANGED <<captchas, regCodes, emailCodes, resetTokens>>
  PROVE  TicketsInv'
<1>1. Fewer
  BY DEF Fewer
<1>2. QED
  BY <1>1, FewerIssued, Issued

\* A fresh ticket is accepted, and its store has it no longer.
LEMMA Redeemed ==
  ASSUME Typing, TicketsInv, NEW kind \in Tickets, NEW n \in Nat, Fresh(kind, n),
         Accept(<<kind, n>>), serial' = serial, Fewer,
         kind = "captcha" => \A e \in captchas' : e.id # n,
         kind = "regCode" => \A a \in DOMAIN regCodes' : regCodes'[a].code # n,
         kind = "emailCode" => \A e \in emailCodes' : e.code # n,
         kind = "resetToken" => \A e \in resetTokens' : e.token # n
  PROVE  TicketsInv'
<1> DEFINE ticket == <<kind, n>>
<1>1. /\ DOMAIN redeemed' = DOMAIN redeemed \union {ticket} /\ redeemed'[ticket] = 1
      /\ \A t \in DOMAIN redeemed : redeemed'[t] = redeemed[t]
  <2>1. ticket \notin DOMAIN redeemed /\ Range(redeemed) \subseteq Nat
    BY DEF Fresh, Typing, StoresOK, HistoryOK
  <2>2. redeemed' = OneMore(redeemed, ticket)
    BY DEF Accept
  <2> HIDE DEF ticket
  <2>3. Counted(redeemed, ticket) = 0
    BY <2>1 DEF Counted
  <2>4. /\ DOMAIN redeemed' = DOMAIN redeemed \union {ticket}
        /\ redeemed'[ticket] = Counted(redeemed, ticket) + 1
        /\ \A t \in DOMAIN redeemed : t # ticket => redeemed'[t] = redeemed[t]
    <3>1. Range(redeemed) \subseteq Nat
      BY <2>1
    <3>2. /\ DOMAIN OneMore(redeemed, ticket) = DOMAIN redeemed \union {ticket}
          /\ OneMore(redeemed, ticket)[ticket] = Counted(redeemed, ticket) + 1
          /\ \A t \in DOMAIN redeemed : t # ticket => OneMore(redeemed, ticket)[t] = redeemed[t]
      <4>1. DOMAIN OneMore(redeemed, ticket) = DOMAIN redeemed \union {ticket}
        BY <3>1, OneMoreType
      <4>2. OneMore(redeemed, ticket)[ticket] = Counted(redeemed, ticket) + 1
        BY <3>1, OneMoreType
      <4>3. \A t \in DOMAIN redeemed : t # ticket => OneMore(redeemed, ticket)[t] = redeemed[t]
        BY OneMoreKeeps
      <4>4. QED
        BY <4>1, <4>2, <4>3
    <3>3. QED
      BY <2>2, <3>2
  <2>5. QED
    BY <2>1, <2>3, <2>4
<1>2. RedeemedOnce'
  <2>1. ticket \in Tickets \X (0 .. (serial - 1))
    BY NumbersAre DEF Fresh
  <2> HIDE DEF ticket
  <2>2. QED
    BY <1>1, <2>1 DEF TicketsInv, RedeemedOnce
<1>3. \A k, m : Fresh(k, m) /\ (k # kind \/ m # n) => FreshNext(k, m)
  BY <1>1 DEF Fresh, FreshNext
<1>4. CaptchasFresh'
  BY <1>3 DEF TicketsInv, CaptchasFresh, Fewer, FreshNext, Fresh
<1>5. TokensFresh'
  BY <1>3 DEF TicketsInv, TokensFresh, Fewer, FreshNext, Fresh
<1>6. EmailCodesFresh'
  BY <1>3 DEF TicketsInv, EmailCodesFresh, Fewer, FreshNext, Fresh
<1>7. RegCodesFresh'
  BY <1>3 DEF TicketsInv, RegCodesFresh, Fewer, FreshNext, Fresh
<1>8. QED
  BY <1>2, <1>4, <1>5, <1>6, <1>7 DEF TicketsInv

LEMMA PassTickets ==
  ASSUME Typing, TicketsInv, NEW w, NEW kind, NEW id \in Nat, NEW right, NEW t,
         PassCaptcha(w, kind, id, right, t)
  PROVE  TicketsInv'
<1>1. /\ captchas' = {e \in Live(captchas) : e.id # id}
      /\ UNCHANGED <<regCodes, emailCodes, resetTokens, serial>>
  BY DEF PassCaptcha, VerifyCaptcha
<1>2. Fewer
  BY <1>1 DEF Fewer, Live
<1>3. CASE redeemed' = redeemed
  BY <1>1, <1>2, <1>3, FewerIssued, Issued
<1>4. CASE Standing(id) /\ Accept(<<"captcha", id>>)
  <2>1. Fresh("captcha", id)
    BY <1>4 DEF Standing, Live, TicketsInv, CaptchasFresh
  <2>2. \A e \in captchas' : e.id # id
    BY <1>1
  <2>3. "captcha" \in Tickets /\ "captcha" # "regCode" /\ "captcha" # "emailCode" /\ "captcha" # "resetToken"
    BY DEF Tickets
  <2>4. QED
    BY <1>1, <1>2, <1>4, <2>1, <2>2, <2>3, Redeemed
<1>5. QED
  BY <1>3, <1>4 DEF PassCaptcha, VerifyCaptcha

LEMMA SessionTickets ==
  ASSUME Typing, TicketsInv, NEW w \in Workers, SessionTraffic(w) PROVE TicketsInv'
<1>1. ASSUME NEW id \in 1..serial, NEW right, LoginCaptcha(w, id, right) PROVE TicketsInv'
  BY <1>1, NumbersAre, PassTickets DEF LoginCaptcha
<1>2. ASSUME ~\E id \in 1..serial, right \in BOOLEAN : LoginCaptcha(w, id, right)
      PROVE  UNCHANGED <<captchas, regCodes, emailCodes, resetTokens, redeemed>>
  BY <1>2 DEF SessionTraffic, LoginCheck, LoginVerify, LoginFail, LoginReset, CreateSession, memory,
              history
<1>3. QED
  BY <1>1, <1>2, SessionFrame, SameTickets

LEMMA RegisterTickets ==
  ASSUME Typing, TicketsInv, NEW w \in Workers, RegisterTraffic(w) PROVE TicketsInv'
<1>1. ASSUME NEW id \in 1..serial, NEW right, NEW n, RegisterCaptcha(w, id, right, n) PROVE TicketsInv'
  BY <1>1, NumbersAre, PassTickets DEF RegisterCaptcha
<1>l. LiveRegCodes \in SUBSET DOMAIN regCodes
  BY DEF LiveRegCodes
<1>2. ASSUME NEW e \in Emails, RegisterSendCode(w, e) PROVE TicketsInv'
  <2> DEFINE left == Restrict(regCodes, LiveRegCodes)
             sent == [code |-> serial, exp |-> now + CodeTTL]
  <2>1. /\ regCodes' = Put(left, e, sent) /\ sent.code = serial /\ serial' = serial + 1
        /\ UNCHANGED <<captchas, emailCodes, resetTokens, redeemed>>
    BY <1>2 DEF RegisterSendCode, Draw, history
  <2>2. DOMAIN left = LiveRegCodes /\ \A a \in DOMAIN left : left[a] = regCodes[a]
    BY DEF Restrict
  <2> HIDE DEF left, sent
  <2>3. /\ DOMAIN regCodes' = LiveRegCodes \union {e} /\ regCodes'[e] = sent
        /\ \A a \in LiveRegCodes : a # e => regCodes'[a] = regCodes[a]
    BY <2>1, <2>2 DEF Put
  <2>4. NewRegCode
    BY <1>l, <2>1, <2>3 DEF NewRegCode
  <2>5. NewCaptcha /\ NewMailCode /\ NewToken
    BY <2>1 DEF NewCaptcha, NewMailCode, NewToken
  <2>6. QED
    BY <2>1, <2>4, <2>5, Issued
<1>3. ASSUME NEW e \in Emails, NEW code \in 1..serial, RegisterTakeCode(w, e, code) PROVE TicketsInv'
  <2> DEFINE right == e \in LiveRegCodes /\ regCodes[e].code = code
             left  == Restrict(regCodes, LiveRegCodes \ {e})
  <2>1. /\ regCodes' = left /\ UNCHANGED <<captchas, emailCodes, resetTokens, serial>>
        /\ (right /\ Accept(<<"regCode", code>>)) \/ redeemed' = redeemed
    BY <1>3 DEF RegisterTakeCode
  <2>2. DOMAIN left = LiveRegCodes \ {e} /\ \A a \in DOMAIN left : left[a] = regCodes[a]
    BY DEF Restrict
  <2> HIDE DEF left
  <2>3. Fewer
    BY <1>l, <2>1, <2>2 DEF Fewer
  <2>4. CASE redeemed' = redeemed
    BY <2>1, <2>3, <2>4, FewerIssued, Issued
  <2>5. CASE right /\ Accept(<<"regCode", code>>)
    <3>1. Fresh("regCode", code) /\ code \in Nat
      BY <1>l, <2>5, NumbersAre DEF TicketsInv, RegCodesFresh
    <3>2. \A a \in DOMAIN regCodes' : regCodes'[a].code # code
      BY <1>l, <2>1, <2>2, <2>5 DEF TicketsInv, RegCodesFresh
    <3>3. "regCode" \in Tickets /\ "regCode" # "captcha" /\ "regCode" # "emailCode" /\ "regCode" # "resetToken"
      BY DEF Tickets
    <3>4. QED
      BY <2>1, <2>3, <2>5, <3>1, <3>2, <3>3, Redeemed
  <2>6. QED
    BY <2>1, <2>4, <2>5
<1>4. ASSUME ~\E id \in 1..serial, right \in BOOLEAN, n \in Clients : RegisterCaptcha(w, id, right, n),
             ~\E e \in Emails : RegisterSendCode(w, e),
             ~\E e \in Emails, code \in 1..serial : RegisterTakeCode(w, e, code)
      PROVE  UNCHANGED <<captchas, regCodes, emailCodes, resetTokens, redeemed>>
  BY <1>4 DEF RegisterTraffic, RegisterCount, CreateUser, SetupCount, OAuthLookup, OAuthCreate,
              OAuthEmail, memory, history
<1>5. QED
  BY <1>1, <1>2, <1>3, <1>4, RegisterFrame, SameTickets

LEMMA MailTickets ==
  ASSUME Typing, TicketsInv, NEW w \in Workers, MailTraffic(w) PROVE TicketsInv'
<1>1. ASSUME NEW n \in Clients, NEW code \in 1..serial, EmailTakeCode(w, n, code) PROVE TicketsInv'
  <2> DEFINE found == {e \in Live(emailCodes) : e.name = n /\ e.code = code}
  <2>1. /\ found # {} /\ emailCodes' = Live(emailCodes) \ found /\ Accept(<<"emailCode", code>>)
        /\ UNCHANGED <<captchas, regCodes, resetTokens, serial>>
    BY <1>1 DEF EmailTakeCode
  <2>2. Fewer
    BY <2>1 DEF Fewer, Live
  <2>3. Fresh("emailCode", code) /\ code \in Nat
    BY <2>1, NumbersAre DEF TicketsInv, EmailCodesFresh, Live
  <2>4. \A e \in emailCodes' : e.code # code
    BY <2>1 DEF TicketsInv, EmailCodesFresh, Live
  <2>5. "emailCode" \in Tickets /\ "emailCode" # "captcha" /\ "emailCode" # "regCode" /\ "emailCode" # "resetToken"
    BY DEF Tickets
  <2>6. QED
    BY <2>1, <2>2, <2>3, <2>4, <2>5, Redeemed
<1>2. ASSUME NEW token \in 1..serial, ResetTakeToken(w, token) PROVE TicketsInv'
  <2> DEFINE found == {e \in Live(resetTokens) : e.token = token}
  <2>1. /\ found # {} /\ resetTokens' = Live(resetTokens) \ found /\ Accept(<<"resetToken", token>>)
        /\ UNCHANGED <<captchas, regCodes, emailCodes, serial>>
    BY <1>2 DEF ResetTakeToken
  <2>2. Fewer
    BY <2>1 DEF Fewer, Live
  <2>3. Fresh("resetToken", token) /\ token \in Nat
    BY <2>1, NumbersAre DEF TicketsInv, TokensFresh, Live
  <2>4. \A e \in resetTokens' : e.token # token
    BY <2>1
  <2>5. "resetToken" \in Tickets /\ "resetToken" # "captcha" /\ "resetToken" # "regCode" /\ "resetToken" # "emailCode"
    BY DEF Tickets
  <2>6. QED
    BY <2>1, <2>2, <2>3, <2>4, <2>5, Redeemed
<1>3. ASSUME ResetSendLink(w) PROVE TicketsInv'
  <2>1. /\ NewToken /\ serial' = serial + 1
        /\ UNCHANGED <<captchas, regCodes, emailCodes, redeemed>>
    BY <1>3 DEF ResetSendLink, Draw, NewToken, Live, history
  <2>2. NewCaptcha /\ NewMailCode /\ NewRegCode
    BY <2>1 DEF NewCaptcha, NewMailCode, NewRegCode
  <2>3. QED
    BY <2>1, <2>2, Issued
<1>4. ASSUME ~\E n \in Clients, code \in 1..serial : EmailTakeCode(w, n, code),
             ~\E token \in 1..serial : ResetTakeToken(w, token), ~ResetSendLink(w)
      PROVE  UNCHANGED <<captchas, regCodes, emailCodes, resetTokens, redeemed>>
  BY <1>4 DEF MailTraffic, BindEmail, ResetFindAddress, ResetFind, ResetApply, memory, history
<1>5. QED
  BY <1>1, <1>2, <1>3, <1>4, MailFrame, SameTickets

LEMMA TicketsStep == Typing /\ TicketsInv /\ [Next]_vars => TicketsInv'
<1>1. SUFFICES ASSUME Typing, TicketsInv, [Next]_vars PROVE TicketsInv'
  OBVIOUS
<1>2. ASSUME NEW w \in Workers, TwoFATraffic(w) PROVE TicketsInv'
  BY <1>1, <1>2, FactorFrame, SameTickets DEF memory
<1>3. ASSUME NEW w \in Workers, AdminTraffic(w) PROVE TicketsInv'
  BY <1>1, <1>3, AdminFrame, SameTickets DEF memory
<1>4. CASE CaptchaHandler
  <2>1. /\ NewCaptcha /\ serial' = serial + 1
        /\ UNCHANGED <<resetTokens, regCodes, emailCodes, redeemed>>
    BY <1>4 DEF CaptchaHandler, Draw, NewCaptcha, Live, DropOldest
  <2>2. NewToken /\ NewMailCode /\ NewRegCode
    BY <2>1 DEF NewToken, NewMailCode, NewRegCode
  <2>3. QED
    BY <1>1, <2>1, <2>2, Issued
<1>5. ASSUME NEW n \in Clients, NEW e \in Emails, EmailSendCode(n, e) PROVE TicketsInv'
  <2> DEFINE sent == [name |-> n, email |-> e, code |-> serial, exp |-> now + CodeTTL]
  <2>1. /\ emailCodes' = Live(emailCodes) \union {sent} /\ sent.code = serial /\ serial' = serial + 1
        /\ UNCHANGED <<captchas, regCodes, resetTokens, redeemed>>
    BY <1>5 DEF EmailSendCode, Draw, history
  <2> HIDE DEF sent
  <2>2. NewMailCode
    BY <2>1 DEF NewMailCode, Live
  <2>3. NewCaptcha /\ NewToken /\ NewRegCode
    BY <2>1 DEF NewCaptcha, NewToken, NewRegCode
  <2>4. QED
    BY <1>1, <2>1, <2>2, <2>3, Issued
<1>6. CASE (\E s \in sessions : DeleteSession(s)) \/ Tick \/ UNCHANGED vars
  <2>1. UNCHANGED <<captchas, regCodes, emailCodes, resetTokens, redeemed, serial>>
    BY <1>6 DEF DeleteSession, Tick, vars, memory, history
  <2>2. QED
    BY <1>1, <2>1, SameTickets
<1>7. CASE Crash
  <2>1. UNCHANGED <<serial, redeemed>> /\ Fewer
    BY <1>7 DEF Crash, Fewer, NoEntries
  <2>2. QED
    BY <1>1, <2>1, FewerIssued, Issued
<1>8. QED
  BY <1>1, <1>2, <1>3, <1>4, <1>5, <1>6, <1>7, SessionTickets, RegisterTickets, MailTickets DEF Next

\* The captchas are some of those that were made, whose numbers grow.
Made(i) == [id |-> asked[i].id, exp |-> asked[i].exp]

Grow == /\ \A i, j \in DOMAIN asked : i < j => asked[i].id < asked[j].id
        /\ \A i \in DOMAIN asked : asked[i].id < serial

CaptchasInv == Grow /\ captchas \subseteq {Made(i) : i \in DOMAIN asked} /\ RecentCaptchaKept

LEMMA AskedAre ==
  ASSUME Typing
  PROVE  /\ Len(asked) \in Nat /\ DOMAIN asked = 1..Len(asked)
         /\ \A i \in DOMAIN asked : asked[i].id \in Nat /\ asked[i].exp \in Nat
<1> DEFINE R == [id: Nat, exp: Nat, tried: BOOLEAN]
<1>1. asked \in Seq(R) /\ \A r \in R : r.id \in Nat /\ r.exp \in Nat
  BY DEF Typing, StoresOK, CaptchasOK
<1> HIDE DEF R
<1>2. QED
  BY <1>1

LEMMA FewCaptchas ==
  ASSUME Typing, CaptchasInv
  PROVE  IsFiniteSet(captchas) /\ Cardinality(captchas) \in Nat /\ Cardinality(captchas) <= MaxCaptchas
<1> DEFINE S == DOMAIN asked
           f == [i \in S |-> Made(i)]
           T == {Made(i) : i \in S}
<1>1. IsFiniteSet(S)
  BY AskedAre, FS_Interval
<1>2. f \in Surjection(S, T)
  BY DEF Surjection
<1>3. captchas \in SUBSET T
  BY DEF CaptchasInv
<1> HIDE DEF S, f, T
<1>4. IsFiniteSet(T)
  BY <1>1, <1>2, FS_Surjection
<1>5. IsFiniteSet(captchas)
  BY <1>3, <1>4, FS_Subset
<1>6. QED
  BY <1>5, FS_CardinalityType DEF CaptchasInv, RecentCaptchaKept

\* The oldest of too many goes, and it alone is not younger than any other.
LEMMA OneIsDropped ==
  ASSUME NEW E, IsFiniteSet(E), \A e \in E : e.id \in Nat,
         Cardinality(E) \in Nat, Cardinality(E) <= MaxCaptchas + 1
  PROVE  /\ DropOldest(E) \subseteq E
         /\ IsFiniteSet(DropOldest(E)) /\ Cardinality(DropOldest(E)) <= MaxCaptchas
<1>1. DropOldest(E) \subseteq E
  BY DEF DropOldest
<1>m. MaxCaptchas \in Nat
  BY Limits
<1>2. CASE Cardinality(E) <= MaxCaptchas
  BY <1>1, <1>2, <1>m, FS_Subset, FS_CardinalityType
<1>3. CASE Cardinality(E) > MaxCaptchas
  <2> DEFINE numbers == {e.id : e \in E}
  <2>1. E # {}
    BY <1>m, <1>3, FS_EmptySet
  <2>2. PICK least \in numbers : \A n \in numbers : least <= n
    BY <2>1, LeastMember
  <2>3. PICK oldest \in E : oldest.id = least
    BY <2>2
  <2>4. \A e \in E : oldest.id <= e.id
    BY <2>2, <2>3
  <2>5. DropOldest(E) \subseteq E \ {oldest}
    BY <1>1, <1>3, <2>3, <2>4 DEF DropOldest
  <2>6. IsFiniteSet(E \ {oldest}) /\ Cardinality(E \ {oldest}) = Cardinality(E) - 1
    BY <2>3, FS_RemoveElement
  <2>7. IsFiniteSet(DropOldest(E)) /\ Cardinality(DropOldest(E)) <= Cardinality(E \ {oldest})
    BY <2>5, <2>6, FS_Subset
  <2>8. Cardinality(DropOldest(E)) \in Nat
    BY <2>7, FS_CardinalityType
  <2>9. QED
    BY <1>1, <1>m, <2>6, <2>7, <2>8
<1>4. QED
  BY <1>m, <1>2, <1>3

\* An entry after which fewer than MaxCaptchas were made is not the oldest of too many.
LEMMA RecentStays ==
  ASSUME NEW n \in Nat, NEW f, NEW E, E \subseteq {f[j] : j \in 1..n}, IsFiniteSet(E),
         \A j \in 1..n : f[j].id \in Nat, \A j, k \in 1..n : j < k => f[j].id < f[k].id,
         NEW i \in 1..n, f[i] \in E, n - i < MaxCaptchas
  PROVE  f[i] \in DropOldest(E)
<1>1. SUFFICES ASSUME Cardinality(E) > MaxCaptchas, \A e \in E : ~(e.id < f[i].id) PROVE FALSE
  BY DEF DropOldest
<1> DEFINE g == [j \in i..n |-> f[j]]
           T == {f[j] : j \in i..n}
<1>2. E \in SUBSET T
  <2>1. SUFFICES ASSUME NEW j \in 1..n, f[j] \in E PROVE j \in i..n
    OBVIOUS
  <2>2. CASE j < i
    BY <1>1, <2>1, <2>2
  <2>3. QED
    BY <2>2
<1>3. g \in Surjection(i..n, T)
  BY DEF Surjection
<1>4. IsFiniteSet(i..n) /\ Cardinality(i..n) = n - i + 1
  BY FS_Interval
<1> HIDE DEF g, T
<1>5. IsFiniteSet(T) /\ Cardinality(T) <= n - i + 1
  BY <1>3, <1>4, FS_Surjection
<1>6. Cardinality(E) <= Cardinality(T) /\ Cardinality(E) \in Nat /\ Cardinality(T) \in Nat
  BY <1>2, <1>5, FS_Subset, FS_CardinalityType
<1>7. QED
  BY <1>1, <1>5, <1>6, Limits

LEMMA HandlerCaptchas == ASSUME Typing, CaptchasInv, CaptchaHandler PROVE CaptchasInv'
<1> DEFINE n     == Len(asked)
           made  == [id |-> serial, exp |-> now + CaptchaTTL]
           entry == [id |-> serial, exp |-> now + CaptchaTTL, tried |-> FALSE]
           E     == Live(captchas) \union {made}
           f     == [i \in 1..(n + 1) |-> IF i = n + 1 THEN made ELSE Made(i)]
<1>1. /\ captchas' = DropOldest(E) /\ asked' = Append(asked, entry) /\ serial' = serial + 1
      /\ UNCHANGED now
  BY DEF CaptchaHandler, Arrive, Draw
<1>2. /\ n \in Nat /\ DOMAIN asked = 1..n /\ serial \in Nat
      /\ \A i \in 1..n : asked[i].id \in Nat /\ asked[i].exp \in Nat
  BY AskedAre, NumbersAre
<1>3. /\ DOMAIN asked' = 1..(n + 1) /\ Len(asked') = n + 1 /\ asked'[n + 1] = entry
      /\ \A i \in 1..n : asked'[i] = asked[i]
  <2>1. asked \in Seq([id: Nat, exp: Nat, tried: BOOLEAN])
    BY DEF Typing, StoresOK, CaptchasOK
  <2> HIDE DEF entry
  <2>2. QED
    BY <1>1, <2>1
<1>4. \A i \in 1..(n + 1) : Made(i)' = f[i]
  BY <1>2, <1>3 DEF Made
<1>5. Grow'
  <2>1. /\ \A i, j \in 1..n : i < j => asked[i].id < asked[j].id
        /\ \A i \in 1..n : asked[i].id < serial
    BY <1>2 DEF CaptchasInv, Grow
  <2>2. entry.id = serial
    OBVIOUS
  <2> HIDE DEF entry
  <2>3. \A i \in 1..(n + 1) : asked'[i].id < serial'
    BY <1>1, <1>2, <1>3, <2>1, <2>2
  <2>4. \A i, j \in 1..(n + 1) : i < j => asked'[i].id < asked'[j].id
    BY <1>2, <1>3, <2>1, <2>2
  <2>5. QED
    BY <1>3, <2>3, <2>4 DEF Grow
<1>6. /\ \A j \in 1..(n + 1) : f[j].id \in Nat
      /\ \A j, k \in 1..(n + 1) : j < k => f[j].id < f[k].id
  <2>1. \A j \in 1..(n + 1) : f[j].id = asked'[j].id /\ asked'[j].id \in Nat
    BY <1>2, <1>3 DEF Made
  <2>2. QED
    BY <1>3, <1>5, <2>1 DEF Grow
<1>7. /\ IsFiniteSet(E) /\ Cardinality(E) \in Nat /\ Cardinality(E) <= MaxCaptchas + 1
  <2>1. IsFiniteSet(captchas) /\ Cardinality(captchas) \in Nat /\ Cardinality(captchas) <= MaxCaptchas
    BY FewCaptchas
  <2>2. /\ IsFiniteSet(Live(captchas)) /\ Cardinality(Live(captchas)) \in Nat
        /\ Cardinality(Live(captchas)) <= MaxCaptchas
    <3>1. Live(captchas) \in SUBSET captchas
      BY DEF Live
    <3>2. QED
      BY <2>1, <3>1, FS_Subset, FS_CardinalityType, Limits
  <2>3. IsFiniteSet(E)
    BY <2>2, FS_AddElement
  <2>4. Cardinality(E) \in {Cardinality(Live(captchas)), Cardinality(Live(captchas)) + 1}
    BY <2>2, FS_AddElement
  <2>5. QED
    BY <2>2, <2>3, <2>4, Limits
<1>8. E \subseteq {f[j] : j \in 1..(n + 1)}
  <2>1. Live(captchas) \subseteq {Made(i) : i \in 1..n}
    BY <1>2 DEF CaptchasInv, Live
  <2>2. \A i \in 1..n : Made(i) = f[i] /\ i \in 1..(n + 1)
    BY <1>2
  <2>3. f[n + 1] = made /\ n + 1 \in 1..(n + 1)
    BY <1>2
  <2> HIDE DEF f, made
  <2>4. QED
    BY <2>1, <2>2, <2>3
<1>9. \A e \in E : e.id \in Nat
  BY <1>6, <1>8
<1>f. \A i \in 1..(n + 1) : f[i].exp = asked'[i].exp
  BY <1>2, <1>3 DEF Made
<1>k. \A i \in 1..n : f[i] = Made(i) /\ Made(i).exp = asked[i].exp
  BY <1>2 DEF Made
<1>l. f[n + 1] = made
  BY <1>2
<1> HIDE DEF f, made, entry
<1> HIDE DEF E
<1>10. /\ captchas' \subseteq E /\ Cardinality(captchas') <= MaxCaptchas
  BY <1>1, <1>7, <1>9, OneIsDropped
<1>11. captchas' \subseteq {Made(i)' : i \in 1..(n + 1)}
  BY <1>4, <1>8, <1>10
<1>12. ASSUME NEW i \in 1..(n + 1), ~asked'[i].tried, asked'[i].exp >= now, (n + 1) - i < MaxCaptchas
       PROVE  f[i] \in captchas'
  <2>1. f[i] \in E
    <3>1. CASE i = n + 1
      BY <1>l, <3>1 DEF E
    <3>2. CASE i # n + 1
      <4>1. i \in 1..n /\ n - i < MaxCaptchas
        BY <1>2, <1>12, <3>2, Limits
      <4>2. ~asked[i].tried /\ asked[i].exp >= now
        BY <1>3, <1>12, <4>1
      <4>3. Made(i) \in captchas
        BY <1>2, <4>1, <4>2 DEF CaptchasInv, RecentCaptchaKept, Made
      <4>4. Made(i) \in Live(captchas)
        BY <1>k, <1>2, <4>1, <4>2, <4>3, NumbersAre DEF Live
      <4>5. QED
        BY <1>k, <4>1, <4>4 DEF E
    <3>3. QED
      BY <3>1, <3>2
  <2> DEFINE m == n + 1
  <2>2. m \in Nat /\ m - i < MaxCaptchas
    BY <1>2, <1>12
  <2> HIDE DEF m
  <2>3. f[i] \in DropOldest(E)
    BY <1>6, <1>7, <1>8, <1>12, <2>1, <2>2, RecentStays DEF m
  <2>4. QED
    BY <1>1, <2>3
<1>13. RecentCaptchaKept'
  BY <1>1, <1>3, <1>4, <1>10, <1>12 DEF RecentCaptchaKept, Made
<1>14. QED
  BY <1>3, <1>5, <1>11, <1>13 DEF CaptchasInv

LEMMA PassCaptchas ==
  ASSUME Typing, CaptchasInv, NEW w, NEW kind, NEW id, NEW right, NEW t,
         PassCaptcha(w, kind, id, right, t)
  PROVE  CaptchasInv'
<1>1. /\ captchas' = {e \in Live(captchas) : e.id # id} /\ UNCHANGED <<serial, now>>
      /\ asked' = [i \in DOMAIN asked |-> [asked[i] EXCEPT !.tried = @ \/ asked[i].id = id]]
  BY DEF PassCaptcha, VerifyCaptcha, Tried, Begin, Arrive
<1>2. /\ DOMAIN asked' = DOMAIN asked /\ Len(asked') = Len(asked)
      /\ \A i \in DOMAIN asked : asked'[i] = [asked[i] EXCEPT !.tried = asked[i].tried \/ asked[i].id = id]
  <2>1. DOMAIN asked' = DOMAIN asked
    BY <1>1
  <2>2. asked \in Seq([id: Nat, exp: Nat, tried: BOOLEAN]) /\ asked' \in Seq([id: Nat, exp: Nat, tried: BOOLEAN])
    <3>1. CaptchasOK'
      BY TryType DEF Typing, StoresOK, PassCaptcha, CaptchasOK
    <3>2. QED
      BY <3>1 DEF Typing, StoresOK, CaptchasOK
  <2>3. QED
    BY <1>1, <2>1, <2>2
<1>3. \A i \in DOMAIN asked : /\ asked'[i].id = asked[i].id /\ asked'[i].exp = asked[i].exp
                              /\ ~asked'[i].tried => ~asked[i].tried /\ asked[i].id # id
  <2> DEFINE R == [id: Nat, exp: Nat, tried: BOOLEAN]
  <2>1. asked \in Seq(R)
    BY DEF Typing, StoresOK, CaptchasOK
  <2>2. \A r \in R, b \in BOOLEAN : LET s == [r EXCEPT !.tried = b] IN
          s.id = r.id /\ s.exp = r.exp /\ s.tried = b
    OBVIOUS
  <2>3. \A r \in R : r.tried \in BOOLEAN
    OBVIOUS
  <2> HIDE DEF R
  <2>4. \A i \in DOMAIN asked : asked[i] \in R
    BY <2>1
  <2>5. \A i \in DOMAIN asked : (asked[i].tried \/ asked[i].id = id) \in BOOLEAN
    BY <2>3, <2>4
  <2>6. QED
    BY <1>2, <2>2, <2>4, <2>5, ZenonT(60)
<1>4. Grow'
  BY <1>1, <1>2, <1>3, ZenonT(60) DEF CaptchasInv, Grow
<1>5. captchas' \subseteq {Made(i)' : i \in DOMAIN asked'}
  BY <1>1, <1>2, <1>3 DEF CaptchasInv, Live, Made
<1>6. Cardinality(captchas') <= MaxCaptchas
  BY <1>1, FewCaptchas, FS_Subset, FS_CardinalityType, Limits DEF Live
<1>7. ASSUME NEW i \in DOMAIN asked', ~asked'[i].tried, asked'[i].exp >= now',
             Len(asked') - i < MaxCaptchas
      PROVE  [id |-> asked'[i].id, exp |-> asked'[i].exp] \in captchas'
  <2>1. ~asked[i].tried /\ asked[i].exp >= now /\ asked[i].id # id
    BY <1>1, <1>2, <1>3, <1>7
  <2>2. Made(i) \in captchas
    BY <1>2, <1>7, <2>1 DEF CaptchasInv, RecentCaptchaKept, Made
  <2>3. Made(i).exp = asked[i].exp /\ Made(i).id = asked[i].id
    BY DEF Made
  <2>4. now \in Nat /\ asked[i].exp \in Nat
    BY <1>2, AskedAre, NumbersAre
  <2>5. Made(i) \in captchas'
    BY <1>1, <2>1, <2>2, <2>3, <2>4 DEF Live
  <2>6. QED
    BY <1>2, <1>3, <2>5 DEF Made
<1>8. QED
  BY <1>4, <1>5, <1>6, <1>7 DEF CaptchasInv, RecentCaptchaKept

LEMMA CaptchasSame ==
  ASSUME Typing, CaptchasInv, UNCHANGED <<captchas, asked>>,
         now' \in {now, now + 1}, serial' \in {serial, serial + 1}
  PROVE  CaptchasInv'
<1>1. Grow'
  BY NumbersAre, AskedAre DEF CaptchasInv, Grow
<1>2. RecentCaptchaKept'
  BY NumbersAre, AskedAre DEF CaptchasInv, RecentCaptchaKept
<1>3. QED
  BY <1>1, <1>2 DEF CaptchasInv, Made

LEMMA CaptchasStep == Typing /\ CaptchasInv /\ [Next]_vars => CaptchasInv'
<1>1. SUFFICES ASSUME Typing, CaptchasInv, [Next]_vars PROVE CaptchasInv'
  OBVIOUS
<1>2. ASSUME NEW w \in Workers, SessionTraffic(w) PROVE CaptchasInv'
  <2>1. CASE \E id \in 1..serial, right \in BOOLEAN : LoginCaptcha(w, id, right)
    BY <1>1, <2>1, PassCaptchas DEF LoginCaptcha
  <2>2. CASE ~\E id \in 1..serial, right \in BOOLEAN : LoginCaptcha(w, id, right)
    <3>1. UNCHANGED <<captchas, asked>>
      BY <1>2, <2>2 DEF SessionTraffic, LoginCheck, LoginVerify, LoginFail, LoginReset,
                        CreateSession, memory, history
    <3>2. QED
      BY <1>1, <1>2, <3>1, SessionFrame, CaptchasSame
  <2>3. QED
    BY <2>1, <2>2
<1>3. ASSUME NEW w \in Workers, RegisterTraffic(w) PROVE CaptchasInv'
  <2>1. CASE \E id \in 1..serial, right \in BOOLEAN, n \in Clients : RegisterCaptcha(w, id, right, n)
    BY <1>1, <2>1, PassCaptchas DEF RegisterCaptcha
  <2>2. CASE ~\E id \in 1..serial, right \in BOOLEAN, n \in Clients : RegisterCaptcha(w, id, right, n)
    <3>1. UNCHANGED <<captchas, asked>>
      BY <1>3, <2>2 DEF RegisterTraffic, RegisterSendCode, RegisterTakeCode, RegisterCount, CreateUser,
                        SetupCount, OAuthLookup, OAuthCreate, OAuthEmail, memory, history
    <3>2. QED
      BY <1>1, <1>3, <3>1, RegisterFrame, CaptchasSame
  <2>3. QED
    BY <2>1, <2>2
<1>4. ASSUME NEW w \in Workers, TwoFATraffic(w) PROVE CaptchasInv'
  BY <1>1, <1>4, FactorFrame, CaptchasSame DEF memory
<1>5. ASSUME NEW w \in Workers, MailTraffic(w) PROVE CaptchasInv'
  BY <1>1, <1>5, MailFrame, CaptchasSame
<1>6. ASSUME NEW w \in Workers, AdminTraffic(w) PROVE CaptchasInv'
  BY <1>1, <1>6, AdminFrame, CaptchasSame DEF memory
<1>7. CASE (\E n \in Clients, e \in Emails : EmailSendCode(n, e)) \/ (\E s \in sessions : DeleteSession(s))
           \/ Tick \/ UNCHANGED vars
  <2>1. /\ UNCHANGED <<captchas, asked>> /\ now' \in {now, now + 1}
        /\ serial' \in {serial, serial + 1}
    BY <1>7 DEF EmailSendCode, DeleteSession, Arrive, Step, Tick, Draw, vars, memory, history
  <2>2. QED
    BY <1>1, <2>1, CaptchasSame
<1>8. CASE Crash
  <2>1. captchas' = {} /\ asked' = <<>>
    BY <1>8 DEF Crash
  <2>2. Cardinality(captchas') <= MaxCaptchas
    BY <2>1, FS_EmptySet, Limits
  <2>3. QED
    BY <2>1, <2>2 DEF CaptchasInv, Grow, RecentCaptchaKept
<1>9. QED
  BY <1>1, <1>2, <1>3, <1>4, <1>5, <1>6, <1>7, <1>8, HandlerCaptchas DEF Next

\* A captcha, a registration code, an address code and a reset token are accepted once,
\* whatever requests race for them, and a captcha that is recent, not expired and untried
\* can still be answered (handler/feat_captcha.go, handler/feat_email.go).
THEOREM HandedOut == Spec => []HandedOutWorksOnce
<1>1. Init => TicketsInv
  BY DEF Init, TicketsInv, RedeemedOnce, CaptchasFresh, RegCodesFresh, EmailCodesFresh, TokensFresh,
         NoEntries
<1>2. Init => CaptchasInv
  BY FS_EmptySet, Limits DEF Init, CaptchasInv, Grow, RecentCaptchaKept
<1>3. Spec => [](TicketsInv /\ CaptchasInv)
  BY <1>1, <1>2, StartTypes, TicketsStep, CaptchasStep, TypingHolds, PTL DEF Spec
<1>4. TicketsInv /\ CaptchasInv => HandedOutWorksOnce
  BY DEF TicketsInv, RedeemedOnce, CaptchasInv, HandedOutWorksOnce, AcceptedOnce
<1>5. QED
  BY <1>3, <1>4, PTL

-------------------------------------------------------------------------------
(* Failed logins                                                           *)

\* The goroutines that were not refused and have not reported a failure yet, and the
\* failures there may be at a time.
Trying(t)  == {w \in Workers : task[w].stage \in {"verify", "fail"} /\ task[w].typed = t}
Allowed(x) == Threshold - 1 + Cardinality(Workers) * (1 + x \div Lockout)

\* From the threshold on the lock runs from the last failure; until it ends no goroutine
\* begins to try, so that the failures from then on are at most one of each.
TriesOK(t) ==
  /\ guesses[t] = FailureCount(t)
  /\ FailureCount(t) + Cardinality(Trying(t)) <= Allowed(now)
  /\ FailureCount(t) < Threshold => LockedUntil(t) = 0
  /\ FailureCount(t) >= Threshold =>
       \E last \in 0..now : LockedUntil(t) = last + Lockout /\ FailureCount(t) <= Allowed(last)

FailuresInv == \A t \in Typed : TriesOK(t)

LEMMA AllowedGrows ==
  /\ Cardinality(Workers) \in Nat
  /\ \A x \in Nat : /\ Allowed(x) \in Nat /\ Threshold - 1 + Cardinality(Workers) <= Allowed(x)
                    /\ Allowed(x + Lockout) = Allowed(x) + Cardinality(Workers)
  /\ \A x, y \in Nat : x <= y => Allowed(x) <= Allowed(y)
<1> DEFINE W == Cardinality(Workers)
<1>1. W \in Nat /\ Threshold \in Nat /\ Threshold >= 1 /\ Lockout \in Nat \ {0}
  BY WorkersAssumption, FS_CardinalityType, Limits
<1> HIDE DEF W
<1> DEFINE Periods(x) == x \div Lockout
           Times(a)   == W * a
<1>2. /\ \A x \in Nat : Periods(x) \in Nat /\ Periods(x + Lockout) = Periods(x) + 1
      /\ \A x, y \in Nat : x <= y => Periods(x) <= Periods(y)
  BY <1>1
<1>3. /\ \A a \in Nat : Times(a) \in Nat /\ Times(a + 1) = Times(a) + W /\ W <= Times(a + 1)
      /\ \A a, b \in Nat : a <= b => Times(a) <= Times(b)
  BY <1>1
<1>a. \A x \in Nat : Allowed(x) = Threshold - 1 + Times(Periods(x) + 1)
  <2>1. \A x \in Nat : 1 + x \div Lockout = Periods(x) + 1
    BY <1>2
  <2>2. QED
    BY <2>1 DEF Allowed, W
<1> HIDE DEF Times, Periods
<1>4. ASSUME NEW x \in Nat
      PROVE  /\ Allowed(x) \in Nat /\ Threshold - 1 + W <= Allowed(x)
             /\ Allowed(x + Lockout) = Allowed(x) + W
  <2>1. Periods(x) \in Nat /\ Periods(x + Lockout) = Periods(x) + 1 /\ x + Lockout \in Nat
    BY <1>1, <1>2
  <2> DEFINE b == Periods(x) + 1
  <2>2. Allowed(x) = Threshold - 1 + Times(b) /\ Allowed(x + Lockout) = Threshold - 1 + Times(b + 1)
    BY <1>a, <2>1
  <2>3. Times(b) \in Nat /\ W <= Times(b)
    BY <1>3, <2>1
  <2>4. b \in Nat
    BY <2>1
  <2> HIDE DEF b
  <2>5. Times(b + 1) = Times(b) + W
    BY <1>3, <2>4
  <2>6. QED
    BY <1>1, <2>2, <2>3, <2>5
<1>5. ASSUME NEW x \in Nat, NEW y \in Nat, x <= y PROVE Allowed(x) <= Allowed(y)
  <2> DEFINE a == Periods(x) + 1
             b == Periods(y) + 1
  <2>1. a \in Nat /\ b \in Nat /\ a <= b
    BY <1>2, <1>5
  <2>2. Allowed(x) = Threshold - 1 + Times(a) /\ Allowed(y) = Threshold - 1 + Times(b)
    BY <1>a
  <2> HIDE DEF a, b
  <2>3. Times(a) \in Nat /\ Times(b) \in Nat /\ Times(a) <= Times(b)
    BY <1>3, <2>1
  <2>4. QED
    BY <1>1, <2>2, <2>3
<1>6. QED
  BY <1>1, <1>4, <1>5 DEF W

LEMMA TryingCount ==
  ASSUME NEW t
  PROVE  /\ IsFiniteSet(Trying(t)) /\ Cardinality(Trying(t)) \in Nat
         /\ Cardinality(Trying(t)) <= Cardinality(Workers) /\ Cardinality(Workers) \in Nat
<1>1. Trying(t) \in SUBSET Workers
  BY DEF Trying
<1>2. QED
  BY <1>1, WorkersAssumption, FS_Subset, FS_CardinalityType

LEMMA TryingNext ==
  ASSUME NEW t
  PROVE  /\ IsFiniteSet(Trying(t)') /\ Cardinality(Trying(t)') \in Nat
         /\ Cardinality(Trying(t)') <= Cardinality(Workers)
<1>1. Trying(t)' \in SUBSET Workers
  BY DEF Trying
<1>2. QED
  BY <1>1, WorkersAssumption, FS_Subset, FS_CardinalityType

LEMMA TryingLess ==
  ASSUME NEW t, Trying(t)' \subseteq Trying(t)
  PROVE  Cardinality(Trying(t)') <= Cardinality(Trying(t))
BY TryingCount, FS_Subset

\* The failures and the lock stay, and nobody comes to try.
LEMMA TriesKept ==
  ASSUME Typing, NEW t \in Typed, TriesOK(t), FailureCount(t)' = FailureCount(t),
         LockedUntil(t)' = LockedUntil(t), guesses'[t] = guesses[t], now' \in {now, now + 1},
         Trying(t)' \subseteq Trying(t)
  PROVE  TriesOK(t)'
<1> DEFINE c == FailureCount(t)
           k == Cardinality(Trying(t))
           j == Cardinality(Trying(t)')
<1>1. now \in Nat /\ now' \in Nat /\ now <= now' /\ c \in Nat /\ LockedUntil(t) \in Nat
  BY FailureTypes DEF Typing
<1>2. k \in Nat /\ j \in Nat /\ j <= k
  BY TryingCount, TryingNext, TryingLess
<1>3. Allowed(now) <= Allowed(now') /\ Allowed(now) \in Nat /\ Allowed(now') \in Nat
  BY <1>1, AllowedGrows
<1>4. c + k <= Allowed(now)
  BY DEF TriesOK
<1> HIDE DEF c, k, j
<1>5. c + j <= Allowed(now')
  BY <1>1, <1>2, <1>3, <1>4
<1>6. \A last \in 0..now : last \in 0..now'
  BY <1>1
<1>7. /\ guesses'[t] = c /\ FailureCount(t)' = c
      /\ c < Threshold => LockedUntil(t)' = 0
      /\ c >= Threshold => \E last \in 0..now' : LockedUntil(t)' = last + Lockout /\ c <= Allowed(last)
  BY <1>6 DEF TriesOK, c
<1>8. Allowed(now)' = Allowed(now')
  BY DEF Allowed
<1>9. QED
  BY <1>5, <1>7, <1>8 DEF TriesOK, Allowed, j

LEMMA FailuresQuiet ==
  ASSUME Typing, FailuresInv, UNCHANGED <<authFails, guesses>>, now' \in {now, now + 1},
         \A t \in Typed : Trying(t)' \subseteq Trying(t)
  PROVE  FailuresInv'
<1>1. \A t \in Typed : FailureCount(t)' = FailureCount(t) /\ LockedUntil(t)' = LockedUntil(t)
  BY DEF FailureCount, LockedUntil
<1>2. \A t \in Typed : TriesOK(t)'
  BY <1>1, TriesKept DEF FailuresInv
<1>3. QED
  BY <1>2 DEF FailuresInv

LEMMA NobodyTries ==
  ASSUME NEW w, NEW from, NEW to, Goes(w, from, to), "verify" \notin to, "fail" \notin to
  PROVE  \A t \in Typed : Trying(t)' \subseteq Trying(t)
BY StaysOut DEF Trying

\* A name that is not locked is tried.
LEMMA CheckFailures ==
  ASSUME Typing, FailuresInv, NEW w \in Workers, NEW typed \in Clients \union Emails,
         LoginCheck(w, typed)
  PROVE  FailuresInv'
<1>1. /\ deployment \in Deployments /\ TaskOK /\ TableOK
  BY DEF Typing, StoresOK, ClockOK
<1>2. /\ Goes(w, {"idle", "login"}, {"idle", "verify"})
      /\ task'[w].stage = "verify" => task'[w].typed = typed /\ ~Locked(typed)
      /\ UNCHANGED <<authFails, guesses, now>>
  BY <1>1, SessionGoes DEF LoginCheck, Begin, Arrive, Step, memory, history
<1>3. SUFFICES ASSUME NEW t \in Typed PROVE TriesOK(t)'
  BY DEF FailuresInv
<1>4. TriesOK(t) /\ FailureCount(t)' = FailureCount(t) /\ LockedUntil(t)' = LockedUntil(t)
  BY <1>2 DEF FailuresInv, FailureCount, LockedUntil
<1>5. CASE t # typed \/ task'[w].stage # "verify"
  <2>1. Trying(t)' \subseteq Trying(t)
    BY <1>2, <1>5 DEF Goes, Trying
  <2>2. QED
    BY <1>2, <1>4, <2>1, TriesKept
<1>6. CASE t = typed /\ ~Locked(t)
  <2> DEFINE c == FailureCount(t)
             j == Cardinality(Trying(t)')
             W == Cardinality(Workers)
  <2>1. now \in Nat /\ c \in Nat /\ LockedUntil(t) \in Nat /\ LockedUntil(t) <= now
    BY <1>6, FailureTypes DEF Typing, Locked
  <2>2. j \in Nat /\ j <= W /\ W \in Nat
    BY TryingNext, AllowedGrows
  <2>3. c + j <= Allowed(now)
    <3>1. CASE c < Threshold
      <4>1. Threshold - 1 + W <= Allowed(now) /\ Allowed(now) \in Nat
        BY <2>1, AllowedGrows
      <4> HIDE DEF c, j, W
      <4>2. QED
        BY <2>1, <2>2, <3>1, <4>1, Limits
    <3>2. CASE c >= Threshold
      <4>1. PICK last \in 0..now : LockedUntil(t) = last + Lockout /\ c <= Allowed(last)
        BY <1>4, <3>2 DEF TriesOK
      <4>2. last \in Nat /\ last + Lockout \in Nat /\ last + Lockout <= now
        BY <2>1, <4>1, Limits
      <4>3. /\ Allowed(last + Lockout) = Allowed(last) + W /\ Allowed(last + Lockout) <= Allowed(now)
            /\ Allowed(last) \in Nat /\ Allowed(now) \in Nat
        BY <2>1, <4>2, AllowedGrows
      <4> HIDE DEF c, j, W
      <4>4. QED
        BY <2>1, <2>2, <4>1, <4>3
    <3> HIDE DEF c
    <3>3. QED
      BY <2>1, <3>1, <3>2, Limits
  <2>4. /\ FailureCount(t)' = c /\ LockedUntil(t)' = LockedUntil(t) /\ guesses'[t] = guesses[t]
        /\ Allowed(now)' = Allowed(now) /\ now' = now
    BY <1>2, <1>4 DEF Allowed
  <2>5. QED
    BY <1>4, <2>3, <2>4 DEF TriesOK
<1>7. QED
  BY <1>2, <1>5, <1>6

\* A try that failed is counted.
LEMMA FailFailures ==
  ASSUME Typing, FailuresInv, NEW w \in Workers, LoginFail(w) PROVE FailuresInv'
<1> DEFINE typed == task[w].typed
           count == FailureCount(typed) + 1
           until == IF count >= Threshold THEN now + Lockout ELSE LockedUntil(typed)
           entry == [count |-> count, until |-> until]
<1>1. /\ deployment \in Deployments /\ TaskOK /\ TableOK /\ Sound(task[w])
  BY ControlGoes DEF Typing, StoresOK, ClockOK
<1>2. /\ Goes(w, {"fail"}, {"idle"}) /\ task[w].stage = "fail" /\ now' = now
      /\ authFails' = Put(authFails, typed, entry)
      /\ guesses' = [guesses EXCEPT ![typed] = @ + 1]
  BY <1>1, SessionGoes DEF LoginFail, At, Step
<1>3. typed \in Typed
  BY <1>1, <1>2 DEF Sound, TypedStages
<1>4. /\ DOMAIN authFails' = DOMAIN authFails \union {typed} /\ authFails'[typed] = entry
      /\ \A t \in DOMAIN authFails : t # typed => authFails'[t] = authFails[t]
  <2> HIDE DEF typed, entry
  <2>1. QED
    BY <1>2 DEF Put
<1>5. SUFFICES ASSUME NEW t \in Typed PROVE TriesOK(t)'
  BY DEF FailuresInv
<1>6. TriesOK(t)
  BY DEF FailuresInv
<1>g. guesses \in [Typed -> Nat]
  BY DEF Typing, StoresOK, FailsOK
<1>7. CASE t # typed
  <2>1. FailureCount(t)' = FailureCount(t) /\ LockedUntil(t)' = LockedUntil(t) /\ guesses'[t] = guesses[t]
    BY <1>2, <1>4, <1>7, <1>g DEF FailureCount, LockedUntil
  <2>2. Trying(t)' \subseteq Trying(t)
    BY <1>2, NobodyTries
  <2>3. QED
    BY <1>2, <1>6, <2>1, <2>2, TriesKept
<1>8. CASE t = typed
  <2> DEFINE c == FailureCount(t)
             k == Cardinality(Trying(t))
             j == Cardinality(Trying(t)')
  <2>1. now \in Nat /\ c \in Nat /\ LockedUntil(t) \in Nat /\ Allowed(now) \in Nat
    BY FailureTypes, AllowedGrows DEF Typing
  <2>2. FailureCount(t)' = c + 1 /\ LockedUntil(t)' = (IF c + 1 >= Threshold THEN now + Lockout ELSE LockedUntil(t))
    <3>1. t \in DOMAIN authFails' /\ authFails'[t] = entry
      BY <1>4, <1>8
    <3>2. entry.count = c + 1 /\ entry.until = (IF c + 1 >= Threshold THEN now + Lockout ELSE LockedUntil(t))
      BY <1>8
    <3> HIDE DEF entry
    <3>3. QED
      BY <3>1, <3>2 DEF FailureCount, LockedUntil
  <2>3. guesses'[t] = guesses[t] + 1
    BY <1>2, <1>8, <1>g
  <2>4. j <= k - 1 /\ k \in Nat /\ j \in Nat
    <3>1. w \in Trying(t) /\ Trying(t)' \subseteq Trying(t) \ {w}
      BY <1>2, <1>8 DEF Trying, Goes
    <3>2. /\ IsFiniteSet(Trying(t) \ {w}) /\ Cardinality(Trying(t) \ {w}) = k - 1
          /\ k \in Nat /\ j \in Nat
      BY <3>1, TryingCount, TryingNext, FS_RemoveElement
    <3>3. j <= Cardinality(Trying(t) \ {w})
      BY <3>1, <3>2, FS_Subset
    <3>4. QED
      BY <3>2, <3>3
  <2>5. guesses[t] = c /\ c + k <= Allowed(now) /\ (c < Threshold => LockedUntil(t) = 0)
    BY <1>6 DEF TriesOK
  <2>n. now' = now
    BY <1>2
  <2> HIDE DEF c, k, j, typed, entry, until, count
  <2>6. c + 1 + j <= Allowed(now) /\ c + 1 <= Allowed(now)
    BY <2>1, <2>4, <2>5
  <2>7. /\ c + 1 < Threshold => LockedUntil(t)' = 0
        /\ c + 1 >= Threshold =>
             \E last \in 0..now : LockedUntil(t)' = last + Lockout /\ c + 1 <= Allowed(last)
    <3>1. CASE c + 1 < Threshold
      BY <2>1, <2>2, <2>5, <3>1, Limits
    <3>2. CASE c + 1 >= Threshold
      <4>1. now \in 0..now /\ LockedUntil(t)' = now + Lockout
        BY <2>1, <2>2, <3>2
      <4>2. QED
        BY <2>1, <2>6, <3>2, <4>1, Limits
    <3>3. QED
      BY <2>1, <3>1, <3>2, Limits
  <2>8. guesses'[t] = c + 1
    BY <2>3, <2>5
  <2>9. QED
    BY <2>2, <2>6, <2>7, <2>8, <2>n DEF TriesOK, Allowed, j
<1>9. QED
  BY <1>7, <1>8

\* A login that succeeded forgets them.
LEMMA ResetFailures ==
  ASSUME Typing, FailuresInv, NEW w \in Workers, LoginReset(w) PROVE FailuresInv'
<1> DEFINE typed == task[w].typed
<1>1. /\ deployment \in Deployments /\ TaskOK /\ TableOK
  BY DEF Typing, StoresOK, ClockOK
<1>2. /\ Goes(w, {"reset", "resetOnly"}, {"session", "idle"}) /\ now' = now
      /\ authFails' = Restrict(authFails, DOMAIN authFails \ {typed})
      /\ guesses' = [guesses EXCEPT ![typed] = 0]
  BY <1>1, SessionGoes DEF LoginReset, Step
<1>4. /\ DOMAIN authFails' = DOMAIN authFails \ {typed}
      /\ \A t \in DOMAIN authFails : t # typed => authFails'[t] = authFails[t]
  <2> HIDE DEF typed
  <2>1. QED
    BY <1>2 DEF Restrict
<1>5. SUFFICES ASSUME NEW t \in Typed PROVE TriesOK(t)'
  BY DEF FailuresInv
<1>6. TriesOK(t) /\ Trying(t)' \subseteq Trying(t)
  BY <1>2, NobodyTries DEF FailuresInv
<1>g. guesses \in [Typed -> Nat]
  BY DEF Typing, StoresOK, FailsOK
<1>7. CASE t # typed
  <2>1. FailureCount(t)' = FailureCount(t) /\ LockedUntil(t)' = LockedUntil(t) /\ guesses'[t] = guesses[t]
    BY <1>2, <1>4, <1>7, <1>g DEF FailureCount, LockedUntil
  <2>2. QED
    BY <1>2, <1>6, <2>1, TriesKept
<1>8. CASE t = typed
  <2>1. FailureCount(t)' = 0 /\ LockedUntil(t)' = 0 /\ guesses'[t] = 0
    BY <1>2, <1>4, <1>8, <1>g DEF FailureCount, LockedUntil
  <2>2. Cardinality(Trying(t)') <= Allowed(now)
    <3> DEFINE c == FailureCount(t)
               k == Cardinality(Trying(t))
               j == Cardinality(Trying(t)')
    <3>1. c + k <= Allowed(now)
      BY <1>6 DEF TriesOK
    <3>2. c \in Nat /\ k \in Nat /\ j \in Nat /\ j <= k /\ Allowed(now) \in Nat
      BY <1>6, FailureTypes, AllowedGrows, TryingCount, TryingNext, TryingLess DEF Typing
    <3> HIDE DEF c, k, j
    <3>3. j <= Allowed(now)
      BY <3>1, <3>2
    <3>4. QED
      BY <3>3 DEF j
  <2>3. Cardinality(Trying(t)') \in Nat
    BY TryingNext
  <2>4. QED
    BY <1>2, <2>1, <2>2, <2>3, Limits DEF TriesOK, Allowed
<1>9. QED
  BY <1>7, <1>8

LEMMA NoFailures ==
  ASSUME NEW t \in Typed, NEW a, NEW x \in Nat, a = NoEntries
  PROVE  /\ (IF t \in DOMAIN a THEN a[t].count ELSE 0) = 0
         /\ (IF t \in DOMAIN a THEN a[t].until ELSE 0) = 0
         /\ 0 <= Allowed(x) /\ Allowed(x) \in Nat /\ 0 < Threshold
<1>1. DOMAIN a = {}
  BY DEF NoEntries
<1>2. Allowed(x) \in Nat
  BY AllowedGrows
<1>3. QED
  BY <1>1, <1>2, Limits

LEMMA FailuresStep == Typing /\ FailuresInv /\ [Next]_vars => FailuresInv'
<1>1. SUFFICES ASSUME Typing, FailuresInv, [Next]_vars PROVE FailuresInv'
  OBVIOUS
<1>t. deployment \in Deployments /\ TaskOK /\ TableOK
  BY <1>1 DEF Typing, StoresOK, ClockOK
<1>2. ASSUME NEW w \in Workers, SessionTraffic(w) PROVE FailuresInv'
  <2>1. ASSUME NEW p \in Passwords, LoginVerify(w, p) PROVE FailuresInv'
    <3>1. /\ Goes(w, {"verify"}, {"fail", "reset", "resetOnly"}) /\ task'[w].typed = task[w].typed
          /\ UNCHANGED <<authFails, guesses, now>>
      BY <1>t, <2>1, SessionGoes DEF LoginVerify, Step, memory, history
    <3>2. \A t \in Typed : Trying(t)' \subseteq Trying(t)
      BY <3>1 DEF Goes, Trying
    <3>3. QED
      BY <1>1, <3>1, <3>2, FailuresQuiet
  <2>2. ASSUME \/ \E id \in 1..serial, right \in BOOLEAN : LoginCaptcha(w, id, right)
               \/ CreateSession(w)
        PROVE  FailuresInv'
    <3>1. UNCHANGED <<authFails, guesses, now>>
      BY <2>2 DEF LoginCaptcha, PassCaptcha, Begin, Arrive, CreateSession, Step, history
    <3>2. Goes(w, {"idle"}, {"idle", "login"}) \/ Goes(w, {"session"}, {"idle"})
      BY <1>t, <2>2, SessionGoes
    <3>3. \A t \in Typed : Trying(t)' \subseteq Trying(t)
      BY <3>2, NobodyTries
    <3>4. QED
      BY <1>1, <3>1, <3>3, FailuresQuiet
  <2>3. QED
    BY <1>1, <1>2, <2>1, <2>2, CheckFailures, FailFailures, ResetFailures DEF SessionTraffic
<1>3. ASSUME NEW w \in Workers,
             RegisterTraffic(w) \/ TwoFATraffic(w) \/ MailTraffic(w) \/ AdminTraffic(w)
      PROVE  FailuresInv'
  <2>1. UNCHANGED <<authFails, guesses, now>>
    BY <1>1, <1>3, RegisterFrame, FactorFrame, MailFrame, AdminFrame DEF memory
  <2>2. \A s \in {"verify", "fail"} : s \notin RegisterStages /\ s \notin FactorStages
                                      /\ s \notin MailStages /\ s \notin AdminStages
    BY DEF RegisterStages, FactorStages, MailStages, AdminStages
  <2>3. \A t \in Typed : Trying(t)' \subseteq Trying(t)
    BY <1>1, <1>3, <2>2, RegisterFrame, FactorFrame, MailFrame, AdminFrame, NobodyTries
  <2>4. QED
    BY <1>1, <2>1, <2>3, FailuresQuiet
<1>4. CASE \/ CaptchaHandler \/ \E n \in Clients, e \in Emails : EmailSendCode(n, e)
           \/ \E s \in sessions : DeleteSession(s)
           \/ Tick \/ UNCHANGED vars
  <2>1. /\ UNCHANGED <<authFails, guesses, task>> /\ now' \in {now, now + 1}
    BY <1>4 DEF CaptchaHandler, EmailSendCode, DeleteSession, Arrive, Step, Tick, vars, memory, history
  <2>2. \A t \in Typed : Trying(t)' \subseteq Trying(t)
    BY <2>1 DEF Trying
  <2>3. QED
    BY <1>1, <2>1, <2>2, FailuresQuiet
<1>5. CASE Crash
  <2>1. SUFFICES ASSUME NEW t \in Typed PROVE TriesOK(t)'
    BY DEF FailuresInv
  <2>2. /\ authFails' = NoEntries /\ guesses'[t] = 0 /\ now' = now /\ Trying(t)' = {}
    BY <1>5, IdleTask DEF Crash, Trying
  <2>3. now \in Nat
    BY <1>1, NumbersAre
  <2>4. FailureCount(t)' = 0 /\ LockedUntil(t)' = 0 /\ 0 <= Allowed(now) /\ 0 < Threshold
    BY <2>2, <2>3, NoFailures DEF FailureCount, LockedUntil
  <2>5. QED
    BY <2>2, <2>3, <2>4, FS_EmptySet, Limits DEF TriesOK, Allowed
<1>6. QED
  BY <1>1, <1>2, <1>3, <1>4, <1>5 DEF Next

\* The lock is read before the password is tried and set after it (handler/auth.go): a name
\* that never succeeds fails at most one time for each goroutine in a lock period, once the
\* threshold is reached.
THEOREM Failures == Spec => []FailuresBounded
<1>1. Init => FailuresInv
  <2>1. SUFFICES ASSUME Init, NEW t \in Typed PROVE TriesOK(t)
    BY DEF FailuresInv
  <2>2. authFails = NoEntries /\ guesses[t] = 0 /\ now = 0 /\ Trying(t) = {}
    BY <2>1, IdleTask DEF Init, Trying
  <2>3. FailureCount(t) = 0 /\ LockedUntil(t) = 0 /\ 0 <= Allowed(0) /\ 0 < Threshold
    BY <2>2, NoFailures DEF FailureCount, LockedUntil
  <2>4. QED
    BY <2>2, <2>3, FS_EmptySet, Limits DEF TriesOK
<1>2. Spec => []FailuresInv
  BY <1>1, StartTypes, FailuresStep, TypingHolds, PTL DEF Spec
<1>3. Typing /\ FailuresInv => FailuresBounded
  <2>1. SUFFICES ASSUME Typing, FailuresInv, NEW t \in Typed PROVE guesses[t] <= Allowed(now)
    BY DEF FailuresBounded, Allowed
  <2> DEFINE c == FailureCount(t)
             k == Cardinality(Trying(t))
  <2>2. guesses[t] = c /\ c + k <= Allowed(now)
    BY <2>1 DEF FailuresInv, TriesOK
  <2>3. c \in Nat /\ k \in Nat /\ Allowed(now) \in Nat
    BY <2>1, FailureTypes, TryingCount, AllowedGrows DEF Typing
  <2> HIDE DEF c, k
  <2>4. QED
    BY <2>2, <2>3
<1>4. QED
  BY <1>2, <1>3, TypingHolds, PTL

-------------------------------------------------------------------------------
(* Recovery codes                                                          *)

Gen(g) == {g} \X (1..RecoveryCodes)

\* The account of that name has a list of the generation with v codes or more; the
\* requests that took a code of it when it had v or more, and have not spent it yet.
Holds(us, n, g, v) ==
  \E i \in DOMAIN us : us[i].name = n /\ us[i].recovery \in SUBSET Gen(g) /\ Cardinality(us[i].recovery) >= v
Spending(ts, n, g, v) ==
  {w \in Workers : /\ ts[w].stage = "spend" /\ ts[w].name = n /\ ts[w].item = g
                   /\ ts[w].codes \in SUBSET Gen(g) /\ Cardinality(ts[w].codes) + 1 >= v}

\* How many goroutines may have v codes or more before them: all, as long as the account
\* has.
Before(us, ts, n, g) ==
  [v \in 1..RecoveryCodes |-> IF Holds(us, n, g, v) THEN Cardinality(Workers)
                              ELSE Cardinality(Spending(ts, n, g, v))]

\* The order in which a code that is admitted goes down, whatever list it leaves.
Under(b, a) == \E k \in 1..RecoveryCodes : /\ b[k] < a[k]
                                          /\ \A v \in 1..RecoveryCodes : v > k => b[v] <= a[v]
WaysUnder(a) == {b \in Ways : Under(b, a)}

Rest(us, ts, n, g) == Cardinality(WaysUnder(Before(us, ts, n, g)))

LEMMA GenSize ==
  ASSUME NEW g, NEW s \in SUBSET Gen(g)
  PROVE  IsFiniteSet(s) /\ Cardinality(s) \in Nat /\ Cardinality(s) <= RecoveryCodes
<1>1. RecoveryCodes \in Nat
  BY Limits
<1>2. IsFiniteSet(1..RecoveryCodes) /\ Cardinality(1..RecoveryCodes) = RecoveryCodes
  BY <1>1, FS_Interval
<1>3. IsFiniteSet({g}) /\ Cardinality({g}) = 1
  BY FS_Singleton
<1>4. IsFiniteSet(Gen(g)) /\ Cardinality(Gen(g)) = 1 * RecoveryCodes
  BY <1>2, <1>3, FS_Product, ZenonT(60) DEF Gen
<1>5. Cardinality(Gen(g)) = RecoveryCodes
  BY <1>1, <1>4
<1>6. QED
  BY <1>4, <1>5, FS_Subset, FS_CardinalityType

LEMMA WaysFinite == IsFiniteSet(Ways) /\ Cardinality(Ways) \in Nat
<1> DEFINE A == 1..RecoveryCodes
           B == 0..Cardinality(Workers)
           P == A \X B
           graph == [f \in Ways |-> {<<v, f[v]>> : v \in A}]
<1>1. IsFiniteSet(P)
  <2>1. IsFiniteSet(A) /\ IsFiniteSet(B)
    BY AllowedGrows, Limits, FS_Interval
  <2> HIDE DEF A, B
  <2>2. QED
    BY <2>1, FS_Product
<1>2. Ways \subseteq [A -> B]
  BY DEF Ways
<1> HIDE DEF A, B
<1>3. graph \in [Ways -> SUBSET P]
  BY <1>2
<1>4. ASSUME NEW f \in Ways, NEW h \in Ways, graph[f] = graph[h] PROVE f = h
  <2>1. f \in [A -> B] /\ h \in [A -> B]
    BY <1>2
  <2>2. ASSUME NEW v \in A PROVE f[v] = h[v]
    <3>1. <<v, f[v]>> \in graph[h]
      BY <1>4
    <3>2. PICK u \in A : <<v, f[v]>> = <<u, h[u]>>
      BY <3>1
    <3>3. QED
      BY <3>2
  <2>3. QED
    BY <2>1, <2>2
<1>5. graph \in Injection(Ways, SUBSET P)
  BY <1>3, <1>4 DEF Injection, IsInjective
<1> HIDE DEF graph, P
<1>6. QED
  BY <1>1, <1>5, FS_SUBSET, FS_Injection, FS_CardinalityType

LEMMA WaysAre == \A a \in Ways, v \in 1..RecoveryCodes : a[v] \in Nat
<1> DEFINE B == 0..Cardinality(Workers)
<1>1. \A a \in Ways : a \in [1..RecoveryCodes -> B]
  BY DEF Ways
<1>2. B \subseteq Nat
  BY WorkersAssumption, FS_CardinalityType
<1> HIDE DEF B
<1>3. QED
  BY <1>1, <1>2

LEMMA UnderIsAnOrder ==
  ASSUME NEW a \in Ways, NEW b \in Ways
  PROVE  /\ ~Under(a, a)
         /\ Under(b, a) => WaysUnder(b) \subseteq WaysUnder(a)
         /\ (\A v \in 1..RecoveryCodes : b[v] <= a[v]) => WaysUnder(b) \subseteq WaysUnder(a)
<1>1. ~Under(a, a)
  BY WaysAre DEF Under
<1>2. ASSUME Under(b, a), NEW c \in Ways, Under(c, b) PROVE Under(c, a)
  <2>1. PICK k \in 1..RecoveryCodes : b[k] < a[k] /\ \A v \in 1..RecoveryCodes : v > k => b[v] <= a[v]
    BY <1>2 DEF Under
  <2>2. PICK j \in 1..RecoveryCodes : c[j] < b[j] /\ \A v \in 1..RecoveryCodes : v > j => c[v] <= b[v]
    BY <1>2 DEF Under
  <2>3. \A v \in 1..RecoveryCodes : a[v] \in Nat /\ b[v] \in Nat /\ c[v] \in Nat /\ v \in Nat
    BY WaysAre, Limits
  <2>4. CASE j <= k
    <3>1. c[k] < a[k]
      BY <2>1, <2>2, <2>3, <2>4
    <3>2. \A v \in 1..RecoveryCodes : v > k => c[v] <= a[v]
      BY <2>1, <2>2, <2>3, <2>4
    <3>3. QED
      BY <3>1, <3>2 DEF Under
  <2>5. CASE j > k
    <3>1. c[j] < a[j]
      BY <2>1, <2>2, <2>3, <2>5
    <3>2. \A v \in 1..RecoveryCodes : v > j => c[v] <= a[v]
      BY <2>1, <2>2, <2>3, <2>5
    <3>3. QED
      BY <3>1, <3>2 DEF Under
  <2>6. QED
    BY <2>3, <2>4, <2>5
<1>3. ASSUME \A v \in 1..RecoveryCodes : b[v] <= a[v], NEW c \in Ways, Under(c, b) PROVE Under(c, a)
  <2>1. PICK j \in 1..RecoveryCodes : c[j] < b[j] /\ \A v \in 1..RecoveryCodes : v > j => c[v] <= b[v]
    BY <1>3 DEF Under
  <2>2. \A v \in 1..RecoveryCodes : a[v] \in Nat /\ b[v] \in Nat /\ c[v] \in Nat
    BY WaysAre
  <2>3. c[j] < a[j] /\ \A v \in 1..RecoveryCodes : v > j => c[v] <= a[v]
    BY <1>3, <2>1, <2>2
  <2>4. QED
    BY <2>3 DEF Under
<1>4. QED
  BY <1>1, <1>2, <1>3 DEF WaysUnder

LEMMA UnderCount ==
  ASSUME NEW a \in Ways
  PROVE  /\ Cardinality(WaysUnder(a)) \in Nat /\ Cardinality(WaysUnder(a)) <= Cardinality(Ways) - 1
         /\ \A b \in Ways :
              /\ (\A v \in 1..RecoveryCodes : b[v] <= a[v]) =>
                   Cardinality(WaysUnder(b)) <= Cardinality(WaysUnder(a))
              /\ Under(b, a) => Cardinality(WaysUnder(b)) + 1 <= Cardinality(WaysUnder(a))
<1>1. \A x : WaysUnder(x) \in SUBSET Ways
  BY DEF WaysUnder
<1>2. \A x : IsFiniteSet(WaysUnder(x)) /\ Cardinality(WaysUnder(x)) \in Nat
  BY <1>1, WaysFinite, FS_Subset, FS_CardinalityType
<1>3. \A x \in Ways : x \notin WaysUnder(x)
  BY UnderIsAnOrder DEF WaysUnder
<1>4. Cardinality(WaysUnder(a)) <= Cardinality(Ways) - 1
  <2>1. IsFiniteSet(Ways \ {a}) /\ Cardinality(Ways \ {a}) = Cardinality(Ways) - 1
    BY WaysFinite, FS_RemoveElement
  <2>2. WaysUnder(a) \subseteq Ways \ {a}
    BY <1>1, <1>3
  <2>3. QED
    BY <2>1, <2>2, FS_Subset
<1>5. ASSUME NEW b \in Ways, \A v \in 1..RecoveryCodes : b[v] <= a[v]
      PROVE  Cardinality(WaysUnder(b)) <= Cardinality(WaysUnder(a))
  <2>1. WaysUnder(b) \subseteq WaysUnder(a)
    BY <1>5, UnderIsAnOrder
  <2>2. QED
    BY <1>2, <2>1, FS_Subset
<1>6. ASSUME NEW b \in Ways, Under(b, a)
      PROVE  Cardinality(WaysUnder(b)) + 1 <= Cardinality(WaysUnder(a))
  <2>1. b \in WaysUnder(a) /\ WaysUnder(b) \subseteq WaysUnder(a) \ {b}
    BY <1>3, <1>6, UnderIsAnOrder DEF WaysUnder
  <2>2. /\ IsFiniteSet(WaysUnder(a) \ {b})
        /\ Cardinality(WaysUnder(a) \ {b}) = Cardinality(WaysUnder(a)) - 1
    BY <1>2, <2>1, FS_RemoveElement
  <2>3. Cardinality(WaysUnder(b)) <= Cardinality(WaysUnder(a) \ {b})
    BY <2>1, <2>2, FS_Subset
  <2>4. QED
    BY <1>2, <2>2, <2>3
<1>7. QED
  BY <1>2, <1>4, <1>5, <1>6

LEMMA SpendingCount ==
  ASSUME NEW ts, NEW n, NEW g, NEW v
  PROVE  /\ IsFiniteSet(Spending(ts, n, g, v)) /\ Cardinality(Spending(ts, n, g, v)) \in Nat
         /\ Cardinality(Spending(ts, n, g, v)) <= Cardinality(Workers) /\ Cardinality(Workers) \in Nat
<1>1. Spending(ts, n, g, v) \in SUBSET Workers
  BY DEF Spending
<1>2. QED
  BY <1>1, WorkersAssumption, FS_Subset, FS_CardinalityType

LEMMA BeforeIsAWay == ASSUME NEW us, NEW ts, NEW n, NEW g PROVE Before(us, ts, n, g) \in Ways
<1> DEFINE a == Before(us, ts, n, g)
<1>1. a \in [1..RecoveryCodes -> 0..Cardinality(Workers)]
  <2>1. \A v \in 1..RecoveryCodes : a[v] \in 0..Cardinality(Workers)
    BY SpendingCount DEF Before
  <2>2. a = [v \in 1..RecoveryCodes |-> a[v]]
    BY DEF Before
  <2> HIDE DEF a
  <2>3. QED
    BY <2>1, <2>2
<1>2. ASSUME NEW u \in 1..RecoveryCodes, NEW v \in 1..RecoveryCodes, u <= v PROVE a[v] <= a[u]
  <2>n. u \in Nat /\ v \in Nat
    BY Limits
  <2>1. Holds(us, n, g, v) => Holds(us, n, g, u)
    <3>1. SUFFICES ASSUME NEW i \in DOMAIN us, us[i].name = n, us[i].recovery \in SUBSET Gen(g),
                          Cardinality(us[i].recovery) >= v
                   PROVE  Cardinality(us[i].recovery) >= u
      BY DEF Holds
    <3>2. Cardinality(us[i].recovery) \in Nat
      BY <3>1, GenSize
    <3>3. QED
      BY <1>2, <2>n, <3>1, <3>2
  <2>2. Spending(ts, n, g, v) \subseteq Spending(ts, n, g, u)
    <3>1. SUFFICES ASSUME NEW w \in Workers, ts[w].codes \in SUBSET Gen(g),
                          Cardinality(ts[w].codes) + 1 >= v
                   PROVE  Cardinality(ts[w].codes) + 1 >= u
      BY DEF Spending
    <3>2. Cardinality(ts[w].codes) \in Nat
      BY <3>1, GenSize
    <3>3. QED
      BY <1>2, <2>n, <3>1, <3>2
  <2>3. Cardinality(Spending(ts, n, g, v)) <= Cardinality(Spending(ts, n, g, u))
    BY <2>2, SpendingCount, FS_Subset
  <2>4. a[v] = (IF Holds(us, n, g, v) THEN Cardinality(Workers) ELSE Cardinality(Spending(ts, n, g, v)))
        /\ a[u] = (IF Holds(us, n, g, u) THEN Cardinality(Workers) ELSE Cardinality(Spending(ts, n, g, u)))
    BY DEF Before
  <2> HIDE DEF a
  <2>5. QED
    BY <2>1, <2>3, <2>4, SpendingCount
<1> HIDE DEF a
<1>3. QED
  BY <1>1, <1>2 DEF Ways, a

LEMMA BeforeAt ==
  ASSUME NEW us, NEW ts, NEW n, NEW g, NEW v \in 1..RecoveryCodes
  PROVE  /\ Holds(us, n, g, v) => Before(us, ts, n, g)[v] = Cardinality(Workers)
         /\ ~Holds(us, n, g, v) => Before(us, ts, n, g)[v] = Cardinality(Spending(ts, n, g, v))
BY DEF Before

OfOneGeneration == \A i \in Rows : \E g \in 0..(serial - 1) : users[i].recovery \in SUBSET Gen(g)
SpendsOK ==
  \A w \in Workers : task[w].stage = "spend" =>
    /\ task[w].item < serial /\ task[w].codes \in SUBSET Gen(task[w].item)
    /\ Cardinality(task[w].codes) < RecoveryCodes
SpentOK  == \A k \in DOMAIN spent : k[2] < serial

\* The codes that were admitted and the ways that are left add up to no more than there are.
AdmitsOK ==
  \A n \in Names \ renamed, g \in 0..(serial - 1) :
    Counted(spent, <<n, g>>) + Rest(users, task, n, g) <= Cardinality(Ways) - 1

RecoveryInv == OfOneGeneration /\ SpendsOK /\ SpentOK /\ AdmitsOK

LEMMA RestNext == \A n, g : Rest(users, task, n, g)' = Rest(users', task', n, g)
BY DEF Rest, Before, Holds, Spending, WaysUnder, Under

LEMMA AdmitsNext ==
  AdmitsOK' <=> \A n \in Names \ renamed', g \in 0..(serial' - 1) :
                  Counted(spent', <<n, g>>) + Rest(users', task', n, g) <= Cardinality(Ways) - 1
BY RestNext DEF AdmitsOK, Counted, Ways

LEMMA RestCount ==
  ASSUME NEW us, NEW ts, NEW n, NEW g
  PROVE  Rest(us, ts, n, g) \in Nat /\ Rest(us, ts, n, g) <= Cardinality(Ways) - 1
BY BeforeIsAWay, UnderCount DEF Rest

LEMMA SpentCount ==
  ASSUME Typing
  PROVE  \A k : Counted(spent, k) \in Nat
BY DEF Typing, StoresOK, HistoryOK, Counted, Range

\* Of what is before the goroutines in one generation of an account, nothing grows.
Sinks(n, g) ==
  \A v \in 1..RecoveryCodes :
    \/ Holds(users, n, g, v)
    \/ ~Holds(users', n, g, v) /\ Spending(task', n, g, v) \subseteq Spending(task, n, g, v)

LEMMA SinksAt ==
  ASSUME NEW n, NEW g, NEW v \in 1..RecoveryCodes,
         \/ Holds(users, n, g, v)
         \/ ~Holds(users', n, g, v) /\ Spending(task', n, g, v) \subseteq Spending(task, n, g, v)
  PROVE  Before(users', task', n, g)[v] <= Before(users, task, n, g)[v]
<1> DEFINE a == Before(users, task, n, g)
           b == Before(users', task', n, g)
<1>1. a \in Ways /\ b \in Ways
  BY BeforeIsAWay
<1>2. b[v] <= Cardinality(Workers) /\ b[v] \in Nat /\ a[v] \in Nat
  BY <1>1, WaysAre DEF Ways
<1>3. CASE Holds(users, n, g, v)
  BY <1>2, <1>3, BeforeAt
<1>4. CASE /\ ~Holds(users, n, g, v) /\ ~Holds(users', n, g, v)
           /\ Spending(task', n, g, v) \subseteq Spending(task, n, g, v)
  <2>1. Cardinality(Spending(task', n, g, v)) <= Cardinality(Spending(task, n, g, v))
    BY <1>4, SpendingCount, FS_Subset
  <2>2. QED
    BY <1>4, <2>1, BeforeAt
<1>5. QED
  BY <1>3, <1>4

LEMMA SinksRest ==
  ASSUME NEW n, NEW g, Sinks(n, g) PROVE Rest(users', task', n, g) <= Rest(users, task, n, g)
<1> DEFINE a == Before(users, task, n, g)
           b == Before(users', task', n, g)
<1>1. a \in Ways /\ b \in Ways
  BY BeforeIsAWay
<1>2. \A v \in 1..RecoveryCodes : b[v] <= a[v]
  BY SinksAt DEF Sinks
<1> HIDE DEF a, b
<1>3. Cardinality(WaysUnder(b)) <= Cardinality(WaysUnder(a))
  BY <1>1, <1>2, UnderCount
<1>4. QED
  BY <1>3 DEF Rest, a, b

\* A generation that has only begun.
LEMMA NewGeneration ==
  ASSUME Typing, SpentOK, NEW n, NEW us, NEW ts
  PROVE  Counted(spent, <<n, serial>>) + Rest(us, ts, n, serial) <= Cardinality(Ways) - 1
<1>1. <<n, serial>> \notin DOMAIN spent
  <2>1. SUFFICES ASSUME <<n, serial>> \in DOMAIN spent PROVE FALSE
    OBVIOUS
  <2>2. <<n, serial>>[2] < serial
    BY <2>1 DEF SpentOK
  <2>3. QED
    BY <2>2, NumbersAre
<1>2. Counted(spent, <<n, serial>>) = 0
  BY <1>1 DEF Counted
<1>3. QED
  BY <1>2, RestCount, WaysFinite

LEMMA AdmitsKept ==
  ASSUME Typing, RecoveryInv, spent' = spent, renamed \subseteq renamed',
         serial' \in {serial, serial + 1},
         \A n \in Names \ renamed', g \in 0..(serial - 1) : Sinks(n, g)
  PROVE  SpentOK' /\ AdmitsOK'
<1>1. serial \in Nat /\ serial' \in Nat /\ serial <= serial'
  BY NumbersAre
<1>2. SpentOK'
  <2>1. \A k \in DOMAIN spent : k[2] \in Nat /\ k[2] < serial
    BY DEF RecoveryInv, SpentOK, Typing, StoresOK, HistoryOK
  <2>2. QED
    BY <1>1, <2>1 DEF SpentOK
<1>3. ASSUME NEW n \in Names \ renamed', NEW g \in 0..(serial' - 1)
      PROVE  Counted(spent, <<n, g>>) + Rest(users', task', n, g) <= Cardinality(Ways) - 1
  <2> DEFINE r == Rest(users, task, n, g)
             s == Rest(users', task', n, g)
             c == Counted(spent, <<n, g>>)
             m == Cardinality(Ways)
  <2>1. r \in Nat /\ s \in Nat /\ c \in Nat /\ m \in Nat
    BY RestCount, SpentCount, WaysFinite
  <2>2. CASE g < serial
    <3>1. g \in 0..(serial - 1) /\ n \in Names \ renamed
      BY <1>1, <2>2
    <3>2. c + r <= m - 1
      BY <3>1 DEF RecoveryInv, AdmitsOK
    <3>3. s <= r
      BY <3>1, SinksRest
    <3> HIDE DEF r, s, c, m
    <3>4. c + s <= m - 1
      BY <2>1, <3>2, <3>3
    <3>5. QED
      BY <3>4 DEF s, c, m
  <2>3. CASE g = serial
    BY <2>3, NewGeneration DEF RecoveryInv
  <2>4. g < serial \/ g = serial
    <3>1. \A a \in Nat : \A b \in {a, a + 1} : \A d \in 0..(b - 1) : d < a \/ d = a
      OBVIOUS
    <3>2. QED
      BY <1>1, <3>1
  <2>5. QED
    BY <2>2, <2>3, <2>4
<1>4. AdmitsOK'
  BY <1>3, AdmitsNext
<1>5. QED
  BY <1>2, <1>4

\* The lists of the rows are old ones, or empty.
ListsCarried ==
  \A j \in Rows' :
    \/ users'[j].recovery = {}
    \/ \E k \in Rows : /\ users'[j].recovery = users[k].recovery
                      /\ users'[j].name \in {users[k].name} \union renamed'

LEMMA ListsQuiet ==
  ASSUME Typing, RecoveryInv, ListsCarried, spent' = spent, renamed \subseteq renamed',
         serial' \in {serial, serial + 1},
         \A w \in Workers : task'[w].stage = "spend" => task'[w] = task[w]
  PROVE  RecoveryInv'
<1>1. serial \in Nat \ {0} /\ serial' \in Nat \ {0} /\ serial <= serial'
  <2>1. serial \in Nat \ {0}
    BY DEF Typing, StoresOK, SerialOK
  <2>2. QED
    BY <2>1
<1>2. 0 \in 0..(serial' - 1) /\ \A g \in 0..(serial - 1) : g \in 0..(serial' - 1)
  <2>1. \A a, b \in Nat \ {0} : a <= b => 0 \in 0..(b - 1) /\ 0..(a - 1) \subseteq 0..(b - 1)
    OBVIOUS
  <2>2. QED
    BY <1>1, <2>1
<1>3. OfOneGeneration'
  BY <1>1, <1>2 DEF RecoveryInv, OfOneGeneration, ListsCarried
<1>4. SpendsOK'
  <2>1. \A w \in Workers : task[w].item \in Nat
    BY DEF Typing, TaskOK, Task
  <2>2. QED
    BY <1>1, <2>1 DEF RecoveryInv, SpendsOK
<1>5. ASSUME NEW n \in Names \ renamed', NEW g PROVE Sinks(n, g)
  <2>1. ASSUME NEW v \in 1..RecoveryCodes, Holds(users', n, g, v) PROVE Holds(users, n, g, v)
    <3>1. PICK j \in Rows' : /\ users'[j].name = n /\ users'[j].recovery \in SUBSET Gen(g)
                             /\ Cardinality(users'[j].recovery) >= v
      BY <2>1 DEF Holds, Rows
    <3>2. users'[j].recovery # {}
      BY <3>1, FS_EmptySet
    <3>3. QED
      BY <3>1, <3>2 DEF ListsCarried, Holds, Rows
  <2>2. \A v \in 1..RecoveryCodes : Spending(task', n, g, v) \subseteq Spending(task, n, g, v)
    BY DEF Spending
  <2>3. QED
    BY <2>1, <2>2 DEF Sinks
<1>6. QED
  BY <1>3, <1>4, <1>5, AdmitsKept DEF RecoveryInv

LEMMA NobodySpends ==
  ASSUME NEW w, NEW from, NEW to, Goes(w, from, to), "spend" \notin to
  PROVE  \A v \in Workers : task'[v].stage = "spend" => task'[v] = task[v]
BY StaysOut

LEMMA CarriedLists == Carried => ListsCarried
BY DEF Carried, ListsCarried

\* A code is taken: the account still holds what the request did.
LEMMA TakeRecovery ==
  ASSUME Typing, RecoveryInv, NEW w \in Workers, NEW i \in Rows, NEW code \in users[i].recovery,
         VerifyRecovery(w, users[i].name, code)
  PROVE  RecoveryInv'
<1> DEFINE s == users[i].recovery
           t == task'[w]
<1>1. /\ Goes(w, {"idle"}, {"spend"}) /\ t.name = users[i].name /\ t.item = code[1]
      /\ t.codes = s \ {code} /\ UNCHANGED <<users, spent, renamed, serial>>
  BY FactorGoes DEF Typing, StoresOK, ClockOK, VerifyRecovery, memory, history
<1>2. PICK g \in 0..(serial - 1) : s \in SUBSET Gen(g)
  BY DEF RecoveryInv, OfOneGeneration
<1>3. t.item = g /\ serial \in Nat
  BY <1>1, <1>2, NumbersAre DEF Gen
<1>4. /\ Cardinality(s) \in Nat /\ Cardinality(s) <= RecoveryCodes
      /\ Cardinality(t.codes) = Cardinality(s) - 1 /\ t.codes \in SUBSET Gen(g)
  BY <1>1, <1>2, GenSize, FS_RemoveElement
<1>5. SpendsOK'
  <2>1. g < serial /\ Cardinality(t.codes) < RecoveryCodes
    BY <1>3, <1>4, Limits
  <2>2. ASSUME NEW v \in Workers, task'[v].stage = "spend"
        PROVE  /\ task'[v].item < serial' /\ task'[v].codes \in SUBSET Gen(task'[v].item)
               /\ Cardinality(task'[v].codes) < RecoveryCodes
    <3>1. CASE v = w
      BY <1>1, <1>3, <1>4, <2>1, <3>1
    <3>2. CASE v # w
      BY <1>1, <2>2, <3>2 DEF Goes, RecoveryInv, SpendsOK
    <3>3. QED
      BY <3>1, <3>2
  <2>3. QED
    BY <2>2 DEF SpendsOK
<1>6. ASSUME NEW n, NEW h PROVE Sinks(n, h)
  <2>1. SUFFICES ASSUME NEW v \in 1..RecoveryCodes, ~Holds(users, n, h, v)
                 PROVE  Spending(task', n, h, v) \subseteq Spending(task, n, h, v)
    BY <1>1 DEF Sinks
  <2>2. w \notin Spending(task', n, h, v)
    <3>1. SUFFICES ASSUME t.name = n, t.item = h, Cardinality(t.codes) + 1 >= v PROVE FALSE
      BY DEF Spending
    <3>2. users[i].name = n /\ s \in SUBSET Gen(h) /\ Cardinality(s) >= v
      BY <1>1, <1>2, <1>3, <1>4, <3>1
    <3>3. QED
      BY <2>1, <3>2 DEF Holds, Rows
  <2>3. QED
    BY <1>1, <2>2 DEF Goes, Spending
<1>7. OfOneGeneration'
  BY <1>1 DEF RecoveryInv, OfOneGeneration, Rows
<1>8. SpentOK' /\ AdmitsOK'
  BY <1>1, <1>6, AdmitsKept
<1>9. QED
  BY <1>5, <1>7, <1>8 DEF RecoveryInv

LEMMA ListWritten ==
  ASSUME TableOK, NEW n, NEW codes \in SUBSET (Nat \X (1..RecoveryCodes)), SetUserRecovery(n, codes)
  PROVE  /\ SameRows
         /\ \A i \in Rows : /\ users[i].name = n => users'[i].recovery = codes
                            /\ users[i].name # n => users'[i] = users[i]
<1>1. \A c \in SUBSET (Nat \X (1..RecoveryCodes)) : SetUserRecovery(n, c) =>
        /\ SameRows
        /\ \A i \in Rows :
             /\ users'[i].secret = users[i].secret /\ users'[i].twofa = users[i].twofa
             /\ users[i].name = n => users'[i].recovery = c
             /\ users[i].name # n => users'[i] = users[i]
  BY EditsByName, SMTT(60)
<1>2. QED
  BY <1>1, Zenon

\* A new list is of a generation of its own.
LEMMA MakeRecovery ==
  ASSUME Typing, RecoveryInv, NEW w \in Workers, StoreRecovery(w) PROVE RecoveryInv'
<1> DEFINE n == task[w].name
           new == Gen(serial)
<1>1. /\ Goes(w, {"recovery"}, {"idle"}) /\ UNCHANGED <<spent, renamed>> /\ serial' = serial + 1
      /\ SetUserRecovery(n, new)
  BY FactorGoes DEF Typing, StoresOK, ClockOK, StoreRecovery, history, Draw, Gen
<1>2. serial \in Nat
  BY NumbersAre
<1>3. new \in SUBSET (Nat \X (1..RecoveryCodes)) /\ \A h : new \in SUBSET Gen(h) => h = serial
  <2>1. <<serial, 1>> \in new
    BY Limits DEF Gen
  <2>2. QED
    BY <1>2, <2>1 DEF Gen
<1>4. TableOK
  BY DEF Typing
<1> HIDE DEF n, new
<1>5. /\ SameRows
      /\ \A i \in Rows : /\ users[i].name = n => users'[i].recovery = new
                         /\ users[i].name # n => users'[i] = users[i]
  BY <1>1, <1>3, <1>4, ListWritten, Zenon
<1>6. OfOneGeneration'
  <2>1. SUFFICES ASSUME NEW i \in Rows
                 PROVE  \E g \in 0..(serial' - 1) : users'[i].recovery \in SUBSET Gen(g)
    BY <1>5 DEF OfOneGeneration, SameRows
  <2>2. serial \in 0..(serial' - 1) /\ \A g \in 0..(serial - 1) : g \in 0..(serial' - 1)
    BY <1>1, <1>2
  <2>3. CASE users[i].name = n
    BY <1>5, <2>2, <2>3 DEF new
  <2>4. CASE users[i].name # n
    BY <1>5, <2>2, <2>4 DEF RecoveryInv, OfOneGeneration
  <2>5. QED
    BY <2>3, <2>4
<1>7. \A v \in Workers : task'[v].stage = "spend" => task'[v] = task[v]
  BY <1>1, StaysOut
<1>8. SpendsOK'
  <2>1. \A v \in Workers : task[v].item \in Nat
    BY DEF Typing, TaskOK, Task
  <2>2. \A v \in Workers : task[v].item < serial => task[v].item < serial'
    BY <1>1, <1>2, <2>1
  <2>3. QED
    BY <1>7, <2>2 DEF RecoveryInv, SpendsOK
<1>9. ASSUME NEW m, NEW g \in 0..(serial - 1) PROVE Sinks(m, g)
  <2>1. ASSUME NEW v, Holds(users', m, g, v) PROVE Holds(users, m, g, v)
    <3>1. PICK j \in Rows : /\ users'[j].name = m /\ users'[j].recovery \in SUBSET Gen(g)
                            /\ Cardinality(users'[j].recovery) >= v
      BY <1>5, <2>1 DEF Holds, SameRows, Rows
    <3>2. g # serial
      BY <1>2
    <3>3. users[j].name # n
      BY <1>3, <1>5, <3>1, <3>2
    <3>4. QED
      BY <1>5, <3>1, <3>3 DEF Holds, Rows
  <2>2. \A v : Spending(task', m, g, v) \subseteq Spending(task, m, g, v)
    BY <1>7 DEF Spending
  <2>3. QED
    BY <2>1, <2>2 DEF Sinks
<1>10. SpentOK' /\ AdmitsOK'
  BY <1>1, <1>9, AdmitsKept
<1>11. QED
  BY <1>6, <1>8, <1>10 DEF RecoveryInv

\* The shorter list is written, whatever list there is by then: the codes it leaves are
\* fewer than the goroutine had before it.
LEMMA SpentList ==
  ASSUME Typing, RecoveryInv, NEW w \in Workers, SpendRecovery(w)
  PROVE  /\ Goes(w, {"spend"}, {"session"}) /\ task[w].stage = "spend"
         /\ UNCHANGED <<renamed, serial>> /\ spent' = OneMore(spent, <<task[w].name, task[w].item>>)
         /\ task[w].item \in 0..(serial - 1) /\ task[w].codes \in SUBSET Gen(task[w].item)
         /\ Cardinality(task[w].codes) \in Nat /\ Cardinality(task[w].codes) < RecoveryCodes
         /\ SameRows
         /\ \A i \in Rows : /\ users[i].name = task[w].name => users'[i].recovery = task[w].codes
                            /\ users[i].name # task[w].name => users'[i] = users[i]
<1> DEFINE n == task[w].name
           g == task[w].item
           left == task[w].codes
<1>1. /\ Goes(w, {"spend"}, {"session"}) /\ task[w].stage = "spend"
      /\ UNCHANGED <<renamed, serial>> /\ spent' = OneMore(spent, <<n, g>>)
      /\ SetUserRecovery(n, left)
  BY FactorGoes DEF Typing, StoresOK, ClockOK, SpendRecovery, At
<1>2. TableOK /\ g \in Nat /\ left \in SUBSET (Nat \X (1..RecoveryCodes))
  BY DEF Typing, TaskOK, Task
<1>3. g < serial /\ left \in SUBSET Gen(g) /\ Cardinality(left) < RecoveryCodes
  BY <1>1 DEF RecoveryInv, SpendsOK
<1>4. g \in 0..(serial - 1) /\ Cardinality(left) \in Nat
  BY <1>2, <1>3, NumbersAre, GenSize
<1> HIDE DEF n, g, left
<1>5. /\ SameRows
      /\ \A i \in Rows : /\ users[i].name = n => users'[i].recovery = left
                         /\ users[i].name # n => users'[i] = users[i]
  BY <1>1, <1>2, ListWritten, Zenon
<1>6. QED
  BY <1>1, <1>3, <1>4, <1>5 DEF n, g, left

LEMMA SpendRest ==
  ASSUME Typing, RecoveryInv, NEW w \in Workers, SpendRecovery(w)
  PROVE  /\ Rest(users', task', task[w].name, task[w].item) + 1
                <= Rest(users, task, task[w].name, task[w].item)
         /\ \A m, h : <<m, h>> # <<task[w].name, task[w].item>> => Sinks(m, h)
<1> DEFINE n == task[w].name
           g == task[w].item
           left == task[w].codes
           k == Cardinality(left) + 1
           a == Before(users, task, n, g)
           b == Before(users', task', n, g)
<1>1. /\ Goes(w, {"spend"}, {"session"}) /\ task[w].stage = "spend"
      /\ left \in SUBSET Gen(g) /\ Cardinality(left) \in Nat /\ Cardinality(left) < RecoveryCodes
      /\ Rows' = Rows /\ \A i \in Rows : users'[i].name = users[i].name
      /\ \A i \in Rows : /\ users[i].name = n => users'[i].recovery = left
                         /\ users[i].name # n => users'[i] = users[i]
  BY SpentList DEF SameRows
<1>2. k \in 1..RecoveryCodes /\ k \in Nat
  BY <1>1, Limits
<1>3. \A m, h, v : Spending(task', m, h, v) \subseteq Spending(task, m, h, v) \ {w}
  BY <1>1, StaysOut DEF Spending, Goes
<1>4. ASSUME NEW m, NEW h, NEW v \in 1..RecoveryCodes, ~Holds(users, m, h, v), Holds(users', m, h, v)
      PROVE  m = n /\ h = g /\ v < k
  <2>1. PICK j \in Rows : /\ users'[j].name = m /\ users'[j].recovery \in SUBSET Gen(h)
                          /\ Cardinality(users'[j].recovery) >= v
    BY <1>1, <1>4 DEF Holds, Rows
  <2>2. users[j].name = n
    BY <1>1, <1>4, <2>1 DEF Holds, Rows
  <2>3. m = n /\ left \in SUBSET Gen(h) /\ Cardinality(left) >= v
    <3>1. users'[j].name = users[j].name
      BY <1>1
    <3>2. users'[j].recovery = left
      BY <1>1, <2>2
    <3> HIDE DEF n, left
    <3>3. QED
      BY <2>1, <2>2, <3>1, <3>2
  <2>4. v \in Nat \ {0}
    BY Limits
  <2>5. left # {}
    <3>1. Cardinality(left) # 0
      BY <1>1, <2>3, <2>4
    <3>2. QED
      BY <3>1, FS_EmptySet
  <2>6. h = g
    BY <1>1, <2>3, <2>5 DEF Gen
  <2>7. QED
    BY <1>1, <2>3, <2>4, <2>6
<1>5. ASSUME NEW m, NEW h, <<m, h>> # <<n, g>> PROVE Sinks(m, h)
  BY <1>3, <1>4, <1>5 DEF Sinks
<1>6. \A v \in 1..RecoveryCodes : v > k => b[v] <= a[v]
  <2>1. SUFFICES ASSUME NEW v \in 1..RecoveryCodes, v > k PROVE b[v] <= a[v]
    OBVIOUS
  <2>2. v \in Nat
    BY Limits
  <2>3. Holds(users, n, g, v) \/ ~Holds(users', n, g, v)
    BY <1>2, <1>4, <2>1, <2>2
  <2>4. QED
    BY <1>3, <2>3, SinksAt
<1>7. b[k] < a[k]
  <2> DEFINE W == Cardinality(Workers)
             x == Cardinality(Spending(task, n, g, k))
             y == Cardinality(Spending(task', n, g, k))
  <2>1. w \in Spending(task, n, g, k)
    BY <1>1, <1>2 DEF Spending
  <2>2. x \in Nat /\ y \in Nat /\ W \in Nat /\ x <= W
    BY SpendingCount
  <2>3. y <= x - 1
    <3>1. /\ IsFiniteSet(Spending(task, n, g, k) \ {w})
          /\ Cardinality(Spending(task, n, g, k) \ {w}) = x - 1
      BY <2>1, SpendingCount, FS_RemoveElement
    <3>2. QED
      BY <1>3, <3>1, FS_Subset
  <2>4. ~Holds(users', n, g, k)
    <3>1. ASSUME Holds(users', n, g, k) PROVE FALSE
      <4>1. PICK j \in Rows : users[j].name = n /\ Cardinality(users'[j].recovery) >= k
        BY <1>1, <3>1 DEF Holds, Rows
      <4>2. Cardinality(left) >= k
        BY <1>1, <4>1
      <4>3. QED
        BY <1>1, <4>2
    <3>2. QED
      BY <3>1
  <2>5. b[k] = y /\ a[k] \in {x, W}
    BY <1>2, <2>4, BeforeAt
  <2> HIDE DEF x, y, W, a, b, k
  <2>6. QED
    BY <2>2, <2>3, <2>5
<1>8. a \in Ways /\ b \in Ways
  BY BeforeIsAWay
<1> HIDE DEF a, b, k
<1>9. Under(b, a)
  BY <1>2, <1>6, <1>7 DEF Under
<1>10. Cardinality(WaysUnder(b)) + 1 <= Cardinality(WaysUnder(a))
  BY <1>8, <1>9, UnderCount
<1>11. QED
  BY <1>5, <1>10 DEF Rest, a, b

LEMMA CountedMore ==
  ASSUME NEW f, Range(f) \subseteq Nat, NEW x
  PROVE  /\ Counted(OneMore(f, x), x) = Counted(f, x) + 1
         /\ \A y : y # x => Counted(OneMore(f, x), y) = Counted(f, y)
<1>1. /\ DOMAIN OneMore(f, x) = DOMAIN f \union {x} /\ OneMore(f, x)[x] = Counted(f, x) + 1
      /\ \A y \in DOMAIN f : y # x => OneMore(f, x)[y] = f[y]
  BY OneMoreType
<1>2. Counted(OneMore(f, x), x) = OneMore(f, x)[x]
  BY <1>1 DEF Counted
<1>3. ASSUME NEW y, y # x PROVE Counted(OneMore(f, x), y) = Counted(f, y)
  BY <1>1, <1>3 DEF Counted
<1>4. QED
  BY <1>1, <1>2, <1>3

LEMMA GiveUpRecovery ==
  ASSUME Typing, RecoveryInv, NEW w \in Workers, SpendRecovery(w) PROVE RecoveryInv'
<1> DEFINE n == task[w].name
           g == task[w].item
           left == task[w].codes
<1>1. /\ Goes(w, {"spend"}, {"session"}) /\ UNCHANGED <<renamed, serial>>
      /\ spent' = OneMore(spent, <<n, g>>)
      /\ g \in 0..(serial - 1) /\ left \in SUBSET Gen(g) /\ SameRows
      /\ \A i \in Rows : /\ users[i].name = n => users'[i].recovery = left
                         /\ users[i].name # n => users'[i] = users[i]
  BY SpentList
<1>2. /\ Rest(users', task', n, g) + 1 <= Rest(users, task, n, g)
      /\ \A m, h : <<m, h>> # <<n, g>> => Sinks(m, h)
  BY SpendRest
<1>3. serial \in Nat /\ Range(spent) \subseteq Nat
  BY NumbersAre DEF Typing, StoresOK, HistoryOK
<1> HIDE DEF n, g, left
<1>4. OfOneGeneration'
  BY <1>1 DEF RecoveryInv, OfOneGeneration, SameRows
<1>5. SpendsOK'
  BY <1>1, StaysOut DEF RecoveryInv, SpendsOK
<1>6. SpentOK'
  <2>1. DOMAIN spent' = DOMAIN spent \union {<<n, g>>}
    BY <1>1, <1>3, OneMoreType
  <2>2. <<n, g>>[2] < serial
    BY <1>1, <1>3
  <2>3. QED
    BY <1>1, <2>1, <2>2 DEF RecoveryInv, SpentOK
<1>7. ASSUME NEW m \in Names \ renamed, NEW h \in 0..(serial - 1)
      PROVE  Counted(spent', <<m, h>>) + Rest(users', task', m, h) <= Cardinality(Ways) - 1
  <2> DEFINE r == Rest(users, task, m, h)
             s == Rest(users', task', m, h)
             c == Counted(spent, <<m, h>>)
             d == Counted(spent', <<m, h>>)
             t == Cardinality(Ways)
  <2>1. r \in Nat /\ s \in Nat /\ c \in Nat /\ t \in Nat
    BY RestCount, SpentCount, WaysFinite
  <2>2. c + r <= t - 1
    BY DEF RecoveryInv, AdmitsOK
  <2>3. (d = c + 1 /\ s + 1 <= r) \/ (d = c /\ s <= r)
    <3>1. CASE <<m, h>> = <<n, g>>
      BY <1>1, <1>2, <1>3, <3>1, CountedMore
    <3>2. CASE <<m, h>> # <<n, g>>
      BY <1>1, <1>2, <1>3, <3>2, CountedMore, SinksRest
    <3>3. QED
      BY <3>1, <3>2
  <2> HIDE DEF r, s, c, d, t
  <2>4. d + s <= t - 1
    BY <2>1, <2>2, <2>3
  <2>5. QED
    BY <2>4 DEF d, s, t
<1>8. AdmitsOK'
  BY <1>1, <1>7, AdmitsNext
<1>9. QED
  BY <1>4, <1>5, <1>6, <1>8 DEF RecoveryInv

LEMMA KeyWritten ==
  ASSUME TableOK, NEW n, NEW secret \in Nat, NEW enabled \in BOOLEAN, SetUser2FA(n, secret, enabled)
  PROVE  SameRows /\ \A i \in Rows : users'[i].recovery = users[i].recovery
<1>1. \A key \in Nat, need \in BOOLEAN : SetUser2FA(n, key, need) =>
        /\ SameRows
        /\ \A i \in Rows :
             /\ users'[i].recovery = users[i].recovery
             /\ users[i].name = n => users'[i].secret = key /\ users'[i].twofa = need
             /\ users[i].name # n => users'[i] = users[i]
  BY EditsByName, SMTT(60)
<1>2. SameRows
  BY <1>1, Zenon
<1>3. QED
  BY <1>1, <1>2, Zenon

LEMMA FactorRecovery ==
  ASSUME Typing, RecoveryInv, NEW w \in Workers, TwoFATraffic(w) PROVE RecoveryInv'
<1>1. /\ deployment \in Deployments /\ TaskOK /\ TableOK /\ task[w] \in Task
      /\ serial \in Nat /\ renamed \subseteq renamed' /\ serial' \in {serial, serial + 1}
  BY ControlGoes, FactorFrame, NumbersAre DEF Typing, StoresOK, ClockOK
<1>2. ASSUME \/ \E n \in Clients : TwoFAEnable(w, n) \/ TwoFAConfirm(w, n) \/ TwoFADisable(w, n)
             \/ \E n \in Clients : VerifyTOTP(w, n)
      PROVE  RecoveryInv'
  <2>1. UNCHANGED <<users, spent>>
    BY <1>2 DEF TwoFAEnable, TwoFAConfirm, TwoFADisable, VerifyTOTP, history
  <2>2. /\ "spend" \notin {"enable"} /\ "spend" \notin {"confirm"} /\ "spend" \notin {"disable"}
        /\ "spend" \notin {"session"}
    OBVIOUS
  <2>3. \E from, to : Goes(w, from, to) /\ "spend" \notin to
    BY <1>1, <1>2, <2>2, FactorGoes
  <2>4. \A v \in Workers : task'[v].stage = "spend" => task'[v] = task[v]
    BY <2>3, NobodySpends
  <2>5. QED
    BY <1>1, <2>1, <2>4, UsersCarried, CarriedLists, ListsQuiet
<1>3. ASSUME StoreSecret(w) \/ EnableSecret(w) \/ ClearSecret(w) PROVE RecoveryInv'
  <2>1. UNCHANGED spent
    BY <1>3 DEF StoreSecret, EnableSecret, ClearSecret, history
  <2>2. "spend" \notin {"idle"} /\ "spend" \notin {"recovery"}
    OBVIOUS
  <2>3. \E from, to : Goes(w, from, to) /\ "spend" \notin to
    BY <1>1, <1>3, <2>2, FactorGoes
  <2>4. \A v \in Workers : task'[v].stage = "spend" => task'[v] = task[v]
    BY <2>3, NobodySpends
  <2>5. \E n : \E secret \in Nat, enabled \in BOOLEAN : SetUser2FA(n, secret, enabled)
    <3>1. task[w].item \in Nat
      BY <1>1 DEF Task
    <3>2. StoreSecret(w) => SetUser2FA(task[w].name, serial, FALSE)
      BY DEF StoreSecret
    <3>3. EnableSecret(w) => SetUser2FA(task[w].name, task[w].item, TRUE)
      BY DEF EnableSecret
    <3>4. ClearSecret(w) => SetUser2FA(task[w].name, 0, FALSE)
      BY DEF ClearSecret
    <3>5. TRUE \in BOOLEAN /\ FALSE \in BOOLEAN /\ 0 \in Nat
      OBVIOUS
    <3>6. QED
      BY <1>1, <1>3, <3>1, <3>2, <3>3, <3>4, <3>5, Zenon
  <2>6. SameRows /\ \A i \in Rows : users'[i].recovery = users[i].recovery
    <3>1. PICK n : \E secret \in Nat, enabled \in BOOLEAN : SetUser2FA(n, secret, enabled)
      BY <2>5
    <3>2. PICK secret \in Nat, enabled \in BOOLEAN : SetUser2FA(n, secret, enabled)
      BY <3>1
    <3>3. QED
      BY <1>1, <3>2, KeyWritten, Zenon
  <2>7. ListsCarried
    BY <2>6 DEF SameRows, ListsCarried
  <2>8. QED
    BY <1>1, <2>1, <2>4, <2>7, ListsQuiet
<1>4. QED
  BY <1>2, <1>3, TakeRecovery, MakeRecovery, GiveUpRecovery DEF TwoFATraffic

LEMMA RecoveryStep == Typing /\ RecoveryInv /\ [Next]_vars => RecoveryInv'
<1>1. SUFFICES ASSUME Typing, RecoveryInv, [Next]_vars, ~\E w \in Workers : TwoFATraffic(w)
               PROVE  RecoveryInv'
  BY FactorRecovery
<1>2. ListsCarried
  BY <1>1, RowsCarried, CarriedLists
<1>3. ASSUME NEW w \in Workers,
             SessionTraffic(w) \/ RegisterTraffic(w) \/ MailTraffic(w) \/ AdminTraffic(w)
      PROVE  RecoveryInv'
  <2>1. /\ "spend" \notin SessionStages /\ "spend" \notin RegisterStages
        /\ "spend" \notin MailStages /\ "spend" \notin AdminStages
    BY DEF SessionStages, RegisterStages, MailStages, AdminStages
  <2>2. \E from, to : Goes(w, from, to) /\ "spend" \notin to
    BY <1>1, <1>3, <2>1, SessionFrame, RegisterFrame, MailFrame, AdminFrame
  <2>3. \A v \in Workers : task'[v].stage = "spend" => task'[v] = task[v]
    BY <2>2, NobodySpends
  <2>4. AdminTraffic(w) => renamed \subseteq renamed'
    BY DEF AdminTraffic, AdminCheck, AdminDelete, AdminReset2FA, AdminCreate, AdminUpdate, history
  <2>5. spent' = spent /\ renamed \subseteq renamed' /\ serial' \in {serial, serial + 1}
    BY <1>1, <1>3, <2>4, SessionFrame, RegisterFrame, MailFrame, AdminFrame
  <2>6. QED
    BY <1>1, <1>2, <2>3, <2>5, ListsQuiet
<1>4. CASE \/ Crash \/ CaptchaHandler \/ \E n \in Clients, e \in Emails : EmailSendCode(n, e)
           \/ \E s \in sessions : DeleteSession(s)
           \/ Tick \/ UNCHANGED vars
  <2>1. UNCHANGED task \/ task' = [w \in Workers |-> Idle]
    BY <1>4 DEF Crash, CaptchaHandler, EmailSendCode, DeleteSession, Tick, vars
  <2>2. \A v \in Workers : task'[v].stage = "spend" => task'[v] = task[v]
    BY <2>1, IdleTask
  <2>3. UNCHANGED <<spent, renamed>> /\ serial' \in {serial, serial + 1}
    BY <1>4 DEF Crash, CaptchaHandler, EmailSendCode, DeleteSession, Tick, vars, history, Draw
  <2>4. QED
    BY <1>1, <1>2, <2>2, <2>3, ListsQuiet
<1>5. QED
  BY <1>1, <1>3, <1>4 DEF Next

LEMMA RecoveryStart == Init /\ Typing => RecoveryInv
<1>1. SUFFICES ASSUME Init, Typing PROVE RecoveryInv
  OBVIOUS
<1>2. /\ serial = 1 /\ spent = NoEntries /\ task = [w \in Workers |-> Idle]
      /\ \A i \in Rows : users[i].recovery \in SUBSET Gen(0)
  BY <1>1, DeploymentAssumption DEF Init, Rows, Gen
<1>3. OfOneGeneration
  BY <1>2 DEF OfOneGeneration
<1>4. SpendsOK
  BY <1>2, IdleTask DEF SpendsOK
<1>5. DOMAIN spent = {}
  BY <1>2, NoEntriesType
<1>6. SpentOK
  BY <1>5 DEF SpentOK
<1>7. ASSUME NEW n, NEW g PROVE Counted(spent, <<n, g>>) + Rest(users, task, n, g) <= Cardinality(Ways) - 1
  <2>1. Counted(spent, <<n, g>>) = 0
    BY <1>5 DEF Counted
  <2>2. QED
    BY <2>1, RestCount, WaysFinite
<1>8. AdmitsOK
  BY <1>7 DEF AdmitsOK
<1>9. QED
  BY <1>3, <1>4, <1>6, <1>8 DEF RecoveryInv

\* A recovery code that was read may be written back, but however the requests that read and
\* write lists interleave, one generation of codes admits no more often than its codes and
\* the goroutines allow (handler/feat_2fa.go), unless the name went to another account.
THEOREM Recovery == Spec => []RecoveryBounded
<1>1. Typing /\ RecoveryInv => RecoveryBounded
  <2>1. SUFFICES ASSUME Typing, RecoveryInv, NEW k \in DOMAIN spent, k[1] \notin renamed
                 PROVE  spent[k] <= Cardinality(Ways) - 1
    BY DEF RecoveryBounded
  <2>2. k \in Names \X Nat /\ serial \in Nat
    BY <2>1, NumbersAre DEF Typing, StoresOK, HistoryOK
  <2>3. PICK n \in Names, g \in Nat : k = <<n, g>>
    BY <2>2
  <2>4. n \in Names \ renamed /\ g \in 0..(serial - 1)
    BY <2>1, <2>2, <2>3 DEF RecoveryInv, SpentOK
  <2>5. /\ Counted(spent, <<n, g>>) + Rest(users, task, n, g) <= Cardinality(Ways) - 1
        /\ Counted(spent, <<n, g>>) = spent[k]
    BY <2>1, <2>3, <2>4 DEF RecoveryInv, AdmitsOK, Counted
  <2> DEFINE c == spent[k]
             r == Rest(users, task, n, g)
             t == Cardinality(Ways)
  <2>6. c \in Nat /\ r \in Nat /\ t \in Nat /\ c + r <= t - 1
    BY <2>1, <2>5, SpentCount, RestCount, WaysFinite
  <2> HIDE DEF c, r, t
  <2>7. c <= t - 1
    BY <2>6
  <2>8. QED
    BY <2>7 DEF c, t
<1>2. Spec => []RecoveryInv
  BY StartTypes, RecoveryStart, RecoveryStep, TypingHolds, PTL DEF Spec
<1>3. QED
  BY <1>1, <1>2, TypingHolds, PTL

================================================================================
