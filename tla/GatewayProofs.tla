----------------------------- MODULE GatewayProofs -----------------------------
(***************************************************************************)
(* What is proved of Gateway for every set of goroutines, routes, limits   *)
(* and deployments: that a request is judged by the forms that were        *)
(* answered before it, that the cached routes are the stored ones, and     *)
(* that the windows let no more through in a minute than their limits.     *)
(***************************************************************************)
EXTENDS Gateway, Induction

KVSet == Range(KVs)

LEMMA KVNames == KVSet = {"white", "black", "limit"} /\ KVs \in Seq(KVSet)
BY DEF KVSet, KVs, Range

\* A loop over a sequence: what it has left is its head and its tail.
LEMMA HeadAndTail ==
  ASSUME NEW S, NEW s \in Seq(S), s # <<>>
  PROVE  /\ Head(s) \in S /\ Tail(s) \in Seq(S)
         /\ \A x \in Range(s) : x = Head(s) \/ x \in Range(Tail(s))
<1>1. /\ Len(s) \in Nat /\ Len(s) > 0 /\ Head(s) = s[1] /\ Head(s) \in S
      /\ Tail(s) \in Seq(S) /\ Len(Tail(s)) = Len(s) - 1
      /\ \A i \in 1 .. Len(s) - 1 : Tail(s)[i] = s[i + 1]
  OBVIOUS
<1>2. ASSUME NEW x \in Range(s), x # Head(s) PROVE x \in Range(Tail(s))
  <2>1. PICK i \in 1 .. Len(s) : s[i] = x
    BY <1>2 DEF Range
  <2>2. i # 1
    BY <1>1, <1>2, <2>1
  <2>3. i - 1 \in 1 .. Len(s) - 1 /\ (i - 1) + 1 = i
    BY <1>1, <2>2
  <2>4. Tail(s)[i - 1] = x
    BY <1>1, <2>1, <2>3
  <2>5. DOMAIN Tail(s) = 1 .. Len(s) - 1
    BY <1>1
  <2>6. QED
    BY <2>3, <2>4, <2>5 DEF Range
<1>3. QED
  BY <1>1, <1>2

LEMMA LargerOfTwo ==
  ASSUME NEW a \in Nat, NEW b \in Nat
  PROVE  Max({a, b}) \in {a, b} /\ Max({a, b}) >= a /\ Max({a, b}) >= b
<1>1. \E x \in {a, b} : \A y \in {a, b} : x >= y
  OBVIOUS
<1>2. QED
  BY <1>1 DEF Max

-------------------------------------------------------------------------------
(* Tasks                                                                   *)

\* A step of w leaves the tasks of the others alone.
Moves(w) == \E t : task' = [task EXCEPT ![w] = t]

LEMMA OneTaskMoves ==
  ASSUME NEW w \in Workers, DOMAIN task = Workers, Moves(w)
  PROVE  DOMAIN task' = Workers /\ \A v \in Workers \ {w} : task'[v] = task[v]
BY DEF Moves

\* Where a step leaves its goroutine.
After(w, op) == Moves(w) /\ "op" \in DOMAIN task'[w] /\ task'[w].op \in {"idle", op}

LEMMA Course ==
  ASSUME DOMAIN task = Workers, NEW w \in Workers, "op" \in DOMAIN task[w]
  PROVE  /\ RelayStart(w) => After(w, "user")
         /\ UserRateAllowed(w) => After(w, "rpm")
         /\ TokReqAllowed(w) => After(w, "tpm")
         /\ FormStart(w) \/ FormWrite(w) => After(w, "form")
         /\ GuardStart(w) => After(w, "refresh")
         /\ RefreshGuard(w) => After(w, "read") \/ After(w, "copy")
         /\ ReadGuardKV(w) => After(w, "read")
         /\ RefreshDone(w) => After(w, "copy")
         /\ CopyGuard(w) => After(w, "check")
         /\ InsertRoute(w) \/ UpdateRoute(w) \/ DeleteRoute(w) \/ Hup(w) => After(w, "snapshot")
         /\ RefreshSnapshot(w) => After(w, "swap")
         /\ ProxyMatch(w) => After(w, "charge")
         /\ ProxyCharge(w) => After(w, "limit")
         /\ ProxyLimit(w) => After(w, "turn")
         /\ ProxyTurn(w) \/ ProxyTry(w) => After(w, "serve")
         /\ TokTPMAllowed(w) \/ FormDone(w) \/ GuardCheck(w) \/ RefreshSwap(w) \/ BadGateway(w)
              => After(w, "idle")
<1>1. ASSUME NEW t, Become(w, t), "op" \in DOMAIN t, NEW op, t.op \in {"idle", op}
      PROVE  After(w, op)
  BY <1>1 DEF Become, Moves, After
<1>2. ASSUME Become(w, Idle), NEW op PROVE After(w, op)
  BY <1>1, <1>2 DEF Idle
<1>3. ASSUME NEW op, Become(w, [task[w] EXCEPT !.op = op]) PROVE After(w, op)
  BY <1>1, <1>3
<1>4. ASSUME NEW b, NEW n, NEW t, LimitStep(w, b, n, t), NEW op, Become(w, t) => After(w, op)
      PROVE  After(w, op)
  BY <1>2, <1>4 DEF LimitStep
<1>5. RelayStart(w) => After(w, "user")
  <2>1. SUFFICES ASSUME NEW cost \in Costs, Become(w, [op |-> "user", cost |-> cost])
                 PROVE  After(w, "user")
    BY DEF RelayStart
  <2>2. QED
    BY <1>1, <2>1
<1>6. /\ UserRateAllowed(w) => After(w, "rpm")
      /\ TokReqAllowed(w) => After(w, "tpm")
      /\ TokTPMAllowed(w) => After(w, "idle")
  BY <1>2, <1>3, <1>4 DEF UserRateAllowed, TokReqAllowed, TokTPMAllowed
<1>7. FormStart(w) => After(w, "form")
  BY <1>1 DEF FormStart
<1>8. FormWrite(w) => After(w, "form")
  <2> DEFINE k == Head(task[w].left)
             t == [task[w] EXCEPT !.left = Tail(@),
                                  !.wrote = [j \in DOMAIN @ \union {k} |->
                                               IF j = k THEN Stamp ELSE @[j]]]
  <2>1. t.op = task[w].op /\ DOMAIN t = DOMAIN task[w]
    OBVIOUS
  <2>2. FormWrite(w) => (Become(w, t) /\ task[w].op = "form") \/ Become(w, Idle)
    BY DEF FormWrite, Doing
  <2> HIDE DEF t
  <2>3. task[w].op = "form" /\ Become(w, t) => After(w, "form")
    BY <1>1, <2>1
  <2>4. QED
    BY <1>2, <2>2, <2>3
<1>9. /\ GuardStart(w) => After(w, "refresh")
      /\ RefreshGuard(w) => After(w, "read") \/ After(w, "copy")
      /\ RefreshDone(w) => After(w, "copy")
      /\ CopyGuard(w) => After(w, "check")
  BY <1>1 DEF GuardStart, RefreshGuard, RefreshDone, CopyGuard
<1>10. ReadGuardKV(w) => After(w, "read")
  <2> DEFINE t == [task[w] EXCEPT !.left = Tail(@)]
  <2>1. t.op = task[w].op /\ DOMAIN t = DOMAIN task[w]
    OBVIOUS
  <2>2. ReadGuardKV(w) => Become(w, t) /\ task[w].op = "read"
    BY DEF ReadGuardKV, Doing
  <2>3. QED
    BY <1>1, <2>1, <2>2
<1>11. ASSUME NEW rs, EditRoutes(w, rs) PROVE After(w, "snapshot")
  BY <1>1, <1>2, <1>11 DEF EditRoutes
<1>12. InsertRoute(w) \/ UpdateRoute(w) \/ DeleteRoute(w) \/ Hup(w) => After(w, "snapshot")
  <2>1. InsertRoute(w) \/ UpdateRoute(w) \/ DeleteRoute(w) => \E rs : EditRoutes(w, rs)
    BY DEF InsertRoute, UpdateRoute, DeleteRoute
  <2>2. Hup(w) => After(w, "snapshot")
    BY <1>1 DEF Hup
  <2>3. QED
    BY <1>11, <2>1, <2>2
<1>13. /\ RefreshSnapshot(w) => After(w, "swap")
       /\ RefreshSwap(w) => After(w, "idle")
  BY <1>1, <1>2 DEF RefreshSnapshot, RefreshSwap
<1>14. /\ ProxyMatch(w) => After(w, "charge")
       /\ ProxyCharge(w) => After(w, "limit")
       /\ ProxyLimit(w) => After(w, "turn")
       /\ ProxyTurn(w) => After(w, "serve")
  <2>1. ProxyMatch(w) => After(w, "charge")
    BY <1>1 DEF ProxyMatch
  <2>2. ProxyTurn(w) => After(w, "serve")
    BY <1>1 DEF ProxyTurn
  <2>3. QED
    BY <1>2, <1>3, <2>1, <2>2 DEF ProxyCharge, ProxyLimit
<1>15. ProxyTry(w) => After(w, "serve")
  <2> DEFINE t == [task[w] EXCEPT !.tried = Append(@, Key(w)), !.spent = @ \/ task[w].body]
  <2>1. t.op = task[w].op /\ DOMAIN t = DOMAIN task[w]
    OBVIOUS
  <2>2. ProxyTry(w) => (Become(w, t) /\ task[w].op = "serve") \/ Become(w, Idle)
    BY DEF ProxyTry, Doing
  <2> HIDE DEF t
  <2>3. task[w].op = "serve" /\ Become(w, t) => After(w, "serve")
    BY <1>1, <2>1
  <2>4. QED
    BY <1>2, <2>2, <2>3
<1>16. FormDone(w) \/ GuardCheck(w) \/ BadGateway(w) => After(w, "idle")
  BY <1>2 DEF FormDone, GuardCheck, BadGateway
<1> HIDE DEF After
<1>17. QED
  BY <1>5, <1>6, <1>7, <1>8, <1>9, <1>10, <1>12, <1>13, <1>14, <1>15, <1>16

-------------------------------------------------------------------------------
(* The cached lists of the guard                                           *)

\* The stamps of a KV, its copy and what was answered of it.
StampsOK ==
  /\ DOMAIN kv = KVSet /\ DOMAIN guard = KVSet /\ DOMAIN answered = KVSet
  /\ stamp \in Nat
  /\ \A k \in KVSet :
       /\ kv[k].stamp \in Nat /\ guard[k].stamp \in Nat /\ answered[k] \in Nat
       /\ kv[k].stamp <= stamp /\ guard[k].stamp <= kv[k].stamp /\ answered[k] <= kv[k].stamp

\* What a form has written is in the KVs, or something later is.
FormOK(w) ==
  Doing(w, "form") =>
    /\ DOMAIN task[w] = {"op", "left", "wrote"}
    /\ task[w].left \in Seq(KVSet)
    /\ DOMAIN task[w].wrote \subseteq KVSet
    /\ \A k \in KVSet : k \in DOMAIN task[w].wrote \/ k \in Range(task[w].left)
    /\ \A k \in DOMAIN task[w].wrote :
         task[w].wrote[k] \in Nat /\ task[w].wrote[k] <= kv[k].stamp

\* The lock is held by who reads the KVs.
LockOK == \A w \in Workers : Doing(w, "read") => guardMu = w

\* Lists that are not dirty were read since every form that was answered, and a
\* refresh has read some of them: no form is answered while it holds the lock.
CleanOK == ~guardDirty => \A k \in KVSet : guard[k].stamp >= answered[k]

ReadOK(w) ==
  Doing(w, "read") =>
    /\ DOMAIN task[w] = {"op", "floor", "left"}
    /\ task[w].left \in Seq(KVSet)
    /\ \A k \in KVSet : guard[k].stamp >= answered[k] \/ k \in Range(task[w].left)

\* A request's floor.
FloorOK(w) ==
  /\ task[w].op \in {"refresh", "read", "copy", "check"} =>
       \A k \in KVSet : task[w].floor[k] \in Nat
  /\ task[w].op \in {"refresh", "read"} => \A k \in KVSet : task[w].floor[k] <= answered[k]
  /\ Doing(w, "copy") => \A k \in KVSet : task[w].floor[k] <= guard[k].stamp
  /\ Doing(w, "check") => \A k \in KVSet : task[w].floor[k] <= task[w].guard[k].stamp

TaskOK(w) == "op" \in DOMAIN task[w] /\ FormOK(w) /\ ReadOK(w) /\ FloorOK(w)

GuardInv ==
  /\ DOMAIN task = Workers
  /\ StampsOK /\ LockOK /\ CleanOK
  /\ \A w \in Workers : TaskOK(w)

LEMMA StartGuard == Init => GuardInv
<1>1. SUFFICES ASSUME Init PROVE GuardInv
  OBVIOUS
<1>2. /\ DOMAIN kv = KVSet /\ DOMAIN guard = KVSet /\ DOMAIN answered = KVSet
      /\ \A k \in KVSet : kv[k].stamp = 0 /\ guard[k].stamp = 0 /\ answered[k] = 0
  BY <1>1 DEF Init, KVSet
<1>3. StampsOK
  BY <1>1, <1>2 DEF Init, StampsOK
<1>4. DOMAIN task = Workers /\ \A w \in Workers : task[w].op = "idle" /\ "op" \in DOMAIN task[w]
  BY <1>1 DEF Init, Idle
<1>5. LockOK /\ CleanOK /\ \A w \in Workers : TaskOK(w)
  BY <1>1, <1>4 DEF Init, LockOK, CleanOK, TaskOK, FormOK, ReadOK, FloorOK, Doing
<1>6. QED
  BY <1>3, <1>4, <1>5 DEF GuardInv

\* Stamps only rise.
StampsRise ==
  \A k \in KVSet : /\ kv[k].stamp <= kv'[k].stamp /\ guard[k].stamp <= guard'[k].stamp
                   /\ answered[k] <= answered'[k]

\* What holds of a task that a step leaves alone holds after it.
LEMMA TaskKept ==
  ASSUME StampsOK, StampsOK', StampsRise, NEW v \in Workers, TaskOK(v), task'[v] = task[v],
         Doing(v, "read") => answered' = answered
  PROVE  TaskOK(v)'
<1>1. FormOK(v)'
  <2>1. SUFFICES ASSUME Doing(v, "form") PROVE FormOK(v)'
    BY DEF FormOK, Doing
  <2>2. /\ task[v].left \in Seq(KVSet) /\ DOMAIN task[v].wrote \subseteq KVSet
        /\ \A k \in KVSet : k \in DOMAIN task[v].wrote \/ k \in Range(task[v].left)
        /\ \A k \in DOMAIN task[v].wrote :
             task[v].wrote[k] \in Nat /\ task[v].wrote[k] <= kv[k].stamp
    BY <2>1 DEF TaskOK, FormOK
  <2>3. \A k \in DOMAIN task[v].wrote : task[v].wrote[k] <= kv'[k].stamp
    BY <2>2 DEF StampsOK, StampsRise
  <2>4. QED
    BY <2>1, <2>2, <2>3 DEF TaskOK, FormOK
<1>2. ReadOK(v)'
  <2>1. SUFFICES ASSUME Doing(v, "read") PROVE ReadOK(v)'
    BY DEF ReadOK, Doing
  <2>2. /\ task[v].left \in Seq(KVSet)
        /\ \A k \in KVSet : guard[k].stamp >= answered[k] \/ k \in Range(task[v].left)
    BY <2>1 DEF TaskOK, ReadOK
  <2>3. \A k \in KVSet : guard'[k].stamp >= answered'[k] \/ k \in Range(task[v].left)
    BY <2>1, <2>2 DEF StampsOK, StampsRise
  <2>4. QED
    BY <2>1, <2>2, <2>3 DEF TaskOK, ReadOK
<1>3. FloorOK(v)'
  <2>1. /\ Doing(v, "refresh")' = Doing(v, "refresh")
        /\ Doing(v, "read")' = Doing(v, "read")
        /\ Doing(v, "copy")' = Doing(v, "copy")
        /\ Doing(v, "check")' = Doing(v, "check")
    BY DEF Doing
  <2>2. task[v].op \in {"refresh", "read"} =>
          \A k \in KVSet : task[v].floor[k] <= answered'[k]
    BY DEF TaskOK, FloorOK, StampsOK, StampsRise
  <2>3. Doing(v, "copy") => \A k \in KVSet : task[v].floor[k] <= guard'[k].stamp
    BY DEF TaskOK, FloorOK, StampsOK, StampsRise, Doing
  <2>4. QED
    BY <2>1, <2>2, <2>3 DEF TaskOK, FloorOK
<1>4. QED
  BY <1>1, <1>2, <1>3 DEF TaskOK

\* A step is safe when the stamps stay in order, a form is not answered while
\* the KVs are read, and the step's own task is left in order.
LEMMA GuardStep ==
  ASSUME GuardInv, NEW w \in Workers, Moves(w), StampsOK', StampsRise, LockOK', CleanOK',
         TaskOK(w)',
         \A v \in Workers \ {w} : Doing(v, "read") => answered' = answered
  PROVE  GuardInv'
<1>1. DOMAIN task' = Workers /\ \A v \in Workers \ {w} : task'[v] = task[v]
  BY OneTaskMoves DEF GuardInv
<1>2. ASSUME NEW v \in Workers PROVE TaskOK(v)'
  <2>1. CASE v = w
    BY <2>1
  <2>2. CASE v # w
    BY <1>1, <2>2, TaskKept DEF GuardInv
  <2>3. QED
    BY <2>1, <2>2
<1>3. QED
  BY <1>1, <1>2 DEF GuardInv

\* Steps of requests that have no business with the guard.
GuardOps == {"form", "refresh", "read", "copy", "check"}

LEMMA ElsewhereStep ==
  ASSUME GuardInv, NEW w \in Workers, Moves(w), UNCHANGED guardVars,
         stamp' \in Nat, stamp' >= stamp, task'[w].op \notin GuardOps, "op" \in DOMAIN task'[w]
  PROVE  GuardInv'
<1>1. StampsOK' /\ StampsRise
  BY DEF GuardInv, StampsOK, StampsRise, guardVars
<1>2. DOMAIN task' = Workers /\ \A v \in Workers \ {w} : task'[v] = task[v]
  BY OneTaskMoves DEF GuardInv
<1>3. LockOK' /\ CleanOK'
  BY <1>2 DEF GuardInv, LockOK, CleanOK, guardVars, Doing, GuardOps
<1>4. TaskOK(w)'
  BY DEF TaskOK, FormOK, ReadOK, FloorOK, Doing, GuardOps
<1>5. QED
  BY <1>1, <1>3, <1>4, GuardStep DEF guardVars

\* Steps of a guarded request or a form that change no more than its task and the
\* lock.
LEMMA GuardTaskStep ==
  ASSUME GuardInv, NEW w \in Workers, Moves(w), UNCHANGED <<kv, guard, answered, stamp>>,
         LockOK', CleanOK', TaskOK(w)'
  PROVE  GuardInv'
<1>1. StampsOK' /\ StampsRise
  BY DEF GuardInv, StampsOK, StampsRise
<1>2. QED
  BY <1>1, GuardStep

LEMMA FormStartKept ==
  ASSUME GuardInv, NEW w \in Workers, FormStart(w) PROVE GuardInv'
<1> DEFINE t == [op |-> "form", left |-> KVs, wrote |-> [k \in {} |-> 0]]
<1>1. task' = [task EXCEPT ![w] = t] /\ UNCHANGED guardVars /\ UNCHANGED stamp
  BY DEF FormStart, Become
<1>2. Moves(w)
  BY <1>1 DEF Moves
<1>3. task'[w] = t /\ \A v \in Workers \ {w} : task'[v] = task[v]
  BY <1>1, <1>2, OneTaskMoves DEF GuardInv
<1>4. TaskOK(w)'
  BY <1>3, KVNames DEF TaskOK, FormOK, ReadOK, FloorOK, Doing, KVSet
<1>5. LockOK' /\ CleanOK'
  BY <1>1, <1>3 DEF GuardInv, LockOK, CleanOK, guardVars, Doing
<1>6. QED
  BY <1>1, <1>2, <1>4, <1>5, GuardTaskStep DEF guardVars

LEMMA FormWriteKept ==
  ASSUME GuardInv, NEW w \in Workers, FormWrite(w) PROVE GuardInv'
<1> DEFINE k == Head(task[w].left)
<1>1. /\ Doing(w, "form") /\ task[w].left # <<>>
      /\ UNCHANGED <<guard, guardDirty, guardMu, answered>>
      /\ DOMAIN task[w] = {"op", "left", "wrote"} /\ task[w].left \in Seq(KVSet)
  BY DEF FormWrite, GuardInv, TaskOK, FormOK
<1>2. CASE /\ \E v \in FormValues(k) : kv' = [kv EXCEPT ![k] = [value |-> v, stamp |-> Stamp]]
           /\ stamp' = Stamp
           /\ Become(w, [task[w] EXCEPT !.left = Tail(@),
                                        !.wrote = [j \in DOMAIN @ \union {k} |->
                                                     IF j = k THEN Stamp ELSE @[j]]])
  <2>1. /\ k \in KVSet /\ Tail(task[w].left) \in Seq(KVSet)
        /\ \A x \in Range(task[w].left) : x = k \/ x \in Range(Tail(task[w].left))
    BY <1>1, HeadAndTail
  <2> DEFINE u == [j \in DOMAIN task[w].wrote \union {k} |->
                     IF j = k THEN Stamp ELSE task[w].wrote[j]]
             t == [task[w] EXCEPT !.left = Tail(@), !.wrote = u]
  <2>2. task' = [task EXCEPT ![w] = t]
    BY <1>2 DEF Become
  <2>3. /\ Moves(w) /\ task'[w] = t
        /\ \A v \in Workers \ {w} : task'[v] = task[v]
    <3>1. Moves(w)
      BY <2>2 DEF Moves
    <3>2. QED
      BY <2>2, <3>1, OneTaskMoves DEF GuardInv
  <2>4. /\ DOMAIN task'[w] = {"op", "left", "wrote"} /\ task'[w].op = "form"
        /\ task'[w].left = Tail(task[w].left) /\ task'[w].wrote = u
    BY <1>1, <2>3 DEF Doing
  <2>5. /\ DOMAIN kv' = KVSet /\ kv'[k].stamp = Stamp
        /\ \A j \in KVSet \ {k} : kv'[j] = kv[j]
    BY <1>2, <2>1 DEF GuardInv, StampsOK
  <2>6. stamp \in Nat /\ Stamp = stamp + 1 /\ stamp' = Stamp
    BY <1>2 DEF GuardInv, StampsOK, Stamp
  <2>7. StampsRise /\ StampsOK'
    <3>1. ASSUME NEW j \in KVSet
          PROVE  /\ kv'[j].stamp \in Nat /\ kv'[j].stamp <= stamp' /\ kv[j].stamp <= kv'[j].stamp
                 /\ guard[j].stamp \in Nat /\ answered[j] \in Nat
                 /\ guard[j].stamp <= kv'[j].stamp /\ answered[j] <= kv'[j].stamp
      <4>1. /\ kv[j].stamp \in Nat /\ guard[j].stamp \in Nat /\ answered[j] \in Nat
            /\ kv[j].stamp <= stamp /\ guard[j].stamp <= kv[j].stamp
            /\ answered[j] <= kv[j].stamp
        BY DEF GuardInv, StampsOK
      <4>2. kv'[j].stamp = stamp + 1 \/ kv'[j].stamp = kv[j].stamp
        BY <2>5, <2>6
      <4>3. QED
        BY <4>1, <4>2, <2>6
    <3>2. QED
      BY <1>1, <2>5, <2>6, <3>1 DEF GuardInv, StampsOK, StampsRise
  <2>8. FormOK(w)'
    <3>1. \A j \in KVSet : j \in DOMAIN u \/ j \in Range(task'[w].left)
      BY <1>1, <2>1, <2>4 DEF GuardInv, TaskOK, FormOK
    <3>2. DOMAIN u \subseteq KVSet
      BY <1>1, <2>1 DEF GuardInv, TaskOK, FormOK
    <3>3. ASSUME NEW j \in DOMAIN u PROVE u[j] \in Nat /\ u[j] <= kv'[j].stamp
      <4>1. CASE j = k
        BY <4>1, <2>5, <2>6
      <4>2. CASE j # k
        <5>1. j \in KVSet /\ j \in DOMAIN task[w].wrote /\ u[j] = task[w].wrote[j]
          BY <3>2, <3>3, <4>2
        <5>2. QED
          BY <1>1, <4>2, <5>1, <2>5 DEF GuardInv, TaskOK, FormOK
      <4>3. QED
        BY <4>1, <4>2
    <3>4. QED
      BY <2>1, <2>4, <3>1, <3>2, <3>3 DEF FormOK
  <2>9. ReadOK(w)' /\ FloorOK(w)'
    BY <2>4 DEF ReadOK, FloorOK, Doing
  <2>10. LockOK' /\ CleanOK'
    BY <1>1, <2>3, <2>4 DEF GuardInv, LockOK, CleanOK, Doing
  <2>11. QED
    BY <1>1, <2>3, <2>7, <2>8, <2>9, <2>10, GuardStep DEF TaskOK
<1>3. CASE /\ faults < MaxFaults /\ faults' = faults + 1
           /\ Become(w, Idle)
           /\ UNCHANGED <<kv, stamp>>
  <2>1. Moves(w) /\ task'[w] = Idle
    BY <1>3 DEF Moves, Become, GuardInv
  <2>2. task'[w].op \notin GuardOps /\ "op" \in DOMAIN task'[w]
    BY <2>1 DEF Idle, GuardOps
  <2>3. stamp' \in Nat /\ stamp' >= stamp
    BY <1>3 DEF GuardInv, StampsOK
  <2>4. QED
    BY <1>1, <1>3, <2>1, <2>2, <2>3, ElsewhereStep DEF guardVars
<1>4. QED
  BY <1>2, <1>3 DEF FormWrite

LEMMA FormDoneKept ==
  ASSUME GuardInv, NEW w \in Workers, FormDone(w) PROVE GuardInv'
<1>1. /\ Doing(w, "form") /\ task[w].left = <<>> /\ guardMu = Nobody
      /\ guardDirty' = TRUE /\ UNCHANGED <<kv, guard, guardMu, stamp>>
      /\ answered' = [k \in DOMAIN answered |-> Max({answered[k], task[w].wrote[k]})]
      /\ task' = [task EXCEPT ![w] = Idle]
  BY DEF FormDone, Become
<1>2. Moves(w)
  BY <1>1 DEF Moves
<1>3. /\ task'[w].op = "idle" /\ "op" \in DOMAIN task'[w]
      /\ \A v \in Workers \ {w} : task'[v] = task[v]
  BY <1>1, <1>2, OneTaskMoves DEF GuardInv, Idle
<1>4. Range(task[w].left) = {}
  BY <1>1 DEF Range
<1>5. ASSUME NEW k \in KVSet
      PROVE  /\ answered'[k] \in Nat /\ answered[k] <= answered'[k]
             /\ answered'[k] <= kv[k].stamp
  <2>1. /\ task[w].wrote[k] \in Nat /\ task[w].wrote[k] <= kv[k].stamp
        /\ answered[k] \in Nat /\ answered[k] <= kv[k].stamp
        /\ answered'[k] = Max({answered[k], task[w].wrote[k]})
    BY <1>1, <1>4 DEF GuardInv, TaskOK, FormOK, StampsOK
  <2>2. QED
    BY <2>1, LargerOfTwo
<1>6. StampsOK' /\ StampsRise
  BY <1>1, <1>5 DEF GuardInv, StampsOK, StampsRise
<1>7. LockOK' /\ CleanOK' /\ TaskOK(w)'
  BY <1>1, <1>3
  DEF GuardInv, LockOK, CleanOK, TaskOK, FormOK, ReadOK, FloorOK, Doing
<1>8. \A v \in Workers : ~Doing(v, "read")
  BY <1>1, NobodyAssumption DEF GuardInv, LockOK
<1>9. QED
  BY <1>2, <1>6, <1>7, <1>8, GuardStep

LEMMA GuardStartKept ==
  ASSUME GuardInv, NEW w \in Workers, GuardStart(w) PROVE GuardInv'
<1>1. task' = [task EXCEPT ![w] = [op |-> "refresh", floor |-> answered]]
  BY DEF GuardStart, Become
<1>2. Moves(w)
  BY <1>1 DEF Moves
<1>3. /\ "op" \in DOMAIN task'[w] /\ task'[w].op = "refresh" /\ task'[w].floor = answered
      /\ \A v \in Workers \ {w} : task'[v] = task[v]
  BY <1>1, <1>2, OneTaskMoves DEF GuardInv
<1>4. UNCHANGED <<kv, guard, guardDirty, guardMu, answered, stamp>>
  BY DEF GuardStart, guardVars
<1>5. TaskOK(w)'
  BY <1>3, <1>4 DEF GuardInv, StampsOK, TaskOK, FormOK, ReadOK, FloorOK, Doing
<1>6. LockOK' /\ CleanOK'
  BY <1>3, <1>4 DEF GuardInv, LockOK, CleanOK, Doing
<1>7. QED
  BY <1>2, <1>4, <1>5, <1>6, GuardTaskStep

LEMMA RefreshGuardKept ==
  ASSUME GuardInv, NEW w \in Workers, RefreshGuard(w) PROVE GuardInv'
<1>1. /\ Doing(w, "refresh") /\ guardMu = Nobody
      /\ UNCHANGED <<kv, guard, guardDirty, answered, stamp>>
  BY DEF RefreshGuard
<1>2. \A k \in KVSet : task[w].floor[k] \in Nat /\ task[w].floor[k] <= answered[k]
  BY <1>1 DEF GuardInv, TaskOK, FloorOK, Doing
<1>3. \A v \in Workers : ~Doing(v, "read")
  BY <1>1, NobodyAssumption DEF GuardInv, LockOK
<1>4. CASE guardDirty
  <2> DEFINE t == [op |-> "read", floor |-> task[w].floor, left |-> KVs]
  <2>1. guardMu' = w /\ task' = [task EXCEPT ![w] = t]
    BY <1>4 DEF RefreshGuard, Become
  <2>2. Moves(w)
    BY <2>1 DEF Moves
  <2>3. task'[w] = t /\ \A v \in Workers \ {w} : task'[v] = task[v]
    BY <2>1, <2>2, OneTaskMoves DEF GuardInv
  <2>4. ReadOK(w)'
    BY <2>3, KVNames DEF ReadOK, KVSet
  <2>5. FormOK(w)' /\ FloorOK(w)'
    BY <1>1, <1>2, <2>3 DEF FormOK, FloorOK, Doing
  <2>6. LockOK' /\ CleanOK'
    BY <1>1, <1>3, <1>4, <2>1, <2>3 DEF LockOK, CleanOK, Doing
  <2>7. QED
    BY <1>1, <2>2, <2>3, <2>4, <2>5, <2>6, GuardTaskStep DEF TaskOK
<1>5. CASE ~guardDirty
  <2>1. UNCHANGED guardMu /\ task' = [task EXCEPT ![w] = [op |-> "copy", floor |-> task[w].floor]]
    BY <1>5 DEF RefreshGuard, Become
  <2>2. Moves(w)
    BY <2>1 DEF Moves
  <2>3. /\ "op" \in DOMAIN task'[w] /\ task'[w].op = "copy" /\ task'[w].floor = task[w].floor
        /\ \A v \in Workers \ {w} : task'[v] = task[v]
    BY <2>1, <2>2, OneTaskMoves DEF GuardInv
  <2>4. \A k \in KVSet : task[w].floor[k] <= guard[k].stamp
    BY <1>2, <1>5 DEF GuardInv, CleanOK, StampsOK
  <2>5. TaskOK(w)'
    BY <1>1, <1>2, <2>3, <2>4 DEF TaskOK, FormOK, ReadOK, FloorOK, Doing
  <2>6. LockOK' /\ CleanOK'
    BY <1>1, <2>1, <2>3 DEF GuardInv, LockOK, CleanOK, Doing
  <2>7. QED
    BY <1>1, <2>2, <2>5, <2>6, GuardTaskStep
<1>6. QED
  BY <1>4, <1>5

LEMMA ReadGuardKVKept ==
  ASSUME GuardInv, NEW w \in Workers, ReadGuardKV(w) PROVE GuardInv'
<1> DEFINE k == Head(task[w].left)
<1>1. /\ Doing(w, "read") /\ task[w].left # <<>>
      /\ \E entry \in {kv[k], [value |-> Open(k), stamp |-> kv[k].stamp]} :
           guard' = [guard EXCEPT ![k] = entry]
      /\ UNCHANGED <<kv, guardDirty, guardMu, answered, stamp>>
      /\ task' = [task EXCEPT ![w] = [task[w] EXCEPT !.left = Tail(@)]]
  BY DEF ReadGuardKV, Become
<1>2. Moves(w)
  BY <1>1 DEF Moves
<1>3. /\ DOMAIN task[w] = {"op", "floor", "left"} /\ task[w].left \in Seq(KVSet)
      /\ \A j \in KVSet : guard[j].stamp >= answered[j] \/ j \in Range(task[w].left)
  BY <1>1 DEF GuardInv, TaskOK, ReadOK
<1>4. /\ DOMAIN task'[w] = {"op", "floor", "left"}
      /\ task'[w].op = "read" /\ task'[w].floor = task[w].floor
      /\ task'[w].left = Tail(task[w].left) /\ \A v \in Workers \ {w} : task'[v] = task[v]
  BY <1>1, <1>2, <1>3, OneTaskMoves DEF GuardInv, Doing
<1>5. /\ k \in KVSet /\ Tail(task[w].left) \in Seq(KVSet)
      /\ \A j \in Range(task[w].left) : j = k \/ j \in Range(Tail(task[w].left))
  BY <1>1, <1>3, HeadAndTail
<1>6. /\ DOMAIN guard' = KVSet /\ guard'[k].stamp = kv[k].stamp
      /\ \A j \in KVSet \ {k} : guard'[j] = guard[j]
  <2>1. PICK entry \in {kv[k], [value |-> Open(k), stamp |-> kv[k].stamp]} :
               guard' = [guard EXCEPT ![k] = entry]
    BY <1>1
  <2>2. entry.stamp = kv[k].stamp
    OBVIOUS
  <2>3. QED
    BY <1>5, <2>1, <2>2 DEF GuardInv, StampsOK
<1>7. StampsOK' /\ StampsRise
  BY <1>1, <1>6 DEF GuardInv, StampsOK, StampsRise
<1>8. \A j \in KVSet : guard'[j].stamp >= answered[j] \/ j \in Range(Tail(task[w].left))
  BY <1>3, <1>5, <1>6 DEF GuardInv, StampsOK
<1>9. ReadOK(w)'
  BY <1>1, <1>4, <1>5, <1>8 DEF ReadOK
<1>10. FormOK(w)' /\ FloorOK(w)'
  BY <1>1, <1>4 DEF GuardInv, TaskOK, FormOK, FloorOK, Doing
<1>11. LockOK' /\ CleanOK'
  BY <1>1, <1>4, <1>7 DEF GuardInv, LockOK, CleanOK, Doing, StampsOK, StampsRise
<1>12. QED
  BY <1>1, <1>2, <1>4, <1>7, <1>9, <1>10, <1>11, GuardStep DEF TaskOK

LEMMA RefreshDoneKept ==
  ASSUME GuardInv, NEW w \in Workers, RefreshDone(w) PROVE GuardInv'
<1>1. /\ Doing(w, "read") /\ task[w].left = <<>>
      /\ guardDirty' = FALSE /\ guardMu' = Nobody
      /\ task' = [task EXCEPT ![w] = [op |-> "copy", floor |-> task[w].floor]]
      /\ UNCHANGED <<kv, guard, answered, stamp>>
  BY DEF RefreshDone, Become
<1>2. Moves(w)
  BY <1>1 DEF Moves
<1>3. /\ "op" \in DOMAIN task'[w] /\ task'[w].op = "copy" /\ task'[w].floor = task[w].floor
      /\ \A v \in Workers \ {w} : task'[v] = task[v]
  BY <1>1, <1>2, OneTaskMoves DEF GuardInv
<1>4. Range(task[w].left) = {}
  BY <1>1 DEF Range
<1>5. CleanOK'
  BY <1>1, <1>4 DEF GuardInv, TaskOK, ReadOK, CleanOK
<1>6. \A k \in KVSet : task[w].floor[k] \in Nat /\ task[w].floor[k] <= guard[k].stamp
  BY <1>1, <1>4 DEF GuardInv, TaskOK, ReadOK, FloorOK, StampsOK, Doing
<1>7. TaskOK(w)'
  BY <1>1, <1>3, <1>6 DEF TaskOK, FormOK, ReadOK, FloorOK, Doing
<1>8. LockOK'
  BY <1>1, <1>3 DEF GuardInv, LockOK, Doing
<1>9. QED
  BY <1>1, <1>2, <1>5, <1>7, <1>8, GuardTaskStep

LEMMA CopyGuardKept ==
  ASSUME GuardInv, NEW w \in Workers, CopyGuard(w) PROVE GuardInv'
<1>1. /\ Doing(w, "copy") /\ UNCHANGED <<kv, guard, guardDirty, guardMu, answered, stamp>>
      /\ task' = [task EXCEPT ![w] = [op |-> "check", floor |-> task[w].floor, guard |-> guard]]
  BY DEF CopyGuard, Become, guardVars
<1>2. Moves(w)
  BY <1>1 DEF Moves
<1>3. /\ "op" \in DOMAIN task'[w] /\ task'[w].op = "check"
      /\ task'[w].floor = task[w].floor /\ task'[w].guard = guard
      /\ \A v \in Workers \ {w} : task'[v] = task[v]
  BY <1>1, <1>2, OneTaskMoves DEF GuardInv
<1>4. TaskOK(w)'
  BY <1>1, <1>3 DEF GuardInv, TaskOK, FormOK, ReadOK, FloorOK, Doing
<1>5. LockOK' /\ CleanOK'
  BY <1>1, <1>3 DEF GuardInv, LockOK, CleanOK, Doing
<1>6. QED
  BY <1>1, <1>2, <1>4, <1>5, GuardTaskStep

\* The other steps of a goroutine.
Elsewhere(w) ==
  \/ RelayStart(w) \/ UserRateAllowed(w) \/ TokReqAllowed(w) \/ TokTPMAllowed(w)
  \/ GuardCheck(w)
  \/ InsertRoute(w) \/ UpdateRoute(w) \/ DeleteRoute(w) \/ Hup(w)
  \/ RefreshSnapshot(w) \/ RefreshSwap(w)
  \/ ProxyMatch(w) \/ ProxyCharge(w) \/ ProxyLimit(w) \/ ProxyTurn(w) \/ ProxyTry(w)
  \/ BadGateway(w)

\* None of them touches the guard, or leaves its task where the guard's are.
LEMMA ElsewhereFrame ==
  ASSUME DOMAIN task = Workers, stamp \in Nat, NEW w \in Workers, "op" \in DOMAIN task[w],
         Elsewhere(w)
  PROVE  /\ Moves(w) /\ UNCHANGED guardVars /\ stamp' \in Nat /\ stamp' >= stamp
         /\ task'[w].op \notin GuardOps /\ "op" \in DOMAIN task'[w]
<1>1. UNCHANGED guardVars /\ stamp' \in Nat /\ stamp' >= stamp
  <2>1. CASE InsertRoute(w) \/ UpdateRoute(w) \/ DeleteRoute(w)
    <3>1. UNCHANGED guardVars /\ \E rs : EditRoutes(w, rs)
      BY <2>1 DEF InsertRoute, UpdateRoute, DeleteRoute, EditFrame
    <3>2. QED
      BY <3>1 DEF EditRoutes, Stamp
  <2>2. CASE ~(InsertRoute(w) \/ UpdateRoute(w) \/ DeleteRoute(w))
    BY <2>2 DEF Elsewhere, RelayStart, UserRateAllowed, TokReqAllowed, TokTPMAllowed, LimitStep,
                GuardCheck, Hup, RefreshSnapshot, RefreshSwap, ProxyMatch, ProxyCharge,
                ProxyLimit, ProxyTurn, ProxyTry, BadGateway
  <2>3. QED
    BY <2>1, <2>2
<1>2. Moves(w) /\ task'[w].op \notin GuardOps /\ "op" \in DOMAIN task'[w]
  BY Course DEF Elsewhere, After, GuardOps
<1>3. QED
  BY <1>1, <1>2

LEMMA GuardInductive == GuardInv /\ [Next]_vars => GuardInv'
<1> SUFFICES ASSUME GuardInv, [Next]_vars PROVE GuardInv'
  OBVIOUS
<1>1. ASSUME UNCHANGED <<guardVars, stamp, task>> PROVE GuardInv'
  BY <1>1 DEF GuardInv, StampsOK, LockOK, CleanOK, TaskOK, FormOK, ReadOK, FloorOK, Doing,
              guardVars
<1>2. CASE Tick
  BY <1>1, <1>2 DEF Tick
<1>3. CASE RateJanitor
  BY <1>1, <1>3 DEF RateJanitor, guardVars
<1>4. CASE UNCHANGED vars
  BY <1>1, <1>4 DEF vars, guardVars
<1>5. ASSUME NEW w \in Workers, Step(w) PROVE GuardInv'
  <2>1. CASE Elsewhere(w)
    BY <2>1, ElsewhereFrame, ElsewhereStep DEF GuardInv, StampsOK, TaskOK
  <2>2. CASE FormStart(w) \/ FormWrite(w) \/ FormDone(w)
    BY <2>2, FormStartKept, FormWriteKept, FormDoneKept
  <2>3. CASE GuardStart(w) \/ RefreshGuard(w) \/ ReadGuardKV(w) \/ RefreshDone(w) \/ CopyGuard(w)
    BY <2>3, GuardStartKept, RefreshGuardKept, ReadGuardKVKept, RefreshDoneKept, CopyGuardKept
  <2>4. QED
    BY <1>5, <2>1, <2>2, <2>3 DEF Step, Elsewhere
<1>6. QED
  BY <1>2, <1>3, <1>4, <1>5 DEF Next

\* A request that arrives after a form was answered is judged by values that were
\* read since, or by none where the read failed: stamps rise, lists that are not
\* dirty were read since every form that was answered, and none is answered while
\* they are read.
THEOREM Forms == Spec => []FormsObeyed
<1>1. GuardInv => FormsObeyed
  <2>1. SUFFICES ASSUME GuardInv, NEW w \in Workers, Doing(w, "check"), NEW k \in KVSet
                 PROVE  task[w].guard[k].stamp >= task[w].floor[k]
    BY DEF FormsObeyed, KVSet
  <2>2. task[w].floor[k] <= task[w].guard[k].stamp
    BY <2>1 DEF GuardInv, TaskOK, FloorOK
  <2>3. QED
    BY <2>2
<1>2. QED
  BY StartGuard, GuardInductive, <1>1, PTL DEF Spec

-------------------------------------------------------------------------------
(* The cached routes                                                       *)

Current == CacheOf(Enabled(routes))

\* As long as no two refreshes overlapped and no save failed there is one refresh
\* at most, its copy is of the routes as they are, and when there is none the
\* cache is.
CacheInv ==
  /\ DOMAIN task = Workers
  /\ ~misplaced =>
       /\ \A v, w \in Refreshing : v = w
       /\ \A w \in Refreshing : Doing(w, "swap") => task[w].cache = Current
       /\ Refreshing = {} => routeCache = Current

LEMMA StartCache == Init => CacheInv
<1>1. SUFFICES ASSUME Init PROVE CacheInv
  OBVIOUS
<1>2. DOMAIN task = Workers /\ Refreshing = {} /\ routeCache = Current
  BY <1>1 DEF Init, Idle, Refreshing, Current
<1>3. QED
  BY <1>2 DEF CacheInv

\* What a step of w makes of the refreshes under way.
LEMMA RefreshersMove ==
  ASSUME NEW w \in Workers, DOMAIN task = Workers, Moves(w)
  PROVE  /\ DOMAIN task' = Workers /\ \A v \in Workers \ {w} : task'[v] = task[v]
         /\ \A v \in Workers \ {w} : v \in Refreshing' <=> v \in Refreshing
         /\ w \in Refreshing' <=> task'[w].op \in {"snapshot", "swap"}
<1>1. DOMAIN task' = Workers /\ \A v \in Workers \ {w} : task'[v] = task[v]
  BY OneTaskMoves
<1>2. QED
  BY <1>1 DEF Refreshing

\* A step that is no part of a refresh.
LEMMA CacheUntouched ==
  ASSUME CacheInv, NEW w \in Workers, Moves(w), w \notin Refreshing, w \notin Refreshing',
         UNCHANGED <<routes, routeCache, misplaced>>
  PROVE  CacheInv'
<1>1. /\ DOMAIN task' = Workers /\ \A v \in Workers \ {w} : task'[v] = task[v]
      /\ Refreshing' = Refreshing
  BY RefreshersMove DEF CacheInv, Refreshing
<1>2. Current' = Current
  BY DEF Current
<1>3. \A v \in Refreshing : task'[v] = task[v]
  BY <1>1 DEF Refreshing
<1>4. QED
  BY <1>1, <1>2, <1>3 DEF CacheInv, Doing

\* The start of a refresh: it is the only one, or the cache may be misplaced.
LEMMA RefreshStarts ==
  ASSUME CacheInv, NEW w \in Workers, Become(w, [op |-> "snapshot"]),
         misplaced' = (Refreshing # {})
  PROVE  CacheInv'
<1>1. Moves(w) /\ task' = [task EXCEPT ![w] = [op |-> "snapshot"]]
  BY DEF Become, Moves
<1>2. /\ DOMAIN task' = Workers /\ task'[w].op = "snapshot"
      /\ \A v \in Workers \ {w} : v \in Refreshing' <=> v \in Refreshing
  BY <1>1, RefreshersMove DEF CacheInv
<1>3. w \in Refreshing'
  BY <1>2 DEF Refreshing
<1>4. ASSUME ~misplaced'
      PROVE  /\ \A v, u \in Refreshing' : v = u
             /\ \A v \in Refreshing' : Doing(v, "swap")' => task'[v].cache = Current'
  <2>1. \A v \in Refreshing' : v = w
    BY <1>2, <1>4 DEF Refreshing
  <2>2. QED
    BY <1>2, <2>1 DEF Doing
<1>5. QED
  BY <1>2, <1>3, <1>4 DEF CacheInv

LEMMA EditKeepsCache ==
  ASSUME CacheInv, NEW w \in Workers, NEW rs, EditRoutes(w, rs)
  PROVE  CacheInv'
<1>1. CASE Become(w, [op |-> "snapshot"]) /\ misplaced' = (Refreshing # {})
  BY <1>1, RefreshStarts
<1>2. CASE Become(w, Idle) /\ misplaced' = TRUE
  <2>1. DOMAIN task' = Workers
    BY <1>2 DEF Become, CacheInv
  <2>2. QED
    BY <1>2, <2>1 DEF CacheInv
<1>3. QED
  BY <1>1, <1>2 DEF EditRoutes

LEMMA SnapshotKeepsCache ==
  ASSUME CacheInv, NEW w \in Workers, RefreshSnapshot(w)
  PROVE  CacheInv'
<1>1. /\ Doing(w, "snapshot") /\ task' = [task EXCEPT ![w] = [op |-> "swap", cache |-> Current]]
      /\ UNCHANGED <<routes, routeCache, misplaced>>
  BY DEF RefreshSnapshot, Become, Current, routeVars
<1>2. Moves(w)
  BY <1>1 DEF Moves
<1>3. /\ DOMAIN task' = Workers /\ task'[w].op = "swap" /\ task'[w].cache = Current
      /\ \A v \in Workers \ {w} : task'[v] = task[v]
  BY <1>1, <1>2, OneTaskMoves DEF CacheInv
<1>4. Refreshing' = Refreshing
  BY <1>1, <1>3 DEF Refreshing, Doing
<1>5. Current' = Current
  BY <1>1 DEF Current
<1>6. ASSUME ~misplaced, NEW v \in Refreshing, Doing(v, "swap")'
      PROVE  task'[v].cache = Current
  <2>1. CASE v = w
    BY <1>3, <2>1
  <2>2. CASE v # w
    BY <1>3, <1>6, <2>2 DEF CacheInv, Refreshing, Doing
  <2>3. QED
    BY <2>1, <2>2
<1>7. QED
  BY <1>1, <1>3, <1>4, <1>5, <1>6 DEF CacheInv

LEMMA SwapKeepsCache ==
  ASSUME CacheInv, NEW w \in Workers, RefreshSwap(w)
  PROVE  CacheInv'
<1>1. /\ Doing(w, "swap") /\ routeCache' = task[w].cache /\ task' = [task EXCEPT ![w] = Idle]
      /\ UNCHANGED <<routes, misplaced>>
  BY DEF RefreshSwap, NewCache, Become
<1>2. Moves(w)
  BY <1>1 DEF Moves
<1>3. /\ DOMAIN task' = Workers /\ task'[w].op = "idle"
      /\ \A v \in Workers \ {w} : v \in Refreshing' <=> v \in Refreshing
  BY <1>1, <1>2, RefreshersMove DEF CacheInv, Idle
<1>4. w \in Refreshing /\ w \notin Refreshing' /\ Refreshing' \in SUBSET Workers
  BY <1>1, <1>3 DEF Refreshing, Doing
<1>5. ASSUME ~misplaced PROVE Refreshing' = {} /\ routeCache' = Current
  BY <1>1, <1>3, <1>4, <1>5 DEF CacheInv
<1>6. Current' = Current
  BY <1>1 DEF Current
<1>7. QED
  BY <1>1, <1>3, <1>5, <1>6 DEF CacheInv

\* The other steps of a goroutine: none of them begins, or is part of, a refresh.
NoRefresh(w) ==
  \/ RelayStart(w) \/ UserRateAllowed(w) \/ TokReqAllowed(w) \/ TokTPMAllowed(w)
  \/ FormStart(w) \/ FormWrite(w) \/ FormDone(w)
  \/ GuardStart(w) \/ RefreshGuard(w) \/ ReadGuardKV(w) \/ RefreshDone(w)
  \/ CopyGuard(w) \/ GuardCheck(w)
  \/ ProxyMatch(w) \/ ProxyCharge(w) \/ ProxyLimit(w) \/ ProxyTurn(w) \/ ProxyTry(w)
  \/ BadGateway(w)

LEMMA NoRefreshFrame ==
  ASSUME DOMAIN task = Workers, NEW w \in Workers, "op" \in DOMAIN task[w], NoRefresh(w)
  PROVE  /\ Moves(w) /\ UNCHANGED <<routes, routeCache, misplaced>>
         /\ w \notin Refreshing /\ w \notin Refreshing'
<1>1. w \notin Refreshing
  <2>1. NoRefresh(w) => task[w] = Idle \/ task[w].op \in Ops \ {"snapshot", "swap"}
    <3>1. /\ RelayStart(w) \/ FormStart(w) \/ GuardStart(w) \/ ProxyMatch(w) => task[w] = Idle
          /\ UserRateAllowed(w) => task[w].op = "user"
          /\ TokReqAllowed(w) => task[w].op = "rpm"
          /\ TokTPMAllowed(w) => task[w].op = "tpm"
      BY DEF RelayStart, FormStart, GuardStart, ProxyMatch, CanStart, UserRateAllowed, TokReqAllowed,
             TokTPMAllowed, Doing
    <3>2. /\ FormWrite(w) \/ FormDone(w) => task[w].op = "form"
          /\ RefreshGuard(w) => task[w].op = "refresh"
          /\ ReadGuardKV(w) \/ RefreshDone(w) => task[w].op = "read"
          /\ CopyGuard(w) => task[w].op = "copy"
          /\ GuardCheck(w) => task[w].op = "check"
      BY DEF FormWrite, FormDone, RefreshGuard, ReadGuardKV, RefreshDone, CopyGuard, GuardCheck, Doing
    <3>3. /\ ProxyCharge(w) => task[w].op = "charge"
          /\ ProxyLimit(w) => task[w].op = "limit"
          /\ ProxyTurn(w) => task[w].op = "turn"
          /\ ProxyTry(w) \/ BadGateway(w) => task[w].op = "serve"
      BY DEF ProxyCharge, ProxyLimit, ProxyTurn, ProxyTry, BadGateway, Doing
    <3>4. QED
      BY <3>1, <3>2, <3>3 DEF NoRefresh, Ops
  <2>2. QED
    BY <2>1 DEF Refreshing, Idle
<1>2. UNCHANGED <<routes, routeCache, misplaced>>
  BY DEF NoRefresh, RelayStart, UserRateAllowed, TokReqAllowed, TokTPMAllowed, LimitStep,
         FormStart, FormWrite, FormDone, GuardStart, RefreshGuard, ReadGuardKV,
         RefreshDone, CopyGuard, GuardCheck, ProxyMatch, ProxyCharge, ProxyLimit, ProxyTurn,
         ProxyTry, BadGateway, routeVars
<1>3. Moves(w) /\ w \notin Refreshing'
  BY Course DEF NoRefresh, After, Refreshing
<1>4. QED
  BY <1>1, <1>2, <1>3

LEMMA CacheInductive == GuardInv /\ CacheInv /\ [Next]_vars => CacheInv'
<1> SUFFICES ASSUME GuardInv, CacheInv, [Next]_vars PROVE CacheInv'
  OBVIOUS
<1>1. ASSUME UNCHANGED <<routes, routeCache, misplaced, task>> PROVE CacheInv'
  BY <1>1 DEF CacheInv, Refreshing, Current, Doing
<1>2. CASE Tick \/ RateJanitor \/ UNCHANGED vars
  BY <1>1, <1>2 DEF Tick, RateJanitor, vars, routeVars
<1>3. ASSUME NEW w \in Workers, Step(w) PROVE CacheInv'
  <2>1. CASE NoRefresh(w)
    <3>1. DOMAIN task = Workers /\ "op" \in DOMAIN task[w]
      BY DEF GuardInv, TaskOK
    <3>2. QED
      BY <2>1, <3>1, NoRefreshFrame, CacheUntouched
  <2>2. CASE InsertRoute(w) \/ UpdateRoute(w) \/ DeleteRoute(w)
    <3>1. \E rs : EditRoutes(w, rs)
      BY <2>2 DEF InsertRoute, UpdateRoute, DeleteRoute
    <3>2. QED
      BY <3>1, EditKeepsCache
  <2>3. CASE Hup(w)
    BY <2>3, RefreshStarts DEF Hup
  <2>4. CASE RefreshSnapshot(w) \/ RefreshSwap(w)
    BY <2>4, SnapshotKeepsCache, SwapKeepsCache
  <2>5. QED
    BY <1>3, <2>1, <2>2, <2>3, <2>4 DEF Step, NoRefresh
<1>4. QED
  BY <1>2, <1>3 DEF Next

\* When no refresh is under way the cache has the enabled routes as they were last
\* edited, unless two refreshes overlapped or a save failed: every edit that is
\* answered with success is followed by a refresh, and a refresh that is alone
\* puts in place what it has copied.
THEOREM RoutesCached == Spec => []CacheCurrent
<1>1. CacheInv => CacheCurrent
  BY DEF CacheInv, CacheCurrent, Current
<1>2. QED
  BY StartGuard, GuardInductive, StartCache, CacheInductive, <1>1, PTL DEF Spec

-------------------------------------------------------------------------------
(* The windows                                                             *)

\* A window has all that it let through in the last minute.
WindowsOK ==
  /\ deployment \in Deployments /\ now \in Times
  /\ windows \in [Buckets -> [Times -> Nat]] /\ passed \in [Buckets -> [Times -> Nat]]
  /\ \A b \in Buckets : Recent(windows[b]) = Recent(passed[b])
  /\ WindowBounded

\* What a request brings to the windows: the estimate of its tokens, and the limit
\* of its address that an administrator has set.
CostsOK ==
  \A w \in Workers :
    task[w].op \in {"user", "rpm", "tpm"} => "cost" \in DOMAIN task[w] /\ task[w].cost \in Costs

LimitsOK ==
  /\ DOMAIN kv = KVSet /\ kv["limit"].value \in IPLimits \union {0}
  /\ DOMAIN guard = KVSet /\ guard["limit"].value \in IPLimits \union {0}
  /\ \A w \in Workers :
       Doing(w, "check") => task[w].guard["limit"].value \in IPLimits \union {0}

WindowInv == DOMAIN task = Workers /\ WindowsOK /\ CostsOK /\ LimitsOK

LEMMA TimesAreFinite ==
  ASSUME deployment \in Deployments
  PROVE  IsFiniteSet(Times) /\ deployment.ticks \in Nat /\ Times \subseteq Nat
<1>1. deployment.ticks \in Nat
  BY DeploymentAssumption
<1>2. QED
  BY <1>1, FS_Interval DEF Times

LEMMA RecentType ==
  ASSUME NEW e \in [Times -> Nat]
  PROVE  Recent(e) \in [Times -> Nat]
BY DEF Recent

\* The sum of a window, and what a booking adds to it.
LEMMA SumOfWindow ==
  ASSUME deployment \in Deployments, NEW e \in [Times -> Nat]
  PROVE  Sum(e) \in Int
<1>1. e \in [Times -> Int] /\ IsFiniteSet(Times)
  BY TimesAreFinite
<1>2. QED
  BY <1>1, SumType DEF Sum

LEMMA SumOfBooking ==
  ASSUME deployment \in Deployments, now \in Times, NEW e \in [Times -> Nat], NEW n \in Nat
  PROVE  /\ Book(e, n) \in [Times -> Nat]
         /\ Sum(Recent(Book(e, n))) = Sum(Recent(e)) + n
<1> DEFINE f == Recent(e)
           h == Recent(Book(e, n))
<1>1. Book(e, n) \in [Times -> Nat]
  BY DEF Book
<1>2. IsFiniteSet(Times) /\ f \in [Times -> Int] /\ h \in [Times -> Int] /\ n \in Int
  BY <1>1, TimesAreFinite, RecentType
<1>3. h[now] = f[now] + n
  BY NumberAssumption, TimesAreFinite DEF Recent, Book
<1>4. \A t \in Times \ {now} : h[t] = f[t]
  BY DEF Recent, Book
<1>5. DiffersBy(Times, f, h, now, n)
  BY <1>3, <1>4 DEF DiffersBy
<1> HIDE DEF f, h
<1>6. SumFunction(h) = SumFunction(f) + n
  BY <1>2, <1>5, SumChange
<1>7. QED
  BY <1>1, <1>6 DEF Sum, f, h

\* A tick takes away what is a minute old.
Aged(e) == [t \in Times |-> IF (now + 1) - t < Window THEN e[t] ELSE 0]

LEMMA SameFunction ==
  ASSUME NEW S, NEW T, NEW f \in [S -> T], NEW h \in [S -> T], \A x \in S : h[x] = f[x]
  PROVE  h = f
OBVIOUS

LEMMA SumOfAged ==
  ASSUME deployment \in Deployments, now \in Times, NEW e \in [Times -> Nat]
  PROVE  Sum(Aged(e)) <= Sum(Recent(e)) /\ Sum(Aged(e)) \in Int /\ Sum(Recent(e)) \in Int
<1> DEFINE f == Recent(e)
           h == Aged(e)
           u == (now + 1) - Window
<1>1. f \in [Times -> Nat] /\ h \in [Times -> Nat] /\ Times \subseteq Nat
  BY TimesAreFinite, RecentType DEF Aged
<1>2. IsFiniteSet(Times) /\ f \in [Times -> Int] /\ h \in [Times -> Int]
  BY <1>1, TimesAreFinite
<1>3. Window \in Nat \ {0}
  BY NumberAssumption
<1>4. \A t \in Times \ {u} : h[t] = f[t]
  BY <1>1, <1>3 DEF Recent, Aged
<1>5. CASE u \in Times
  <2>1. h[u] = 0 /\ f[u] \in Nat
    BY <1>1, <1>3, <1>5 DEF Aged
  <2> HIDE DEF f, h, u
  <2>2. PICK d \in Int : d = 0 - f[u]
    BY <2>1
  <2>3. DiffersBy(Times, f, h, u, d)
    BY <1>4, <2>1, <2>2 DEF DiffersBy
  <2>4. SumFunction(h) = SumFunction(f) + d
    BY <1>2, <1>5, <2>3, SumChange
  <2>5. SumFunction(f) \in Int
    BY <1>2, SumType
  <2>6. SumFunction(h) <= SumFunction(f) /\ SumFunction(h) \in Int
    BY <2>1, <2>2, <2>4, <2>5
  <2>7. QED
    BY <2>5, <2>6 DEF Sum, f, h
<1>6. CASE u \notin Times
  <2>1. \A t \in Times : h[t] = f[t]
    BY <1>4, <1>6
  <2>2. h = f
    <3> HIDE DEF h, f
    <3>1. QED
      BY <2>1, <1>2, SameFunction
  <2>3. Sum(f) \in Int
    BY <1>1, SumOfWindow
  <2>4. QED
    BY <2>2, <2>3
<1>7. QED
  BY <1>5, <1>6

\* Bookings that are a minute old count for nothing, wherever they are dropped.
LEMMA RecentTwice ==
  ASSUME NEW e \in [Times -> Nat]
  PROVE  Recent(Recent(e)) = Recent(e)
BY DEF Recent

LEMMA SameAfterBooking ==
  ASSUME NEW e \in [Times -> Nat], NEW f \in [Times -> Nat], Recent(e) = Recent(f),
         NEW n \in Nat
  PROVE  Recent(Book(Recent(e), n)) = Recent(Book(f, n))
<1> DEFINE g == Recent(e)
           h == Recent(f)
<1>1. \A t \in Times : now - t < Window => g[t] = e[t] /\ h[t] = f[t]
  BY DEF Recent
<1>2. DOMAIN g = Times /\ g = h
  BY DEF Recent
<1> HIDE DEF g, h
<1>3. ASSUME NEW t \in Times, now - t < Window
      PROVE  Book(g, n)[t] = Book(f, n)[t]
  <2>1. g[t] = f[t]
    BY <1>1, <1>2, <1>3
  <2>2. QED
    BY <1>2, <2>1 DEF Book
<1>4. Recent(Book(g, n)) = Recent(Book(f, n))
  BY <1>3 DEF Recent
<1>5. QED
  BY <1>4 DEF g

LEMMA AllowKeeps ==
  ASSUME WindowsOK, UNCHANGED <<deployment, now>>, NEW b \in Buckets, NEW n \in Nat,
         NEW limit \in Int, NEW ok \in BOOLEAN, Allow(b, n, limit, ok),
         IF b = "ip" THEN limit \in IPLimits ELSE limit = Limits[b]
  PROVE  WindowsOK'
<1> DEFINE e == windows[b]
           f == passed[b]
<1>1. /\ deployment \in Deployments /\ now \in Times /\ e \in [Times -> Nat] /\ f \in [Times -> Nat]
      /\ Recent(e) = Recent(f) /\ Times' = Times
  BY DEF WindowsOK, Times
<1>2. /\ windows' = [windows EXCEPT ![b] = IF ok THEN Book(Recent(e), n) ELSE Recent(e)]
      /\ passed' = [passed EXCEPT ![b] = IF ok THEN Book(f, n) ELSE f]
      /\ ok = (Sum(Recent(e)) + n <= limit)
  BY DEF Allow, Fits
<1>3. /\ windows'[b] = IF ok THEN Book(Recent(e), n) ELSE Recent(e)
      /\ passed'[b] = IF ok THEN Book(f, n) ELSE f
      /\ \A c \in Buckets \ {b} : windows'[c] = windows[c] /\ passed'[c] = passed[c]
  BY <1>2 DEF WindowsOK
<1>4. Recent(e) \in [Times -> Nat] /\ Book(Recent(e), n) \in [Times -> Nat]
      /\ Book(f, n) \in [Times -> Nat]
  BY <1>1, RecentType, SumOfBooking
<1>5. windows' \in [Buckets -> [Times -> Nat]] /\ passed' \in [Buckets -> [Times -> Nat]]
  BY <1>1, <1>2, <1>4 DEF WindowsOK
<1>6. \A c \in Buckets : /\ Recent(windows[c])' = Recent(windows'[c])
                         /\ Recent(passed[c])' = Recent(passed'[c])
  BY <1>1 DEF Recent
<1>7. Recent(windows'[b]) = Recent(passed'[b])
  BY <1>1, <1>3, RecentTwice, SameAfterBooking
<1>8. \A c \in Buckets : Recent(windows'[c]) = Recent(passed'[c])
  BY <1>3, <1>7 DEF WindowsOK
<1>9. \A c \in Buckets : LastMinute(c)' = Sum(Recent(passed'[c]))
  BY <1>6 DEF LastMinute, Sum
<1>10. \A c \in Buckets \ {b} : LastMinute(c)' = LastMinute(c)
  BY <1>3, <1>9 DEF LastMinute
<1>11. LastMinute(b)' = IF ok THEN Sum(Recent(e)) + n ELSE LastMinute(b)
  BY <1>1, <1>3, <1>9, SumOfBooking DEF LastMinute
<1>12. ok => LastMinute(b)' <= limit
  BY <1>2, <1>11
<1>13. WindowBounded'
  <2>1. ASSUME NEW c \in {"user", "rpm", "tpm"} PROVE LastMinute(c)' <= Limits[c]
    <3>1. c \in Buckets /\ c # "ip" /\ LastMinute(c) <= Limits[c]
      BY DEF Buckets, WindowsOK, WindowBounded
    <3>2. QED
      BY <3>1, <1>10, <1>11, <1>12
  <2>2. \E l \in IPLimits \union {0} : LastMinute("ip")' <= l
    <3>1. "ip" \in Buckets /\ \E l \in IPLimits \union {0} : LastMinute("ip") <= l
      BY DEF Buckets, WindowsOK, WindowBounded
    <3>2. QED
      BY <3>1, <1>10, <1>11, <1>12
  <2>3. QED
    BY <2>1, <2>2 DEF WindowBounded
<1>14. QED
  BY <1>1, <1>5, <1>6, <1>8, <1>13 DEF WindowsOK

LEMMA TickKeeps ==
  ASSUME WindowsOK, Tick
  PROVE  WindowsOK'
<1>1. /\ deployment' = deployment /\ Times' = Times /\ windows' = windows /\ passed' = passed
      /\ now' = now + 1 /\ now < deployment.ticks /\ deployment \in Deployments
      /\ now \in Times
  BY DEF Tick, limitVars, Times, WindowsOK
<1>2. now' \in Times
  BY <1>1, TimesAreFinite DEF Times
<1>3. \A c \in Buckets : /\ Recent(windows[c])' = Aged(windows[c])
                         /\ Recent(passed[c])' = Aged(passed[c])
  BY <1>1 DEF Recent, Aged
<1>4. ASSUME NEW c \in Buckets
      PROVE  Aged(windows[c]) = Aged(passed[c])
  <2> DEFINE g == Recent(windows[c])
             h == Recent(passed[c])
  <2>1. \A t \in Times : now - t < Window => g[t] = windows[c][t] /\ h[t] = passed[c][t]
    BY DEF Recent
  <2>2. g = h
    BY DEF WindowsOK
  <2> HIDE DEF g, h
  <2>3. \A t \in Times : (now + 1) - t < Window => now - t < Window
    BY <1>1, NumberAssumption, TimesAreFinite
  <2>4. \A t \in Times : (now + 1) - t < Window => windows[c][t] = passed[c][t]
    BY <2>1, <2>2, <2>3
  <2>5. QED
    BY <2>4 DEF Aged
<1>5. ASSUME NEW c \in Buckets
      PROVE  /\ LastMinute(c)' <= LastMinute(c)
             /\ LastMinute(c)' \in Int /\ LastMinute(c) \in Int
  <2>1. passed[c] \in [Times -> Nat]
    BY DEF WindowsOK
  <2>2. LastMinute(c)' = Sum(Aged(passed[c])) /\ LastMinute(c) = Sum(Recent(passed[c]))
    BY <1>3 DEF LastMinute, Sum
  <2>3. QED
    BY <1>1, <2>1, <2>2, SumOfAged
<1>6. WindowBounded'
  <2>1. ASSUME NEW c \in {"user", "rpm", "tpm"} PROVE LastMinute(c)' <= Limits[c]
    <3>1. c \in Buckets /\ LastMinute(c) <= Limits[c] /\ Limits[c] \in Nat
      BY LimitAssumption DEF Buckets, WindowsOK, WindowBounded
    <3>2. QED
      BY <3>1, <1>5
  <2>2. \E l \in IPLimits \union {0} : LastMinute("ip")' <= l
    <3>1. PICK l \in IPLimits \union {0} : LastMinute("ip") <= l
      BY DEF WindowsOK, WindowBounded
    <3>2. "ip" \in Buckets /\ l \in Nat
      BY LimitAssumption DEF Buckets
    <3>3. QED
      BY <3>1, <3>2, <1>5
  <2>3. QED
    BY <2>1, <2>2 DEF WindowBounded
<1>7. QED
  BY <1>1, <1>2, <1>3, <1>4, <1>6 DEF WindowsOK

\* Steps that leave the windows alone.
LEMMA WindowsUntouched ==
  ASSUME WindowsOK, UNCHANGED <<deployment, now, windows, passed>>
  PROVE  WindowsOK'
BY DEF WindowsOK, WindowBounded, LastMinute, Recent, Sum, Times

LEMMA JanitorKeeps ==
  ASSUME WindowsOK, RateJanitor
  PROVE  WindowsOK'
<1>1. /\ UNCHANGED <<deployment, now, passed>> /\ Times' = Times
      /\ windows' = [windows EXCEPT !["ip"] = Recent(@)]
      /\ "ip" \in Buckets
  BY DEF RateJanitor, Times, Buckets
<1>2. windows' \in [Buckets -> [Times -> Nat]]
  BY <1>1, RecentType DEF WindowsOK
<1>3. \A c \in Buckets : windows'[c] = windows[c] \/ windows'[c] = Recent(windows[c])
  BY <1>1 DEF WindowsOK
<1>4. \A c \in Buckets : Recent(windows'[c]) = Recent(windows[c])
  BY <1>3, RecentTwice DEF WindowsOK
<1>5. \A c \in Buckets : /\ Recent(windows[c])' = Recent(windows'[c])
                         /\ Recent(passed[c])' = Recent(passed[c])
  BY <1>1 DEF Recent
<1>6. WindowBounded'
  BY <1>1, <1>5 DEF WindowsOK, WindowBounded, LastMinute, Sum, Buckets
<1>7. QED
  BY <1>1, <1>2, <1>4, <1>5, <1>6 DEF WindowsOK

LEMMA RequestKeepsWindows ==
  ASSUME WindowInv, NEW w \in Workers,
         UserRateAllowed(w) \/ TokReqAllowed(w) \/ TokTPMAllowed(w) \/ GuardCheck(w)
  PROVE  WindowsOK'
<1>1. ASSUME NEW b \in Buckets \ {"ip"}, NEW n \in Nat, NEW t, LimitStep(w, b, n, t)
      PROVE  WindowsOK'
  <2>1. PICK ok \in BOOLEAN : Allow(b, n, Limits[b], ok)
    BY <1>1 DEF LimitStep
  <2>2. UNCHANGED <<deployment, now>> /\ Limits[b] \in Int
    BY <1>1, LimitAssumption DEF LimitStep, Buckets
  <2>3. QED
    BY <2>1, <2>2, AllowKeeps DEF WindowInv
<1>2. CASE UserRateAllowed(w) \/ TokReqAllowed(w)
  BY <1>1, <1>2 DEF UserRateAllowed, TokReqAllowed, Buckets
<1>3. CASE TokTPMAllowed(w)
  <2>1. task[w].cost \in Nat
    BY <1>3, NumberAssumption DEF WindowInv, CostsOK, TokTPMAllowed, Doing
  <2>2. QED
    BY <1>1, <1>3, <2>1 DEF TokTPMAllowed, Buckets
<1>4. CASE GuardCheck(w)
  <2> DEFINE limit == task[w].guard["limit"].value
  <2>1. UNCHANGED <<deployment, now>>
    BY <1>4 DEF GuardCheck
  <2>2. limit \in IPLimits \union {0}
    BY <1>4 DEF GuardCheck, WindowInv, LimitsOK
  <2>3. CASE UNCHANGED limitVars
    BY <2>1, <2>3, WindowsUntouched DEF limitVars, WindowInv
  <2>4. CASE limit > 0 /\ \E ok \in BOOLEAN : Allow("ip", 1, limit, ok)
    <3>1. limit \in IPLimits /\ limit \in Int /\ "ip" \in Buckets
      BY <2>2, <2>4, LimitAssumption DEF Buckets
    <3>2. QED
      BY <2>1, <2>4, <3>1, AllowKeeps DEF WindowInv
  <2>5. QED
    BY <1>4, <2>3, <2>4 DEF GuardCheck
<1>5. QED
  BY <1>2, <1>3, <1>4

\* No other step touches the windows.
LEMMA WindowFrame ==
  ASSUME NEW w \in Workers, Step(w),
         ~(UserRateAllowed(w) \/ TokReqAllowed(w) \/ TokTPMAllowed(w) \/ GuardCheck(w))
  PROVE  UNCHANGED <<deployment, now, windows, passed>>
<1>1. CASE InsertRoute(w) \/ UpdateRoute(w) \/ DeleteRoute(w)
  BY <1>1 DEF InsertRoute, UpdateRoute, DeleteRoute, EditFrame, limitVars
<1>2. CASE ~(InsertRoute(w) \/ UpdateRoute(w) \/ DeleteRoute(w))
  BY <1>2 DEF Step, RelayStart, FormStart, FormWrite, FormDone, GuardStart, RefreshGuard,
              ReadGuardKV, RefreshDone, CopyGuard, Hup, RefreshSnapshot, RefreshSwap, ProxyMatch,
              ProxyCharge, ProxyLimit, ProxyTurn, ProxyTry, BadGateway, limitVars
<1>3. QED
  BY <1>1, <1>2

\* The estimate of a request stays what it was made with.
LEMMA CostsKept ==
  ASSUME DOMAIN task = Workers, CostsOK, NEW w \in Workers, "op" \in DOMAIN task[w], Step(w)
  PROVE  CostsOK'
<1> DEFINE Charged(op) == op \in {"user", "rpm", "tpm"}
<1>1. ASSUME Moves(w), Charged(task'[w].op) =>
                         "cost" \in DOMAIN task'[w] /\ task'[w].cost \in Costs
      PROVE  CostsOK'
  BY <1>1, OneTaskMoves DEF CostsOK
<1>2. CASE RelayStart(w)
  <2>1. PICK cost \in Costs : task' = [task EXCEPT ![w] = [op |-> "user", cost |-> cost]]
    BY <1>2 DEF RelayStart, Become
  <2>2. Moves(w) /\ "cost" \in DOMAIN task'[w] /\ task'[w].cost \in Costs
    BY <2>1 DEF Moves
  <2>3. QED
    BY <1>1, <2>2
<1>3. CASE UserRateAllowed(w) \/ TokReqAllowed(w)
  <2>1. "cost" \in DOMAIN task[w] /\ task[w].cost \in Costs
    BY <1>3 DEF CostsOK, UserRateAllowed, TokReqAllowed, Doing
  <2>2. PICK op \in {"rpm", "tpm"} :
          Become(w, [task[w] EXCEPT !.op = op]) \/ Become(w, Idle)
    BY <1>3 DEF UserRateAllowed, TokReqAllowed, LimitStep
  <2>3. CASE Become(w, [task[w] EXCEPT !.op = op])
    <3>1. Moves(w) /\ "cost" \in DOMAIN task'[w] /\ task'[w].cost = task[w].cost
      BY <2>1, <2>3 DEF Become, Moves
    <3>2. QED
      BY <1>1, <2>1, <3>1
  <2>4. CASE Become(w, Idle)
    <3>1. Moves(w) /\ ~Charged(task'[w].op)
      BY <2>4 DEF Become, Moves, Idle
    <3>2. QED
      BY <1>1, <3>1
  <2>5. QED
    BY <2>2, <2>3, <2>4
<1>4. CASE ~(RelayStart(w) \/ UserRateAllowed(w) \/ TokReqAllowed(w))
  <2>1. Moves(w) /\ ~Charged(task'[w].op)
    BY <1>4, Course DEF Step, After
  <2>2. QED
    BY <1>1, <2>1
<1>5. QED
  BY <1>2, <1>3, <1>4

\* The limit of an address comes from a form.
LEMMA LimitsKept ==
  ASSUME GuardInv, LimitsOK, NEW w \in Workers, Step(w)
  PROVE  LimitsOK'
<1> DEFINE L == IPLimits \union {0}
<1>1. DOMAIN task = Workers /\ "op" \in DOMAIN task[w]
  BY DEF GuardInv, TaskOK
<1>2. Moves(w) /\ \A v \in Workers \ {w} : task'[v] = task[v]
  BY <1>1, Course, OneTaskMoves DEF Step, After
<1>3. ASSUME DOMAIN kv' = KVSet, kv'["limit"].value \in L,
             DOMAIN guard' = KVSet, guard'["limit"].value \in L,
             task'[w].op # "check"
      PROVE  LimitsOK'
  BY <1>2, <1>3 DEF LimitsOK, Doing
<1>4. CASE FormWrite(w)
  <2> DEFINE k == Head(task[w].left)
  <2>1. UNCHANGED guard /\ task'[w].op # "check"
    BY <1>1, <1>4, Course DEF FormWrite, After
  <2>2. \/ UNCHANGED kv
        \/ \E v \in FormValues(k) : kv' = [kv EXCEPT ![k] = [value |-> v, stamp |-> Stamp]]
    BY <1>4 DEF FormWrite
  <2> HIDE DEF k
  <2>3. DOMAIN kv' = KVSet /\ kv'["limit"].value \in L
    <3>1. CASE UNCHANGED kv
      BY <3>1 DEF LimitsOK
    <3>2. ASSUME NEW v \in FormValues(k), kv' = [kv EXCEPT ![k] = [value |-> v, stamp |-> Stamp]]
          PROVE  DOMAIN kv' = KVSet /\ kv'["limit"].value \in L
      <4>1. CASE k = "limit"
        BY <3>2, <4>1, KVNames DEF LimitsOK, FormValues
      <4>2. CASE k # "limit"
        BY <3>2, <4>2 DEF LimitsOK
      <4>3. QED
        BY <4>1, <4>2
    <3>3. QED
      BY <2>2, <3>1, <3>2
  <2>4. QED
    BY <1>3, <2>1, <2>3 DEF LimitsOK
<1>5. CASE ReadGuardKV(w)
  <2> DEFINE k == Head(task[w].left)
  <2>1. UNCHANGED kv /\ task'[w].op # "check"
    BY <1>1, <1>5, Course DEF ReadGuardKV, After
  <2>2. PICK entry \in {kv[k], [value |-> Open(k), stamp |-> kv[k].stamp]} :
               guard' = [guard EXCEPT ![k] = entry]
    BY <1>5 DEF ReadGuardKV
  <2>3. k = "limit" => entry.value \in L
    BY <2>2, KVNames DEF LimitsOK, Open
  <2>4. DOMAIN guard' = KVSet /\ guard'["limit"].value \in L
    BY <2>2, <2>3, KVNames DEF LimitsOK
  <2>5. QED
    BY <1>3, <2>1, <2>4 DEF LimitsOK
<1>6. CASE CopyGuard(w)
  <2>1. /\ UNCHANGED <<kv, guard>>
        /\ task' = [task EXCEPT ![w] = [op |-> "check", floor |-> task[w].floor,
                                        guard |-> guard]]
    BY <1>6 DEF CopyGuard, Become, guardVars
  <2>2. task'[w].guard = guard
    BY <1>1, <2>1
  <2>3. QED
    BY <1>2, <2>1, <2>2 DEF LimitsOK, Doing
<1>7. CASE ~(FormWrite(w) \/ ReadGuardKV(w) \/ CopyGuard(w))
  <2>1. UNCHANGED <<kv, guard>>
    <3>1. CASE Elsewhere(w)
      BY <1>1, <3>1, ElsewhereFrame DEF guardVars, GuardInv, StampsOK
    <3>2. CASE ~Elsewhere(w)
      BY <1>7, <3>2 DEF Elsewhere, Step, FormStart, FormDone, GuardStart, RefreshGuard,
                        RefreshDone, guardVars
    <3>3. QED
      BY <3>1, <3>2
  <2>2. task'[w].op # "check"
    BY <1>1, <1>7, Course DEF Step, After
  <2>3. QED
    BY <1>3, <2>1, <2>2 DEF LimitsOK
<1>8. QED
  BY <1>4, <1>5, <1>6, <1>7

LEMMA StartWindows == Init => WindowInv
<1>1. SUFFICES ASSUME Init PROVE WindowInv
  OBVIOUS
<1>2. /\ deployment \in Deployments /\ now = 0 /\ windows = [b \in Buckets |-> Nothing]
      /\ passed = [b \in Buckets |-> Nothing]
  BY <1>1 DEF Init
<1>3. now \in Times /\ Nothing \in [Times -> Nat]
  BY <1>2, TimesAreFinite DEF Times, Nothing
<1>4. \A b \in Buckets : LastMinute(b) = 0
  <2>1. Recent(Nothing) = Nothing
    BY DEF Recent, Nothing
  <2>2. IsFiniteSet(Times) /\ Nothing \in [Times -> Int] /\ \A t \in Times : Nothing[t] = 0
    BY <1>2, TimesAreFinite DEF Nothing
  <2>3. SumFunction(Nothing) = 0
    <3> HIDE DEF Nothing
    <3>1. QED
      BY <2>2, SumOfZeros
  <2>4. QED
    BY <1>2, <2>1, <2>3 DEF LastMinute, Sum
<1>5. WindowBounded
  BY <1>4, LimitAssumption DEF WindowBounded, Buckets
<1>6. WindowsOK
  BY <1>2, <1>3, <1>5 DEF WindowsOK
<1>7. DOMAIN task = Workers /\ \A w \in Workers : task[w].op = "idle"
  BY <1>1 DEF Init, Idle
<1>8. CostsOK
  BY <1>7 DEF CostsOK
<1>9. LimitsOK
  <2>1. Open("limit") = 0
    BY DEF Open
  <2>2. QED
    BY <1>1, <1>7, <2>1, KVNames DEF Init, LimitsOK, Doing, KVSet
<1>10. QED
  BY <1>6, <1>7, <1>8, <1>9 DEF WindowInv

LEMMA WindowsInductive == GuardInv /\ WindowInv /\ [Next]_vars => WindowInv'
<1> SUFFICES ASSUME GuardInv, WindowInv, [Next]_vars PROVE WindowInv'
  OBVIOUS
<1>1. ASSUME UNCHANGED <<kv, guard, task>>, WindowsOK' PROVE WindowInv'
  BY <1>1 DEF WindowInv, CostsOK, LimitsOK, Doing
<1>2. CASE Tick
  BY <1>1, <1>2, TickKeeps DEF Tick, guardVars, WindowInv
<1>3. CASE RateJanitor
  BY <1>1, <1>3, JanitorKeeps DEF RateJanitor, WindowInv
<1>4. CASE UNCHANGED vars
  BY <1>1, <1>4, WindowsUntouched DEF vars, WindowInv
<1>5. ASSUME NEW w \in Workers, Step(w) PROVE WindowInv'
  <2>1. WindowsOK'
    BY <1>5, RequestKeepsWindows, WindowFrame, WindowsUntouched DEF WindowInv
  <2>2. DOMAIN task = Workers /\ "op" \in DOMAIN task[w]
    BY DEF GuardInv, TaskOK
  <2>3. CostsOK' /\ LimitsOK'
    BY <1>5, <2>2, CostsKept, LimitsKept DEF WindowInv
  <2>4. DOMAIN task' = Workers
    BY <1>5, <2>2, Course, OneTaskMoves DEF Step, After
  <2>5. QED
    BY <2>1, <2>3, <2>4 DEF WindowInv
<1>6. QED
  BY <1>2, <1>3, <1>4, <1>5 DEF Next

\* Whatever requests interleave and whenever the janitor runs, a window lets no more
\* through in a minute than its limit: it has all that it let through in the last
\* minute, and a request is booked in the critical section that finds room for it.
THEOREM Windows == Spec => []WindowBounded
<1>1. WindowInv => WindowBounded
  BY DEF WindowInv, WindowsOK
<1>2. QED
  BY StartGuard, GuardInductive, StartWindows, WindowsInductive, <1>1, PTL DEF Spec
===============================================================================
