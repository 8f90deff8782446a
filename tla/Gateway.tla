-------------------------------- MODULE Gateway --------------------------------
(***************************************************************************)
(* What a request meets on its way to an upstream: the guard with its      *)
(* cached lists of addresses, the sliding windows that limit an address, a *)
(* user and a token, and for the prefix proxy the cached routes, the       *)
(* limiter of a route and the rotation of its upstream keys.               *)
(*                                                                         *)
(* The guard's settings are three KVs written one by one and cached until  *)
(* a flag says they have changed; the routes are cached by taking a copy   *)
(* of the enabled ones and putting it in place under another lock.  An     *)
(* action is one critical section or one statement; requests of several    *)
(* goroutines, administrators and the clock interleave.                    *)
(***************************************************************************)
EXTENDS Integers, Sequences, SequencesExt, FiniteSets, FiniteSetsExt, Functions

CONSTANTS
  Workers,       \* goroutines that serve requests, administrators included
  Nobody,        \* no goroutine
  Window,        \* 60 seconds, in ticks
  Limits,        \* per minute, of the windows: [user, rpm, tpm]
  IPLimits,      \* limits an administrator may give an address, 0 for none
  Costs,         \* estimated tokens of a request
  RoutePrefixes, \* prefixes of routes that match the path, as their lengths
  RateLimits,    \* rate limits of a route, 0 for none
  Keys,          \* number of upstream keys of a route
  Deployments,   \* routes on disk, kinds of requests, and how many requests and ticks
  MaxWrites,     \* bound: rows and KVs written
  MaxFaults      \* bound: saves and reads that fail

AllKinds == {"form", "guarded", "relay", "admin", "proxy", "hup"}

ASSUME NobodyAssumption == Nobody \notin Workers
ASSUME LimitAssumption  ==
  Limits \in [user: Nat \ {0}, rpm: Nat \ {0}, tpm: Nat \ {0}] /\ IPLimits \union RateLimits \subseteq Nat
ASSUME NumberAssumption ==
  /\ {Window, Keys} \union RoutePrefixes \union Costs \subseteq Nat \ {0}
  /\ {MaxWrites, MaxFaults} \subseteq Nat
ASSUME DeploymentAssumption ==
  \A d \in Deployments : d.kinds \subseteq AllKinds /\ {d.requests, d.ticks} \subseteq Nat

VARIABLES
  deployment,
  kv,          \* the guard's KVs: [value, stamp]
  guard,       \* guardWhite, guardBlack, guardLimit: the KVs as they were read
  guardDirty,
  guardMu,     \* who holds it
  windows,     \* rateHits, userReqWin, tokReqWin, tokTokWin: what each has of a tick
  routes,      \* the slice of routes: [id, prefix, limit, on, stamp]
  nextID,      \* the ID of the next one
  routeCache,  \* by prefix
  limiters,    \* by route ID: the limit the limiter was made with
  keyCounter,  \* by route ID: requests that took a turn of its keys
  now, stamp, faults, requests,
  task,
  answered,    \* history: by KV, the stamp of the last write that was answered with success
  passed,      \* history: all that a window let through, by tick
  misplaced    \* history: since a refresh that was alone, refreshes overlapped or a save failed

vars == <<deployment, kv, guard, guardDirty, guardMu, windows, routes, nextID, routeCache, limiters,
          keyCounter, now, stamp, faults, requests, task, answered, passed, misplaced>>

guardVars == <<kv, guard, guardDirty, guardMu, answered>>
routeVars == <<routes, nextID, routeCache, limiters, keyCounter, misplaced>>
limitVars == <<windows, passed>>

KVs     == <<"white", "black", "limit">>
Buckets == {"ip", "user", "rpm", "tpm"}

Idle == [op |-> "idle"]

Become(w, t) == task' = [task EXCEPT ![w] = t]

Doing(w, op) == task[w].op = op

CanStart(w, kind) ==
  /\ kind \in deployment.kinds /\ task[w] = Idle /\ requests < deployment.requests
  /\ requests' = requests + 1

Stamp    == stamp + 1
CanWrite == stamp < MaxWrites

-------------------------------------------------------------------------------
(* Sliding windows                                                         *)

(* A window is a list of instants, or of instants and tokens, that is appended to as time goes on; *)
(* the code asks it for the number or the sum of its entries, and drops them by their age: a tick  *)
(* stands for the entries that have it.                                                            *)
Times == 0 .. deployment.ticks

Nothing == [t \in Times |-> 0]

(* The entries of the last minute. *)
Recent(entries) == [t \in Times |-> IF now - t < Window THEN entries[t] ELSE 0]

Sum(entries) == SumFunction(entries)

Book(entries, n) == [entries EXCEPT ![now] = @ + n]

(* Slip: the request at hand is left out of the sum. *)
FitsBefore(entries, n, limit) == Sum(entries) <= limit

Fits(entries, n, limit) == Sum(entries) + n <= limit

(* guardRateAllow, userRateAllowed, tokReqAllowed and tokTPMAllowed: a window is trimmed, and the *)
(* request is booked or refused, in one critical section.                                         *)
Allow(bucket, n, limit, ok) ==
  /\ ok = Fits(Recent(windows[bucket]), n, limit)
  /\ windows' = [windows EXCEPT ![bucket] =
                   IF ok THEN Book(Recent(@), n) ELSE Recent(@)]
  /\ passed' = [passed EXCEPT ![bucket] = IF ok THEN Book(@, n) ELSE @]

(* The janitor of the addresses' windows. *)
RateJanitor ==
  /\ Recent(windows["ip"]) # windows["ip"]
  /\ windows' = [windows EXCEPT !["ip"] = Recent(@)]
  /\ UNCHANGED <<deployment, kv, guard, guardDirty, guardMu, routes, nextID, routeCache, limiters,
                 keyCounter, now, stamp, faults, requests, task, answered, passed, misplaced>>

(* A relayed request: the user's window, the token's requests, then the estimate of its tokens.  A *)
(* request that one of them refuses stays booked in those before it.                               *)
RelayStart(w) ==
  /\ CanStart(w, "relay")
  /\ \E cost \in Costs : Become(w, [op |-> "user", cost |-> cost])
  /\ UNCHANGED <<deployment, now, stamp, faults>>
  /\ UNCHANGED guardVars /\ UNCHANGED routeVars /\ UNCHANGED limitVars

LimitStep(w, bucket, n, next) ==
  /\ \E ok \in BOOLEAN : /\ Allow(bucket, n, Limits[bucket], ok)
                         /\ Become(w, IF ok THEN next ELSE Idle)
  /\ UNCHANGED <<deployment, now, stamp, faults, requests>>
  /\ UNCHANGED guardVars /\ UNCHANGED routeVars

UserRateAllowed(w) ==
  Doing(w, "user") /\ LimitStep(w, "user", 1, [task[w] EXCEPT !.op = "rpm"])

TokReqAllowed(w) ==
  Doing(w, "rpm") /\ LimitStep(w, "rpm", 1, [task[w] EXCEPT !.op = "tpm"])

TokTPMAllowed(w) ==
  Doing(w, "tpm") /\ LimitStep(w, "tpm", task[w].cost, Idle)

-------------------------------------------------------------------------------
(* Guard                                                                   *)

(* A form of the guard is three KVSets, and ends at the first that fails. *)
FormStart(w) ==
  /\ CanStart(w, "form")
  /\ Become(w, [op |-> "form", left |-> KVs, wrote |-> [k \in {} |-> 0]])
  /\ UNCHANGED <<deployment, now, stamp, faults>>
  /\ UNCHANGED guardVars /\ UNCHANGED routeVars /\ UNCHANGED limitVars

FormValues(k) == IF k = "limit" THEN IPLimits ELSE BOOLEAN

FormWrite(w) ==
  /\ Doing(w, "form") /\ task[w].left # <<>> /\ CanWrite
  /\ LET k == Head(task[w].left)
     IN  \/ /\ \E v \in FormValues(k) : kv' = [kv EXCEPT ![k] = [value |-> v, stamp |-> Stamp]]
            /\ stamp' = Stamp
            /\ Become(w, [task[w] EXCEPT !.left = Tail(@),
                                         !.wrote = [j \in DOMAIN @ \union {k} |->
                                                      IF j = k THEN Stamp ELSE @[j]]])
            /\ UNCHANGED faults
         \/ /\ faults < MaxFaults /\ faults' = faults + 1
            /\ Become(w, Idle)
            /\ UNCHANGED <<kv, stamp>>
  /\ UNCHANGED <<deployment, guard, guardDirty, guardMu, answered, now, requests>>
  /\ UNCHANGED routeVars /\ UNCHANGED limitVars

FormDone(w) ==
  /\ Doing(w, "form") /\ task[w].left = <<>> /\ guardMu = Nobody
  /\ guardDirty' = TRUE
  /\ answered' = [k \in DOMAIN answered |-> Max({answered[k], task[w].wrote[k]})]
  /\ Become(w, Idle)
  /\ UNCHANGED <<deployment, kv, guard, guardMu, now, stamp, faults, requests>>
  /\ UNCHANGED routeVars /\ UNCHANGED limitVars

(* Slip: the lock is not held while the KVs are read. *)
RefreshGuardUnlocked(w) ==
  /\ Doing(w, "refresh") /\ guardMu = Nobody
  /\ Become(w, IF guardDirty THEN [op |-> "read", floor |-> task[w].floor, left |-> KVs]
                             ELSE [op |-> "copy", floor |-> task[w].floor])
  /\ UNCHANGED <<deployment, now, stamp, faults, requests>>
  /\ UNCHANGED guardVars /\ UNCHANGED routeVars /\ UNCHANGED limitVars

(* GuardMiddleware: refreshGuard reads the KVs one by one with the lock held ... *)
GuardStart(w) ==
  /\ CanStart(w, "guarded")
  /\ Become(w, [op |-> "refresh", floor |-> answered])
  /\ UNCHANGED <<deployment, now, stamp, faults>>
  /\ UNCHANGED guardVars /\ UNCHANGED routeVars /\ UNCHANGED limitVars

RefreshGuard(w) ==
  /\ Doing(w, "refresh") /\ guardMu = Nobody
  /\ IF guardDirty
     THEN /\ guardMu' = w
          /\ Become(w, [op |-> "read", floor |-> task[w].floor, left |-> KVs])
     ELSE /\ Become(w, [op |-> "copy", floor |-> task[w].floor])
          /\ UNCHANGED guardMu
  /\ UNCHANGED <<deployment, kv, guard, guardDirty, answered, now, stamp, faults, requests>>
  /\ UNCHANGED routeVars /\ UNCHANGED limitVars

(* A KV that is missing, or that cannot be read: nobody is kept out, and there is no limit. *)
Open(k) == CASE k = "white" -> TRUE [] k = "black" -> FALSE [] k = "limit" -> 0

(* The outcomes of a read: the second is one that failed, which is taken for a KV that is missing. *)
(* The stamp is the one that the KV had.                                                           *)
ReadGuardKV(w) ==
  /\ Doing(w, "read") /\ task[w].left # <<>>
  /\ LET k == Head(task[w].left)
     IN  \/ /\ guard' = [guard EXCEPT ![k] = kv[k]]
            /\ UNCHANGED faults
         \/ /\ faults < MaxFaults /\ faults' = faults + 1
            /\ guard' = [guard EXCEPT ![k] = [value |-> Open(k), stamp |-> kv[k].stamp]]
  /\ Become(w, [task[w] EXCEPT !.left = Tail(@)])
  /\ UNCHANGED <<deployment, kv, guardDirty, guardMu, answered, now, stamp, requests>>
  /\ UNCHANGED routeVars /\ UNCHANGED limitVars

RefreshDone(w) ==
  /\ Doing(w, "read") /\ task[w].left = <<>>
  /\ guardDirty' = FALSE /\ guardMu' = Nobody
  /\ Become(w, [op |-> "copy", floor |-> task[w].floor])
  /\ UNCHANGED <<deployment, kv, guard, answered, now, stamp, faults, requests>>
  /\ UNCHANGED routeVars /\ UNCHANGED limitVars

(* ... and the lists are copied in a critical section of their own. *)
CopyGuard(w) ==
  /\ Doing(w, "copy") /\ guardMu = Nobody
  /\ Become(w, [op |-> "check", floor |-> task[w].floor, guard |-> guard])
  /\ UNCHANGED <<deployment, now, stamp, faults, requests>>
  /\ UNCHANGED guardVars /\ UNCHANGED routeVars /\ UNCHANGED limitVars

(* The lists let the address through or not; a limit of zero is none. *)
Listed(g) == g["white"].value /\ ~g["black"].value

GuardCheck(w) ==
  /\ Doing(w, "check")
  /\ LET g == task[w].guard
     IN  \/ /\ ~Listed(g) \/ g["limit"].value = 0
            /\ UNCHANGED limitVars
         \/ /\ Listed(g) /\ g["limit"].value > 0
            /\ \E ok \in BOOLEAN : Allow("ip", 1, g["limit"].value, ok)
  /\ Become(w, Idle)
  /\ UNCHANGED <<deployment, now, stamp, faults, requests>>
  /\ UNCHANGED guardVars /\ UNCHANGED routeVars

-------------------------------------------------------------------------------
(* Routes and their cache                                                  *)

Enabled(rs) == SelectSeq(rs, LAMBDA r : r.on)

(* By prefix, the last of the enabled routes with it. *)
CacheOf(rs) ==
  [p \in {r.prefix : r \in Range(rs)} |->
     rs[Max({i \in DOMAIN rs : rs[i].prefix = p})]]

Refreshing == {w \in Workers : task[w].op \in {"snapshot", "swap"}}

(* An edit of the slice is answered with an error when its save fails: the slice has changed and the *)
(* cache is not refreshed.                                                                           *)
EditRoutes(w, rs) ==
  /\ stamp' = Stamp
  /\ routes' = rs
  /\ \/ /\ Become(w, [op |-> "snapshot"])
        /\ misplaced' = (Refreshing # {})
        /\ UNCHANGED faults
     \/ /\ faults < MaxFaults /\ faults' = faults + 1
        /\ misplaced' = TRUE
        /\ Become(w, Idle)

EditFrame ==
  /\ UNCHANGED <<deployment, routeCache, keyCounter, now>>
  /\ UNCHANGED guardVars /\ UNCHANGED limitVars

NewId == nextID

InsertRoute(w) ==
  /\ CanStart(w, "admin") /\ CanWrite
  /\ \E p \in RoutePrefixes \ {r.prefix : r \in Range(routes)}, l \in RateLimits :
       EditRoutes(w, Append(routes, [id |-> NewId, prefix |-> p, limit |-> l, on |-> TRUE,
                                     stamp |-> Stamp]))
  /\ nextID' = nextID + 1
  /\ UNCHANGED limiters /\ EditFrame

UpdateRoute(w) ==
  /\ CanStart(w, "admin") /\ CanWrite
  /\ \E i \in DOMAIN routes, l \in RateLimits, on \in BOOLEAN :
       EditRoutes(w, [routes EXCEPT ![i] = [@ EXCEPT !.limit = l, !.on = on, !.stamp = Stamp]])
  /\ UNCHANGED <<nextID, limiters>> /\ EditFrame

(* A deleted route takes its limiter along, unless the save has failed. *)
DeleteRoute(w) ==
  /\ CanStart(w, "admin") /\ CanWrite
  /\ \E i \in DOMAIN routes :
       /\ EditRoutes(w, RemoveAt(routes, i))
       /\ limiters' = IF task'[w] = Idle THEN limiters
                      ELSE [j \in DOMAIN limiters \ {routes[i].id} |-> limiters[j]]
  /\ UNCHANGED nextID /\ EditFrame

(* SIGHUP refreshes the cache too. *)
Hup(w) ==
  /\ CanStart(w, "hup")
  /\ Become(w, [op |-> "snapshot"])
  /\ misplaced' = (Refreshing # {})
  /\ UNCHANGED <<deployment, routes, nextID, routeCache, limiters, keyCounter, now, stamp, faults>>
  /\ UNCHANGED guardVars /\ UNCHANGED limitVars

RefreshSnapshot(w) ==
  /\ Doing(w, "snapshot")
  /\ Become(w, [op |-> "swap", cache |-> CacheOf(Enabled(routes))])
  /\ UNCHANGED <<deployment, now, stamp, faults, requests>>
  /\ UNCHANGED guardVars /\ UNCHANGED routeVars /\ UNCHANGED limitVars

(* Slip: routes are added to the cache, and never leave it. *)
MergeCache(w) ==
  [p \in DOMAIN routeCache \union DOMAIN task[w].cache |->
     IF p \in DOMAIN task[w].cache THEN task[w].cache[p] ELSE routeCache[p]]

NewCache(w) == task[w].cache

RefreshSwap(w) ==
  /\ Doing(w, "swap")
  /\ routeCache' = NewCache(w)
  /\ Become(w, Idle)
  /\ UNCHANGED <<deployment, routes, nextID, limiters, keyCounter, misplaced, now, stamp, faults,
                 requests>>
  /\ UNCHANGED guardVars /\ UNCHANGED limitVars

-------------------------------------------------------------------------------
(* Prefix proxy                                                            *)

(* GetRoute takes the longest prefix; the route is the request's from then on. *)
ProxyMatch(w) ==
  /\ CanStart(w, "proxy") /\ DOMAIN routeCache # {}
  /\ \E body \in BOOLEAN :
       Become(w, [op |-> "charge", route |-> routeCache[Max(DOMAIN routeCache)], body |-> body])
  /\ UNCHANGED <<deployment, now, stamp, faults>>
  /\ UNCHANGED guardVars /\ UNCHANGED routeVars /\ UNCHANGED limitVars

(* CheckAndUse refuses the token, or charges it; see Accounting. *)
ProxyCharge(w) ==
  /\ Doing(w, "charge")
  /\ \/ Become(w, Idle)
     \/ Become(w, [task[w] EXCEPT !.op = "limit"])
  /\ UNCHANGED <<deployment, now, stamp, faults, requests>>
  /\ UNCHANGED guardVars /\ UNCHANGED routeVars /\ UNCHANGED limitVars

(* The limiter of the route is made once; whether it allows the request is up to its bucket. *)
ProxyLimit(w) ==
  /\ Doing(w, "limit")
  /\ LET r == task[w].route
     IN  /\ limiters' = IF r.limit = 0 THEN limiters
                        ELSE [i \in DOMAIN limiters \union {r.id} |->
                                IF i \in DOMAIN limiters THEN limiters[i] ELSE r.limit]
         /\ \/ r.limit > 0 /\ Become(w, Idle)
            \/ Become(w, [task[w] EXCEPT !.op = "turn"])
  /\ UNCHANGED <<deployment, routes, nextID, routeCache, keyCounter, misplaced, now, stamp, faults,
                 requests>>
  /\ UNCHANGED guardVars /\ UNCHANGED limitVars

(* The turn of the keys: the counter is read and raised at once. *)
Turns(id) == IF id \in DOMAIN keyCounter THEN keyCounter[id] ELSE 0

ProxyTurn(w) ==
  /\ Doing(w, "turn")
  /\ LET id == task[w].route.id
     IN  /\ keyCounter' = IF Keys > 1
                          THEN [i \in DOMAIN keyCounter \union {id} |->
                                  IF i = id THEN Turns(id) + 1 ELSE keyCounter[i]]
                          ELSE keyCounter
         /\ Become(w, [op |-> "serve", start |-> IF Keys > 1 THEN Turns(id) ELSE 0, tried |-> <<>>,
                       body |-> task[w].body, spent |-> FALSE])
  /\ UNCHANGED <<deployment, routes, nextID, routeCache, limiters, misplaced, now, stamp, faults,
                 requests>>
  /\ UNCHANGED guardVars /\ UNCHANGED limitVars

Key(w) == (task[w].start + Len(task[w].tried)) % Keys

(* An answer, of whatever status, ends the tries; so does the last key.  Between them the error *)
(* handler tries the next key.  The first try has closed the body: a request that has one then  *)
(* fails at every key.                                                                          *)
ProxyTry(w) ==
  /\ Doing(w, "serve") /\ Len(task[w].tried) < Keys
  /\ \/ /\ ~task[w].spent
        /\ Become(w, Idle)
     \/ Become(w, [task[w] EXCEPT !.tried = Append(@, Key(w)), !.spent = @ \/ task[w].body])
  /\ UNCHANGED <<deployment, now, stamp, faults, requests>>
  /\ UNCHANGED guardVars /\ UNCHANGED routeVars /\ UNCHANGED limitVars

BadGateway(w) ==
  /\ Doing(w, "serve") /\ Len(task[w].tried) = Keys
  /\ Become(w, Idle)
  /\ UNCHANGED <<deployment, now, stamp, faults, requests>>
  /\ UNCHANGED guardVars /\ UNCHANGED routeVars /\ UNCHANGED limitVars

-------------------------------------------------------------------------------
Tick ==
  /\ now < deployment.ticks /\ now' = now + 1
  /\ UNCHANGED <<deployment, stamp, faults, requests, task>>
  /\ UNCHANGED guardVars /\ UNCHANGED routeVars /\ UNCHANGED limitVars

Init ==
  /\ deployment \in Deployments
  /\ kv = [k \in Range(KVs) |-> [value |-> Open(k), stamp |-> 0]]
  /\ guard = kv /\ guardDirty = TRUE /\ guardMu = Nobody
  /\ windows = [b \in Buckets |-> Nothing]
  /\ routes = deployment.routes /\ nextID = Len(routes) + 1 /\ routeCache = CacheOf(Enabled(routes))
  /\ limiters = [i \in {} |-> 0] /\ keyCounter = [i \in {} |-> 0]
  /\ now = 0 /\ stamp = 0 /\ faults = 0 /\ requests = 0
  /\ task = [w \in Workers |-> Idle]
  /\ answered = [k \in Range(KVs) |-> 0]
  /\ passed = [b \in Buckets |-> Nothing]
  /\ misplaced = FALSE

Step(w) ==
  \/ RelayStart(w) \/ UserRateAllowed(w) \/ TokReqAllowed(w) \/ TokTPMAllowed(w)
  \/ FormStart(w) \/ FormWrite(w) \/ FormDone(w)
  \/ GuardStart(w) \/ RefreshGuard(w) \/ ReadGuardKV(w) \/ RefreshDone(w)
  \/ CopyGuard(w) \/ GuardCheck(w)
  \/ InsertRoute(w) \/ UpdateRoute(w) \/ DeleteRoute(w) \/ Hup(w)
  \/ RefreshSnapshot(w) \/ RefreshSwap(w)
  \/ ProxyMatch(w) \/ ProxyCharge(w) \/ ProxyLimit(w) \/ ProxyTurn(w) \/ ProxyTry(w)
  \/ BadGateway(w)

Next == Tick \/ RateJanitor \/ \E w \in Workers : Step(w)

Spec == Init /\ [][Next]_vars

-------------------------------------------------------------------------------
(* Properties                                                              *)

Ops == {"idle", "user", "rpm", "tpm", "form", "refresh", "read", "copy", "check", "snapshot",
        "swap", "charge", "limit", "turn", "serve"}

(* Locks are held by those who said so, routes have IDs of their own, and the cache has routes. *)
TypeOK ==
  /\ guardDirty \in BOOLEAN /\ misplaced \in BOOLEAN
  /\ \A w \in Workers : task[w].op \in Ops
  /\ guardMu = Nobody \/ Doing(guardMu, "read")
  /\ \A i, j \in DOMAIN routes : routes[i].id = routes[j].id => i = j
  /\ \A p \in DOMAIN routeCache : routeCache[p].prefix = p
  /\ \A b \in Buckets : \A t \in Times : windows[b][t] > 0 => t <= now
  /\ now \in 0 .. deployment.ticks /\ stamp \in 0 .. MaxWrites /\ faults \in 0 .. MaxFaults

LastMinute(bucket) == Sum(Recent(passed[bucket]))

(* Whatever requests interleave, wherever a minute is laid and whenever the janitor runs, no more *)
(* gets through in it than the limit; for an address, than some limit that may be set.            *)
WindowBounded ==
  /\ \A b \in {"user", "rpm", "tpm"} : LastMinute(b) <= Limits[b]
  /\ \E limit \in IPLimits \union {0} : LastMinute("ip") <= limit

(* A request that arrives after a form of the guard was answered with success is judged by values  *)
(* that were read since, that form's or a later one's, although the lists are cached, and read     *)
(* while forms are being written.  A read that fails is not repeated: what was read is then no     *)
(* list, or no limit, and judges every request until the next form.                                *)
FormsObeyed ==
  \A w \in Workers : Doing(w, "check") =>
    \A k \in Range(KVs) : task[w].guard[k].stamp >= task[w].floor[k]

(* When no refresh is under way, the cache has the enabled routes, each as it was last edited, *)
(* unless two refreshes overlapped or a save failed since a refresh that was alone.            *)
CacheCurrent ==
  Refreshing = {} /\ ~misplaced => routeCache = CacheOf(Enabled(routes))

===============================================================================
