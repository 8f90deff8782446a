------------------------------- MODULE Failover -------------------------------
(***************************************************************************)
(* How a relayed request finds an upstream: the choice of targets          *)
(* (buildTargets, the affinity of handler/relay.go), the attempts of the   *)
(* OpenAI, Anthropic and Gemini handlers, and the breaker that takes a     *)
(* failing channel out of rotation (markChannelSuccess, markChannelFailure)*)
(*                                                                         *)
(* The breaker is two sync.Maps: failCount holds a POINTER to a counter,   *)
(* autoDisabled the time of the trip.  Every Load, Store and AddInt64 is   *)
(* atomic, a mark is several of them, and a success replaces the counter   *)
(* another request may have loaded already.  So a mark is a chain of       *)
(* steps here and a channel's counters, the current one and those some     *)
(* request still holds, are cells of a heap.                               *)
(*                                                                         *)
(* Channels are those of the token's group that support the model.         *)
(***************************************************************************)
EXTENDS Integers, Sequences, FiniteSets, SequencesExt

CONSTANTS
  Channels,   \* channels of the group that support the model
  Workers,    \* request goroutines
  Clients,    \* affinity keys: a token and a model
  NoChannel,  \* no affinity recorded, no channel marked
  Kinds,      \* the kinds of request the workers serve, out of AllKinds
  Threshold,  \* failureThreshold
  Cooldown,   \* autoRecoverCooldown, in ticks
  KeyCount,   \* upstream keys of a channel
  Priority    \* priority of a channel

\* relay, anthropic, gemini: buffered, with failover.  stream: the OpenAI stream.
\* passthrough: the Anthropic and Gemini streams and the web socket.  testchat:
\* the administrator's test message.
AllKinds == {"relay", "anthropic", "gemini", "stream", "passthrough", "testchat"}
Buffered == {"relay", "anthropic", "gemini"}

ASSUME KindsAssumption    == Kinds \subseteq AllKinds
ASSUME FiniteAssumption   ==
  IsFiniteSet(Channels) /\ IsFiniteSet(Workers) /\ Workers # {} /\ Clients # {}
ASSUME BreakerAssumption  == Threshold \in Nat \ {0} /\ Cooldown \in Nat \ {0}
ASSUME ChannelAssumption  ==
  NoChannel \notin Channels /\ KeyCount \in [Channels -> Nat] /\ Priority \in [Channels -> Int]

VARIABLES
  enabled,     \* Status of a channel
  cooling,     \* ticks until an auto-disabled channel may be tried again; 0: usable
  failCount,   \* the cell of a channel's current counter, NoCell before the first
  heap,        \* the counters of a channel
  affinity,    \* the channel that answered a client last
  keyCounter,  \* where the next rotation of a channel's keys starts, Unset before the first
  req,         \* what each request goroutine is doing
  streak       \* history: failures marked since the counter was last replaced

breaker == <<cooling, failCount, heap, streak>>
vars    == <<enabled, cooling, failCount, heap, affinity, keyCounter, req, streak>>

-------------------------------------------------------------------------------
(* State                                                                   *)

NoCell == 0
Unset  == -1

\* Cells for the counters of one channel: each goroutine holds at most one.
Cells == 1..Cardinality(Workers)

\* A channel without keys is one target with the empty key.
KeysOf(c) == IF KeyCount[c] = 0 THEN {0} ELSE 0..(KeyCount[c] - 1)

Targets == UNION {{c} \X KeysOf(c) : c \in Channels}

Stages == {"idle", "attempt", "reset", "revive", "settle",
           "load", "bump", "trip", "replace", "clear", "reply"}

Request ==
  [stage: Stages, kind: AllKinds, client: Clients,
   targets: Seq(Targets),                    \* the target tried now and those left
   cell: Cells \union {NoCell},              \* the counter loaded by markChannelFailure
   lastErr: BOOLEAN, won: BOOLEAN,           \* the handler's lastErr, respStatus # 0
   gone: BOOLEAN,                            \* the client has hung up
   own: {"none", "ok", "fault", "hangup"},   \* history: what the last attempt met
   answered: BOOLEAN,                        \* history: some attempt was answered well
   result: {"none", "served", "badGateway", "dropped", "relayed", "aborted"}]

Idle(kind, cl) ==
  [stage |-> "idle", kind |-> kind, client |-> cl, targets |-> <<>>, cell |-> NoCell,
   lastErr |-> FALSE, won |-> FALSE, gone |-> FALSE, own |-> "none", answered |-> FALSE,
   result |-> "none"]

Target(w)  == Head(req[w].targets)
Channel(w) == Target(w)[1]

\* The counters of c that requests hold between their Load and their AddInt64.
LoadedCells(c) == {req[w].cell : w \in {v \in Workers : req[v].stage = "bump" /\ Channel(v) = c}}

\* new(int64): a cell no request holds.
NewCell(c) == CHOOSE i \in Cells \ LoadedCells(c) : \A j \in Cells \ LoadedCells(c) : i <= j

\* failCount.Store(c, new(int64)).  A counter nobody holds any more reads as zero.
StoreNewCounter(c) ==
  /\ failCount' = [failCount EXCEPT ![c] = NewCell(c)]
  /\ heap' = [heap EXCEPT ![c] = [i \in Cells |-> IF i \in LoadedCells(c) THEN @[i] ELSE 0]]
  /\ streak' = [streak EXCEPT ![c] = 0]

-------------------------------------------------------------------------------
(* Choosing the targets                                                    *)

\* channelUsable
Usable(c) == enabled[c] /\ cooling[c] = 0

\* The usable channels of the highest priority.
Tier == {c \in Channels :
           Usable(c) /\ \A d \in Channels : Usable(d) => Priority[d] <= Priority[c]}

\* A fresh key counter is stored as zero and read as zero, a stored one is read
\* and then incremented.
KeyStart(c) == IF keyCounter[c] = Unset THEN 0 ELSE keyCounter[c]
KeyNext(c)  == IF keyCounter[c] = Unset THEN 0 ELSE (keyCounter[c] + 1) % KeyCount[c]

\* Slip: the rotation stops at the last key instead of wrapping round.
KeyTargetsUnwrapped(c) ==
  IF KeyCount[c] = 0 THEN << <<c, 0>> >>
  ELSE [i \in 1..(KeyCount[c] - KeyStart(c)) |-> <<c, KeyStart(c) + i - 1>>]

\* One channel's targets: its keys in turn from the rotation's start.
KeyTargets(c) ==
  IF KeyCount[c] = 0 THEN << <<c, 0>> >>
  ELSE [i \in 1..KeyCount[c] |-> <<c, (KeyStart(c) + i - 1) % KeyCount[c]>>]

\* The block of channel c to the front, the rest in its order: a channel's targets
\* come one after the other.
PreferChannel(s, c) ==
  LET block == {i \in DOMAIN s : s[i][1] = c}
  IN  IF block = {} THEN s
      ELSE SubSeq(s, Min(block), Max(block))
           \o SubSeq(s, 1, Min(block) - 1) \o SubSeq(s, Max(block) + 1, Len(s))

\* weightedShuffle: every order of the channels has a chance.
Orders == {FlattenSeq([i \in DOMAIN o |-> KeyTargets(o[i])]) : o \in SetToSeqs(Tier)}

\* Only the OpenAI handler asks for the affinity.
Preferred(s, kind, cl) ==
  IF kind \in {"relay", "stream"} THEN PreferChannel(s, affinity[cl]) ELSE s

\* The request passed its checks and gets its targets, a snapshot of the tables.
\* One that is not buffered only ever uses the first.
Route(w, kind, cl) ==
  /\ req[w].stage = "idle"
  /\ Tier # {}
  /\ \E s \in Orders :
       LET t == Preferred(s, kind, cl) IN
       req' = [req EXCEPT ![w] = [Idle(kind, cl) EXCEPT
                 !.stage = "attempt", !.targets = IF kind \in Buffered THEN t ELSE <<Head(t)>>]]
  /\ keyCounter' = [c \in Channels |->
                      IF c \in Tier /\ KeyCount[c] > 0 THEN KeyNext(c) ELSE keyCounter[c]]
  /\ UNCHANGED <<enabled, breaker, affinity>>

-------------------------------------------------------------------------------
(* Attempts                                                                *)

\* Slip: lastErr is declared outside the loop everywhere.
OutlivesTargetAlways(kind) == TRUE

\* lastErr is declared once, outside the loop, in the OpenAI and the Anthropic
\* handler; the Gemini handler declares it anew for every target.
OutlivesTarget(kind) == kind # "gemini"

\* The upstream answers with a status that is not a channel error; an error an
\* earlier target left behind makes the handler take it for a failure.
Answer(w) ==
  /\ req[w].stage = "attempt" /\ ~req[w].gone
  /\ req' = [req EXCEPT ![w].own = "ok", ![w].answered = TRUE,
                        ![w].stage = IF req[w].lastErr THEN "load" ELSE "reset"]
  /\ UNCHANGED <<enabled, breaker, affinity, keyCounter>>

\* It answers 401, 403, 429 or 5xx.
ChannelError(w) ==
  /\ req[w].stage = "attempt" /\ ~req[w].gone
  /\ req' = [req EXCEPT ![w].own = "fault", ![w].stage = "load"]
  /\ UNCHANGED <<enabled, breaker, affinity, keyCounter>>

\* The round trip fails; when the client has hung up every round trip does, since
\* the upstream request carries the client's context.
TransportError(w) ==
  /\ req[w].stage = "attempt"
  /\ req' = [req EXCEPT ![w].own = IF req[w].gone THEN "hangup" ELSE "fault",
                        ![w].lastErr = OutlivesTarget(req[w].kind), ![w].stage = "load"]
  /\ UNCHANGED <<enabled, breaker, affinity, keyCounter>>

\* The handler returns; how the request ended is kept for the properties.
Finish(w, result) ==
  [req EXCEPT ![w] = [Idle(req[w].kind, req[w].client) EXCEPT
                        !.answered = req[w].answered, !.result = result]]

\* The body breaks off while it is copied: ReverseProxy panics with
\* ErrAbortHandler and the handler unwinds, nothing marked, nothing charged.
Abort(w) ==
  /\ req[w].stage = "attempt"
  /\ req' = Finish(w, "aborted")
  /\ UNCHANGED <<enabled, breaker, affinity, keyCounter>>

\* A Gemini body that cannot be converted leaves the loop before the first attempt.
Unconvertible(w) ==
  /\ req[w].stage = "attempt" /\ req[w].kind = "gemini" /\ req[w].own = "none"
  /\ req' = Finish(w, "badGateway")
  /\ UNCHANGED <<enabled, breaker, affinity, keyCounter>>

-------------------------------------------------------------------------------
(* markChannelSuccess                                                      *)

\* failCount.Store(id, new(int64))
Reset(w) ==
  /\ req[w].stage = "reset"
  /\ req' = [req EXCEPT ![w].stage = "revive"]
  /\ StoreNewCounter(Channel(w))
  /\ UNCHANGED <<enabled, cooling, affinity, keyCounter>>

\* autoDisabled.LoadAndDelete(id)
Revive(w) ==
  /\ req[w].stage = "revive"
  /\ cooling' = [cooling EXCEPT ![Channel(w)] = 0]
  /\ req' = [req EXCEPT ![w].won = TRUE,
                        ![w].stage = IF req[w].kind \in {"relay", "stream"} THEN "settle" ELSE "reply"]
  /\ UNCHANGED <<enabled, failCount, heap, affinity, keyCounter, streak>>

\* setAffinity
Settle(w) ==
  /\ req[w].stage = "settle"
  /\ affinity' = [affinity EXCEPT ![req[w].client] = Channel(w)]
  /\ req' = [req EXCEPT ![w].stage = "reply"]
  /\ UNCHANGED <<enabled, breaker, keyCounter>>

-------------------------------------------------------------------------------
(* markChannelFailure                                                      *)

\* failCount.LoadOrStore(id, new(int64))
Loaded(c) == IF failCount[c] = NoCell THEN NewCell(c) ELSE failCount[c]

\* Slip: Store where the code has LoadOrStore, so every failure counts from zero.
LoadStoring(w) ==
  /\ req[w].stage = "load"
  /\ req' = [req EXCEPT ![w].stage = "bump", ![w].cell = NewCell(Channel(w))]
  /\ failCount' = [failCount EXCEPT ![Channel(w)] = NewCell(Channel(w))]
  /\ heap' = [heap EXCEPT ![Channel(w)][NewCell(Channel(w))] = 0]
  /\ UNCHANGED <<enabled, cooling, affinity, keyCounter, streak>>

Load(w) ==
  /\ req[w].stage = "load"
  /\ req' = [req EXCEPT ![w].stage = "bump", ![w].cell = Loaded(Channel(w))]
  /\ failCount' = [failCount EXCEPT ![Channel(w)] = Loaded(Channel(w))]
  /\ UNCHANGED <<enabled, cooling, heap, affinity, keyCounter, streak>>

\* On to the next target, or to the end of the loop.
AfterFailure(w) ==
  IF req[w].kind \in Buffered /\ Len(req[w].targets) > 1
  THEN [req[w] EXCEPT !.stage = "attempt", !.targets = Tail(@), !.cell = NoCell]
  ELSE [req[w] EXCEPT !.stage = IF req[w].kind = "stream" THEN "clear" ELSE "reply", !.cell = NoCell]

Trips(n) == n >= Threshold

\* atomic.AddInt64, and the comparison of its result with the threshold.
Bump(w) ==
  LET n == heap[Channel(w)][req[w].cell] + 1 IN
  /\ req[w].stage = "bump"
  /\ req' = [req EXCEPT ![w] =
               IF Trips(n) THEN [@ EXCEPT !.stage = "trip", !.cell = NoCell] ELSE AfterFailure(w)]
  /\ heap' = [heap EXCEPT ![Channel(w)][req[w].cell] = n]
  /\ streak' = [streak EXCEPT ![Channel(w)] = @ + 1]
  /\ UNCHANGED <<enabled, cooling, failCount, affinity, keyCounter>>

\* autoDisabled.Store(id, time.Now())
Trip(w) ==
  /\ req[w].stage = "trip"
  /\ cooling' = [cooling EXCEPT ![Channel(w)] = Cooldown]
  /\ req' = [req EXCEPT ![w].stage = "replace"]
  /\ UNCHANGED <<enabled, failCount, heap, affinity, keyCounter, streak>>

\* Slip: the full counter stays.
ReplaceForgotten(w) ==
  /\ req[w].stage = "replace"
  /\ req' = [req EXCEPT ![w] = AfterFailure(w)]
  /\ UNCHANGED <<enabled, breaker, affinity, keyCounter>>

\* failCount.Store(id, new(int64)), and the notifications.
Replace(w) ==
  /\ req[w].stage = "replace"
  /\ req' = [req EXCEPT ![w] = AfterFailure(w)]
  /\ StoreNewCounter(Channel(w))
  /\ UNCHANGED <<enabled, cooling, affinity, keyCounter>>

\* clearAffinity, which only the OpenAI stream calls.
Clear(w) ==
  /\ req[w].stage = "clear"
  /\ affinity' = [affinity EXCEPT ![req[w].client] = NoChannel]
  /\ req' = [req EXCEPT ![w].stage = "reply"]
  /\ UNCHANGED <<enabled, breaker, keyCounter>>

-------------------------------------------------------------------------------
(* The answer to the client                                                *)

\* When every target answered with a channel error, lastErr is nil and respStatus is
\* 0: the Anthropic and the Gemini handler answer 502, the OpenAI handler calls
\* WriteHeader(0), which panics, and the connection is dropped.  A request that is
\* not buffered has passed on whatever came.
Outcome(q) ==
  CASE q.kind \notin Buffered                             -> "relayed"
    [] q.kind \in Buffered /\ q.lastErr                   -> "badGateway"
    [] q.kind \in Buffered /\ ~q.lastErr /\ q.won         -> "served"
    [] q.kind = "relay" /\ ~q.lastErr /\ ~q.won           -> "dropped"
    [] q.kind \in {"anthropic", "gemini"} /\ ~q.lastErr /\ ~q.won -> "badGateway"

Reply(w) ==
  /\ req[w].stage = "reply"
  /\ req' = Finish(w, Outcome(req[w]))
  /\ UNCHANGED <<enabled, breaker, affinity, keyCounter>>

-------------------------------------------------------------------------------
(* The world around                                                        *)

\* The client closes its connection.
HangUp(w) ==
  /\ req[w].stage # "idle" /\ ~req[w].gone
  /\ req' = [req EXCEPT ![w].gone = TRUE]
  /\ UNCHANGED <<enabled, breaker, affinity, keyCounter>>

\* Slip: the age of a trip is never long enough.
LapseNever(n) == n

\* time.Since(dt) grows.
Lapse(n) == IF n > 0 THEN n - 1 ELSE 0

Tick ==
  /\ \E c \in Channels : cooling[c] > 0
  /\ cooling' = [c \in Channels |-> Lapse(cooling[c])]
  /\ UNCHANGED <<enabled, failCount, heap, affinity, keyCounter, req, streak>>

\* The administrator switches a channel on or off; the breaker is not told.
Toggle(c) ==
  /\ enabled' = [enabled EXCEPT ![c] = ~@]
  /\ UNCHANGED <<breaker, affinity, keyCounter, req>>

NoRequests == [w \in Workers |-> Idle("relay", CHOOSE cl \in Clients : TRUE)]

\* Nothing of the breaker, the affinity or the rotation is stored on disk.
Restart ==
  /\ cooling' = [c \in Channels |-> 0]
  /\ failCount' = [c \in Channels |-> NoCell]
  /\ heap' = [c \in Channels |-> [i \in Cells |-> 0]]
  /\ affinity' = [cl \in Clients |-> NoChannel]
  /\ keyCounter' = [c \in Channels |-> Unset]
  /\ req' = NoRequests
  /\ streak' = [c \in Channels |-> 0]
  /\ UNCHANGED enabled

-------------------------------------------------------------------------------
(* Specification                                                           *)

Init ==
  /\ enabled = [c \in Channels |-> TRUE]
  /\ cooling = [c \in Channels |-> 0]
  /\ failCount = [c \in Channels |-> NoCell]
  /\ heap = [c \in Channels |-> [i \in Cells |-> 0]]
  /\ affinity = [cl \in Clients |-> NoChannel]
  /\ keyCounter = [c \in Channels |-> Unset]
  /\ req = NoRequests
  /\ streak = [c \in Channels |-> 0]

Step(w) ==
  \/ \E kind \in Kinds, cl \in Clients : Route(w, kind, cl)
  \/ Answer(w) \/ ChannelError(w) \/ TransportError(w) \/ Abort(w) \/ Unconvertible(w)
  \/ Reset(w) \/ Revive(w) \/ Settle(w)
  \/ Load(w) \/ Bump(w) \/ Trip(w) \/ Replace(w) \/ Clear(w)
  \/ Reply(w)
  \/ HangUp(w)

Next ==
  \/ \E w \in Workers : Step(w)
  \/ \E c \in Channels : Toggle(c)
  \/ Tick
  \/ Restart

Spec == Init /\ [][Next]_vars

\* Time passes: the only fairness the breaker relies on.
FairSpec == Spec /\ WF_vars(Tick)

-------------------------------------------------------------------------------
(* Properties                                                              *)

\* Every variable keeps its type, and a goroutine that is between two targets or
\* inside a mark has a target.
TypeOK ==
  /\ enabled \in [Channels -> BOOLEAN]
  /\ cooling \in [Channels -> 0..Cooldown]
  /\ failCount \in [Channels -> Cells \union {NoCell}]
  /\ heap \in [Channels -> [Cells -> Nat]]
  /\ affinity \in [Clients -> Channels \union {NoChannel}]
  /\ keyCounter \in [Channels -> Int]
  /\ req \in [Workers -> Request]
  /\ \A w \in Workers : req[w].stage # "idle" => req[w].targets # <<>>
  /\ \A w \in Workers : req[w].stage = "bump" <=> req[w].cell # NoCell
  /\ streak \in [Channels -> Nat]

\* A counter that reached the threshold is on its way out: as long as a channel
\* counts on it, some request is between its AddInt64 and its Store.  Otherwise
\* the next single failure would trip the channel again.
FullCounterIsReplaced ==
  \A c \in Channels :
    failCount[c] # NoCell /\ heap[c][failCount[c]] >= Threshold =>
      \E w \in Workers : req[w].stage \in {"trip", "replace"} /\ Channel(w) = c

\* Failures are not lost without limit: however the marks of the requests run into
\* each other, a channel is failed at most Threshold times, and twice for each other
\* request, before its counter is replaced by a success or a trip.
BreakerCatches ==
  \A c \in Channels : streak[c] <= Threshold + 2 * (Cardinality(Workers) - 1)

\* buildTargets, the rotation of the keys and the affinity: whatever is preferred,
\* a buffered request may fall back on every key of every usable channel of the
\* highest priority, each once, and on no other.
RouteCoversTier ==
  [][\A w \in Workers :
       req[w].stage = "idle" /\ req'[w].stage = "attempt" /\ req'[w].kind \in Buffered =>
         LET t == req'[w].targets IN
         /\ Range(t) = UNION {{c} \X KeysOf(c) : c \in Tier}
         /\ Len(t) = Cardinality(Range(t))]_vars

\* The Gemini handler fails over: it serves the client exactly when one of the
\* targets answered well.
GeminiFailsOver ==
  \A w \in Workers :
    req[w].kind = "gemini" /\ req[w].result \in {"served", "badGateway", "dropped"} =>
      (req[w].result = "served" <=> req[w].answered)

\* An auto-disabled channel comes back into rotation, again and again, whatever the
\* requests that still hold it in their targets mark meanwhile.
EveryChannelComesBack == \A c \in Channels : []<>(cooling[c] = 0)

-------------------------------------------------------------------------------
(* What the documentation promises and the code does not keep              *)

\* README 6.1: an upstream that fails makes the request fail over to the next key or
\* channel.  In the OpenAI and Anthropic handlers the lastErr of a transport error
\* outlives its target: a later good answer is thrown away and counted against the
\* channel that gave it.
FailsOver ==
  \A w \in Workers :
    req[w].result \in {"served", "badGateway", "dropped"} /\ req[w].answered
      => req[w].result = "served"

===============================================================================
