---------------------------- MODULE FailoverProofs -----------------------------
(***************************************************************************)
(* What is proved of Failover for every set of channels, goroutines and    *)
(* kinds of request and every threshold: what the breaker counts while     *)
(* marks run into each other, that the Gemini handler fails over, and that *)
(* a request gets every key of its tier, once.                             *)
(*                                                                         *)
(* The breaker and the handler do not depend on which targets a request    *)
(* gets, so their invariants ask of it only that it has its fields.        *)
(***************************************************************************)
EXTENDS Failover, Induction

-------------------------------------------------------------------------------
(* Types                                                                   *)

Fields == {"stage", "kind", "client", "targets", "cell", "lastErr", "won", "gone", "own",
           "answered", "result"}

\* A request in the middle of a mark.
Marking(w) == req[w].stage \in {"bump", "trip", "replace"}

\* The types the breaker needs.
Shape ==
  /\ failCount \in [Channels -> Cells \union {NoCell}]
  /\ heap \in [Channels -> [Cells -> Nat]]
  /\ streak \in [Channels -> Nat]
  /\ DOMAIN req = Workers
  /\ \A w \in Workers : DOMAIN req[w] = Fields
  /\ \A w \in Workers :
       req[w].stage = "bump" /\ Channel(w) \in Channels => req[w].cell \in Cells

LEMMA IdleShape ==
  \A kind, cl : DOMAIN Idle(kind, cl) = Fields /\ Idle(kind, cl).stage = "idle"
BY DEF Idle, Fields

LEMMA WorkerCount ==
  /\ IsFiniteSet(Workers) /\ Cardinality(Workers) \in Nat /\ Cardinality(Workers) >= 1
  /\ Cells \subseteq Nat \ {0} /\ IsFiniteSet(Cells) /\ Cardinality(Cells) = Cardinality(Workers)
<1>1. IsFiniteSet(Workers) /\ Cardinality(Workers) \in Nat /\ Cardinality(Workers) # 0
  BY FiniteAssumption, FS_CardinalityType, FS_EmptySet
<1>2. IsFiniteSet(Cells) /\ Cardinality(Cells) = Cardinality(Workers)
  BY <1>1, FS_Interval DEF Cells
<1>3. QED
  BY <1>1, <1>2 DEF Cells

\* The sets a mark is counted by.
Counting(c) == {w \in Workers : req[w].stage = "bump" /\ Channel(w) = c}

Stale(c) == {w \in Counting(c) : req[w].cell # failCount[c]}

Tripping(c) == {w \in Workers : req[w].stage \in {"trip", "replace"} /\ Channel(w) = c}

LEMMA WorkerSets ==
  ASSUME NEW S \in SUBSET Workers
  PROVE  /\ IsFiniteSet(S) /\ Cardinality(S) \in Nat
         /\ Cardinality(S) <= Cardinality(Workers)
         /\ \A w \in Workers \ S : /\ Cardinality(S) < Cardinality(Workers)
                                   /\ Cardinality(S \union {w}) = Cardinality(S) + 1
<1>1. /\ IsFiniteSet(S) /\ Cardinality(S) \in Nat
      /\ Cardinality(S) <= Cardinality(Workers)
  BY WorkerCount, FS_Subset, FS_CardinalityType
<1>2. ASSUME NEW w \in Workers \ S
      PROVE  /\ Cardinality(S) < Cardinality(Workers)
             /\ Cardinality(S \union {w}) = Cardinality(S) + 1
  <2>1. Cardinality(S \union {w}) = Cardinality(S) + 1
    BY <1>1, FS_AddElement
  <2>2. S \union {w} \in SUBSET Workers
    OBVIOUS
  <2>3. Cardinality(S \union {w}) <= Cardinality(Workers)
    BY <2>2, WorkerCount, FS_Subset
  <2>4. QED
    BY <1>1, <2>1, <2>3, WorkerCount
<1>3. QED
  BY <1>1, <1>2

\* As long as one goroutine holds no counter there is a cell for a new one.
LEMMA NewCellIsFree ==
  ASSUME Shape, NEW c \in Channels, NEW w \in Workers, w \notin Counting(c)
  PROVE  NewCell(c) \in Cells \ LoadedCells(c)
<1> DEFINE S == Counting(c)
           T == LoadedCells(c)
           f == [v \in S |-> req[v].cell]
<1>1. T \in SUBSET Cells /\ T = {req[v].cell : v \in S}
  BY DEF Shape, LoadedCells, Counting
<1>2. f \in Surjection(S, T)
  BY <1>1 DEF Surjection
<1>3. S \in SUBSET Workers /\ w \in Workers \ S
  BY DEF Counting
<1>4. IsFiniteSet(S) /\ Cardinality(S) < Cardinality(Cells) /\ Cardinality(S) \in Nat
  BY <1>3, WorkerSets, WorkerCount
<1>5. IsFiniteSet(T) /\ Cardinality(T) <= Cardinality(S)
  <2> HIDE DEF S, T, f
  <2>1. QED
    BY <1>2, <1>4, FS_Surjection
<1>6. Cardinality(T) \in Nat
  BY <1>5, FS_CardinalityType
<1>7. T # Cells
  BY <1>4, <1>5, <1>6, WorkerCount
<1>8. Cells \ T \in SUBSET Nat /\ Cells \ T # {}
  BY <1>1, <1>7, WorkerCount
<1>9. \E i \in Cells \ T : \A j \in Cells \ T : i <= j
  BY <1>8, LeastMember
<1>10. QED
  BY <1>9 DEF NewCell

-------------------------------------------------------------------------------
(* What the breaker counts                                                 *)

\* The strengthening.  The current counter passes the threshold only by as many
\* failures as there are requests about to replace it; and it misses only the
\* failures counted on cells that were loaded before it was stored, one at most
\* for each other goroutine.
Counted(c) ==
  /\ failCount[c] = NoCell =>
       /\ streak[c] = 0 /\ Counting(c) = {}
       /\ \A i \in Cells : heap[c][i] = 0
  /\ failCount[c] # NoCell =>
       /\ heap[c][failCount[c]] < Threshold + Cardinality(Tripping(c))
       /\ streak[c] + Cardinality(Stale(c)) <= heap[c][failCount[c]] + Cardinality(Workers) - 1

AllCounted == \A c \in Channels : Counted(c)

LEMMA InitCounted == Init => Shape /\ AllCounted
<1> SUFFICES ASSUME Init PROVE Shape /\ AllCounted
  OBVIOUS
<1>1. DOMAIN req = Workers
      /\ \A w \in Workers : DOMAIN req[w] = Fields /\ req[w].stage = "idle"
  BY IdleShape DEF Init, NoRequests
<1>2. Shape
  BY <1>1 DEF Init, Shape
<1>3. \A c \in Channels : Counting(c) = {}
  BY <1>1 DEF Counting
<1>4. QED
  BY <1>2, <1>3 DEF Init, AllCounted, Counted

\* A step that touches no counter and neither begins nor ends a mark keeps the count.
LEMMA QuietKeepsCounted ==
  ASSUME Shape, AllCounted, failCount' = failCount, heap' = heap, streak' = streak,
         DOMAIN req' = Workers,
         \A v \in Workers :
           /\ DOMAIN req'[v] = Fields
           /\ Marking(v)' = Marking(v)
           /\ Marking(v) => /\ (req'[v].stage = "bump") = (req[v].stage = "bump")
                            /\ req'[v].targets = req[v].targets
                            /\ req'[v].cell = req[v].cell
  PROVE  Shape' /\ AllCounted'
<1>1. Shape'
  BY DEF Shape, Channel, Target, Marking
<1>2. ASSUME NEW c \in Channels PROVE Counted(c)'
  <2>1. Counting(c)' = Counting(c)
    BY DEF Counting, Channel, Target, Marking
  <2>2. Stale(c)' = Stale(c)
    BY <2>1 DEF Stale, Counting, Marking
  <2>3. Tripping(c)' = Tripping(c)
    BY DEF Tripping, Channel, Target, Marking
  <2>4. QED
    BY <2>1, <2>2, <2>3 DEF AllCounted, Counted
<1>3. QED
  BY <1>1, <1>2 DEF AllCounted

\* The same for a step of one request.
LEMMA QuietRequest ==
  ASSUME Shape, AllCounted, failCount' = failCount, heap' = heap, streak' = streak,
         NEW w \in Workers, NEW q, req' = [req EXCEPT ![w] = q], DOMAIN q = Fields,
         q.stage \in {"bump", "trip", "replace"} <=> Marking(w),
         Marking(w) => /\ (q.stage = "bump") = (req[w].stage = "bump")
                       /\ q.targets = req[w].targets
                       /\ q.cell = req[w].cell
  PROVE  Shape' /\ AllCounted'
<1>1. /\ DOMAIN req' = Workers /\ req'[w] = q
      /\ \A v \in Workers \ {w} : req'[v] = req[v]
  BY DEF Shape
<1>2. \A v \in Workers :
        /\ DOMAIN req'[v] = Fields
        /\ Marking(v)' = Marking(v)
        /\ Marking(v) => /\ (req'[v].stage = "bump") = (req[v].stage = "bump")
                         /\ req'[v].targets = req[v].targets
                         /\ req'[v].cell = req[v].cell
  BY <1>1 DEF Marking, Shape
<1>3. QED
  BY <1>1, <1>2, QuietKeepsCounted

\* Routing, attempts, the answer and the client mark nothing.
LEMMA UnmarkedKeepsCounted ==
  ASSUME Shape, AllCounted, NEW w \in Workers,
         \/ \E kind \in Kinds, cl \in Clients : Route(w, kind, cl)
         \/ Answer(w) \/ ChannelError(w) \/ TransportError(w) \/ Abort(w) \/ Unconvertible(w)
         \/ Revive(w) \/ Settle(w) \/ Trip(w) \/ Clear(w) \/ Reply(w) \/ HangUp(w)
  PROVE  Shape' /\ AllCounted'
<1>s. DOMAIN req = Workers /\ DOMAIN req[w] = Fields
  BY DEF Shape
<1>1. ASSUME NEW kind, NEW cl, Route(w, kind, cl) PROVE Shape' /\ AllCounted'
  <2>1. /\ failCount' = failCount /\ heap' = heap /\ streak' = streak
        /\ req[w].stage = "idle"
    BY <1>1 DEF Route, breaker
  <2>2. PICK s \in Orders :
          LET t == Preferred(s, kind, cl) IN
          req' = [req EXCEPT ![w] = [Idle(kind, cl) EXCEPT
                    !.stage = "attempt", !.targets = IF kind \in Buffered THEN t ELSE <<Head(t)>>]]
    BY <1>1 DEF Route
  <2> DEFINE t == Preferred(s, kind, cl)
             q == [Idle(kind, cl) EXCEPT
                    !.stage = "attempt", !.targets = IF kind \in Buffered THEN t ELSE <<Head(t)>>]
  <2>3. req' = [req EXCEPT ![w] = q]
    BY <2>2
  <2>4. DOMAIN q = Fields /\ q.stage = "attempt"
    BY IdleShape DEF Fields
  <2> HIDE DEF q
  <2>5. QED
    BY <2>1, <2>3, <2>4, QuietRequest DEF Marking
<1>2. CASE Answer(w) \/ ChannelError(w) \/ TransportError(w)
  <2>1. /\ failCount' = failCount /\ heap' = heap /\ streak' = streak
        /\ req[w].stage = "attempt"
    BY <1>2 DEF Answer, ChannelError, TransportError, breaker
  <2>2. /\ req' = [req EXCEPT ![w] = req'[w]] /\ DOMAIN req'[w] = Fields
        /\ req'[w].stage \in {"load", "reset"}
    BY <1>2, <1>s DEF Answer, ChannelError, TransportError, Fields
  <2>3. QED
    BY <2>1, <2>2, QuietRequest DEF Marking
<1>3. CASE Abort(w) \/ Unconvertible(w) \/ Reply(w)
  <2>1. PICK r : req' = Finish(w, r)
    BY <1>3 DEF Abort, Unconvertible, Reply
  <2>2. /\ failCount' = failCount /\ heap' = heap /\ streak' = streak
        /\ req[w].stage \in {"attempt", "reply"}
    BY <1>3 DEF Abort, Unconvertible, Reply, breaker
  <2> DEFINE q == [Idle(req[w].kind, req[w].client) EXCEPT
                     !.answered = req[w].answered, !.result = r]
  <2>3. req' = [req EXCEPT ![w] = q]
    BY <2>1 DEF Finish
  <2>4. DOMAIN q = Fields /\ q.stage = "idle"
    BY IdleShape DEF Fields
  <2> HIDE DEF q
  <2>5. QED
    BY <2>2, <2>3, <2>4, QuietRequest DEF Marking
<1>4. CASE Revive(w) \/ Settle(w) \/ Clear(w)
  <2>1. /\ failCount' = failCount /\ heap' = heap /\ streak' = streak
        /\ req[w].stage \in {"revive", "settle", "clear"}
    BY <1>4 DEF Revive, Settle, Clear, breaker
  <2>2. /\ req' = [req EXCEPT ![w] = req'[w]] /\ DOMAIN req'[w] = Fields
        /\ req'[w].stage \in {"settle", "reply"}
    BY <1>4, <1>s DEF Revive, Settle, Clear, Fields
  <2>3. QED
    BY <2>1, <2>2, QuietRequest DEF Marking
<1>5. CASE Trip(w)
  <2>1. /\ failCount' = failCount /\ heap' = heap /\ streak' = streak
        /\ req[w].stage = "trip"
    BY <1>5 DEF Trip
  <2>2. /\ req' = [req EXCEPT ![w] = req'[w]] /\ DOMAIN req'[w] = Fields
        /\ req'[w].stage = "replace" /\ req'[w].targets = req[w].targets
        /\ req'[w].cell = req[w].cell
    BY <1>5, <1>s DEF Trip, Fields
  <2>3. QED
    BY <2>1, <2>2, QuietRequest DEF Marking
<1>6. CASE HangUp(w)
  <2>1. failCount' = failCount /\ heap' = heap /\ streak' = streak
    BY <1>6 DEF HangUp, breaker
  <2>2. /\ req' = [req EXCEPT ![w] = req'[w]] /\ DOMAIN req'[w] = Fields
        /\ req'[w].stage = req[w].stage /\ req'[w].targets = req[w].targets
        /\ req'[w].cell = req[w].cell
    BY <1>6, <1>s DEF HangUp, Fields
  <2>3. QED
    BY <2>1, <2>2, QuietRequest DEF Marking
<1>7. QED
  BY <1>1, <1>2, <1>3, <1>4, <1>5, <1>6

\* Load: the counter loaded is the current one, so nobody becomes stale; a first
\* counter reads as zero.
LEMMA LoadKeepsCounted ==
  ASSUME Shape, AllCounted, NEW w \in Workers, Load(w)
  PROVE  Shape' /\ AllCounted'
<1> DEFINE b == Channel(w)
<1>1. /\ req[w].stage = "load" /\ heap' = heap /\ streak' = streak
      /\ failCount' = [failCount EXCEPT ![b] = Loaded(b)]
      /\ req'[w].stage = "bump" /\ req'[w].cell = Loaded(b) /\ req'[w].targets = req[w].targets
      /\ DOMAIN req' = Workers /\ DOMAIN req'[w] = Fields
      /\ \A v \in Workers \ {w} : req'[v] = req[v]
  BY DEF Load, Shape, Fields
<1>2. /\ Channel(w)' = b
      /\ \A v \in Workers \ {w} : Channel(v)' = Channel(v)
  BY <1>1 DEF Channel, Target
<1> HIDE DEF b
<1>3. b \in Channels => Loaded(b) \in Cells
  <2>1. SUFFICES ASSUME b \in Channels PROVE Loaded(b) \in Cells
    OBVIOUS
  <2>2. w \notin Counting(b)
    BY <1>1 DEF Counting
  <2>3. NewCell(b) \in Cells
    BY <2>1, <2>2, NewCellIsFree
  <2>4. QED
    BY <2>1, <2>3 DEF Loaded, Shape
<1>4. Shape'
  <2>1. failCount' \in [Channels -> Cells \union {NoCell}]
    BY <1>1, <1>3 DEF Shape
  <2>2. \A v \in Workers : DOMAIN req'[v] = Fields
    BY <1>1 DEF Shape
  <2>3. \A v \in Workers :
          req'[v].stage = "bump" /\ Channel(v)' \in Channels => req'[v].cell \in Cells
    BY <1>1, <1>2, <1>3 DEF Shape
  <2>4. QED
    BY <1>1, <2>1, <2>2, <2>3 DEF Shape
<1>5. ASSUME NEW c \in Channels PROVE Counted(c)'
  <2>1. Tripping(c)' = Tripping(c)
    BY <1>1, <1>2 DEF Tripping
  <2>2. CASE c # b
    <3>1. failCount'[c] = failCount[c]
      BY <1>1, <2>2 DEF Shape
    <3>2. Counting(c)' = Counting(c)
      BY <1>1, <1>2, <2>2 DEF Counting
    <3>3. Stale(c)' = Stale(c)
      BY <1>1, <2>2, <3>1, <3>2 DEF Stale, Counting, b
    <3>4. QED
      BY <1>1, <2>1, <3>1, <3>2, <3>3 DEF AllCounted, Counted
  <2>3. CASE c = b
    <3>1. /\ failCount'[c] = Loaded(c) /\ Loaded(c) \in Cells /\ Loaded(c) # NoCell
      BY <1>1, <1>3, <2>3, WorkerCount DEF Shape, NoCell
    <3>2. Counting(c)' = Counting(c) \union {w}
      BY <1>1, <1>2, <2>3 DEF Counting
    <3>3. CASE failCount[c] = NoCell
      <4>1. Counting(c) = {} /\ streak[c] = 0 /\ \A i \in Cells : heap[c][i] = 0
        BY <3>3 DEF AllCounted, Counted
      <4>2. Stale(c)' = {}
        BY <1>1, <2>3, <3>1, <3>2, <4>1 DEF Stale
      <4>3. Cardinality(Stale(c)') = 0 /\ Cardinality(Tripping(c)) \in Nat
        BY <4>2, FS_EmptySet, WorkerSets DEF Tripping
      <4>4. failCount'[c] # NoCell /\ heap'[c][failCount'[c]] = 0 /\ streak'[c] = 0
        BY <1>1, <3>1, <4>1
      <4>5. QED
        BY <2>1, <4>3, <4>4, WorkerCount, BreakerAssumption DEF Counted
    <3>4. CASE failCount[c] # NoCell
      <4>1. Loaded(c) = failCount[c]
        BY <3>4 DEF Loaded
      <4>2. Stale(c)' = Stale(c)
        BY <1>1, <2>3, <3>1, <3>2, <4>1 DEF Stale, Counting
      <4>3. QED
        BY <1>1, <2>1, <3>1, <3>4, <4>1, <4>2 DEF AllCounted, Counted
    <3>5. QED
      BY <3>3, <3>4
  <2>4. QED
    BY <2>2, <2>3
<1>6. QED
  BY <1>4, <1>5 DEF AllCounted

LEMMA AfterFailureShape ==
  ASSUME Shape, NEW w \in Workers
  PROVE  /\ DOMAIN AfterFailure(w) = Fields
         /\ AfterFailure(w).stage \in {"attempt", "clear", "reply"}
BY DEF Shape, AfterFailure, Fields

\* Bump: a failure on the current counter that fills it puts the request on its way
\* to replace it; one on a stale cell uses it up.
LEMMA BumpKeepsCounted ==
  ASSUME Shape, AllCounted, NEW w \in Workers, Bump(w)
  PROVE  Shape' /\ AllCounted'
<1> DEFINE b == Channel(w)
           i == req[w].cell
           n == heap[b][i] + 1
<1>1. /\ req[w].stage = "bump" /\ failCount' = failCount
      /\ heap' = [heap EXCEPT ![b][i] = n]
      /\ streak' = [streak EXCEPT ![b] = @ + 1]
      /\ DOMAIN req' = Workers /\ DOMAIN req'[w] = Fields
      /\ \A v \in Workers \ {w} : req'[v] = req[v]
  BY AfterFailureShape DEF Bump, Shape, Fields
<1>2. /\ Trips(n) => req'[w].stage = "trip" /\ req'[w].targets = req[w].targets
      /\ ~Trips(n) => req'[w].stage \in {"attempt", "clear", "reply"}
  BY AfterFailureShape DEF Bump, Shape, Fields
<1>3. /\ Trips(n) => Channel(w)' = b
      /\ \A v \in Workers \ {w} : Channel(v)' = Channel(v)
  BY <1>1, <1>2 DEF Channel, Target
<1>4. b \in Channels => i \in Cells /\ heap[b][i] \in Nat /\ n \in Nat
  <2>1. b \in Channels => i \in Cells
    BY <1>1 DEF Shape
  <2> HIDE DEF b, i
  <2>2. b \in Channels => heap[b][i] \in Nat
    BY <2>1 DEF Shape
  <2>3. QED
    BY <2>1, <2>2
<1> HIDE DEF b, i, n
<1>5. Shape'
  <2>1. heap \in [Channels -> [Cells -> Nat]] /\ streak \in [Channels -> Nat]
    BY DEF Shape
  <2>2. \A v \in Workers : DOMAIN req'[v] = Fields
    BY <1>1 DEF Shape
  <2>3. \A v \in Workers :
          req'[v].stage = "bump" /\ Channel(v)' \in Channels => req'[v].cell \in Cells
    BY <1>1, <1>2, <1>3 DEF Shape
  <2>4. heap' \in [Channels -> [Cells -> Nat]]
    <3>1. CASE b \in Channels
      <4>1. [heap[b] EXCEPT ![i] = n] \in [Cells -> Nat]
        BY <1>4, <2>1, <3>1
      <4>2. QED
        BY <1>1, <2>1, <4>1
    <3>2. CASE b \notin Channels
      BY <1>1, <2>1, <3>2
    <3>3. QED
      BY <3>1, <3>2
  <2>5. streak' \in [Channels -> Nat]
    <3>1. streak \in [Channels -> Nat] /\ streak' = [streak EXCEPT ![b] = streak[b] + 1]
      BY <1>1, <2>1
    <3>2. CASE b \in Channels
      <4>1. streak[b] + 1 \in Nat
        BY <3>1, <3>2
      <4>2. QED
        BY <3>1, <4>1
    <3>3. CASE b \notin Channels
      BY <3>1, <3>3
    <3>4. QED
      BY <3>2, <3>3
  <2>6. failCount' \in [Channels -> Cells \union {NoCell}]
    BY <1>1 DEF Shape
  <2>7. QED
    BY <1>1, <2>2, <2>3, <2>4, <2>5, <2>6 DEF Shape
<1>6. ASSUME NEW c \in Channels PROVE Counted(c)'
  <2>t. /\ Threshold \in Nat \ {0} /\ streak[c] \in Nat
        /\ failCount[c] # NoCell => heap[c][failCount[c]] \in Nat
        /\ Cardinality(Workers) \in Nat
        /\ Tripping(c) \in SUBSET Workers /\ Stale(c) \in SUBSET Workers
    BY BreakerAssumption, WorkerCount DEF Shape, Tripping, Stale, Counting
  <2>c. Cardinality(Tripping(c)) \in Nat /\ Cardinality(Stale(c)) \in Nat
    BY <2>t, WorkerSets
  <2>1. CASE c # b
    <3>1. heap'[c] = heap[c] /\ streak'[c] = streak[c]
      BY <1>1, <2>1 DEF Shape
    <3>2. Counting(c)' = Counting(c) /\ Tripping(c)' = Tripping(c)
      BY <1>1, <1>2, <1>3, <2>1 DEF Counting, Tripping, b
    <3>3. Stale(c)' = Stale(c)
      BY <1>1, <2>1, <3>2 DEF Stale, Counting, b
    <3>4. QED
      BY <1>1, <3>1, <3>2, <3>3 DEF AllCounted, Counted
  <2>2. CASE c = b
    <3>1. w \in Counting(c) /\ failCount[c] # NoCell /\ failCount'[c] = failCount[c]
      BY <1>1, <2>2 DEF Counting, AllCounted, Counted, b
    <3>2. /\ heap[c][failCount[c]] < Threshold + Cardinality(Tripping(c))
          /\ streak[c] + Cardinality(Stale(c)) <= heap[c][failCount[c]] + Cardinality(Workers) - 1
          /\ failCount[c] \in Cells
      BY <3>1 DEF AllCounted, Counted, Shape
    <3>3. /\ streak'[c] = streak[c] + 1 /\ heap'[c] = [heap[c] EXCEPT ![i] = n]
          /\ i \in Cells /\ n = heap[c][i] + 1 /\ heap[c] \in [Cells -> Nat]
      BY <1>1, <1>4, <2>2 DEF Shape, n
    <3>4. Counting(c)' = Counting(c) \ {w}
      BY <1>1, <1>2, <1>3, <2>2 DEF Counting
    <3>5. Stale(c)' = Stale(c) \ {w}
      <4>1. \A v \in Counting(c)' : req'[v].cell = req[v].cell
        BY <1>1, <3>4 DEF Counting
      <4>2. QED
        BY <3>1, <3>4, <4>1 DEF Stale
    <3>6. Tripping(c)' = IF Trips(n) THEN Tripping(c) \union {w} ELSE Tripping(c)
      BY <1>1, <1>2, <1>3, <2>2 DEF Tripping
    <3>7. w \notin Tripping(c)
      BY <1>1 DEF Tripping
    <3>8. Cardinality(Tripping(c)') =
            IF n >= Threshold THEN Cardinality(Tripping(c)) + 1 ELSE Cardinality(Tripping(c))
      BY <2>t, <3>6, <3>7, WorkerSets DEF Trips
    <3>9. CASE i = failCount[c]
      <4>1. w \notin Stale(c)
        BY <3>9 DEF Stale, i
      <4>2. Stale(c)' = Stale(c)
        BY <3>5, <4>1
      <4>3. heap'[c][failCount[c]] = n
        BY <3>2, <3>3, <3>9
      <4>4. QED
        BY <2>t, <2>c, <3>1, <3>2, <3>3, <3>8, <3>9, <4>2, <4>3, <1>1 DEF Counted
    <3>10. CASE i # failCount[c]
      <4>1. w \in Stale(c)
        BY <3>1, <3>10 DEF Stale, i
      <4>2. IsFiniteSet(Stale(c))
        BY <2>t, WorkerSets
      <4>3. Cardinality(Stale(c)') = Cardinality(Stale(c)) - 1
        BY <3>5, <4>1, <4>2, FS_RemoveElement
      <4>4. heap'[c][failCount[c]] = heap[c][failCount[c]]
        BY <3>2, <3>3, <3>10
      <4>5. QED
        BY <2>t, <2>c, <3>1, <3>2, <3>3, <3>8, <4>3, <4>4, <1>1 DEF Counted
    <3>11. QED
      BY <3>9, <3>10
  <2>3. QED
    BY <2>1, <2>2
<1>7. QED
  BY <1>5, <1>6 DEF AllCounted

\* StoreNewCounter: the new counter reads as zero, and whoever still holds another
\* one, which the storing request does not, is stale.
LEMMA StoreKeepsCounted ==
  ASSUME Shape, AllCounted, NEW w \in Workers, Reset(w) \/ Replace(w)
  PROVE  Shape' /\ AllCounted'
<1> DEFINE b == Channel(w)
<1>1. /\ req[w].stage \in {"reset", "replace"} /\ StoreNewCounter(b)
      /\ req'[w].stage \in {"revive", "attempt", "clear", "reply"}
      /\ DOMAIN req' = Workers /\ DOMAIN req'[w] = Fields
      /\ \A v \in Workers \ {w} : req'[v] = req[v]
  BY AfterFailureShape DEF Reset, Replace, Shape, Fields
<1>2. \A v \in Workers \ {w} : Channel(v)' = Channel(v)
  BY <1>1 DEF Channel, Target
<1> HIDE DEF b
<1>3. w \notin Counting(b)
  BY <1>1 DEF Counting
<1>4. b \in Channels => NewCell(b) \in Cells \ LoadedCells(b)
  BY <1>3, NewCellIsFree
<1>5. Shape'
  <2>1. failCount' \in [Channels -> Cells \union {NoCell}] /\ streak' \in [Channels -> Nat]
    BY <1>1, <1>4 DEF Shape, StoreNewCounter
  <2>2. heap' \in [Channels -> [Cells -> Nat]]
    BY <1>1 DEF Shape, StoreNewCounter
  <2>3. \A v \in Workers : DOMAIN req'[v] = Fields
    BY <1>1 DEF Shape
  <2>4. \A v \in Workers :
          req'[v].stage = "bump" /\ Channel(v)' \in Channels => req'[v].cell \in Cells
    BY <1>1, <1>2 DEF Shape
  <2>5. QED
    BY <1>1, <2>1, <2>2, <2>3, <2>4 DEF Shape
<1>6. ASSUME NEW c \in Channels PROVE Counted(c)'
  <2>1. Counting(c)' = Counting(c)
    BY <1>1, <1>2 DEF Counting
  <2>2. CASE c # b
    <3>1. heap'[c] = heap[c] /\ streak'[c] = streak[c] /\ failCount'[c] = failCount[c]
      BY <1>1, <2>2 DEF Shape, StoreNewCounter
    <3>2. Tripping(c)' = Tripping(c)
      BY <1>1, <1>2, <2>2 DEF Tripping, b
    <3>3. Stale(c)' = Stale(c)
      <4>1. \A v \in Counting(c) : req'[v].cell = req[v].cell
        BY <1>1 DEF Counting
      <4>2. QED
        BY <2>1, <3>1, <4>1 DEF Stale
    <3>4. QED
      BY <2>1, <3>1, <3>2, <3>3 DEF AllCounted, Counted
  <2>3. CASE c = b
    <3>1. NewCell(c) \in Cells /\ NewCell(c) \notin LoadedCells(c) /\ NewCell(c) # NoCell
      BY <1>4, <2>3, WorkerCount DEF NoCell
    <3>2. failCount'[c] = NewCell(c) /\ heap'[c][NewCell(c)] = 0 /\ streak'[c] = 0
      BY <1>1, <2>3, <3>1 DEF Shape, StoreNewCounter
    <3>3. Stale(c)' \in SUBSET Workers /\ w \in Workers \ Stale(c)'
      BY <1>3, <2>1, <2>3 DEF Stale, Counting
    <3>4. Cardinality(Stale(c)') \in Nat /\ Cardinality(Stale(c)') < Cardinality(Workers)
      BY <3>3, WorkerSets
    <3>5. Cardinality(Tripping(c)') \in Nat
      BY WorkerSets DEF Tripping
    <3>6. QED
      BY <3>1, <3>2, <3>4, <3>5, WorkerCount, BreakerAssumption DEF Counted
  <2>4. QED
    BY <2>2, <2>3
<1>7. QED
  BY <1>5, <1>6 DEF AllCounted

LEMMA NextCounted == Shape /\ AllCounted /\ [Next]_vars => Shape' /\ AllCounted'
<1> SUFFICES ASSUME Shape, AllCounted, [Next]_vars PROVE Shape' /\ AllCounted'
  OBVIOUS
<1>q. ASSUME failCount' = failCount, heap' = heap, streak' = streak, req' = req
      PROVE  Shape' /\ AllCounted'
  BY <1>q, QuietKeepsCounted DEF Shape, Marking
<1>1. ASSUME NEW w \in Workers, Step(w) PROVE Shape' /\ AllCounted'
  BY <1>1, UnmarkedKeepsCounted, LoadKeepsCounted, BumpKeepsCounted, StoreKeepsCounted DEF Step
<1>2. ASSUME NEW c \in Channels, Toggle(c) PROVE Shape' /\ AllCounted'
  BY <1>2, <1>q DEF Toggle, breaker
<1>3. CASE Tick
  BY <1>3, <1>q DEF Tick
<1>4. CASE Restart
  <2>1. /\ DOMAIN req' = Workers
        /\ \A w \in Workers : DOMAIN req'[w] = Fields /\ req'[w].stage = "idle"
    BY <1>4, IdleShape DEF Restart, NoRequests
  <2>2. Shape'
    BY <1>4, <2>1 DEF Restart, Shape
  <2>3. \A c \in Channels : Counting(c)' = {}
    BY <2>1 DEF Counting
  <2>4. QED
    BY <1>4, <2>2, <2>3 DEF Restart, AllCounted, Counted
<1>5. CASE UNCHANGED vars
  BY <1>5, <1>q DEF vars
<1>6. QED
  BY <1>1, <1>2, <1>3, <1>4, <1>5 DEF Next

\* A counter that reached the threshold is about to be replaced, whatever marks run
\* beside it: otherwise one more failure would trip a channel that just recovered.
THEOREM FullCounter == Spec => []FullCounterIsReplaced
<1>1. Shape /\ AllCounted => FullCounterIsReplaced
  <2> SUFFICES ASSUME Shape, AllCounted, NEW c \in Channels,
                      failCount[c] # NoCell, heap[c][failCount[c]] >= Threshold
               PROVE  Tripping(c) # {}
    BY DEF FullCounterIsReplaced, Tripping
  <2>1. heap[c][failCount[c]] < Threshold + Cardinality(Tripping(c))
    BY DEF AllCounted, Counted
  <2>2. heap[c][failCount[c]] \in Nat /\ Threshold \in Nat
    BY BreakerAssumption DEF Shape
  <2>3. QED
    BY <2>1, <2>2, FS_EmptySet
<1>2. QED
  BY <1>1, InitCounted, NextCounted, PTL DEF Spec

\* However many marks of a channel interleave, no more failures than the threshold,
\* and two for each other goroutine, are counted before its counter is replaced.
THEOREM Breaker == Spec => []BreakerCatches
<1>1. Shape /\ AllCounted => BreakerCatches
  <2> SUFFICES ASSUME Shape, AllCounted, NEW c \in Channels
               PROVE  streak[c] <= Threshold + 2 * (Cardinality(Workers) - 1)
    BY DEF BreakerCatches
  <2>1. /\ Threshold \in Nat /\ Cardinality(Workers) \in Nat /\ Cardinality(Workers) >= 1
        /\ streak[c] \in Nat
        /\ failCount[c] # NoCell => heap[c][failCount[c]] \in Nat
    BY BreakerAssumption, WorkerCount DEF Shape
  <2>2. /\ Cardinality(Tripping(c)) \in Nat /\ Cardinality(Stale(c)) \in Nat
        /\ Cardinality(Tripping(c)) <= Cardinality(Workers)
    BY WorkerSets DEF Tripping, Stale, Counting
  <2>3. CASE failCount[c] = NoCell
    BY <2>1, <2>3 DEF AllCounted, Counted
  <2>4. CASE failCount[c] # NoCell
    <3>1. /\ heap[c][failCount[c]] < Threshold + Cardinality(Tripping(c))
          /\ streak[c] + Cardinality(Stale(c)) <= heap[c][failCount[c]] + Cardinality(Workers) - 1
      BY <2>4 DEF AllCounted, Counted
    <3>2. QED
      BY <2>1, <2>2, <2>4, <3>1
  <2>5. QED
    BY <2>3, <2>4
<1>2. QED
  BY <1>1, InitCounted, NextCounted, PTL DEF Spec

-------------------------------------------------------------------------------
(* The Gemini handler fails over                                           *)

\* The strengthening: what a Gemini request carries at each stage.  An error never
\* survives its target, and the first good answer ends the loop.
GeminiLoop(w) ==
  req[w].kind = "gemini" =>
    /\ ~req[w].lastErr
    /\ req[w].stage \notin {"settle", "clear"}
    /\ req[w].stage \in {"attempt", "load", "bump", "trip", "replace"} =>
         ~req[w].answered /\ ~req[w].won
    /\ req[w].stage \in {"reset", "revive"} => req[w].answered
    /\ req[w].stage = "reply" => (req[w].won <=> req[w].answered)
    /\ req[w].stage # "idle" => req[w].result = "none"
    /\ req[w].result \in {"served", "badGateway", "dropped"} =>
         (req[w].result = "served" <=> req[w].answered)

\* Flags are Booleans, and every request has its fields.
Flags ==
  /\ DOMAIN req = Workers
  /\ \A w \in Workers :
       /\ DOMAIN req[w] = Fields
       /\ req[w].lastErr \in BOOLEAN /\ req[w].won \in BOOLEAN /\ req[w].answered \in BOOLEAN

GeminiLoops == Flags /\ \A w \in Workers : GeminiLoop(w)

LEMMA InitGemini == Init => GeminiLoops
<1> SUFFICES ASSUME Init PROVE GeminiLoops
  OBVIOUS
<1>1. /\ DOMAIN req = Workers
      /\ \A w \in Workers :
           /\ DOMAIN req[w] = Fields /\ req[w].stage = "idle"
           /\ req[w].lastErr = FALSE /\ req[w].won = FALSE /\ req[w].answered = FALSE
           /\ req[w].result = "none"
  BY IdleShape DEF Init, NoRequests, Idle
<1>2. QED
  BY <1>1 DEF GeminiLoops, GeminiLoop, Flags


\* It is enough to look at the request that takes the step.
LEMMA OneRequest ==
  ASSUME GeminiLoops, NEW w \in Workers, NEW q, req' = [req EXCEPT ![w] = q],
         DOMAIN q = Fields,
         q.lastErr \in BOOLEAN, q.won \in BOOLEAN, q.answered \in BOOLEAN,
         q.kind = "gemini" =>
           /\ ~q.lastErr
           /\ q.stage \notin {"settle", "clear"}
           /\ q.stage \in {"attempt", "load", "bump", "trip", "replace"} => ~q.answered /\ ~q.won
           /\ q.stage \in {"reset", "revive"} => q.answered
           /\ q.stage = "reply" => (q.won <=> q.answered)
           /\ q.stage # "idle" => q.result = "none"
           /\ q.result \in {"served", "badGateway", "dropped"} =>
                (q.result = "served" <=> q.answered)
  PROVE  GeminiLoops'
<1>1. /\ DOMAIN req' = Workers /\ req'[w] = q
      /\ \A v \in Workers \ {w} : req'[v] = req[v]
  BY DEF GeminiLoops, Flags
<1>2. GeminiLoop(w)'
  BY <1>1 DEF GeminiLoop
<1>3. \A v \in Workers \ {w} : GeminiLoop(v)'
  BY <1>1 DEF GeminiLoops, GeminiLoop
<1>4. Flags'
  BY <1>1 DEF GeminiLoops, Flags
<1>5. QED
  BY <1>2, <1>3, <1>4 DEF GeminiLoops

LEMMA StepGemini ==
  ASSUME GeminiLoops, NEW w \in Workers, Step(w)
  PROVE  GeminiLoops'
<1>g. /\ DOMAIN req = Workers /\ DOMAIN req[w] = Fields /\ GeminiLoop(w)
      /\ req[w].lastErr \in BOOLEAN /\ req[w].won \in BOOLEAN /\ req[w].answered \in BOOLEAN
  BY DEF GeminiLoops, Flags
<1>1. ASSUME NEW kind, NEW cl, Route(w, kind, cl) PROVE GeminiLoops'
  <2>1. PICK s \in Orders :
          LET t == Preferred(s, kind, cl) IN
          req' = [req EXCEPT ![w] = [Idle(kind, cl) EXCEPT
                    !.stage = "attempt", !.targets = IF kind \in Buffered THEN t ELSE <<Head(t)>>]]
    BY <1>1 DEF Route
  <2> DEFINE t == Preferred(s, kind, cl)
             q == [Idle(kind, cl) EXCEPT
                    !.stage = "attempt", !.targets = IF kind \in Buffered THEN t ELSE <<Head(t)>>]
  <2>2. req' = [req EXCEPT ![w] = q]
    BY <2>1
  <2>3. /\ DOMAIN q = Fields /\ q.stage = "attempt" /\ q.lastErr = FALSE /\ q.won = FALSE
        /\ q.answered = FALSE /\ q.result = "none"
    BY IdleShape DEF Fields, Idle
  <2> HIDE DEF q
  <2>4. QED
    BY <2>2, <2>3, OneRequest
<1>2. ASSUME NEW q, req' = [req EXCEPT ![w] = q],
             \/ Answer(w) /\ q = [req[w] EXCEPT !.own = "ok", !.answered = TRUE,
                                    !.stage = IF req[w].lastErr THEN "load" ELSE "reset"]
             \/ ChannelError(w) /\ q = [req[w] EXCEPT !.own = "fault", !.stage = "load"]
             \/ TransportError(w) /\ q = [req[w] EXCEPT
                    !.own = IF req[w].gone THEN "hangup" ELSE "fault",
                    !.lastErr = OutlivesTarget(req[w].kind), !.stage = "load"]
             \/ Reset(w) /\ q = [req[w] EXCEPT !.stage = "revive"]
             \/ Revive(w) /\ q = [req[w] EXCEPT !.won = TRUE,
                    !.stage = IF req[w].kind \in {"relay", "stream"} THEN "settle" ELSE "reply"]
             \/ (Settle(w) \/ Clear(w)) /\ q = [req[w] EXCEPT !.stage = "reply"]
             \/ Load(w) /\ q = [req[w] EXCEPT !.stage = "bump", !.cell = Loaded(Channel(w))]
             \/ Trip(w) /\ q = [req[w] EXCEPT !.stage = "replace"]
             \/ HangUp(w) /\ q = [req[w] EXCEPT !.gone = TRUE]
      PROVE  GeminiLoops'
  <2>1. /\ DOMAIN q = Fields
        /\ q.lastErr \in BOOLEAN /\ q.won \in BOOLEAN /\ q.answered \in BOOLEAN
    BY <1>g, <1>2 DEF Fields, OutlivesTarget
  <2>2. q.kind = "gemini" =>
          /\ ~q.lastErr
          /\ q.stage \notin {"settle", "clear"}
          /\ q.stage \in {"attempt", "load", "bump", "trip", "replace"} => ~q.answered /\ ~q.won
          /\ q.stage \in {"reset", "revive"} => q.answered
          /\ q.stage = "reply" => (q.won <=> q.answered)
          /\ q.stage # "idle" => q.result = "none"
          /\ q.result \in {"served", "badGateway", "dropped"} =>
               (q.result = "served" <=> q.answered)
    BY <1>g, <1>2 DEF Fields, GeminiLoop, OutlivesTarget, Answer, ChannelError, TransportError,
                      Reset, Revive, Settle, Clear, Load, Trip, HangUp
  <2>3. QED
    BY <1>2, <2>1, <2>2, OneRequest
<1>3. ASSUME NEW q, req' = [req EXCEPT ![w] = q],
             req[w].stage \in {"bump", "replace"},
             q = AfterFailure(w) \/ q = [req[w] EXCEPT !.stage = "trip", !.cell = NoCell]
      PROVE  GeminiLoops'
  <2>1. /\ DOMAIN q = Fields /\ q.kind = req[w].kind /\ q.result = req[w].result
        /\ q.lastErr = req[w].lastErr /\ q.won = req[w].won /\ q.answered = req[w].answered
        /\ q.stage \in {"attempt", "clear", "reply", "trip"}
        /\ q.stage = "clear" => q.kind = "stream"
    BY <1>g, <1>3, ZenonT(60) DEF Fields, AfterFailure
  <2>2. q.kind = "gemini" =>
          /\ ~q.lastErr
          /\ q.stage \notin {"settle", "clear"}
          /\ ~q.answered /\ ~q.won
          /\ q.result = "none"
    BY <1>g, <1>3, <2>1 DEF GeminiLoop
  <2>3. q.lastErr \in BOOLEAN /\ q.won \in BOOLEAN /\ q.answered \in BOOLEAN
    BY <1>g, <2>1
  <2>4. QED
    BY <1>3, <2>1, <2>2, <2>3, OneRequest
<1>4. ASSUME NEW r, req' = Finish(w, r),
             \/ Abort(w) /\ r = "aborted"
             \/ Unconvertible(w) /\ r = "badGateway"
             \/ Reply(w) /\ r = Outcome(req[w])
      PROVE  GeminiLoops'
  <2> DEFINE q == [Idle(req[w].kind, req[w].client) EXCEPT
                     !.answered = req[w].answered, !.result = r]
  <2>1. req' = [req EXCEPT ![w] = q]
    BY <1>4 DEF Finish
  <2>2. /\ DOMAIN q = Fields /\ q.stage = "idle" /\ q.lastErr = FALSE /\ q.won = FALSE
        /\ q.answered = req[w].answered /\ q.result = r /\ q.kind = req[w].kind
    BY IdleShape DEF Fields, Idle
  <2>3. req[w].kind = "gemini" /\ r \in {"served", "badGateway", "dropped"} =>
          (r = "served" <=> req[w].answered)
    BY <1>g, <1>4 DEF GeminiLoop, Abort, Unconvertible, Reply, Outcome, Buffered
  <2> HIDE DEF q
  <2>4. QED
    BY <1>g, <2>1, <2>2, <2>3, OneRequest
<1>5. CASE \/ Answer(w) \/ ChannelError(w) \/ TransportError(w) \/ Reset(w) \/ Revive(w)
           \/ Settle(w) \/ Clear(w) \/ Load(w) \/ Trip(w) \/ HangUp(w)
  <2>1. req' = [req EXCEPT ![w] = req'[w]]
    BY <1>5, <1>g DEF Answer, ChannelError, TransportError, Reset, Revive, Settle, Clear,
                      Load, Trip, HangUp
  <2>2. CASE Answer(w)
    BY <2>1, <2>2, <1>g, <1>2 DEF Answer, Fields
  <2>3. CASE ChannelError(w) \/ TransportError(w)
    BY <2>1, <2>3, <1>g, <1>2 DEF ChannelError, TransportError, Fields
  <2>4. CASE Reset(w) \/ Revive(w)
    BY <2>1, <2>4, <1>g, <1>2 DEF Reset, Revive, Fields
  <2>5. CASE Settle(w) \/ Clear(w)
    BY <2>1, <2>5, <1>g, <1>2 DEF Settle, Clear, Fields
  <2>6. CASE Load(w)
    BY <2>1, <2>6, <1>g, <1>2 DEF Load, Fields
  <2>7. CASE Trip(w) \/ HangUp(w)
    BY <2>1, <2>7, <1>g, <1>2 DEF Trip, HangUp, Fields
  <2>8. QED
    BY <1>5, <2>2, <2>3, <2>4, <2>5, <2>6, <2>7
<1>6. CASE Bump(w) \/ Replace(w)
  BY <1>6, <1>3 DEF Bump, Replace
<1>7. CASE Abort(w) \/ Unconvertible(w) \/ Reply(w)
  BY <1>7, <1>4 DEF Abort, Unconvertible, Reply
<1>8. QED
  BY <1>1, <1>5, <1>6, <1>7 DEF Step

LEMMA NextGemini == GeminiLoops /\ [Next]_vars => GeminiLoops'
<1> SUFFICES ASSUME GeminiLoops, [Next]_vars PROVE GeminiLoops'
  OBVIOUS
<1>q. ASSUME req' = req PROVE GeminiLoops'
  BY <1>q DEF GeminiLoops, GeminiLoop, Flags
<1>1. ASSUME NEW w \in Workers, Step(w) PROVE GeminiLoops'
  BY <1>1, StepGemini
<1>2. CASE Restart
  <2>1. /\ DOMAIN req' = Workers
        /\ \A w \in Workers :
             /\ DOMAIN req'[w] = Fields /\ req'[w].stage = "idle"
             /\ req'[w].lastErr = FALSE /\ req'[w].won = FALSE /\ req'[w].answered = FALSE
             /\ req'[w].result = "none"
    BY <1>2, IdleShape DEF Restart, NoRequests, Idle
  <2>2. QED
    BY <2>1 DEF GeminiLoops, GeminiLoop, Flags
<1>3. QED
  BY <1>q, <1>1, <1>2 DEF Next, Toggle, Tick, vars

\* The Gemini handler serves its client exactly when some target answered well: the
\* error of one target is forgotten at the next.
THEOREM GeminiFailover == Spec => []GeminiFailsOver
<1>1. GeminiLoops => GeminiFailsOver
  BY DEF GeminiLoops, GeminiLoop, GeminiFailsOver
<1>2. QED
  BY <1>1, InitGemini, NextGemini, PTL DEF Spec

-------------------------------------------------------------------------------
(* The targets of a request                                                *)

\* s has each member of S once, and nothing else.
Lists(s, S) ==
  /\ s \in Seq(S) /\ Range(s) = S
  /\ \A i, j \in DOMAIN s : s[i] = s[j] => i = j

\* Such a sequence is as long as the set is large.
LEMMA ListLength ==
  ASSUME NEW S, NEW s, Lists(s, S)
  PROVE  Len(s) = Cardinality(S)
<1>1. s \in [1 .. Len(s) -> S] /\ Len(s) \in Nat
  BY DEF Lists
<1>2. s \in Bijection(1 .. Len(s), S)
  <2>1. \A x \in S : \E i \in 1 .. Len(s) : s[i] = x
    BY <1>1 DEF Lists, Range
  <2>2. \A i, j \in 1 .. Len(s) : s[i] = s[j] => i = j
    BY <1>1 DEF Lists
  <2>3. QED
    BY <1>1, <2>1, <2>2 DEF Bijection, Injection, Surjection, IsInjective
<1>3. ExistsBijection(1 .. Len(s), S)
  BY <1>2 DEF ExistsBijection
<1>4. IsFiniteSet(1 .. Len(s)) /\ Cardinality(1 .. Len(s)) = Len(s)
  <2>1. IsFiniteSet(1 .. Len(s)) /\ Cardinality(1 .. Len(s)) = IF 1 > Len(s) THEN 0 ELSE Len(s) - 1 + 1
    BY <1>1, FS_Interval
  <2>2. QED
    BY <1>1, <2>1
<1>5. QED
  BY <1>3, <1>4, FS_Bijection

\* Two of them with nothing in common, one after the other.
LEMMA ListsJoined ==
  ASSUME NEW S, NEW T, NEW s, NEW t, Lists(s, S), Lists(t, T), S \cap T = {}
  PROVE  Lists(s \o t, S \union T)
<1> DEFINE u == s \o t
<1>1. /\ s \in Seq(S) /\ t \in Seq(T) /\ s \in Seq(S \union T) /\ t \in Seq(S \union T)
      /\ Len(s) \in Nat /\ Len(t) \in Nat
      /\ DOMAIN s = 1 .. Len(s) /\ DOMAIN t = 1 .. Len(t)
  BY DEF Lists
<1>2. /\ u \in Seq(S \union T) /\ Len(u) = Len(s) + Len(t) /\ DOMAIN u = 1 .. Len(s) + Len(t)
      /\ \A i \in 1 .. Len(s) + Len(t) : u[i] = IF i <= Len(s) THEN s[i] ELSE t[i - Len(s)]
  BY <1>1
<1> HIDE DEF u
<1>3. \A i \in 1 .. Len(s) : u[i] = s[i] /\ s[i] \in S
  BY <1>1, <1>2
<1>4. \A i \in Len(s) + 1 .. Len(s) + Len(t) :
        u[i] = t[i - Len(s)] /\ u[i] \in T /\ i - Len(s) \in 1 .. Len(t)
  BY <1>1, <1>2
<1>5. \A i, j \in DOMAIN u : u[i] = u[j] => i = j
  <2> SUFFICES ASSUME NEW i \in DOMAIN u, NEW j \in DOMAIN u, u[i] = u[j] PROVE i = j
    OBVIOUS
  <2>1. i \in 1 .. Len(s) \/ i \in Len(s) + 1 .. Len(s) + Len(t)
    BY <1>1, <1>2
  <2>2. j \in 1 .. Len(s) \/ j \in Len(s) + 1 .. Len(s) + Len(t)
    BY <1>1, <1>2
  <2>3. CASE i \in 1 .. Len(s) /\ j \in 1 .. Len(s)
    BY <1>1, <1>3, <2>3 DEF Lists
  <2>4. CASE i \in Len(s) + 1 .. Len(s) + Len(t) /\ j \in Len(s) + 1 .. Len(s) + Len(t)
    <3>1. t[i - Len(s)] = t[j - Len(s)] /\ i - Len(s) \in DOMAIN t /\ j - Len(s) \in DOMAIN t
      BY <1>1, <1>4, <2>4
    <3>2. i - Len(s) = j - Len(s)
      BY <3>1 DEF Lists
    <3>3. QED
      BY <1>1, <3>2, <2>4
  <2>5. QED
    BY <1>3, <1>4, <2>1, <2>2, <2>3, <2>4
<1>6. \A x \in S : \E i \in DOMAIN u : u[i] = x
  <2> TAKE x \in S
  <2>1. PICK i \in 1 .. Len(s) : s[i] = x
    BY <1>1 DEF Lists, Range
  <2>2. QED
    BY <1>1, <1>2, <1>3, <2>1
<1>7. \A x \in T : \E i \in DOMAIN u : u[i] = x
  <2> TAKE x \in T
  <2>1. PICK i \in 1 .. Len(t) : t[i] = x
    BY <1>1 DEF Lists, Range
  <2>2. Len(s) + i \in Len(s) + 1 .. Len(s) + Len(t) /\ (Len(s) + i) - Len(s) = i
    BY <1>1
  <2> DEFINE j == Len(s) + i
  <2>3. u[j] = t[j - Len(s)] /\ j \in 1 .. Len(s) + Len(t)
    BY <1>1, <1>4, <2>2
  <2>4. u[j] = x
    BY <2>1, <2>2, <2>3
  <2>5. QED
    BY <1>2, <2>3, <2>4
<1>8. Range(u) = S \union T
  BY <1>2, <1>3, <1>4, <1>6, <1>7 DEF Range
<1>9. QED
  BY <1>2, <1>5, <1>8 DEF Lists, u

\* What FlattenSeq computes, by induction: the first i sequences, joined.
JoinStep(q, g) == g = [i \in 1 .. Len(q) |-> IF i = 1 THEN q[i] ELSE g[i - 1] \o q[i]]

\* The recursion has a solution, so that the one FlattenSeq takes is one.
LEMMA JoinsExist ==
  ASSUME NEW V, NEW n \in Nat \ {0}, NEW q \in [1 .. n -> V]
  PROVE  \E g : JoinStep(q, g)
<1> DEFINE Goes(g, m) == \A i \in 1 .. m : g[i] = IF i = 1 THEN q[i] ELSE g[i - 1] \o q[i]
           T == {m \in Nat : \E g : g = [i \in 1 .. m |-> g[i]] /\ Goes(g, m)}
<1>1. 0 \in T
  <2>1. <<>> = [i \in 1 .. 0 |-> <<>>[i]] /\ Goes(<<>>, 0)
    OBVIOUS
  <2>2. QED
    BY <2>1
<1>2. ASSUME NEW m \in T PROVE m + 1 \in T
  <2>1. PICK g : g = [i \in 1 .. m |-> g[i]] /\ Goes(g, m)
    BY <1>2
  <2> DEFINE new == IF m = 0 THEN q[1] ELSE g[m] \o q[m + 1]
             h == [i \in 1 .. m + 1 |-> IF i = m + 1 THEN new ELSE g[i]]
  <2>2. m \in Nat /\ m + 1 \in Nat
    BY <1>2
  <2>3. h = [i \in 1 .. m + 1 |-> h[i]]
    OBVIOUS
  <2>4. \A i \in 1 .. m : h[i] = g[i]
    BY <2>2
  <2>5. h[m + 1] = new
    BY <2>2
  <2> HIDE DEF h
  <2>6. Goes(h, m + 1)
    <3> SUFFICES ASSUME NEW i \in 1 .. m + 1
                 PROVE  h[i] = IF i = 1 THEN q[i] ELSE h[i - 1] \o q[i]
      OBVIOUS
    <3>1. CASE i = m + 1
      <4>1. CASE m = 0
        BY <2>5, <3>1, <4>1
      <4>2. CASE m # 0
        <5>1. m \in 1 .. m /\ i - 1 = m /\ i # 1
          BY <2>2, <3>1, <4>2
        <5>2. h[i - 1] = g[m]
          BY <2>4, <5>1
        <5>3. QED
          BY <2>5, <3>1, <4>2, <5>1, <5>2
      <4>3. QED
        BY <4>1, <4>2
    <3>2. CASE i # m + 1
      <4>1. i \in 1 .. m /\ (i # 1 => i - 1 \in 1 .. m)
        BY <2>2, <3>2
      <4>2. QED
        BY <2>1, <2>4, <4>1
    <3>3. QED
      BY <3>1, <3>2
  <2>7. QED
    BY <2>2, <2>3, <2>6
<1>3. T = Nat
  <2>1. T \in SUBSET Nat
    OBVIOUS
  <2> HIDE DEF T
  <2>2. QED
    BY <1>1, <1>2, <2>1, SetInduction
<1>4. n \in T /\ Len(q) = n
  BY <1>3
<1>5. PICK g : g = [i \in 1 .. n |-> g[i]] /\ Goes(g, n)
  BY <1>4
<1>6. [i \in 1 .. n |-> g[i]] = [i \in 1 .. n |-> IF i = 1 THEN q[i] ELSE g[i - 1] \o q[i]]
  BY <1>5
<1>7. JoinStep(q, g)
  BY <1>4, <1>5, <1>6 DEF JoinStep
<1>8. QED
  BY <1>7

\* Sequence i of q lists the set P[i], and these sets have nothing in common.
ListsOf(q, P, n) ==
  /\ q = [i \in 1 .. n |-> q[i]]
  /\ \A i \in 1 .. n : Lists(q[i], P[i])
  /\ \A i, j \in 1 .. n : i # j => P[i] \cap P[j] = {}

\* Joined, they list the union.
LEMMA Flattened ==
  ASSUME NEW n \in Nat \ {0}, NEW q, NEW P, ListsOf(q, P, n)
  PROVE  Lists(FlattenSeq(q), UNION {P[i] : i \in 1 .. n})
<1> DEFINE g == CHOOSE g : JoinStep(q, g)
           V == {q[i] : i \in 1 .. n}
<1>0. /\ \A i \in 1 .. n : Lists(q[i], P[i])
      /\ \A i, j \in 1 .. n : i # j => P[i] \cap P[j] = {}
  BY DEF ListsOf
<1>q. q \in [1 .. n -> V]
  <2>1. \A i \in 1 .. n : q[i] \in V
    OBVIOUS
  <2> HIDE DEF V
  <2>2. QED
    BY <2>1 DEF ListsOf
<1> HIDE DEF V
<1>1. JoinStep(q, g)
  BY <1>q, JoinsExist
<1>2. Len(q) = n
  BY <1>q
<1>3. FlattenSeq(q) = g[n]
  BY <1>2 DEF FlattenSeq, JoinStep
<1> HIDE DEF g
<1>4. \A i \in 1 .. n : g[i] = IF i = 1 THEN q[i] ELSE g[i - 1] \o q[i]
  <2> DEFINE h == [i \in 1 .. n |-> IF i = 1 THEN q[i] ELSE g[i - 1] \o q[i]]
  <2>1. g = h
    BY <1>1, <1>2 DEF JoinStep
  <2>2. \A i \in 1 .. n : h[i] = IF i = 1 THEN q[i] ELSE g[i - 1] \o q[i]
    OBVIOUS
  <2> HIDE DEF h
  <2>3. QED
    BY <2>1, <2>2
<1> DEFINE Upto(i) == UNION {P[k] : k \in 1 .. i}
           T == {m \in Nat : m \in 1 .. n => Lists(g[m], Upto(m))}
<1>5. 0 \in T
  OBVIOUS
<1>6. ASSUME NEW m \in T PROVE m + 1 \in T
  <2> SUFFICES ASSUME m + 1 \in 1 .. n PROVE Lists(g[m + 1], Upto(m + 1))
    OBVIOUS
  <2>1. m \in Nat
    BY <1>6
  <2>2. CASE m = 0
    <3>1. g[1] = q[1] /\ Lists(q[1], P[1])
      BY <1>0, <1>4
    <3>2. 1 .. 1 = {1} /\ Upto(1) = P[1] /\ m + 1 = 1
      BY <2>2
    <3> HIDE DEF Upto
    <3>3. Lists(g[1], Upto(1))
      BY <3>1, <3>2
    <3>4. QED
      BY <3>2, <3>3
  <2>3. CASE m # 0
    <3>1. m \in 1 .. n /\ m + 1 # 1 /\ (m + 1) - 1 = m
      BY <2>1, <2>3
    <3>2. g[m + 1] = g[m] \o q[m + 1]
      BY <1>4, <3>1
    <3>3. Lists(g[m], Upto(m)) /\ Lists(q[m + 1], P[m + 1])
      BY <1>0, <1>6, <3>1
    <3>4. Upto(m) \cap P[m + 1] = {}
      <4>1. \A k \in 1 .. m : k \in 1 .. n /\ k # m + 1
        BY <2>1
      <4>2. QED
        BY <1>0, <4>1
    <3>5. Upto(m + 1) = Upto(m) \union P[m + 1]
      <4>1. 1 .. m + 1 = (1 .. m) \union {m + 1}
        BY <2>1
      <4>2. QED
        BY <4>1
    <3> HIDE DEF Upto
    <3>6. QED
      BY <3>2, <3>3, <3>4, <3>5, ListsJoined
  <2>4. QED
    BY <2>2, <2>3
<1>7. T = Nat
  <2>1. T \in SUBSET Nat
    OBVIOUS
  <2> HIDE DEF T
  <2>2. QED
    BY <1>5, <1>6, <2>1, SetInduction
<1>8. Lists(g[n], Upto(n))
  <2> HIDE DEF Upto
  <2>1. n \in T
    BY <1>7
  <2>2. n \in 1 .. n
    OBVIOUS
  <2>3. QED
    BY <2>1, <2>2
<1>9. QED
  BY <1>3, <1>8

\* The rotation starts at a key there is.
KeysInv ==
  /\ DOMAIN req = Workers
  /\ \A c \in Channels : keyCounter[c] # Unset => keyCounter[c] \in 0 .. KeyCount[c] - 1

\* However far it is turned, the rotation has every key of a channel once.
LEMMA KeysListed ==
  ASSUME KeysInv, NEW c \in Channels
  PROVE  Lists(KeyTargets(c), {c} \X KeysOf(c))
<1>1. KeyCount[c] \in Nat
  BY ChannelAssumption
<1>2. CASE KeyCount[c] = 0
  <2>1. KeyTargets(c) = << <<c, 0>> >> /\ {c} \X KeysOf(c) = { <<c, 0>> }
    BY <1>2 DEF KeyTargets, KeysOf
  <2>2. QED
    BY <2>1 DEF Lists, Range
<1>3. CASE KeyCount[c] # 0
  <2> DEFINE n == KeyCount[c]
             k == KeyStart(c)
             turn(i) == (k + i - 1) % n
             s == [i \in 1 .. n |-> <<c, turn(i)>>]
  <2>1. n \in Nat \ {0} /\ k \in 0 .. n - 1
    BY <1>1, <1>3 DEF KeyStart, KeysInv
  <2>2. KeyTargets(c) = s /\ KeysOf(c) = 0 .. n - 1
    BY <1>3 DEF KeyTargets, KeysOf
  <2> HIDE DEF n, k
  <2>3. \A i \in 1 .. n : turn(i) = IF k + i - 1 < n THEN k + i - 1 ELSE k + i - 1 - n
    BY <2>1
  <2> HIDE DEF turn
  <2>4. \A i \in 1 .. n : turn(i) \in 0 .. n - 1
    BY <2>1, <2>3
  <2>5. \A i, j \in 1 .. n : turn(i) = turn(j) => i = j
    BY <2>1, <2>3
  <2>6. \A x \in 0 .. n - 1 : \E i \in 1 .. n : turn(i) = x
    <3> TAKE x \in 0 .. n - 1
    <3> DEFINE i == IF x >= k THEN x - k + 1 ELSE x - k + 1 + n
    <3>1. i \in 1 .. n /\ turn(i) = x
      BY <2>1, <2>3
    <3>2. QED
      BY <3>1
  <2>7. s \in Seq({c} \X (0 .. n - 1)) /\ DOMAIN s = 1 .. n
    BY <2>1, <2>4
  <2>8. \A i \in 1 .. n : s[i] = <<c, turn(i)>>
    OBVIOUS
  <2> HIDE DEF s
  <2>9. Range(s) = {c} \X (0 .. n - 1)
    <3>1. \A p \in {c} \X (0 .. n - 1) : \E i \in 1 .. n : s[i] = p
      BY <2>6, <2>8
    <3>2. \A i \in 1 .. n : s[i] \in {c} \X (0 .. n - 1)
      BY <2>4, <2>8
    <3>3. Range(s) = {s[i] : i \in 1 .. n}
      BY <2>7 DEF Range
    <3>4. QED
      BY <3>1, <3>2, <3>3
  <2>10. \A i, j \in DOMAIN s : s[i] = s[j] => i = j
    BY <2>5, <2>7, <2>8
  <2>11. QED
    BY <2>2, <2>7, <2>9, <2>10 DEF Lists
<1>4. QED
  BY <1>2, <1>3

\* Moving a block to the front leaves the members as they are.
LEMMA PreferredListed ==
  ASSUME NEW S, NEW s, Lists(s, S), NEW c
  PROVE  Lists(PreferChannel(s, c), S)
<1> DEFINE block == {i \in DOMAIN s : s[i][1] = c}
           n == Len(s)
<1>1. s \in Seq(S) /\ n \in Nat /\ DOMAIN s = 1 .. n /\ Range(s) = S
  BY DEF Lists
<1>2. CASE block = {}
  BY <1>2 DEF PreferChannel
<1>3. CASE block # {}
  <2> DEFINE a == Min(block)
             b == Max(block)
             t == SubSeq(s, a, b) \o SubSeq(s, 1, a - 1) \o SubSeq(s, b + 1, n)
             from(i) == IF i <= b - a + 1 THEN a + i - 1 ELSE IF i <= b THEN i - (b - a + 1) ELSE i
  <2>1. block \in SUBSET (1 .. n)
    BY <1>1
  <2>2. PreferChannel(s, c) = t
    BY <1>3 DEF PreferChannel
  <2> HIDE DEF block
  <2>3. a \in block /\ \A i \in block : a <= i
    <3>1. block \in SUBSET Nat
      BY <2>1
    <3>2. \E m \in block : \A i \in block : m <= i
      BY <1>3, <3>1, LeastMember
    <3>3. QED
      BY <3>2 DEF Min
  <2>4. b \in block
    <3> DEFINE back == {n - i : i \in block}
    <3>1. back \in SUBSET Nat /\ back # {}
      <4>1. \A i \in block : n - i \in Nat
        BY <1>1, <2>1
      <4>2. \E i \in block : TRUE
        BY <1>3
      <4>3. QED
        BY <4>1, <4>2
    <3> HIDE DEF back
    <3>2. PICK m \in back : \A i \in back : m <= i
      BY <3>1, LeastMember
    <3>3. PICK k \in block : m = n - k
      BY DEF back
    <3>4. \A i \in block : k >= i
      <4> TAKE i \in block
      <4>1. n - i \in back
        BY DEF back
      <4>2. n - k <= n - i /\ i \in 1 .. n /\ k \in 1 .. n
        BY <2>1, <3>2, <3>3, <4>1
      <4>3. QED
        BY <1>1, <4>2
    <3>5. QED
      BY <3>4 DEF Max
  <2>5. a \in 1 .. n /\ b \in 1 .. n /\ a <= b
    BY <2>1, <2>3, <2>4
  <2> HIDE DEF a, b
  <2>6. /\ t \in Seq(S) /\ Len(t) = n /\ DOMAIN t = 1 .. n
        /\ \A i \in 1 .. n : t[i] = s[from(i)]
    <3> DEFINE x == SubSeq(s, a, b)
               y == SubSeq(s, 1, a - 1)
               z == SubSeq(s, b + 1, n)
    <3>1. /\ x \in Seq(S) /\ Len(x) = b - a + 1
          /\ \A i \in 1 .. b - a + 1 : x[i] = s[a + i - 1]
      BY <1>1, <2>5
    <3>2. /\ y \in Seq(S) /\ Len(y) = a - 1
          /\ \A i \in 1 .. a - 1 : y[i] = s[i]
      BY <1>1, <2>5
    <3>3. /\ z \in Seq(S) /\ Len(z) = n - b
          /\ \A i \in 1 .. n - b : z[i] = s[b + i]
      <4>1. z = [i \in 1 .. n - (b + 1) + 1 |-> s[(b + 1) + i - 1]]
        BY <1>1, <2>5
      <4>2. n - (b + 1) + 1 = n - b /\ n - b \in Nat
        BY <1>1, <2>5
      <4>3. \A i \in 1 .. n - b : (b + 1) + i - 1 = b + i /\ s[b + i] \in S
        BY <1>1, <2>5
      <4>4. z = [i \in 1 .. n - b |-> s[b + i]]
        BY <4>1, <4>2, <4>3
      <4> HIDE DEF z
      <4>5. QED
        BY <4>2, <4>3, <4>4
    <3>4. t = x \o y \o z
      OBVIOUS
    <3> HIDE DEF x, y, z, t
    <3> DEFINE v == x \o y
    <3>5. /\ v \in Seq(S) /\ Len(v) = b
          /\ \A i \in 1 .. b : v[i] = IF i <= b - a + 1 THEN x[i] ELSE y[i - (b - a + 1)]
      BY <1>1, <2>5, <3>1, <3>2
    <3>6. t = v \o z
      BY <3>4
    <3> HIDE DEF v
    <3>7. /\ t \in Seq(S) /\ Len(t) = n /\ DOMAIN t = 1 .. n
          /\ \A i \in 1 .. n : t[i] = IF i <= b THEN v[i] ELSE z[i - b]
      <4>1. b + (n - b) = n
        BY <1>1, <2>5
      <4>2. t \in Seq(S) /\ Len(t) = n
        BY <3>3, <3>5, <3>6, <4>1
      <4>3. \A i \in 1 .. Len(v) + Len(z) : t[i] = IF i <= Len(v) THEN v[i] ELSE z[i - Len(v)]
        BY <3>3, <3>5, <3>6
      <4>4. QED
        BY <3>3, <3>5, <4>1, <4>2, <4>3
    <3>8. ASSUME NEW i \in 1 .. n PROVE t[i] = s[from(i)]
      <4>1. CASE i <= b - a + 1
        <5>1. i \in 1 .. b - a + 1 /\ i \in 1 .. b /\ i <= b
          BY <1>1, <2>5, <4>1
        <5>2. QED
          BY <3>1, <3>5, <3>7, <4>1, <5>1
      <4>2. CASE i > b - a + 1 /\ i <= b
        <5>1. i - (b - a + 1) \in 1 .. a - 1 /\ i \in 1 .. b /\ ~(i <= b - a + 1)
          BY <1>1, <2>5, <4>2
        <5>2. QED
          BY <3>2, <3>5, <3>7, <4>2, <5>1
      <4>3. CASE i > b
        <5>1. i - b \in 1 .. n - b /\ b + (i - b) = i /\ ~(i <= b) /\ ~(i <= b - a + 1)
          BY <1>1, <2>5, <4>3
        <5>2. QED
          BY <3>3, <3>7, <5>1
      <4>4. QED
        BY <1>1, <2>5, <4>1, <4>2, <4>3
    <3>9. QED
      BY <3>7, <3>8
  <2> HIDE DEF t
  <2>7. \A i \in 1 .. n : from(i) \in 1 .. n
    BY <1>1, <2>5
  <2>8. \A i, j \in 1 .. n : from(i) = from(j) => i = j
    BY <1>1, <2>5
  <2>9. \A k \in 1 .. n : \E i \in 1 .. n : from(i) = k
    <3> TAKE k \in 1 .. n
    <3> DEFINE i == IF k > b THEN k ELSE IF k < a THEN k + (b - a + 1) ELSE k - a + 1
    <3>1. i \in 1 .. n /\ from(i) = k
      BY <1>1, <2>5
    <3>2. QED
      BY <3>1
  <2> HIDE DEF from, n
  <2>10. Range(t) = S
    <3>1. Range(t) = {s[from(i)] : i \in 1 .. n}
      BY <2>6 DEF Range
    <3>2. S = {s[k] : k \in 1 .. n}
      BY <1>1 DEF Range
    <3>3. QED
      BY <2>7, <2>9, <3>1, <3>2
  <2>11. \A i, j \in DOMAIN t : t[i] = t[j] => i = j
    <3> SUFFICES ASSUME NEW i \in 1 .. n, NEW j \in 1 .. n, t[i] = t[j] PROVE i = j
      BY <2>6
    <3>1. from(i) \in DOMAIN s /\ from(j) \in DOMAIN s /\ s[from(i)] = s[from(j)]
      BY <1>1, <2>6, <2>7
    <3>2. from(i) = from(j)
      BY <3>1 DEF Lists
    <3>3. QED
      BY <2>8, <3>2
  <2>12. QED
    BY <2>2, <2>6, <2>10, <2>11 DEF Lists
<1>4. QED
  BY <1>2, <1>3

\* Whatever the weights draw, and whomever the affinity prefers, a request gets the whole tier.
LEMMA TierListed ==
  ASSUME KeysInv, Tier # {}, NEW s \in Orders, NEW kind, NEW cl
  PROVE  Lists(Preferred(s, kind, cl), UNION {{c} \X KeysOf(c) : c \in Tier})
<1> DEFINE n == Cardinality(Tier)
           S == UNION {{c} \X KeysOf(c) : c \in Tier}
<1>1. IsFiniteSet(Tier) /\ n \in Nat \ {0} /\ Tier \subseteq Channels
  <2>1. Tier \subseteq Channels
    BY DEF Tier
  <2>2. IsFiniteSet(Tier)
    BY <2>1, FiniteAssumption, FS_Subset
  <2>3. QED
    BY <2>1, <2>2, FS_CardinalityType, FS_EmptySet
<1>2. PICK o \in SetToSeqs(Tier) : s = FlattenSeq([i \in DOMAIN o |-> KeyTargets(o[i])])
  BY DEF Orders
<1> HIDE DEF n
<1>3. o \in [1 .. n -> Tier] /\ \A i, j \in 1 .. n : i # j => o[i] # o[j]
  BY DEF SetToSeqs, n
<1>4. \A c \in Tier : \E i \in 1 .. n : o[i] = c
  <2>1. o \in Injection(1 .. n, Tier)
    BY <1>3 DEF Injection, IsInjective
  <2>2. IsFiniteSet(1 .. n) /\ Cardinality(1 .. n) = n
    <3>1. IsFiniteSet(1 .. n) /\ Cardinality(1 .. n) = IF 1 > n THEN 0 ELSE n - 1 + 1
      BY <1>1, FS_Interval
    <3>2. QED
      BY <1>1, <3>1
  <2>3. o \in Surjection(1 .. n, Tier)
    BY <1>1, <2>1, <2>2, FS_Injection DEF n
  <2>4. QED
    BY <2>3 DEF Surjection
<1> DEFINE q == [i \in 1 .. n |-> KeyTargets(o[i])]
           P == [i \in 1 .. n |-> {o[i]} \X KeysOf(o[i])]
<1>5. s = FlattenSeq(q)
  <2>1. DOMAIN o = 1 .. n
    BY <1>3
  <2>2. QED
    BY <1>2, <2>1
<1>6. \A i \in 1 .. n : Lists(q[i], P[i])
  <2> TAKE i \in 1 .. n
  <2>1. o[i] \in Channels
    BY <1>1, <1>3
  <2>2. QED
    BY <2>1, KeysListed
<1>7. \A i, j \in 1 .. n : i # j => P[i] \cap P[j] = {}
  BY <1>3
<1>8. UNION {P[i] : i \in 1 .. n} = S
  <2>1. \A i \in 1 .. n : P[i] \subseteq S
    BY <1>3
  <2>2. \A c \in Tier : \E i \in 1 .. n : P[i] = {c} \X KeysOf(c)
    BY <1>4
  <2>3. QED
    BY <2>1, <2>2
<1>9. ListsOf(q, P, n)
  <2>1. q = [i \in 1 .. n |-> q[i]]
    OBVIOUS
  <2> HIDE DEF q, P
  <2>2. QED
    BY <1>6, <1>7, <2>1 DEF ListsOf
<1> HIDE DEF q, P, S
<1>10. Lists(s, S)
  <2>1. Lists(FlattenSeq(q), UNION {P[i] : i \in 1 .. n})
    BY <1>1, <1>9, Flattened
  <2>2. QED
    BY <1>5, <1>8, <2>1
<1>11. QED
  BY <1>10, PreferredListed DEF Preferred, S

\* No channel has turned at the start.
LEMMA InitKeys == Init => KeysInv
BY DEF Init, NoRequests, KeysInv

\* A step of one request is seen in no other, and only Route leaves the idle stage.
LEMMA StepKeys ==
  ASSUME KeysInv, NEW w \in Workers, Step(w)
  PROVE  /\ KeysInv'
         /\ \A v \in Workers \ {w} : req'[v] = req[v]
         /\ req[w].stage = "idle" => \E kind, cl : Route(w, kind, cl)
<1>1. ASSUME NEW kind, NEW cl, Route(w, kind, cl)
      PROVE  KeysInv' /\ \A v \in Workers \ {w} : req'[v] = req[v]
  <2>1. DOMAIN req' = Workers /\ \A v \in Workers \ {w} : req'[v] = req[v]
    BY <1>1 DEF Route, KeysInv
  <2>2. ASSUME NEW c \in Channels, keyCounter'[c] # Unset
        PROVE  keyCounter'[c] \in 0 .. KeyCount[c] - 1
    <3>1. keyCounter'[c] = IF c \in Tier /\ KeyCount[c] > 0 THEN KeyNext(c) ELSE keyCounter[c]
      BY <1>1 DEF Route
    <3>2. CASE c \in Tier /\ KeyCount[c] > 0
      <4>1. KeyCount[c] \in Nat \ {0}
        BY <3>2, ChannelAssumption
      <4>2. CASE keyCounter[c] = Unset
        BY <3>1, <3>2, <4>1, <4>2 DEF KeyNext
      <4>3. CASE keyCounter[c] # Unset
        <5>1. keyCounter[c] \in 0 .. KeyCount[c] - 1
          BY <4>3 DEF KeysInv
        <5>2. (keyCounter[c] + 1) % KeyCount[c] \in 0 .. KeyCount[c] - 1
          BY <4>1, <5>1
        <5>3. QED
          BY <3>1, <3>2, <4>3, <5>2 DEF KeyNext
      <4>4. QED
        BY <4>2, <4>3
    <3>3. CASE ~(c \in Tier /\ KeyCount[c] > 0)
      BY <2>2, <3>1, <3>3 DEF KeysInv
    <3>4. QED
      BY <3>2, <3>3
  <2>3. QED
    BY <2>1, <2>2 DEF KeysInv
<1>2. ASSUME \A kind, cl : ~Route(w, kind, cl)
      PROVE  /\ req[w].stage # "idle" /\ keyCounter' = keyCounter
             /\ \E q : req' = [req EXCEPT ![w] = q]
  <2>1. CASE \/ Answer(w) \/ ChannelError(w) \/ TransportError(w) \/ Abort(w) \/ Unconvertible(w)
    BY <2>1 DEF Answer, ChannelError, TransportError, Abort, Unconvertible, Finish
  <2>2. CASE Reset(w) \/ Revive(w) \/ Settle(w) \/ Load(w) \/ Bump(w)
    BY <2>2 DEF Reset, Revive, Settle, Load, Bump
  <2>3. CASE Trip(w) \/ Replace(w) \/ Clear(w) \/ Reply(w) \/ HangUp(w)
    BY <2>3 DEF Trip, Replace, Clear, Reply, HangUp, Finish
  <2>4. QED
    BY <1>2, <2>1, <2>2, <2>3 DEF Step
<1>3. CASE \E kind, cl : Route(w, kind, cl)
  BY <1>1, <1>3
<1>4. CASE \A kind, cl : ~Route(w, kind, cl)
  <2>1. PICK q : req' = [req EXCEPT ![w] = q]
    BY <1>2, <1>4
  <2>2. QED
    BY <1>2, <1>4, <2>1 DEF KeysInv
<1>5. QED
  BY <1>3, <1>4

\* Nothing but Route and a restart turns a channel's keys.
LEMMA NextKeys == KeysInv /\ [Next]_vars => KeysInv'
<1> SUFFICES ASSUME KeysInv, [Next]_vars PROVE KeysInv'
  OBVIOUS
<1>1. ASSUME NEW w \in Workers, Step(w) PROVE KeysInv'
  BY <1>1, StepKeys
<1>2. ASSUME req' = req, keyCounter' = keyCounter PROVE KeysInv'
  BY <1>2 DEF KeysInv
<1>3. CASE Restart
  BY <1>3 DEF Restart, NoRequests, KeysInv
<1>4. QED
  BY <1>1, <1>2, <1>3 DEF Next, Toggle, Tick, vars

\* A buffered request may fall back on every key of every usable channel of the highest priority,
\* each once, and on no other, wherever the rotation stands and whatever the affinity prefers.
THEOREM Routing == Spec => RouteCoversTier
<1> DEFINE Covers ==
      \A w \in Workers :
        req[w].stage = "idle" /\ req'[w].stage = "attempt" /\ req'[w].kind \in Buffered =>
          LET t == req'[w].targets IN
          /\ Range(t) = UNION {{c} \X KeysOf(c) : c \in Tier}
          /\ Len(t) = Cardinality(Range(t))
<1>1. KeysInv /\ [Next]_vars => [Covers]_vars
  <2> SUFFICES ASSUME KeysInv, Next, NEW w \in Workers,
                      req[w].stage = "idle", req'[w].stage = "attempt", req'[w].kind \in Buffered
               PROVE  LET t == req'[w].targets IN
                      /\ Range(t) = UNION {{c} \X KeysOf(c) : c \in Tier}
                      /\ Len(t) = Cardinality(Range(t))
    OBVIOUS
  <2>1. PICK kind, cl : Route(w, kind, cl)
    <3>1. ~Restart
      BY IdleShape DEF Restart, NoRequests
    <3>2. req' # req
      OBVIOUS
    <3>3. PICK v \in Workers : Step(v)
      BY <3>1, <3>2 DEF Next, Toggle, Tick
    <3>4. v = w
      BY <3>3, StepKeys
    <3>5. QED
      BY <3>3, <3>4, StepKeys
  <2>2. PICK s \in Orders :
          LET t == Preferred(s, kind, cl) IN
          req' = [req EXCEPT ![w] = [Idle(kind, cl) EXCEPT
                    !.stage = "attempt", !.targets = IF kind \in Buffered THEN t ELSE <<Head(t)>>]]
    BY <2>1 DEF Route
  <2>3. /\ req'[w].kind = kind
        /\ req'[w].targets = IF kind \in Buffered THEN Preferred(s, kind, cl)
                             ELSE <<Head(Preferred(s, kind, cl))>>
    BY <2>2 DEF KeysInv, Idle
  <2>4. req'[w].targets = Preferred(s, kind, cl)
    BY <2>3
  <2>5. Lists(req'[w].targets, UNION {{c} \X KeysOf(c) : c \in Tier})
    BY <2>1, <2>4, TierListed DEF Route
  <2>6. QED
    BY <2>5, ListLength DEF Lists
<1>2. QED
  BY <1>1, InitKeys, NextKeys, PTL DEF Spec, RouteCoversTier

================================================================================
