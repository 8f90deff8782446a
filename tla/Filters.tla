-------------------------------- MODULE Filters --------------------------------
(***************************************************************************)
(* What a request passes before its handler: the maintenance switch        *)
(* (feat_ops.go), the filter of words (feat_moderation.go) and the review  *)
(* by a moderation model (feat_modreview.go), in the order main.go and the *)
(* native endpoints wrap them, beside the forms that set them.             *)
(*                                                                         *)
(* The settings are rows of the kv table, read and written one by one.  All*)
(* but the words are read anew by every request; the words are cached, and *)
(* moderationDirty, under moderationMu, says that the cache is old.  A read*)
(* that fails is taken for a row that is not there.                        *)
(***************************************************************************)
EXTENDS Integers, Sequences, FiniteSets

CONSTANTS
  Workers,     \* request goroutines
  Admins,      \* goroutines that serve the forms
  Words,       \* words a form may list
  Defaults,    \* moderationDefaultWords
  Clean,       \* the text of a request with none of them
  Unread,      \* no text: the body is not JSON, or longer than 4 MB, where it is cut,
               \* so that it does not parse
  Channels,    \* channels that exist and have a key
  NoChannel,   \* a review.channel_id without one
  Models,      \* moderation models
  Flagged,     \* what a review finds unfit: <<channel, model, text>>
  Calls,       \* the requests of this instance: <<path, text, from the root user>>
  Submitted,   \* the forms of this instance: <<kind, values of its rows>>
  MaxRequests, \* bound: requests in a behaviour
  MaxForms,    \* bound: forms in a behaviour
  MaxFaults    \* bound: crashes, and reads that fail, in a behaviour

Texts == Words \union Defaults \union {Clean}   \* of a body that parses

ASSUME TextAssumption   == Clean \notin Words \union Defaults /\ Unread \notin Texts
ASSUME ReviewAssumption == NoChannel \notin Channels /\ Flagged \subseteq Channels \X Models \X Texts
ASSUME CallAssumption   == Calls \subseteq {"v1", "native"} \X (Texts \union {Unread}) \X BOOLEAN
ASSUME BoundAssumption  == {MaxRequests, MaxForms, MaxFaults} \subseteq Nat

VARIABLES
  kv,          \* the settings on disk
  cache,       \* moderationWords
  dirty,       \* moderationDirty
  holder,      \* the request that holds moderationMu over several steps, Free if none
  req,         \* what each request goroutine is doing
  form,        \* what each administrator's goroutine is doing
  requests, forms, faults,
  seen,        \* history: the values of each setting that a request may act on
  spoilt       \* history: the cache comes from a read that failed

lockVars == <<cache, dirty, holder>>
counts   == <<requests, forms, faults>>
reads    == <<faults, seen, spoilt>>
vars     == <<kv, cache, dirty, holder, req, form, requests, forms, faults, seen, spoilt>>

-------------------------------------------------------------------------------
(* State                                                                   *)

Free == "free"

\* The rows, and what they may hold.
Values ==
  [maintenance |-> BOOLEAN, wordsOn |-> BOOLEAN, words |-> SUBSET Words,
   reviewOn |-> BOOLEAN, channel |-> Channels \union {NoChannel}, model |-> Models]

Keys == DOMAIN Values

\* What a row that is not there counts for.
Unset == [maintenance |-> FALSE, wordsOn |-> FALSE, words |-> {}, reviewOn |-> FALSE,
          channel |-> NoChannel, model |-> CHOOSE m \in Models : TRUE]

\* v1: the chain of main.go.  native: /v1/messages and /v1beta/, which are wrapped in
\* the filter of words only.
Paths == {"v1", "native"}

Stages == {"idle", "maintenance", "wordsOn", "refresh", "read", "store", "copy",
           "reviewOn", "channel", "model", "handler", "refused"}

Arrived(path, text, root) ==
  [stage |-> IF path = "v1" THEN "maintenance" ELSE "wordsOn",
   path |-> path, text |-> text, root |-> root,
   channel |-> NoChannel, answered |-> FALSE, by |-> "none"]

NoRequest == [Arrived("v1", Unread, FALSE) EXCEPT !.stage = "idle"]

At(w, stage) == req[w].stage = stage
Active(w)    == ~At(w, "idle")

NoForm == [left |-> <<>>, value |-> <<>>, mark |-> FALSE, replaced |-> {}]

\* Lists that a form has replaced without having set moderationDirty yet.
Replaced == UNION {form[f].replaced : f \in Admins}

Unseen == [k \in Keys |-> {}]

\* The words that the cache serves without another read were not read.
SpoiltStands == spoilt /\ (dirty => \E w \in Workers : At(w, "store"))

\* What a request that arrives now may act on.
SeenNow ==
  [[k \in Keys |-> {kv[k]}] EXCEPT
     !.words = @ \union Replaced \union (IF SpoiltStands THEN {Unset.words} ELSE {})]

-------------------------------------------------------------------------------
(* The forms                                                               *)

\* The rows of each form in the order they are written.  The other rows of the
\* maintenance form, and the order of its three, are of no concern here.
Rows(kind) ==
  CASE kind = "ops"        -> <<"maintenance">>
    [] kind = "moderation" -> <<"wordsOn", "words">>
    [] kind = "review"     -> <<"reviewOn", "channel", "model">>

FormStart(f, kind, value) ==
  /\ form[f] = NoForm /\ forms < MaxForms
  /\ forms' = forms + 1
  /\ form' = [form EXCEPT ![f] =
                [left |-> Rows(kind), value |-> value, mark |-> kind = "moderation",
                 replaced |-> {}]]
  /\ UNCHANGED <<kv, lockVars, req, requests, reads>>

\* KVSet of the next row.  A form without a mark ends with its last row.
FormWrite(f) ==
  /\ form[f].left # <<>>
  /\ LET k == Head(form[f].left)
         v == form[f].value[Len(form[f].value) - Len(form[f].left) + 1] IN
     /\ kv' = [kv EXCEPT ![k] = v]
     /\ form' = [form EXCEPT ![f] =
          IF Tail(@.left) = <<>> /\ ~@.mark THEN NoForm
          ELSE [@ EXCEPT !.left = Tail(@),
                         !.replaced = IF k = "words" THEN {kv.words} ELSE {}]]
     /\ seen' = [w \in Workers |-> IF Active(w) THEN [seen[w] EXCEPT ![k] = @ \union {v}]
                                   ELSE seen[w]]
  /\ UNCHANGED <<lockVars, req, counts, spoilt>>

\* KVSet fails: the rows written so far stay.
FormFails(f) ==
  /\ form[f].left # <<>>
  /\ form' = [form EXCEPT ![f] = NoForm]
  /\ UNCHANGED <<kv, lockVars, req, requests, forms, reads>>

\* Slip: the form marks the cache before it writes the words.
MarkDirtyEarly(f) ==
  /\ form[f].left = <<"words">> /\ form[f].mark
  /\ holder = Free
  /\ dirty' = TRUE
  /\ form' = [form EXCEPT ![f].mark = FALSE]
  /\ UNCHANGED <<kv, cache, holder, req, requests, forms, reads>>

\* moderationDirty, under the lock.
MarkDirty(f) ==
  /\ form[f].left = <<>> /\ form[f].mark
  /\ holder = Free
  /\ dirty' = TRUE
  /\ form' = [form EXCEPT ![f] = NoForm]
  /\ UNCHANGED <<kv, cache, holder, req, requests, forms, reads>>

-------------------------------------------------------------------------------
(* The way of a request                                                    *)

Arrive(w, q) ==
  /\ At(w, "idle") /\ requests < MaxRequests
  /\ requests' = requests + 1
  /\ req' = [req EXCEPT ![w] = q]
  /\ seen' = [seen EXCEPT ![w] = SeenNow]
  /\ UNCHANGED <<kv, lockVars, form, forms, faults, spoilt>>

Become(w, q) == req' = [req EXCEPT ![w] = q] /\ UNCHANGED <<kv, form, requests, forms>>

\* KVGet for request w: the row, or what counts for none when the read fails.
Reads(w, k, v) ==
  \/ v = kv[k] /\ UNCHANGED <<faults, seen>>
  \/ /\ faults < MaxFaults /\ v = Unset[k] /\ v # kv[k]
     /\ faults' = faults + 1
     /\ seen' = [seen EXCEPT ![w][k] = @ \union {v}]

GoTo(w, stage)  == Become(w, [req[w] EXCEPT !.stage = stage])
Refuse(w, f)    == Become(w, [req[w] EXCEPT !.stage = "refused", !.by = f])
PassReview(w)   == GoTo(w, "handler")
PassWords(w)    == GoTo(w, IF req[w].path = "v1" THEN "reviewOn" ELSE "handler")

\* MaintenanceMiddleware: only the root user goes on.
Maintenance(w) ==
  /\ At(w, "maintenance")
  /\ \E on \in BOOLEAN :
       /\ Reads(w, "maintenance", on)
       /\ IF on /\ ~req[w].root THEN Refuse(w, "maintenance") ELSE GoTo(w, "wordsOn")
  /\ UNCHANGED <<lockVars, spoilt>>

\* SensitiveMiddleware: a request without a JSON body passes, so does one whose
\* body does not parse.
WordsOn(w) ==
  /\ At(w, "wordsOn")
  /\ \E on \in BOOLEAN :
       /\ Reads(w, "wordsOn", on)
       /\ IF req[w].text # Unread /\ on THEN GoTo(w, "refresh") ELSE PassWords(w)
  /\ UNCHANGED <<lockVars, spoilt>>

\* refreshModerationWords takes the lock and holds it when the cache is old.
Refresh(w) ==
  /\ At(w, "refresh") /\ holder = Free
  /\ IF dirty THEN holder' = w /\ GoTo(w, "read") ELSE UNCHANGED holder /\ GoTo(w, "copy")
  /\ UNCHANGED <<cache, dirty, reads>>

\* KVGet, whose failure leaves the default words alone and is cached as well as an
\* answer, and moderationWords, ...
ReadWords(w) ==
  /\ At(w, "read")
  /\ GoTo(w, "store")
  /\ \/ cache' = Defaults \union kv.words /\ spoilt' = FALSE /\ UNCHANGED <<faults, seen>>
     \/ /\ faults < MaxFaults /\ kv.words # Unset.words
        /\ faults' = faults + 1
        /\ cache' = Defaults /\ spoilt' = TRUE
        /\ seen' = [v \in Workers |-> IF Active(v) THEN [seen[v] EXCEPT !.words = @ \union {Unset.words}]
                                      ELSE seen[v]]
  /\ UNCHANGED <<dirty, holder>>

\* ... moderationDirty, and the lock is given back.
StoreWords(w) ==
  /\ At(w, "store")
  /\ dirty' = FALSE
  /\ holder' = Free
  /\ GoTo(w, "copy")
  /\ UNCHANGED <<cache, reads>>

\* The words are copied under the lock and the text is compared with them.
Judge(w) ==
  /\ At(w, "copy") /\ holder = Free
  /\ IF req[w].text \in cache THEN Refuse(w, "words") ELSE PassWords(w)
  /\ UNCHANGED <<lockVars, reads>>

\* ModelReviewMiddleware
ReviewOn(w) ==
  /\ At(w, "reviewOn")
  /\ \E on \in BOOLEAN :
       /\ Reads(w, "reviewOn", on)
       /\ IF req[w].text # Unread /\ on THEN GoTo(w, "channel") ELSE PassReview(w)
  /\ UNCHANGED <<lockVars, spoilt>>

\* Without the row, or the channel it names, the request passes.
ReviewChannel(w) ==
  /\ At(w, "channel")
  /\ \E c \in Channels \union {NoChannel} :
       /\ Reads(w, "channel", c)
       /\ IF c = NoChannel THEN PassReview(w)
          ELSE Become(w, [req[w] EXCEPT !.stage = "model", !.channel = c])
  /\ UNCHANGED <<lockVars, spoilt>>

\* Results[0].Flagged
Unfit(w, m) == <<req[w].channel, m, req[w].text>> \in Flagged

\* The model is read, or reviewDefaultModel taken, and the review asked for.  An answer
\* counts, ...
ReviewAnswered(w) ==
  /\ At(w, "model")
  /\ \E m \in Models :
       /\ Reads(w, "model", m)
       /\ Become(w, IF Unfit(w, m)
                    THEN [req[w] EXCEPT !.stage = "refused", !.by = "review", !.answered = TRUE]
                    ELSE [req[w] EXCEPT !.stage = "handler", !.answered = TRUE])
  /\ UNCHANGED <<lockVars, spoilt>>

\* ... an error, a timeout or a status other than 200 lets the request pass.
ReviewFails(w) ==
  /\ At(w, "model")
  /\ PassReview(w)
  /\ UNCHANGED <<lockVars, reads>>

\* The handler, or the answer 403 or 503, ends the request.
End(w) ==
  /\ At(w, "handler") \/ At(w, "refused")
  /\ req' = [req EXCEPT ![w] = NoRequest]
  /\ seen' = [seen EXCEPT ![w] = Unseen]
  /\ UNCHANGED <<kv, lockVars, form, counts, spoilt>>

\* A crash and the start: the rows are on disk, the cache starts old.
Crash ==
  /\ faults < MaxFaults
  /\ faults' = faults + 1
  /\ req' = [w \in Workers |-> NoRequest]
  /\ form' = [f \in Admins |-> NoForm]
  /\ cache' = {} /\ dirty' = TRUE /\ holder' = Free /\ spoilt' = FALSE
  /\ seen' = [w \in Workers |-> Unseen]
  /\ UNCHANGED <<kv, requests, forms>>

-------------------------------------------------------------------------------
(* Specification                                                           *)

\* A start on a table without rows.
Init ==
  /\ kv = Unset
  /\ cache = {} /\ dirty = TRUE /\ holder = Free
  /\ req = [w \in Workers |-> NoRequest]
  /\ form = [f \in Admins |-> NoForm]
  /\ requests = 0 /\ forms = 0 /\ faults = 0 /\ spoilt = FALSE
  /\ seen = [w \in Workers |-> Unseen]

Filtering(w) ==
  \/ Maintenance(w)
  \/ WordsOn(w) \/ Refresh(w) \/ ReadWords(w) \/ StoreWords(w) \/ Judge(w)
  \/ ReviewOn(w) \/ ReviewChannel(w) \/ ReviewAnswered(w) \/ ReviewFails(w)
  \/ End(w)

Administration(f) ==
  \/ \E s \in Submitted : FormStart(f, s[1], s[2])
  \/ FormWrite(f) \/ FormFails(f) \/ MarkDirty(f)

Next ==
  \/ \E w \in Workers : Filtering(w) \/ \E c \in Calls : Arrive(w, Arrived(c[1], c[2], c[3]))
  \/ \E f \in Admins : Administration(f)
  \/ Crash

Spec == Init /\ [][Next]_vars

-------------------------------------------------------------------------------
(* Properties                                                              *)

\* Every variable keeps its type, and the lock is held by a request that refreshes.
TypeOK ==
  /\ kv \in [maintenance : BOOLEAN, wordsOn : BOOLEAN, words : SUBSET Words,
             reviewOn : BOOLEAN, channel : Channels \union {NoChannel}, model : Models]
  /\ cache \subseteq Words \union Defaults /\ dirty \in BOOLEAN
  /\ holder \in Workers \union {Free}
  /\ \A w \in Workers : holder = w <=> req[w].stage \in {"read", "store"}
  /\ req \in [Workers -> [stage : Stages, path : Paths, text : Texts \union {Unread},
                          root : BOOLEAN, channel : Channels \union {NoChannel},
                          answered : BOOLEAN, by : {"none", "maintenance", "words", "review"}]]
  /\ \A f \in Admins : form[f].replaced \subseteq SUBSET Words
  /\ requests \in 0..MaxRequests /\ forms \in 0..MaxForms /\ faults \in 0..MaxFaults /\ spoilt \in BOOLEAN
  /\ \A w \in Workers, k \in Keys : seen[w][k] \subseteq Values[k]

\* The settings a request may have acted on, each one on its own.
SeenBy(w) ==
  [maintenance : seen[w].maintenance, wordsOn : seen[w].wordsOn, words : seen[w].words,
   reviewOn : seen[w].reviewOn, channel : seen[w].channel, model : seen[w].model]

\* Whether filter f stops request q under the settings s.
Stops(f, q, s) ==
  CASE f = "maintenance" -> q.path = "v1" /\ s.maintenance /\ ~q.root
    [] f = "words"       -> s.wordsOn /\ q.text \in Defaults \union s.words
    [] f = "review"      -> /\ q.path = "v1" /\ s.reviewOn
                            /\ <<s.channel, s.model, q.text>> \in Flagged

\* A request reaches its handler only when for each filter some values of its
\* settings let it pass, each of which stood during the request, or a form was
\* still replacing it, or a read of it failed and took it for unset; for the
\* review, or when the reviewer did not answer.  In particular the cached words are
\* never older than the last form that answered "success": but a failed read of the
\* words is cached too, and lists no word to any request before the next form.
\* Each setting counts on its own: a review may go by the channel of one form and
\* the model of another.
FiltersHold ==
  \A w \in Workers : At(w, "handler") =>
    \A f \in {"maintenance", "words", "review"} :
      \/ f = "review" /\ ~req[w].answered
      \/ \E s \in SeenBy(w) : ~Stops(f, req[w], s)

\* It is refused by a filter only when such values stop it; by the review also by the
\* default model, when the read of the model failed.
RefusedForCause ==
  \A w \in Workers : At(w, "refused") => \E s \in SeenBy(w) : Stops(req[w].by, req[w], s)

\* The three middlewares judge by settings that stood, both ways, but for the reads
\* that fail, which they take for unset.
JudgedBySettings == FiltersHold /\ RefusedForCause
================================================================================
