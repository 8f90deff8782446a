-------------------------------- MODULE Credits --------------------------------
(***************************************************************************)
(* How credit gets into an account: redemption codes, payment orders,      *)
(* invitations, daily check-ins, plans with their daily grant, transfers   *)
(* between users, and the administrator's corrections; and the relayed     *)
(* requests that use it up beside them.                                    *)
(*                                                                         *)
(* Every handler is a chain of calls, each atomic under its own lock or as *)
(* one SQLite statement: it reads whether the credit is due, adds it with  *)
(* AddUserQuota, and records that it was given, in an order that differs   *)
(* from handler to handler.  Other handlers and a crash act in between.    *)
(* Accounts, codes, orders, invitations and subscriptions are on disk; the *)
(* scheduler's schedulerLastRun is not.                                    *)
(***************************************************************************)
EXTENDS Integers, FiniteSets, Functions

CONSTANTS
  Workers,         \* goroutines that serve these handlers
  Users,           \* user names
  Root,            \* the administrator, the only one who makes codes and invitations
  Nobody,          \* no user
  Codes, Orders, Invites,   \* redemption codes, payment orders, invitations
  NoItem,          \* no code, order or invitation
  Mixes,           \* which handlers are called together, sets of members of AllKinds
  CodeQuota, OrderAmount, PlanQuota, InviteQuota, RegisterQuota, CheckinQuota,
  TransferAmount,  \* the amounts
  MaxCost,         \* the most one relayed request is charged
  Adjustments,     \* amounts of the administrator's corrections, of either sign
  PlanDays,        \* duration_days of the plan
  MaxRequests,     \* bound: requests in a behaviour
  MaxDay,          \* bound: days in a behaviour
  MaxCrashes       \* bound: crashes in a behaviour

AllKinds ==
  {"redeem", "order", "checkin", "subscribe", "transfer", "relay", "register", "adjust"}

ASSUME NamesAssumption  == Root \in Users /\ Nobody \notin Users
ASSUME ItemsAssumption  == NoItem \notin Codes \union Orders \union Invites
ASSUME KindsAssumption  == Mixes \subseteq SUBSET AllKinds
ASSUME FiniteAssumption == IsFiniteSet(Users) /\ IsFiniteSet(Workers) /\ Workers # {}
ASSUME AmountAssumption ==
  /\ {CodeQuota, OrderAmount, PlanQuota, InviteQuota, CheckinQuota, TransferAmount, MaxCost,
      PlanDays} \subseteq Nat \ {0}
  /\ RegisterQuota \in Int /\ Adjustments \subseteq Int
ASSUME BoundAssumption  == {MaxRequests, MaxDay, MaxCrashes} \subseteq Nat

VARIABLES
  mix,         \* the handlers called in this behaviour; it never changes
  known,       \* the users that have an account
  quota,       \* Quota of an account
  used,        \* Used of an account
  codeMem,     \* the redemption codes in memory: "absent", "unused", "used"
  codeDisk,    \* the redemption codes on disk
  order,       \* payment orders: "none", "pending", "paid"
  buyer,       \* who placed the order
  marker,      \* pay.credit.<id> = 1
  inviteUsed,  \* Used of an invitation; its Count is 1
  checkedIn,   \* checkin.<user>: the day of the last check-in
  sub,         \* sub.<user>: the day the subscription expires
  day,         \* today
  lastRun,     \* schedulerLastRun
  todo,        \* subscribers the running daily task still has to grant
  task,        \* what each goroutine is doing
  requests, crashes,
  credits,     \* history: how often each source was credited (check-in, grant: today);
               \* "lowered": how often the administrator took credit from a user
  balance      \* history: what all accounts and transfers under way should add up to

accounts == <<mix, known, quota, used>>
codeVars == <<codeMem, codeDisk>>
payVars  == <<order, buyer, marker>>
giftVars == <<inviteUsed, checkedIn>>
planVars == <<sub, lastRun, todo>>
history  == <<credits, balance>>
vars == <<mix, known, quota, used, codeMem, codeDisk, order, buyer, marker, inviteUsed, checkedIn,
          sub, day, lastRun, todo, task, requests, crashes, credits, balance>>

-------------------------------------------------------------------------------
(* State                                                                   *)

Never == -1

Sources ==
  ({"code"} \X Codes) \union ({"order"} \X Orders) \union ({"invite"} \X Invites)
  \union ({"checkin", "grant", "lowered"} \X Users)

Stages == {"idle", "creditCode", "pay", "marker", "creditOrder", "mark",
           "creditCheckin", "markCheckin", "saveSub", "debit", "creditTransfer",
           "charge", "loadInvite", "saveInvite", "creditInvitee", "creditInviter"}

Task == [stage: Stages, user: Users \union {Nobody}, to: Users \union {Nobody},
         item: Codes \union Orders \union Invites \union {NoItem}, day: 0..MaxDay]

Idle == [stage |-> "idle", user |-> Nobody, to |-> Nobody, item |-> NoItem, day |-> 0]

At(w, stage) == task[w].stage = stage

\* It goes on, or returns.
Become(w, t) == task' = [task EXCEPT ![w] = t] /\ UNCHANGED <<day, requests, crashes>>
GoTo(w, stage) == Become(w, [task[w] EXCEPT !.stage = stage])
Return(w)      == Become(w, Idle)

\* A request arrives at an idle goroutine and has its first effect.
Begin(w, kind, t) ==
  /\ kind \in mix
  /\ At(w, "idle") /\ requests < MaxRequests
  /\ requests' = requests + 1
  /\ task' = [task EXCEPT ![w] = t]
  /\ UNCHANGED <<day, crashes>>

NewTask(stage, u, v, item) ==
  [stage |-> stage, user |-> u, to |-> v, item |-> item, day |-> day]

\* AddUserQuota does nothing for a name without an account.
AddUserQuota(u, n) ==
  quota' = IF u \in known THEN [quota EXCEPT ![u] = @ + n] ELSE quota

\* A credit from one of the sources.
Credit(u, n, source) ==
  /\ AddUserQuota(u, n)
  /\ credits' = [credits EXCEPT ![source] = @ + 1]
  /\ balance' = balance + (IF u \in known THEN n ELSE 0)

-------------------------------------------------------------------------------
(* Redemption codes: model/redemption.go                                   *)

\* Redeem holds redeemMu from the check to the credit.
RedeemLocked == \E w \in Workers : At(w, "creditCode")

\* CreateRedemptions saves the whole table.
CreateCode(c) ==
  /\ "redeem" \in mix
  /\ ~RedeemLocked /\ codeMem[c] = "absent"
  /\ codeMem' = [codeMem EXCEPT ![c] = "unused"]
  /\ codeDisk' = codeMem'
  /\ UNCHANGED <<accounts, payVars, giftVars, planVars, day, task, requests, crashes, history>>

\* The save fails: an error is returned, and the code stays in memory.
CreateCodeSaveFails(c) ==
  /\ "redeem" \in mix
  /\ ~RedeemLocked /\ codeMem[c] = "absent"
  /\ codeMem' = [codeMem EXCEPT ![c] = "unused"]
  /\ UNCHANGED <<accounts, codeDisk, payVars, giftVars, planVars, day, task, requests, crashes,
                 history>>

\* The code is taken in memory and on disk, and credited afterwards.
Redeem(w, u, c) ==
  /\ ~RedeemLocked /\ codeMem[c] = "unused"
  /\ Begin(w, "redeem", NewTask("creditCode", u, Nobody, c))
  /\ codeMem' = [codeMem EXCEPT ![c] = "used"]
  /\ codeDisk' = codeMem'
  /\ UNCHANGED <<accounts, payVars, giftVars, planVars, history>>

\* saveRedemptions fails: an error is returned, and the code stays taken in memory.
RedeemSaveFails(w, u, c) ==
  /\ ~RedeemLocked /\ codeMem[c] = "unused"
  /\ Begin(w, "redeem", Idle)
  /\ codeMem' = [codeMem EXCEPT ![c] = "used"]
  /\ UNCHANGED <<accounts, codeDisk, payVars, giftVars, planVars, history>>

CreditCode(w) ==
  /\ At(w, "creditCode")
  /\ Credit(task[w].user, CodeQuota, <<"code", task[w].item>>)
  /\ Return(w)
  /\ UNCHANGED <<mix, known, used, codeVars, payVars, giftVars, planVars>>

-------------------------------------------------------------------------------
(* Payment orders: handler/feat_pay.go                                     *)

\* With pay.mock_auto the order is paid at once, and credited by the same request.
CreateOrder(w, u, o, auto) ==
  /\ order[o] = "none"
  /\ Begin(w, "order", IF auto THEN NewTask("marker", u, Nobody, o) ELSE Idle)
  /\ order' = [order EXCEPT ![o] = IF auto THEN "paid" ELSE "pending"]
  /\ buyer' = [buyer EXCEPT ![o] = u]
  /\ UNCHANGED <<accounts, codeVars, marker, giftVars, planVars, history>>

\* The callback loads the order and goes on with it when it is pending.
PayCallback(w, o) ==
  /\ order[o] = "pending"
  /\ Begin(w, "order", NewTask("pay", buyer[o], Nobody, o))
  /\ UNCHANGED <<accounts, codeVars, payVars, giftVars, planVars, history>>

\* Slip: the callback credits an order it does not save as paid.
SavePaidForgotten(w) ==
  /\ At(w, "pay")
  /\ GoTo(w, "marker")
  /\ UNCHANGED <<accounts, codeVars, payVars, giftVars, planVars, history>>

SavePaid(w) ==
  /\ At(w, "pay")
  /\ order' = [order EXCEPT ![task[w].item] = "paid"]
  /\ GoTo(w, "marker")
  /\ UNCHANGED <<accounts, codeVars, buyer, marker, giftVars, planVars, history>>

\* Slip: the test of the marker is inverted.
ReadMarkerInverted(w) ==
  /\ At(w, "marker")
  /\ IF marker[task[w].item] THEN GoTo(w, "creditOrder") ELSE Return(w)
  /\ UNCHANGED <<accounts, codeVars, payVars, giftVars, planVars, history>>

\* creditPaidOrder: the marker is read, ...
ReadMarker(w) ==
  /\ At(w, "marker")
  /\ IF marker[task[w].item] THEN Return(w) ELSE GoTo(w, "creditOrder")
  /\ UNCHANGED <<accounts, codeVars, payVars, giftVars, planVars, history>>

\* ... the amount is added, ...
CreditOrder(w) ==
  /\ At(w, "creditOrder")
  /\ Credit(task[w].user, OrderAmount, <<"order", task[w].item>>)
  /\ GoTo(w, "mark")
  /\ UNCHANGED <<mix, known, used, codeVars, payVars, giftVars, planVars>>

\* ... and the marker is set.
Mark(w) ==
  /\ At(w, "mark")
  /\ marker' = [marker EXCEPT ![task[w].item] = TRUE]
  /\ Return(w)
  /\ UNCHANGED <<accounts, codeVars, order, buyer, giftVars, planVars, history>>

-------------------------------------------------------------------------------
(* Check-in: handler/feat_presets.go                                       *)

Checkin(w, u) ==
  /\ u \in known /\ checkedIn[u] # day
  /\ Begin(w, "checkin", NewTask("creditCheckin", u, Nobody, NoItem))
  /\ UNCHANGED <<accounts, codeVars, payVars, giftVars, planVars, history>>

\* A credit for yesterday's check-in is not one of today's.
CreditCheckin(w) ==
  LET u == task[w].user IN
  /\ At(w, "creditCheckin")
  /\ AddUserQuota(u, CheckinQuota)
  /\ credits' = [credits EXCEPT ![<<"checkin", u>>] = IF task[w].day = day THEN @ + 1 ELSE @]
  /\ balance' = balance + (IF u \in known THEN CheckinQuota ELSE 0)
  /\ GoTo(w, "markCheckin")
  /\ UNCHANGED <<mix, known, used, codeVars, payVars, giftVars, planVars>>

\* The day written is the one the request began on.
MarkCheckin(w) ==
  /\ At(w, "markCheckin")
  /\ checkedIn' = [checkedIn EXCEPT ![task[w].user] = task[w].day]
  /\ Return(w)
  /\ UNCHANGED <<accounts, codeVars, payVars, inviteUsed, planVars, history>>

-------------------------------------------------------------------------------
(* Plans: handler/feat_plan.go and handler/scheduler.go                    *)

\* The plan's quota is granted, and the subscription saved afterwards.
Subscribe(w, u) ==
  /\ u \in known
  /\ Begin(w, "subscribe", NewTask("saveSub", u, Nobody, NoItem))
  /\ AddUserQuota(u, PlanQuota)
  /\ balance' = balance + PlanQuota
  /\ UNCHANGED <<mix, known, used, codeVars, payVars, giftVars, planVars, credits>>

SaveSub(w) ==
  /\ At(w, "saveSub")
  /\ sub' = [sub EXCEPT ![task[w].user] = task[w].day + PlanDays]
  /\ Return(w)
  /\ UNCHANGED <<accounts, codeVars, payVars, giftVars, lastRun, todo, history>>

\* runDailyTasksIfDue and the list subDailyGrant works through.
RunDailyTasks ==
  /\ todo = {} /\ lastRun # day
  /\ lastRun' = day
  /\ todo' = {u \in Users : sub[u] # Never /\ day <= sub[u]}
  /\ UNCHANGED <<accounts, codeVars, payVars, giftVars, sub, day, task, requests, crashes,
                 history>>

\* The grants come one by one; those of a run that began yesterday are yesterday's.
Grant(u) ==
  /\ u \in todo
  /\ todo' = todo \ {u}
  /\ AddUserQuota(u, PlanQuota)
  /\ credits' = [credits EXCEPT ![<<"grant", u>>] = IF lastRun = day THEN @ + 1 ELSE @]
  /\ balance' = balance + (IF u \in known THEN PlanQuota ELSE 0)
  /\ UNCHANGED <<mix, known, used, codeVars, payVars, giftVars, sub, lastRun, day, task, requests,
                 crashes>>

-------------------------------------------------------------------------------
(* Transfers: handler/feat_plan.go                                         *)

Balance(u) == quota[u] - used[u]
AllBalances == SumFunction([u \in Users |-> Balance(u)])

\* Slip: the remainder is not checked.
TransferUnchecked(w, u, v) ==
  /\ {u, v} \subseteq known /\ u # v /\ u # Root
  /\ Begin(w, "transfer", NewTask("debit", u, v, NoItem))
  /\ UNCHANGED <<accounts, codeVars, payVars, giftVars, planVars, history>>

\* Sender and recipient are read and the sender's remainder is checked.
Transfer(w, u, v) ==
  /\ {u, v} \subseteq known /\ u # v /\ u # Root
  /\ Balance(u) >= TransferAmount
  /\ Begin(w, "transfer", NewTask("debit", u, v, NoItem))
  /\ UNCHANGED <<accounts, codeVars, payVars, giftVars, planVars, history>>

\* Slip: the debit is left out.
DebitForgotten(w) ==
  /\ At(w, "debit")
  /\ GoTo(w, "creditTransfer")
  /\ UNCHANGED <<accounts, codeVars, payVars, giftVars, planVars, history>>

\* AddUserUsed of the sender, ...
Debit(w) ==
  /\ At(w, "debit")
  /\ used' = [used EXCEPT ![task[w].user] = @ + TransferAmount]
  /\ GoTo(w, "creditTransfer")
  /\ UNCHANGED <<mix, known, quota, codeVars, payVars, giftVars, planVars, history>>

\* ... then AddUserQuota of the recipient.
CreditTransfer(w) ==
  /\ At(w, "creditTransfer")
  /\ AddUserQuota(task[w].to, TransferAmount)
  /\ Return(w)
  /\ UNCHANGED <<mix, known, used, codeVars, payVars, giftVars, planVars, history>>

-------------------------------------------------------------------------------
(* Relayed requests: handler/relay.go; the rest of them is in Accounting   *)

\* UserQuotaAllowed reads the account before the request goes upstream; a negative
\* quota is no limit.
Relay(w, u) ==
  /\ u \in known
  /\ quota[u] < 0 \/ Balance(u) > 0
  /\ Begin(w, "relay", NewTask("charge", u, Nobody, NoItem))
  /\ UNCHANGED <<accounts, codeVars, payVars, giftVars, planVars, history>>

\* AddUserUsed when the response is there; a request that failed costs nothing.
Charge(w) ==
  /\ At(w, "charge")
  /\ \E cost \in 0..MaxCost :
       /\ used' = [used EXCEPT ![task[w].user] = @ + cost]
       /\ balance' = balance - cost
  /\ Return(w)
  /\ UNCHANGED <<mix, known, quota, codeVars, payVars, giftVars, planVars, credits>>

-------------------------------------------------------------------------------
(* Registration with an invitation: handler/auth.go, model/feat_invite.go  *)

\* CreateUser comes first, the invitation after it.
Register(w, u, i) ==
  /\ u \notin known
  /\ Begin(w, "register",
           IF i = NoItem THEN Idle ELSE NewTask("loadInvite", u, Nobody, i))
  /\ known' = known \union {u}
  /\ quota' = [quota EXCEPT ![u] = RegisterQuota]
  /\ balance' = balance + RegisterQuota
  /\ UNCHANGED <<mix, used, codeVars, payVars, giftVars, planVars, credits>>

\* RedeemInvite loads the invitation, ...
LoadInvite(w) ==
  /\ At(w, "loadInvite")
  /\ IF inviteUsed[task[w].item] >= 1 THEN Return(w) ELSE GoTo(w, "saveInvite")
  /\ UNCHANGED <<accounts, codeVars, payVars, giftVars, planVars, history>>

\* ... and saves what it loaded with Used one higher.
SaveInvite(w) ==
  /\ At(w, "saveInvite")
  /\ inviteUsed' = [inviteUsed EXCEPT ![task[w].item] = 1]
  /\ GoTo(w, "creditInvitee")
  /\ UNCHANGED <<accounts, codeVars, payVars, checkedIn, planVars, history>>

CreditInvitee(w) ==
  /\ At(w, "creditInvitee")
  /\ Credit(task[w].user, InviteQuota, <<"invite", task[w].item>>)
  /\ IF InviteQuota \div 10 > 0 THEN GoTo(w, "creditInviter") ELSE Return(w)
  /\ UNCHANGED <<mix, known, used, codeVars, payVars, giftVars, planVars>>

\* The inviter is the administrator, who alone can make invitations.
CreditInviter(w) ==
  /\ At(w, "creditInviter")
  /\ AddUserQuota(Root, InviteQuota \div 10)
  /\ balance' = balance + (InviteQuota \div 10)
  /\ Return(w)
  /\ UNCHANGED <<mix, known, used, codeVars, payVars, giftVars, planVars, credits>>

-------------------------------------------------------------------------------
(* The administrator, the calendar and the crash                           *)

\* BillingAdjustHandler, RefundHandler, one user of BulkRechargeHandler.
Adjust(u, n) ==
  /\ "adjust" \in mix /\ requests < MaxRequests
  /\ requests' = requests + 1
  /\ AddUserQuota(u, n)
  /\ balance' = balance + (IF u \in known THEN n ELSE 0)
  /\ credits' = [credits EXCEPT ![<<"lowered", u>>] = IF n < 0 THEN @ + 1 ELSE @]
  /\ UNCHANGED <<mix, known, used, codeVars, payVars, giftVars, planVars, day, task, crashes>>

NextDay ==
  /\ day < MaxDay
  /\ day' = day + 1
  /\ credits' = [s \in Sources |-> IF s[1] \in {"checkin", "grant"} THEN 0 ELSE credits[s]]
  /\ UNCHANGED <<accounts, codeVars, payVars, giftVars, planVars, task, requests, crashes,
                 balance>>

InTransit == TransferAmount * Cardinality({w \in Workers : At(w, "creditTransfer")})

\* A crash and the restart: a transfer that was debited only is lost.
Crash ==
  /\ crashes < MaxCrashes
  /\ crashes' = crashes + 1
  /\ task' = [w \in Workers |-> Idle]
  /\ codeMem' = codeDisk
  /\ lastRun' = Never /\ todo' = {}
  /\ balance' = balance - InTransit
  /\ UNCHANGED <<accounts, codeDisk, payVars, giftVars, sub, day, requests, credits>>

-------------------------------------------------------------------------------
(* Specification                                                           *)

\* The administrator and some other users have registered, and some of them have
\* orders that await their callback.  Nothing else happened.
Init ==
  /\ mix \in Mixes
  /\ known \in {S \in SUBSET Users : Root \in S}
  /\ quota = [u \in Users |-> IF u = Root THEN -1 ELSE IF u \in known THEN RegisterQuota ELSE 0]
  /\ used = [u \in Users |-> 0]
  /\ codeMem = [c \in Codes |-> "absent"] /\ codeDisk = codeMem
  /\ buyer \in [Orders -> known \union {Nobody}]
  /\ order = [o \in Orders |-> IF buyer[o] = Nobody THEN "none" ELSE "pending"]
  /\ marker = [o \in Orders |-> FALSE]
  /\ inviteUsed = [i \in Invites |-> 0]
  /\ checkedIn = [u \in Users |-> Never]
  /\ sub = [u \in Users |-> Never]
  /\ day = 0 /\ lastRun = Never /\ todo = {}
  /\ task = [w \in Workers |-> Idle]
  /\ requests = 0 /\ crashes = 0
  /\ credits = [s \in Sources |-> 0]
  /\ balance = AllBalances

Request(w) ==
  \/ \E u \in known, c \in Codes : Redeem(w, u, c) \/ RedeemSaveFails(w, u, c)
  \/ \E u \in known, o \in Orders, auto \in BOOLEAN : CreateOrder(w, u, o, auto)
  \/ \E o \in Orders : PayCallback(w, o)
  \/ \E u \in Users : Checkin(w, u) \/ Subscribe(w, u)
  \/ \E u, v \in Users : Transfer(w, u, v)
  \/ \E u \in Users : Relay(w, u)
  \/ \E u \in Users, i \in Invites \union {NoItem} : Register(w, u, i)

Continue(w) ==
  \/ CreditCode(w)
  \/ SavePaid(w) \/ ReadMarker(w) \/ CreditOrder(w) \/ Mark(w)
  \/ CreditCheckin(w) \/ MarkCheckin(w)
  \/ SaveSub(w)
  \/ Debit(w) \/ CreditTransfer(w) \/ Charge(w)
  \/ LoadInvite(w) \/ SaveInvite(w) \/ CreditInvitee(w) \/ CreditInviter(w)

Next ==
  \/ \E w \in Workers : Request(w) \/ Continue(w)
  \/ \E c \in Codes : CreateCode(c) \/ CreateCodeSaveFails(c)
  \/ \E u \in Users : Grant(u) \/ (\E n \in Adjustments : Adjust(u, n))
  \/ RunDailyTasks
  \/ NextDay
  \/ Crash

Spec == Init /\ [][Next]_vars

\* A handler that began goes on: nothing it calls waits for anybody else's request.
FairSpec == Spec /\ \A w \in Workers : WF_vars(Continue(w))

-------------------------------------------------------------------------------
(* Properties                                                              *)

\* Every variable keeps its type.
TypeOK ==
  /\ mix \in Mixes
  /\ known \subseteq Users /\ Root \in known
  /\ quota \in [Users -> Int] /\ used \in [Users -> Nat]
  /\ codeMem \in [Codes -> {"absent", "unused", "used"}]
  /\ codeDisk \in [Codes -> {"absent", "unused", "used"}]
  /\ order \in [Orders -> {"none", "pending", "paid"}]
  /\ buyer \in [Orders -> Users \union {Nobody}]
  /\ marker \in [Orders -> BOOLEAN]
  /\ inviteUsed \in [Invites -> 0..1]
  /\ checkedIn \in [Users -> 0..MaxDay \union {Never}]
  /\ sub \in [Users -> 0..(MaxDay + PlanDays) \union {Never}]
  /\ day \in 0..MaxDay /\ lastRun \in 0..MaxDay \union {Never}
  /\ todo \subseteq Users
  /\ task \in [Workers -> Task]
  /\ requests \in 0..MaxRequests /\ crashes \in 0..MaxCrashes
  /\ credits \in [Sources -> Nat] /\ balance \in Int

\* No transfer makes credit: what the accounts hold and what is between a debit and
\* its credit adds up to what was put in, less what relayed requests were charged and
\* what a crash cut off in between.
Conserved == AllBalances + InTransit = balance

\* A redemption code is credited at most once, whatever requests race for it, however
\* often its save fails, and across crashes: Redeem takes it on disk first.
CodeCreditedOnce == \A c \in Codes : credits[<<"code", c>>] <= 1

\* The callback reads the order, saves it and reads the marker without a lock, so
\* an order may be credited twice.  Only the callbacks that were under way when it
\* was first saved as paid can do that: it is never credited more often than there
\* are goroutines, however often the gateway calls back and the program crashes.
OrderCreditsBounded ==
  \A o \in Orders : credits[<<"order", o>>] <= Cardinality(Workers)

\* subDailyGrant: between two starts of the program a subscriber gets the daily
\* grant once a day, whenever the ticker fires and whenever the user subscribes again.
GrantOncePerStart == \A u \in Users : credits[<<"grant", u>>] <= 1 + crashes

\* Nothing is credited more often than its handler allows: codes, the daily grant, orders.
CreditsBounded == CodeCreditedOnce /\ GrantOncePerStart /\ OrderCreditsBounded

\* A paid order is credited in the end, unless a crash comes between the two saves.
PaidOrderIsCredited ==
  \A o \in Orders :
    order[o] = "paid" ~> credits[<<"order", o>>] > 0 \/ crashes > 0

Larger(m, n) == IF m < n THEN n ELSE m

\* What all goroutines together can overdraw an account by: one of them a relayed
\* request that found one unit left, the others what they take at most.
MaxOverdraft == (Cardinality(Workers) - 1) * Larger(TransferAmount, MaxCost) + MaxCost - 1

\* The sender's remainder and the limit of a relayed request are checked on a copy,
\* so transfers and requests that run into each other may overdraw an account, but
\* by no more than the goroutines there are can take, as long as the administrator
\* took nothing from it.  register.default_quota may be negative: such an account
\* has no limit for relayed requests, and this says nothing of it.
TransferOverdraftBounded ==
  RegisterQuota >= 0 =>
    \A u \in known \ {Root} :
      credits[<<"lowered", u>>] = 0 => Balance(u) >= -MaxOverdraft

================================================================================
