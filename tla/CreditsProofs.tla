----------------------------- MODULE CreditsProofs -----------------------------
(***************************************************************************)
(* What Credits.tla promises of the accounts, for any users, goroutines,   *)
(* codes, orders and amounts: transfers make no credit, no source is       *)
(* credited more often than its handler allows, and transfers and relayed  *)
(* requests overdraw an account by no more than the goroutines can take.   *)
(***************************************************************************)
EXTENDS Credits, Induction

(* Where the goroutines are *)
Transferring  == {w \in Workers : At(w, "creditTransfer")}
Debiting(u)   == {w \in Workers : At(w, "debit") /\ task[w].user = u}
Charging(u)   == {w \in Workers : At(w, "charge") /\ task[w].user = u}
Redeeming(c)  == {w \in Workers : At(w, "creditCode") /\ task[w].item = c}
Handling(o)   == {w \in Workers : task[w].stage \in {"pay", "marker", "creditOrder"}
                                  /\ task[w].item = o}

\* A name without an account has nothing, and neither spends nor receives.
StrangersHaveNothing ==
  /\ \A u \in Users \ known : quota[u] = 0 /\ used[u] = 0
  /\ \A w \in Workers : task[w].stage \in {"debit", "creditTransfer"} =>
                          task[w].user \in known /\ task[w].to \in known
  /\ \A w \in Workers : At(w, "charge") => task[w].user \in known

\* A code that was credited, or is about to be, is taken in memory and on disk; it is
\* one or the other, and one goroutine redeems at a time.
CodesTaken ==
  /\ \A v, w \in Workers : At(v, "creditCode") /\ At(w, "creditCode") => v = w
  /\ \A c \in Codes :
       /\ credits[<<"code", c>>] <= 1
       /\ credits[<<"code", c>>] = 1 \/ Redeeming(c) # {} =>
            codeMem[c] = "used" /\ codeDisk[c] = "used"
       /\ Redeeming(c) # {} => credits[<<"code", c>>] = 0

\* The grants of today: one for each start, and for this one once the user's turn came.
GrantsCounted ==
  \A u \in Users :
    /\ credits[<<"grant", u>>] <= 1 + crashes
    /\ lastRun # day \/ u \in todo => credits[<<"grant", u>>] <= crashes

\* An order is first credited after it was saved as paid, and from then on only by
\* the callbacks that are under way.
OrderCounted(o) ==
  /\ order[o] # "paid" =>
       /\ credits[<<"order", o>>] = 0
       /\ \A w \in Handling(o) : At(w, "pay")
  /\ credits[<<"order", o>>] + Cardinality(Handling(o)) <= Cardinality(Workers)

OrdersCounted == \A o \in Orders : OrderCounted(o)

\* What the goroutines under way may still take from an account, and what is left of
\* it when every one of them did.
Reserved(u) ==
  TransferAmount * Cardinality(Debiting(u)) + MaxCost * Cardinality(Charging(u))

Covered(u) == quota[u] >= 0 /\ Balance(u) - Reserved(u) >= -MaxOverdraft

SendersCovered ==
  RegisterQuota >= 0 =>
    \A u \in known \ {Root} : credits[<<"lowered", u>>] = 0 => Covered(u)

-------------------------------------------------------------------------------
(* Types                                                                   *)

Items == Codes \union Orders \union Invites \union {NoItem}

LEMMA TaskTypes ==
  ASSUME TypeOK
  PROVE  /\ Idle \in Task
         /\ \A stage \in Stages, u, v \in Users \union {Nobody}, item \in Items :
              NewTask(stage, u, v, item) \in Task
         /\ \A w \in Workers, stage \in Stages : [task[w] EXCEPT !.stage = stage] \in Task
<1>1. 0 \in 0..MaxDay /\ day \in 0..MaxDay
  BY BoundAssumption DEF TypeOK
<1>2. Idle \in Task
  BY <1>1 DEF Idle, Task, Stages
<1>3. \A stage \in Stages, u, v \in Users \union {Nobody}, item \in Items :
        NewTask(stage, u, v, item) \in Task
  BY <1>1 DEF NewTask, Task, Items
<1>4. \A w \in Workers, stage \in Stages : [task[w] EXCEPT !.stage = stage] \in Task
  BY DEF TypeOK, Task
<1>5. QED
  BY <1>2, <1>3, <1>4

\* What going on, returning and beginning do to the types.
LEMMA ControlTypes ==
  ASSUME TypeOK, NEW w \in Workers
  PROVE  /\ \A stage \in Stages : GoTo(w, stage) =>
              task' \in [Workers -> Task] /\ UNCHANGED <<day, requests, crashes>>
         /\ Return(w) => task' \in [Workers -> Task] /\ UNCHANGED <<day, requests, crashes>>
         /\ \A kind : \A t \in Task : Begin(w, kind, t) =>
              task' \in [Workers -> Task] /\ requests' \in 0..MaxRequests
              /\ UNCHANGED <<day, crashes>>
<1>t. task \in [Workers -> Task] /\ requests \in 0..MaxRequests /\ MaxRequests \in Nat
  BY BoundAssumption DEF TypeOK
<1>1. ASSUME NEW t \in Task PROVE [task EXCEPT ![w] = t] \in [Workers -> Task]
  BY <1>t
<1>2. ASSUME NEW stage \in Stages PROVE [task[w] EXCEPT !.stage = stage] \in Task
  BY TaskTypes
<1>3. Idle \in Task
  BY TaskTypes
<1>4. ASSUME NEW stage \in Stages, GoTo(w, stage)
      PROVE  task' \in [Workers -> Task] /\ UNCHANGED <<day, requests, crashes>>
  BY <1>1, <1>2, <1>4 DEF GoTo, Become
<1>5. ASSUME Return(w)
      PROVE  task' \in [Workers -> Task] /\ UNCHANGED <<day, requests, crashes>>
  BY <1>1, <1>3, <1>5 DEF Return, Become
<1>6. ASSUME NEW kind, NEW t \in Task, Begin(w, kind, t)
      PROVE  task' \in [Workers -> Task] /\ requests' \in 0..MaxRequests
             /\ UNCHANGED <<day, crashes>>
  BY <1>t, <1>1, <1>6 DEF Begin
<1>7. QED
  BY <1>4, <1>5, <1>6

LEMMA Amounts ==
  /\ {CodeQuota, OrderAmount, PlanQuota, InviteQuota, CheckinQuota, TransferAmount,
      MaxCost, InviteQuota \div 10, PlanDays, MaxDay, MaxCrashes, MaxRequests} \subseteq Nat
  /\ RegisterQuota \in Int /\ Adjustments \subseteq Int
<1>1. InviteQuota \in Nat
  BY AmountAssumption
<1>2. InviteQuota \div 10 \in Nat
  BY <1>1
<1>3. QED
  BY <1>2, AmountAssumption, BoundAssumption

LEMMA ExceptType ==
  ASSUME NEW D, NEW S, NEW f \in [D -> S], NEW x, NEW y, x \in D => y \in S
  PROVE  [f EXCEPT ![x] = y] \in [D -> S]
OBVIOUS

LEMMA CreditTypes ==
  ASSUME TypeOK, NEW u, NEW n \in Int
  PROVE  /\ AddUserQuota(u, n) => quota' \in [Users -> Int]
         /\ \A source : Credit(u, n, source) =>
              /\ quota' \in [Users -> Int]
              /\ credits' \in [Sources -> Nat]
              /\ balance' \in Int
         /\ \A source : [credits EXCEPT ![source] = @ + 1] \in [Sources -> Nat]
         /\ balance + n \in Int
<1>1. quota \in [Users -> Int] /\ credits \in [Sources -> Nat] /\ balance \in Int
  BY DEF TypeOK
<1>2. ASSUME NEW v PROVE [quota EXCEPT ![v] = @ + n] \in [Users -> Int]
  <2>1. v \in Users => quota[v] + n \in Int
    BY <1>1
  <2>2. QED
    BY <1>1, <2>1, ExceptType
<1>3. ASSUME NEW source PROVE [credits EXCEPT ![source] = @ + 1] \in [Sources -> Nat]
  <2>1. source \in Sources => credits[source] + 1 \in Nat
    BY <1>1
  <2>2. QED
    BY <1>1, <2>1, ExceptType
<1>4. QED
  BY <1>1, <1>2, <1>3 DEF AddUserQuota, Credit

LEMMA StageNames ==
  /\ {"idle", "creditCode", "pay", "marker", "creditOrder", "mark", "creditCheckin",
      "markCheckin", "saveSub", "debit", "creditTransfer", "charge", "loadInvite", "saveInvite",
      "creditInvitee", "creditInviter"} \subseteq Stages
  /\ Codes \subseteq Items /\ Orders \subseteq Items /\ Invites \subseteq Items
  /\ NoItem \in Items
BY DEF Stages, Items

\* Every step keeps the types.
LEMMA TypeStep ==
  ASSUME TypeOK, [Next]_vars
  PROVE  TypeOK'
<1> USE NamesAssumption, Amounts
<1>s. /\ known \subseteq Users /\ requests \in 0..MaxRequests
      /\ \A o \in Orders : buyer[o] \in Users \union {Nobody}
      /\ Idle \in Task
      /\ \A stage \in Stages, u, v \in Users \union {Nobody}, item \in Items :
           NewTask(stage, u, v, item) \in Task
  BY TaskTypes DEF TypeOK
<1>w. \A w \in Workers : task[w].day \in 0..MaxDay
  BY DEF TypeOK, Task
<1>c. /\ \A u : \A n \in Int :
           /\ AddUserQuota(u, n) => quota' \in [Users -> Int]
           /\ \A source : Credit(u, n, source) =>
                 quota' \in [Users -> Int] /\ credits' \in [Sources -> Nat] /\ balance' \in Int
      /\ \A source : [credits EXCEPT ![source] = @ + 1] \in [Sources -> Nat]
  BY CreditTypes
<1>1. ASSUME NEW w \in Workers, NEW u \in known, NEW c \in Codes, Redeem(w, u, c) PROVE TypeOK'
  <2>1. task' \in [Workers -> Task] /\ requests' \in 0..MaxRequests
        /\ UNCHANGED <<day, crashes>>
    BY <1>s, <1>1, ControlTypes, StageNames DEF Redeem
  <2>2. QED
    BY <1>w, <1>1, <2>1
       DEF TypeOK, Redeem, accounts, codeVars, payVars, giftVars, planVars, history
<1>2. ASSUME NEW w \in Workers, NEW u \in known, NEW c \in Codes, RedeemSaveFails(w, u, c)
      PROVE  TypeOK'
  <2>1. task' \in [Workers -> Task] /\ requests' \in 0..MaxRequests
        /\ UNCHANGED <<day, crashes>>
    BY <1>s, <1>2, ControlTypes, StageNames DEF RedeemSaveFails
  <2>2. QED
    BY <1>w, <1>2, <2>1
       DEF TypeOK, RedeemSaveFails, accounts, codeVars, payVars, giftVars, planVars, history
<1>3. ASSUME NEW w \in Workers, NEW u \in known, NEW o \in Orders,
             NEW auto \in BOOLEAN, CreateOrder(w, u, o, auto)
      PROVE  TypeOK'
  <2>1. task' \in [Workers -> Task] /\ requests' \in 0..MaxRequests
        /\ UNCHANGED <<day, crashes>>
    BY <1>s, <1>3, ControlTypes, StageNames DEF CreateOrder
  <2>2. QED
    BY <1>w, <1>3, <2>1
       DEF TypeOK, CreateOrder, accounts, codeVars, payVars, giftVars, planVars, history
<1>4. ASSUME NEW w \in Workers, NEW o \in Orders, PayCallback(w, o) PROVE TypeOK'
  <2>1. task' \in [Workers -> Task] /\ requests' \in 0..MaxRequests
        /\ UNCHANGED <<day, crashes>>
    BY <1>s, <1>4, ControlTypes, StageNames DEF PayCallback
  <2>2. QED
    BY <1>w, <1>4, <2>1
       DEF TypeOK, PayCallback, accounts, codeVars, payVars, giftVars, planVars, history
<1>5. ASSUME NEW w \in Workers, NEW u \in Users, Checkin(w, u) PROVE TypeOK'
  <2>1. task' \in [Workers -> Task] /\ requests' \in 0..MaxRequests
        /\ UNCHANGED <<day, crashes>>
    BY <1>s, <1>5, ControlTypes, StageNames DEF Checkin
  <2>2. QED
    BY <1>w, <1>5, <2>1
       DEF TypeOK, Checkin, accounts, codeVars, payVars, giftVars, planVars, history
<1>6. ASSUME NEW w \in Workers, NEW u \in Users, Subscribe(w, u) PROVE TypeOK'
  <2>1. task' \in [Workers -> Task] /\ requests' \in 0..MaxRequests
        /\ UNCHANGED <<day, crashes>>
    BY <1>s, <1>6, ControlTypes, StageNames DEF Subscribe
  <2>2. QED
    BY <1>w, <1>6, <2>1, <1>c
       DEF TypeOK, Subscribe, accounts, codeVars, payVars, giftVars, planVars, history
<1>7. ASSUME NEW w \in Workers, NEW u \in Users, NEW v \in Users, Transfer(w, u, v)
      PROVE  TypeOK'
  <2>1. task' \in [Workers -> Task] /\ requests' \in 0..MaxRequests
        /\ UNCHANGED <<day, crashes>>
    BY <1>s, <1>7, ControlTypes, StageNames DEF Transfer
  <2>2. QED
    BY <1>w, <1>7, <2>1
       DEF TypeOK, Transfer, accounts, codeVars, payVars, giftVars, planVars, history
<1>8. ASSUME NEW w \in Workers, NEW u \in Users, NEW i \in Invites \union {NoItem}, Register(w, u, i)
      PROVE  TypeOK'
  <2>1. task' \in [Workers -> Task] /\ requests' \in 0..MaxRequests
        /\ UNCHANGED <<day, crashes>>
    BY <1>s, <1>8, ControlTypes, StageNames DEF Register
  <2>2. QED
    BY <1>w, <1>8, <2>1
       DEF TypeOK, Register, accounts, codeVars, payVars, giftVars, planVars, history
<1>32. ASSUME NEW w \in Workers, NEW u \in Users, Relay(w, u) PROVE TypeOK'
  <2>1. task' \in [Workers -> Task] /\ requests' \in 0..MaxRequests
        /\ UNCHANGED <<day, crashes>>
    BY <1>s, <1>32, ControlTypes, StageNames DEF Relay
  <2>2. QED
    BY <1>w, <1>32, <2>1
       DEF TypeOK, Relay, accounts, codeVars, payVars, giftVars, planVars, history
<1>9. ASSUME NEW w \in Workers, CreditCode(w) PROVE TypeOK'
  <2>1. task' \in [Workers -> Task] /\ requests' \in 0..MaxRequests
        /\ UNCHANGED <<day, crashes>>
    BY <1>s, <1>9, ControlTypes, StageNames DEF CreditCode
  <2>2. CodeQuota \in Int /\ Credit(task[w].user, CodeQuota, <<"code", task[w].item>>)
    BY <1>9 DEF CreditCode
  <2>3. quota' \in [Users -> Int] /\ credits' \in [Sources -> Nat] /\ balance' \in Int
    BY ONLY TypeOK, <2>2, CreditTypes
  <2>4. QED
    BY <1>9, <2>1, <2>3
       DEF TypeOK, CreditCode, accounts, codeVars, payVars, giftVars, planVars, history
<1>10. ASSUME NEW w \in Workers, SavePaid(w) PROVE TypeOK'
  <2>1. task' \in [Workers -> Task] /\ requests' \in 0..MaxRequests
        /\ UNCHANGED <<day, crashes>>
    BY <1>s, <1>10, ControlTypes, StageNames DEF SavePaid
  <2>2. QED
    BY <1>w, <1>10, <2>1
       DEF TypeOK, SavePaid, accounts, codeVars, payVars, giftVars, planVars, history
<1>11. ASSUME NEW w \in Workers, ReadMarker(w) PROVE TypeOK'
  <2>1. task' \in [Workers -> Task] /\ requests' \in 0..MaxRequests
        /\ UNCHANGED <<day, crashes>>
    BY <1>s, <1>11, ControlTypes, StageNames DEF ReadMarker
  <2>2. QED
    BY <1>w, <1>11, <2>1
       DEF TypeOK, ReadMarker, accounts, codeVars, payVars, giftVars, planVars, history
<1>12. ASSUME NEW w \in Workers, CreditOrder(w) PROVE TypeOK'
  <2>1. task' \in [Workers -> Task] /\ requests' \in 0..MaxRequests
        /\ UNCHANGED <<day, crashes>>
    BY <1>s, <1>12, ControlTypes, StageNames DEF CreditOrder
  <2>2. OrderAmount \in Int /\ Credit(task[w].user, OrderAmount, <<"order", task[w].item>>)
    BY <1>12 DEF CreditOrder
  <2>3. quota' \in [Users -> Int] /\ credits' \in [Sources -> Nat] /\ balance' \in Int
    BY ONLY TypeOK, <2>2, CreditTypes
  <2>4. QED
    BY <1>12, <2>1, <2>3
       DEF TypeOK, CreditOrder, accounts, codeVars, payVars, giftVars, planVars, history
<1>13. ASSUME NEW w \in Workers, Mark(w) PROVE TypeOK'
  <2>1. task' \in [Workers -> Task] /\ requests' \in 0..MaxRequests
        /\ UNCHANGED <<day, crashes>>
    BY <1>s, <1>13, ControlTypes, StageNames DEF Mark
  <2>2. QED
    BY <1>w, <1>13, <2>1
       DEF TypeOK, Mark, accounts, codeVars, payVars, giftVars, planVars, history
<1>14. ASSUME NEW w \in Workers, CreditCheckin(w) PROVE TypeOK'
  <2>1. task' \in [Workers -> Task] /\ requests' \in 0..MaxRequests
        /\ UNCHANGED <<day, crashes>>
    BY <1>s, <1>14, ControlTypes, StageNames DEF CreditCheckin
  <2>2. QED
    BY <1>w, <1>14, <2>1, <1>c
       DEF TypeOK, CreditCheckin, accounts, codeVars, payVars, giftVars, planVars, history
<1>15. ASSUME NEW w \in Workers, MarkCheckin(w) PROVE TypeOK'
  <2>1. task' \in [Workers -> Task] /\ requests' \in 0..MaxRequests
        /\ UNCHANGED <<day, crashes>>
    BY <1>s, <1>15, ControlTypes, StageNames DEF MarkCheckin
  <2>2. QED
    BY <1>w, <1>15, <2>1
       DEF TypeOK, MarkCheckin, accounts, codeVars, payVars, giftVars, planVars, history
<1>16. ASSUME NEW w \in Workers, SaveSub(w) PROVE TypeOK'
  <2>1. task' \in [Workers -> Task] /\ requests' \in 0..MaxRequests
        /\ UNCHANGED <<day, crashes>>
    BY <1>s, <1>16, ControlTypes, StageNames DEF SaveSub
  <2>2. task[w].day + PlanDays \in 0..(MaxDay + PlanDays)
    BY <1>w DEF TypeOK
  <2>3. sub' \in [Users -> 0..(MaxDay + PlanDays) \union {Never}]
    BY <1>16, <2>2, ExceptType DEF TypeOK, SaveSub
  <2>4. QED
    BY <1>16, <2>1, <2>3
       DEF TypeOK, SaveSub, accounts, codeVars, payVars, giftVars, planVars, history
<1>17. ASSUME NEW w \in Workers, Debit(w) PROVE TypeOK'
  <2>1. task' \in [Workers -> Task] /\ requests' \in 0..MaxRequests
        /\ UNCHANGED <<day, crashes>>
    BY <1>s, <1>17, ControlTypes, StageNames DEF Debit
  <2>2. task[w].user \in Users => used[task[w].user] + TransferAmount \in Nat
    BY <1>w DEF TypeOK
  <2>3. used' \in [Users -> Nat]
    BY <1>17, <2>2, ExceptType DEF TypeOK, Debit
  <2>4. QED
    BY <1>17, <2>1, <2>3
       DEF TypeOK, Debit, accounts, codeVars, payVars, giftVars, planVars, history
<1>33. ASSUME NEW w \in Workers, Charge(w) PROVE TypeOK'
  <2>1. task' \in [Workers -> Task] /\ requests' \in 0..MaxRequests
        /\ UNCHANGED <<day, crashes>>
    BY <1>s, <1>33, ControlTypes, StageNames DEF Charge
  <2>2. PICK cost \in 0..MaxCost :
          used' = [used EXCEPT ![task[w].user] = @ + cost] /\ balance' = balance - cost
    BY <1>33 DEF Charge
  <2>3. cost \in Nat
    OBVIOUS
  <2>4. task[w].user \in Users => used[task[w].user] + cost \in Nat
    BY <2>3 DEF TypeOK
  <2>5. used' \in [Users -> Nat]
    BY <2>2, <2>4, ExceptType DEF TypeOK
  <2>6. balance' \in Int
    BY <2>2, <2>3 DEF TypeOK
  <2>7. QED
    BY <1>33, <2>1, <2>5, <2>6 DEF TypeOK, Charge, codeVars, payVars, giftVars, planVars
<1>18. ASSUME NEW w \in Workers, CreditTransfer(w) PROVE TypeOK'
  <2>1. task' \in [Workers -> Task] /\ requests' \in 0..MaxRequests
        /\ UNCHANGED <<day, crashes>>
    BY <1>s, <1>18, ControlTypes, StageNames DEF CreditTransfer
  <2>2. QED
    BY <1>w, <1>18, <2>1, <1>c
       DEF TypeOK, CreditTransfer, accounts, codeVars, payVars, giftVars, planVars, history
<1>19. ASSUME NEW w \in Workers, LoadInvite(w) PROVE TypeOK'
  <2>1. task' \in [Workers -> Task] /\ requests' \in 0..MaxRequests
        /\ UNCHANGED <<day, crashes>>
    BY <1>s, <1>19, ControlTypes, StageNames DEF LoadInvite
  <2>2. QED
    BY <1>w, <1>19, <2>1
       DEF TypeOK, LoadInvite, accounts, codeVars, payVars, giftVars, planVars, history
<1>20. ASSUME NEW w \in Workers, SaveInvite(w) PROVE TypeOK'
  <2>1. task' \in [Workers -> Task] /\ requests' \in 0..MaxRequests
        /\ UNCHANGED <<day, crashes>>
    BY <1>s, <1>20, ControlTypes, StageNames DEF SaveInvite
  <2>2. 1 \in 0..1
    BY <1>w DEF TypeOK
  <2>3. inviteUsed' \in [Invites -> 0..1]
    BY <1>20, <2>2, ExceptType DEF TypeOK, SaveInvite
  <2>4. QED
    BY <1>20, <2>1, <2>3
       DEF TypeOK, SaveInvite, accounts, codeVars, payVars, giftVars, planVars, history
<1>21. ASSUME NEW w \in Workers, CreditInvitee(w) PROVE TypeOK'
  <2>1. task' \in [Workers -> Task] /\ requests' \in 0..MaxRequests
        /\ UNCHANGED <<day, crashes>>
    BY <1>s, <1>21, ControlTypes, StageNames DEF CreditInvitee
  <2>2. InviteQuota \in Int /\ Credit(task[w].user, InviteQuota, <<"invite", task[w].item>>)
    BY <1>21 DEF CreditInvitee
  <2>3. quota' \in [Users -> Int] /\ credits' \in [Sources -> Nat] /\ balance' \in Int
    BY ONLY TypeOK, <2>2, CreditTypes
  <2>4. QED
    BY <1>21, <2>1, <2>3
       DEF TypeOK, CreditInvitee, accounts, codeVars, payVars, giftVars, planVars, history
<1>22. ASSUME NEW w \in Workers, CreditInviter(w) PROVE TypeOK'
  <2>1. task' \in [Workers -> Task] /\ requests' \in 0..MaxRequests
        /\ UNCHANGED <<day, crashes>>
    BY <1>s, <1>22, ControlTypes, StageNames DEF CreditInviter
  <2>2. QED
    BY <1>w, <1>22, <2>1, <1>c
       DEF TypeOK, CreditInviter, accounts, codeVars, payVars, giftVars, planVars, history
<1>23. ASSUME NEW c \in Codes, CreateCode(c) PROVE TypeOK'
  BY <1>s, <1>w, <1>c, <1>23
     DEF TypeOK, CreateCode, accounts, codeVars, payVars, giftVars, planVars, history
<1>24. ASSUME NEW c \in Codes, CreateCodeSaveFails(c) PROVE TypeOK'
  BY <1>s, <1>w, <1>c, <1>24
     DEF TypeOK, CreateCodeSaveFails, accounts, codeVars, payVars, giftVars, planVars,
         history
<1>25. ASSUME NEW u \in Users, Grant(u) PROVE TypeOK'
  BY <1>s, <1>w, <1>c, <1>25
     DEF TypeOK, Grant, accounts, codeVars, payVars, giftVars, planVars, history
<1>26. ASSUME NEW u \in Users, NEW n \in Adjustments, Adjust(u, n) PROVE TypeOK'
  BY <1>s, <1>w, <1>c, <1>26
     DEF TypeOK, Adjust, accounts, codeVars, payVars, giftVars, planVars, history
<1>27. ASSUME RunDailyTasks PROVE TypeOK'
  BY <1>s, <1>w, <1>c, <1>27
     DEF TypeOK, RunDailyTasks, accounts, codeVars, payVars, giftVars, planVars, history
<1>28. ASSUME NextDay PROVE TypeOK'
  BY <1>s, <1>w, <1>c, <1>28
     DEF TypeOK, NextDay, Sources, accounts, codeVars, payVars, giftVars, planVars, history
<1>29. ASSUME Crash PROVE TypeOK'
  BY <1>s, <1>w, <1>c, <1>29
     DEF TypeOK, Crash, InTransit, accounts, codeVars, payVars, giftVars, planVars, history
<1>30. CASE UNCHANGED vars
  BY <1>30 DEF TypeOK, vars
<1>31. QED
  BY <1>1, <1>2, <1>3, <1>4, <1>5, <1>6, <1>7, <1>8, <1>9, <1>10, <1>11, <1>12, <1>13, <1>14,
     <1>15, <1>16, <1>17, <1>18, <1>19, <1>20, <1>21, <1>22, <1>23, <1>24, <1>25, <1>26,
     <1>27, <1>28, <1>29, <1>30, <1>32, <1>33
     DEF Next, Request, Continue

-------------------------------------------------------------------------------
(* What a step does to the goroutines and to the history                   *)

\* The goroutine goes from one stage to another, and no other one does anything.
Moves(w, from, to) ==
  /\ task[w].stage \in from /\ task'[w].stage \in to
  /\ \A v \in Workers \ {w} : task'[v] = task[v]

\* It is the same call it works on.
SameCall(w) ==
  /\ task'[w].user = task[w].user /\ task'[w].to = task[w].to
  /\ task'[w].item = task[w].item

LEMMA ControlMoves ==
  ASSUME TypeOK, NEW w \in Workers
  PROVE  /\ \A from : \A stage \in Stages : GoTo(w, stage) /\ At(w, from) =>
              Moves(w, {from}, {stage}) /\ SameCall(w)
         /\ \A from : Return(w) /\ At(w, from) => Moves(w, {from}, {"idle"})
         /\ \A kind : \A t \in Task : Begin(w, kind, t) =>
              Moves(w, {"idle"}, {t.stage}) /\ task'[w] = t
<1>1. task \in [Workers -> Task] /\ task[w] \in Task
  BY DEF TypeOK
<1>2. ASSUME NEW stage \in Stages, NEW from, GoTo(w, stage), At(w, from)
      PROVE  Moves(w, {from}, {stage}) /\ SameCall(w)
  BY <1>1, <1>2 DEF GoTo, Become, At, Moves, SameCall, Task
<1>3. ASSUME NEW from, Return(w), At(w, from) PROVE Moves(w, {from}, {"idle"})
  BY <1>1, <1>3 DEF Return, Become, At, Moves, Idle
<1>4. ASSUME NEW kind, NEW t \in Task, Begin(w, kind, t)
      PROVE  Moves(w, {"idle"}, {t.stage}) /\ task'[w] = t
  BY <1>1, <1>4 DEF Begin, At, Moves
<1>5. QED
  BY <1>2, <1>3, <1>4

\* Only sources of this kind are credited.
Credits(kinds) == \A s \in Sources : s[1] \notin kinds => credits'[s] = credits[s]

LEMMA SourceNames ==
  /\ \A c \in Codes : <<"code", c>> \in Sources
  /\ \A o \in Orders : <<"order", o>> \in Sources
  /\ \A u \in Users : <<"grant", u>> \in Sources /\ <<"lowered", u>> \in Sources
BY DEF Sources

LEMMA CreditsOneKind ==
  ASSUME TypeOK, NEW kind, NEW x, credits' = [credits EXCEPT ![<<kind, x>>] = @ + 1]
  PROVE  /\ Credits({kind})
         /\ \A s \in Sources : credits'[s] = IF s = <<kind, x>> THEN credits[s] + 1 ELSE credits[s]
BY DEF TypeOK, Credits

\* The steps of the handlers, by what they are about.
CodeStep(w) ==
  \/ \E u \in known, c \in Codes : Redeem(w, u, c) \/ RedeemSaveFails(w, u, c)
  \/ CreditCode(w)

OrderStep(w) ==
  \/ \E u \in known, o \in Orders, auto \in BOOLEAN : CreateOrder(w, u, o, auto)
  \/ \E o \in Orders : PayCallback(w, o)
  \/ SavePaid(w) \/ ReadMarker(w) \/ CreditOrder(w)

SpendStep(w) ==
  \/ \E u, v \in Users : Transfer(w, u, v)
  \/ Debit(w) \/ CreditTransfer(w)
  \/ \E u \in Users : Relay(w, u)
  \/ Charge(w)

RegisterStep(w) == \E u \in Users, i \in Invites \union {NoItem} : Register(w, u, i)

OtherStep(w) ==
  \/ \E u \in Users : Checkin(w, u) \/ Subscribe(w, u)
  \/ Mark(w) \/ CreditCheckin(w) \/ MarkCheckin(w) \/ SaveSub(w)
  \/ LoadInvite(w) \/ SaveInvite(w) \/ CreditInvitee(w) \/ CreditInviter(w)

OrderStages == {"pay", "marker", "creditOrder"}
SpendStages == {"debit", "creditTransfer", "charge"}
OtherStages == Stages \ ({"creditCode"} \union OrderStages \union SpendStages)

\* Credit goes up, and for accounts only.
Rises == \A u \in Users : /\ quota'[u] >= quota[u]
                          /\ u \notin known => quota'[u] = quota[u]

LEMMA AddingRises ==
  ASSUME TypeOK, NEW u, NEW n \in Nat, AddUserQuota(u, n)
  PROVE  Rises
<1>1. quota \in [Users -> Int]
  BY DEF TypeOK
<1>2. QED
  BY <1>1 DEF AddUserQuota, Rises

\* What each of them leaves alone.
LEMMA MovesWider ==
  ASSUME NEW w, NEW from, NEW to, NEW F, NEW T, Moves(w, from, to), from \subseteq F, to \subseteq T
  PROVE  Moves(w, F, T)
BY DEF Moves

LEMMA NewTasks ==
  \A stage, u, v, item : /\ NewTask(stage, u, v, item).stage = stage
                         /\ NewTask(stage, u, v, item).user = u
                         /\ NewTask(stage, u, v, item).to = v
                         /\ NewTask(stage, u, v, item).item = item
                         /\ Idle.stage = "idle"
BY DEF NewTask, Idle

\* Where each handler's steps lead.
LEMMA RequestMoves ==
  ASSUME TypeOK, NEW w \in Workers
  PROVE  /\ \A u \in known, c \in Codes : Redeem(w, u, c) =>
              Moves(w, {"idle"}, {"creditCode"}) /\ task'[w].item = c
         /\ \A u \in known, c \in Codes : RedeemSaveFails(w, u, c) =>
              Moves(w, {"idle"}, {"idle"})
         /\ \A u \in known, o \in Orders, auto \in BOOLEAN : CreateOrder(w, u, o, auto) =>
              /\ Moves(w, {"idle"}, {IF auto THEN "marker" ELSE "idle"})
              /\ auto => task'[w].item = o
         /\ \A o \in Orders : PayCallback(w, o) =>
              Moves(w, {"idle"}, {"pay"}) /\ task'[w].item = o
         /\ \A u \in Users : Checkin(w, u) => Moves(w, {"idle"}, {"creditCheckin"})
         /\ \A u \in Users : Subscribe(w, u) => Moves(w, {"idle"}, {"saveSub"})
         /\ \A u, v \in Users : Transfer(w, u, v) =>
              Moves(w, {"idle"}, {"debit"}) /\ task'[w].user = u /\ task'[w].to = v
         /\ \A u \in Users : Relay(w, u) =>
              Moves(w, {"idle"}, {"charge"}) /\ task'[w].user = u
         /\ \A u \in Users, i \in Invites \union {NoItem} : Register(w, u, i) =>
              Moves(w, {"idle"}, {"idle", "loadInvite"})
<1>t. /\ known \subseteq Users /\ Idle \in Task
      /\ \A o \in Orders : buyer[o] \in Users \union {Nobody}
      /\ \A stage \in Stages, u, v \in Users \union {Nobody}, item \in Items :
           NewTask(stage, u, v, item) \in Task
      /\ \A kind : \A t \in Task : Begin(w, kind, t) =>
           Moves(w, {"idle"}, {t.stage}) /\ task'[w] = t
  BY TaskTypes, ControlMoves DEF TypeOK
<1>1. ASSUME NEW u \in known, NEW c \in Codes, Redeem(w, u, c)
      PROVE  Moves(w, {"idle"}, {"creditCode"}) /\ task'[w].item = c
  <2> DEFINE t == NewTask("creditCode", u, Nobody, c)
  <2>1. t \in Task
    BY <1>t, StageNames
  <2>2. Begin(w, "redeem", t)
    BY <1>1 DEF Redeem
  <2>3. Moves(w, {"idle"}, {t.stage}) /\ task'[w] = t
    <3> HIDE DEF t
    <3>1. QED
      BY <1>t, <2>1, <2>2
  <2>4. QED
    BY <2>3, NewTasks, MovesWider
<1>2. ASSUME NEW u \in known, NEW c \in Codes, RedeemSaveFails(w, u, c)
      PROVE  Moves(w, {"idle"}, {"idle"})
  <2> DEFINE t == Idle
  <2>1. t \in Task
    BY <1>t, StageNames
  <2>2. Begin(w, "redeem", t)
    BY <1>2 DEF RedeemSaveFails
  <2>3. Moves(w, {"idle"}, {t.stage}) /\ task'[w] = t
    <3> HIDE DEF t
    <3>1. QED
      BY <1>t, <2>1, <2>2
  <2>4. QED
    BY <2>3, NewTasks, MovesWider
<1>3. ASSUME NEW u \in known, NEW o \in Orders, NEW auto \in BOOLEAN, CreateOrder(w, u, o, auto)
      PROVE  Moves(w, {"idle"}, {IF auto THEN "marker" ELSE "idle"})
             /\ (auto => task'[w].item = o)
  <2> DEFINE t == IF auto THEN NewTask("marker", u, Nobody, o) ELSE Idle
  <2>1. t \in Task
    BY <1>t, StageNames
  <2>2. Begin(w, "order", t)
    BY <1>3 DEF CreateOrder
  <2>3. Moves(w, {"idle"}, {t.stage}) /\ task'[w] = t
    <3> HIDE DEF t
    <3>1. QED
      BY <1>t, <2>1, <2>2
  <2>4. QED
    BY <2>3, NewTasks, MovesWider
<1>4. ASSUME NEW o \in Orders, PayCallback(w, o)
      PROVE  Moves(w, {"idle"}, {"pay"}) /\ task'[w].item = o
  <2> DEFINE t == NewTask("pay", buyer[o], Nobody, o)
  <2>1. t \in Task
    BY <1>t, StageNames
  <2>2. Begin(w, "order", t)
    BY <1>4 DEF PayCallback
  <2>3. Moves(w, {"idle"}, {t.stage}) /\ task'[w] = t
    <3> HIDE DEF t
    <3>1. QED
      BY <1>t, <2>1, <2>2
  <2>4. QED
    BY <2>3, NewTasks, MovesWider
<1>5. ASSUME NEW u \in Users, Checkin(w, u)
      PROVE  Moves(w, {"idle"}, {"creditCheckin"})
  <2> DEFINE t == NewTask("creditCheckin", u, Nobody, NoItem)
  <2>1. t \in Task
    BY <1>t, StageNames
  <2>2. Begin(w, "checkin", t)
    BY <1>5 DEF Checkin
  <2>3. Moves(w, {"idle"}, {t.stage}) /\ task'[w] = t
    <3> HIDE DEF t
    <3>1. QED
      BY <1>t, <2>1, <2>2
  <2>4. QED
    BY <2>3, NewTasks, MovesWider
<1>6. ASSUME NEW u \in Users, Subscribe(w, u)
      PROVE  Moves(w, {"idle"}, {"saveSub"})
  <2> DEFINE t == NewTask("saveSub", u, Nobody, NoItem)
  <2>1. t \in Task
    BY <1>t, StageNames
  <2>2. Begin(w, "subscribe", t)
    BY <1>6 DEF Subscribe
  <2>3. Moves(w, {"idle"}, {t.stage}) /\ task'[w] = t
    <3> HIDE DEF t
    <3>1. QED
      BY <1>t, <2>1, <2>2
  <2>4. QED
    BY <2>3, NewTasks, MovesWider
<1>7. ASSUME NEW u \in Users, NEW v \in Users, Transfer(w, u, v)
      PROVE  Moves(w, {"idle"}, {"debit"}) /\ task'[w].user = u /\ task'[w].to = v
  <2> DEFINE t == NewTask("debit", u, v, NoItem)
  <2>1. t \in Task
    BY <1>t, StageNames
  <2>2. Begin(w, "transfer", t)
    BY <1>7 DEF Transfer
  <2>3. Moves(w, {"idle"}, {t.stage}) /\ task'[w] = t
    <3> HIDE DEF t
    <3>1. QED
      BY <1>t, <2>1, <2>2
  <2>4. QED
    BY <2>3, NewTasks, MovesWider
<1>8. ASSUME NEW u \in Users, NEW i \in Invites \union {NoItem}, Register(w, u, i)
      PROVE  Moves(w, {"idle"}, {"idle", "loadInvite"})
  <2> DEFINE t == IF i = NoItem THEN Idle ELSE NewTask("loadInvite", u, Nobody, i)
  <2>1. t \in Task
    BY <1>t, StageNames
  <2>2. Begin(w, "register", t)
    BY <1>8 DEF Register
  <2>3. Moves(w, {"idle"}, {t.stage}) /\ task'[w] = t
    <3> HIDE DEF t
    <3>1. QED
      BY <1>t, <2>1, <2>2
  <2>4. QED
    BY <2>3, NewTasks, MovesWider
<1>9. ASSUME NEW u \in Users, Relay(w, u)
      PROVE  Moves(w, {"idle"}, {"charge"}) /\ task'[w].user = u
  <2> DEFINE t == NewTask("charge", u, Nobody, NoItem)
  <2>1. t \in Task
    BY <1>t, StageNames
  <2>2. Begin(w, "relay", t)
    BY <1>9 DEF Relay
  <2>3. Moves(w, {"idle"}, {t.stage}) /\ task'[w] = t
    <3> HIDE DEF t
    <3>1. QED
      BY <1>t, <2>1, <2>2
  <2>4. QED
    BY <2>3, NewTasks, MovesWider
<1>10. QED
  BY <1>1, <1>2, <1>3, <1>4, <1>5, <1>6, <1>7, <1>8, <1>9

LEMMA ContinueMoves ==
  ASSUME TypeOK, NEW w \in Workers
  PROVE  /\ CreditCode(w) => Moves(w, {"creditCode"}, {"idle"})
         /\ SavePaid(w) => Moves(w, {"pay"}, {"marker"}) /\ SameCall(w)
         /\ ReadMarker(w) =>
              Moves(w, {"marker"}, {"idle", "creditOrder"}) /\ (At(w, "creditOrder")' => SameCall(w))
         /\ CreditOrder(w) => Moves(w, {"creditOrder"}, {"mark"}) /\ SameCall(w)
         /\ Mark(w) => Moves(w, {"mark"}, {"idle"})
         /\ CreditCheckin(w) => Moves(w, {"creditCheckin"}, {"markCheckin"}) /\ SameCall(w)
         /\ MarkCheckin(w) => Moves(w, {"markCheckin"}, {"idle"})
         /\ SaveSub(w) => Moves(w, {"saveSub"}, {"idle"})
         /\ Debit(w) => Moves(w, {"debit"}, {"creditTransfer"}) /\ SameCall(w)
         /\ CreditTransfer(w) => Moves(w, {"creditTransfer"}, {"idle"})
         /\ Charge(w) => Moves(w, {"charge"}, {"idle"})
         /\ LoadInvite(w) =>
              Moves(w, {"loadInvite"}, {"idle", "saveInvite"}) /\ (At(w, "saveInvite")' => SameCall(w))
         /\ SaveInvite(w) => Moves(w, {"saveInvite"}, {"creditInvitee"}) /\ SameCall(w)
         /\ CreditInvitee(w) =>
              Moves(w, {"creditInvitee"}, {"idle", "creditInviter"}) /\ (At(w, "creditInviter")' => SameCall(w))
         /\ CreditInviter(w) => Moves(w, {"creditInviter"}, {"idle"})
<1>t. /\ \A from : \A stage \in Stages : GoTo(w, stage) /\ At(w, from) =>
           Moves(w, {from}, {stage}) /\ SameCall(w)
      /\ \A from : Return(w) /\ At(w, from) => Moves(w, {from}, {"idle"})
  BY ControlMoves
<1>1. ASSUME CreditCode(w) PROVE Moves(w, {"creditCode"}, {"idle"})
  <2>1. Return(w) /\ At(w, "creditCode")
    BY <1>1 DEF CreditCode
  <2>2. QED
    BY <1>t, <2>1, StageNames
<1>2. ASSUME SavePaid(w) PROVE Moves(w, {"pay"}, {"marker"}) /\ SameCall(w)
  <2>1. GoTo(w, "marker") /\ At(w, "pay")
    BY <1>2 DEF SavePaid
  <2>2. QED
    BY <1>t, <2>1, StageNames
<1>3. ASSUME ReadMarker(w)
      PROVE  Moves(w, {"marker"}, {"idle", "creditOrder"}) /\ (At(w, "creditOrder")' => SameCall(w))
  <2>1. (Return(w) \/ GoTo(w, "creditOrder")) /\ At(w, "marker")
    BY <1>3 DEF ReadMarker
  <2>2. CASE Return(w)
    BY <1>t, <2>1, <2>2 DEF Moves, At
  <2>3. CASE GoTo(w, "creditOrder")
    <3>1. Moves(w, {"marker"}, {"creditOrder"}) /\ SameCall(w)
      BY <1>t, <2>1, <2>3, StageNames
    <3>2. QED
      BY <3>1 DEF Moves
  <2>4. QED
    BY <2>1, <2>2, <2>3
<1>4. ASSUME CreditOrder(w) PROVE Moves(w, {"creditOrder"}, {"mark"}) /\ SameCall(w)
  <2>1. GoTo(w, "mark") /\ At(w, "creditOrder")
    BY <1>4 DEF CreditOrder
  <2>2. QED
    BY <1>t, <2>1, StageNames
<1>5. ASSUME Mark(w) PROVE Moves(w, {"mark"}, {"idle"})
  <2>1. Return(w) /\ At(w, "mark")
    BY <1>5 DEF Mark
  <2>2. QED
    BY <1>t, <2>1, StageNames
<1>6. ASSUME CreditCheckin(w) PROVE Moves(w, {"creditCheckin"}, {"markCheckin"}) /\ SameCall(w)
  <2>1. GoTo(w, "markCheckin") /\ At(w, "creditCheckin")
    BY <1>6 DEF CreditCheckin
  <2>2. QED
    BY <1>t, <2>1, StageNames
<1>7. ASSUME MarkCheckin(w) PROVE Moves(w, {"markCheckin"}, {"idle"})
  <2>1. Return(w) /\ At(w, "markCheckin")
    BY <1>7 DEF MarkCheckin
  <2>2. QED
    BY <1>t, <2>1, StageNames
<1>8. ASSUME SaveSub(w) PROVE Moves(w, {"saveSub"}, {"idle"})
  <2>1. Return(w) /\ At(w, "saveSub")
    BY <1>8 DEF SaveSub
  <2>2. QED
    BY <1>t, <2>1, StageNames
<1>9. ASSUME Debit(w) PROVE Moves(w, {"debit"}, {"creditTransfer"}) /\ SameCall(w)
  <2>1. GoTo(w, "creditTransfer") /\ At(w, "debit")
    BY <1>9 DEF Debit
  <2>2. QED
    BY <1>t, <2>1, StageNames
<1>10. ASSUME CreditTransfer(w) PROVE Moves(w, {"creditTransfer"}, {"idle"})
  <2>1. Return(w) /\ At(w, "creditTransfer")
    BY <1>10 DEF CreditTransfer
  <2>2. QED
    BY <1>t, <2>1, StageNames
<1>11. ASSUME LoadInvite(w)
      PROVE  Moves(w, {"loadInvite"}, {"idle", "saveInvite"}) /\ (At(w, "saveInvite")' => SameCall(w))
  <2>1. (Return(w) \/ GoTo(w, "saveInvite")) /\ At(w, "loadInvite")
    BY <1>11 DEF LoadInvite
  <2>2. CASE Return(w)
    BY <1>t, <2>1, <2>2 DEF Moves, At
  <2>3. CASE GoTo(w, "saveInvite")
    <3>1. Moves(w, {"loadInvite"}, {"saveInvite"}) /\ SameCall(w)
      BY <1>t, <2>1, <2>3, StageNames
    <3>2. QED
      BY <3>1 DEF Moves
  <2>4. QED
    BY <2>1, <2>2, <2>3
<1>12. ASSUME SaveInvite(w) PROVE Moves(w, {"saveInvite"}, {"creditInvitee"}) /\ SameCall(w)
  <2>1. GoTo(w, "creditInvitee") /\ At(w, "saveInvite")
    BY <1>12 DEF SaveInvite
  <2>2. QED
    BY <1>t, <2>1, StageNames
<1>13. ASSUME CreditInvitee(w)
      PROVE  Moves(w, {"creditInvitee"}, {"idle", "creditInviter"}) /\ (At(w, "creditInviter")' => SameCall(w))
  <2>1. (Return(w) \/ GoTo(w, "creditInviter")) /\ At(w, "creditInvitee")
    BY <1>13 DEF CreditInvitee
  <2>2. CASE Return(w)
    BY <1>t, <2>1, <2>2 DEF Moves, At
  <2>3. CASE GoTo(w, "creditInviter")
    <3>1. Moves(w, {"creditInvitee"}, {"creditInviter"}) /\ SameCall(w)
      BY <1>t, <2>1, <2>3, StageNames
    <3>2. QED
      BY <3>1 DEF Moves
  <2>4. QED
    BY <2>1, <2>2, <2>3
<1>14. ASSUME CreditInviter(w) PROVE Moves(w, {"creditInviter"}, {"idle"})
  <2>1. Return(w) /\ At(w, "creditInviter")
    BY <1>14 DEF CreditInviter
  <2>2. QED
    BY <1>t, <2>1, StageNames
<1>15. ASSUME Charge(w) PROVE Moves(w, {"charge"}, {"idle"})
  <2>1. Return(w) /\ At(w, "charge")
    BY <1>15 DEF Charge
  <2>2. QED
    BY <1>t, <2>1, StageNames
<1>16. QED
  BY <1>1, <1>2, <1>3, <1>4, <1>5, <1>6, <1>7, <1>8, <1>9, <1>10, <1>11, <1>12, <1>13, <1>14,
     <1>15

\* What each kind of step leaves alone, and where it leads.
LEMMA SameRises == ASSUME TypeOK, quota' = quota PROVE Rises
<1>1. quota \in [Users -> Int]
  BY DEF TypeOK
<1>2. QED
  BY <1>1 DEF Rises

LEMMA CodeStepFrame ==
  ASSUME TypeOK, NEW w \in Workers, CodeStep(w)
  PROVE  /\ UNCHANGED <<known, used, order, lastRun, todo, day, crashes>>
         /\ Credits({"code"}) /\ Rises
         /\ Moves(w, {"idle", "creditCode"}, {"idle", "creditCode"})
<1>1. ASSUME NEW u \in known, NEW c \in Codes, Redeem(w, u, c)
      PROVE  /\ UNCHANGED <<known, used, order, lastRun, todo, day, crashes>>
         /\ Credits({"code"}) /\ Rises
         /\ Moves(w, {"idle", "creditCode"}, {"idle", "creditCode"})
  <2>1. Moves(w, {"idle", "creditCode"}, {"idle", "creditCode"})
    <3>1. Moves(w, {"idle"}, {"creditCode"})
      BY <1>1, RequestMoves
    <3>2. QED
      BY <3>1, MovesWider, StageNames DEF OtherStages, OrderStages, SpendStages
  <2>2. Rises
    BY <1>1, SameRises DEF Redeem, accounts
  <2>3. Credits({"code"})
    BY <1>1 DEF Redeem, history, Credits, TypeOK
  <2>4. QED
    BY <1>1, <2>1, <2>2, <2>3
       DEF Redeem, Begin, GoTo, Return, Become, accounts, codeVars, payVars, giftVars,
           planVars, history
<1>2. ASSUME NEW u \in known, NEW c \in Codes, RedeemSaveFails(w, u, c)
      PROVE  /\ UNCHANGED <<known, used, order, lastRun, todo, day, crashes>>
         /\ Credits({"code"}) /\ Rises
         /\ Moves(w, {"idle", "creditCode"}, {"idle", "creditCode"})
  <2>1. Moves(w, {"idle", "creditCode"}, {"idle", "creditCode"})
    <3>1. Moves(w, {"idle"}, {"idle"})
      BY <1>2, RequestMoves
    <3>2. QED
      BY <3>1, MovesWider, StageNames DEF OtherStages, OrderStages, SpendStages
  <2>2. Rises
    BY <1>2, SameRises DEF RedeemSaveFails, accounts
  <2>3. Credits({"code"})
    BY <1>2 DEF RedeemSaveFails, history, Credits, TypeOK
  <2>4. QED
    BY <1>2, <2>1, <2>2, <2>3
       DEF RedeemSaveFails, Begin, GoTo, Return, Become, accounts, codeVars, payVars,
           giftVars, planVars, history
<1>3. ASSUME CreditCode(w)
      PROVE  /\ UNCHANGED <<known, used, order, lastRun, todo, day, crashes>>
         /\ Credits({"code"}) /\ Rises
         /\ Moves(w, {"idle", "creditCode"}, {"idle", "creditCode"})
  <2>1. Moves(w, {"idle", "creditCode"}, {"idle", "creditCode"})
    <3>1. Moves(w, {"creditCode"}, {"idle"})
      BY <1>3, ContinueMoves
    <3>2. QED
      BY <3>1, MovesWider, StageNames DEF OtherStages, OrderStages, SpendStages
  <2>2. Rises
    BY <1>3, Amounts, AddingRises DEF CreditCode, Credit
  <2>3. Credits({"code"})
    BY <1>3, CreditsOneKind DEF CreditCode, Credit, Credits
  <2>4. QED
    BY <1>3, <2>1, <2>2, <2>3
       DEF CreditCode, Credit, Begin, GoTo, Return, Become, accounts, codeVars, payVars,
           giftVars, planVars, history
<1>4. QED
  BY <1>1, <1>2, <1>3 DEF CodeStep

LEMMA OrderStepFrame ==
  ASSUME TypeOK, NEW w \in Workers, OrderStep(w)
  PROVE  /\ UNCHANGED <<known, used, codeVars, lastRun, todo, day, crashes>>
         /\ Credits({"order"}) /\ Rises
         /\ Moves(w, {"idle"} \union OrderStages, {"idle", "mark"} \union OrderStages)
<1>1. ASSUME NEW u \in known, NEW o \in Orders, NEW auto \in BOOLEAN, CreateOrder(w, u, o, auto)
      PROVE  /\ UNCHANGED <<known, used, codeVars, lastRun, todo, day, crashes>>
         /\ Credits({"order"}) /\ Rises
         /\ Moves(w, {"idle"} \union OrderStages, {"idle", "mark"} \union OrderStages)
  <2>1. Moves(w, {"idle"} \union OrderStages, {"idle", "mark"} \union OrderStages)
    <3>1. Moves(w, {"idle"}, {IF auto THEN "marker" ELSE "idle"})
      BY <1>1, RequestMoves
    <3>2. QED
      BY <3>1, MovesWider, StageNames DEF OtherStages, OrderStages, SpendStages
  <2>2. Rises
    BY <1>1, SameRises DEF CreateOrder, accounts
  <2>3. Credits({"order"})
    BY <1>1 DEF CreateOrder, history, Credits, TypeOK
  <2>4. QED
    BY <1>1, <2>1, <2>2, <2>3
       DEF CreateOrder, Begin, GoTo, Return, Become, accounts, codeVars, payVars, giftVars,
           planVars, history
<1>2. ASSUME NEW o \in Orders, PayCallback(w, o)
      PROVE  /\ UNCHANGED <<known, used, codeVars, lastRun, todo, day, crashes>>
         /\ Credits({"order"}) /\ Rises
         /\ Moves(w, {"idle"} \union OrderStages, {"idle", "mark"} \union OrderStages)
  <2>1. Moves(w, {"idle"} \union OrderStages, {"idle", "mark"} \union OrderStages)
    <3>1. Moves(w, {"idle"}, {"pay"})
      BY <1>2, RequestMoves
    <3>2. QED
      BY <3>1, MovesWider, StageNames DEF OtherStages, OrderStages, SpendStages
  <2>2. Rises
    BY <1>2, SameRises DEF PayCallback, accounts
  <2>3. Credits({"order"})
    BY <1>2 DEF PayCallback, history, Credits, TypeOK
  <2>4. QED
    BY <1>2, <2>1, <2>2, <2>3
       DEF PayCallback, Begin, GoTo, Return, Become, accounts, codeVars, payVars, giftVars,
           planVars, history
<1>3. ASSUME SavePaid(w)
      PROVE  /\ UNCHANGED <<known, used, codeVars, lastRun, todo, day, crashes>>
         /\ Credits({"order"}) /\ Rises
         /\ Moves(w, {"idle"} \union OrderStages, {"idle", "mark"} \union OrderStages)
  <2>1. Moves(w, {"idle"} \union OrderStages, {"idle", "mark"} \union OrderStages)
    <3>1. Moves(w, {"pay"}, {"marker"})
      BY <1>3, ContinueMoves
    <3>2. QED
      BY <3>1, MovesWider, StageNames DEF OtherStages, OrderStages, SpendStages
  <2>2. Rises
    BY <1>3, SameRises DEF SavePaid, accounts
  <2>3. Credits({"order"})
    BY <1>3 DEF SavePaid, history, Credits, TypeOK
  <2>4. QED
    BY <1>3, <2>1, <2>2, <2>3
       DEF SavePaid, Begin, GoTo, Return, Become, accounts, codeVars, payVars, giftVars,
           planVars, history
<1>4. ASSUME ReadMarker(w)
      PROVE  /\ UNCHANGED <<known, used, codeVars, lastRun, todo, day, crashes>>
         /\ Credits({"order"}) /\ Rises
         /\ Moves(w, {"idle"} \union OrderStages, {"idle", "mark"} \union OrderStages)
  <2>1. Moves(w, {"idle"} \union OrderStages, {"idle", "mark"} \union OrderStages)
    <3>1. Moves(w, {"marker"}, {"idle", "creditOrder"})
      BY <1>4, ContinueMoves
    <3>2. QED
      BY <3>1, MovesWider, StageNames DEF OtherStages, OrderStages, SpendStages
  <2>2. Rises
    BY <1>4, SameRises DEF ReadMarker, accounts
  <2>3. Credits({"order"})
    BY <1>4 DEF ReadMarker, history, Credits, TypeOK
  <2>4. QED
    BY <1>4, <2>1, <2>2, <2>3
       DEF ReadMarker, Begin, GoTo, Return, Become, accounts, codeVars, payVars, giftVars,
           planVars, history
<1>5. ASSUME CreditOrder(w)
      PROVE  /\ UNCHANGED <<known, used, codeVars, lastRun, todo, day, crashes>>
         /\ Credits({"order"}) /\ Rises
         /\ Moves(w, {"idle"} \union OrderStages, {"idle", "mark"} \union OrderStages)
  <2>1. Moves(w, {"idle"} \union OrderStages, {"idle", "mark"} \union OrderStages)
    <3>1. Moves(w, {"creditOrder"}, {"mark"})
      BY <1>5, ContinueMoves
    <3>2. QED
      BY <3>1, MovesWider, StageNames DEF OtherStages, OrderStages, SpendStages
  <2>2. Rises
    BY <1>5, Amounts, AddingRises DEF CreditOrder, Credit
  <2>3. Credits({"order"})
    BY <1>5, CreditsOneKind DEF CreditOrder, Credit, Credits
  <2>4. QED
    BY <1>5, <2>1, <2>2, <2>3
       DEF CreditOrder, Credit, Begin, GoTo, Return, Become, accounts, codeVars, payVars,
           giftVars, planVars, history
<1>6. QED
  BY <1>1, <1>2, <1>3, <1>4, <1>5 DEF OrderStep

LEMMA SpendStepFrame ==
  ASSUME TypeOK, NEW w \in Workers, SpendStep(w)
  PROVE  /\ UNCHANGED <<known, codeVars, order, lastRun, todo, day, crashes>>
         /\ Credits({}) /\ Rises
         /\ Moves(w, {"idle"} \union SpendStages, {"idle"} \union SpendStages)
<1>1. ASSUME NEW u \in Users, NEW v \in Users, Transfer(w, u, v)
      PROVE  /\ UNCHANGED <<known, codeVars, order, lastRun, todo, day, crashes>>
         /\ Credits({}) /\ Rises
         /\ Moves(w, {"idle"} \union SpendStages, {"idle"} \union SpendStages)
  <2>1. Moves(w, {"idle"} \union SpendStages, {"idle"} \union SpendStages)
    <3>1. Moves(w, {"idle"}, {"debit"})
      BY <1>1, RequestMoves
    <3>2. QED
      BY <3>1, MovesWider, StageNames DEF OtherStages, OrderStages, SpendStages
  <2>2. Rises
    BY <1>1, SameRises DEF Transfer, accounts
  <2>3. Credits({})
    BY <1>1 DEF Transfer, history, Credits, TypeOK
  <2>4. QED
    BY <1>1, <2>1, <2>2, <2>3
       DEF Transfer, Begin, GoTo, Return, Become, accounts, codeVars, payVars, giftVars,
           planVars, history
<1>2. ASSUME Debit(w)
      PROVE  /\ UNCHANGED <<known, codeVars, order, lastRun, todo, day, crashes>>
         /\ Credits({}) /\ Rises
         /\ Moves(w, {"idle"} \union SpendStages, {"idle"} \union SpendStages)
  <2>1. Moves(w, {"idle"} \union SpendStages, {"idle"} \union SpendStages)
    <3>1. Moves(w, {"debit"}, {"creditTransfer"})
      BY <1>2, ContinueMoves
    <3>2. QED
      BY <3>1, MovesWider, StageNames DEF OtherStages, OrderStages, SpendStages
  <2>2. Rises
    BY <1>2, SameRises DEF Debit, accounts
  <2>3. Credits({})
    BY <1>2 DEF Debit, history, Credits, TypeOK
  <2>4. QED
    BY <1>2, <2>1, <2>2, <2>3
       DEF Debit, Begin, GoTo, Return, Become, accounts, codeVars, payVars, giftVars,
           planVars, history
<1>3. ASSUME CreditTransfer(w)
      PROVE  /\ UNCHANGED <<known, codeVars, order, lastRun, todo, day, crashes>>
         /\ Credits({}) /\ Rises
         /\ Moves(w, {"idle"} \union SpendStages, {"idle"} \union SpendStages)
  <2>1. Moves(w, {"idle"} \union SpendStages, {"idle"} \union SpendStages)
    <3>1. Moves(w, {"creditTransfer"}, {"idle"})
      BY <1>3, ContinueMoves
    <3>2. QED
      BY <3>1, MovesWider, StageNames DEF OtherStages, OrderStages, SpendStages
  <2>2. Rises
    BY <1>3, Amounts, AddingRises DEF CreditTransfer, Credit
  <2>3. Credits({})
    BY <1>3 DEF CreditTransfer, history, Credits, TypeOK
  <2>4. QED
    BY <1>3, <2>1, <2>2, <2>3
       DEF CreditTransfer, Begin, GoTo, Return, Become, accounts, codeVars, payVars,
           giftVars, planVars, history
<1>4. ASSUME NEW u \in Users, Relay(w, u)
      PROVE  /\ UNCHANGED <<known, codeVars, order, lastRun, todo, day, crashes>>
         /\ Credits({}) /\ Rises
         /\ Moves(w, {"idle"} \union SpendStages, {"idle"} \union SpendStages)
  <2>1. Moves(w, {"idle"} \union SpendStages, {"idle"} \union SpendStages)
    <3>1. Moves(w, {"idle"}, {"charge"})
      BY <1>4, RequestMoves
    <3>2. QED
      BY <3>1, MovesWider, StageNames DEF OtherStages, OrderStages, SpendStages
  <2>2. Rises
    BY <1>4, SameRises DEF Relay, accounts
  <2>3. Credits({})
    BY <1>4 DEF Relay, history, Credits, TypeOK
  <2>4. QED
    BY <1>4, <2>1, <2>2, <2>3
       DEF Relay, Begin, accounts, codeVars, payVars, giftVars, planVars, history
<1>5. ASSUME Charge(w)
      PROVE  /\ UNCHANGED <<known, codeVars, order, lastRun, todo, day, crashes>>
         /\ Credits({}) /\ Rises
         /\ Moves(w, {"idle"} \union SpendStages, {"idle"} \union SpendStages)
  <2>1. Moves(w, {"idle"} \union SpendStages, {"idle"} \union SpendStages)
    <3>1. Moves(w, {"charge"}, {"idle"})
      BY <1>5, ContinueMoves
    <3>2. QED
      BY <3>1, MovesWider, StageNames DEF OtherStages, OrderStages, SpendStages
  <2>2. Rises
    BY <1>5, SameRises DEF Charge
  <2>3. Credits({})
    BY <1>5 DEF Charge, Credits
  <2>4. QED
    BY <1>5, <2>1, <2>2, <2>3
       DEF Charge, Return, Become, codeVars, payVars, giftVars, planVars
<1>6. QED
  BY <1>1, <1>2, <1>3, <1>4, <1>5 DEF SpendStep

LEMMA OtherStepFrame ==
  ASSUME TypeOK, NEW w \in Workers, OtherStep(w)
  PROVE  /\ UNCHANGED <<known, used, codeVars, order, lastRun, todo, day, crashes>>
         /\ Credits({"checkin", "invite"}) /\ Rises
         /\ Moves(w, OtherStages, OtherStages)
<1>1. ASSUME NEW u \in Users, Checkin(w, u)
      PROVE  /\ UNCHANGED <<known, used, codeVars, order, lastRun, todo, day, crashes>>
         /\ Credits({"checkin", "invite"}) /\ Rises
         /\ Moves(w, OtherStages, OtherStages)
  <2>1. Moves(w, OtherStages, OtherStages)
    <3>1. Moves(w, {"idle"}, {"creditCheckin"})
      BY <1>1, RequestMoves
    <3>2. QED
      BY <3>1, MovesWider, StageNames DEF OtherStages, OrderStages, SpendStages
  <2>2. Rises
    BY <1>1, SameRises DEF Checkin, accounts
  <2>3. Credits({"checkin", "invite"})
    BY <1>1 DEF Checkin, history, Credits, TypeOK
  <2>4. QED
    BY <1>1, <2>1, <2>2, <2>3
       DEF Checkin, Begin, GoTo, Return, Become, accounts, codeVars, payVars, giftVars,
           planVars, history
<1>2. ASSUME NEW u \in Users, Subscribe(w, u)
      PROVE  /\ UNCHANGED <<known, used, codeVars, order, lastRun, todo, day, crashes>>
         /\ Credits({"checkin", "invite"}) /\ Rises
         /\ Moves(w, OtherStages, OtherStages)
  <2>1. Moves(w, OtherStages, OtherStages)
    <3>1. Moves(w, {"idle"}, {"saveSub"})
      BY <1>2, RequestMoves
    <3>2. QED
      BY <3>1, MovesWider, StageNames DEF OtherStages, OrderStages, SpendStages
  <2>2. Rises
    BY <1>2, Amounts, AddingRises DEF Subscribe, Credit
  <2>3. Credits({"checkin", "invite"})
    BY <1>2 DEF Subscribe, history, Credits, TypeOK
  <2>4. QED
    BY <1>2, <2>1, <2>2, <2>3
       DEF Subscribe, Begin, GoTo, Return, Become, accounts, codeVars, payVars, giftVars,
           planVars, history
<1>3. ASSUME Mark(w)
      PROVE  /\ UNCHANGED <<known, used, codeVars, order, lastRun, todo, day, crashes>>
         /\ Credits({"checkin", "invite"}) /\ Rises
         /\ Moves(w, OtherStages, OtherStages)
  <2>1. Moves(w, OtherStages, OtherStages)
    <3>1. Moves(w, {"mark"}, {"idle"})
      BY <1>3, ContinueMoves
    <3>2. QED
      BY <3>1, MovesWider, StageNames DEF OtherStages, OrderStages, SpendStages
  <2>2. Rises
    BY <1>3, SameRises DEF Mark, accounts
  <2>3. Credits({"checkin", "invite"})
    BY <1>3 DEF Mark, history, Credits, TypeOK
  <2>4. QED
    BY <1>3, <2>1, <2>2, <2>3
       DEF Mark, Begin, GoTo, Return, Become, accounts, codeVars, payVars, giftVars,
           planVars, history
<1>4. ASSUME CreditCheckin(w)
      PROVE  /\ UNCHANGED <<known, used, codeVars, order, lastRun, todo, day, crashes>>
         /\ Credits({"checkin", "invite"}) /\ Rises
         /\ Moves(w, OtherStages, OtherStages)
  <2>1. Moves(w, OtherStages, OtherStages)
    <3>1. Moves(w, {"creditCheckin"}, {"markCheckin"})
      BY <1>4, ContinueMoves
    <3>2. QED
      BY <3>1, MovesWider, StageNames DEF OtherStages, OrderStages, SpendStages
  <2>2. Rises
    BY <1>4, Amounts, AddingRises DEF CreditCheckin, Credit
  <2>3. Credits({"checkin", "invite"})
    BY <1>4 DEF CreditCheckin, history, Credits, TypeOK
  <2>4. QED
    BY <1>4, <2>1, <2>2, <2>3
       DEF CreditCheckin, Begin, GoTo, Return, Become, accounts, codeVars, payVars, giftVars,
           planVars, history
<1>5. ASSUME MarkCheckin(w)
      PROVE  /\ UNCHANGED <<known, used, codeVars, order, lastRun, todo, day, crashes>>
         /\ Credits({"checkin", "invite"}) /\ Rises
         /\ Moves(w, OtherStages, OtherStages)
  <2>1. Moves(w, OtherStages, OtherStages)
    <3>1. Moves(w, {"markCheckin"}, {"idle"})
      BY <1>5, ContinueMoves
    <3>2. QED
      BY <3>1, MovesWider, StageNames DEF OtherStages, OrderStages, SpendStages
  <2>2. Rises
    BY <1>5, SameRises DEF MarkCheckin, accounts
  <2>3. Credits({"checkin", "invite"})
    BY <1>5 DEF MarkCheckin, history, Credits, TypeOK
  <2>4. QED
    BY <1>5, <2>1, <2>2, <2>3
       DEF MarkCheckin, Begin, GoTo, Return, Become, accounts, codeVars, payVars, giftVars,
           planVars, history
<1>6. ASSUME SaveSub(w)
      PROVE  /\ UNCHANGED <<known, used, codeVars, order, lastRun, todo, day, crashes>>
         /\ Credits({"checkin", "invite"}) /\ Rises
         /\ Moves(w, OtherStages, OtherStages)
  <2>1. Moves(w, OtherStages, OtherStages)
    <3>1. Moves(w, {"saveSub"}, {"idle"})
      BY <1>6, ContinueMoves
    <3>2. QED
      BY <3>1, MovesWider, StageNames DEF OtherStages, OrderStages, SpendStages
  <2>2. Rises
    BY <1>6, SameRises DEF SaveSub, accounts
  <2>3. Credits({"checkin", "invite"})
    BY <1>6 DEF SaveSub, history, Credits, TypeOK
  <2>4. QED
    BY <1>6, <2>1, <2>2, <2>3
       DEF SaveSub, Begin, GoTo, Return, Become, accounts, codeVars, payVars, giftVars,
           planVars, history
<1>7. ASSUME LoadInvite(w)
      PROVE  /\ UNCHANGED <<known, used, codeVars, order, lastRun, todo, day, crashes>>
         /\ Credits({"checkin", "invite"}) /\ Rises
         /\ Moves(w, OtherStages, OtherStages)
  <2>1. Moves(w, OtherStages, OtherStages)
    <3>1. Moves(w, {"loadInvite"}, {"idle", "saveInvite"})
      BY <1>7, ContinueMoves
    <3>2. QED
      BY <3>1, MovesWider, StageNames DEF OtherStages, OrderStages, SpendStages
  <2>2. Rises
    BY <1>7, SameRises DEF LoadInvite, accounts
  <2>3. Credits({"checkin", "invite"})
    BY <1>7 DEF LoadInvite, history, Credits, TypeOK
  <2>4. QED
    BY <1>7, <2>1, <2>2, <2>3
       DEF LoadInvite, Begin, GoTo, Return, Become, accounts, codeVars, payVars, giftVars,
           planVars, history
<1>8. ASSUME SaveInvite(w)
      PROVE  /\ UNCHANGED <<known, used, codeVars, order, lastRun, todo, day, crashes>>
         /\ Credits({"checkin", "invite"}) /\ Rises
         /\ Moves(w, OtherStages, OtherStages)
  <2>1. Moves(w, OtherStages, OtherStages)
    <3>1. Moves(w, {"saveInvite"}, {"creditInvitee"})
      BY <1>8, ContinueMoves
    <3>2. QED
      BY <3>1, MovesWider, StageNames DEF OtherStages, OrderStages, SpendStages
  <2>2. Rises
    BY <1>8, SameRises DEF SaveInvite, accounts
  <2>3. Credits({"checkin", "invite"})
    BY <1>8 DEF SaveInvite, history, Credits, TypeOK
  <2>4. QED
    BY <1>8, <2>1, <2>2, <2>3
       DEF SaveInvite, Begin, GoTo, Return, Become, accounts, codeVars, payVars, giftVars,
           planVars, history
<1>9. ASSUME CreditInvitee(w)
      PROVE  /\ UNCHANGED <<known, used, codeVars, order, lastRun, todo, day, crashes>>
         /\ Credits({"checkin", "invite"}) /\ Rises
         /\ Moves(w, OtherStages, OtherStages)
  <2>1. Moves(w, OtherStages, OtherStages)
    <3>1. Moves(w, {"creditInvitee"}, {"idle", "creditInviter"})
      BY <1>9, ContinueMoves
    <3>2. QED
      BY <3>1, MovesWider, StageNames DEF OtherStages, OrderStages, SpendStages
  <2>2. Rises
    BY <1>9, Amounts, AddingRises DEF CreditInvitee, Credit
  <2>3. Credits({"checkin", "invite"})
    BY <1>9, CreditsOneKind DEF CreditInvitee, Credit, Credits
  <2>4. QED
    BY <1>9, <2>1, <2>2, <2>3
       DEF CreditInvitee, Credit, Begin, GoTo, Return, Become, accounts, codeVars, payVars,
           giftVars, planVars, history
<1>10. ASSUME CreditInviter(w)
      PROVE  /\ UNCHANGED <<known, used, codeVars, order, lastRun, todo, day, crashes>>
         /\ Credits({"checkin", "invite"}) /\ Rises
         /\ Moves(w, OtherStages, OtherStages)
  <2>1. Moves(w, OtherStages, OtherStages)
    <3>1. Moves(w, {"creditInviter"}, {"idle"})
      BY <1>10, ContinueMoves
    <3>2. QED
      BY <3>1, MovesWider, StageNames DEF OtherStages, OrderStages, SpendStages
  <2>2. Rises
    BY <1>10, Amounts, AddingRises DEF CreditInviter, Credit
  <2>3. Credits({"checkin", "invite"})
    BY <1>10 DEF CreditInviter, history, Credits, TypeOK
  <2>4. QED
    BY <1>10, <2>1, <2>2, <2>3
       DEF CreditInviter, Begin, GoTo, Return, Become, accounts, codeVars, payVars, giftVars,
           planVars, history
<1>11. QED
  BY <1>1, <1>2, <1>3, <1>4, <1>5, <1>6, <1>7, <1>8, <1>9, <1>10 DEF OtherStep


\* The goroutines at these stages are not disturbed.
Undisturbed(S) ==
  \A v \in Workers : /\ task'[v].stage \in S <=> task[v].stage \in S
                     /\ task[v].stage \in S => task'[v] = task[v]

LEMMA MovesUndisturbed ==
  ASSUME NEW w, NEW from, NEW to, NEW S, Moves(w, from, to), S \intersect (from \union to) = {}
  PROVE  Undisturbed(S)
BY DEF Moves, Undisturbed

LEMMA RegisterStepFrame ==
  ASSUME TypeOK, NEW w \in Workers, RegisterStep(w)
  PROVE  /\ UNCHANGED <<used, codeVars, order, lastRun, todo, day, crashes, credits>>
         /\ Moves(w, OtherStages, OtherStages)
<1>1. PICK u \in Users, i \in Invites \union {NoItem} : Register(w, u, i)
  BY DEF RegisterStep
<1>2. Moves(w, {"idle"}, {"idle", "loadInvite"})
  BY <1>1, RequestMoves
<1>3. Moves(w, OtherStages, OtherStages)
  BY <1>2, MovesWider, StageNames DEF OtherStages, OrderStages, SpendStages
<1>4. QED
  BY <1>1, <1>3 DEF Register, Begin, codeVars, payVars, giftVars, planVars

\* The steps that are not a goroutine's.
OutsideStep ==
  \/ \E c \in Codes : CreateCode(c) \/ CreateCodeSaveFails(c)
  \/ \E u \in Users : Grant(u) \/ (\E n \in Adjustments : Adjust(u, n))
  \/ RunDailyTasks \/ NextDay

LEMMA StepKinds ==
  ASSUME [Next]_vars
  PROVE  \/ \E w \in Workers : CodeStep(w) \/ OrderStep(w) \/ SpendStep(w) \/ RegisterStep(w)
                               \/ OtherStep(w)
         \/ OutsideStep \/ Crash \/ UNCHANGED vars
BY DEF Next, Request, Continue, CodeStep, OrderStep, SpendStep, RegisterStep, OtherStep,
       OutsideStep

LEMMA OutsideStepFrame ==
  ASSUME TypeOK, OutsideStep
  PROVE  /\ UNCHANGED <<known, used, order, task, crashes>>
         /\ Credits({"grant", "lowered", "checkin"})
         /\ \A S : Undisturbed(S)
<1>t. task' = task => \A S : Undisturbed(S)
  BY DEF Undisturbed
<1>1. ASSUME NEW c \in Codes, CreateCode(c) \/ CreateCodeSaveFails(c)
      PROVE  /\ UNCHANGED <<known, used, order, task, crashes>>
             /\ Credits({"grant", "lowered", "checkin"})
  BY <1>1 DEF CreateCode, CreateCodeSaveFails, accounts, payVars, history, Credits
<1>2. ASSUME NEW u \in Users, Grant(u)
      PROVE  /\ UNCHANGED <<known, used, order, task, crashes>>
             /\ Credits({"grant", "lowered", "checkin"})
  BY <1>2 DEF Grant, payVars, Credits, TypeOK
<1>3. ASSUME NEW u \in Users, NEW n \in Adjustments, Adjust(u, n)
      PROVE  /\ UNCHANGED <<known, used, order, task, crashes>>
             /\ Credits({"grant", "lowered", "checkin"})
  BY <1>3 DEF Adjust, payVars, Credits, TypeOK
<1>4. ASSUME RunDailyTasks
      PROVE  /\ UNCHANGED <<known, used, order, task, crashes>>
             /\ Credits({"grant", "lowered", "checkin"})
  BY <1>4 DEF RunDailyTasks, accounts, payVars, history, Credits
<1>5. ASSUME NextDay
      PROVE  /\ UNCHANGED <<known, used, order, task, crashes>>
             /\ Credits({"grant", "lowered", "checkin"})
  BY <1>5 DEF NextDay, accounts, payVars, Credits
<1>6. QED
  BY <1>t, <1>1, <1>2, <1>3, <1>4, <1>5 DEF OutsideStep

-------------------------------------------------------------------------------
(* Redemption codes                                                        *)

LEMMA CodesFrame ==
  ASSUME TypeOK, CodesTaken, NEW K, Credits(K), "code" \notin K, Undisturbed({"creditCode"}),
         \A c \in Codes : /\ codeMem[c] = "used" => codeMem'[c] = "used"
                          /\ codeDisk[c] = "used" => codeDisk'[c] = "used"
  PROVE  CodesTaken'
<1>1. \A c \in Codes : credits'[<<"code", c>>] = credits[<<"code", c>>]
  BY SourceNames DEF Credits
<1>2. \A c \in Codes : Redeeming(c)' = Redeeming(c)
  BY DEF Undisturbed, Redeeming, At
<1>3. \A v \in Workers : At(v, "creditCode")' <=> At(v, "creditCode")
  BY DEF Undisturbed, At
<1>4. QED
  BY <1>1, <1>2, <1>3 DEF CodesTaken

LEMMA CodesStep ==
  ASSUME TypeOK, CodesTaken, [Next]_vars
  PROVE  CodesTaken'
<1>t. /\ codeMem \in [Codes -> {"absent", "unused", "used"}]
      /\ codeDisk \in [Codes -> {"absent", "unused", "used"}]
      /\ credits \in [Sources -> Nat]
      /\ \A c \in Codes : <<"code", c>> \in Sources
  BY SourceNames DEF TypeOK
<1>1. ASSUME NEW w \in Workers, NEW u \in known, NEW c \in Codes, Redeem(w, u, c)
      PROVE  CodesTaken'
  <2>1. Moves(w, {"idle"}, {"creditCode"}) /\ task'[w].item = c
    BY <1>1, RequestMoves
  <2>2. /\ \A v \in Workers : ~At(v, "creditCode") /\ (At(v, "creditCode")' <=> v = w)
        /\ \A d \in Codes : Redeeming(d)' = IF d = c THEN {w} ELSE {}
    BY <1>1, <2>1 DEF Redeem, RedeemLocked, Moves, At, Redeeming
  <2>3. /\ \A d \in Codes : codeMem'[d] = IF d = c THEN "used" ELSE codeMem[d]
        /\ codeDisk' = codeMem' /\ credits' = credits /\ codeMem[c] = "unused"
    BY <1>t, <1>1 DEF Redeem, history
  <2>4. credits[<<"code", c>>] = 0
    BY <1>t, <2>3 DEF CodesTaken
  <2>5. QED
    BY <2>2, <2>3, <2>4 DEF CodesTaken
<1>2. ASSUME NEW w \in Workers, NEW u \in known, NEW c \in Codes, RedeemSaveFails(w, u, c)
      PROVE  CodesTaken'
  <2>1. Moves(w, {"idle"}, {"idle"})
    BY <1>2, RequestMoves
  <2>2. Undisturbed({"creditCode"})
    BY <2>1, MovesUndisturbed
  <2>3. Credits({})
    BY <1>2 DEF RedeemSaveFails, history, Credits
  <2>4. QED
    BY <1>t, <1>2, <2>2, <2>3, CodesFrame DEF RedeemSaveFails
<1>3. ASSUME NEW w \in Workers, CreditCode(w) PROVE CodesTaken'
  <2>1. Moves(w, {"creditCode"}, {"idle"})
    BY <1>3, ContinueMoves
  <2>2. /\ \A v \in Workers : ~At(v, "creditCode")'
        /\ \A d \in Codes : Redeeming(d)' = {}
    BY <2>1 DEF Moves, At, Redeeming, CodesTaken
  <2> DEFINE c == task[w].item
  <2>3. UNCHANGED codeVars /\ credits' = [credits EXCEPT ![<<"code", c>>] = @ + 1]
    BY <1>3 DEF CreditCode, Credit
  <2>4. \A d \in Codes : /\ credits'[<<"code", d>>] =
                              IF d = c THEN credits[<<"code", d>>] + 1
                                       ELSE credits[<<"code", d>>]
                         /\ d = c => w \in Redeeming(d)
    BY <1>t, <1>3, <2>3 DEF CreditCode, Redeeming
  <2> HIDE DEF c
  <2>5. QED
    BY <1>t, <2>2, <2>3, <2>4 DEF CodesTaken, codeVars
<1>4. ASSUME NEW w \in Workers,
             OrderStep(w) \/ SpendStep(w) \/ RegisterStep(w) \/ OtherStep(w)
      PROVE  CodesTaken'
  <2>1. CASE OrderStep(w)
    <3>1. Undisturbed({"creditCode"})
      BY <2>1, OrderStepFrame, MovesUndisturbed DEF OrderStages
    <3>2. QED
      BY <2>1, <3>1, OrderStepFrame, CodesFrame DEF codeVars
  <2>2. CASE SpendStep(w)
    <3>1. Undisturbed({"creditCode"})
      BY <2>2, SpendStepFrame, MovesUndisturbed DEF SpendStages
    <3>2. QED
      BY <2>2, <3>1, SpendStepFrame, CodesFrame DEF codeVars
  <2>3. CASE RegisterStep(w)
    <3>1. Undisturbed({"creditCode"})
      BY <2>3, RegisterStepFrame, MovesUndisturbed DEF OtherStages
    <3>2. Credits({})
      BY <2>3, RegisterStepFrame DEF Credits
    <3>3. QED
      BY <2>3, <3>1, <3>2, RegisterStepFrame, CodesFrame DEF codeVars
  <2>4. CASE OtherStep(w)
    <3>1. Undisturbed({"creditCode"})
      BY <2>4, OtherStepFrame, MovesUndisturbed DEF OtherStages
    <3>2. QED
      BY <2>4, <3>1, OtherStepFrame, CodesFrame DEF codeVars
  <2>5. QED
    BY <1>4, <2>1, <2>2, <2>3, <2>4
<1>5. ASSUME OutsideStep PROVE CodesTaken'
  <2>1. CASE \E c \in Codes : CreateCode(c)
    <3>1. PICK c \in Codes : CreateCode(c)
      BY <2>1
    <3>2. /\ \A d \in Codes : codeMem'[d] = IF d = c THEN "unused" ELSE codeMem[d]
          /\ codeDisk' = codeMem' /\ codeMem[c] = "absent"
          /\ credits' = credits /\ task' = task
      BY <1>t, <3>1 DEF CreateCode, history
    <3>3. \A d \in Codes : codeMem[d] = "used" => codeMem'[d] = "used" /\ codeDisk'[d] = "used"
      BY <3>2
    <3>4. QED
      BY <3>2, <3>3 DEF CodesTaken, Redeeming, At
  <2>2. CASE ~ \E c \in Codes : CreateCode(c)
    <3>1. \A c \in Codes : /\ codeMem[c] = "used" => codeMem'[c] = "used"
                           /\ codeDisk[c] = "used" => codeDisk'[c] = "used"
      BY <1>t, <1>5, <2>2 DEF OutsideStep, CreateCodeSaveFails, Grant, Adjust, RunDailyTasks,
                              NextDay, codeVars
    <3>2. QED
      BY <1>5, <3>1, OutsideStepFrame, CodesFrame
  <2>3. QED
    BY <2>1, <2>2
<1>6. ASSUME Crash PROVE CodesTaken'
  <2>1. /\ \A v \in Workers : ~At(v, "creditCode")'
        /\ \A d \in Codes : Redeeming(d)' = {}
    BY <1>6 DEF Crash, At, Idle, Redeeming
  <2>2. codeMem' = codeDisk /\ codeDisk' = codeDisk /\ credits' = credits
    BY <1>6 DEF Crash
  <2>3. QED
    BY <2>1, <2>2 DEF CodesTaken
<1>7. CASE UNCHANGED vars
  BY <1>7 DEF vars, CodesTaken, Redeeming, At
<1>8. QED
  BY <1>1, <1>2, <1>3, <1>4, <1>5, <1>6, <1>7, StepKinds DEF CodeStep

-------------------------------------------------------------------------------
(* The daily grant                                                         *)

LEMMA GrantsFrame ==
  ASSUME GrantsCounted, UNCHANGED <<lastRun, todo, day, crashes>>,
         NEW K, Credits(K), "grant" \notin K
  PROVE  GrantsCounted'
<1>1. \A u \in Users : credits'[<<"grant", u>>] = credits[<<"grant", u>>]
  BY SourceNames DEF Credits
<1>2. QED
  BY <1>1 DEF GrantsCounted

LEMMA GrantsStep ==
  ASSUME TypeOK, GrantsCounted, [Next]_vars
  PROVE  GrantsCounted'
<1>t. /\ credits \in [Sources -> Nat] /\ crashes \in Nat
      /\ \A u \in Users : <<"grant", u>> \in Sources /\ credits[<<"grant", u>>] \in Nat
  <2>1. credits \in [Sources -> Nat] /\ crashes \in Nat
    BY Amounts DEF TypeOK
  <2>2. QED
    BY <2>1, SourceNames
<1>1. ASSUME NEW w \in Workers, CodeStep(w) \/ OrderStep(w) \/ SpendStep(w) \/ OtherStep(w)
      PROVE  GrantsCounted'
  BY <1>1, CodeStepFrame, OrderStepFrame, SpendStepFrame, OtherStepFrame, GrantsFrame
<1>2. ASSUME NEW w \in Workers, RegisterStep(w) PROVE GrantsCounted'
  <2>1. Credits({})
    BY <1>2, RegisterStepFrame DEF Credits
  <2>2. QED
    BY <1>2, <2>1, RegisterStepFrame, GrantsFrame
<1>3. ASSUME NEW c \in Codes, CreateCode(c) \/ CreateCodeSaveFails(c) PROVE GrantsCounted'
  <2>1. UNCHANGED <<lastRun, todo, day, crashes>> /\ Credits({})
    BY <1>3 DEF CreateCode, CreateCodeSaveFails, planVars, history, Credits
  <2>2. QED
    BY <2>1, GrantsFrame
<1>4. ASSUME NEW u \in Users, Grant(u) PROVE GrantsCounted'
  <2>1. /\ \A v \in Users : credits'[<<"grant", v>>] =
                              IF v = u /\ lastRun = day THEN credits[<<"grant", v>>] + 1
                                                        ELSE credits[<<"grant", v>>]
        /\ u \in todo /\ todo' = todo \ {u} /\ UNCHANGED <<lastRun, day, crashes>>
    BY <1>t, <1>4 DEF Grant
  <2>2. ASSUME NEW v \in Users
        PROVE  /\ credits'[<<"grant", v>>] <= 1 + crashes'
               /\ lastRun' # day' \/ v \in todo' => credits'[<<"grant", v>>] <= crashes'
    <3>1. /\ credits[<<"grant", v>>] <= 1 + crashes /\ credits[<<"grant", v>>] \in Nat
          /\ lastRun # day \/ v \in todo => credits[<<"grant", v>>] <= crashes
      BY <1>t DEF GrantsCounted
    <3>2. QED
      BY <1>t, <2>1, <3>1
  <2>3. QED
    BY <2>2 DEF GrantsCounted
<1>5. ASSUME NEW u \in Users, NEW n \in Adjustments, Adjust(u, n) PROVE GrantsCounted'
  <2>1. UNCHANGED <<lastRun, todo, day, crashes>> /\ Credits({"lowered"})
    BY <1>5 DEF Adjust, planVars, Credits, TypeOK
  <2>2. QED
    BY <2>1, GrantsFrame
<1>6. ASSUME RunDailyTasks PROVE GrantsCounted'
  <2>1. lastRun # day /\ UNCHANGED <<credits, crashes, day>>
    BY <1>6 DEF RunDailyTasks, history
  <2>2. \A u \in Users : credits[<<"grant", u>>] <= crashes
    BY <2>1 DEF GrantsCounted
  <2>3. QED
    BY <1>t, <2>1, <2>2 DEF GrantsCounted
<1>7. ASSUME NextDay PROVE GrantsCounted'
  <2>1. crashes' = crashes /\ \A u \in Users : credits'[<<"grant", u>>] = 0
    BY <1>t, <1>7 DEF NextDay
  <2>2. ASSUME NEW u \in Users
        PROVE  credits'[<<"grant", u>>] <= 1 + crashes' /\ credits'[<<"grant", u>>] <= crashes'
    <3>1. credits'[<<"grant", u>>] = 0
      BY <2>1
    <3>2. QED
      BY <1>t, <2>1, <3>1
  <2>3. QED
    BY <2>2 DEF GrantsCounted
<1>8. ASSUME Crash PROVE GrantsCounted'
  <2>1. crashes' = crashes + 1 /\ credits' = credits
    BY <1>8 DEF Crash
  <2>2. ASSUME NEW u \in Users
        PROVE  credits'[<<"grant", u>>] <= 1 + crashes' /\ credits'[<<"grant", u>>] <= crashes'
    <3>1. credits[<<"grant", u>>] <= 1 + crashes /\ credits[<<"grant", u>>] \in Nat
      BY <1>t DEF GrantsCounted
    <3>2. QED
      BY <1>t, <2>1, <3>1
  <2>3. QED
    BY <2>2 DEF GrantsCounted
<1>9. CASE UNCHANGED vars
  BY <1>9 DEF vars, GrantsCounted
<1>10. QED
  BY <1>1, <1>2, <1>3, <1>4, <1>5, <1>6, <1>7, <1>8, <1>9, StepKinds DEF OutsideStep

-------------------------------------------------------------------------------
(* Payment orders                                                          *)

LEMMA Crew ==
  /\ IsFiniteSet(Workers) /\ Cardinality(Workers) \in Nat /\ Cardinality(Workers) >= 1
  /\ \A S \in SUBSET Workers :
       /\ Cardinality(S) \in Nat /\ Cardinality(S) <= Cardinality(Workers)
       /\ \A w \in Workers \ S : Cardinality(S \union {w}) = Cardinality(S) + 1
       /\ \A w \in S : Cardinality(S \ {w}) = Cardinality(S) - 1 /\ Cardinality(S) >= 1
<1>1. IsFiniteSet(Workers) /\ Cardinality(Workers) \in Nat /\ Cardinality(Workers) # 0
  BY FiniteAssumption, FS_CardinalityType, FS_EmptySet
<1>2. ASSUME NEW S \in SUBSET Workers
      PROVE  IsFiniteSet(S) /\ Cardinality(S) \in Nat /\ Cardinality(S) <= Cardinality(Workers)
  BY <1>1, FS_Subset, FS_CardinalityType
<1>3. ASSUME NEW S \in SUBSET Workers, NEW w \in Workers \ S
      PROVE  Cardinality(S \union {w}) = Cardinality(S) + 1
  BY <1>2, FS_AddElement
<1>4. ASSUME NEW S \in SUBSET Workers, NEW w \in S
      PROVE  Cardinality(S \ {w}) = Cardinality(S) - 1 /\ Cardinality(S) >= 1
  <2>1. Cardinality(S \ {w}) = Cardinality(S) - 1
    BY <1>2, FS_RemoveElement
  <2>2. Cardinality(S) # 0
    BY <1>2, FS_EmptySet
  <2>3. QED
    BY <1>2, <2>1, <2>2
<1>5. QED
  BY <1>1, <1>2, <1>3, <1>4

LEMMA OrdersFrame ==
  ASSUME OrdersCounted, order' = order, NEW K, Credits(K), "order" \notin K,
         Undisturbed(OrderStages)
  PROVE  OrdersCounted'
<1>1. \A o \in Orders : credits'[<<"order", o>>] = credits[<<"order", o>>]
  BY SourceNames DEF Credits
<1>2. \A o \in Orders : Handling(o)' = Handling(o) /\ Handling(o) \subseteq Workers
  BY DEF Undisturbed, Handling, OrderStages
<1>3. \A o \in Orders : \A v \in Handling(o) : task'[v] = task[v]
  BY DEF Undisturbed, Handling, OrderStages
<1>4. QED
  BY <1>1, <1>2, <1>3 DEF OrdersCounted, OrderCounted, At

\* A step of one order only.
LEMMA OrdersFrameOne ==
  ASSUME OrdersCounted, NEW w \in Workers, NEW x, NEW from, NEW to, Moves(w, from, to),
         \A o \in Orders \ {x} : order'[o] = order[o],
         \A o \in Orders \ {x} : credits'[<<"order", o>>] = credits[<<"order", o>>],
         task[w].stage \in OrderStages => task[w].item = x,
         task'[w].stage \in OrderStages => task'[w].item = x,
         x \in Orders => OrderCounted(x)'
  PROVE  OrdersCounted'
<1> SUFFICES ASSUME NEW o \in Orders, o # x PROVE OrderCounted(o)'
  BY DEF OrdersCounted
<1>1. \A v \in Workers : v \in Handling(o)' <=> v \in Handling(o)
  BY DEF Moves, Handling, OrderStages
<1>2. Handling(o)' = Handling(o)
  BY <1>1 DEF Handling
<1>3. \A v \in Handling(o) : task'[v] = task[v]
  BY DEF Moves, Handling, OrderStages
<1>4. OrderCounted(o)
  BY DEF OrdersCounted
<1>5. order'[o] = order[o] /\ credits'[<<"order", o>>] = credits[<<"order", o>>]
  OBVIOUS
<1>6. QED
  BY <1>2, <1>3, <1>4, <1>5 DEF OrderCounted, At

LEMMA OrdersStep ==
  ASSUME TypeOK, OrdersCounted, [Next]_vars
  PROVE  OrdersCounted'
<1>t. /\ order \in [Orders -> {"none", "pending", "paid"}]
      /\ credits \in [Sources -> Nat]
      /\ \A o \in Orders : <<"order", o>> \in Sources /\ credits[<<"order", o>>] \in Nat
      /\ \A o \in Orders : Handling(o) \in SUBSET Workers /\ Handling(o)' \in SUBSET Workers
      /\ \A S \in SUBSET Workers :
           Cardinality(S) \in Nat /\ Cardinality(S) <= Cardinality(Workers)
      /\ Cardinality(Workers) \in Nat
  <2>1. order \in [Orders -> {"none", "pending", "paid"}] /\ credits \in [Sources -> Nat]
    BY DEF TypeOK
  <2>2. \A o \in Orders : Handling(o) \in SUBSET Workers /\ Handling(o)' \in SUBSET Workers
    BY DEF Handling
  <2>3. QED
    BY <2>1, <2>2, SourceNames, Crew
<1>1. ASSUME NEW w \in Workers, NEW u \in known, NEW o \in Orders, NEW auto \in BOOLEAN,
             CreateOrder(w, u, o, auto)
      PROVE  OrdersCounted'
  <2>1. /\ Moves(w, {"idle"}, {"idle", "marker"})
        /\ task'[w].stage \in OrderStages => auto /\ task'[w].item = o
    <3>1. Moves(w, {"idle"}, {IF auto THEN "marker" ELSE "idle"}) /\ (auto => task'[w].item = o)
      BY <1>1, RequestMoves
    <3>2. QED
      BY <3>1 DEF Moves, OrderStages
  <2>2. /\ credits' = credits /\ order[o] = "none"
        /\ order' = [order EXCEPT ![o] = IF auto THEN "paid" ELSE "pending"]
    BY <1>1 DEF CreateOrder, history
  <2>3. credits[<<"order", o>>] = 0 /\ \A v \in Handling(o) : At(v, "pay")
    BY <2>2 DEF OrdersCounted, OrderCounted
  <2>4. ~auto => Handling(o)' = Handling(o) /\ \A v \in Handling(o) : task'[v] = task[v]
    BY <2>1 DEF Moves, Handling, OrderStages
  <2>5. order'[o] # "paid" => ~auto
    BY <1>t, <2>2
  <2>6. /\ order'[o] # "paid" => \A v \in Handling(o)' : At(v, "pay")'
        /\ credits'[<<"order", o>>] + Cardinality(Handling(o)') <= Cardinality(Workers)
        /\ credits'[<<"order", o>>] = 0
    BY <1>t, <2>2, <2>3, <2>4, <2>5 DEF At
  <2>7. \A p \in Orders \ {o} : order'[p] = order[p]
    BY <1>t, <2>2
  <2>8. task[w].stage \notin OrderStages
    BY <2>1 DEF Moves, OrderStages
  <2>9. QED
    BY <2>1, <2>2, <2>6, <2>7, <2>8, OrdersFrameOne DEF OrderCounted
<1>2. ASSUME NEW w \in Workers, NEW o \in Orders, PayCallback(w, o) PROVE OrdersCounted'
  <2>1. Moves(w, {"idle"}, {"pay"}) /\ task'[w].item = o
    BY <1>2, RequestMoves
  <2>2. credits' = credits /\ order' = order /\ order[o] = "pending"
    BY <1>2 DEF PayCallback, history, payVars
  <2>3. credits[<<"order", o>>] = 0 /\ \A v \in Handling(o) : At(v, "pay")
    BY <2>2 DEF OrdersCounted, OrderCounted
  <2>4. \A v \in Handling(o)' : At(v, "pay")'
    BY <2>1, <2>3 DEF Moves, Handling, At
  <2>5. credits'[<<"order", o>>] = 0
        /\ credits'[<<"order", o>>] + Cardinality(Handling(o)') <= Cardinality(Workers)
    BY <1>t, <2>2, <2>3
  <2>6. task[w].stage \notin OrderStages
    BY <2>1 DEF Moves, OrderStages
  <2>7. QED
    BY <2>1, <2>2, <2>4, <2>5, <2>6, OrdersFrameOne DEF OrderCounted
<1>3. ASSUME NEW w \in Workers, SavePaid(w) PROVE OrdersCounted'
  <2>o. PICK o : task[w].item = o
    OBVIOUS
  <2>1. Moves(w, {"pay"}, {"marker"}) /\ task'[w].item = o
    BY <1>3, <2>o, ContinueMoves DEF SameCall
  <2>2. credits' = credits /\ order' = [order EXCEPT ![o] = "paid"]
    BY <1>3, <2>o DEF SavePaid, history
  <2>3. Handling(o)' = Handling(o)
    <3>1. \A v \in Workers : v \in Handling(o)' <=> v \in Handling(o)
      BY <2>1, <2>o DEF Moves, Handling
    <3>2. QED
      BY <3>1 DEF Handling
  <2>4. o \in Orders => order'[o] = "paid"
    BY <1>t, <2>2
  <2>5. \A p \in Orders \ {o} : order'[p] = order[p]
    BY <1>t, <2>2
  <2>6. o \in Orders => OrderCounted(o)'
    BY <2>2, <2>3, <2>4 DEF OrdersCounted, OrderCounted
  <2>7. QED
    BY <2>1, <2>2, <2>5, <2>6, <2>o, OrdersFrameOne
<1>4. ASSUME NEW w \in Workers, ReadMarker(w) PROVE OrdersCounted'
  <2>o. PICK o : task[w].item = o
    OBVIOUS
  <2>1. /\ Moves(w, {"marker"}, {"idle", "creditOrder"})
        /\ task'[w].stage = "creditOrder" => task'[w].item = o
    BY <1>4, <2>o, ContinueMoves DEF SameCall, At
  <2>2. credits' = credits /\ order' = order
    BY <1>4 DEF ReadMarker, history, payVars
  <2>3. w \in Handling(o) /\ ~At(w, "pay")
    BY <2>1, <2>o DEF Moves, Handling, At
  <2>4. o \in Orders => order[o] = "paid"
    BY <2>3 DEF OrdersCounted, OrderCounted
  <2>5. Handling(o)' \in SUBSET Handling(o)
    <3>1. \A v \in Workers : v \in Handling(o)' => v \in Handling(o)
      BY <2>1, <2>o DEF Moves, Handling
    <3>2. QED
      BY <3>1 DEF Handling
  <2>6. Cardinality(Handling(o)') <= Cardinality(Handling(o))
    <3>1. IsFiniteSet(Handling(o))
      BY Crew, FS_Subset DEF Handling
    <3>2. QED
      BY <2>5, <3>1, FS_Subset
  <2>7. Cardinality(Handling(o)) \in Nat /\ Cardinality(Handling(o)') \in Nat
    BY Crew DEF Handling
  <2>8. o \in Orders =>
          credits'[<<"order", o>>] + Cardinality(Handling(o)') <= Cardinality(Workers)
    BY <1>t, <2>2, <2>6, <2>7 DEF OrdersCounted, OrderCounted
  <2>9. task'[w].stage \in OrderStages => task'[w].item = o
    BY <2>1 DEF Moves, OrderStages
  <2>10. QED
    BY <2>1, <2>2, <2>4, <2>8, <2>9, <2>o, OrdersFrameOne DEF OrderCounted
<1>5. ASSUME NEW w \in Workers, CreditOrder(w) PROVE OrdersCounted'
  <2>o. PICK o : task[w].item = o
    OBVIOUS
  <2>1. Moves(w, {"creditOrder"}, {"mark"})
    BY <1>5, ContinueMoves
  <2>2. credits' = [credits EXCEPT ![<<"order", o>>] = @ + 1] /\ order' = order
    BY <1>5, <2>o DEF CreditOrder, Credit, payVars
  <2>3. w \in Handling(o) /\ ~At(w, "pay")
    BY <2>1, <2>o DEF Moves, Handling, At
  <2>4. o \in Orders => order[o] = "paid"
    BY <2>3 DEF OrdersCounted, OrderCounted
  <2>5. Handling(o)' = Handling(o) \ {w}
    <3>1. \A v \in Workers : v \in Handling(o)' <=> v \in Handling(o) /\ v # w
      BY <2>1, <2>o DEF Moves, Handling
    <3>2. QED
      BY <3>1 DEF Handling
  <2>6. Cardinality(Handling(o)') = Cardinality(Handling(o)) - 1
    <3>1. Handling(o) \in SUBSET Workers
      BY DEF Handling
    <3>2. QED
      BY <2>3, <2>5, <3>1, Crew
  <2>7. Cardinality(Handling(o)) \in Nat
    BY Crew DEF Handling
  <2>8. /\ \A p \in Orders \ {o} : credits'[<<"order", p>>] = credits[<<"order", p>>]
        /\ o \in Orders => credits'[<<"order", o>>] = credits[<<"order", o>>] + 1
    BY <1>t, <2>2
  <2>9. o \in Orders =>
          credits'[<<"order", o>>] + Cardinality(Handling(o)') <= Cardinality(Workers)
    BY <1>t, <2>6, <2>7, <2>8 DEF OrdersCounted, OrderCounted
  <2>10. task'[w].stage \notin OrderStages
    BY <2>1 DEF Moves, OrderStages
  <2>11. o \in Orders => OrderCounted(o)'
    BY <2>2, <2>4, <2>9 DEF OrderCounted
  <2>12. QED
    BY <2>1, <2>2, <2>8, <2>10, <2>11, <2>o, OrdersFrameOne
<1>6. ASSUME NEW w \in Workers,
             CodeStep(w) \/ SpendStep(w) \/ RegisterStep(w) \/ OtherStep(w)
      PROVE  OrdersCounted'
  <2>1. CASE CodeStep(w)
    <3>1. Undisturbed(OrderStages)
      BY <2>1, CodeStepFrame, MovesUndisturbed DEF OrderStages
    <3>2. QED
      BY <2>1, <3>1, CodeStepFrame, OrdersFrame
  <2>2. CASE SpendStep(w)
    <3>1. Undisturbed(OrderStages)
      BY <2>2, SpendStepFrame, MovesUndisturbed DEF SpendStages, OrderStages
    <3>2. QED
      BY <2>2, <3>1, SpendStepFrame, OrdersFrame
  <2>3. CASE RegisterStep(w)
    <3>1. Undisturbed(OrderStages)
      BY <2>3, RegisterStepFrame, MovesUndisturbed DEF OtherStages
    <3>2. Credits({})
      BY <2>3, RegisterStepFrame DEF Credits
    <3>3. QED
      BY <2>3, <3>1, <3>2, RegisterStepFrame, OrdersFrame
  <2>4. CASE OtherStep(w)
    <3>1. Undisturbed(OrderStages)
      BY <2>4, OtherStepFrame, MovesUndisturbed DEF OtherStages
    <3>2. QED
      BY <2>4, <3>1, OtherStepFrame, OrdersFrame
  <2>5. QED
    BY <1>6, <2>1, <2>2, <2>3, <2>4
<1>7. ASSUME OutsideStep PROVE OrdersCounted'
  BY <1>7, OutsideStepFrame, OrdersFrame
<1>8. ASSUME Crash PROVE OrdersCounted'
  <2>1. \A o \in Orders : Handling(o)' = {}
    BY <1>8 DEF Crash, Handling, Idle
  <2>2. order' = order /\ credits' = credits
    BY <1>8 DEF Crash, payVars
  <2>3. Cardinality({}) = 0
    BY FS_EmptySet
  <2>4. ASSUME NEW o \in Orders PROVE OrderCounted(o)'
    <3>1. credits[<<"order", o>>] \in Nat /\ Cardinality(Handling(o)) \in Nat
      BY <1>t
    <3>2. OrderCounted(o)
      BY DEF OrdersCounted
    <3>3. credits[<<"order", o>>] <= Cardinality(Workers)
      BY <1>t, <3>1, <3>2 DEF OrderCounted
    <3>4. QED
      <4>1. /\ Handling(o)' = {} /\ order'[o] = order[o]
            /\ credits'[<<"order", o>>] = credits[<<"order", o>>]
        BY <2>1, <2>2
      <4>2. credits'[<<"order", o>>] + Cardinality(Handling(o)') <= Cardinality(Workers)
        BY <2>3, <3>1, <3>3, <4>1
      <4>3. QED
        BY <3>2, <4>1, <4>2 DEF OrderCounted
  <2>5. QED
    BY <2>4 DEF OrdersCounted
<1>9. CASE UNCHANGED vars
  BY <1>9 DEF vars, OrdersCounted, OrderCounted, Handling, At
<1>10. QED
  BY <1>1, <1>2, <1>3, <1>4, <1>5, <1>6, <1>7, <1>8, <1>9, StepKinds DEF OrderStep

-------------------------------------------------------------------------------
(* Transfers and relayed requests                                          *)

LEMMA StrangersFrame ==
  ASSUME StrangersHaveNothing, known \subseteq known',
         \A u \in Users \ known' : quota'[u] = quota[u] /\ used'[u] = used[u],
         Undisturbed(SpendStages)
  PROVE  StrangersHaveNothing'
<1>1. \A w \in Workers : task'[w].stage \in SpendStages =>
                           /\ task[w].stage \in SpendStages
                           /\ task'[w] = task[w]
  BY DEF Undisturbed
<1>2. QED
  BY <1>1 DEF StrangersHaveNothing, SpendStages, At

LEMMA AddingIsForAccounts ==
  ASSUME TypeOK, NEW v, NEW n \in Int, AddUserQuota(v, n), known' = known
  PROVE  \A u \in Users \ known' : quota'[u] = quota[u]
<1>1. quota \in [Users -> Int]
  BY DEF TypeOK
<1>2. QED
  BY <1>1 DEF AddUserQuota

LEMMA StrangersStep ==
  ASSUME TypeOK, StrangersHaveNothing, [Next]_vars
  PROVE  StrangersHaveNothing'
<1>t. /\ quota \in [Users -> Int] /\ used \in [Users -> Nat] /\ known \subseteq Users
      /\ SpendStages = {"debit", "creditTransfer", "charge"}
  BY DEF TypeOK, SpendStages
<1>1. ASSUME NEW w \in Workers, CodeStep(w) \/ OrderStep(w) \/ OtherStep(w)
      PROVE  StrangersHaveNothing'
  <2>1. UNCHANGED <<known, used>> /\ Rises
    BY <1>1, CodeStepFrame, OrderStepFrame, OtherStepFrame
  <2>2. CASE CodeStep(w)
    <3>1. Undisturbed(SpendStages)
      BY <2>2, CodeStepFrame, MovesUndisturbed DEF SpendStages
    <3>2. QED
      BY <2>1, <3>1, StrangersFrame DEF Rises
  <2>3. CASE OrderStep(w)
    <3>1. Undisturbed(SpendStages)
      BY <2>3, OrderStepFrame, MovesUndisturbed DEF SpendStages, OrderStages
    <3>2. QED
      BY <2>1, <3>1, StrangersFrame DEF Rises
  <2>4. CASE OtherStep(w)
    <3>1. Undisturbed(SpendStages)
      BY <2>4, OtherStepFrame, MovesUndisturbed DEF OtherStages
    <3>2. QED
      BY <2>1, <3>1, StrangersFrame DEF Rises
  <2>5. QED
    BY <1>1, <2>2, <2>3, <2>4
<1>2. ASSUME NEW w \in Workers, NEW u \in Users, NEW v \in Users, Transfer(w, u, v)
      PROVE  StrangersHaveNothing'
  <2>1. Moves(w, {"idle"}, {"debit"}) /\ task'[w].user = u /\ task'[w].to = v
    BY <1>2, RequestMoves
  <2>2. UNCHANGED <<known, quota, used>> /\ u \in known /\ v \in known
    BY <1>2 DEF Transfer, accounts
  <2>3. QED
    BY <2>1, <2>2 DEF StrangersHaveNothing, Moves, At
<1>3. ASSUME NEW w \in Workers, Debit(w) PROVE StrangersHaveNothing'
  <2>1. Moves(w, {"debit"}, {"creditTransfer"}) /\ SameCall(w)
    BY <1>3, ContinueMoves
  <2>2. task[w].user \in known /\ task[w].to \in known
    BY <2>1 DEF Moves, StrangersHaveNothing
  <2>3. /\ UNCHANGED <<known, quota>>
        /\ \A u \in Users \ known : used'[u] = used[u]
    BY <1>t, <1>3, <2>2 DEF Debit
  <2>4. QED
    BY <2>1, <2>2, <2>3 DEF StrangersHaveNothing, Moves, SameCall, At
<1>4. ASSUME NEW w \in Workers, CreditTransfer(w) PROVE StrangersHaveNothing'
  <2>1. Moves(w, {"creditTransfer"}, {"idle"})
    BY <1>4, ContinueMoves
  <2>2. UNCHANGED <<known, used>> /\ \A u \in Users \ known' : quota'[u] = quota[u]
    BY <1>4, Amounts, AddingIsForAccounts DEF CreditTransfer
  <2>3. QED
    BY <2>1, <2>2 DEF StrangersHaveNothing, Moves, At
<1>5. ASSUME NEW w \in Workers, RegisterStep(w) PROVE StrangersHaveNothing'
  <2>1. PICK u \in Users, i \in Invites \union {NoItem} : Register(w, u, i)
    BY <1>5 DEF RegisterStep
  <2>2. /\ known' = known \union {u} /\ used' = used
        /\ \A v \in Users \ known' : quota'[v] = quota[v]
    BY <1>t, <2>1 DEF Register
  <2>3. Undisturbed(SpendStages)
    BY <1>5, RegisterStepFrame, MovesUndisturbed DEF OtherStages
  <2>4. QED
    BY <2>2, <2>3, StrangersFrame
<1>6. ASSUME OutsideStep PROVE StrangersHaveNothing'
  <2>1. UNCHANGED <<known, used>> /\ Undisturbed(SpendStages)
    BY <1>6, OutsideStepFrame
  <2>2. \A u \in Users \ known' : quota'[u] = quota[u]
    <3>1. CASE \E u \in Users : Grant(u) \/ (\E n \in Adjustments : Adjust(u, n))
      <4>1. PICK u \in Users, n \in Int : AddUserQuota(u, n)
        BY <3>1, Amounts DEF Grant, Adjust
      <4>2. QED
        BY <2>1, <4>1, AddingIsForAccounts
    <3>2. CASE ~ \E u \in Users : Grant(u) \/ (\E n \in Adjustments : Adjust(u, n))
      BY <1>6, <3>2 DEF OutsideStep, CreateCode, CreateCodeSaveFails, RunDailyTasks, NextDay,
                        accounts
    <3>3. QED
      BY <3>1, <3>2
  <2>3. QED
    BY <2>1, <2>2, StrangersFrame
<1>7. ASSUME Crash PROVE StrangersHaveNothing'
  <2>1. UNCHANGED <<known, quota, used>> /\ \A w \in Workers : task'[w].stage = "idle"
    BY <1>7 DEF Crash, accounts, Idle
  <2>2. QED
    BY <2>1 DEF StrangersHaveNothing, At
<1>8. CASE UNCHANGED vars
  BY <1>8 DEF vars, StrangersHaveNothing, At
<1>9. ASSUME NEW w \in Workers, NEW u \in Users, Relay(w, u) PROVE StrangersHaveNothing'
  <2>1. Moves(w, {"idle"}, {"charge"}) /\ task'[w].user = u
    BY <1>9, RequestMoves
  <2>2. UNCHANGED <<known, quota, used>> /\ u \in known
    BY <1>9 DEF Relay, accounts
  <2>3. QED
    BY <2>1, <2>2 DEF StrangersHaveNothing, Moves, At
<1>10. ASSUME NEW w \in Workers, Charge(w) PROVE StrangersHaveNothing'
  <2>1. Moves(w, {"charge"}, {"idle"})
    BY <1>10, ContinueMoves
  <2>2. task[w].user \in known
    BY <2>1 DEF Moves, StrangersHaveNothing, At
  <2>3. UNCHANGED <<known, quota>> /\ \A u \in Users \ known : used'[u] = used[u]
    BY <1>t, <1>10, <2>2 DEF Charge
  <2>4. QED
    BY <2>1, <2>3 DEF StrangersHaveNothing, Moves, At
<1>11. QED
  BY <1>1, <1>2, <1>3, <1>4, <1>5, <1>6, <1>7, <1>8, <1>9, <1>10, StepKinds DEF SpendStep

-------------------------------------------------------------------------------
(* What is left to a sender                                                *)

\* What the goroutines under way may take, and how it grows with one more of them.
LEMMA Bounds ==
  /\ TransferAmount \in Nat /\ MaxCost \in Nat /\ MaxCost >= 1 /\ MaxOverdraft \in Nat
  /\ \A k, n \in Nat : k * n \in Nat
  /\ \A n \in Nat : /\ TransferAmount * n \in Nat
                    /\ TransferAmount * (n + 1) = TransferAmount * n + TransferAmount
                    /\ MaxCost * (n + 1) = MaxCost * n + MaxCost
  /\ \A m, n \in Nat : m + n <= Cardinality(Workers) - 1 =>
       TransferAmount * m + MaxCost * n <= MaxOverdraft + 1 - MaxCost
<1> DEFINE W == Cardinality(Workers)
           L == Larger(TransferAmount, MaxCost)
<1>t. W \in Nat /\ W >= 1
  BY Crew
<1>a. TransferAmount \in Nat /\ MaxCost \in Nat /\ MaxCost >= 1
  BY AmountAssumption
<1>b. L \in Nat /\ TransferAmount <= L /\ MaxCost <= L
  BY <1>a DEF Larger
<1>c. MaxOverdraft = (W - 1) * L + MaxCost - 1
  BY DEF MaxOverdraft
<1> HIDE DEF W, L
<1>1. \A k, n \in Nat : k * n \in Nat
  OBVIOUS
<1>2. (W - 1) * L \in Nat
  <2>1. W - 1 \in Nat
    BY <1>t
  <2>2. QED
    BY <1>b, <1>1, <2>1
<1>3. MaxOverdraft \in Nat
  BY <1>a, <1>c, <1>2
<1>4. ASSUME NEW n \in Nat
      PROVE  /\ TransferAmount * n \in Nat
             /\ TransferAmount * (n + 1) = TransferAmount * n + TransferAmount
             /\ MaxCost * (n + 1) = MaxCost * n + MaxCost
  BY <1>a, <1>1
<1>5. ASSUME NEW m \in Nat, NEW n \in Nat, m + n <= W - 1
      PROVE  TransferAmount * m + MaxCost * n <= MaxOverdraft + 1 - MaxCost
  <2>1. TransferAmount * m <= L * m
    <3>1. PICK k \in Nat : L = TransferAmount + k
      <4>1. L - TransferAmount \in Nat /\ L = TransferAmount + (L - TransferAmount)
        BY <1>a, <1>b
      <4>2. QED
        BY <4>1
    <3>2. L * m = TransferAmount * m + k * m /\ k * m \in Nat /\ TransferAmount * m \in Nat
      BY <1>a, <1>1, <3>1
    <3>3. QED
      BY <3>2
  <2>2. MaxCost * n <= L * n
    <3>1. PICK k \in Nat : L = MaxCost + k
      <4>1. L - MaxCost \in Nat /\ L = MaxCost + (L - MaxCost)
        BY <1>a, <1>b
      <4>2. QED
        BY <4>1
    <3>2. L * n = MaxCost * n + k * n /\ k * n \in Nat /\ MaxCost * n \in Nat
      BY <1>a, <1>1, <3>1
    <3>3. QED
      BY <3>2
  <2>3. L * m + L * n <= (W - 1) * L
    <3>1. PICK k \in Nat : W - 1 = m + n + k
      <4>1. W - 1 - (m + n) \in Nat /\ W - 1 = m + n + (W - 1 - (m + n))
        BY <1>t, <1>5
      <4>2. QED
        BY <4>1
    <3>2. (W - 1) * L = L * m + L * n + k * L
      BY <1>b, <3>1
    <3>3. k * L \in Nat /\ L * m \in Nat /\ L * n \in Nat
      BY <1>b, <1>1
    <3>4. QED
      BY <3>2, <3>3
  <2>4. {TransferAmount * m, MaxCost * n, L * m, L * n} \subseteq Nat
    BY <1>a, <1>b, <1>1
  <2>5. TransferAmount * m + MaxCost * n <= (W - 1) * L
    BY <1>2, <2>1, <2>2, <2>3, <2>4
  <2>6. QED
    BY <1>a, <1>c, <1>2, <2>4, <2>5
<1>6. QED
  BY <1>a, <1>1, <1>3, <1>4, <1>5 DEF W

LEMMA SpendingSets ==
  \A u : /\ Debiting(u) \in SUBSET Workers /\ Cardinality(Debiting(u)) \in Nat
         /\ Charging(u) \in SUBSET Workers /\ Cardinality(Charging(u)) \in Nat
         /\ Reserved(u) \in Nat
<1>1. \A u : Debiting(u) \in SUBSET Workers /\ Charging(u) \in SUBSET Workers
  BY DEF Debiting, Charging
<1>2. \A u : Cardinality(Debiting(u)) \in Nat /\ Cardinality(Charging(u)) \in Nat
  BY <1>1, Crew
<1>3. \A u : Reserved(u) \in Nat
  <2> TAKE u
  <2>1. /\ TransferAmount * Cardinality(Debiting(u)) \in Nat
        /\ MaxCost * Cardinality(Charging(u)) \in Nat
    BY <1>2, Bounds
  <2>2. QED
    BY <2>1 DEF Reserved
<1>4. QED
  BY <1>1, <1>2, <1>3

\* An idle goroutine is not among those that take from an account.
LEMMA OthersSpend ==
  ASSUME NEW w \in Workers, At(w, "idle"), NEW u
  PROVE  Cardinality(Debiting(u)) + Cardinality(Charging(u)) <= Cardinality(Workers) - 1
<1> DEFINE D == Debiting(u)
           C == Charging(u)
<1>1. /\ D \in SUBSET Workers /\ C \in SUBSET Workers /\ D \intersect C = {}
      /\ w \notin D \union C
  BY DEF Debiting, Charging, At
<1>2. IsFiniteSet(D) /\ IsFiniteSet(C)
  BY <1>1, Crew, FS_Subset
<1>3. Cardinality(D \union C) = Cardinality(D) + Cardinality(C)
  <2>1. Cardinality(D \union C)
          = Cardinality(D) + Cardinality(C) - Cardinality(D \intersect C)
    BY <1>2, FS_Union
  <2>2. Cardinality(D \intersect C) = 0
    BY <1>1, FS_EmptySet
  <2>3. Cardinality(D) \in Nat /\ Cardinality(C) \in Nat
    BY <1>1, Crew
  <2> HIDE DEF D, C
  <2>4. QED
    BY <2>1, <2>2, <2>3
<1>4. /\ (D \union C) \union {w} \in SUBSET Workers
      /\ Cardinality((D \union C) \union {w}) = Cardinality(D \union C) + 1
      /\ Cardinality((D \union C) \union {w}) <= Cardinality(Workers)
      /\ Cardinality(D \union C) \in Nat
  <2>1. D \union C \in SUBSET Workers /\ (D \union C) \union {w} \in SUBSET Workers
        /\ w \in Workers \ (D \union C)
    BY <1>1
  <2> HIDE DEF D, C
  <2>2. QED
    BY <2>1, Crew
<1> HIDE DEF D, C
<1>5. Cardinality(D) + Cardinality(C) <= Cardinality(Workers) - 1
  BY <1>3, <1>4, Crew
<1>6. QED
  BY <1>5 DEF D, C

\* What one goroutine does to the set of those that are at a stage.
LEMMA JoinsSpending ==
  ASSUME NEW w \in Workers, NEW stage \in {"debit", "charge"},
         Moves(w, {"idle"}, {stage}), NEW u, task'[w].user = u
  PROVE  /\ stage = "debit" =>
              /\ Cardinality(Debiting(u)') = Cardinality(Debiting(u)) + 1
              /\ Charging(u)' = Charging(u)
         /\ stage = "charge" =>
              /\ Cardinality(Charging(u)') = Cardinality(Charging(u)) + 1
              /\ Debiting(u)' = Debiting(u)
         /\ \A x : x # u => Debiting(x)' = Debiting(x) /\ Charging(x)' = Charging(x)
<1>1. ASSUME stage = "debit"
      PROVE  Cardinality(Debiting(u)') = Cardinality(Debiting(u)) + 1
  <2>1. \A v \in Workers : v \in Debiting(u)' <=> v \in Debiting(u) \/ v = w
    BY <1>1 DEF Moves, Debiting, At
  <2>2. Debiting(u)' = Debiting(u) \union {w} /\ w \notin Debiting(u)
    BY <2>1 DEF Moves, Debiting, At
  <2>3. QED
    BY <2>2, SpendingSets, Crew
<1>2. ASSUME stage = "charge"
      PROVE  Cardinality(Charging(u)') = Cardinality(Charging(u)) + 1
  <2>1. \A v \in Workers : v \in Charging(u)' <=> v \in Charging(u) \/ v = w
    BY <1>2 DEF Moves, Charging, At
  <2>2. Charging(u)' = Charging(u) \union {w} /\ w \notin Charging(u)
    BY <2>1 DEF Moves, Charging, At
  <2>3. QED
    BY <2>2, SpendingSets, Crew
<1>3. stage = "debit" => Charging(u)' = Charging(u)
  BY DEF Moves, Charging, At
<1>4. stage = "charge" => Debiting(u)' = Debiting(u)
  BY DEF Moves, Debiting, At
<1>5. \A x : x # u => Debiting(x)' = Debiting(x) /\ Charging(x)' = Charging(x)
  BY DEF Moves, Debiting, Charging, At
<1>6. QED
  BY <1>1, <1>2, <1>3, <1>4, <1>5

LEMMA LeavesSpending ==
  ASSUME NEW w \in Workers, NEW stage \in {"debit", "charge"}, NEW to,
         to \in {"idle", "creditTransfer"},
         Moves(w, {stage}, {to}), NEW u, task[w].user = u
  PROVE  /\ stage = "debit" =>
              /\ Cardinality(Debiting(u)) = Cardinality(Debiting(u)') + 1
              /\ Cardinality(Debiting(u)') \in Nat
              /\ Charging(u)' = Charging(u)
         /\ stage = "charge" =>
              /\ Cardinality(Charging(u)) = Cardinality(Charging(u)') + 1
              /\ Cardinality(Charging(u)') \in Nat
              /\ Debiting(u)' = Debiting(u)
         /\ \A x : x # u => Debiting(x)' = Debiting(x) /\ Charging(x)' = Charging(x)
<1>1. ASSUME stage = "debit"
      PROVE  /\ Cardinality(Debiting(u)) = Cardinality(Debiting(u)') + 1
             /\ Cardinality(Debiting(u)') \in Nat
  <2>1. \A v \in Workers : v \in Debiting(u)' <=> v \in Debiting(u) /\ v # w
    BY <1>1 DEF Moves, Debiting, At
  <2>2. Debiting(u)' = Debiting(u) \ {w} /\ w \in Debiting(u)
    BY <1>1, <2>1 DEF Moves, Debiting, At
  <2>3. /\ Cardinality(Debiting(u)) \in Nat /\ Cardinality(Debiting(u)) >= 1
        /\ Cardinality(Debiting(u)') = Cardinality(Debiting(u)) - 1
    BY <2>2, SpendingSets, Crew
  <2>4. QED
    BY <2>3
<1>2. ASSUME stage = "charge"
      PROVE  /\ Cardinality(Charging(u)) = Cardinality(Charging(u)') + 1
             /\ Cardinality(Charging(u)') \in Nat
  <2>1. \A v \in Workers : v \in Charging(u)' <=> v \in Charging(u) /\ v # w
    BY <1>2 DEF Moves, Charging, At
  <2>2. Charging(u)' = Charging(u) \ {w} /\ w \in Charging(u)
    BY <1>2, <2>1 DEF Moves, Charging, At
  <2>3. /\ Cardinality(Charging(u)) \in Nat /\ Cardinality(Charging(u)) >= 1
        /\ Cardinality(Charging(u)') = Cardinality(Charging(u)) - 1
    BY <2>2, SpendingSets, Crew
  <2>4. QED
    BY <2>3
<1>3. stage = "debit" => Charging(u)' = Charging(u)
  BY DEF Moves, Charging, At
<1>4. stage = "charge" => Debiting(u)' = Debiting(u)
  BY DEF Moves, Debiting, At
<1>5. \A x : x # u => Debiting(x)' = Debiting(x) /\ Charging(x)' = Charging(x)
  BY DEF Moves, Debiting, Charging, At
<1>6. QED
  BY <1>1, <1>2, <1>3, <1>4, <1>5

\* An account whose credit, use and goroutines stay as they are is covered as before.
LEMMA SameCover ==
  ASSUME NEW x, quota'[x] = quota[x], used'[x] = used[x],
         Debiting(x)' = Debiting(x), Charging(x)' = Charging(x)
  PROVE  Covered(x) => Covered(x)'
<1>1. Balance(x)' = Balance(x)
  BY DEF Balance
<1>2. Reserved(x)' = Reserved(x)
  BY DEF Reserved
<1>3. QED
  BY <1>1, <1>2 DEF Covered, MaxOverdraft

\* Whoever is not in debt stays so when credit rises and nobody begins or ends to spend.
LEMMA SendersFrame ==
  ASSUME TypeOK, TypeOK', SendersCovered, known' = known, used' = used, Rises,
         NEW K, Credits(K), "lowered" \notin K, Undisturbed({"debit", "charge"})
  PROVE  SendersCovered'
<1> SUFFICES ASSUME RegisterQuota >= 0, NEW u \in known \ {Root}, credits'[<<"lowered", u>>] = 0
             PROVE  Covered(u)'
  BY DEF SendersCovered
<1>t. quota[u] \in Int /\ quota'[u] \in Int /\ used[u] \in Int /\ u \in Users
  BY DEF TypeOK
<1>1. credits[<<"lowered", u>>] = 0
  BY <1>t, SourceNames DEF Credits
<1>2. Covered(u)
  BY <1>1 DEF SendersCovered
<1>3. Debiting(u)' = Debiting(u) /\ Charging(u)' = Charging(u)
  <2>1. \A v \in Workers : /\ v \in Debiting(u)' <=> v \in Debiting(u)
                           /\ v \in Charging(u)' <=> v \in Charging(u)
    BY DEF Undisturbed, Debiting, Charging, At
  <2>2. QED
    BY <2>1 DEF Debiting, Charging
<1>4. quota'[u] >= quota[u]
  BY <1>t DEF Rises
<1>5. Reserved(u) \in Nat /\ Reserved(u)' = Reserved(u) /\ MaxOverdraft \in Nat
  BY <1>3, SpendingSets, Bounds DEF Reserved
<1>6. Balance(u)' >= Balance(u) /\ Balance(u) \in Int /\ Balance(u)' \in Int
  BY <1>t, <1>4 DEF Balance
<1>7. Covered(u)' <=> quota'[u] >= 0 /\ Balance(u)' - Reserved(u)' >= -MaxOverdraft
  BY DEF Covered, MaxOverdraft
<1>8. QED
  BY <1>t, <1>2, <1>4, <1>5, <1>6, <1>7 DEF Covered

LEMMA SendersStep ==
  ASSUME TypeOK, TypeOK', StrangersHaveNothing, SendersCovered, [Next]_vars
  PROVE  SendersCovered'
<1>z. CASE ~ (RegisterQuota >= 0)
  BY <1>z DEF SendersCovered
<1>y. CASE RegisterQuota >= 0
  <2>t. /\ known \subseteq Users /\ known' \subseteq Users
        /\ quota \in [Users -> Int] /\ used \in [Users -> Nat] /\ credits \in [Sources -> Nat]
        /\ quota' \in [Users -> Int] /\ used' \in [Users -> Nat]
        /\ \A u \in Users : <<"lowered", u>> \in Sources
    <3>1. /\ known \subseteq Users /\ quota \in [Users -> Int] /\ used \in [Users -> Nat]
          /\ credits \in [Sources -> Nat]
      BY DEF TypeOK
    <3>2. known' \subseteq Users /\ quota' \in [Users -> Int] /\ used' \in [Users -> Nat]
      BY DEF TypeOK
    <3>3. QED
      BY <3>1, <3>2, SourceNames
  <2>b. /\ \A u \in Users : Balance(u) = quota[u] - used[u] /\ Balance(u) \in Int
        /\ \A u \in Users : quota[u] \in Int /\ used[u] \in Int /\ quota'[u] \in Int
        /\ \A u \in Users : used'[u] \in Int
        /\ \A u \in Users : Balance(u)' = quota'[u] - used'[u]
        /\ \A u : Covered(u)' <=> quota'[u] >= 0 /\ Balance(u)' - Reserved(u)' >= -MaxOverdraft
    BY <2>t DEF Balance, Covered, MaxOverdraft
  <2>c. \A u \in known \ {Root} : credits[<<"lowered", u>>] = 0 => Covered(u)
    BY <1>y DEF SendersCovered
  \* It is enough that the accounts that were there and were not lowered stay covered.
  <2>d. ASSUME known' = known, credits' = credits,
               \A x \in known \ {Root} : Covered(x) => Covered(x)'
        PROVE  SendersCovered'
    BY <2>c, <2>d DEF SendersCovered
  <2>1. ASSUME NEW w \in Workers, CodeStep(w) \/ OrderStep(w) \/ OtherStep(w)
        PROVE  SendersCovered'
    <3>1. CASE CodeStep(w)
      <4>1. Undisturbed({"debit", "charge"})
        BY <3>1, CodeStepFrame, MovesUndisturbed
      <4>2. QED
        BY <3>1, <4>1, CodeStepFrame, SendersFrame
    <3>2. CASE OrderStep(w)
      <4>1. Undisturbed({"debit", "charge"})
        BY <3>2, OrderStepFrame, MovesUndisturbed DEF OrderStages
      <4>2. QED
        BY <3>2, <4>1, OrderStepFrame, SendersFrame
    <3>3. CASE OtherStep(w)
      <4>1. Undisturbed({"debit", "charge"})
        BY <3>3, OtherStepFrame, MovesUndisturbed DEF OtherStages, SpendStages
      <4>2. QED
        BY <3>3, <4>1, OtherStepFrame, SendersFrame
    <3>4. QED
      BY <2>1, <3>1, <3>2, <3>3
  <2>2. ASSUME NEW w \in Workers, NEW u \in Users, NEW v \in Users, Transfer(w, u, v)
        PROVE  SendersCovered'
    <3>1. Moves(w, {"idle"}, {"debit"}) /\ task'[w].user = u /\ At(w, "idle")
      BY <2>2, RequestMoves DEF Moves, At
    <3>2. UNCHANGED <<known, quota, used, credits>> /\ Balance(u) >= TransferAmount
      BY <2>2 DEF Transfer, accounts, history
    <3>3. /\ Cardinality(Debiting(u)') = Cardinality(Debiting(u)) + 1
          /\ Charging(u)' = Charging(u)
          /\ \A x : x # u => Debiting(x)' = Debiting(x) /\ Charging(x)' = Charging(x)
      BY <3>1, JoinsSpending
    <3>4. \A x \in Users : x # u /\ Covered(x) => Covered(x)'
      BY <3>2, <3>3, SameCover
    <3>5. Covered(u) => Covered(u)'
      <4> DEFINE m == Cardinality(Debiting(u))
                 n == Cardinality(Charging(u))
      <4>1. m \in Nat /\ n \in Nat /\ m + n <= Cardinality(Workers) - 1
        BY <3>1, SpendingSets, OthersSpend
      <4>2. Reserved(u)' = TransferAmount * (m + 1) + MaxCost * n
        BY <3>3 DEF Reserved
      <4> HIDE DEF m, n
      <4>3. TransferAmount * m + MaxCost * n <= MaxOverdraft + 1 - MaxCost
        BY <4>1, Bounds
      <4>4. Reserved(u)' = TransferAmount * m + TransferAmount + MaxCost * n
        BY <4>1, <4>2, Bounds
      <4>5. /\ TransferAmount * m \in Nat /\ MaxCost * n \in Nat /\ MaxOverdraft \in Nat
            /\ TransferAmount \in Nat /\ MaxCost \in Nat /\ MaxCost >= 1
        BY <4>1, Bounds
      <4>6. Balance(u)' \in Int /\ Balance(u)' >= TransferAmount /\ quota'[u] = quota[u]
        BY <2>b, <3>2
      <4>7. Balance(u)' - Reserved(u)' >= -MaxOverdraft
        BY <4>3, <4>4, <4>5, <4>6
      <4>8. QED
        BY <2>b, <4>6, <4>7 DEF Covered
    <3>6. QED
      BY <2>t, <2>d, <3>2, <3>4, <3>5
  <2>3. ASSUME NEW w \in Workers, NEW u \in Users, Relay(w, u)
        PROVE  SendersCovered'
    <3>1. Moves(w, {"idle"}, {"charge"}) /\ task'[w].user = u /\ At(w, "idle")
      BY <2>3, RequestMoves DEF Moves, At
    <3>2. UNCHANGED <<known, quota, used, credits>> /\ (quota[u] < 0 \/ Balance(u) > 0)
      BY <2>3 DEF Relay, accounts, history
    <3>3. /\ Cardinality(Charging(u)') = Cardinality(Charging(u)) + 1
          /\ Debiting(u)' = Debiting(u)
          /\ \A x : x # u => Debiting(x)' = Debiting(x) /\ Charging(x)' = Charging(x)
      BY <3>1, JoinsSpending
    <3>4. \A x \in Users : x # u /\ Covered(x) => Covered(x)'
      BY <3>2, <3>3, SameCover
    <3>5. Covered(u) => Covered(u)'
      <4> DEFINE m == Cardinality(Debiting(u))
                 n == Cardinality(Charging(u))
      <4> SUFFICES ASSUME Covered(u) PROVE Covered(u)'
        OBVIOUS
      <4>1. m \in Nat /\ n \in Nat /\ m + n <= Cardinality(Workers) - 1
        BY <3>1, SpendingSets, OthersSpend
      <4>2. Reserved(u)' = TransferAmount * m + MaxCost * (n + 1)
        BY <3>3 DEF Reserved
      <4> HIDE DEF m, n
      <4>3. TransferAmount * m + MaxCost * n <= MaxOverdraft + 1 - MaxCost
        BY <4>1, Bounds
      <4>4. Reserved(u)' = TransferAmount * m + MaxCost * n + MaxCost
        BY <4>1, <4>2, Bounds
      <4>5. /\ TransferAmount * m \in Nat /\ MaxCost * n \in Nat /\ MaxOverdraft \in Nat
            /\ MaxCost \in Nat
        BY <4>1, Bounds
      <4>6. /\ quota[u] \in Int /\ quota[u] >= 0 /\ quota'[u] = quota[u]
        BY <2>b, <3>2 DEF Covered
      <4>7. Balance(u)' \in Int /\ Balance(u)' >= 1
        BY <2>b, <3>2, <4>6
      <4>8. Balance(u)' - Reserved(u)' >= -MaxOverdraft
        BY <4>3, <4>4, <4>5, <4>7
      <4>9. QED
        BY <2>b, <4>6, <4>8
    <3>6. QED
      BY <2>t, <2>d, <3>2, <3>4, <3>5
  <2>4. ASSUME NEW w \in Workers, Debit(w) PROVE SendersCovered'
    <3>u. PICK u : task[w].user = u
      OBVIOUS
    <3>1. Moves(w, {"debit"}, {"creditTransfer"})
      BY <2>4, ContinueMoves
    <3>2. /\ UNCHANGED <<known, quota, credits>>
          /\ used' = [used EXCEPT ![u] = @ + TransferAmount]
      BY <2>4, <3>u DEF Debit, history
    <3>3. /\ Cardinality(Debiting(u)) = Cardinality(Debiting(u)') + 1
          /\ Cardinality(Debiting(u)') \in Nat
          /\ Charging(u)' = Charging(u)
          /\ \A x : x # u => Debiting(x)' = Debiting(x) /\ Charging(x)' = Charging(x)
      BY <3>1, <3>u, LeavesSpending
    <3>4. \A x \in Users : x # u /\ Covered(x) => Covered(x)'
      <4>1. \A x \in Users : x # u => quota'[x] = quota[x] /\ used'[x] = used[x]
        BY <2>t, <3>2
      <4>2. QED
        BY <3>3, <4>1, SameCover
    <3>5. ASSUME u \in Users, Covered(u) PROVE Covered(u)'
      <4> DEFINE m == Cardinality(Debiting(u)')
                 n == Cardinality(Charging(u))
      <4>1. /\ m \in Nat /\ n \in Nat
            /\ Reserved(u) = TransferAmount * (m + 1) + MaxCost * n
            /\ Reserved(u)' = TransferAmount * m + MaxCost * n
        BY <3>3, SpendingSets DEF Reserved
      <4> HIDE DEF m, n
      <4>2. /\ Reserved(u) = TransferAmount * m + TransferAmount + MaxCost * n
            /\ TransferAmount * m \in Nat /\ MaxCost * n \in Nat /\ MaxOverdraft \in Nat
            /\ TransferAmount \in Nat
        BY <4>1, Bounds
      <4>3. used'[u] = used[u] + TransferAmount /\ quota'[u] = quota[u]
        BY <2>t, <3>2, <3>5
      <4>4. Balance(u)' = Balance(u) - TransferAmount /\ Balance(u) \in Int
        BY <2>b, <3>5, <4>2, <4>3
      <4>5. Balance(u) - Reserved(u) >= -MaxOverdraft /\ quota'[u] >= 0
        BY <3>5, <4>3 DEF Covered
      <4>6. Balance(u)' - Reserved(u)' >= -MaxOverdraft
        BY <4>1, <4>2, <4>4, <4>5
      <4>7. QED
        BY <2>b, <4>5, <4>6
    <3>6. QED
      BY <2>t, <2>d, <3>2, <3>4, <3>5
  <2>5. ASSUME NEW w \in Workers, Charge(w) PROVE SendersCovered'
    <3>u. PICK u : task[w].user = u
      OBVIOUS
    <3>1. Moves(w, {"charge"}, {"idle"})
      BY <2>5, ContinueMoves
    <3>2. PICK cost \in 0..MaxCost : used' = [used EXCEPT ![u] = @ + cost]
      BY <2>5, <3>u DEF Charge
    <3>k. UNCHANGED <<known, quota, credits>> /\ cost \in Nat /\ cost <= MaxCost
      BY <2>5, Bounds DEF Charge
    <3>3. /\ Cardinality(Charging(u)) = Cardinality(Charging(u)') + 1
          /\ Cardinality(Charging(u)') \in Nat
          /\ Debiting(u)' = Debiting(u)
          /\ \A x : x # u => Debiting(x)' = Debiting(x) /\ Charging(x)' = Charging(x)
      BY <3>1, <3>u, LeavesSpending
    <3>4. \A x \in Users : x # u /\ Covered(x) => Covered(x)'
      <4>1. \A x \in Users : x # u => quota'[x] = quota[x] /\ used'[x] = used[x]
        BY <2>t, <3>2, <3>k
      <4>2. QED
        BY <3>3, <4>1, SameCover
    <3>5. ASSUME u \in Users, Covered(u) PROVE Covered(u)'
      <4> DEFINE m == Cardinality(Debiting(u))
                 n == Cardinality(Charging(u)')
      <4>1. /\ m \in Nat /\ n \in Nat
            /\ Reserved(u) = TransferAmount * m + MaxCost * (n + 1)
            /\ Reserved(u)' = TransferAmount * m + MaxCost * n
        BY <3>3, SpendingSets DEF Reserved
      <4> HIDE DEF m, n
      <4>2. /\ Reserved(u) = TransferAmount * m + MaxCost * n + MaxCost
            /\ TransferAmount * m \in Nat /\ MaxCost * n \in Nat /\ MaxOverdraft \in Nat
            /\ MaxCost \in Nat
        BY <4>1, Bounds
      <4>3. used'[u] = used[u] + cost /\ quota'[u] = quota[u]
        BY <2>t, <3>2, <3>k, <3>5
      <4>4. Balance(u)' = Balance(u) - cost /\ Balance(u) \in Int
        BY <2>b, <3>k, <3>5, <4>3
      <4>5. Balance(u) - Reserved(u) >= -MaxOverdraft /\ quota'[u] >= 0
        BY <3>5, <4>3 DEF Covered
      <4>6. Balance(u)' - Reserved(u)' >= -MaxOverdraft
        BY <3>k, <4>1, <4>2, <4>4, <4>5
      <4>7. QED
        BY <2>b, <4>5, <4>6
    <3>6. QED
      BY <2>t, <2>d, <3>k, <3>4, <3>5
  <2>6. ASSUME NEW w \in Workers, CreditTransfer(w) PROVE SendersCovered'
    <3>1. Moves(w, {"creditTransfer"}, {"idle"})
      BY <2>6, ContinueMoves
    <3>2. Undisturbed({"debit", "charge"})
      BY <3>1, MovesUndisturbed
    <3>3. SpendStep(w) /\ used' = used
      BY <2>6 DEF CreditTransfer, SpendStep
    <3>4. QED
      BY <3>2, <3>3, SpendStepFrame, SendersFrame
  <2>7. ASSUME NEW w \in Workers, RegisterStep(w) PROVE SendersCovered'
    <3>1. PICK u \in Users, i \in Invites \union {NoItem} : Register(w, u, i)
      BY <2>7 DEF RegisterStep
    <3>2. /\ u \notin known /\ known' = known \union {u} /\ UNCHANGED <<used, credits>>
          /\ quota' = [quota EXCEPT ![u] = RegisterQuota]
      BY <3>1 DEF Register
    <3>3. Undisturbed({"debit", "charge"})
      BY <2>7, RegisterStepFrame, MovesUndisturbed DEF OtherStages, SpendStages
    <3>4. \A x : Debiting(x)' = Debiting(x) /\ Charging(x)' = Charging(x)
      <4>1. \A x : \A v \in Workers : /\ v \in Debiting(x)' <=> v \in Debiting(x)
                                      /\ v \in Charging(x)' <=> v \in Charging(x)
        BY <3>3 DEF Undisturbed, Debiting, Charging, At
      <4>2. QED
        BY <4>1 DEF Debiting, Charging
    <3>5. \A x \in Users : x # u /\ Covered(x) => Covered(x)'
      <4>1. \A x \in Users : x # u => quota'[x] = quota[x] /\ used'[x] = used[x]
        BY <2>t, <3>2
      <4>2. QED
        BY <3>4, <4>1, SameCover
    <3>6. Covered(u)'
      <4>1. Debiting(u)' = {} /\ Charging(u)' = {}
        BY <3>2, <3>4 DEF StrangersHaveNothing, Debiting, Charging, At
      <4>2. quota'[u] = RegisterQuota /\ Balance(u)' = RegisterQuota
        BY <2>t, <2>b, <3>2, Amounts DEF StrangersHaveNothing
      <4>3. Reserved(u)' = 0
        BY <4>1, FS_EmptySet, Bounds DEF Reserved
      <4>4. QED
        BY <1>y, <2>b, <4>2, <4>3, Bounds, Amounts
    <3>7. QED
      BY <2>t, <2>c, <3>2, <3>5, <3>6 DEF SendersCovered
  <2>8. ASSUME OutsideStep PROVE SendersCovered'
    <3>1. UNCHANGED <<known, used>> /\ Undisturbed({"debit", "charge"})
      BY <2>8, OutsideStepFrame
    <3>2. ASSUME NEW c \in Codes, CreateCode(c) \/ CreateCodeSaveFails(c) PROVE SendersCovered'
      <4>1. quota' = quota /\ Credits({})
        BY <3>2 DEF CreateCode, CreateCodeSaveFails, accounts, history, Credits
      <4>2. QED
        BY <3>1, <4>1, SameRises, SendersFrame
    <3>3. ASSUME NEW u \in Users, Grant(u) PROVE SendersCovered'
      <4>1. Rises /\ Credits({"grant"})
        BY <2>t, <3>3, Amounts, AddingRises DEF Grant, Credits
      <4>2. QED
        BY <3>1, <4>1, SendersFrame
    <3>4. ASSUME NEW u \in Users, NEW n \in Adjustments, Adjust(u, n), n >= 0
          PROVE  SendersCovered'
      <4>1. Rises /\ Credits({})
        BY <2>t, <3>4, Amounts, AddingRises DEF Adjust, Credits
      <4>2. QED
        BY <3>1, <4>1, SendersFrame
    <3>5. ASSUME NEW u \in Users, NEW n \in Adjustments, Adjust(u, n), n < 0
          PROVE  SendersCovered'
      <4>1. /\ \A x \in Users \ {u} : quota'[x] = quota[x]
            /\ credits' = [credits EXCEPT ![<<"lowered", u>>] = @ + 1]
        BY <2>t, <3>5 DEF Adjust, AddUserQuota
      <4>2. credits'[<<"lowered", u>>] # 0
        <5>1. credits[<<"lowered", u>>] \in Nat /\ <<"lowered", u>> \in Sources
          BY <2>t
        <5>2. QED
          BY <2>t, <4>1, <5>1
      <4>3. \A x \in Users \ {u} : credits'[<<"lowered", x>>] = credits[<<"lowered", x>>]
        BY <2>t, <4>1
      <4>4. \A x : Debiting(x)' = Debiting(x) /\ Charging(x)' = Charging(x)
        <5>1. \A x : \A v \in Workers : /\ v \in Debiting(x)' <=> v \in Debiting(x)
                                        /\ v \in Charging(x)' <=> v \in Charging(x)
          BY <3>1 DEF Undisturbed, Debiting, Charging, At
        <5>2. QED
          BY <5>1 DEF Debiting, Charging
      <4>5. \A x \in Users \ {u} : Covered(x) => Covered(x)'
        BY <3>1, <4>1, <4>4, SameCover
      <4>6. QED
        BY <2>t, <2>c, <3>1, <4>2, <4>3, <4>5 DEF SendersCovered
    <3>6. ASSUME RunDailyTasks \/ NextDay PROVE SendersCovered'
      <4>1. quota' = quota /\ Credits({"checkin", "grant"})
        BY <3>6 DEF RunDailyTasks, NextDay, accounts, history, Credits
      <4>2. QED
        BY <3>1, <4>1, SameRises, SendersFrame
    <3>7. \A n \in Adjustments : n >= 0 \/ n < 0
      BY Amounts
    <3>8. QED
      BY <2>8, <3>2, <3>3, <3>4, <3>5, <3>6, <3>7 DEF OutsideStep
  <2>9. ASSUME Crash PROVE SendersCovered'
    <3>1. UNCHANGED <<known, quota, used, credits>> /\ \A w \in Workers : task'[w].stage = "idle"
      BY <2>9 DEF Crash, accounts, Idle
    <3>2. \A x : Debiting(x)' = {} /\ Charging(x)' = {}
      BY <3>1 DEF Debiting, Charging, At
    <3>3. ASSUME NEW x \in Users, Covered(x) PROVE Covered(x)'
      <4>1. Reserved(x)' = 0
        BY <3>2, FS_EmptySet, Bounds DEF Reserved
      <4>2. Balance(x)' = Balance(x) /\ quota'[x] = quota[x]
        BY <2>b, <3>1
      <4>3. QED
        BY <2>b, <3>3, <4>1, <4>2, SpendingSets, Bounds DEF Covered
    <3>4. QED
      BY <2>t, <2>d, <3>1, <3>3
  <2>10. CASE UNCHANGED vars
    <3>1. \A x : Debiting(x)' = Debiting(x) /\ Charging(x)' = Charging(x)
      BY <2>10 DEF vars, Debiting, Charging, At
    <3>2. UNCHANGED <<known, quota, used, credits>>
      BY <2>10 DEF vars
    <3>3. QED
      BY <2>t, <2>d, <3>1, <3>2, SameCover
  <2>11. QED
    BY <2>1, <2>2, <2>3, <2>4, <2>5, <2>6, <2>7, <2>8, <2>9, <2>10, StepKinds DEF SpendStep
<1>q. QED
  BY <1>y, <1>z

-------------------------------------------------------------------------------
(* What all accounts hold                                                  *)

Balances == [u \in Users |-> Balance(u)]

LEMMA BalanceOf ==
  ASSUME TypeOK
  PROVE  /\ Balances \in [Users -> Int] /\ AllBalances = SumFunction(Balances)
         /\ AllBalances \in Int
         /\ \A u \in Users : Balances[u] = quota[u] - used[u] /\ quota[u] \in Int /\ used[u] \in Int
<1>1. \A u \in Users : Balance(u) = quota[u] - used[u] /\ quota[u] \in Int /\ used[u] \in Int
  BY DEF TypeOK, Balance
<1>2. Balances \in [Users -> Int]
  BY <1>1 DEF Balances
<1>3. AllBalances = SumFunction(Balances)
  BY DEF AllBalances, Balances
<1>4. SumFunction(Balances) \in Int
  BY <1>2, FiniteAssumption, SumType
<1>5. QED
  BY <1>1, <1>2, <1>3, <1>4 DEF Balances

\* One account changes, and the sum by as much.
LEMMA OneChanges ==
  ASSUME TypeOK, TypeOK', NEW u \in Users, NEW d \in Int,
         \A v \in Users : quota'[v] - used'[v] =
                            IF v = u THEN quota[v] - used[v] + d ELSE quota[v] - used[v]
  PROVE  AllBalances' = AllBalances + d
<1>1. /\ Balances \in [Users -> Int] /\ AllBalances = SumFunction(Balances)
      /\ \A v \in Users : Balances[v] = quota[v] - used[v]
  BY BalanceOf
<1>2. /\ Balances' \in [Users -> Int] /\ AllBalances' = SumFunction(Balances')
      /\ \A v \in Users : Balances'[v] = quota'[v] - used'[v]
  <2>1. \A v \in Users : Balance(v)' = quota'[v] - used'[v] /\ quota'[v] \in Int /\ used'[v] \in Int
    BY DEF TypeOK, Balance
  <2>2. \A v \in Users : Balances'[v] = quota'[v] - used'[v]
    BY <2>1 DEF Balances
  <2>3. Balances' \in [Users -> Int]
    BY <2>1 DEF Balances
  <2>4. AllBalances' = SumFunction(Balances')
    BY DEF AllBalances, Balances
  <2>5. QED
    BY <2>2, <2>3, <2>4
<1>3. DiffersBy(Users, Balances, Balances', u, d)
  BY <1>1, <1>2 DEF DiffersBy
<1>4. QED
  BY <1>1, <1>2, <1>3, FiniteAssumption, SumChange

LEMMA NoneChanges ==
  ASSUME UNCHANGED <<quota, used>>
  PROVE  AllBalances' = AllBalances
BY DEF AllBalances, Balance

\* What a step adds to an account it enters in the history.
Booked ==
  /\ used' = used
  /\ \/ quota' = quota /\ balance' = balance
     \/ \E u : \E n \in Int : /\ AddUserQuota(u, n)
                              /\ balance' = balance + (IF u \in known THEN n ELSE 0)

LEMMA BookedConserves ==
  ASSUME TypeOK, TypeOK', Conserved, Booked, Undisturbed({"creditTransfer"})
  PROVE  Conserved'
<1>t. balance \in Int /\ quota \in [Users -> Int] /\ used \in [Users -> Nat] /\ known \subseteq Users
  BY DEF TypeOK
<1>1. InTransit' = InTransit
  <2>1. {w \in Workers : At(w, "creditTransfer")}' = {w \in Workers : At(w, "creditTransfer")}
    BY DEF Undisturbed, At
  <2>2. QED
    BY <2>1 DEF InTransit
<1>2. CASE quota' = quota /\ balance' = balance
  BY <1>1, <1>2, NoneChanges DEF Booked, Conserved
<1>3. ASSUME NEW u, NEW n \in Int, AddUserQuota(u, n),
             balance' = balance + (IF u \in known THEN n ELSE 0)
      PROVE  Conserved'
  <2>1. CASE u \in known
    <3>1. \A v \in Users : quota'[v] - used'[v] =
                             IF v = u THEN quota[v] - used[v] + n ELSE quota[v] - used[v]
      <4>1. used' = used /\ quota' = [quota EXCEPT ![u] = @ + n]
        BY <1>3, <2>1 DEF Booked, AddUserQuota
      <4>2. \A v \in Users : quota'[v] = (IF v = u THEN quota[v] + n ELSE quota[v])
                             /\ quota[v] \in Int /\ used[v] \in Int
        BY <1>t, <4>1
      <4>3. QED
        BY <4>1, <4>2
    <3>2. u \in Users
      BY <1>t, <2>1
    <3>3. AllBalances' = AllBalances + n /\ AllBalances \in Int
      BY <3>1, <3>2, OneChanges, BalanceOf
    <3>4. InTransit \in Int
      BY Bounds, Crew DEF InTransit
    <3>5. balance' = balance + n
      BY <1>3, <2>1
    <3>6. QED
      BY <1>t, <1>1, <3>3, <3>4, <3>5 DEF Conserved
  <2>2. CASE u \notin known
    <3>1. quota' = quota /\ balance' = balance
      BY <1>t, <1>3, <2>2 DEF AddUserQuota
    <3>2. QED
      BY <1>1, <3>1, NoneChanges DEF Booked, Conserved
  <2>3. QED
    BY <2>1, <2>2
<1>4. QED
  BY <1>2, <1>3 DEF Booked

LEMMA HandlersBook ==
  ASSUME TypeOK, NEW w \in Workers, CodeStep(w) \/ OrderStep(w) \/ OtherStep(w)
  PROVE  Booked
<1>1. CASE CodeStep(w)
  <2>1. ASSUME CreditCode(w) PROVE Booked
    <3>1. CodeQuota \in Int
      BY Amounts
    <3>2. QED
      BY <2>1, <3>1 DEF CreditCode, Credit, Booked
  <2>2. QED
    BY <1>1, <2>1 DEF CodeStep, Redeem, RedeemSaveFails, accounts, history, Booked
<1>2. CASE OrderStep(w)
  <2>1. ASSUME CreditOrder(w) PROVE Booked
    <3>1. OrderAmount \in Int
      BY Amounts
    <3>2. QED
      BY <2>1, <3>1 DEF CreditOrder, Credit, Booked
  <2>2. QED
    BY <1>2, <2>1
       DEF OrderStep, CreateOrder, PayCallback, SavePaid, ReadMarker, accounts, history, Booked
<1>3. CASE OtherStep(w)
  <2>a. {PlanQuota, CheckinQuota, InviteQuota, InviteQuota \div 10} \subseteq Int
    BY Amounts
  <2>1. ASSUME NEW u \in Users, Subscribe(w, u) PROVE Booked
    BY <2>a, <2>1 DEF Subscribe, Booked
  <2>2. ASSUME CreditCheckin(w) PROVE Booked
    BY <2>a, <2>2 DEF CreditCheckin, Booked
  <2>3. ASSUME CreditInvitee(w) PROVE Booked
    BY <2>a, <2>3 DEF CreditInvitee, Credit, Booked
  <2>4. ASSUME CreditInviter(w) PROVE Booked
    <3>1. AddUserQuota(Root, InviteQuota \div 10) /\ used' = used
          /\ balance' = balance + (IF Root \in known THEN InviteQuota \div 10 ELSE 0)
      BY <2>4 DEF CreditInviter, TypeOK
    <3>2. QED
      BY <2>a, <3>1 DEF Booked
  <2>5. ASSUME \/ \E u \in Users : Checkin(w, u)
               \/ Mark(w) \/ MarkCheckin(w) \/ SaveSub(w) \/ LoadInvite(w) \/ SaveInvite(w)
        PROVE  Booked
    BY <2>5 DEF Checkin, Mark, MarkCheckin, SaveSub, LoadInvite, SaveInvite, accounts, history,
                Booked
  <2>6. QED
    BY <1>3, <2>1, <2>2, <2>3, <2>4, <2>5 DEF OtherStep
<1>4. QED
  BY <1>1, <1>2, <1>3

\* What is between a debit and its credit.
LEMMA TransitChanges ==
  ASSUME NEW w \in Workers
  PROVE  /\ InTransit \in Nat
         /\ Moves(w, {"debit"}, {"creditTransfer"}) => InTransit' = InTransit + TransferAmount
         /\ Moves(w, {"creditTransfer"}, {"idle"}) => InTransit' = InTransit - TransferAmount
<1>t. /\ TransferAmount \in Nat
      /\ Transferring \in SUBSET Workers /\ Cardinality(Transferring) \in Nat
      /\ Transferring' \in SUBSET Workers /\ Cardinality(Transferring') \in Nat
      /\ InTransit = TransferAmount * Cardinality(Transferring)
      /\ InTransit' = TransferAmount * Cardinality(Transferring')
  <2>1. Transferring \in SUBSET Workers /\ Transferring' \in SUBSET Workers
    BY DEF Transferring
  <2>2. /\ InTransit = TransferAmount * Cardinality(Transferring)
        /\ InTransit' = TransferAmount * Cardinality(Transferring')
    BY DEF InTransit, Transferring
  <2>3. QED
    BY <2>1, <2>2, Crew, Bounds
<1>1. InTransit \in Nat
  BY <1>t, Bounds
<1>2. ASSUME Moves(w, {"debit"}, {"creditTransfer"})
      PROVE  InTransit' = InTransit + TransferAmount
  <2>1. \A v \in Workers : v \in Transferring' <=> v \in Transferring \/ v = w
    BY <1>2 DEF Moves, Transferring, At
  <2>2. Transferring' = Transferring \union {w} /\ w \in Workers \ Transferring
    BY <1>t, <1>2, <2>1 DEF Moves, Transferring, At
  <2>3. Cardinality(Transferring') = Cardinality(Transferring) + 1
    BY <1>t, <2>2, Crew
  <2>4. QED
    BY <1>t, <2>3, Bounds
<1>3. ASSUME Moves(w, {"creditTransfer"}, {"idle"})
      PROVE  InTransit' = InTransit - TransferAmount
  <2>1. \A v \in Workers : v \in Transferring' <=> v \in Transferring /\ v # w
    BY <1>3 DEF Moves, Transferring, At
  <2>2. Transferring' = Transferring \ {w} /\ w \in Transferring
    BY <1>t, <1>3, <2>1 DEF Moves, Transferring, At
  <2>3. Cardinality(Transferring) = Cardinality(Transferring') + 1
    <3>1. Cardinality(Transferring') = Cardinality(Transferring) - 1
      BY <1>t, <2>2, Crew
    <3>2. QED
      BY <1>t, <3>1
  <2>4. InTransit = InTransit' + TransferAmount /\ InTransit' \in Nat
    BY <1>t, <2>3, Bounds
  <2>5. QED
    BY <1>t, <2>4
<1>4. QED
  BY <1>1, <1>2, <1>3

LEMMA ConservedStep ==
  ASSUME TypeOK, TypeOK', StrangersHaveNothing, Conserved, [Next]_vars
  PROVE  Conserved'
<1>t. /\ known \subseteq Users /\ quota \in [Users -> Int] /\ used \in [Users -> Nat]
      /\ AllBalances \in Int /\ balance \in Int
      /\ TransferAmount \in Int /\ RegisterQuota \in Int
  BY BalanceOf, Bounds, Amounts DEF TypeOK
<1>b. \A u \in Users : quota[u] \in Int /\ used[u] \in Int
  BY <1>t
<1>i. \A w \in Workers : InTransit \in Int
  BY TransitChanges
<1>1. ASSUME NEW w \in Workers, CodeStep(w) \/ OrderStep(w) \/ OtherStep(w) PROVE Conserved'
  <2>1. CASE CodeStep(w)
    <3>1. Undisturbed({"creditTransfer"})
      BY <2>1, CodeStepFrame, MovesUndisturbed
    <3>2. QED
      BY <2>1, <3>1, HandlersBook, BookedConserves
  <2>2. CASE OrderStep(w)
    <3>1. Undisturbed({"creditTransfer"})
      BY <2>2, OrderStepFrame, MovesUndisturbed DEF OrderStages
    <3>2. QED
      BY <2>2, <3>1, HandlersBook, BookedConserves
  <2>3. CASE OtherStep(w)
    <3>1. Undisturbed({"creditTransfer"})
      BY <2>3, OtherStepFrame, MovesUndisturbed DEF OtherStages, SpendStages
    <3>2. QED
      BY <2>3, <3>1, HandlersBook, BookedConserves
  <2>4. QED
    BY <1>1, <2>1, <2>2, <2>3
<1>2. ASSUME NEW w \in Workers, NEW u \in Users, NEW v \in Users, Transfer(w, u, v)
      PROVE  Conserved'
  <2>1. Moves(w, {"idle"}, {"debit"})
    BY <1>2, RequestMoves
  <2>2. Undisturbed({"creditTransfer"})
    BY <2>1, MovesUndisturbed
  <2>3. Booked
    BY <1>2 DEF Transfer, Booked, accounts, history
  <2>4. QED
    BY <2>2, <2>3, BookedConserves
<1>3. ASSUME NEW w \in Workers, Debit(w) PROVE Conserved'
  <2>u. PICK u : task[w].user = u
    OBVIOUS
  <2>1. Moves(w, {"debit"}, {"creditTransfer"})
    BY <1>3, ContinueMoves
  <2>2. /\ UNCHANGED <<known, quota, balance>>
        /\ used' = [used EXCEPT ![u] = @ + TransferAmount]
    BY <1>3, <2>u DEF Debit, history
  <2>3. u \in Users
    BY <1>t, <2>1, <2>u DEF Moves, StrangersHaveNothing
  <2>4. \A v \in Users : quota'[v] - used'[v] =
          IF v = u THEN quota[v] - used[v] + (-TransferAmount) ELSE quota[v] - used[v]
    <3>1. \A v \in Users : quota'[v] = quota[v]
                           /\ used'[v] = IF v = u THEN used[v] + TransferAmount ELSE used[v]
      BY <1>t, <2>2
    <3>2. QED
      BY <1>t, <1>b, <3>1
  <2>5. -TransferAmount \in Int
    BY <1>t
  <2>6. AllBalances' = AllBalances + (-TransferAmount)
    BY <2>3, <2>4, <2>5, OneChanges
  <2>7. InTransit' = InTransit + TransferAmount
    BY <2>1, TransitChanges
  <2>8. QED
    BY <1>t, <1>i, <2>2, <2>6, <2>7 DEF Conserved
<1>4. ASSUME NEW w \in Workers, CreditTransfer(w) PROVE Conserved'
  <2>u. PICK u : task[w].to = u
    OBVIOUS
  <2>1. Moves(w, {"creditTransfer"}, {"idle"})
    BY <1>4, ContinueMoves
  <2>2. u \in known
    BY <2>1, <2>u DEF Moves, StrangersHaveNothing
  <2>3. UNCHANGED <<used, balance>> /\ quota' = [quota EXCEPT ![u] = @ + TransferAmount]
    BY <1>4, <2>2, <2>u DEF CreditTransfer, AddUserQuota, history
  <2>4. \A v \in Users : quota'[v] - used'[v] =
          IF v = u THEN quota[v] - used[v] + TransferAmount ELSE quota[v] - used[v]
    <3>1. \A v \in Users : used'[v] = used[v]
                           /\ quota'[v] = IF v = u THEN quota[v] + TransferAmount ELSE quota[v]
      BY <1>t, <2>3
    <3>2. QED
      BY <1>t, <1>b, <3>1
  <2>5. AllBalances' = AllBalances + TransferAmount
    BY <1>t, <2>2, <2>4, OneChanges
  <2>6. InTransit' = InTransit - TransferAmount
    BY <2>1, TransitChanges
  <2>7. QED
    BY <1>t, <1>i, <2>3, <2>5, <2>6 DEF Conserved
<1>5. ASSUME NEW w \in Workers, RegisterStep(w) PROVE Conserved'
  <2>1. PICK u \in Users, i \in Invites \union {NoItem} : Register(w, u, i)
    BY <1>5 DEF RegisterStep
  <2>2. /\ u \notin known /\ used' = used /\ balance' = balance + RegisterQuota
        /\ quota' = [quota EXCEPT ![u] = RegisterQuota]
    BY <2>1 DEF Register
  <2>3. quota[u] = 0
    BY <2>2 DEF StrangersHaveNothing
  <2>4. \A v \in Users : quota'[v] - used'[v] =
          IF v = u THEN quota[v] - used[v] + RegisterQuota ELSE quota[v] - used[v]
    <3>1. \A v \in Users : used'[v] = used[v]
                           /\ quota'[v] = IF v = u THEN quota[v] + RegisterQuota ELSE quota[v]
      BY <1>t, <2>2, <2>3
    <3>2. QED
      BY <1>t, <1>b, <3>1
  <2>5. AllBalances' = AllBalances + RegisterQuota
    BY <1>t, <2>4, OneChanges
  <2>6. InTransit' = InTransit
    <3>1. Undisturbed({"creditTransfer"})
      BY <1>5, RegisterStepFrame, MovesUndisturbed DEF OtherStages, SpendStages
    <3>2. Transferring' = Transferring
      BY <3>1 DEF Undisturbed, Transferring, At
    <3>3. QED
      BY <3>2 DEF InTransit, Transferring
  <2>7. /\ balance' = balance + RegisterQuota /\ InTransit \in Int
        /\ AllBalances + InTransit = balance
    BY <1>i, <2>2 DEF Conserved
  <2>8. AllBalances' + InTransit' = balance'
    BY <1>t, <2>5, <2>6, <2>7
  <2>9. QED
    BY <2>8 DEF Conserved
<1>6. ASSUME OutsideStep PROVE Conserved'
  <2>1. used' = used /\ Undisturbed({"creditTransfer"})
    BY <1>6, OutsideStepFrame
  <2>2. ASSUME NEW u \in Users, Grant(u) PROVE Booked
    <3>1. PlanQuota \in Int
      BY Amounts
    <3>2. QED
      BY <2>1, <2>2, <3>1 DEF Grant, Booked
  <2>3. ASSUME NEW u \in Users, NEW n \in Adjustments, Adjust(u, n) PROVE Booked
    <3>1. n \in Int
      BY Amounts
    <3>2. QED
      BY <2>1, <2>3, <3>1 DEF Adjust, Booked
  <2>4. ASSUME \/ \E c \in Codes : CreateCode(c) \/ CreateCodeSaveFails(c)
               \/ RunDailyTasks \/ NextDay
        PROVE  Booked
    BY <2>4
       DEF CreateCode, CreateCodeSaveFails, RunDailyTasks, NextDay, accounts, history, Booked
  <2>5. Booked
    BY <1>6, <2>2, <2>3, <2>4 DEF OutsideStep
  <2>6. QED
    BY <2>1, <2>5, BookedConserves
<1>7. ASSUME Crash PROVE Conserved'
  <2>1. /\ UNCHANGED <<quota, used>> /\ balance' = balance - InTransit
        /\ \A w \in Workers : task'[w].stage = "idle"
    BY <1>7 DEF Crash, accounts, Idle
  <2>2. InTransit' = 0
    <3>1. Transferring' = {}
      BY <2>1 DEF Transferring, At
    <3>2. InTransit' = TransferAmount * Cardinality({})
      BY <3>1 DEF InTransit, Transferring
    <3>3. QED
      BY <1>t, <3>2, FS_EmptySet
  <2>3. InTransit \in Int
    <3>1. \E w : w \in Workers
      BY FiniteAssumption
    <3>2. QED
      BY <1>i, <3>1
  <2>4. AllBalances' = AllBalances
    BY <2>1, NoneChanges
  <2>5. QED
    BY <1>t, <2>1, <2>2, <2>3, <2>4 DEF Conserved
<1>8. CASE UNCHANGED vars
  <2>1. InTransit' = InTransit /\ UNCHANGED <<quota, used, balance>>
    BY <1>8 DEF vars, InTransit, At
  <2>2. QED
    BY <2>1, NoneChanges DEF Conserved
<1>9. ASSUME NEW w \in Workers, NEW u \in Users, Relay(w, u) PROVE Conserved'
  <2>1. Moves(w, {"idle"}, {"charge"})
    BY <1>9, RequestMoves
  <2>2. Undisturbed({"creditTransfer"})
    BY <2>1, MovesUndisturbed
  <2>3. Booked
    BY <1>9 DEF Relay, Booked, accounts, history
  <2>4. QED
    BY <2>2, <2>3, BookedConserves
<1>10. ASSUME NEW w \in Workers, Charge(w) PROVE Conserved'
  <2>u. PICK u : task[w].user = u
    OBVIOUS
  <2>1. Moves(w, {"charge"}, {"idle"})
    BY <1>10, ContinueMoves
  <2>2. PICK cost \in 0..MaxCost :
          used' = [used EXCEPT ![u] = @ + cost] /\ balance' = balance - cost
    BY <1>10, <2>u DEF Charge
  <2>3. quota' = quota /\ cost \in Int /\ -cost \in Int
    BY <1>10 DEF Charge
  <2>4. u \in Users
    BY <1>t, <2>1, <2>u DEF Moves, StrangersHaveNothing, At
  <2>5. \A v \in Users : quota'[v] - used'[v] =
          IF v = u THEN quota[v] - used[v] + (-cost) ELSE quota[v] - used[v]
    <3>1. \A v \in Users : quota'[v] = quota[v]
                           /\ used'[v] = IF v = u THEN used[v] + cost ELSE used[v]
      BY <1>t, <2>2, <2>3
    <3>2. QED
      BY <1>t, <1>b, <2>3, <3>1
  <2>6. AllBalances' = AllBalances + (-cost)
    BY <2>3, <2>4, <2>5, OneChanges
  <2>7. InTransit' = InTransit
    <3>1. Undisturbed({"creditTransfer"})
      BY <2>1, MovesUndisturbed
    <3>2. Transferring' = Transferring
      BY <3>1 DEF Undisturbed, Transferring, At
    <3>3. QED
      BY <3>2 DEF InTransit, Transferring
  <2>8. QED
    BY <1>t, <1>i, <2>2, <2>3, <2>6, <2>7 DEF Conserved
<1>11. QED
  BY <1>1, <1>2, <1>3, <1>4, <1>5, <1>6, <1>7, <1>8, <1>9, <1>10, StepKinds DEF SpendStep

-------------------------------------------------------------------------------
(* Theorems                                                                *)

IInv ==
  /\ TypeOK /\ StrangersHaveNothing /\ CodesTaken /\ GrantsCounted /\ OrdersCounted
  /\ SendersCovered /\ Conserved

LEMMA InitType == Init => TypeOK
<1> SUFFICES ASSUME Init PROVE TypeOK
  OBVIOUS
<1>1. /\ known \subseteq Users /\ Root \in known /\ mix \in Mixes /\ day = 0
      /\ credits \in [Sources -> Nat] /\ order \in [Orders -> {"none", "pending", "paid"}]
      /\ buyer \in [Orders -> Users \union {Nobody}]
      /\ quota \in [Users -> Int] /\ used \in [Users -> Nat]
  BY Amounts DEF Init
<1>2. task \in [Workers -> Task]
  <2>1. Idle \in Task
    BY Amounts DEF Idle, Task, Stages
  <2>2. QED
    BY <2>1 DEF Init
<1>3. balance \in Int
  <2>1. [u \in Users |-> Balance(u)] \in [Users -> Int]
    BY <1>1 DEF Balance
  <2>2. QED
    BY <2>1, FiniteAssumption, SumType DEF Init, AllBalances
<1>4. QED
  BY <1>1, <1>2, <1>3, Amounts DEF Init, TypeOK

LEMMA InitInv == Init => IInv
<1> SUFFICES ASSUME Init PROVE IInv
  OBVIOUS
<1>1. TypeOK
  BY InitType
<1>2. /\ \A w \in Workers : task[w].stage = "idle"
      /\ \A s \in Sources : credits[s] = 0
      /\ crashes = 0 /\ \A u \in Users : used[u] = 0
      /\ \A u \in Users \ {Root} : quota[u] = IF u \in known THEN RegisterQuota ELSE 0
      /\ Root \in known
  BY NamesAssumption DEF Init, Idle
<1>3. /\ \A u : Debiting(u) = {} /\ Charging(u) = {}
      /\ \A c : Redeeming(c) = {}
      /\ \A o : Handling(o) = {}
      /\ Transferring = {}
  BY <1>2 DEF Debiting, Charging, Redeeming, Handling, Transferring, At
<1>4. Cardinality({}) = 0
  BY FS_EmptySet
<1>5. StrangersHaveNothing
  BY <1>2 DEF StrangersHaveNothing, At
<1>6. CodesTaken
  BY <1>2, <1>3, SourceNames DEF CodesTaken, At
<1>7. GrantsCounted
  <2>1. ASSUME NEW u \in Users
        PROVE  credits[<<"grant", u>>] <= 1 + crashes /\ credits[<<"grant", u>>] <= crashes
    <3>1. credits[<<"grant", u>>] = 0
      BY <1>2, SourceNames
    <3>2. QED
      BY <1>2, <3>1
  <2>2. QED
    BY <2>1 DEF GrantsCounted
<1>8. OrdersCounted
  <2> SUFFICES ASSUME NEW o \in Orders PROVE OrderCounted(o)
    BY DEF OrdersCounted
  <2>1. credits[<<"order", o>>] = 0 /\ Handling(o) = {}
    BY <1>2, <1>3, SourceNames
  <2>2. credits[<<"order", o>>] + Cardinality(Handling(o)) = 0
    BY <1>4, <2>1
  <2>3. QED
    BY <2>1, <2>2, Crew DEF OrderCounted
<1>9. SendersCovered
  <2> SUFFICES ASSUME RegisterQuota >= 0, NEW u \in known \ {Root} PROVE Covered(u)
    BY DEF SendersCovered
  <2>1. u \in Users
    BY <1>1 DEF TypeOK
  <2>2. quota[u] = RegisterQuota /\ Balance(u) = RegisterQuota
    BY <1>2, <2>1, Amounts DEF Balance
  <2>3. Reserved(u) = 0
    <3>1. Cardinality(Debiting(u)) = 0 /\ Cardinality(Charging(u)) = 0
      BY <1>3, <1>4
    <3>2. TransferAmount * 0 = 0 /\ MaxCost * 0 = 0
      BY Bounds
    <3>3. QED
      BY <3>1, <3>2 DEF Reserved
  <2>4. QED
    BY <2>2, <2>3, Bounds, Amounts DEF Covered
<1>10. Conserved
  <2>1. InTransit = 0
    <3>1. InTransit = TransferAmount * Cardinality({})
      BY <1>3 DEF InTransit, Transferring
    <3>2. QED
      BY <1>4, <3>1, Bounds
  <2>2. AllBalances \in Int /\ balance = AllBalances
    BY <1>1, BalanceOf DEF Init
  <2>3. QED
    BY <2>1, <2>2 DEF Conserved
<1>11. QED
  BY <1>1, <1>5, <1>6, <1>7, <1>8, <1>9, <1>10 DEF IInv

LEMMA StepInv ==
  ASSUME IInv, [Next]_vars
  PROVE  IInv'
<1>1. TypeOK'
  BY TypeStep DEF IInv
<1>2. StrangersHaveNothing'
  BY StrangersStep DEF IInv
<1>3. CodesTaken'
  BY CodesStep DEF IInv
<1>4. GrantsCounted'
  BY GrantsStep DEF IInv
<1>5. OrdersCounted'
  BY OrdersStep DEF IInv
<1>6. SendersCovered'
  BY <1>1, SendersStep DEF IInv
<1>7. Conserved'
  BY <1>1, ConservedStep DEF IInv
<1>8. QED
  BY <1>1, <1>2, <1>3, <1>4, <1>5, <1>6, <1>7 DEF IInv

\* Every variable keeps its type.
THEOREM Types == Spec => []TypeOK
<1>1. IInv => TypeOK
  BY DEF IInv
<1>2. QED
  BY <1>1, InitInv, StepInv, PTL DEF Spec

\* However transfers, credits and crashes run into each other, the accounts and the
\* transfers under way add up to what was put in, less what a crash cut off.
THEOREM Conservation == Spec => []Conserved
<1>1. IInv => Conserved
  BY DEF IInv
<1>2. QED
  BY <1>1, InitInv, StepInv, PTL DEF Spec

\* Racing requests, failing saves, repeated callbacks and crashes credit a code once,
\* the daily grant once for each start, and an order once for each goroutine.
THEOREM CreditsOnce == Spec => []CreditsBounded
<1>1. ASSUME IInv PROVE CreditsBounded
  <2>1. CodeCreditedOnce
    BY <1>1 DEF IInv, CodesTaken, CodeCreditedOnce
  <2>2. GrantOncePerStart
    BY <1>1 DEF IInv, GrantsCounted, GrantOncePerStart
  <2>3. OrderCreditsBounded
    <3> SUFFICES ASSUME NEW o \in Orders
                 PROVE  credits[<<"order", o>>] <= Cardinality(Workers)
      BY DEF OrderCreditsBounded
    <3>1. credits[<<"order", o>>] + Cardinality(Handling(o)) <= Cardinality(Workers)
      BY <1>1 DEF IInv, OrdersCounted, OrderCounted
    <3>2. credits[<<"order", o>>] \in Nat
      BY <1>1, SourceNames DEF IInv, TypeOK
    <3>3. Cardinality(Handling(o)) \in Nat
      BY Crew DEF Handling
    <3>4. QED
      BY <3>1, <3>2, <3>3, Crew
  <2>4. QED
    BY <2>1, <2>2, <2>3 DEF CreditsBounded
<1>2. QED
  BY <1>1, InitInv, StepInv, PTL DEF Spec

\* Transfers and relayed requests whose checks all passed before the first of them took
\* anything overdraw an account by no more than one request beyond its last unit and
\* what the other goroutines can take.
THEOREM TransferOverdraft == Spec => []TransferOverdraftBounded
<1>1. ASSUME IInv PROVE TransferOverdraftBounded
  <2> SUFFICES ASSUME RegisterQuota >= 0, NEW u \in known \ {Root}, credits[<<"lowered", u>>] = 0
               PROVE  Balance(u) >= -MaxOverdraft
    BY DEF TransferOverdraftBounded
  <2>1. Covered(u)
    BY <1>1 DEF IInv, SendersCovered
  <2>2. Balance(u) \in Int
    BY <1>1 DEF IInv, TypeOK, Balance
  <2>3. Reserved(u) \in Nat /\ MaxOverdraft \in Nat
    BY SpendingSets, Bounds
  <2>4. QED
    BY <2>1, <2>2, <2>3 DEF Covered
<1>2. QED
  BY <1>1, InitInv, StepInv, PTL DEF Spec

================================================================================
