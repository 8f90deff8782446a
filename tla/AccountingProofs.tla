--------------------------- MODULE AccountingProofs ---------------------------
(***************************************************************************)
(* What is proved of Accounting for every number of goroutines, tokens,    *)
(* accounts, quotas and bounds: types, the two overdraft bounds, the bound *)
(* on what is answered for a token, and that the whole implements Meter.   *)
(***************************************************************************)
EXTENDS Metering, FiniteSetTheorems, TLAPS

USE DEF Uncapped, Stages

-------------------------------------------------------------------------------
(* Types                                                                   *)

\* The fresh and the absent records are records of the tables.
LEMMA RecordTypes ==
  /\ NoSuchToken \in TokenRecord
  /\ NoSuchAccount \in AccountRecord
  /\ Idle \in WorkRecord
  /\ \A u \in Users \union {NoOwner}, q \in Quotas, b \in BOOLEAN :
       FreshToken(u, q, b) \in TokenRecord
  /\ \A q \in Quotas : FreshAccount(q) \in AccountRecord
BY CostAssumption, AmountAssumption
   DEF NoSuchToken, NoSuchAccount, Idle, FreshToken, FreshAccount, TokenRecord,
       AccountRecord, WorkRecord

LEMMA RaiseType ==
  ASSUME NEW m \in Int, NEW n \in Int
  PROVE  Raise(m, n) \in Int
BY DEF Raise, Larger

LEMMA LimitType ==
  ASSUME NEW q \in Int, NEW b \in BOOLEAN
  PROVE  LimitOf(q, b) \in Int
BY DEF LimitOf

LEMMA CostTypes == Costs \subseteq 0..MaxCost
BY CostAssumption DEF Costs

LEMMA TransferTypes ==
  /\ NoTransfer \in TransferRecord
  /\ \A u, v \in Users \union {NoOwner}, n \in Nat :
       [stage |-> "debit", from |-> u, to |-> v, amount |-> n] \in TransferRecord
BY DEF NoTransfer, TransferRecord

\* A first start is well typed.
LEMMA InitTypeOK == Init => TypeOK
<1> SUFFICES ASSUME Init PROVE TypeOK
  OBVIOUS
<1>a. FreshTokens \subseteq TokenRecord /\ FreshAccounts \subseteq AccountRecord
  BY RecordTypes DEF FreshTokens, FreshAccounts
<1>b. {NoSuchToken} \union FreshTokens \subseteq TokenRecord
  BY <1>a, RecordTypes
<1>c. {NoSuchAccount} \union FreshAccounts \subseteq AccountRecord
  BY <1>a, RecordTypes
<1>1. token \in [Tokens -> TokenRecord] /\ account \in [Users -> AccountRecord]
  BY <1>b, <1>c DEF Init
<1>2. work \in [Workers -> WorkRecord]
  BY RecordTypes DEF Init
<1>3. peak \in [Tokens -> Int]
  <2>1. \A k \in Tokens : token[k].quota \in Int /\ token[k].unlimited \in BOOLEAN
    BY <1>1 DEF TokenRecord
  <2>2. ASSUME NEW k \in Tokens
        PROVE  Raise(0, LimitOf(token[k].quota, token[k].unlimited)) \in Int
    <3>1. LimitOf(token[k].quota, token[k].unlimited) \in Int
      BY <2>1, LimitType
    <3>2. QED
      BY <3>1, RaiseType
  <2>3. QED
    BY <2>2 DEF Init
<1>4. ceiling \in [Users -> Int]
  <2>1. \A u \in Users : Raise(0, account[u].quota) \in Int
    BY <1>1, RaiseType DEF AccountRecord
  <2>2. QED
    BY <2>1 DEF Init
<1>5. transfer \in [Senders -> TransferRecord]
  BY TransferTypes DEF Init
<1>6. QED
  BY <1>1, <1>2, <1>3, <1>4, <1>5 DEF Init, TypeOK, Idle

LEMMA ChargedType ==
  ASSUME TypeOK, NEW k \in Tokens, NEW c \in Nat
  PROVE  [token EXCEPT ![k].used = @ + c] \in [Tokens -> TokenRecord]
<1>1. token[k] \in TokenRecord /\ token[k].used + c \in Nat
  BY DEF TypeOK, TokenRecord
<1>2. [token[k] EXCEPT !.used = token[k].used + c] \in TokenRecord
  BY <1>1 DEF TokenRecord
<1>3. QED
  BY <1>2 DEF TypeOK

LEMMA UsedType ==
  ASSUME TypeOK, NEW u, NEW n \in Nat
  PROVE  AddUserUsed(u, n) \in [Users -> AccountRecord]
<1>1. CASE u \in Users /\ account[u].present
  <2>1. account[u] \in AccountRecord /\ account[u].used + n \in Nat
    BY <1>1 DEF TypeOK, AccountRecord
  <2>2. [account[u] EXCEPT !.used = account[u].used + n] \in AccountRecord
    BY <2>1 DEF AccountRecord
  <2>3. QED
    BY <1>1, <2>2 DEF AddUserUsed, TypeOK
<1>2. CASE ~(u \in Users /\ account[u].present)
  BY <1>2 DEF AddUserUsed, TypeOK
<1>3. QED
  BY <1>1, <1>2

\* Every step of a relayed request keeps the types.
LEMMA RelayTypeOK ==
  ASSUME TypeOK, NEW w \in Workers, RelayStep(w)
  PROVE  TypeOK'
<1>1. ASSUME NEW k \in Tokens, Authenticate(w, k) PROVE TypeOK'
  BY <1>1, CostAssumption
     DEF TypeOK, Authenticate, tables, history, WorkRecord, TokenRecord
<1>2. CASE CheckOwner(w)
  BY <1>2, RecordTypes DEF TypeOK, CheckOwner, tables, history, WorkRecord, Idle
<1>3. CASE Refuse(w)
  BY <1>3, RecordTypes DEF TypeOK, Refuse, tables, history, Idle
<1>4. CASE Deliver(w)
  <2>1. PICK c \in Costs :
          /\ work' = [work EXCEPT ![w].stage = "charge", ![w].cost = c]
          /\ served' = IF token[work[w].key].present
                       THEN [served EXCEPT ![work[w].key] = @ + c] ELSE served
    BY <1>4 DEF Deliver
  <2>2. c \in 0..MaxCost /\ c \in Nat /\ work[w].key \in Tokens
    BY <1>4, CostTypes, CostAssumption DEF TypeOK, Deliver
  <2>3. /\ work' \in [Workers -> WorkRecord]
        /\ \A v \in Workers : work'[v].stage # "idle" => work'[v].key \in Tokens
    BY <2>1, <2>2, ZenonT(60) DEF TypeOK, WorkRecord
  <2>4. served' \in [Tokens -> Nat]
    BY <2>1, <2>2 DEF TypeOK
  <2>5. QED
    BY <1>4, <2>3, <2>4 DEF TypeOK, Deliver, tables
<1>5. CASE ChargeToken(w)
  <2>1. work[w].cost \in Nat /\ work[w].key \in Tokens
    BY <1>5, CostAssumption DEF TypeOK, ChargeToken, WorkRecord
  <2>2. token' \in [Tokens -> TokenRecord]
    BY <1>5, <2>1, ChargedType DEF TypeOK, ChargeToken, UseToken
  <2>3. /\ work' \in [Workers -> WorkRecord]
        /\ \A v \in Workers : work'[v].stage # "idle" => work'[v].key \in Tokens
    BY <1>5 DEF TypeOK, ChargeToken, WorkRecord
  <2>4. QED
    BY <1>5, <2>2, <2>3 DEF TypeOK, ChargeToken, history
<1>6. CASE ChargeOwner(w)
  <2>1. work[w].cost \in Nat
    BY CostAssumption DEF TypeOK, WorkRecord
  <2>2. account' \in [Users -> AccountRecord]
    BY <1>6, <2>1, UsedType DEF TypeOK, ChargeOwner
  <2>3. /\ work' \in [Workers -> WorkRecord]
        /\ \A v \in Workers : work'[v].stage # "idle" => work'[v].key \in Tokens
    BY <1>6, RecordTypes DEF TypeOK, ChargeOwner, Idle
  <2>4. QED
    BY <1>6, <2>2, <2>3 DEF TypeOK, ChargeOwner, history
<1>7. QED
  BY <1>1, <1>2, <1>3, <1>4, <1>5, <1>6 DEF RelayStep

LEMMA RechargeTypeOK ==
  ASSUME TypeOK, NEW u \in Users \union {NoOwner}, NEW n \in Int, AddUserQuota(u, n)
  PROVE  account' \in [Users -> AccountRecord] /\ ceiling' \in [Users -> Int]
<1>1. CASE u \in Users /\ account[u].present
  <2>1. account[u] \in AccountRecord /\ ceiling[u] \in Int
    BY <1>1 DEF TypeOK
  <2>2. account[u].quota + n \in Int
    BY <2>1 DEF AccountRecord
  <2>3. [account[u] EXCEPT !.quota = account[u].quota + n] \in AccountRecord
    BY <2>1, <2>2 DEF AccountRecord
  <2>4. Raise(ceiling[u], account[u].quota + n) \in Int
    BY <2>1, <2>2, RaiseType
  <2>5. QED
    BY <1>1, <2>3, <2>4 DEF AddUserQuota, TypeOK
<1>2. CASE ~(u \in Users /\ account[u].present)
  BY <1>2 DEF AddUserQuota, TypeOK
<1>3. QED
  BY <1>1, <1>2

\* Every step of a transfer keeps the types.
LEMMA TransferTypeOK ==
  ASSUME TypeOK, NEW s \in Senders, TransferStep(s)
  PROVE  TypeOK'
<1>t. /\ transfer \in [Senders -> TransferRecord] /\ transfer[s] \in TransferRecord
      /\ transfer[s].amount \in Nat /\ transfer[s].amount \in Int
      /\ transfer[s].to \in Users \union {NoOwner}
  BY DEF TypeOK, TransferRecord
<1>1. ASSUME NEW u \in Users, NEW v \in Users, NEW n \in TransferAmounts, Transfer(s, u, v, n)
      PROVE  TypeOK'
  <2>1. [stage |-> "debit", from |-> u, to |-> v, amount |-> n] \in TransferRecord
    BY AmountAssumption, TransferTypes
  <2>2. transfer' \in [Senders -> TransferRecord]
    BY <1>1, <1>t, <2>1 DEF Transfer
  <2>3. QED
    BY <1>1, <2>2 DEF Transfer, TypeOK, tables, history
<1>2. CASE Debit(s)
  <2>1. account' \in [Users -> AccountRecord]
    BY <1>2, <1>t, UsedType DEF Debit
  <2>2. [transfer[s] EXCEPT !.stage = "credit"] \in TransferRecord
    BY <1>t DEF TransferRecord
  <2>3. transfer' \in [Senders -> TransferRecord]
    BY <1>2, <1>t, <2>2 DEF Debit
  <2>4. QED
    BY <1>2, <2>1, <2>3 DEF TypeOK, Debit, history
<1>3. CASE CreditRecipient(s)
  <2>1. account' \in [Users -> AccountRecord] /\ ceiling' \in [Users -> Int]
    BY <1>3, <1>t, RechargeTypeOK DEF CreditRecipient
  <2>2. transfer' \in [Senders -> TransferRecord]
    BY <1>3, <1>t, TransferTypes DEF CreditRecipient
  <2>3. QED
    BY <1>3, <2>1, <2>2 DEF TypeOK, CreditRecipient
<1>4. QED
  BY <1>1, <1>2, <1>3 DEF TransferStep

\* The prefix proxy and every administrative change of a token keep the types.
LEMMA TokenTypeOK ==
  ASSUME TypeOK, NEW k \in Tokens, CheckAndUse(k) \/ TokenEdit(k)
  PROVE  TypeOK'
<1>1. CASE CheckAndUse(k)
  <2>1. token' \in [Tokens -> TokenRecord]
    BY <1>1, ChargedType DEF CheckAndUse
  <2>2. served' \in [Tokens -> Nat]
    BY <1>1 DEF CheckAndUse, TypeOK
  <2>3. QED
    BY <1>1, <2>1, <2>2 DEF CheckAndUse, TypeOK
<1>2. ASSUME NEW u \in Users \union {NoOwner}, NEW q \in Quotas, NEW b \in BOOLEAN,
             InsertToken(k, u, q, b)
      PROVE  TypeOK'
  <2>1. FreshToken(u, q, b) \in TokenRecord
    BY RecordTypes
  <2>2. Raise(0, LimitOf(q, b)) \in Int
    <3>1. q \in Int
      BY AmountAssumption
    <3>2. LimitOf(q, b) \in Int
      BY <3>1, LimitType
    <3>3. QED
      BY <3>2, RaiseType
  <2>3. QED
    BY <1>2, <2>1, <2>2 DEF InsertToken, Edit, TypeOK
<1>3. ASSUME NEW k2 \in Tokens, NEW q \in Quotas, NEW b \in BOOLEAN, NEW e \in BOOLEAN,
             NEW x \in BOOLEAN, UpdateToken(k, k2, q, b, e, x)
      PROVE  TypeOK'
  <2>1. q \in Int /\ token[k] \in TokenRecord /\ token[k].used \in Nat /\ peak[k] \in Int
    BY AmountAssumption DEF TypeOK, TokenRecord
  <2>2. [token[k] EXCEPT !.quota = q, !.unlimited = b, !.enabled = e, !.expired = x] \in TokenRecord
    BY <2>1 DEF TokenRecord
  <2>3. Raise(peak[k], LimitOf(q, b)) \in Int
    <3>1. LimitOf(q, b) \in Int
      BY <2>1, LimitType
    <3>2. QED
      BY <2>1, <3>1, RaiseType
  <2>4. token' \in [Tokens -> TokenRecord]
    BY <1>3, <2>2, RecordTypes DEF UpdateToken, TypeOK
  <2>5. /\ peak' \in [Tokens -> Int]
        /\ served' \in [Tokens -> Nat] /\ base' \in [Tokens -> Nat]
    BY <1>3, <2>1, <2>3 DEF UpdateToken, TypeOK
  <2>6. QED
    BY <1>3, <2>4, <2>5 DEF UpdateToken, Edit, TypeOK
<1>4. CASE DeleteToken(k)
  BY <1>4, RecordTypes DEF DeleteToken, Edit, TypeOK, history
<1>5. CASE Expire(k)
  <2>0. token[k] \in TokenRecord
    BY DEF TypeOK
  <2>1. [token[k] EXCEPT !.expired = TRUE] \in TokenRecord
    BY <2>0 DEF TokenRecord
  <2>2. token' \in [Tokens -> TokenRecord]
    BY <1>5, <2>1 DEF Expire, TypeOK
  <2>3. QED
    BY <1>5, <2>2 DEF Expire, Edit, TypeOK, history
<1>6. QED
  BY <1>1, <1>2, <1>3, <1>4, <1>5 DEF TokenEdit

LEMMA UpdateUserTypeOK ==
  ASSUME TypeOK, NEW u \in Users, NEW u2 \in Users, NEW e \in BOOLEAN, NEW q \in Int,
         UpdateUser(u, u2, e, q)
  PROVE  TypeOK'
<1>1. [account[u] EXCEPT !.enabled = e, !.quota = q] \in AccountRecord
  BY DEF TypeOK, AccountRecord
<1>2. Raise(ceiling[u], q) \in Int
  BY RaiseType DEF TypeOK
<1>3. account' \in [Users -> AccountRecord]
  BY <1>1, RecordTypes DEF UpdateUser, TypeOK
<1>4. ceiling' \in [Users -> Int]
  BY <1>2 DEF UpdateUser, TypeOK
<1>5. QED
  BY <1>3, <1>4 DEF UpdateUser, Edit, TypeOK

\* Every administrative change of an account keeps the types.
LEMMA AccountTypeOK ==
  ASSUME TypeOK, NEW u \in Users, AccountEdit(u)
  PROVE  TypeOK'
<1>1. ASSUME NEW q \in Quotas, CreateUser(u, q) PROVE TypeOK'
  <2>1. FreshAccount(q) \in AccountRecord /\ ceiling[u] \in Int
    BY RecordTypes DEF TypeOK
  <2>2. Raise(ceiling[u], q) \in Int
    BY <2>1, AmountAssumption, RaiseType
  <2>3. QED
    BY <1>1, <2>1, <2>2 DEF CreateUser, Edit, TypeOK
<1>2. ASSUME NEW u2 \in Users, NEW e \in BOOLEAN, NEW q \in Quotas, UpdateUser(u, u2, e, q)
      PROVE TypeOK'
  <2>1. q \in Int
    BY AmountAssumption
  <2>2. QED
    BY <1>2, <2>1, UpdateUserTypeOK
<1>3. CASE ResetPassword(u)
  <2>1. UpdateUser(u, u, FALSE, 0)
    BY <1>3 DEF ResetPassword
  <2>2. FALSE \in BOOLEAN /\ 0 \in Int
    OBVIOUS
  <2>3. QED
    BY <2>1, <2>2, UpdateUserTypeOK
<1>4. CASE DeleteUser(u)
  BY <1>4, RecordTypes DEF DeleteUser, Edit, TypeOK, history
<1>5. ASSUME NEW n \in Credits, Recharge(u, n) PROVE TypeOK'
  <2>1. n \in Int /\ u \in Users \union {NoOwner}
    BY AmountAssumption
  <2>2. account' \in [Users -> AccountRecord] /\ ceiling' \in [Users -> Int]
    BY <1>5, <2>1, RechargeTypeOK DEF Recharge
  <2>3. QED
    BY <1>5, <2>2 DEF Recharge, Edit, TypeOK
<1>6. QED
  BY <1>1, <1>2, <1>3, <1>4, <1>5 DEF AccountEdit

LEMMA NextTypeOK == TypeOK /\ [Next]_vars => TypeOK'
<1> SUFFICES ASSUME TypeOK, [Next]_vars PROVE TypeOK'
  OBVIOUS
<1>1. ASSUME NEW w \in Workers, RelayStep(w) PROVE TypeOK'
  BY <1>1, RelayTypeOK
<1>2. ASSUME NEW k \in Tokens, CheckAndUse(k) \/ TokenEdit(k) PROVE TypeOK'
  BY <1>2, TokenTypeOK
<1>3. ASSUME NEW u \in Users, AccountEdit(u) PROVE TypeOK'
  BY <1>3, AccountTypeOK
<1>4. ASSUME NEW m \in {"self", "biz"}, UpdateMode(m) PROVE TypeOK'
  BY <1>4 DEF UpdateMode, Edit, TypeOK, tables, history
<1>5. CASE Crash
  <2>1. \A k \in Tokens : token[k].used \in Nat
    BY DEF TypeOK, TokenRecord
  <2>2. QED
    BY <1>5, <2>1, RecordTypes, TransferTypes DEF Crash, TypeOK, tables, Idle
<1>6. CASE UNCHANGED vars
  BY <1>6 DEF vars, TypeOK
<1>7. ASSUME NEW s \in Senders, TransferStep(s) PROVE TypeOK'
  BY <1>7, TransferTypeOK
<1>8. QED
  BY <1>1, <1>2, <1>3, <1>4, <1>5, <1>6, <1>7 DEF Next

\* The types of Accounting hold in every reachable state.
THEOREM TypeCorrect == Spec => []TypeOK
BY InitTypeOK, NextTypeOK, PTL DEF Spec

-------------------------------------------------------------------------------
(* The overdraft of a token                                                *)

\* The strengthening: while the history says a limit was always set, the limit in
\* force is a real one and at most the highest one seen.
TokenCapped(k) ==
  token[k].present /\ peak[k] >= 0 =>
    /\ ~token[k].unlimited
    /\ 0 <= token[k].quota /\ token[k].quota <= peak[k]
    /\ token[k].used <= Larger(peak[k] - 1, 0) + MaxCost

TokensCapped == \A k \in Tokens : TokenCapped(k)

LEMMA InitTokensCapped == Init => TokensCapped
<1> SUFFICES ASSUME Init, NEW k \in Tokens PROVE TokenCapped(k)
  BY DEF TokensCapped
<1>1. CASE token[k] = NoSuchToken
  BY <1>1 DEF TokenCapped, NoSuchToken
<1>2. ASSUME NEW u \in Users \union {NoOwner}, NEW q \in Quotas, NEW b \in BOOLEAN,
             token[k] = FreshToken(u, q, b)
      PROVE  TokenCapped(k)
  <2>1. q \in Int
    BY AmountAssumption
  <2>2. /\ peak[k] = Raise(0, LimitOf(q, b))
        /\ token[k].quota = q /\ token[k].unlimited = b /\ token[k].used = 0
    BY <1>2 DEF Init, FreshToken
  <2>3. QED
    BY <2>1, <2>2, CostAssumption DEF TokenCapped, Raise, LimitOf, Larger
<1>3. token[k] \in {NoSuchToken} \union FreshTokens
  BY DEF Init
<1>4. QED
  BY <1>1, <1>2, <1>3 DEF FreshTokens

\* A charge keeps the cap: it is made below the quota and is at most MaxCost.
LEMMA ChargeKeepsCap ==
  ASSUME TypeOK, NEW k \in Tokens, TokenCapped(k), NEW c \in 0..MaxCost,
         ~Exhausted(token[k]), token'[k] = [token[k] EXCEPT !.used = token[k].used + c],
         peak' = peak
  PROVE  TokenCapped(k)'
<1>1. /\ token[k] \in TokenRecord /\ peak[k] \in Int
      /\ token[k].used \in Nat /\ token[k].quota \in Int
  BY DEF TypeOK, TokenRecord
<1>2. /\ token'[k].present = token[k].present
      /\ token'[k].unlimited = token[k].unlimited
      /\ token'[k].quota = token[k].quota
      /\ token'[k].used = token[k].used + c
  BY <1>1 DEF TokenRecord
<1>3. QED
  BY <1>1, <1>2, CostAssumption DEF TokenCapped, Exhausted, Larger

LEMMA NextTokensCapped == TypeOK /\ TokensCapped /\ [Next]_vars => TokensCapped'
<1> SUFFICES ASSUME TypeOK, TokensCapped, [Next]_vars, NEW j \in Tokens
             PROVE  TokenCapped(j)'
  BY DEF TokensCapped
<1>t. /\ TokenCapped(j)
      /\ token \in [Tokens -> TokenRecord] /\ peak \in [Tokens -> Int]
  BY DEF TokensCapped, TypeOK
<1>1. ASSUME token' = token, peak' = peak PROVE TokenCapped(j)'
  BY <1>1, <1>t DEF TokenCapped
<1>2. ASSUME NEW w \in Workers, RelayStep(w) PROVE TokenCapped(j)'
  <2>1. ASSUME NEW k \in Tokens, Authenticate(w, k) PROVE TokenCapped(j)'
    BY <2>1, <1>1 DEF Authenticate, tables, history
  <2>2. CASE CheckOwner(w) \/ Refuse(w) \/ Deliver(w) \/ ChargeOwner(w)
    BY <2>2, <1>1 DEF CheckOwner, Refuse, Deliver, ChargeOwner, tables, history
  <2>3. CASE ChargeToken(w)
    <3>1. /\ work[w].key \in Tokens /\ work[w].cost \in 0..MaxCost
          /\ peak' = peak /\ token' = UseToken(work[w].key, work[w].cost)
      BY <2>3 DEF ChargeToken, TypeOK, WorkRecord, history
    <3>2. CASE token' = token
      BY <3>1, <3>2, <1>1
    <3>3. CASE j # work[w].key
      BY <3>1, <3>3, <1>t DEF UseToken, TokenCapped
    <3>4. CASE j = work[w].key /\ token' # token
      <4>1. /\ ~Exhausted(token[j])
            /\ token'[j] = [token[j] EXCEPT !.used = token[j].used + work[w].cost]
        BY <3>1, <3>4, <1>t DEF UseToken
      <4>2. QED
        BY <3>1, <4>1, <1>t, ChargeKeepsCap
    <3>5. QED
      BY <3>2, <3>3, <3>4
  <2>4. QED
    BY <1>2, <2>1, <2>2, <2>3 DEF RelayStep
<1>3. ASSUME NEW k \in Tokens, CheckAndUse(k) PROVE TokenCapped(j)'
  <2>1. peak' = peak /\ token' = [token EXCEPT ![k].used = @ + 1] /\ LegacyAllowed(token[k])
    BY <1>3 DEF CheckAndUse
  <2>2. CASE j # k
    BY <2>1, <2>2, <1>t DEF TokenCapped
  <2>3. CASE j = k
    <3>1. CASE Exhausted(token[k])
      BY <2>1, <3>1 DEF Exhausted, LegacyAllowed
    <3>2. CASE ~Exhausted(token[k])
      <4>1. 1 \in 0..MaxCost
        BY CostAssumption
      <4>2. token'[j] = [token[j] EXCEPT !.used = token[j].used + 1]
        BY <2>1, <2>3, <1>t
      <4>3. QED
        BY <2>1, <2>3, <3>2, <4>1, <4>2, <1>t, ChargeKeepsCap
    <3>3. QED
      BY <3>1, <3>2
  <2>4. QED
    BY <2>2, <2>3
<1>4. ASSUME NEW k \in Tokens, TokenEdit(k) PROVE TokenCapped(j)'
  <2>1. ASSUME NEW u \in Users \union {NoOwner}, NEW q \in Quotas, NEW b \in BOOLEAN,
               InsertToken(k, u, q, b)
        PROVE  TokenCapped(j)'
    <3>1. q \in Int
      BY AmountAssumption
    <3>2. CASE j # k
      BY <2>1, <3>2, <1>t DEF InsertToken, TokenCapped
    <3>3. CASE j = k
      <4>1. /\ token'[j].quota = q /\ token'[j].unlimited = b /\ token'[j].used = 0
            /\ peak'[j] = Raise(0, LimitOf(q, b))
        BY <2>1, <3>3, <1>t DEF InsertToken, FreshToken
      <4>2. QED
        BY <3>1, <4>1, CostAssumption DEF TokenCapped, Raise, LimitOf, Larger
    <3>4. QED
      BY <3>2, <3>3
  <2>2. ASSUME NEW k2 \in Tokens, NEW q \in Quotas, NEW b \in BOOLEAN, NEW e \in BOOLEAN,
               NEW x \in BOOLEAN, UpdateToken(k, k2, q, b, e, x)
        PROVE  TokenCapped(j)'
    <3>1. q \in Int /\ token[k] \in TokenRecord /\ token[k].used \in Nat /\ peak[k] \in Int
      BY <1>t, AmountAssumption DEF TokenRecord
    <3>2. CASE j = k2
      <4>1. token'[j] = [token[k] EXCEPT !.quota = q, !.unlimited = b,
                                         !.enabled = e, !.expired = x]
        BY <2>2, <3>2, <1>t DEF UpdateToken
      <4>2. /\ token'[j].quota = q /\ token'[j].unlimited = b
            /\ token'[j].used = token[k].used /\ token[k].present
            /\ peak'[j] = Raise(peak[k], LimitOf(q, b))
        BY <2>2, <3>1, <3>2, <4>1, <1>t DEF UpdateToken, TokenRecord
      <4>3. TokenCapped(k)
        BY DEF TokensCapped
      <4>4. QED
        BY <3>1, <4>2, <4>3, CostAssumption DEF TokenCapped, Raise, LimitOf, Larger
    <3>3. CASE j = k /\ j # k2
      BY <2>2, <3>3, <1>t DEF UpdateToken, TokenCapped, NoSuchToken
    <3>4. CASE j # k /\ j # k2
      BY <2>2, <3>4, <1>t DEF UpdateToken, TokenCapped
    <3>5. QED
      BY <3>2, <3>3, <3>4
  <2>3. CASE DeleteToken(k)
    BY <2>3, <1>t DEF DeleteToken, TokenCapped, NoSuchToken, history
  <2>4. CASE Expire(k)
    <3>1. token' = [token EXCEPT ![k] = [token[k] EXCEPT !.expired = TRUE]] /\ peak' = peak
      BY <2>4 DEF Expire, history
    <3>2. /\ token'[j].present = token[j].present /\ token'[j].unlimited = token[j].unlimited
          /\ token'[j].quota = token[j].quota /\ token'[j].used = token[j].used
      BY <3>1, <1>t DEF TokenRecord
    <3>3. QED
      BY <3>1, <3>2, <1>t DEF TokenCapped
  <2>5. QED
    BY <1>4, <2>1, <2>2, <2>3, <2>4 DEF TokenEdit
<1>5. ASSUME NEW u \in Users, AccountEdit(u) PROVE TokenCapped(j)'
  BY <1>5, <1>1 DEF AccountEdit, CreateUser, UpdateUser, ResetPassword, DeleteUser,
                    Recharge, history
<1>6. ASSUME NEW m \in {"self", "biz"}, UpdateMode(m) PROVE TokenCapped(j)'
  BY <1>6, <1>1 DEF UpdateMode, tables, history
<1>7. CASE Crash
  BY <1>7, <1>1 DEF Crash, tables
<1>8. CASE UNCHANGED vars
  BY <1>8, <1>1 DEF vars
<1>9. ASSUME NEW s \in Senders, TransferStep(s) PROVE TokenCapped(j)'
  BY <1>9, <1>1 DEF TransferStep, Transfer, Debit, CreditRecipient, tables, history
<1>10. QED
  BY <1>2, <1>3, <1>4, <1>5, <1>6, <1>7, <1>8, <1>9 DEF Next

\* A token that always had a limit is overdrawn by less than one answer, for every
\* number of goroutines: UseToken checks and charges in one critical section.
THEOREM TokenOverdraft == Spec => []TokenOverdraftBounded
<1>1. TypeOK /\ TokensCapped => TokenOverdraftBounded
  BY DEF TokensCapped, TokenCapped, TokenOverdraftBounded
<1>2. QED
  BY <1>1, InitTokensCapped, NextTokensCapped, TypeCorrect, PTL DEF Spec

-------------------------------------------------------------------------------
(* The overdraft of an account                                             *)

\* The goroutines that passed UserQuotaAllowed for an account and have not charged
\* it yet: each may still add MaxCost to it.
InFlight(u) ==
  {w \in Workers : work[w].stage \in {"routing", "charge", "account"} /\ work[w].owner = u}

Reserved(u) == Cardinality(InFlight(u)) * MaxCost

\* The goroutines that are about to debit an account with a transfer, and the others:
\* only what the others may still send counts beside what is used.
Sending(u) == {s \in Senders : transfer[s].stage = "debit" /\ transfer[s].from = u}

Free(u) == Senders \ Sending(u)

Bound(c) == Larger(c - 1, 0) + Exposure

\* The strengthening: no transfer under way is larger than the highest limit, and what
\* is used together with what is reserved stays in the bound.
OwnerCapped(u) ==
  ceiling[u] >= 0 =>
    /\ \A s \in Sending(u) : transfer[s].amount <= ceiling[u]
    /\ account[u].present =>
         /\ 0 <= account[u].quota /\ account[u].quota <= ceiling[u]
         /\ account[u].used + Reserved(u)
              <= Bound(ceiling[u]) + Cardinality(Free(u)) * ceiling[u]

OwnersCapped == \A u \in Users : OwnerCapped(u)

LEMMA Scaling ==
  /\ \A m, n \in Nat : m <= n => m * MaxCost <= n * MaxCost
  /\ \A m \in Nat : (m + 1) * MaxCost = m * MaxCost + MaxCost
  /\ \A m \in Nat : m * MaxCost \in Nat
BY CostAssumption

\* What a set of goroutines may add grows with the set and is at most the exposure.
LEMMA SubsetScale ==
  ASSUME NEW T \in SUBSET Workers, NEW S \in SUBSET T
  PROVE  /\ Cardinality(S) * MaxCost \in Nat /\ Cardinality(T) * MaxCost \in Nat
         /\ Cardinality(S) * MaxCost <= Cardinality(T) * MaxCost
         /\ Exposure \in Nat /\ Cardinality(T) * MaxCost <= Exposure
<1>1. /\ IsFiniteSet(T) /\ Cardinality(T) \in Nat /\ Cardinality(Workers) \in Nat
      /\ Cardinality(T) <= Cardinality(Workers)
  BY WorkersAssumption, FS_Subset, FS_CardinalityType
<1>2. Cardinality(S) \in Nat /\ Cardinality(S) <= Cardinality(T)
  BY <1>1, FS_Subset, FS_CardinalityType
<1>3. QED
  BY <1>1, <1>2, Scaling DEF Exposure

LEMMA AddScale ==
  ASSUME NEW T \in SUBSET Workers, NEW w, w \notin T
  PROVE  Cardinality(T \union {w}) * MaxCost = Cardinality(T) * MaxCost + MaxCost
<1>1. IsFiniteSet(T) /\ Cardinality(T) \in Nat
  BY WorkersAssumption, FS_Subset, FS_CardinalityType
<1>2. Cardinality(T \union {w}) = Cardinality(T) + 1
  BY <1>1, FS_AddElement
<1>3. QED
  BY <1>1, <1>2, Scaling

LEMMA InFlightWorkers ==
  \A u : InFlight(u) \in SUBSET Workers /\ InFlight(u)' \in SUBSET Workers
BY DEF InFlight

LEMMA SharesGrow ==
  /\ \A m, n, c \in Nat : m <= n => m * c <= n * c
  /\ \A m, c, d \in Nat : c <= d => m * c <= m * d
  /\ \A m, c \in Nat : (m + 1) * c = m * c + c
  /\ \A m, c \in Nat : m * c \in Nat
OBVIOUS

\* The goroutines that have no transfer of an account under way are more when those
\* that have one are fewer, and one fewer when one more has one.
LEMMA FreeCount ==
  ASSUME NEW S \in SUBSET Senders
  PROVE  /\ Cardinality(Senders \ S) \in Nat /\ Cardinality(Senders) \in Nat
         /\ Cardinality(Senders \ S) <= Cardinality(Senders)
         /\ \A T \in SUBSET S : Cardinality(Senders \ S) <= Cardinality(Senders \ T)
         /\ \A s \in S : Cardinality(Senders \ (S \ {s})) = Cardinality(Senders \ S) + 1
<1>1. IsFiniteSet(Senders) /\ IsFiniteSet(Senders \ S)
  BY SendersAssumption, FS_Subset
<1>2. /\ Cardinality(Senders \ S) \in Nat /\ Cardinality(Senders) \in Nat
      /\ Cardinality(Senders \ S) <= Cardinality(Senders)
  BY <1>1, FS_Subset, FS_CardinalityType
<1>3. ASSUME NEW T \in SUBSET S
      PROVE  Cardinality(Senders \ S) <= Cardinality(Senders \ T)
  <2>1. Senders \ S \in SUBSET (Senders \ T) /\ IsFiniteSet(Senders \ T)
    BY <1>1, FS_Subset
  <2>2. QED
    BY <2>1, FS_Subset
<1>4. ASSUME NEW s \in S
      PROVE  Cardinality(Senders \ (S \ {s})) = Cardinality(Senders \ S) + 1
  <2>1. Senders \ (S \ {s}) = (Senders \ S) \union {s} /\ s \notin Senders \ S
    OBVIOUS
  <2>2. QED
    BY <1>1, <2>1, FS_AddElement
<1>5. QED
  BY <1>2, <1>3, <1>4

LEMMA SendingSenders == \A u : Sending(u) \in SUBSET Senders /\ Sending(u)' \in SUBSET Senders
BY DEF Sending

\* What the bound of an account is made of, as numbers.
LEMMA CapTypes ==
  ASSUME TypeOK, NEW u \in Users
  PROVE  /\ account \in [Users -> AccountRecord] /\ account[u] \in AccountRecord
         /\ account[u].used \in Nat /\ account[u].quota \in Int
         /\ ceiling \in [Users -> Int] /\ ceiling[u] \in Int
         /\ Reserved(u) \in Nat /\ Exposure \in Nat /\ Reserved(u) <= Exposure
         /\ Cardinality(Free(u)) \in Nat
         /\ \A s \in Senders : transfer[s].amount \in Nat
<1>1. account[u] \in AccountRecord /\ account[u].used \in Nat /\ account[u].quota \in Int
  BY DEF TypeOK, AccountRecord
<1>2. Reserved(u) \in Nat /\ Exposure \in Nat /\ Reserved(u) <= Exposure
  BY InFlightWorkers, SubsetScale DEF Reserved
<1>3. Cardinality(Free(u)) \in Nat
  BY SendingSenders, FreeCount DEF Free
<1>4. \A s \in Senders : transfer[s].amount \in Nat
  BY DEF TypeOK, TransferRecord
<1>5. QED
  BY <1>1, <1>2, <1>3, <1>4 DEF TypeOK

LEMMA CapTypesNext ==
  ASSUME NEW u \in Users
  PROVE  /\ Reserved(u)' \in Nat /\ Exposure' = Exposure /\ Reserved(u)' <= Exposure
         /\ Cardinality(Free(u)') \in Nat
<1>1. Reserved(u)' \in Nat /\ Reserved(u)' <= Exposure
  BY InFlightWorkers, SubsetScale DEF Reserved
<1>2. Cardinality(Free(u)') \in Nat
  BY SendingSenders, FreeCount DEF Free
<1>3. QED
  BY <1>1, <1>2 DEF Exposure

\* A step that leaves the accounts alone and admits nobody keeps the bound.
LEMMA QuietKeepsCap ==
  ASSUME TypeOK, NEW u \in Users, OwnerCapped(u),
         account'[u] = account[u], ceiling'[u] = ceiling[u],
         InFlight(u)' \subseteq InFlight(u), Sending(u)' \subseteq Sending(u),
         \A s \in Sending(u)' : transfer'[s].amount = transfer[s].amount
  PROVE  OwnerCapped(u)'
<1>1. SUFFICES ASSUME ceiling[u] >= 0 PROVE OwnerCapped(u)'
  BY DEF OwnerCapped
<1>2. Reserved(u)' \in Nat /\ Reserved(u)' <= Reserved(u) /\ Exposure' = Exposure
  BY InFlightWorkers, SubsetScale, CapTypesNext DEF Reserved
<1>3. /\ Cardinality(Free(u)) \in Nat /\ Cardinality(Free(u)') \in Nat
      /\ Cardinality(Free(u)) <= Cardinality(Free(u)')
  BY SendingSenders, FreeCount DEF Free
<1>4. /\ Cardinality(Free(u)) * ceiling[u] \in Nat /\ Cardinality(Free(u)') * ceiling[u] \in Nat
      /\ Cardinality(Free(u)) * ceiling[u] <= Cardinality(Free(u)') * ceiling[u]
  BY <1>1, <1>3, CapTypes, SharesGrow
<1>5. \A s \in Sending(u)' : transfer'[s].amount <= ceiling'[u]
  BY <1>1 DEF OwnerCapped
<1>6. QED
  BY <1>1, <1>2, <1>4, <1>5, CapTypes DEF OwnerCapped, Bound, Larger

\* An account that is created keeps what is under way for its name, which stays within
\* the highest limit of that name.
LEMMA NewCap ==
  ASSUME TypeOK, NEW u \in Users, OwnerCapped(u), NEW q \in Int, work' = work,
         transfer' = transfer, account'[u].used = 0, account'[u].quota = q,
         ceiling'[u] = Raise(ceiling[u], q)
  PROVE  OwnerCapped(u)'
<1>1. SUFFICES ASSUME ceiling'[u] >= 0 PROVE OwnerCapped(u)'
  BY DEF OwnerCapped
<1>2. /\ ceiling[u] >= 0 /\ q >= 0 /\ ceiling'[u] \in Nat
      /\ ceiling[u] <= ceiling'[u] /\ q <= ceiling'[u]
  BY <1>1, CapTypes DEF Raise, Larger
<1>3. \A s \in Sending(u)' : transfer'[s].amount <= ceiling'[u]
  <2>1. Sending(u)' = Sending(u)
    BY DEF Sending
  <2>2. \A s \in Sending(u) : transfer[s].amount \in Nat /\ transfer[s].amount <= ceiling[u]
    BY <1>2, CapTypes, SendingSenders DEF OwnerCapped
  <2>3. QED
    BY <1>2, <2>1, <2>2, CapTypes
<1>4. Cardinality(Free(u)') * ceiling'[u] \in Nat
  BY <1>2, CapTypesNext, SharesGrow
<1>5. QED
  BY <1>2, <1>3, <1>4, CapTypes, CapTypesNext DEF OwnerCapped, Bound, Larger

\* A new quota, whatever it is, cannot lower the ceiling.
LEMMA RaiseKeepsCap ==
  ASSUME TypeOK, NEW u \in Users, OwnerCapped(u), NEW q \in Int, work' = work,
         Sending(u)' \subseteq Sending(u),
         \A s \in Sending(u)' : transfer'[s].amount = transfer[s].amount,
         account[u].present, account'[u].used = account[u].used,
         account'[u].quota = q, ceiling'[u] = Raise(ceiling[u], q)
  PROVE  OwnerCapped(u)'
<1>1. SUFFICES ASSUME ceiling'[u] >= 0 PROVE OwnerCapped(u)'
  BY DEF OwnerCapped
<1>2. /\ ceiling[u] \in Nat /\ q >= 0 /\ ceiling'[u] \in Nat
      /\ ceiling[u] <= ceiling'[u] /\ q <= ceiling'[u]
  BY <1>1, CapTypes DEF Raise, Larger
<1>3. \A s \in Sending(u)' : transfer'[s].amount <= ceiling'[u]
  <2>1. \A s \in Sending(u) : transfer[s].amount \in Nat /\ transfer[s].amount <= ceiling[u]
    BY <1>2, CapTypes, SendingSenders DEF OwnerCapped
  <2>2. QED
    BY <1>2, <2>1
<1>4. /\ Cardinality(Free(u)) \in Nat /\ Cardinality(Free(u)') \in Nat
      /\ Cardinality(Free(u)) <= Cardinality(Free(u)')
  BY SendingSenders, FreeCount DEF Free
<1>5. /\ Cardinality(Free(u)) * ceiling[u] \in Nat /\ Cardinality(Free(u)') * ceiling'[u] \in Nat
      /\ Cardinality(Free(u)) * ceiling[u] <= Cardinality(Free(u)') * ceiling'[u]
  <2>1. /\ Cardinality(Free(u)) * ceiling[u] \in Nat /\ Cardinality(Free(u)') * ceiling[u] \in Nat
        /\ Cardinality(Free(u)') * ceiling'[u] \in Nat
        /\ Cardinality(Free(u)) * ceiling[u] <= Cardinality(Free(u)') * ceiling[u]
        /\ Cardinality(Free(u)') * ceiling[u] <= Cardinality(Free(u)') * ceiling'[u]
    BY <1>2, <1>4, SharesGrow
  <2>2. QED
    BY <2>1
<1>6. Reserved(u)' = Reserved(u)
  BY DEF Reserved, InFlight
<1>7. account[u].used + Reserved(u) <= Bound(ceiling[u]) + Cardinality(Free(u)) * ceiling[u]
  BY <1>2 DEF OwnerCapped
<1>8. Bound(ceiling[u]) \in Int /\ Bound(ceiling'[u]) \in Int
      /\ Bound(ceiling[u]) <= Bound(ceiling'[u])
  BY <1>2, CapTypes DEF Bound, Larger
<1>9. account'[u].used + Reserved(u)' <= Bound(ceiling'[u]) + Cardinality(Free(u)') * ceiling'[u]
  BY <1>5, <1>6, <1>7, <1>8, CapTypes
<1>10. QED
  BY <1>2, <1>3, <1>9 DEF OwnerCapped, Bound, Exposure

LEMMA InitOwnersCapped == Init => OwnersCapped
<1> SUFFICES ASSUME Init, NEW u \in Users PROVE OwnerCapped(u)
  BY DEF OwnersCapped
<1>t. TypeOK
  BY InitTypeOK
<1>e. Sending(u) = {}
  BY DEF Init, Sending, NoTransfer
<1>1. CASE account[u] = NoSuchAccount
  BY <1>e, <1>1 DEF OwnerCapped, NoSuchAccount
<1>2. ASSUME NEW q \in Quotas, account[u] = FreshAccount(q) PROVE OwnerCapped(u)
  <2>1. q \in Int /\ account[u].quota = q /\ account[u].used = 0 /\ ceiling[u] = Raise(0, q)
    BY <1>2, AmountAssumption DEF Init, FreshAccount
  <2>2. SUFFICES ASSUME ceiling[u] >= 0 PROVE OwnerCapped(u)
    BY DEF OwnerCapped
  <2>3. ceiling[u] \in Nat /\ 0 <= q /\ q <= ceiling[u]
    BY <2>1, <2>2 DEF Raise, Larger
  <2>4. Cardinality(Free(u)) * ceiling[u] \in Nat
    BY <1>t, <2>3, CapTypes, SharesGrow
  <2>5. QED
    BY <1>t, <1>e, <2>1, <2>3, <2>4, CapTypes DEF OwnerCapped, Bound, Larger
<1>3. account[u] \in {NoSuchAccount} \union FreshAccounts
  BY DEF Init
<1>4. QED
  BY <1>1, <1>2, <1>3 DEF FreshAccounts

\* A recharge of any account, with any amount, keeps the bound.
LEMMA RechargeKeepsCap ==
  ASSUME TypeOK, NEW u \in Users, OwnerCapped(u), NEW v, NEW n \in Int, AddUserQuota(v, n),
         work' = work, Sending(u)' \subseteq Sending(u),
         \A s \in Sending(u)' : transfer'[s].amount = transfer[s].amount
  PROVE  OwnerCapped(u)'
<1>1. CASE u # v \/ ~account[u].present
  <2>1. account'[u] = account[u] /\ ceiling'[u] = ceiling[u] /\ InFlight(u)' = InFlight(u)
    BY <1>1, CapTypes DEF AddUserQuota, InFlight
  <2>2. QED
    BY <2>1, QuietKeepsCap
<1>2. CASE u = v /\ account[u].present
  <2>1. /\ account'[u].used = account[u].used /\ account'[u].quota = account[u].quota + n
        /\ ceiling'[u] = Raise(ceiling[u], account[u].quota + n)
        /\ account[u].quota + n \in Int
    BY <1>2, CapTypes DEF AddUserQuota, AccountRecord
  <2>2. QED
    BY <1>2, <2>1, RaiseKeepsCap
<1>3. QED
  BY <1>1, <1>2

\* The pre-check admits a goroutine only below the limit; one that charges gives
\* back what was reserved for it.
LEMMA RelayKeepsOwnerCap ==
  ASSUME TypeOK, NEW u \in Users, OwnerCapped(u), NEW w \in Workers, RelayStep(w)
  PROVE  OwnerCapped(u)'
<1>t. /\ work \in [Workers -> WorkRecord] /\ account \in [Users -> AccountRecord]
      /\ account[u].used \in Nat /\ account[u].quota \in Int /\ ceiling[u] \in Int
  BY DEF TypeOK, AccountRecord
<1>s. /\ transfer' = transfer /\ Sending(u)' = Sending(u) /\ Free(u)' = Free(u)
      /\ \A s \in Sending(u)' : transfer'[s].amount = transfer[s].amount
  BY DEF RelayStep, Authenticate, CheckOwner, Refuse, Deliver, ChargeToken, ChargeOwner,
         Sending, Free
<1>n. ceiling[u] >= 0 => Cardinality(Free(u)) * ceiling[u] \in Nat
  BY CapTypes, SharesGrow
<1>1. ASSUME NEW k \in Tokens, Authenticate(w, k) PROVE OwnerCapped(u)'
  <2>1. account' = account /\ ceiling' = ceiling
    BY <1>1 DEF Authenticate, tables, history
  <2>2. InFlight(u)' \subseteq InFlight(u)
    BY <1>1, <1>t DEF Authenticate, InFlight
  <2>3. QED
    BY <2>1, <2>2, <1>s, QuietKeepsCap
<1>2. CASE CheckOwner(w)
  <2>1. account' = account /\ ceiling' = ceiling
    BY <1>2 DEF CheckOwner, tables, history
  <2>2. CASE ~(UserQuotaAllowed(work[w].owner) /\ work[w].owner = u)
    <3>1. InFlight(u)' \subseteq InFlight(u)
      BY <1>2, <2>2, <1>t DEF CheckOwner, InFlight, Idle, WorkRecord
    <3>2. QED
      BY <2>1, <3>1, <1>s, QuietKeepsCap
  <2>3. CASE UserQuotaAllowed(u) /\ work[w].owner = u
    <3>1. w \notin InFlight(u)
      BY <1>2 DEF CheckOwner, InFlight
    <3>2. InFlight(u)' = InFlight(u) \union {w}
      BY <1>2, <2>3, <1>t DEF CheckOwner, InFlight, WorkRecord
    <3>3. Reserved(u)' = Reserved(u) + MaxCost
      BY <3>1, <3>2, InFlightWorkers, AddScale DEF Reserved
    <3>4. Reserved(u) \in Nat /\ Exposure \in Nat /\ Reserved(u)' <= Exposure
      BY InFlightWorkers, SubsetScale DEF Reserved
    <3>5. account[u].present => account[u].quota < 0 \/ account[u].used < account[u].quota
      BY <2>3, <1>t, NamesAssumption DEF UserQuotaAllowed
    <3>6. QED
      BY <1>s, <1>n, <2>1, <3>3, <3>4, <3>5, <1>t, CostAssumption
         DEF OwnerCapped, Bound, Larger, Exposure
  <2>4. QED
    BY <2>2, <2>3
<1>3. CASE Refuse(w)
  <2>1. account' = account /\ ceiling' = ceiling
    BY <1>3 DEF Refuse, tables, history
  <2>2. InFlight(u)' \subseteq InFlight(u)
    BY <1>3, <1>t DEF Refuse, InFlight, Idle
  <2>3. QED
    BY <2>1, <2>2, <1>s, QuietKeepsCap
<1>4. CASE Deliver(w)
  <2>1. account' = account /\ ceiling' = ceiling
    BY <1>4 DEF Deliver, tables
  <2>2. PICK c : work' = [work EXCEPT ![w].stage = "charge", ![w].cost = c]
    BY <1>4 DEF Deliver
  <2>3. InFlight(u)' \subseteq InFlight(u)
    BY <1>4, <2>2, <1>t DEF Deliver, InFlight, WorkRecord
  <2>4. QED
    BY <2>1, <2>3, <1>s, QuietKeepsCap
<1>5. CASE ChargeToken(w)
  <2>1. account' = account /\ ceiling' = ceiling
    BY <1>5 DEF ChargeToken, history
  <2>2. InFlight(u)' \subseteq InFlight(u)
    BY <1>5, <1>t DEF ChargeToken, InFlight, WorkRecord
  <2>3. QED
    BY <2>1, <2>2, <1>s, QuietKeepsCap
<1>6. CASE ChargeOwner(w)
  <2>1. ceiling' = ceiling /\ account' = AddUserUsed(work[w].owner, work[w].cost)
    BY <1>6 DEF ChargeOwner, history
  <2>2. CASE work[w].owner # u
    <3>1. InFlight(u)' \subseteq InFlight(u)
      BY <1>6, <1>t DEF ChargeOwner, InFlight, Idle
    <3>2. account'[u] = account[u]
      BY <2>1, <2>2, <1>t DEF AddUserUsed
    <3>3. QED
      BY <2>1, <3>1, <3>2, <1>s, QuietKeepsCap
  <2>3. CASE work[w].owner = u
    <3>1. InFlight(u) = InFlight(u)' \union {w} /\ w \notin InFlight(u)'
      BY <1>6, <2>3, <1>t DEF ChargeOwner, InFlight, Idle
    <3>2. Reserved(u) = Reserved(u)' + MaxCost
      BY <3>1, InFlightWorkers, AddScale DEF Reserved
    <3>3. Reserved(u)' \in Nat /\ Exposure \in Nat
      BY InFlightWorkers, SubsetScale DEF Reserved
    <3>4. work[w].cost \in Nat /\ work[w].cost <= MaxCost
      BY <1>t, CostAssumption DEF WorkRecord
    <3>5. CASE account[u].present
      <4>1. /\ account'[u].present /\ account'[u].quota = account[u].quota
            /\ account'[u].used = account[u].used + work[w].cost
        BY <2>1, <2>3, <3>5, <1>t DEF AddUserUsed, AccountRecord
      <4>2. QED
        BY <1>s, <1>n, <2>1, <3>2, <3>3, <3>4, <3>5, <4>1, <1>t, CostAssumption
           DEF OwnerCapped, Bound, Larger, Exposure
    <3>6. CASE ~account[u].present
      BY <1>s, <2>1, <2>3, <3>6 DEF AddUserUsed, OwnerCapped
    <3>7. QED
      BY <3>5, <3>6
  <2>4. QED
    BY <2>2, <2>3
<1>7. QED
  BY <1>1, <1>2, <1>3, <1>4, <1>5, <1>6 DEF RelayStep

\* The remainder admits a transfer only below the limit; one that is debited frees
\* its goroutine.
LEMMA TransferKeepsOwnerCap ==
  ASSUME TypeOK, NEW u \in Users, OwnerCapped(u), NEW s \in Senders, TransferStep(s)
  PROVE  OwnerCapped(u)'
<1>t. /\ transfer \in [Senders -> TransferRecord] /\ transfer[s] \in TransferRecord
      /\ transfer[s].amount \in Nat /\ account \in [Users -> AccountRecord]
      /\ NoOwner \notin Users
  BY NamesAssumption DEF TypeOK, TransferRecord
<1>w. work' = work /\ InFlight(u)' = InFlight(u) /\ Reserved(u)' = Reserved(u)
  BY DEF TransferStep, Transfer, Debit, CreditRecipient, InFlight, Reserved
<1>1. ASSUME NEW v \in Users, NEW v2 \in Users, NEW n \in TransferAmounts, Transfer(s, v, v2, n)
      PROVE  OwnerCapped(u)'
  <2>1. /\ account' = account /\ ceiling' = ceiling /\ transfer[s].stage = "idle"
        /\ transfer'[s] = [stage |-> "debit", from |-> v, to |-> v2, amount |-> n]
        /\ \A r \in Senders \ {s} : transfer'[r] = transfer[r]
        /\ account[v].present /\ account[v].quota - account[v].used >= n
        /\ n \in Nat \ {0}
    BY <1>1, <1>t, AmountAssumption DEF Transfer, tables, history
  <2>2. CASE u # v
    <3>1. Sending(u)' = Sending(u) /\ s \notin Sending(u)
      BY <2>1, <2>2 DEF Sending
    <3>2. \A r \in Sending(u)' : transfer'[r].amount = transfer[r].amount
      BY <2>1, <3>1 DEF Sending
    <3>3. QED
      BY <1>w, <2>1, <3>1, <3>2, QuietKeepsCap
  <2>3. CASE u = v
    <3>1. SUFFICES ASSUME ceiling[u] >= 0 PROVE OwnerCapped(u)'
      BY <2>1 DEF OwnerCapped
    <3>2. /\ account[u].used + n <= account[u].quota /\ n <= ceiling[u] /\ ceiling[u] \in Nat
          /\ account[u].used + n <= ceiling[u] /\ 0 <= account[u].quota
          /\ account[u].quota <= ceiling[u]
      BY <2>1, <2>3, <3>1, CapTypes DEF OwnerCapped
    <3>3. \A r \in Sending(u)' : transfer'[r].amount <= ceiling'[u]
      <4>1. ASSUME NEW r \in Sending(u)' PROVE transfer'[r].amount <= ceiling'[u]
        <5>1. CASE r = s
          BY <2>1, <3>2, <5>1
        <5>2. CASE r # s
          BY <2>1, <3>1, <4>1, <5>2 DEF Sending, OwnerCapped
        <5>3. QED
          BY <5>1, <5>2
      <4>2. QED
        BY <4>1
    <3>4. Cardinality(Free(u)') * ceiling[u] \in Nat
      BY <3>2, CapTypesNext, SharesGrow
    <3>5. account[u].used + Reserved(u)' <= Bound(ceiling[u]) + Cardinality(Free(u)') * ceiling[u]
      <4>1. Bound(ceiling[u]) = ceiling[u] - 1 + Exposure
        BY <2>1, <3>2, CapTypes DEF Bound, Larger
      <4>2. QED
        BY <1>w, <2>1, <3>2, <3>4, <4>1, CapTypes
    <3>6. QED
      BY <2>1, <3>2, <3>3, <3>5 DEF OwnerCapped, Bound, Exposure
  <2>4. QED
    BY <2>2, <2>3
<1>2. CASE Debit(s)
  <2>1. /\ account' = AddUserUsed(transfer[s].from, transfer[s].amount) /\ ceiling' = ceiling
        /\ transfer[s].stage = "debit" /\ transfer'[s].stage = "credit"
        /\ \A r \in Senders \ {s} : transfer'[r] = transfer[r]
    BY <1>2, <1>t DEF Debit, history, TransferRecord
  <2>2. /\ Sending(u)' = Sending(u) \ {s}
        /\ \A r \in Sending(u)' : transfer'[r].amount = transfer[r].amount
    BY <2>1 DEF Sending
  <2>3. CASE transfer[s].from # u \/ ~account[u].present
    <3>1. account'[u] = account[u]
      BY <1>t, <2>1, <2>3 DEF AddUserUsed
    <3>2. QED
      BY <1>w, <2>1, <2>2, <3>1, QuietKeepsCap
  <2>4. CASE transfer[s].from = u /\ account[u].present
    <3>1. SUFFICES ASSUME ceiling[u] >= 0 PROVE OwnerCapped(u)'
      BY <2>1 DEF OwnerCapped
    <3>2. /\ account'[u].present /\ account'[u].quota = account[u].quota
          /\ account'[u].used = account[u].used + transfer[s].amount
      BY <1>t, <2>1, <2>4, CapTypes DEF AddUserUsed, AccountRecord
    <3>3. s \in Sending(u)
      BY <2>1, <2>4 DEF Sending
    <3>4. Cardinality(Free(u)') = Cardinality(Free(u)) + 1
      BY <2>2, <3>3, SendingSenders, FreeCount DEF Free
    <3>5. /\ Cardinality(Free(u)') * ceiling[u] = Cardinality(Free(u)) * ceiling[u] + ceiling[u]
          /\ Cardinality(Free(u)) * ceiling[u] \in Nat
      BY <3>1, <3>4, CapTypes, SharesGrow
    <3>6. transfer[s].amount <= ceiling[u]
      BY <3>1, <3>3 DEF OwnerCapped
    <3>7. \A r \in Sending(u)' : transfer'[r].amount <= ceiling'[u]
      BY <2>1, <2>2, <3>1 DEF OwnerCapped
    <3>8. account[u].used + Reserved(u) <= Bound(ceiling[u]) + Cardinality(Free(u)) * ceiling[u]
      BY <2>4, <3>1 DEF OwnerCapped
    <3>9. Bound(ceiling[u]) \in Int
      BY CapTypes DEF Bound, Larger
    <3>10. account'[u].used + Reserved(u)'
             <= Bound(ceiling[u]) + Cardinality(Free(u)') * ceiling[u]
      BY <1>t, <1>w, <3>2, <3>5, <3>6, <3>8, <3>9, CapTypes
    <3>11. QED
      BY <2>1, <2>4, <3>1, <3>2, <3>7, <3>10 DEF OwnerCapped, Bound, Exposure
  <2>5. QED
    BY <2>3, <2>4
<1>3. CASE CreditRecipient(s)
  <2>1. /\ AddUserQuota(transfer[s].to, transfer[s].amount)
        /\ transfer[s].stage = "credit" /\ transfer'[s] = NoTransfer
        /\ \A r \in Senders \ {s} : transfer'[r] = transfer[r]
    BY <1>3, <1>t DEF CreditRecipient
  <2>2. /\ Sending(u)' \subseteq Sending(u)
        /\ \A r \in Sending(u)' : transfer'[r].amount = transfer[r].amount
    BY <2>1 DEF Sending, NoTransfer
  <2>3. transfer[s].amount \in Int
    BY <1>t
  <2>4. QED
    BY <1>w, <2>1, <2>2, <2>3, RechargeKeepsCap
<1>4. QED
  BY <1>1, <1>2, <1>3 DEF TransferStep

LEMMA UpdateUserKeepsCap ==
  ASSUME TypeOK, NEW u \in Users, OwnerCapped(u), NEW v \in Users, NEW v2 \in Users,
         NEW e \in BOOLEAN, NEW q \in Int, UpdateUser(v, v2, e, q)
  PROVE  OwnerCapped(u)'
<1>t. account \in [Users -> AccountRecord] /\ ceiling \in [Users -> Int]
  BY DEF TypeOK
<1>1. /\ work' = work /\ transfer' = transfer /\ Sending(u)' = Sending(u)
      /\ \A s \in Sending(u)' : transfer'[s].amount = transfer[s].amount
  BY DEF UpdateUser, Sending
<1>2. CASE u # v /\ u # v2
  <2>1. account'[u] = account[u] /\ ceiling'[u] = ceiling[u] /\ InFlight(u)' \subseteq InFlight(u)
    BY <1>1, <1>2, <1>t DEF UpdateUser, InFlight
  <2>2. QED
    BY <1>1, <2>1, QuietKeepsCap
<1>3. CASE u = v /\ v # v2
  BY <1>1, <1>3, <1>t DEF UpdateUser, OwnerCapped, NoSuchAccount
<1>4. CASE u = v2 /\ v # v2
  BY <1>4, <1>t DEF UpdateUser, OwnerCapped
<1>5. CASE u = v /\ v = v2
  <2>1. /\ account[u].present /\ account'[u].used = account[u].used
        /\ account'[u].quota = q /\ ceiling'[u] = Raise(ceiling[u], q)
    BY <1>5, <1>t DEF UpdateUser, AccountRecord
  <2>2. QED
    BY <1>1, <2>1, RaiseKeepsCap
<1>6. QED
  BY <1>2, <1>3, <1>4, <1>5

LEMMA EditKeepsOwnerCap ==
  ASSUME TypeOK, NEW u \in Users, OwnerCapped(u), NEW v \in Users, AccountEdit(v)
  PROVE  OwnerCapped(u)'
<1>t. account \in [Users -> AccountRecord] /\ ceiling \in [Users -> Int]
  BY DEF TypeOK
<1>s. /\ work' = work /\ transfer' = transfer /\ Sending(u)' = Sending(u)
      /\ \A s \in Sending(u)' : transfer'[s].amount = transfer[s].amount
  BY DEF AccountEdit, CreateUser, UpdateUser, ResetPassword, DeleteUser, Recharge, Sending
<1>q. ASSUME work' = work, account'[u] = account[u], ceiling'[u] = ceiling[u]
      PROVE  OwnerCapped(u)'
  BY <1>q, <1>s, QuietKeepsCap DEF InFlight
<1>1. ASSUME NEW q \in Quotas, CreateUser(v, q) PROVE OwnerCapped(u)'
  <2>1. CASE u # v
    BY <1>1, <2>1, <1>q, <1>t DEF CreateUser
  <2>2. CASE u = v
    <3>1. account'[u].used = 0 /\ account'[u].quota = q /\ ceiling'[u] = Raise(ceiling[u], q)
      BY <1>1, <2>2, <1>t DEF CreateUser, FreshAccount
    <3>2. q \in Int
      BY AmountAssumption
    <3>3. QED
      BY <1>s, <3>1, <3>2, NewCap
  <2>3. QED
    BY <2>1, <2>2
<1>2. ASSUME NEW v2 \in Users, NEW e \in BOOLEAN, NEW q \in Quotas, UpdateUser(v, v2, e, q)
      PROVE  OwnerCapped(u)'
  <2>1. q \in Int
    BY AmountAssumption
  <2>2. QED
    BY <1>2, <2>1, UpdateUserKeepsCap
<1>3. CASE ResetPassword(v)
  <2>1. UpdateUser(v, v, FALSE, 0)
    BY <1>3 DEF ResetPassword
  <2>2. FALSE \in BOOLEAN /\ 0 \in Int
    OBVIOUS
  <2>3. QED
    BY <2>1, <2>2, UpdateUserKeepsCap
<1>4. CASE DeleteUser(v)
  <2>1. CASE u # v
    BY <1>4, <2>1, <1>q, <1>t DEF DeleteUser, history
  <2>2. CASE u = v
    BY <1>4, <1>s, <2>2, <1>t DEF DeleteUser, OwnerCapped, NoSuchAccount, history
  <2>3. QED
    BY <2>1, <2>2
<1>5. ASSUME NEW n \in Credits, Recharge(v, n) PROVE OwnerCapped(u)'
  BY <1>5, <1>s, AmountAssumption, RechargeKeepsCap DEF Recharge
<1>6. QED
  BY <1>1, <1>2, <1>3, <1>4, <1>5 DEF AccountEdit

LEMMA NextOwnersCapped == TypeOK /\ OwnersCapped /\ [Next]_vars => OwnersCapped'
<1> SUFFICES ASSUME TypeOK, OwnersCapped, [Next]_vars, NEW u \in Users
             PROVE  OwnerCapped(u)'
  BY DEF OwnersCapped
<1>c. OwnerCapped(u)
  BY DEF OwnersCapped
<1>q. ASSUME work' = work, transfer' = transfer, account' = account, ceiling' = ceiling
      PROVE  OwnerCapped(u)'
  BY <1>q, <1>c, QuietKeepsCap DEF InFlight, Sending
<1>1. ASSUME NEW w \in Workers, RelayStep(w) PROVE OwnerCapped(u)'
  BY <1>1, <1>c, RelayKeepsOwnerCap
<1>2. ASSUME NEW k \in Tokens, CheckAndUse(k) \/ TokenEdit(k) PROVE OwnerCapped(u)'
  BY <1>2, <1>q DEF CheckAndUse, TokenEdit, InsertToken, UpdateToken, DeleteToken, Expire, history
<1>3. ASSUME NEW v \in Users, AccountEdit(v) PROVE OwnerCapped(u)'
  BY <1>3, <1>c, EditKeepsOwnerCap
<1>4. ASSUME NEW m \in {"self", "biz"}, UpdateMode(m) PROVE OwnerCapped(u)'
  BY <1>4, <1>q DEF UpdateMode, tables, history
<1>5. CASE Crash
  <2>1. /\ account' = account /\ ceiling' = ceiling /\ InFlight(u)' \subseteq InFlight(u)
        /\ Sending(u)' = {}
    BY <1>5 DEF Crash, InFlight, Sending, Idle, NoTransfer, tables
  <2>2. QED
    BY <2>1, <1>c, QuietKeepsCap
<1>6. CASE UNCHANGED vars
  BY <1>6, <1>q DEF vars
<1>7. ASSUME NEW s \in Senders, TransferStep(s) PROVE OwnerCapped(u)'
  BY <1>7, <1>c, TransferKeepsOwnerCap
<1>8. QED
  BY <1>1, <1>2, <1>3, <1>4, <1>5, <1>6, <1>7 DEF Next

\* An account whose name always had a limit is overdrawn by at most what the requests and
\* the transfers in flight may take, for every number of goroutines, every amount that
\* is transferred and whatever is edited meanwhile.
THEOREM OwnerOverdraft == Spec => []OwnerOverdraftBounded
<1>1. TypeOK /\ OwnersCapped => OwnerOverdraftBounded
  <2> SUFFICES ASSUME TypeOK, OwnersCapped, NEW u \in Users,
                      account[u].present, ceiling[u] >= 0
               PROVE  account[u].used <=
                        Larger(ceiling[u] - 1, 0) + Exposure + Cardinality(Senders) * ceiling[u]
    BY DEF OwnerOverdraftBounded
  <2>1. account[u].used + Reserved(u) <= Bound(ceiling[u]) + Cardinality(Free(u)) * ceiling[u]
    BY DEF OwnersCapped, OwnerCapped
  <2>2. /\ Cardinality(Free(u)) \in Nat /\ Cardinality(Senders) \in Nat
        /\ Cardinality(Free(u)) <= Cardinality(Senders)
    BY SendingSenders, FreeCount DEF Free
  <2>3. /\ Cardinality(Free(u)) * ceiling[u] \in Nat /\ Cardinality(Senders) * ceiling[u] \in Nat
        /\ Cardinality(Free(u)) * ceiling[u] <= Cardinality(Senders) * ceiling[u]
    BY <2>2, CapTypes, SharesGrow
  <2>4. QED
    BY <2>1, <2>3, CapTypes DEF Bound, Larger
<1>2. QED
  BY <1>1, InitOwnersCapped, NextOwnersCapped, TypeCorrect, PTL DEF Spec

-------------------------------------------------------------------------------
(* The answers given for a token                                           *)

\* The most all goroutines may still answer, as a set: MaxCost slots for each.
Slots == Workers \X (1..MaxCost)

\* What was answered for a token and is not charged yet.
Owed(k) ==
  {s \in Slots : /\ work[s[1]].stage = "charge" /\ work[s[1]].key = k
                 /\ s[2] <= work[s[1]].cost}

\* What the goroutines that passed the pre-check of a token may still answer for it.
Coming(k) ==
  {s \in Slots : work[s[1]].stage \in {"owner", "routing"} /\ work[s[1]].key = k}

\* The strengthening: until the token is exhausted the answers are covered by what
\* was charged and what is still to be charged; once it is, the goroutines that
\* passed the pre-check are the only ones that still answer.
TokenServed(k) ==
  /\ token[k].present /\ token[k].enabled
  /\ ~token[k].unlimited /\ token[k].quota >= 0
  => IF Exhausted(token[k])
     THEN served[k] + Cardinality(Coming(k)) <= Larger(base[k], token[k].quota) + Exposure
     ELSE served[k] <= token[k].used + Cardinality(Owed(k))

TokensServed == \A k \in Tokens : TokenServed(k)

LEMMA SlotCount ==
  /\ IsFiniteSet(Slots) /\ Cardinality(Slots) = Exposure /\ Exposure \in Nat
<1>1. /\ IsFiniteSet(1..MaxCost) /\ Cardinality(1..MaxCost) = MaxCost
  BY CostAssumption, FS_Interval
<1>2. IsFiniteSet(Slots) /\ Cardinality(Slots) = Cardinality(Workers) * MaxCost
  BY <1>1, WorkersAssumption, FS_Product DEF Slots
<1>3. Cardinality(Slots) \in Nat
  BY <1>2, FS_CardinalityType
<1>4. QED
  BY <1>2, <1>3 DEF Exposure

\* Two sets of slots with nothing in common are together at most the exposure.
LEMMA DisjointSlots ==
  ASSUME NEW S \in SUBSET Slots, NEW T \in SUBSET Slots, S \cap T = {}
  PROVE  /\ Cardinality(S) \in Nat /\ Cardinality(T) \in Nat
         /\ Cardinality(S \union T) = Cardinality(S) + Cardinality(T)
         /\ Cardinality(S) + Cardinality(T) <= Exposure
<1>1. /\ IsFiniteSet(S) /\ IsFiniteSet(T)
      /\ Cardinality(S) \in Nat /\ Cardinality(T) \in Nat
  BY SlotCount, FS_Subset, FS_CardinalityType
<1>2. Cardinality(S \union T) = Cardinality(S) + Cardinality(T) - Cardinality(S \cap T)
  BY <1>1, FS_Union
<1>3. Cardinality(S \cap T) = 0
  BY FS_EmptySet
<1>4. S \union T \in SUBSET Slots
  OBVIOUS
<1>5. Cardinality(S \union T) <= Exposure
  BY <1>4, SlotCount, FS_Subset
<1>6. QED
  BY <1>1, <1>2, <1>3, <1>5

LEMMA SubsetSlots ==
  ASSUME NEW T \in SUBSET Slots, NEW S \in SUBSET T
  PROVE  /\ Cardinality(S) \in Nat /\ Cardinality(T) \in Nat
         /\ Cardinality(S) <= Cardinality(T)
<1>1. IsFiniteSet(T)
  BY SlotCount, FS_Subset
<1>2. QED
  BY <1>1, FS_Subset, FS_CardinalityType

\* The first c slots of a goroutine are c.
LEMMA WorkerSlots ==
  ASSUME NEW w \in Workers, NEW c \in 0..MaxCost
  PROVE  /\ {w} \X (1..c) \in SUBSET Slots
         /\ Cardinality({w} \X (1..c)) = c
<1>1. c \in Nat /\ c <= MaxCost /\ MaxCost \in Nat
  BY CostAssumption
<1>2. /\ IsFiniteSet(1..c) /\ Cardinality(1..c) = c
  BY <1>1, FS_Interval
<1>3. IsFiniteSet({w}) /\ Cardinality({w}) = 1
  BY FS_Singleton
<1>4. Cardinality({w} \X (1..c)) = 1 * c
  BY <1>2, <1>3, FS_Product, ZenonT(60)
<1>5. 1..c \subseteq 1..MaxCost
  BY <1>1
<1>6. QED
  BY <1>1, <1>4, <1>5 DEF Slots

LEMMA OwedAndComing ==
  \A k : /\ Owed(k) \in SUBSET Slots /\ Coming(k) \in SUBSET Slots
         /\ Owed(k)' \in SUBSET Slots /\ Coming(k)' \in SUBSET Slots
         /\ Owed(k) \cap Coming(k) = {}
BY DEF Owed, Coming, Slots

\* The limit, the use and the answers of a token as numbers.
LEMMA ServedTypes ==
  ASSUME TypeOK, NEW k \in Tokens
  PROVE  /\ token \in [Tokens -> TokenRecord] /\ work \in [Workers -> WorkRecord]
         /\ token[k] \in TokenRecord
         /\ token[k].used \in Nat /\ token[k].quota \in Int
         /\ served \in [Tokens -> Nat] /\ base \in [Tokens -> Nat]
         /\ served[k] \in Nat /\ base[k] \in Nat
         /\ Cardinality(Owed(k)) \in Nat /\ Cardinality(Coming(k)) \in Nat
         /\ Cardinality(Owed(k)) + Cardinality(Coming(k)) <= Exposure
         /\ Exposure \in Nat
<1>1. /\ token[k] \in TokenRecord
      /\ token[k].used \in Nat /\ token[k].quota \in Int
  BY DEF TypeOK, TokenRecord
<1>2. QED
  BY <1>1, OwedAndComing, DisjointSlots, SlotCount DEF TypeOK

LEMMA InitTokensServed == Init => TokensServed
<1> SUFFICES ASSUME Init, NEW k \in Tokens PROVE TokenServed(k)
  BY DEF TokensServed
<1>t. TypeOK
  BY InitTypeOK
<1>1. served[k] = 0 /\ base[k] = 0
  BY DEF Init
<1>2. Cardinality(Coming(k)) <= Exposure
  BY <1>t, ServedTypes
<1>3. QED
  BY <1>1, <1>2, <1>t, ServedTypes DEF TokenServed, Larger

\* A step that leaves a token and its answers alone, owes no less for it and admits
\* nobody keeps the bound.
LEMMA QuietKeepsServed ==
  ASSUME TypeOK, TypeOK', NEW k \in Tokens, TokenServed(k),
         token'[k] = token[k], served'[k] = served[k], base'[k] = base[k],
         Owed(k) \subseteq Owed(k)', Coming(k)' \subseteq Coming(k) \/ ~Exhausted(token[k])
  PROVE  TokenServed(k)'
<1>1. Cardinality(Owed(k)) <= Cardinality(Owed(k)')
  BY OwedAndComing, SubsetSlots
<1>2. CASE Exhausted(token[k])
  <2>1. Cardinality(Coming(k)') <= Cardinality(Coming(k)) /\ Cardinality(Coming(k)') \in Nat
    BY <1>2, OwedAndComing, SubsetSlots
  <2>2. Exposure' = Exposure
    BY DEF Exposure
  <2>3. /\ served[k] \in Nat /\ Cardinality(Coming(k)) \in Nat /\ Exposure \in Nat
        /\ base[k] \in Nat /\ token[k].quota \in Int
    BY ServedTypes
  <2>4. Larger(base[k], token[k].quota) \in Int
    BY <2>3 DEF Larger
  <2>5. Larger(base[k], token[k].quota)' = Larger(base[k], token[k].quota)
    BY DEF Larger
  <2>6. Exhausted(token[k])' = Exhausted(token[k])
    BY DEF Exhausted
  <2>7. QED
    BY <1>2, <2>1, <2>2, <2>3, <2>4, <2>5, <2>6 DEF TokenServed
<1>3. CASE ~Exhausted(token[k])
  <2>1. Cardinality(Owed(k)') \in Nat
    BY OwedAndComing, SubsetSlots
  <2>2. QED
    BY <1>1, <1>3, <2>1, ServedTypes DEF TokenServed, Exhausted
<1>4. QED
  BY <1>2, <1>3

\* A token that was just written, or just read at a start, has answered nothing since.
LEMMA NewServed ==
  ASSUME TypeOK', NEW k \in Tokens, served'[k] = token'[k].used, base'[k] = token'[k].used
  PROVE  TokenServed(k)'
<1>1. /\ token'[k].used \in Nat /\ token'[k].quota \in Int
  BY DEF TypeOK, TokenRecord
<1>2. /\ Cardinality(Owed(k)') \in Nat /\ Cardinality(Coming(k)') \in Nat
      /\ Cardinality(Coming(k)') <= Exposure
  BY OwedAndComing, SubsetSlots, SlotCount, FS_Subset
<1>3. QED
  BY <1>1, <1>2, SlotCount DEF TokenServed, Larger, Exposure

LEMMA RelayKeepsServed ==
  ASSUME TypeOK, TypeOK', NEW k \in Tokens, TokenServed(k), NEW w \in Workers, RelayStep(w)
  PROVE  TokenServed(k)'
<1>t. work \in [Workers -> WorkRecord] /\ NoToken \notin Tokens
  BY NamesAssumption DEF TypeOK
<1>1. ASSUME NEW j \in Tokens, Authenticate(w, j) PROVE TokenServed(k)'
  <2>1. token' = token /\ served' = served /\ base' = base
    BY <1>1 DEF Authenticate, tables, history
  <2>2. Owed(k) \subseteq Owed(k)'
    BY <1>1, <1>t DEF Authenticate, Owed, Slots
  <2>3. CASE j = k
    BY <1>1, <2>1, <2>2, <2>3, QuietKeepsServed DEF Authenticate, TokenAdmits
  <2>4. CASE j # k
    <3>1. Coming(k)' \subseteq Coming(k)
      BY <1>1, <1>t, <2>4 DEF Authenticate, Coming, Slots
    <3>2. QED
      BY <2>1, <2>2, <3>1, QuietKeepsServed
  <2>5. QED
    BY <2>3, <2>4
<1>2. CASE CheckOwner(w) \/ Refuse(w) \/ ChargeOwner(w)
  <2>1. token' = token /\ served' = served /\ base' = base
    BY <1>2 DEF CheckOwner, Refuse, ChargeOwner, tables, history
  <2>2. /\ work[w].stage # "charge"
        /\ \A v \in Workers \ {w} : work'[v] = work[v]
        /\ work'[w] = Idle \/ work'[w] = [work[w] EXCEPT !.stage = "routing"]
        /\ work'[w].stage = "routing" => work[w].stage = "owner"
    BY <1>2, <1>t DEF CheckOwner, Refuse, ChargeOwner, Idle, WorkRecord
  <2>3. Owed(k) \subseteq Owed(k)'
    BY <2>2, <1>t DEF Owed, Slots
  <2>4. Coming(k)' \subseteq Coming(k)
    BY <2>2, <1>t DEF Coming, Slots, Idle, WorkRecord
  <2>5. QED
    BY <2>1, <2>3, <2>4, QuietKeepsServed
<1>3. CASE Deliver(w)
  <2>1. PICK c \in Costs :
          /\ work' = [work EXCEPT ![w].stage = "charge", ![w].cost = c]
          /\ served' = IF token[work[w].key].present
                       THEN [served EXCEPT ![work[w].key] = @ + c] ELSE served
    BY <1>3 DEF Deliver
  <2>2. /\ token' = token /\ base' = base /\ work[w].stage = "routing"
        /\ c \in 0..MaxCost /\ c \in Nat /\ c <= MaxCost /\ MaxCost \in Nat
    BY <1>3, CostTypes, CostAssumption DEF Deliver, tables
  <2>3. /\ work'[w].stage = "charge" /\ work'[w].cost = c /\ work'[w].key = work[w].key
        /\ \A v \in Workers \ {w} : work'[v] = work[v]
    BY <2>1, <1>t DEF WorkRecord
  <2>4. CASE work[w].key # k
    <3>1. served'[k] = served[k]
      BY <2>1, <2>4, ServedTypes
    <3>2. Owed(k) \subseteq Owed(k)' /\ Coming(k)' \subseteq Coming(k)
      BY <2>2, <2>3 DEF Owed, Coming, Slots
    <3>3. QED
      BY <2>2, <3>1, <3>2, QuietKeepsServed
  <2>5. CASE work[w].key = k
    <3>1. SUFFICES ASSUME token[k].present PROVE TokenServed(k)'
      BY <2>2 DEF TokenServed
    <3>2. served'[k] = served[k] + c
      BY <2>1, <2>5, <3>1, ServedTypes
    <3>3. CASE Exhausted(token[k])
      <4>1. /\ {w} \X (1..MaxCost) \in SUBSET Slots
            /\ Cardinality({w} \X (1..MaxCost)) = MaxCost
        BY <2>2, WorkerSlots
      <4>2. /\ Coming(k) = Coming(k)' \union ({w} \X (1..MaxCost))
            /\ Coming(k)' \cap ({w} \X (1..MaxCost)) = {}
        BY <2>2, <2>3, <2>5 DEF Coming, Slots
      <4>3. /\ Cardinality(Coming(k)) = Cardinality(Coming(k)') + MaxCost
            /\ Cardinality(Coming(k)') \in Nat
        BY <4>1, <4>2, OwedAndComing, DisjointSlots
      <4>4. QED
        BY <2>2, <3>2, <3>3, <4>3, ServedTypes DEF TokenServed, Exhausted, Larger, Exposure
    <3>4. CASE ~Exhausted(token[k])
      <4>1. /\ {w} \X (1..c) \in SUBSET Slots
            /\ Cardinality({w} \X (1..c)) = c
        BY <2>2, WorkerSlots
      <4>2. /\ Owed(k)' = Owed(k) \union ({w} \X (1..c))
            /\ Owed(k) \cap ({w} \X (1..c)) = {}
        BY <2>2, <2>3, <2>5 DEF Owed, Slots
      <4>3. Cardinality(Owed(k)') = Cardinality(Owed(k)) + c
        BY <4>1, <4>2, OwedAndComing, DisjointSlots
      <4>4. QED
        BY <2>2, <3>2, <3>4, <4>3, ServedTypes DEF TokenServed, Exhausted
    <3>5. QED
      BY <3>3, <3>4
  <2>6. QED
    BY <2>4, <2>5
<1>4. CASE ChargeToken(w)
  <2>1. /\ served' = served /\ base' = base /\ work[w].stage = "charge"
        /\ token' = UseToken(work[w].key, work[w].cost)
        /\ work'[w] = [work[w] EXCEPT !.stage = "account"]
        /\ \A v \in Workers \ {w} : work'[v] = work[v]
        /\ work[w].key \in Tokens /\ work[w].cost \in 0..MaxCost
        /\ work[w].cost \in Nat
    BY <1>4, <1>t, CostAssumption DEF ChargeToken, history, TypeOK, WorkRecord
  <2>2. Coming(k)' = Coming(k)
    BY <2>1, <1>t DEF Coming, Slots, WorkRecord
  <2>3. CASE work[w].key # k
    <3>1. token'[k] = token[k]
      BY <2>1, <2>3, ServedTypes DEF UseToken
    <3>2. Owed(k) \subseteq Owed(k)'
      BY <2>1, <2>3 DEF Owed, Slots
    <3>3. QED
      BY <2>1, <2>2, <3>1, <3>2, QuietKeepsServed
  <2>4. CASE work[w].key = k
    <3>1. SUFFICES ASSUME token'[k].present, token'[k].enabled, ~token'[k].unlimited,
                          token'[k].quota >= 0
                   PROVE  TokenServed(k)'
      BY DEF TokenServed
    <3>2. CASE Exhausted(token[k])
      <4>1. token' = token
        BY <2>1, <2>4, <3>2 DEF UseToken
      <4>2. QED
        BY <2>1, <2>2, <3>2, <4>1 DEF TokenServed, Exposure
    <3>3. CASE ~Exhausted(token[k])
      <4>1. /\ token[k].present /\ token[k].enabled /\ ~token[k].unlimited
            /\ token[k].quota >= 0 /\ token'[k].quota = token[k].quota
            /\ token'[k].unlimited = token[k].unlimited
            /\ token'[k].used = token[k].used + work[w].cost
        BY <2>1, <2>4, <3>1, <3>3, ServedTypes DEF UseToken, TokenRecord
      <4>2. /\ {w} \X (1..work[w].cost) \in SUBSET Slots
            /\ Cardinality({w} \X (1..work[w].cost)) = work[w].cost
        BY <2>1, WorkerSlots
      <4>3. /\ Owed(k) = Owed(k)' \union ({w} \X (1..work[w].cost))
            /\ Owed(k)' \cap ({w} \X (1..work[w].cost)) = {}
        <5>1. work[w].cost <= MaxCost /\ MaxCost \in Nat /\ work'[w].stage = "account"
          BY <2>1, <1>t, CostAssumption DEF WorkRecord
        <5>2. Owed(k)' = {s \in Owed(k) : s[1] # w}
          BY <2>1, <5>1, ZenonT(60) DEF Owed, Slots
        <5>3. {s \in Owed(k) : s[1] = w} = {w} \X (1..work[w].cost)
          BY <2>1, <2>4, <5>1 DEF Owed, Slots
        <5>4. QED
          BY <5>2, <5>3
      <4>4. /\ Cardinality(Owed(k)) = Cardinality(Owed(k)') + work[w].cost
            /\ Cardinality(Owed(k)') \in Nat
        <5>1. Owed(k)' \in SUBSET Slots
          BY OwedAndComing
        <5>2. QED
          BY <4>2, <4>3, <5>1, DisjointSlots
      <4>5. served[k] <= token[k].used + Cardinality(Owed(k))
        BY <3>3, <4>1 DEF TokenServed
      <4>6. CASE Exhausted(token'[k])
        <5>1. token[k].used < token[k].quota
          BY <3>3, <4>1, ServedTypes DEF Exhausted
        <5>2. QED
          BY <2>1, <2>2, <4>5, <4>6, <5>1, <4>1, ServedTypes
             DEF TokenServed, Exhausted, Larger, Exposure
      <4>7. CASE ~Exhausted(token'[k])
        BY <2>1, <4>1, <4>4, <4>5, <4>7, ServedTypes DEF TokenServed, Exhausted
      <4>8. QED
        BY <4>6, <4>7
    <3>4. QED
      BY <3>2, <3>3
  <2>5. QED
    BY <2>3, <2>4
<1>5. QED
  BY <1>1, <1>2, <1>3, <1>4 DEF RelayStep

LEMMA TokenStepKeepsServed ==
  ASSUME TypeOK, TypeOK', NEW k \in Tokens, TokenServed(k), NEW j \in Tokens,
         CheckAndUse(j) \/ TokenEdit(j)
  PROVE  TokenServed(k)'
<1>q. ASSUME work' = work, token'[k] = token[k], served'[k] = served[k], base'[k] = base[k]
      PROVE  TokenServed(k)'
  BY <1>q, QuietKeepsServed DEF Owed, Coming
<1>1. CASE CheckAndUse(j)
  <2>1. /\ LegacyAllowed(token[j]) /\ token' = [token EXCEPT ![j].used = @ + 1]
        /\ served' = [served EXCEPT ![j] = @ + 1] /\ work' = work /\ base' = base
    BY <1>1 DEF CheckAndUse
  <2>2. CASE j # k
    BY <2>1, <2>2, <1>q, ServedTypes
  <2>3. CASE j = k
    <3>1. /\ token'[k].used = token[k].used + 1 /\ token'[k].quota = token[k].quota
          /\ token'[k].present = token[k].present /\ token'[k].enabled = token[k].enabled
          /\ token'[k].unlimited = token[k].unlimited /\ served'[k] = served[k] + 1
          /\ base'[k] = base[k]
      BY <2>1, <2>3, ServedTypes DEF TokenRecord
    <3>2. Owed(k)' = Owed(k) /\ Coming(k)' = Coming(k)
      BY <2>1 DEF Owed, Coming
    <3>3. token[k].quota >= 0 => token[k].used < token[k].quota
      BY <2>1, <2>3, ServedTypes DEF LegacyAllowed
    <3>4. Exposure' = Exposure
      BY DEF Exposure
    <3>5. QED
      BY <3>1, <3>2, <3>3, <3>4, ServedTypes DEF TokenServed, Exhausted, Larger
  <2>4. QED
    BY <2>2, <2>3
<1>2. ASSUME NEW u \in Users \union {NoOwner}, NEW q \in Quotas, NEW b \in BOOLEAN,
             InsertToken(j, u, q, b)
      PROVE  TokenServed(k)'
  <2>1. CASE j # k
    BY <1>2, <2>1, <1>q, ServedTypes DEF InsertToken
  <2>2. CASE j = k
    BY <1>2, <2>2, ServedTypes, NewServed DEF InsertToken, FreshToken
  <2>3. QED
    BY <2>1, <2>2
<1>3. ASSUME NEW k2 \in Tokens, NEW q \in Quotas, NEW b \in BOOLEAN, NEW e \in BOOLEAN,
             NEW x \in BOOLEAN, UpdateToken(j, k2, q, b, e, x)
      PROVE  TokenServed(k)'
  <2>1. CASE k = k2
    <3>1. /\ token'[k] = [token[j] EXCEPT !.quota = q, !.unlimited = b,
                                          !.enabled = e, !.expired = x]
          /\ served'[k] = token[j].used /\ base'[k] = token[j].used
      BY <1>3, <2>1, ServedTypes DEF UpdateToken
    <3>2. token'[k].used = token[j].used
      BY <3>1, ServedTypes DEF TokenRecord
    <3>3. QED
      BY <3>1, <3>2, NewServed
  <2>2. CASE k = j /\ k # k2
    BY <1>3, <2>2, ServedTypes DEF UpdateToken, TokenServed, NoSuchToken
  <2>3. CASE k # j /\ k # k2
    BY <1>3, <2>3, <1>q, ServedTypes DEF UpdateToken
  <2>4. QED
    BY <2>1, <2>2, <2>3
<1>4. CASE DeleteToken(j)
  <2>1. CASE j # k
    BY <1>4, <2>1, <1>q, ServedTypes DEF DeleteToken, history
  <2>2. CASE j = k
    BY <1>4, <2>2, ServedTypes DEF DeleteToken, TokenServed, NoSuchToken
  <2>3. QED
    BY <2>1, <2>2
<1>5. CASE Expire(j)
  <2>1. /\ token' = [token EXCEPT ![j].expired = TRUE] /\ work' = work
        /\ served' = served /\ base' = base
    BY <1>5 DEF Expire, history
  <2>2. /\ token'[k].present = token[k].present /\ token'[k].enabled = token[k].enabled
        /\ token'[k].unlimited = token[k].unlimited /\ token'[k].quota = token[k].quota
        /\ token'[k].used = token[k].used
    BY <2>1, ServedTypes DEF TokenRecord
  <2>3. Owed(k)' = Owed(k) /\ Coming(k)' = Coming(k) /\ Exposure' = Exposure
    BY <2>1 DEF Owed, Coming, Exposure
  <2>4. QED
    BY <2>1, <2>2, <2>3 DEF TokenServed, Exhausted, Larger
<1>6. QED
  BY <1>1, <1>2, <1>3, <1>4, <1>5 DEF TokenEdit

LEMMA NextTokensServed ==
  TypeOK /\ TypeOK' /\ TokensServed /\ [Next]_vars => TokensServed'
<1> SUFFICES ASSUME TypeOK, TypeOK', TokensServed, [Next]_vars, NEW k \in Tokens
             PROVE  TokenServed(k)'
  BY DEF TokensServed
<1>s. TokenServed(k)
  BY DEF TokensServed
<1>q. ASSUME work' = work, token' = token, served' = served, base' = base
      PROVE  TokenServed(k)'
  BY <1>q, <1>s, QuietKeepsServed DEF Owed, Coming
<1>1. ASSUME NEW w \in Workers, RelayStep(w) PROVE TokenServed(k)'
  BY <1>1, <1>s, RelayKeepsServed
<1>2. ASSUME NEW j \in Tokens, CheckAndUse(j) \/ TokenEdit(j) PROVE TokenServed(k)'
  BY <1>2, <1>s, TokenStepKeepsServed
<1>3. ASSUME NEW u \in Users, AccountEdit(u) PROVE TokenServed(k)'
  BY <1>3, <1>q DEF AccountEdit, CreateUser, UpdateUser, ResetPassword, DeleteUser,
                    Recharge, history
<1>4. ASSUME NEW m \in {"self", "biz"}, UpdateMode(m) PROVE TokenServed(k)'
  BY <1>4, <1>q DEF UpdateMode, tables, history
<1>5. CASE Crash
  <2>1. /\ served'[k] = token'[k].used /\ base'[k] = token'[k].used
    BY <1>5 DEF Crash, tables
  <2>2. QED
    BY <2>1, NewServed
<1>6. CASE UNCHANGED vars
  BY <1>6, <1>q DEF vars
<1>7. ASSUME NEW s \in Senders, TransferStep(s) PROVE TokenServed(k)'
  BY <1>7, <1>q DEF TransferStep, Transfer, Debit, CreditRecipient, tables, history
<1>8. QED
  BY <1>1, <1>2, <1>3, <1>4, <1>5, <1>6, <1>7 DEF Next

\* The answers given for a limited, enabled token between two of its updates stay
\* within its limit and one answer for each goroutine: UseToken may refuse a charge
\* after the answer is out, but the pre-check stops the next request.
THEOREM TokenService == Spec => []TokenServiceBounded
<1>1. TypeOK /\ TokensServed => TokenServiceBounded
  <2> SUFFICES ASSUME TypeOK, TokensServed, NEW k \in Tokens,
                      token[k].present, token[k].enabled,
                      ~token[k].unlimited, token[k].quota >= 0
               PROVE  served[k] <= Larger(base[k], token[k].quota) + Exposure
    BY DEF TokenServiceBounded
  <2>1. TokenServed(k)
    BY DEF TokensServed
  <2>2. CASE Exhausted(token[k])
    BY <2>1, <2>2, ServedTypes DEF TokenServed, Larger
  <2>3. CASE ~Exhausted(token[k])
    BY <2>1, <2>3, ServedTypes DEF TokenServed, Exhausted, Larger
  <2>4. QED
    BY <2>2, <2>3
<1>2. QED
  BY <1>1, InitTokensServed, NextTokensServed, TypeCorrect, PTL DEF Spec

-------------------------------------------------------------------------------
(* Accounting implements Meter: each of its actions is one of Meter on     *)
(* account and Debts, or leaves both alone.  First the debts.              *)

Busy(w) == work[w].stage \in {"routing", "charge", "account"}

Owes(p) == IF p \in Workers THEN Busy(p) ELSE transfer[p].stage = "debit"

Debt(p) ==
  IF p \in Workers
  THEN <<p, work[p].owner, 0..MaxCost>>
  ELSE <<p, transfer[p].from, {transfer[p].amount}>>

Payers == Workers \union Senders

LEMMA DebtPairs == \A d : d \in Debts <=> \E p \in Payers : Owes(p) /\ d = Debt(p)
BY SendersAssumption DEF Debts, Busy, Owes, Debt, Payers

LEMMA DebtPairsNext == \A d : d \in Debts' <=> \E p \in Payers : Owes(p)' /\ d = Debt(p)'
BY SendersAssumption DEF Debts, Busy, Owes, Debt, Payers

\* A step that leaves who owes, and what, leaves the debts.
LEMMA DebtsStay ==
  ASSUME \A p \in Payers : (Owes(p)' <=> Owes(p)) /\ (Owes(p) => Debt(p)' = Debt(p))
  PROVE  Debts' = Debts
<1>1. \A d : d \in Debts' <=> d \in Debts
  BY DebtPairs, DebtPairsNext
<1>2. QED
  BY <1>1

LEMMA DebtOwners == \A p : Debt(p)[1] = p /\ Debt(p)'[1] = p
BY DEF Debt

\* A goroutine that begins to owe makes one debt more.
LEMMA DebtMade ==
  ASSUME NEW p \in Payers, ~Owes(p), Owes(p)',
         \A q \in Payers \ {p} : (Owes(q)' <=> Owes(q)) /\ Debt(q)' = Debt(q)
  PROVE  /\ Debts' = Debts \union {Debt(p)'}
         /\ \A d \in Debts : d[1] # p
<1>1. \A d : d \in Debts' <=> d \in Debts \/ d = Debt(p)'
  BY DebtPairs, DebtPairsNext
<1>2. \A d \in Debts : d[1] # p
  BY DebtPairs, DebtOwners
<1>3. QED
  BY <1>1, <1>2

\* One that ends settles its debt and no other.
LEMMA DebtSettled ==
  ASSUME NEW p \in Payers, Owes(p), ~Owes(p)',
         \A q \in Payers \ {p} : (Owes(q)' <=> Owes(q)) /\ Debt(q)' = Debt(q)
  PROVE  /\ Debt(p) \in Debts
         /\ Debts' = Debts \ {Debt(p)}
<1>1. \A q \in Payers \ {p} : Debt(q) # Debt(p)
  BY DebtOwners
<1>2. \A d : d \in Debts' <=> d \in Debts /\ d # Debt(p)
  BY <1>1, DebtPairs, DebtPairsNext
<1>3. QED
  BY <1>2, DebtPairs

\* A step of a relayed request that leaves the transfers, and the other goroutines.
LEMMA WorkerAlone ==
  ASSUME NEW w \in Workers, transfer' = transfer, \A v \in Workers \ {w} : work'[v] = work[v]
  PROVE  \A q \in Payers \ {w} : (Owes(q)' <=> Owes(q)) /\ Debt(q)' = Debt(q)
BY DEF Owes, Debt, Busy, Payers

LEMMA SenderAlone ==
  ASSUME NEW s \in Senders, work' = work, \A r \in Senders \ {s} : transfer'[r] = transfer[r]
  PROVE  \A q \in Payers \ {s} : (Owes(q)' <=> Owes(q)) /\ Debt(q)' = Debt(q)
BY SendersAssumption DEF Owes, Debt, Busy, Payers

\* A step of a request that neither begins nor ends its debt.
LEMMA WorkerDebtStays ==
  ASSUME NEW w \in Workers, transfer' = transfer, \A v \in Workers \ {w} : work'[v] = work[v],
         Busy(w)' = Busy(w), Busy(w) => work'[w].owner = work[w].owner
  PROVE  Debts' = Debts
<1>1. (Owes(w)' <=> Owes(w)) /\ (Owes(w) => Debt(w)' = Debt(w))
  BY DEF Owes, Debt
<1>2. QED
  BY <1>1, WorkerAlone, DebtsStay

LEMMA NothingDone ==
  ASSUME work' = work, transfer' = transfer
  PROVE  Debts' = Debts
BY DEF Debts

LEMMA OwnersAreUsers ==
  ASSUME TypeOK, NEW w \in Workers
  PROVE  work[w].owner \in Users \union {NoOwner}
BY DEF TypeOK, WorkRecord

-------------------------------------------------------------------------------
(* The steps of Accounting as steps of Meter                               *)

LEMMA InitRefines == Init => M!Init
<1> SUFFICES ASSUME Init PROVE M!Init
  OBVIOUS
<1>1. Debts = {}
  BY DEF Init, Debts, Idle, NoTransfer
<1>2. \A u \in Users : account[u].used = 0
  BY DEF Init, FreshAccounts, FreshAccount, NoSuchAccount
<1>3. QED
  BY <1>1, <1>2 DEF M!Init

\* A relayed request is a stutter until its account is checked, an Admit there, and a
\* Settle when it is refused or charged.
LEMMA RelayRefines ==
  ASSUME TypeOK, NEW w \in Workers, RelayStep(w)
  PROVE  M!Next \/ UNCHANGED M!vars
<1>t. /\ work \in [Workers -> WorkRecord] /\ w \in Payers
      /\ transfer' = transfer /\ \A v \in Workers \ {w} : work'[v] = work[v]
  BY DEF TypeOK, Payers, RelayStep, Authenticate, CheckOwner, Refuse, Deliver, ChargeToken,
         ChargeOwner
<1>o. /\ Owes(w) = Busy(w) /\ Owes(w)' = Busy(w)'
      /\ Debt(w) = <<w, work[w].owner, 0..MaxCost>>
      /\ Debt(w)' = <<w, work'[w].owner, 0..MaxCost>>
      /\ Debt(w)[2] = work[w].owner /\ Debt(w)[3] = 0..MaxCost
  BY DEF Owes, Debt, Busy
<1>s. ASSUME account' = account, Debts' = Debts PROVE UNCHANGED M!vars
  BY <1>s DEF M!vars
<1>1. ASSUME NEW k \in Tokens, Authenticate(w, k) PROVE UNCHANGED M!vars
  <2>1. Debts' = Debts
    BY <1>1, <1>t, WorkerDebtStays DEF Authenticate, Busy
  <2>2. QED
    BY <1>1, <2>1, <1>s DEF Authenticate, tables
<1>2. CASE CheckOwner(w)
  <2>1. account' = account /\ ~Busy(w)
    BY <1>2 DEF CheckOwner, tables, Busy
  <2>2. CASE ~UserQuotaAllowed(work[w].owner)
    <3>1. Debts' = Debts
      BY <1>2, <2>2, <1>t, WorkerDebtStays DEF CheckOwner, Busy, Idle
    <3>2. QED
      BY <2>1, <3>1, <1>s
  <2>3. CASE UserQuotaAllowed(work[w].owner)
    <3>1. work'[w].owner = work[w].owner /\ Busy(w)'
      BY <1>2, <2>3, <1>t DEF CheckOwner, Busy, WorkRecord
    <3>2. /\ Debts' = Debts \union {<<w, work[w].owner, 0..MaxCost>>}
          /\ \A d \in Debts : d[1] # w
      BY <1>t, <1>o, <2>1, <3>1, WorkerAlone, DebtMade
    <3>3. M!CanPay(work[w].owner)
      <4>1. SUFFICES ASSUME work[w].owner \in Users, account[work[w].owner].present
                     PROVE  /\ account[work[w].owner].enabled
                            /\ account[work[w].owner].quota >= 0 =>
                                 account[work[w].owner].used < account[work[w].owner].quota
        BY DEF M!CanPay, M!Present
      <4>2. /\ account[work[w].owner].used \in Nat
            /\ account[work[w].owner].quota \in Int
            /\ work[w].owner # NoOwner
        BY <4>1, NamesAssumption DEF TypeOK, AccountRecord
      <4>3. QED
        BY <2>3, <4>1, <4>2 DEF UserQuotaAllowed
    <3>4. M!Admit(w, work[w].owner)
      BY <2>1, <3>2, <3>3 DEF M!Admit, M!Owe
    <3>5. QED
      BY <3>4, OwnersAreUsers DEF M!Next
  <2>4. QED
    BY <2>2, <2>3
<1>3. CASE Refuse(w)
  <2>1. Busy(w) /\ ~Busy(w)'
    BY <1>3, <1>t DEF Refuse, Busy, Idle
  <2>2. Debt(w) \in Debts /\ Debts' = Debts \ {Debt(w)}
    BY <1>t, <1>o, <2>1, WorkerAlone, DebtSettled
  <2>3. M!Settle(Debt(w))
    BY <1>3, <2>2 DEF M!Settle, Refuse, tables
  <2>4. QED
    BY <2>2, <2>3 DEF M!Next
<1>4. CASE Deliver(w)
  <2>1. PICK c : work' = [work EXCEPT ![w].stage = "charge", ![w].cost = c]
    BY <1>4 DEF Deliver
  <2>2. Debts' = Debts
    BY <1>4, <2>1, <1>t, WorkerDebtStays DEF Deliver, Busy, WorkRecord
  <2>3. QED
    BY <1>4, <2>2, <1>s DEF Deliver, tables
<1>5. CASE ChargeToken(w)
  <2>1. Debts' = Debts
    BY <1>5, <1>t, WorkerDebtStays DEF ChargeToken, Busy, WorkRecord
  <2>2. QED
    BY <1>5, <2>1, <1>s DEF ChargeToken
<1>6. CASE ChargeOwner(w)
  <2>1. Busy(w) /\ ~Busy(w)'
    BY <1>6, <1>t DEF ChargeOwner, Busy, Idle
  <2>2. Debt(w) \in Debts /\ Debts' = Debts \ {Debt(w)}
    BY <1>t, <1>o, <2>1, WorkerAlone, DebtSettled
  <2>3. work[w].cost \in 0..MaxCost
    BY <1>t DEF WorkRecord
  <2>4. M!Settle(Debt(w))
    BY <1>6, <1>o, <2>2, <2>3 DEF M!Settle, M!Present, ChargeOwner, AddUserUsed
  <2>5. QED
    BY <2>2, <2>4 DEF M!Next
<1>7. QED
  BY <1>1, <1>2, <1>3, <1>4, <1>5, <1>6 DEF RelayStep

\* A recharge, whoever makes it, is a change of one account that keeps what it has used.
LEMMA RechargeRefines ==
  ASSUME TypeOK, NEW u, NEW n \in Int, AddUserQuota(u, n), Debts' = Debts
  PROVE  M!Next \/ UNCHANGED M!vars
<1>1. CASE ~(u \in Users /\ account[u].present)
  BY <1>1 DEF AddUserQuota, M!vars
<1>2. CASE u \in Users /\ account[u].present
  <2>1. account \in [Users -> AccountRecord] /\ account[u] \in AccountRecord
    BY <1>2 DEF TypeOK
  <2>2. account'[u] = [account[u] EXCEPT !.quota = account[u].quota + n]
    BY <1>2, <2>1 DEF AddUserQuota
  <2>3. account'[u].present /\ account'[u].used = account[u].used
    BY <1>2, <2>1, <2>2 DEF AccountRecord
  <2>4. M!Change(u, u)
    BY <1>2, <2>1, <2>3 DEF AddUserQuota, M!Change, M!Present, M!Others
  <2>5. QED
    BY <1>2, <2>4 DEF M!Next
<1>3. QED
  BY <1>1, <1>2

\* A transfer is a Promise when the remainder is checked, a Settle at the debit and a
\* change of the recipient's limit at the credit.
LEMMA TransferRefines ==
  ASSUME TypeOK, NEW s \in Senders, TransferStep(s)
  PROVE  M!Next \/ UNCHANGED M!vars
<1>t. /\ transfer \in [Senders -> TransferRecord] /\ s \in Payers /\ s \notin Workers
      /\ work' = work /\ \A r \in Senders \ {s} : transfer'[r] = transfer[r]
      /\ transfer[s].amount \in Nat /\ transfer[s].amount \in Int
  BY SendersAssumption
     DEF TypeOK, TransferRecord, Payers, TransferStep, Transfer, Debit, CreditRecipient
<1>o. /\ Owes(s) <=> transfer[s].stage = "debit"
      /\ Owes(s)' <=> transfer'[s].stage = "debit"
      /\ Debt(s) = <<s, transfer[s].from, {transfer[s].amount}>>
      /\ Debt(s)' = <<s, transfer'[s].from, {transfer'[s].amount}>>
      /\ Debt(s)[2] = transfer[s].from /\ Debt(s)[3] = {transfer[s].amount}
  BY <1>t DEF Owes, Debt
<1>1. ASSUME NEW u \in Users, NEW v \in Users, NEW n \in TransferAmounts, Transfer(s, u, v, n)
      PROVE  M!Next
  <2>1. /\ transfer[s].stage = "idle" /\ account' = account
        /\ transfer'[s] = [stage |-> "debit", from |-> u, to |-> v, amount |-> n]
    BY <1>1, <1>t DEF Transfer, tables
  <2>2. ~Owes(s) /\ Owes(s)' /\ Debt(s)' = <<s, u, {n}>>
    <3>1. transfer'[s].stage = "debit" /\ transfer'[s].from = u /\ transfer'[s].amount = n
      BY <2>1
    <3>2. QED
      BY <1>o, <2>1, <3>1, Zenon
  <2>3. /\ Debts' = Debts \union {<<s, u, {n}>>}
        /\ \A d \in Debts : d[1] # s
    BY <1>t, <2>2, SenderAlone, DebtMade
  <2>4. M!CanSend(u, n)
    <3>1. account[u].used \in Nat /\ account[u].quota \in Int /\ n \in Nat
      BY AmountAssumption DEF TypeOK, AccountRecord
    <3>2. QED
      BY <1>1, <3>1 DEF Transfer, M!CanSend, M!Present
  <2>5. M!Promise(s, u, n)
    BY <2>1, <2>3, <2>4 DEF M!Promise, M!Owe
  <2>6. QED
    BY <2>5 DEF M!Next
<1>2. CASE Debit(s)
  <2>1. Owes(s) /\ ~Owes(s)'
    BY <1>2, <1>t, <1>o DEF Debit, TransferRecord
  <2>2. Debt(s) \in Debts /\ Debts' = Debts \ {Debt(s)}
    BY <1>t, <2>1, SenderAlone, DebtSettled
  <2>3. M!Settle(Debt(s))
    BY <1>2, <1>o, <2>2 DEF M!Settle, M!Present, Debit, AddUserUsed
  <2>4. QED
    BY <2>2, <2>3 DEF M!Next
<1>3. CASE CreditRecipient(s)
  <2>1. ~Owes(s) /\ ~Owes(s)'
    BY <1>3, <1>t, <1>o DEF CreditRecipient, NoTransfer
  <2>2. \A q \in Payers : (Owes(q)' <=> Owes(q)) /\ (Owes(q) => Debt(q)' = Debt(q))
    <3>1. \A q \in Payers \ {s} : (Owes(q)' <=> Owes(q)) /\ Debt(q)' = Debt(q)
      BY <1>t, SenderAlone
    <3>2. (Owes(s)' <=> Owes(s)) /\ (Owes(s) => Debt(s)' = Debt(s))
      BY <2>1
    <3>3. QED
      BY <3>1, <3>2, Zenon
  <2>3. Debts' = Debts
    BY <2>2, DebtsStay
  <2>4. QED
    BY <1>3, <1>t, <2>3, RechargeRefines DEF CreditRecipient
<1>4. QED
  BY <1>1, <1>2, <1>3 DEF TransferStep

LEMMA UpdateUserRefines ==
  ASSUME TypeOK, NEW u \in Users, NEW v \in Users, NEW e, NEW q, UpdateUser(u, v, e, q)
  PROVE  M!Next
<1>t. account \in [Users -> AccountRecord] /\ account[u] \in AccountRecord
  BY DEF TypeOK
<1>1. Debts' = Debts
  BY NothingDone DEF UpdateUser
<1>2. account'[v] = [account[u] EXCEPT !.enabled = e, !.quota = q]
  BY <1>t DEF UpdateUser
<1>3. account'[v].present /\ account'[v].used = account[u].used /\ account[u].present
  BY <1>2, <1>t DEF UpdateUser, AccountRecord
<1>4. v # u => ~account'[u].present
  BY <1>t DEF UpdateUser, NoSuchAccount
<1>5. \A z \in Users \ {u, v} : account'[z] = account[z]
  BY <1>t DEF UpdateUser
<1>6. M!Change(u, v)
  BY <1>1, <1>3, <1>4, <1>5 DEF M!Change, M!Present, M!Others, UpdateUser
<1>7. QED
  BY <1>6 DEF M!Next

\* Every administrative change of an account is one of Meter's.
LEMMA AccountEditRefines ==
  ASSUME TypeOK, NEW u \in Users, AccountEdit(u)
  PROVE  M!Next \/ UNCHANGED M!vars
<1>t. account \in [Users -> AccountRecord] /\ account[u] \in AccountRecord
  BY DEF TypeOK
<1>d. Debts' = Debts
  BY NothingDone DEF AccountEdit, CreateUser, UpdateUser, ResetPassword, DeleteUser, Recharge
<1>1. ASSUME NEW q \in Quotas, CreateUser(u, q) PROVE M!Next
  <2>1. M!Open(u)
    BY <1>1, <1>t, <1>d DEF CreateUser, FreshAccount, M!Open, M!Present, M!Others
  <2>2. QED
    BY <2>1 DEF M!Next
<1>2. ASSUME NEW v \in Users, NEW e \in BOOLEAN, NEW q \in Quotas, UpdateUser(u, v, e, q)
      PROVE  M!Next
  BY <1>2, UpdateUserRefines
<1>3. CASE ResetPassword(u)
  BY <1>3, UpdateUserRefines DEF ResetPassword
<1>4. CASE DeleteUser(u)
  <2>1. M!Close(u)
    BY <1>4, <1>t, <1>d DEF DeleteUser, NoSuchAccount, M!Close, M!Present, M!Others
  <2>2. QED
    BY <2>1 DEF M!Next
<1>5. ASSUME NEW n \in Credits, Recharge(u, n) PROVE M!Next \/ UNCHANGED M!vars
  BY <1>5, <1>d, AmountAssumption, RechargeRefines DEF Recharge
<1>6. QED
  BY <1>1, <1>2, <1>3, <1>4, <1>5 DEF AccountEdit

LEMMA NextRefines == TypeOK /\ [Next]_vars => [M!Next]_(M!vars)
<1> SUFFICES ASSUME TypeOK, [Next]_vars PROVE M!Next \/ UNCHANGED M!vars
  OBVIOUS
<1>s. ASSUME work' = work, transfer' = transfer, account' = account PROVE UNCHANGED M!vars
  BY <1>s, NothingDone DEF M!vars
<1>1. ASSUME NEW w \in Workers, RelayStep(w) PROVE M!Next \/ UNCHANGED M!vars
  BY <1>1, RelayRefines
<1>2. ASSUME NEW k \in Tokens, CheckAndUse(k) \/ TokenEdit(k) PROVE UNCHANGED M!vars
  BY <1>2, <1>s DEF CheckAndUse, TokenEdit, InsertToken, UpdateToken, DeleteToken, Expire
<1>3. ASSUME NEW u \in Users, AccountEdit(u) PROVE M!Next \/ UNCHANGED M!vars
  BY <1>3, AccountEditRefines
<1>4. ASSUME NEW m \in {"self", "biz"}, UpdateMode(m) PROVE UNCHANGED M!vars
  BY <1>4, <1>s DEF UpdateMode, tables
<1>5. CASE Crash
  <2>1. Debts' = {} /\ account' = account
    BY <1>5 DEF Crash, Debts, Idle, NoTransfer, tables
  <2>2. QED
    BY <2>1 DEF M!Next, M!Forget
<1>6. CASE UNCHANGED vars
  BY <1>6, <1>s DEF vars
<1>7. ASSUME NEW s \in Senders, TransferStep(s) PROVE M!Next \/ UNCHANGED M!vars
  BY <1>7, TransferRefines
<1>8. QED
  BY <1>1, <1>2, <1>3, <1>4, <1>5, <1>6, <1>7 DEF Next

\* The relay and the transfers, with their tokens, their checks apart from their charges,
\* the edits beside them and the crashes, implement Meter: an account admits a request
\* only while it can pay and a transfer only while it has the amount left, is charged
\* once at most for each, and its use changes no other way.
THEOREM AccountingImplementsMeter == Spec => ImplementsMeter
BY InitRefines, NextRefines, TypeCorrect, PTL DEF Spec, ImplementsMeter, M!Spec

================================================================================
