------------------------------ MODULE Accounting ------------------------------
(***************************************************************************)
(* How the gateway meters a relayed request: the token and the account     *)
(* that pay for it (model/token.go, model/user.go) and the request         *)
(* goroutines of handler/relay.go that check both before the upstream is   *)
(* called and charge both after it answered.  The one other debit of an    *)
(* account is the transfer of handler/feat_plan.go, of any amount its      *)
(* sender had left when he asked for it.                                   *)
(*                                                                         *)
(* tokenMu and userMu are taken separately for every call, so a request is *)
(* a chain of atomic steps (GetToken, UserQuotaAllowed, the upstream,      *)
(* UseToken, AddUserUsed) between which other requests, the administrator  *)
(* and a crash may act.  Both tables are written through to SQLite under   *)
(* their lock, so a restart finds them as they were.                       *)
(***************************************************************************)
EXTENDS Integers, FiniteSets

CONSTANTS
  Workers,        \* goroutines that may be relaying a request at one time
  Senders,        \* goroutines that may be serving a transfer at one time
  Tokens,         \* token keys
  Users,          \* user names; roles are left out, so root's account, which may not send
                  \* and is not deleted, may do more here than in the program
  NoToken,        \* key of an idle worker
  NoOwner,        \* Owner "" of a token nobody owns
  MaxCost,        \* the most one answer is charged
  Quotas,         \* quotas an administrator writes; a negative one means no limit
  Credits,        \* amounts AddUserQuota is called with
  TransferAmounts,  \* amounts that are transferred
  MaxAdmissions,  \* bound: requests and transfers admitted in a behaviour
  MaxEdits        \* bound: administrative changes in a behaviour

ASSUME WorkersAssumption == IsFiniteSet(Workers)
ASSUME SendersAssumption == IsFiniteSet(Senders) /\ Senders \cap Workers = {}
ASSUME NamesAssumption   == NoToken \notin Tokens /\ NoOwner \notin Users
ASSUME CostAssumption    == MaxCost \in Nat \ {0}
ASSUME AmountAssumption  == Quotas \subseteq Int /\ Credits \subseteq Int /\ TransferAmounts \subseteq Nat \ {0}
ASSUME BoundAssumption   == MaxAdmissions \in Nat /\ MaxEdits \in Nat

VARIABLES
  token,       \* the tokens table: key -> record, present or not
  account,     \* the users table: name -> record, present or not
  work,        \* what each relay goroutine is doing
  transfer,    \* what each goroutine that serves a transfer is doing
  mode,        \* setting.Mode, "self" or "biz"
  admissions,  \* requests and transfers admitted so far
  edits,       \* administrative changes so far
  peak,        \* history: highest limit a token has had, Uncapped once it had none
  ceiling,     \* history: highest limit the accounts of a name have had, Uncapped once
               \* one had none
  served,      \* history: Used of a token, plus the cost answered for it, since its last
               \* update or the last start
  base         \* history: Used of a token at that moment

tables  == <<token, account>>
history == <<peak, ceiling, served, base>>
vars    == <<token, account, work, transfer, mode, admissions, edits, peak, ceiling, served, base>>

-------------------------------------------------------------------------------
(* Records                                                                 *)

Uncapped == -1

TokenRecord ==
  [present: BOOLEAN, owner: Users \union {NoOwner}, quota: Int, used: Nat,
   unlimited: BOOLEAN, enabled: BOOLEAN, expired: BOOLEAN]

AccountRecord == [present: BOOLEAN, enabled: BOOLEAN, quota: Int, used: Nat]

Stages == {"idle", "owner", "routing", "charge", "account"}

WorkRecord ==
  [stage: Stages, key: Tokens \union {NoToken}, owner: Users \union {NoOwner},
   cost: 0..MaxCost]

TransferRecord ==
  [stage: {"idle", "debit", "credit"}, from: Users \union {NoOwner},
   to: Users \union {NoOwner}, amount: Nat]

NoSuchToken ==
  [present |-> FALSE, owner |-> NoOwner, quota |-> 0, used |-> 0,
   unlimited |-> FALSE, enabled |-> FALSE, expired |-> FALSE]

NoSuchAccount == [present |-> FALSE, enabled |-> FALSE, quota |-> 0, used |-> 0]

FreshToken(u, q, unlimited) ==
  [present |-> TRUE, owner |-> u, quota |-> q, used |-> 0,
   unlimited |-> unlimited, enabled |-> TRUE, expired |-> FALSE]

FreshAccount(q) == [present |-> TRUE, enabled |-> TRUE, quota |-> q, used |-> 0]

Idle == [stage |-> "idle", key |-> NoToken, owner |-> NoOwner, cost |-> 0]

NoTransfer == [stage |-> "idle", from |-> NoOwner, to |-> NoOwner, amount |-> 0]

Larger(m, n) == IF m < n THEN n ELSE m

\* The highest limit seen once a new one is set: no limit at all is for ever.
Raise(old, limit) == IF old < 0 \/ limit < 0 THEN Uncapped ELSE Larger(old, limit)

LimitOf(quota, unlimited) == IF unlimited THEN Uncapped ELSE quota

-------------------------------------------------------------------------------
(* The checks of model/token.go and model/user.go                          *)

\* tok.Unlimited == 0 && tok.Quota >= 0 && tok.Used >= tok.Quota
Exhausted(t) == ~t.unlimited /\ t.quota >= 0 /\ t.used >= t.quota

\* Slip: the pre-check of the quota is forgotten.
TokenAdmitsUnmetered(k) == token[k].present /\ ~token[k].expired

\* GetToken, IsExpired and the quota pre-check of the handler; Status is not read.
TokenAdmits(k) ==
  /\ token[k].present
  /\ ~token[k].expired
  /\ ~Exhausted(token[k])

\* Slip: > for >= in the comparison with the quota.
UserQuotaAllowedAtLimit(u) ==
  \/ u = NoOwner
  \/ ~account[u].present
  \/ /\ account[u].enabled
     /\ ~(account[u].quota >= 0 /\ account[u].used > account[u].quota)

\* UserQuotaAllowed: an owner with no account passes.
UserQuotaAllowed(u) ==
  \/ u = NoOwner
  \/ ~account[u].present
  \/ /\ account[u].enabled
     /\ ~(account[u].quota >= 0 /\ account[u].used >= account[u].quota)

\* ModelCost: the raw count in self mode, which is at least one; a ratio or a
\* fixed price, which may be zero, in biz mode.
Costs == IF mode = "self" THEN 1..MaxCost ELSE 0..MaxCost

-------------------------------------------------------------------------------
(* A relayed request                                                       *)

\* The token is looked up and checked on a copy; the goroutine keeps the owner.
Authenticate(w, k) ==
  /\ work[w].stage = "idle"
  /\ admissions < MaxAdmissions
  /\ TokenAdmits(k)
  /\ work' = [work EXCEPT ![w] =
                [stage |-> "owner", key |-> k, owner |-> token[k].owner, cost |-> 0]]
  /\ admissions' = admissions + 1
  /\ UNCHANGED <<tables, transfer, mode, edits, history>>

\* The owner's account is checked, in another critical section.
CheckOwner(w) ==
  /\ work[w].stage = "owner"
  /\ work' = [work EXCEPT ![w] =
                IF UserQuotaAllowed(work[w].owner) THEN [@ EXCEPT !.stage = "routing"] ELSE Idle]
  /\ UNCHANGED <<tables, transfer, mode, admissions, edits, history>>

\* Everything between the checks and the charge that ends without one: scope,
\* address, rate windows, model list, no channel, a transport error, a handler
\* that unwinds while it copies the answer.
Refuse(w) ==
  /\ work[w].stage = "routing"
  /\ work' = [work EXCEPT ![w] = Idle]
  /\ UNCHANGED <<tables, transfer, mode, admissions, edits, history>>

\* The answer has been written to the client and its cost is known.
Deliver(w) ==
  /\ work[w].stage = "routing"
  /\ \E c \in Costs :
       /\ work' = [work EXCEPT ![w].stage = "charge", ![w].cost = c]
       /\ served' = IF token[work[w].key].present
                    THEN [served EXCEPT ![work[w].key] = @ + c] ELSE served
  /\ UNCHANGED <<tables, transfer, mode, admissions, edits, peak, ceiling, base>>

\* Slip: the charge trusts the pre-check of the handler.
UseTokenUnchecked(k, c) ==
  IF token[k].present /\ token[k].enabled THEN [token EXCEPT ![k].used = @ + c] ELSE token

\* UseToken refuses a token that is gone, disabled or exhausted; otherwise it
\* charges the whole cost.  The handler ignores its error.
UseToken(k, c) ==
  IF token[k].present /\ token[k].enabled /\ ~Exhausted(token[k])
  THEN [token EXCEPT ![k].used = @ + c]
  ELSE token

ChargeToken(w) ==
  /\ work[w].stage = "charge"
  /\ token' = UseToken(work[w].key, work[w].cost)
  /\ work' = [work EXCEPT ![w].stage = "account"]
  /\ UNCHANGED <<account, transfer, mode, admissions, edits, history>>

\* Slip: the amount is taken off Used, as a balance would be.
AddUserUsedAsBalance(u, n) ==
  IF u \in Users /\ account[u].present THEN [account EXCEPT ![u].used = @ - n] ELSE account

\* AddUserUsed does nothing for a name without an account.
AddUserUsed(u, n) ==
  IF u \in Users /\ account[u].present THEN [account EXCEPT ![u].used = @ + n] ELSE account

ChargeOwner(w) ==
  /\ work[w].stage = "account"
  /\ account' = AddUserUsed(work[w].owner, work[w].cost)
  /\ work' = [work EXCEPT ![w] = Idle]
  /\ UNCHANGED <<token, transfer, mode, admissions, edits, history>>

\* The prefix proxy charges one unit in one critical section, before it forwards,
\* and leaves the owner alone.  It reads Quota but not Unlimited.
LegacyAllowed(t) ==
  /\ t.present
  /\ t.enabled
  /\ ~t.expired
  /\ ~(t.quota >= 0 /\ t.used >= t.quota)

CheckAndUse(k) ==
  /\ admissions < MaxAdmissions
  /\ LegacyAllowed(token[k])
  /\ token' = [token EXCEPT ![k].used = @ + 1]
  /\ served' = [served EXCEPT ![k] = @ + 1]
  /\ admissions' = admissions + 1
  /\ UNCHANGED <<account, work, transfer, mode, edits, peak, ceiling, base>>

-------------------------------------------------------------------------------
(* A transfer                                                              *)

\* Slip: the remainder is not looked at.
TransferUnchecked(s, u, v, n) ==
  /\ transfer[s].stage = "idle"
  /\ admissions < MaxAdmissions
  /\ account[u].present /\ account[v].present /\ u # v
  /\ transfer' = [transfer EXCEPT ![s] = [stage |-> "debit", from |-> u, to |-> v, amount |-> n]]
  /\ admissions' = admissions + 1
  /\ UNCHANGED <<tables, work, mode, edits, history>>

\* Sender and recipient are looked up, and the sender's remainder is computed on a copy.
Transfer(s, u, v, n) ==
  /\ transfer[s].stage = "idle"
  /\ admissions < MaxAdmissions
  /\ account[u].present /\ account[v].present /\ u # v
  /\ account[u].quota - account[u].used >= n
  /\ transfer' = [transfer EXCEPT ![s] = [stage |-> "debit", from |-> u, to |-> v, amount |-> n]]
  /\ admissions' = admissions + 1
  /\ UNCHANGED <<tables, work, mode, edits, history>>

\* AddUserUsed of the sender, whatever was charged to him since, ...
Debit(s) ==
  /\ transfer[s].stage = "debit"
  /\ account' = AddUserUsed(transfer[s].from, transfer[s].amount)
  /\ transfer' = [transfer EXCEPT ![s].stage = "credit"]
  /\ UNCHANGED <<token, work, mode, admissions, edits, history>>

\* AddUserQuota does nothing for a name without an account; the amount may be negative.
AddUserQuota(u, n) ==
  IF u \in Users /\ account[u].present
  THEN /\ account' = [account EXCEPT ![u].quota = @ + n]
       /\ ceiling' = [ceiling EXCEPT ![u] = Raise(@, account[u].quota + n)]
  ELSE UNCHANGED <<account, ceiling>>

\* ... and AddUserQuota of the recipient.
CreditRecipient(s) ==
  /\ transfer[s].stage = "credit"
  /\ AddUserQuota(transfer[s].to, transfer[s].amount)
  /\ transfer' = [transfer EXCEPT ![s] = NoTransfer]
  /\ UNCHANGED <<token, work, mode, admissions, edits, peak, served, base>>

-------------------------------------------------------------------------------
(* Administration                                                          *)

Edit == edits < MaxEdits /\ edits' = edits + 1

\* A new token starts enabled with nothing used: the web page sends neither Used nor
\* Status.  Its key is new.
InsertToken(k, u, q, unlimited) ==
  /\ Edit
  /\ ~token[k].present
  /\ token' = [token EXCEPT ![k] = FreshToken(u, q, unlimited)]
  /\ peak' = [peak EXCEPT ![k] = Raise(0, LimitOf(q, unlimited))]
  /\ served' = [served EXCEPT ![k] = 0]
  /\ base' = [base EXCEPT ![k] = 0]
  /\ UNCHANGED <<account, work, transfer, mode, admissions, ceiling>>

\* Every field but Owner and Used is overwritten, and the key itself may change.
UpdateToken(k, k2, q, unlimited, enabled, expired) ==
  /\ Edit
  /\ token[k].present
  /\ k2 = k \/ ~token[k2].present
  /\ token' = [token EXCEPT ![k] = NoSuchToken,
                            ![k2] = [token[k] EXCEPT !.quota = q, !.unlimited = unlimited,
                                                     !.enabled = enabled, !.expired = expired]]
  /\ peak' = [peak EXCEPT ![k2] = Raise(peak[k], LimitOf(q, unlimited))]
  /\ served' = [served EXCEPT ![k2] = token[k].used]
  /\ base' = [base EXCEPT ![k2] = token[k].used]
  /\ UNCHANGED <<account, work, transfer, mode, admissions, ceiling>>

DeleteToken(k) ==
  /\ Edit
  /\ token[k].present
  /\ token' = [token EXCEPT ![k] = NoSuchToken]
  /\ UNCHANGED <<account, work, transfer, mode, admissions, history>>

\* ExpiredAt passes.
Expire(k) ==
  /\ Edit
  /\ token[k].present /\ ~token[k].expired
  /\ token' = [token EXCEPT ![k].expired = TRUE]
  /\ UNCHANGED <<account, work, transfer, mode, admissions, history>>

CreateUser(u, q) ==
  /\ Edit
  /\ ~account[u].present
  /\ account' = [account EXCEPT ![u] = FreshAccount(q)]
  /\ ceiling' = [ceiling EXCEPT ![u] = Raise(@, q)]
  /\ UNCHANGED <<token, work, transfer, mode, admissions, peak, served, base>>

\* Status and Quota are overwritten and Used is kept; the name may change to a
\* free one, and the tokens keep naming the old one.
UpdateUser(u, u2, enabled, q) ==
  /\ Edit
  /\ account[u].present
  /\ u2 = u \/ ~account[u2].present
  /\ account' = [account EXCEPT ![u] = NoSuchAccount,
                                ![u2] = [account[u] EXCEPT !.enabled = enabled, !.quota = q]]
  /\ ceiling' = [ceiling EXCEPT ![u2] = IF u2 = u THEN Raise(ceiling[u], q) ELSE Uncapped]
  /\ UNCHANGED <<token, work, transfer, mode, admissions, peak, served, base>>

\* resetApply patches the account with a record that holds the password only, so
\* the zero Status and the zero Quota of the patch are written too.
ResetPassword(u) == UpdateUser(u, u, FALSE, 0)

DeleteUser(u) ==
  /\ Edit
  /\ account[u].present
  /\ account' = [account EXCEPT ![u] = NoSuchAccount]
  /\ UNCHANGED <<token, work, transfer, mode, admissions, history>>

\* Recharge, refund, redemption, gift.
Recharge(u, n) ==
  /\ Edit
  /\ AddUserQuota(u, n)
  /\ UNCHANGED <<token, work, transfer, mode, admissions, peak, served, base>>

UpdateMode(m) ==
  /\ Edit
  /\ mode' = m
  /\ UNCHANGED <<tables, work, transfer, admissions, history>>

\* The process dies with its requests; the tables are on disk.
Crash ==
  /\ \/ \E w \in Workers : work[w] # Idle
     \/ \E s \in Senders : transfer[s] # NoTransfer
  /\ work' = [w \in Workers |-> Idle]
  /\ transfer' = [s \in Senders |-> NoTransfer]
  /\ served' = [k \in Tokens |-> token[k].used]
  /\ base' = [k \in Tokens |-> token[k].used]
  /\ UNCHANGED <<tables, mode, admissions, edits, peak, ceiling>>

-------------------------------------------------------------------------------
(* Specification                                                           *)

FreshTokens ==
  {FreshToken(u, q, b) : u \in Users \union {NoOwner}, q \in Quotas, b \in BOOLEAN}

FreshAccounts == {FreshAccount(q) : q \in Quotas}

\* A start of the program on tables where nothing was used yet.
Init ==
  /\ token \in [Tokens -> {NoSuchToken} \union FreshTokens]
  /\ account \in [Users -> {NoSuchAccount} \union FreshAccounts]
  /\ work = [w \in Workers |-> Idle]
  /\ transfer = [s \in Senders |-> NoTransfer]
  /\ mode = "self"
  /\ admissions = 0 /\ edits = 0
  /\ peak = [k \in Tokens |-> Raise(0, LimitOf(token[k].quota, token[k].unlimited))]
  /\ ceiling = [u \in Users |-> Raise(0, account[u].quota)]
  /\ served = [k \in Tokens |-> 0]
  /\ base = [k \in Tokens |-> 0]

RelayStep(w) ==
  \/ \E k \in Tokens : Authenticate(w, k)
  \/ CheckOwner(w)
  \/ Refuse(w)
  \/ Deliver(w)
  \/ ChargeToken(w)
  \/ ChargeOwner(w)

TransferStep(s) ==
  \/ \E u, v \in Users, n \in TransferAmounts : Transfer(s, u, v, n)
  \/ Debit(s)
  \/ CreditRecipient(s)

TokenEdit(k) ==
  \/ \E u \in Users \union {NoOwner}, q \in Quotas, b \in BOOLEAN : InsertToken(k, u, q, b)
  \/ \E k2 \in Tokens, q \in Quotas, b, e, x \in BOOLEAN : UpdateToken(k, k2, q, b, e, x)
  \/ DeleteToken(k)
  \/ Expire(k)

AccountEdit(u) ==
  \/ \E q \in Quotas : CreateUser(u, q)
  \/ \E u2 \in Users, e \in BOOLEAN, q \in Quotas : UpdateUser(u, u2, e, q)
  \/ ResetPassword(u)
  \/ DeleteUser(u)
  \/ \E n \in Credits : Recharge(u, n)

Next ==
  \/ \E w \in Workers : RelayStep(w)
  \/ \E s \in Senders : TransferStep(s)
  \/ \E k \in Tokens : CheckAndUse(k) \/ TokenEdit(k)
  \/ \E u \in Users : AccountEdit(u)
  \/ \E m \in {"self", "biz"} : UpdateMode(m)
  \/ Crash

Spec == Init /\ [][Next]_vars

-------------------------------------------------------------------------------
(* Properties                                                              *)

\* Every variable keeps its type; in particular no counter of use goes below zero.
TypeOK ==
  /\ token \in [Tokens -> TokenRecord]
  /\ account \in [Users -> AccountRecord]
  /\ work \in [Workers -> WorkRecord]
  /\ \A w \in Workers : work[w].stage # "idle" => work[w].key \in Tokens
  /\ transfer \in [Senders -> TransferRecord]
  /\ mode \in {"self", "biz"}
  /\ admissions \in Nat /\ edits \in Nat
  /\ peak \in [Tokens -> Int] /\ ceiling \in [Users -> Int]
  /\ served \in [Tokens -> Nat] /\ base \in [Tokens -> Nat]

\* What all requests in flight together may add to an account after it ran out.
Exposure == Cardinality(Workers) * MaxCost

\* UserQuotaAllowed and AddUserUsed are two critical sections, and so are the remainder
\* a transfer computes and its debit: an account may be overdrawn.  It never is by more
\* than the requests and the transfers that may be in flight at once, of which one
\* transfer may take the whole limit, however often the account is exhausted, edited,
\* refilled or created again.
OwnerOverdraftBounded ==
  \A u \in Users :
    account[u].present /\ ceiling[u] >= 0 =>
      account[u].used <=
        Larger(ceiling[u] - 1, 0) + Exposure + Cardinality(Senders) * ceiling[u]

\* UseToken checks and charges in one critical section: a token that always had
\* a limit is overdrawn by less than one answer, whatever runs beside it.
TokenOverdraftBounded ==
  \A k \in Tokens :
    token[k].present /\ peak[k] >= 0 =>
      token[k].used <= Larger(peak[k] - 1, 0) + MaxCost

\* An answer whose UseToken is refused is given away.  The pre-check keeps that
\* bounded: from one update of a limited, enabled token (or start of the program)
\* to the next, the answers given for it stay within its limit and one answer for
\* each goroutine.
TokenServiceBounded ==
  \A k \in Tokens :
    /\ token[k].present /\ token[k].enabled
    /\ ~token[k].unlimited /\ token[k].quota >= 0
    => served[k] <= Larger(base[k], token[k].quota) + Exposure

===============================================================================
