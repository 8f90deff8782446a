# TLA+ verification of li-api

li-api is a gateway in front of language-model providers: clients send OpenAI,
Anthropic or Gemini requests with a token of the gateway, the gateway picks a
channel (an upstream with one or more keys), forwards the request, and charges
the token and the account that owns it. It is one Go process; its tables live
in memory under a mutex each and are written through to SQLite.

This directory holds TLA+ modules translated from that source, TLC
configurations that check them on small instances, and proofs checked by TLAPS.

    tlc -workers 2 -config MCStore.cfg MCStore    # one run; see section 3
    tlapm AccountingProofs.tla                    # the proofs; see section 5

## 1. Inventory

| Component | State | Operations | What is hard | What makes it correct |
|---|---|---|---|---|
| Tokens (`model/token.go`) | `tokens` under `tokenMu`, on disk | Insert, Update, Delete, GetToken, UseToken, CheckAndUse | the check is on a copy, the charge comes after the answer | overdraft and uncharged service bounded |
| Accounts (`model/user.go`) | `users` under `userMu`, on disk | Create, Update, Delete, AddUserQuota, UserQuotaAllowed, AddUserUsed | check and charge are two critical sections; a negative quota is "no limit" | overdraft bounded by the requests in flight |
| Relay (`handler/relay.go`, `feat_anthropic.go`, `feat_gemini.go`) | per request; `autoDisabled`, `failCount`, `affinity`, `keyCounters` as `sync.Map`s | authenticate, route, attempt, mark, reply, charge | marks of several requests interleave between atomic operations | failover reaches every target, a good answer is delivered, the breaker trips and recovers |
| Protocol translation (`feat_anthropic.go`, `feat_gemini.go`, `relay.go`) | per stream: the line not ended yet, what was started, the tail | convert a request, a reply, a stream; cost | streams are cut anywhere | texts arrive once and in order, events are well formed, the upstream's usage is charged or an estimate of it |
| Pricing (`model/setting.go`) | the settings row | ModelCost, UpdateSetting | the mode changes under requests | modes charge what they say |
| Redemption (`model/redemption.go`) | codes in memory and on disk, `redeemMu` | create, redeem | a save fails, a crash | a code is credited once |
| Payment (`handler/feat_pay.go`) | orders and markers in `kv` | create, callback | callbacks repeat, no lock, a crash between writes | paid orders credited, not without bound |
| Check-in, plans, transfers (`feat_presets.go`, `feat_plan.go`, `scheduler.go`) | `kv` rows, `schedulerLastRun` in memory | check in, subscribe, daily grant, transfer, refund | read, credit and mark are separate; midnight; restarts | the daily grant once a day; credit conserved |
| Registration, invitations (`handler/auth.go`, `model/feat_invite.go`) | `users`, codes by mail in memory, invitations in `kv` | send a code, register, redeem an invitation | count-then-create, load-compare-save | few become the first account; a code works once |
| Login, captcha, setup, second factor, mailed links (`auth.go`, `feat_captcha.go`, `feat_setup.go`, `feat_2fa.go`, `feat_email.go`, `feat_oauth.go`) | maps in memory; columns of `users` | login, verify, enable, confirm, reset | check-then-act, expiry, copies written back | the lock bounds guesses; a key that is required was proved; recovery codes are spent |
| Sessions (`model/user.go`, `redisc/redisc.go`) | a map, or keys of Redis; a pool of connections | create, get, delete | a reply left on a connection, a retry, a late command | nobody gets the session of another; login and logout hold |
| Rate windows, guard (`relay.go`, `feat_guard.go`) | sliding windows per address, user and token; cached lists | allow, prune, form, refresh | pruning and adding under a mutex, weights; a cache read while it is written | no minute holds more than its limit; an answered form is obeyed |
| Prefix proxy (`handler/proxy.go`, `cache/cache.go`, `model/route.go`) | route cache, limiters, key counters | edit, refresh, match, forward | snapshot and swap under two locks | the cache catches up with the routes |
| Filters (`feat_ops.go`, `feat_moderation.go`, `feat_modreview.go`) | `kv` rows, cached words with a mark | maintenance, words, review; three forms | forms write several rows; a mark may be lost | a request is judged by settings that stood |
| Persistence (`db/db.go`, each `saveX`) | SQLite, one connection | whole-table saves, import of old files, settings | a save that fails after memory changed; crashes at the start | what was answered is on disk |
| Site, prices, audits, billing (`model/feat_site.go`, `feat_models.go`, `feat_audit.go`, `feat_billing.go`) | a document with a copy in memory; journals | first use, import, put, append, clear | the first use happens in a request | no change is lost, nothing comes in twice |
| Scheduler, logs, stream, counters (`scheduler.go`, `proxy.go`, `feat_live.go`, `stats.go`, `feat_tasks.go`) | files, `kv` rows, `lastRun` in memory | daily and monthly tasks, log, stream, count, clear | renaming a file others append to; midnight; restarts between mail and mark | lines leave by age; a stream is whole; one mail; recent backups |
| Probes, notifications, reports and CRUD, front end | `kv`, files | one read or write each | little | — |

How they interact. A relayed request passes the filters and the guard, then
calls GetToken, UserQuotaAllowed, the rate windows and buildTargets (which
reads channels, the breaker and the key counters), marks channels, converts
the answer, then calls UseToken and AddUserUsed. The prefix proxy passes the
guard, matches a cached route, calls CheckAndUse, the limiter and the keys of
the route, and logs. The credit handlers all end in AddUserQuota or
AddUserUsed. Every handler of the console asks for a session first. The
scheduler and the administrator's handlers act on the same tables at any time.
Nothing is shared but these tables, maps, rows and files.

Every place in the code that is hard to test is listed in `PROJECT.json` under
`hazards`, each with the properties that catch it going wrong.

## 2. Modules

| Module | What it is | Checked through |
|---|---|---|
| `Meter` | abstract: an account that admits while it can pay, debts, one bounded charge each | |
| `Accounting` | tokens, accounts, the check / answer / charge of a relayed request, CheckAndUse, administration, crash | `MCAccounting` |
| `Metering` | the refinement mapping from `Accounting` to `Meter` | `MCAccounting` |
| `AccountingProofs` | theorems about `Accounting`, with the refinement | |
| `Failover` | choice of targets, attempts, breaker, affinity, key rotation | `MCFailover` |
| `FailoverProofs` | theorems about the breaker, the Gemini handler and the choice of targets | |
| `Credits` | codes, orders, check-ins, plans and the daily grant, transfers, invitations, corrections, crash | `MCCredits` |
| `CreditsProofs` | theorems about `Credits` | |
| `Access` | logins and their lock, captchas, registration, setup, second factor, mailed codes and links, administration of accounts, sessions, crash | `MCAccess` |
| `AccessProofs` | theorems about `Access` | |
| `Redis` | the client of Redis with its pool and its second try, under the session functions | `MCRedis` |
| `Store` | the tables in memory and on disk, settings, import of old files, start, crash | `MCStore` |
| `Documents` | EXTENDS `Store`: site texts, prices, audits, billing, each loaded at its first use; one process of both | `MCStore` |
| `StoreProofs` | theorems about `Store` and `Documents` | |
| `Gateway` | guard, sliding windows, routes and their cache, the prefix proxy | `MCGateway` |
| `GatewayProofs` | theorems about `Gateway` | |
| `Upkeep` | access log, live stream, counters, daily and monthly tasks, backups, restarts | `MCUpkeep` |
| `UpkeepProofs` | theorems about `Upkeep` | |
| `Translate` | conversion of requests, streams and replies, and what a call costs | `MCTranslate` |
| `Filters` | maintenance mode, filter of words, review by a model, their forms, crash | `MCFilters` |
| `Induction` | theorems the others rest on: induction over a set of numbers, a least and a greatest, sums over finite sets | |

They are separate where they share only atomic calls: what `Credits` does to
an account is `AddUserQuota` and `AddUserUsed`. `Accounting` has the first with
arbitrary amounts at arbitrary times, and the second as its two callers have it:
after a relayed request, and as the debit of a transfer whose remainder was
computed on a copy. `Credits` has both callers too, beside the handlers that
credit. The breaker neither reads nor writes what is charged; the proxy of `Gateway` meets CheckAndUse as
one step that refuses or passes; the sessions that `Access` takes for a set
are what `Redis` implements when Redis is on. Where a component appears in two
modules its calls are the same critical sections in both.

Each module holds its state, one action per handler step or critical section,
the specification and the properties, the type invariant first. Definitions
whose comment begins with "Slip" are variants of the one below them, as a
plausible mistake would write it; they are in no specification, and
`PROJECT.json` names each as a mutant that a property must notice.

### Accounting, Meter, Metering

`token` and `account` are the two tables (an absent row has `present = FALSE`);
`work[w]` is the local state of a relay goroutine: the key, the owner it copied
from the token, the cost of the answer; `transfer[s]` is that of a goroutine
that serves a transfer: sender, recipient, amount.

| Action | Code |
|---|---|
| `Authenticate` | GetToken, IsExpired and the quota pre-check of each relay handler; `Status` is not read there |
| `CheckOwner` | UserQuotaAllowed; a name without an account passes |
| `Refuse` | every early return between the checks and the charge, and the unwinding of a handler that panics |
| `Deliver` | the answer is written; its cost is what ModelCost may return |
| `ChargeToken`, `ChargeOwner` | UseToken, whose error is ignored, then AddUserUsed |
| `Transfer`, `Debit`, `CreditRecipient` | TransferHandler: the remainder on a copy, AddUserUsed of the sender, AddUserQuota of the recipient |
| `CheckAndUse` | the prefix proxy: one unit, checked and charged in one critical section |
| `InsertToken` … `UpdateMode` | the administrator's handlers; `ResetPassword` writes the zero fields of its patch |
| `Crash` | the process dies; memory is rebuilt from disk, where both tables were written through |

`peak` and `ceiling` remember the highest limit a token or an account had
(`Uncapped` once it had none, and for an account renamed onto the name);
`served` and `base` count what was answered since a token's last update.
They are read by properties only.

`Meter` says what the metering of accounts promises without tokens, locks and
the order of the checks. `Metering` maps it: accounts to accounts, and to
`debts` the requests between the check of their owner and the charge, and the
transfers between the look at the remainder and the debit.
`ImplementsMeter` is its specification, read through that mapping.

Simplifications: the account of the administrator is not in `Users` of this
module (its quota is −1). A new token starts enabled with nothing used, which
is what the web page sends. Tokens and users are not inserted under, or renamed
to, a name in use: that is in `Store`. Integers are unbounded; usage reported
by an upstream is not negative.

### Failover

A mark is the chain of `sync.Map` and atomic operations the code has: `Load`
(LoadOrStore of the pointer), `Bump` (AddInt64 and comparison), `Trip`,
`Replace`; a success is `Reset`, `Revive`. `heap[c]` holds the counters of a
channel that are reachable, from `failCount[c]` or from a request that has
loaded its pointer, so that a request can still add to a counter that was
replaced. A cell that nobody can reach is reused.

| Action | Code |
|---|---|
| `Route` | buildTargets: highest priority tier, weighted shuffle (any order), rotation of keys, then the affinity's channel to the front |
| `Answer`, `ChannelError`, `TransportError`, `Abort`, `Unconvertible` | how one round trip of the loop ends; after the client's hang-up only as an error or with the unwinding |
| `Settle`, `Clear` | setAffinity, clearAffinity |
| `Reply` | what the handler answers after the loop |
| `Tick`, `Toggle`, `Restart` | time, the administrator, a restart that loses all of this state |

Handlers differ as in the code: `relay`, `anthropic`, `gemini` buffer answers
and fail over; `stream`, `passthrough` and `testchat` use the first target.
Only the OpenAI handler keeps an affinity, only its stream clears it, and
`lastErr` outlives a target in the OpenAI and the Anthropic handler. buildTargets
is one step: the reads and writes of the key counters of two requests that meet
a counter at the same moment are taken in sequence.

### Credits

Every handler is cut at each call that takes a lock or writes a row. `task[w]`
says where a goroutine is; `Begin` counts requests. Codes are in memory and on
disk, since their save can fail. `lastRun` is lost by a crash, everything else
that is a row is not. `credits` counts the credits of each source and `balance`
what went in; both are read by properties only. A configuration chooses mixes
of handlers, each handler beside those it shares accounts, tables or the
calendar with.

Simplifications: accounts are not deleted here (they are in `Accounting` and
`Access`); saves of accounts, and reads and writes of `kv`, succeed; of a relayed request
only the check and the charge of the account are here (`Relay`, `Charge`); an invitation is for
one person; the amounts are fixed. "Crash" is the death of the process: SQLite
runs in WAL mode with `synchronous=NORMAL`, so a power failure may lose more.

### Access

`users` is the table as a sequence of rows, since VerifyUser and the lookups
take the first that fits; `authFails`, `captchas`, `regCodes`, `emailCodes` and
`resetTokens` are the maps in memory with their times; `sessions` survives a
crash when Redis is on. `serial` is the next random value: codes, tokens, keys
and captchas are numbers nobody has had before. A request is a chain of stages
in `task[w]`; a deployment says which requests are sent and which settings hold.
The captchas are a set of entries with rising numbers: the oldest is the one with
the least. `spent` counts the recovery codes accepted, by the name and the
generation of the list they were read from; `renamed` are the names that the
administrator gave to an account there was; both are read by properties only.

| Actions | Code |
|---|---|
| `CaptchaHandler`, `VerifyCaptcha`, `PassCaptcha` | feat_captcha.go: the store at its limit drops the oldest; a captcha is deleted when it is tried |
| `LoginCheck` … `LoginReset`, `CreateSession`, `DeleteSession` | LoginHandler: the lock read, the password verified, the failure counted, in three critical sections |
| `RegisterSendCode`, `RegisterTakeCode`, `RegisterCount`, `SetupCount`, `CreateUser` | RegisterHandler and SetupHandler: the accounts are counted in one step and one is created in another |
| `OAuthLookup`, `OAuthCreate`, `OAuthEmail` | the callback of a third-party login |
| `TwoFAEnable` … `ClearSecret`, `VerifyTOTP`, `VerifyRecovery`, `SpendRecovery` | feat_2fa.go, each read and each write of the row a step |
| `EmailSendCode` … `BindEmail`, `ResetFindAddress` … `ResetApply` | feat_email.go |
| `AdminCheck` … `AdminReset2FA` | manage.go |
| `Tick`, `Crash` | time; memory is lost, the table is not |

### Redis

`conn` numbers the connections, each with the commands Redis has not served
and the replies nobody has read; `pool` is the stack of idle ones. `GetConn`,
`Dial`, `Write`, `Read`, `ReadFails` are the steps of `do`, with its second try
on a new connection; `PutConn` and `Close` what becomes of a connection. Redis
and the network are external: `Serve` answers or refuses a command, `ServeLate`
lets one of a closed connection arrive, `Cut` breaks a connection, `Lose` is a
session that expires or a restart of Redis. `acked` remembers what the last
call that returned did to a session, with the error that the callers drop.
IncrExpire has no caller and is left out.

### Store and Documents

`mem[t]` and `disk[t]` are the rows of a table. An edit holds the table's mutex
to the end of its transaction, so it is one action with two outcomes; `Save`
that fails leaves the slice changed. `born` tells a row from a later one with
the same ID, `stamp` one version of a row from the next; what is found at the
first start has the stamps up to `Found`. A start is a sequence of actions:
`boot` has the stores still to be initialised, `First` is the one whose turn it is
in main()'s order, and `importing` says how far the file of that one has come:
not begun, saved and not renamed, or dealt with, after which a table that is
still empty starts with nothing or with the account of INIT_ROOT_USER
(`LoadTable`, `MigrateTable`, `RenameTable`, `StartEmpty`, `LoadSettings`, …).
A crash falls between any two. The
settings are replaced by `DeleteSettings` and `InsertSettings`, under a read
lock that several savers may hold. `BatchInsert` and `SyncWrite` are the two
handlers that make several edits.

`Documents` adds what a process loads at its first use, under a mutex of its
own, while other requests wait or come in between: `Look`, `Migrate`,
`SaveDoc`, `InsertDoc`, `RenameDoc` for the site's texts and the prices of
models, `PutDoc` and `ModelsMerge` for their changes; `CountRows`,
`ImportEntry`, `RenameJournal` for the `sync.Once` of audits and billing,
`InsertEntry` and `ClearEntries` for their use. There a read of the database
may fail, which the code takes for an absent row in one place and for an error
in another. `ProcessSpec` is the process of both modules: a crash loses what
either has in memory, and a start of `Store` precedes the first use.

`promised` holds what each caller was told, `expected` what the answered
changes of a document add up to; `halfway`, `settingsCut` and `excused` note
the cases the properties except.

### Gateway

`windows[b]` says of each tick how many entries a sliding window has of it,
`passed[b]` how many it let through, which only a property reads; `Allow` prunes, compares and
adds under the window's mutex. `RelayStart`, `UserRateAllowed`, `TokReqAllowed`,
`TokTPMAllowed` is the way of a relayed request; `GuardStart`, `RefreshGuard`,
`ReadGuardKV`, `RefreshDone`, `CopyGuard`, `GuardCheck` that of any request
through the guard, beside `FormStart`, `FormWrite`, `FormDone`, a form of three
KV writes; a read of a KV may fail, which the code takes for a KV that is missing.
`InsertRoute`, `UpdateRoute`, `DeleteRoute` and `Hup` are followed by
`RefreshSnapshot` and `RefreshSwap`, which take and put the copy of the routes
under two locks. `ProxyMatch`, `ProxyCharge`, `ProxyLimit`, `ProxyTurn`,
`ProxyTry` is the prefix proxy. The parsing of addresses and ranges is one bit:
listed or not. A KV has the stamp of the form that wrote it.

### Upkeep

Files are inodes: `path` is the log's, `logF` the descriptor logAccess keeps,
and a stream or a rewrite holds one of its own. `sched.op` is where the
scheduler's one goroutine is; each operation of its tasks on a KV, a file or the
mail is an action with its failures: a read that fails counts as a row that is
missing, for the number of a record, the mark of a reminder and the days of
retention alike, and a write that fails leaves a line out of the rewritten log
or tears it. The list of tokens comes from memory. `BackupClean` happens at some
hour of the day, and a season has a zone, since a backup is named by the local
date, read as a date of UTC and compared with local time. A line has two bytes, the last one its newline, and a
buffer of the stream three, so that buffers end inside lines. A season says
which requests come, how many days pass, and how many restarts, failures and
clearings happen. Not modelled: a zone whose offset changes, and what is
logged behind a torn last line of a rewritten log.

### Translate

A call is a stream of lines, or a request with its buffered reply. A line has
three bytes, the last its newline; what it says (a chunk with or without text,
choices, usage, an end) is a record. `Copy` is one Write of the proxy, of any
number of bytes. `Collect` feeds the two converting writers, `Rewritten` and
`TailKept` the plain one; the model's public name is as long as the upstream's,
or a byte longer or shorter (`grows`), and `Written` is what the rewriting Write
returns to the proxy, which aborts when it differs. `Bill` is what the call costs. A text is a number:
its length for an estimate, its place for the order.

### Filters

`kv` are the rows the filters read, one by one; `cache`, `dirty` and `holder`
are the words, the mark and its mutex. `Maintenance`, `WordsOn`, `Refresh`,
`ReadWords`, `StoreWords`, `Judge`, `ReviewOn`, `ReviewChannel`,
`ReviewAnswered`, `ReviewFails` is the way of a request through the middlewares
in the order main.go wraps them; `FormStart`, `FormWrite`, `FormFails`,
`MarkDirty` are the three forms. Every read may fail, and then the row counts as
missing (`Reads`, `ReadWords`). `seen[w][k]` collects what row k was while
request w ran, or was taken for; `spoilt` says that the cached words are those of
a read that failed.

## 3. Runs

Every run finishes within about two and a half minutes on two workers.

| Run | Instance | States | Shows |
|---|---|---|---|
| `accounting` | 2 goroutines that relay and 1 that transfers, 1 token, 2 accounts, answers of at most 2, transfers of 1 and 2, 3 admissions, 1 edit | 713,259 | the types, the bounds on overdraft and uncharged service, and the refinement of `Meter` |
| `failover` | 1 request at a time of every kind; channels with two keys, none, and one of lower priority; threshold 1 | 904,496 | a request has each key of its tier once; the Gemini handler serves whenever a target answered |
| `failover_breaker` | 2 goroutines, 1 channel, threshold 2, cooldown 2 | 408,672 | the counter protocol in every interleaving, and recovery |
| `credits` | 4 mixes of the handlers, 2 goroutines, 3 requests, 2 days, 1 crash | 523,711 | conservation of credit; codes, orders and grants are not credited more often than bounded; the overdraft of an account by transfers and requests; a paid order is credited |
| `access` | 9 deployments, 2 goroutines, 3 names of which two differ in case, threshold, lockout, captchas and recovery codes 2, 2 ticks, 1 crash | 343,778 | how many become the first account, how often a locked name fails, what is handed out works once, keys are proved, recovery codes are spent |
| `redis` | 2 goroutines, 2 sessions of 2 users, a pool of 1, 4 calls, 2 faults | 1,207,077 | no reply of another command, and what a call returned is what Redis has |
| `store` | 20 deployments: each table with rows or with an old file, accounts and settings also with neither; each document with its row or an old file, each journal with an old file; 5 stamps, 1 failing statement, 2 crashes | 538,903 | answers are on disk, deleted rows stay away, one failing save does not spoil later ones, documents and journals are whole |
| `gateway` | guard, windows, routes and proxy with the requests and forms that bear on each; 3 goroutines, windows of 2 ticks, 6 writes, 1 save or read that fails | 1,056,004 | no minute holds more than its limit, a form is obeyed, the cache is current |
| `upkeep` | 7 seasons, one east and one west of UTC; 2 goroutines, 1 stream, 1 token, up to 4 days of 4 hours | 4,409,309 | streams are whole, days are counted, records are the newest, one mail, whole backups, lines leave by age or by a failed write |
| `translate` | streams of up to 3 lines cut at every byte; names of equal and other length; all small requests and replies | 255,088 | texts arrive, events are well formed, usage is reported and charged as each handler has it, requests are kept |
| `filters` | 2 goroutines, 2 administrators, 2 requests, 2 forms, 1 crash or read that fails | 1,720,450 | a request is judged by settings that stood while it ran, or were not read |
| `failover_last_err` | as `failover` | | a departure from the documentation: section 4 |

Bounds. Two goroutines show every race of two requests; the bounds that depend
on the number of goroutines are reached with two (an account overdrawn by two
answers, an order credited twice, a sender overdrawn by one transfer, two first
accounts). `gateway` has three: two refreshes and an edit, or a form beside two
requests. One request or edit more than the pair that races leaves room for one
that comes after it, before or after a crash.

- `accounting`: quota 1 with answers of 2 lets an account be empty, full and
  overdrawn, and a transfer of 2 needs one that was credited first; one edit
  raises or lowers a limit, deletes, disables or renames under requests and a
  transfer that were checked before it. Longer chains of edits are left to the
  proofs, which bound none.
- `failover`: a threshold of 2 with two goroutines separates a lost failure from
  a counted one; the run that tries every kind of request has one goroutine and
  threshold 1, as its properties are about one request and the state it finds.
- `credits`: the amounts differ from each other, so that no two mistakes cancel
  in the sum.
- `access`: with a threshold of 2 a lock comes, passes and comes again within
  two ticks; a store of two captchas overflows; two recovery codes and two
  goroutines bring a used code back. Each deployment sends 3 to 6 requests,
  enough for the longest chain of its kind beside a second one.
- `store`: three edits beside two rows that are there: make or change a row,
  delete it, and an edit of the same table after the one that failed. Two
  crashes: one amid the import and one after it.
- `redis`: a pool of one is shared, is empty and overflows with two goroutines;
  two faults cut the first and the second try, or one call and what comes late.
- `upkeep`: each season has the failures that bear on one task (a rewrite that
  fails, one cut by a restart, a clearing beside records, mails over a restart).
  A day of four hours has one before, one at and one after the difference of the
  zones; a retention of two days and a default of one differ by a line.
- `credits`: one mix has transfers beside relayed requests and corrections, and no
  other handler, which keeps it small enough for both to race in every order.
- `translate`: three lines hold a start, a text and an end in each order; a
  tail of four bytes begins inside a line.

CHECK_DEADLOCK is FALSE in every run but those of `Failover`: requests, edits
and faults are bounded, so behaviours end. `Failover` is unbounded, and its
runs check that it never stops. Symmetry is over goroutines (and the two
administrators of `Filters`), in runs without liveness.

Every passing property has a mutant in `PROJECT.json`: a slip in a definition
under which TLC finds it violated with the same configuration. The type
invariants of the other modules are kept as their documentation and as what
proofs start from (section 5); runs spend their properties on hazards.

Fairness. `EveryChannelComesBack` assumes weak fairness of `Tick` alone: time
passes. It does not assume that requests end; the shared transport sets no
timeout, so they need not. `PaidOrderIsCredited` assumes weak fairness of the
steps of each handler that has begun: the Go scheduler runs every goroutine
that can run, and nothing such a handler calls waits for another request (the
mutexes are held for one call). It excepts behaviours with a crash, since one
between the save of the order and its credit does lose the credit.

What the properties except is part of what the runs show, and each exception
is a departure of section 4: a disabled token (`TokenServiceBounded`), a crash
(`PaidOrderIsCredited`), tables whose keys are not looked up (`NeverPoisoned`),
a statement that failed between two of a group (`SettingsKept`,
`DocumentsKept`, `JournalKept`), an import that was not renamed
(`AnswersKept`, `JournalKept`), overlapping refreshes and failed saves
(`CacheCurrent`), a KV that could not be read (`FormsObeyed`, `JudgedBySettings`,
`MailedOnce`, `LinesLeaveByAge`, `RecordsAreNewest`), lines that come after a
rewrite began and lines whose write failed (`LinesLeaveByAge`), the oldest backup
west of UTC (`LastBackupsKept`), a setting that is no column (`SettingsKept`), a
name cut by a piece or of another length (`TextsArrive`), streams that are charged
by estimate (`UsageIsReckoned`), a SET that arrives late
(`SessionsAgree`), a name that was given to another account (`RecoveryBounded`),
an account whose credit was lowered, and a negative credit at registration
(`TransferOverdraftBounded`), a review by the channel of one form and the model of another
(`JudgedBySettings`).

## 4. Where the code departs from its documentation, or from what one expects

One run shows a departure: `failover_last_err` checks the statement of
README.md:642 that a failing upstream is failed over, and TLC finds a request
whose second target answers well and which is answered 502, since `lastErr`
(handler/relay.go:554) keeps the transport error of the first.

The modules follow the code in these further places; the definition that shows
it is named. Where a document or a comment says otherwise, it is given.

Metering and upstreams
- A disabled token is served by the relay and not charged (handler/relay.go:314;
  README.md:639 says 403). `Authenticate`, `UseToken`.
- UserQuotaAllowed passes a name without an account (model/user.go:364; its
  comment at line 346 says it returns false). `UserQuotaAllowed`.
- CheckAndUse reads the quota of an unlimited token (model/token.go:281;
  README.md:580 says it is ignored). `LegacyAllowed`.
- In self mode a request is charged (handler/relay.go:583; README.md:196 says
  that it is not). `Costs`, `ChargeToken`.
- A transfer and relayed requests are all checked on copies of the account: a
  transfer of all that is left, beside requests that run, overdraws the account by
  what they cost (handler/feat_plan.go:185, model/user.go:358). `Transfer`, `Debit`.
- A debit larger than the quota leaves a negative quota, which is no limit
  (model/user.go:338 and 356). `Adjust`.
- When all targets fail with a status and none with an error, the OpenAI handler
  panics in WriteHeader(0) (handler/relay.go:577; README.md:642 says 502). `Reply`.
- A client's hang-up is counted against the channel (handler/relay.go:554; the
  comment at line 220 speaks of the channel's own errors). `TransportError`.
- A failure clears the affinity only on the stream (handler/relay.go:564; the
  comment at line 245 does not say so). `AfterFailure`, `Clear`.
- Failures from before a success may trip a channel (handler/relay.go:209; the
  comment at line 28 says consecutive ones). `Load`, `Bump`.
- The first key of a channel is used twice before keys rotate
  (handler/relay.go:757; README.md:36). `KeyNext`.

Credits
- Two registrations at once use an invitation for one (model/feat_invite.go:59;
  line 38 says it serves `count`). `LoadInvite`, `SaveInvite`.
- Two check-ins at once are both credited (handler/feat_presets.go:198;
  README.md:85). `CreditCheckin`, `MarkCheckin`.
- A code whose save failed stays used in memory; a later save writes that to
  disk, and nobody is credited (model/redemption.go:155; line 146). `Redeem`.
- The daily tasks run once for each start and day (handler/scheduler.go:23; the
  comment at line 32 says once a day), which `GrantOncePerStart` states exactly.
- The bonus for an invitation turns the −1 of its inviter, the root, into a
  small limit (handler/auth.go:263; line 236 says root has none). `CreditInviter`.
- A crash between the save of a paid order and its credit, or between the debit
  and the credit of a transfer, loses the amount.

Access
- A password reset writes the zero Status, Quota and RateLimit of its patch: the
  account is disabled (handler/feat_email.go:244). `ResetApply`.
- VerifyUser looks at the first enabled account whose name or address fits,
  ignoring case, and at no other (model/user.go:204): of two accounts with one
  address, or two names that differ in case, the second cannot log in by it. `FirstFit`.
- Recovery codes survive the second factor being turned off; Enable while
  another request confirms may leave it off. `TwoFADisable`, `StoreSecret`.
- A list of recovery codes is written back by name: when an account was renamed
  between the read and the write, it goes to whoever has the name by then
  (handler/feat_2fa.go:197). `SpendRecovery`, `renamed`.
- The lock is by the name that was typed, so one account has one for its name
  and one for its address; the count survives the lock. `Locked`, `LoginFail`.
- Sessions outlive the account that is deleted and the password that is reset.

Sessions in Redis
- A SET that fails is answered with a token that is no session, a DEL that fails
  leaves the session (model/user.go:219 and 586 drop the error); during an
  outage everybody is logged out. `Return`.
- A SET that was given up may reach Redis late and revive a session that was
  logged out. `ServeLate`.

Tables
- A duplicate token key or route prefix stays in memory when its save fails, and
  every later save of that table fails (model/token.go:166). `InsertToken`.
- The synchronisation of channels writes back a copy from before its calls to
  the upstreams, over edits made meanwhile (handler/feat_sync.go:93). `SyncWrite`.
- The ID of a deleted last row is given again after a restart. `NextId`.
- A crash between the import of an old file and its renaming imports it again
  when the table has become empty (db/db.go:227: "避免重复迁移"). `RenameJSONToBak`.
- A file that cannot be saved is skipped silently. `MigrateTable`.
- A crash between DELETE and INSERT of the settings starts with the defaults.
  `DeleteSettings`, `LoadSettings`.
- UpdateSetting changes `quota_unit` in memory, but the row has no column for it
  (model/setting.go:142; the comment at line 166 says that the update is
  persisted): a restart comes back to the default. The settings of `Store` are the
  columns, of which `SettingsKept` speaks. `Load`.
- A batch of tokens that fails midway leaves tokens whose keys nobody is told.
  `BatchInsert`.

Documents and journals
- A read of the site's row that fails is taken for no row: the row is
  overwritten by the old file or by an empty document (model/feat_site.go:43). `Look`.
- An import of prices whose read failed saves the imported prices alone
  (handler/feat_models.go:123); imports that overlap lose each other's. `ModelsMerge`.
- A crash between DELETE and INSERT of the prices loses them, or imports the old
  file again (model/feat_models.go:93). `InsertDoc`.
- The import of a journal that a crash cuts, or that a failing COUNT skips, is
  never finished (model/feat_audit.go:74); if its file could not be renamed,
  cleared audits return. `CountRows`.
- What writing an audit or a billing entry returns is dropped. `InsertEntry`.

Gateway
- Overlapping refreshes may leave the older routes in the cache; a save that
  fails changes memory and refreshes nothing. `RefreshSwap`, `EditRoutes`.
- The limiter of a route keeps the limit it was made with (handler/proxy.go:130).
  `ProxyLimit`.
- CheckAndUse charges before the limiter refuses. `ProxyCharge`.
- A request refused for its tokens stays in the window of requests. `TokTPMAllowed`.
- A form of the guard that fails midway stays partly written, unseen until the
  next form or start (handler/feat_guard.go:210). `FormWrite`.
- A list or a limit that cannot be read is taken for none, and guardDirty is
  cleared (handler/feat_guard.go:52, model/kv.go:17): the guard lets everybody in
  until the next form or start. `ReadGuardKV`.

Upkeep
- Lines written while the log is rewritten are lost, and so are those after it,
  since logAccess keeps its descriptor (handler/proxy.go:72; the comment at
  handler/scheduler.go:300 says only old lines go). `RetainRename`, `LogAccess`.
- A task that panics, as any does within the first ticks of a slow start, skips
  the rest of the day (handler/scheduler.go:62). `DailyTasks`.
- The summary of a month is made after that day's retention; one that fails is
  not made again until a restart. `MonthStart`.
- A line that cannot be written to the new log is lost without an error: nobody
  looks at what out.WriteString returns, and the truncated copy is renamed over the
  log (handler/scheduler.go:358). `RetainLine`, `RetainEnd`.
- A log.retention_days that cannot be read counts as 30 (handler/scheduler.go:315).
  `RetainOpen`.
- A task.seq that cannot be read starts the numbers of the records again at 1
  (handler/scheduler.go:93). `RecordSeq`.
- A mark that cannot be read counts as missing: the owner is reminded again
  (handler/scheduler.go:284; the comment at line 267 says of tokens not reminded
  yet). `RemindMail`.
- A token that was renewed is not reminded again. `RenewToken`.
- A stream may skip or repeat lines after a rewrite. `StreamOpen`.
- A backup copies gateway.db without its -wal. `BackupOpen`.
- The date in a backup's name is local and is read as one of UTC
  (handler/scheduler.go:403 and 418): west of UTC a run late in the day removes a
  backup that is not seven days old (line 409 says older than 7 days). `Old`.

Translation
- The name of a model that a piece cuts is not replaced (handler/relay.go:910;
  line 909 says the writer suits SSE in pieces). `Replaced`.
- The Write that replaces a name returns the length of what it wrote
  (handler/relay.go:928). If the two names differ in length the reverse proxy takes
  that for a short write and aborts: the client's stream ends with the first piece a
  name was replaced in, and nothing is charged or marked (README.md:72 says that
  the name of a streamed answer is restored). `Written`, `Relaying`.
- The first usage in the tail of a stream is charged. `TailUsage`.
- A Claude stream sends no content_block_stop, its stop_reason is always
  end_turn, and it has no message_stop when the upstream's last line has no
  newline. `ClaudeDone`, `LinesIn`.
- The upstream's Content-Length is copied over a converted body. `Reply`.
- Tool blocks of a conversation are dropped; error bodies of the Gemini endpoint
  become empty candidates; its stream drops the finish "length".
  `Said`, `GeminiReply`, `GeminiLine`.
- A Claude stream is charged by the length of its request and of the events sent
  (handler/feat_anthropic.go:219), a Gemini stream by the upstream's bytes alone
  (handler/feat_gemini.go:135), even when the upstream gave its usage and the client
  was told it (the comment at handler/feat_gemini.go:29 says that the charge is that
  of RelayHandler). `StreamCost`.
- Round trips that fail and answers of 4xx cost at least 1; an interrupted stream is
  neither charged nor marked. `RoundTripFails`, `Break`.

Filters
- /v1/messages and /v1beta/ pass neither maintenance mode nor the review
  (main.go:119 against handler/feat_anthropic.go:16 and feat_gemini.go:14; the
  comment at handler/feat_ops.go:100 excepts root alone). `Maintenance`, `ReviewOn`.
- A review may use the channel of one form and the model of another, and a
  channel that is disabled. `ReviewChannel`.
- A switch, a channel or a model that cannot be read counts as unset, so that the
  request passes or is reviewed by the default model; words that cannot be read are
  cached as none beside the default ones, and moderationDirty is cleared
  (handler/feat_moderation.go:39, feat_ops.go:103, feat_modreview.go:88): listed
  words pass until the next form or start. `Reads`, `ReadWords`.

## 5. Proofs

Eight modules hold theorems that TLAPS checks, for every value of the constants
that satisfies the assumptions of the module concerned: any number of goroutines,
accounts, tokens, channels, requests, edits and crashes, and not only those of a
run. Each proof has an invariant that every step preserves and that implies the
property; TLC checked each of them on the instance of its run before it was
proved. One lemma says what a step of each handler preserves; the steps that
leave the variables of an invariant alone are dealt with together.

| Theorem | Property | Inductive invariant |
|---|---|---|
| `AccountingProofs!TypeCorrect` | `TypeOK` | itself |
| `AccountingProofs!TokenOverdraft` | `TokenOverdraftBounded` | `TokensCapped` |
| `AccountingProofs!OwnerOverdraft` | `OwnerOverdraftBounded` | `OwnersCapped` |
| `AccountingProofs!TokenService` | `TokenServiceBounded` | `TokensServed` |
| `AccountingProofs!AccountingImplementsMeter` | `ImplementsMeter` | the types |
| `FailoverProofs!FullCounter`, `Breaker` | `FullCounterIsReplaced`, `BreakerCatches` | `Shape`, `AllCounted` |
| `FailoverProofs!GeminiFailover` | `GeminiFailsOver` | `GeminiLoops` |
| `FailoverProofs!Routing` | `RouteCoversTier`, an action property | `KeysInv` |
| `CreditsProofs!Types`, `Conservation`, `CreditsOnce`, `TransferOverdraft` | `TypeOK`, `Conserved`, `CreditsBounded`, `TransferOverdraftBounded` | `IInv` |
| `AccessProofs!Types` | `TypeOK` | `Typing` |
| `AccessProofs!FirstRoots` | `FirstRootsBounded` | `RootsInv` |
| `AccessProofs!Failures` | `FailuresBounded` | `FailuresInv` |
| `AccessProofs!HandedOut` | `HandedOutWorksOnce` | `TicketsInv`, `CaptchasInv` |
| `AccessProofs!SecretsProved` | `EnabledSecretWasProved` | `SecretsInv` |
| `AccessProofs!Recovery` | `RecoveryBounded` | `RecoveryInv` |
| `GatewayProofs!Forms` | `FormsObeyed` | `GuardInv` |
| `GatewayProofs!RoutesCached` | `CacheCurrent` | `CacheInv` |
| `GatewayProofs!Windows` | `WindowBounded` | `WindowInv` |
| `UpkeepProofs!TaskRecords` | `RecordsAreNewest` | `Shape`, `RecordsOK`, `RecordsFollow` |
| `UpkeepProofs!Dashboard` | `DayCounted` | `DayInv` |
| `UpkeepProofs!Backups` | `LastBackupsKept` | `BackupInv` |
| `UpkeepProofs!Mails` | `MailedOnce` | `ReminderInv`, `SummaryInv` |
| `UpkeepProofs!Retention` | `LinesLeaveByAge`, an action property | `RewriteInv` |
| `UpkeepProofs!LiveStream` | `StreamWhole` | `StreamInv` |
| `StoreProofs!ProcessInvariant` | | `ProcessInv`, the conjunction of those below |
| `StoreProofs!Types` | `TypeOK` | `Typing` |
| `StoreProofs!RowsAreKept` | `AnswersKept` | `RowsInv` |
| `StoreProofs!TablesCanBeSaved` | `NeverPoisoned` | `SavableInv` |
| `StoreProofs!SettingsAreKept` | `SettingsKept` | `SettingsInv` |
| `StoreProofs!DocumentsAreKept` | `DocumentsKept` | `DocumentsInv` |
| `StoreProofs!JournalsAreKept` | `JournalKept` | `LogTasksOK`, `JournalInv` |
| `Induction!SumChange` | what one argument changes in a sum over a finite set | |

### Assumptions

Of the names: what stands for nothing is no name. Of the numbers: limits,
thresholds, lives and amounts that the code has as positive constants are
positive; bounds are natural; `MaxCost` bounds the cost of an answer. Of the
sets: goroutines are finitely many, where they are counted, and there are some;
so are `Users` of `Credits`, over which it sums, and `Tokens` of `Upkeep`, which
its scheduler goes through one by one; a run of `Failover` has clients. Of what is
on disk at a start: `Access` assumes a table that this program wrote (no two rows share
a name or an ID, one that needs a second factor has a key). `Store` assumes of
each table in use what the program and its database leave there: rows that the
table's constraints let in, and, of the names that the model gives to rows, that
two rows found in different places are two (`born`), that none is newer than
`Found`, and that a code is the ID of its own row. A file is assumed to be readable,
with settings in it if it is the settings', but its rows may be ones the table
refuses. `Documents` assumes that an old journal is in the order it was written in.
Nothing is assumed
of the order of requests, of their number, or of what is edited.

### Metering

A token that always had a limit is not unlimited, and its quota is between zero
and its peak (`TokensCapped`); UseToken charges below the quota only, in one
critical section, and adds one answer at most.

An account may be charged after it ran out, by a goroutine that passed the check
before, or by a transfer whose remainder was computed before. `OwnersCapped` says
of an account that always had a limit that no transfer under way is larger than
its highest limit, and that what is used and what is reserved (`Reserved`: one
answer for each goroutine in flight) stay below that limit, the exposure of the
requests, and one highest limit for each goroutine that has no transfer from it
under way (`Free`). Both checks pass below the quota only, which makes room for
what they reserve; a charge moves at most one answer from reserved to used; a
debit adds at most the highest limit, and its goroutine is free again.

What is answered for a token needs a sum of costs over the goroutines.
`TokensServed` takes it as the size of a set of pairs, a goroutine and one unit
of its cost: until the token is exhausted the answers are covered by what was
charged and what is owed (`Owed`); from then on only those that passed the
pre-check still answer (`Coming`).

The refinement needs no more than the types: each step of `Accounting` is one of
`Meter` or leaves what `Meter` sees, with the debts read off the stages.

### Upstreams

`Counted` relates the counter of a channel to the history of its failures: it
passes the threshold only by as many as there are requests about to replace it,
and lacks only failures counted on cells that were loaded before it was stored
(`Stale`). The types of `Failover` that this needs (`Shape`) say nothing of
the targets a request gets. For the Gemini handler the invariant says at each
stage what the request carries: an error never survives its target.

The targets of a request need one fact of the state, that a rotation starts at a
key there is (`KeysInv`), and for the rest what the operators compute. `Lists`
says of a sequence that it has each member of a set once. A rotation lists the
keys of its channel (`KeysListed`); what FlattenSeq, a recursive function, joins
lists the union of sets that have nothing in common (`Flattened`, by
`SetInduction`); moving the preferred block to the front is a permutation of
places (`PreferredListed`).

### Credits

`Conserved` says that all balances and what is in transit add up to what was put
in, less what relayed requests were charged. A step changes the balance of one
account, so the sum changes by that (`SumChange`), and the invariant needs that a name without an account has
nothing (`StrangersHaveNothing`). A code is credited once since a goroutine
that will credit it, or did, has marked it in memory and on disk under one
mutex (`CodesTaken`); an order by those that are under way (`OrderCounted`);
the grant by each start (`GrantsCounted`). `SendersCovered` takes off the balance
of an account the debits and the charges of relayed requests that were checked
and are to come (`Reserved`), and says that the bound holds even so.

### Access

Who found no account and will create one, and who was created so, are no more
than the goroutines, since none finds none once there is one (`RootsInv`).
From the threshold on the lock runs from the last failure, and until it ends no
goroutine begins to try (`FailuresInv`: each lock period has one failure of
each goroutine). Everything that is handed out bears a number nobody had, and
what is still in a store was not accepted (`TicketsInv`); captchas leave the
store by age, and their numbers rise with the order they were made in
(`CaptchasInv`). A key that Confirm has read was proved before it is stored
(`SecretsInv`).

The recovery codes are the one case without an obvious measure: a list that was
read may be written back after another was, so codes return. `Before` is, for each
v, how many goroutines may still have v codes or more of a generation before
them: all of them as long as the account has v, and otherwise those that took
one of v or more and have not written. A code that is admitted at k lowers
`Before` at k and raises it nowhere above, whatever list it leaves; so it goes
down in an order (`Under`) of which only finitely many values exist, C(N + W, W)
of them (`Ways`). `RecoveryInv` says that the codes that were admitted and the
values that are left add up to fewer than that.

### Gateway

Stamps rise; lists that are not dirty were read since every form that was
answered, whether that read failed or not; who reads the KVs holds the lock, so that no form is answered meanwhile
(`GuardInv`). Unless refreshes overlapped there is one, its copy is of the routes
as they are, and without one the cache is (`CacheInv`). A window has all that it
let through in the last minute (`WindowsOK`), so that what fits in it fits in
the minute; the limit of an address is one an administrator may set.

### Upkeep

Each task of the scheduler has the invariant of its own data, and all share the
types (`Shape`). Records, while one is written, may be one too many (`Writing`);
undisturbed they are an interval that ends with the newest. A reminder is sent
before it is marked and a month is marked before it is sent, which is why one may
be lost and the other repeated by a restart. What a rewrite has read is kept, old,
or spoilt by a write that failed (`RewriteInv`); what a stream has sent and holds back is the beginning
of the log (`StreamInv`).

### Tables, documents and journals

The theorems are about `ProcessSpec`, a process with all of its tables, its
settings and a document or a journal at once, where a run has one of these in each
deployment. `AnswersKept` alone is not inductive, for two reasons.

A save writes the slice over the table, so what is on disk stays only if the slice
has it too. `Reaches` says so: in a table that was loaded, memory has each row that
was promised as new as the disk does. It is an implication because a save that
failed leaves memory ahead of the disk, and a row whose edit failed is promised
nothing. Before the table is loaded memory has nothing (`Unloaded`), and no edit
reaches it.

What was deleted returns by an import alone. `Waiting` says that the rows of a
file that was not renamed are neither deleted nor in the table, unless the
import is between its two halves, when table and file are the same (`CopiedOK`);
a table in `halfway` is one of which this no longer holds. A promise is made to
a row, not to a table, so that a row must be of one table only (`Home`) and new
stamps must be of no row yet (`BirthsOK`).

`NeverPoisoned` needs that a new row differs from all others: an ID is below the
table's next one, a code is its row's own number, and what is on disk was saved
(`SavableInv`). For routes and tokens, whose keys are the caller's, only the disk
is savable.

Several savers of the settings may delete and insert at once, and an insertion
beside another is refused by the database and forgotten. No change comes between
DELETE and INSERT, since whoever is there holds the read lock; so all that are there
have the same columns, those in memory, and when nobody is still to delete, the
row is these or is about to be (`SaversOK`, `RowOK`).

Of the requests at a document one is under its mutex (`DocTasksOK`); while it is,
`DocInv` says at each stage what memory, row and file hold and that they add up to
what was answered. Imports of prices read outside the mutex: `MergesInv` says that
what was read is what was answered, unless somebody saved since (`fresh`). An
import of a journal has its place in the old file: what it has still to bring is
beyond all that is in the journal, which is why the order is kept and no record
comes in twice (`ImportOK`); before it begins nothing of the file is in the
journal or cleared (`OldOK`).

### Induction

The induction theorems of the library take an operator, which the provers cannot
instantiate. `SetInduction` takes a set instead: that a set of numbers with 0
which is closed under successor is all of Nat follows from a fact about
injections between finite sets. From it come the least member, and what
`SumFunction` of the community modules, a recursive function, computes: that a finite
sum of numbers is one, and that it changes by what one of its members changes.

### Only model-checked

- Liveness, which is out of the prover's reach: `EveryChannelComesBack`,
  `PaidOrderIsCredited`.
- `Redis` (`NobodyElse`, `SessionsAgree`) and `Filters` (`JudgedBySettings`):
  safety, not proved.
- `Translate`: what its conversions compute over texts and streams of any length is
  an induction over data, and its operators are folds over sequences.

## 6. Not modelled, and what is left

Not modelled, and why:

- probes of channels (`channeltest.go`, `feat_channelhealth.go`), the models an
  upstream lists and the virtual models made from them (`feat_models3.go`,
  `feat_vmodel.go`): one request, one report, or single rows of `kv`;
- notifications (`notifier.go`, `notify.go`, `feat_notify2.go`): goroutines that
  send and forget, without state;
- reports, lists and CRUD over `kv` (statistics, usage, groups, presets, plans,
  invoices, teams, the MCP endpoint, files of the server): one read or one
  write each;
- uploads (multipart) and fields of a request that are passed on as they are;
- third parties: the OAuth provider, mail, Turnstile;
- start-up wiring, configuration, packaging and the console's pages.

Left for the proofs: who a reply of Redis is for (`NobodyElse`, `SessionsAgree` of
`Redis`), and by which settings a request is judged (`JudgedBySettings` of
`Filters`).
