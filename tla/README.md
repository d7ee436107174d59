# Verification of the atara-pay gateway

TLA+ models of the gateway's core logic, checked with TLC on small instances. Every
safety property and action property the runs check is also proved with TLAPS, for
every instance; the liveness properties are TLC's alone. Source references are to
files under `src/`.

## 1. The system and its parts

atara-pay is a multi-tenant payment gateway for software agents, written in Go:
an HTTP API over Postgres (rows) and Redis (counters), with two payment rails
(CrossMint, a custodial REST service, and Tempo, an EVM chain reached by
JSON-RPC). Several gateway processes may run against one database; each request
runs on a goroutine of its own, two tickers run in the background (the webhook
worker and the session-key rotator).

| Part | State it keeps | Operations | Hard behaviour |
|---|---|---|---|
| Spending limits `internal/limits`, `handlers/limits.go` | `limit_policies`, `limit_violations`; Redis counters `usage:<policy>:<bucket>` | `Check` (resolve, gates, three period charges, rollback, reject), replace the tenant policy | INCRBY before compare from many goroutines; DECRBY that may fail; a midnight in mid-Check; racing replacements; a scope walk of up to five SELECTs outside any transaction |
| Session keys `internal/sessionkey`, `handlers/session_keys.go` | `session_keys`; the on-chain keychain | mint, prepare / submit-authorize, revoke, expiry sweep, signer guard | chain call outside the DB transaction; updates by id without status guard |
| Transfers `handlers/wallet_group_tx*.go`, `internal/adapters` | `transactions`, the node's pending pool | send, prepare, submit | rail call before the unique index; nonces read early; lost answers |
| Webhooks `internal/webhooks`, `handlers/webhooks.go` | `webhook_endpoints`, `webhook_events` | publish, claim, POST, retry, auto-pause, endpoint CRUD, rotation | several workers; a worker that dies; endpoint changed under a claimed event |
| Provisioning `handlers/wallet_groups.go`, `virtual_addresses.go`, `wallet_group_onramp.go` | `wallet_groups`, `wallets`, `virtual_addresses`, `onramp_orders` | create | check-then-insert races; rail objects created outside the transaction |
| Accounts and API keys `handlers/auth.go`, `api_keys.go`, `server/middleware` | `tenants`, `users`, `api_keys`; session tokens; rate counters in Redis | signup, login, authenticate, rate-limit, create and revoke a key | racing signups; revocation between authentication and handling; fail-open limiter |
| Period calendar `internal/limits/period.go` | none | `periodKey`, `nextReset`, `daysUntilMonday`, `loadTimezone` | Mondays, ISO week 53, month 13, leap days, zones |
| Keystore, passwords, statements, capabilities, routing, CLI, metrics | none of their own | | pure or read-only |

How they interact: a send passes authentication, the rate limiter, the signer
guard (session keys) and `limits.Check`, and only then a rail; its row and its
webhook event follow. Minting a session key inserts a policy that the limit
engine prefers over the tenant's. Every handler publishes its domain events
through the webhook publisher, best-effort.

What makes each part correct: admitted money never exceeds the enforced cap;
a denied payment costs nothing; a payment is governed by the most specific policy
in force, and a tenant never has two defaults or, once it has one, none; a counter
expires when its bucket ends; a revoked key takes on no payment; an active
rail-native key is backed by a transaction the node accepted; an event is delivered
by one worker at a time, at most `maxAttempts` times and, while its endpoint is
active, settled in the end; a row that says money moves is backed
by a rail; racing creates that succeed agree on one row; an account exists whole or not at all.
`PROJECT.json` lists the hazards at their lines with the property that watches each.

## 2. Modules and how they correspond to the code

The conventions shared by all modules: one step per SQL statement, Redis command
or rail call, so that everything else may interleave between two of them (a
database transaction is split only where another session could observe or wait
for it); `pc`-like variables name the place in the handler; `faults` counts calls
that fail, bounded by `MaxFaults`; a rail or Redis call that fails may or may not
have taken effect. Operators introduced by a comment "Variant" are plausible
mistakes in the operator below them, kept to show that the properties notice them;
they are not part of any specification.

* **`SpendLimits`** — `limits.Check`. `Begin` is policy resolution in scope order
  (a failed lookup counts as a miss, as in the code) with the local gates;
  `SampleClock` the single `time.Now()`; `ChargePeriod`, `SkipPeriod`,
  `ChargeFails` one turn of the loop of `checkPeriods`; `UndoCharge` and
  `RollbackBudget` the DECRBYs whose errors are ignored; `Reject`, `Allow`,
  `Crash`. `UpdateTenantLimits` and `MintSessionPolicy` insert policy rows, `Tick`
  passes midnight and expires keys. `numericToMicros` keeps what the conversion
  does to a cap with more than six fractional digits. The date arithmetic is any
  monotone map `Bucket` from days to buckets; `MCSpendLimits` assumes, and
  TLC evaluates, that the map it uses is the one of `PeriodCalendar`, and that the
  cases of `period_test.go` come out there. `spent`
  is a history variable.
* **`PolicyResolution`** — which policy governs a payment, at the granularity of SQL
  statements; `SpendLimits` has the same as single steps, and this module says why
  it may. `ReceivePut` is the validation of `UpdateTenantLimits` (role, tier or four
  caps, `parseDecimalUSD`), `ReadDefault`, `DisableLimitPolicy`, `CreateLimitPolicy`
  and `Commit` its transaction, `Rollback` the deferred one on every early return,
  `Die` a process that goes away. An UPDATE waits for the holder of its row, the
  INSERT for a transaction that decides whether `idx_policy_default_unique` holds
  another entry (`Conflicts`, `Undecided`). `Mint` inserts a key with its policy;
  `BeginCheck` and `Lookup` are the walk of `resolvePolicy`, one SELECT each, where
  an error counts as a miss. `live`, `bare` and `missed` are history variables.
* **`PeriodCalendar`** — `period.go` as operators, over a calendar of days and hours
  that stands for Go's `time` package (`time.Date` with its carrying of month 13,
  `ISOWeek`, `Weekday`). **`PeriodClock`** walks a clock through it.
* **`Budget`** — the abstract promise: admission is one atomic step that fits
  every capped open period and charges all of them. `SpendLimits` implements it;
  `Transfers` is built on it.
* **`SpendLimitsProofs`**, **`PolicyResolutionProofs`**, **`PeriodClockProofs`**,
  **`SessionKeysProofs`**, **`WebhookDeliveryProofs`**, **`TransfersProofs`**,
  **`ProvisioningProofs`**, **`AccountsProofs`** — the theorems of section 5.
* **`SessionKeys`** — `Mint`, `PrepareUserCustody`, `SubmitAuthorize` (read,
  broadcast, activate by id), `Revoke` (read, guarded update, best-effort publish,
  answer), the signer guard of `SendTransaction`, a process that dies in mid-request
  (`Crash`) and the rotator (`ListExpired` in batches, `FlipExpired`). Submit sends
  whatever the client signed, so `accepted` (the node took a transaction for this key)
  and `broadcast` (that transaction authorizes this key) are apart.
* **`WebhookDelivery`** — `Publish` with its fan-out inserts, the worker
  (`ListDueWebhookEvents`, `MarkDelivering`, `LoadEndpoint`, `Post`, the outcome
  statements, `BumpFailure`, `PauseEndpoint`, `Crash`), and the endpoint handlers
  as read-then-write (`AdminRead`, `AdminWrite`).
* **`Transfers`** — `SendTransaction` on both rails and the prepare / submit pair.
  The Tempo node (external) is a pool of pending transactions per wallet: the next
  nonce is accepted, a reused nonce is refused or replaces the pending one. Submit
  sends the bytes as they come: the transaction it prepared, that of another prepared
  payment, one the gateway never saw (`NodeAcceptsForeign`), or bytes the node refuses.
* **`Provisioning`** — the three create handlers: lookup, rail call, insert. A
  group's row is "open" until its transaction commits; an INSERT of the same owner
  ref waits for it, as Postgres does. A body may pass validation and still be one
  Postgres refuses (`unstorable`: a parent group that does not exist, an amount that
  is not a number); its INSERT fails every time, after the rail call.
* **`Accounts`** — signup as one transaction of five statements, login, the
  authentication middleware (API key or session token), the fixed-window rate
  limiter with its fail-open path, creation and revocation of API keys, whose
  statement may be applied although its answer is lost. `OtherHandler` stands for
  every other authenticated route and translates none of them.
* **`MC*`** give the constants of an instance their values.

## 3. Runs

| Run | Instance | What it shows |
|---|---|---|
| `spend_limits` | 2 Checks, 2 policies with different caps, gates and expiry, 2 days in different weeks, amounts 1–2, 1 fault | the cap holds while a bucket is open; a counter never falls below what was admitted; without faults a denied request leaves no trace; the protocol implements `Budget` |
| `stored_cap` | the same with cap columns of 18 digits | violation, see section 6 |
| `policies` | 3 replacements with every kind of accepted and refused body, 1 session key, 1 payment, rows attached to the wallet and the group or not, a tenant with or without a default, 1 fault | one default in force and never a gap; one acknowledged successor per replaced row; a payment finds the most specific policy in force unless a lookup fails; every request is answered |
| `calendar` | walks of 380 days in steps of 3 hours from dates that take in leap days, week 53 and the turn of a century, at several fixed whole-hour offsets from UTC | the expiry of a counter is the end of the bucket its key names; no key ever comes back |
| `session_keys` | a platform and a user key, 3 requests, 2 instants, batch 1, 1 fault | an active rail-native key is stamped and a transaction for it was accepted by the node, under platform custody its own authorization; an answered revocation sticks (platform custody) and is published at most once, and exactly once when nothing fails; no payment is taken on after it; every expired key is swept |
| `revoked_at` | one user-custody key, 4 requests | violation, section 6 |
| `webhooks` | 2 workers, 1 event, 1 endpoint, 2 endpoint requests, 3 attempts, auto-pause after 2, 1 fault | one owner per row; at most 3 POSTs; only a fault strands a row; settled rows stay; a deleted endpoint no late update or worker has in hand stays silent; every row that is not stranded and whose endpoint stays active settles |
| `transfers` | 2 sends, 2 prepares, 2 submits, all but one with one idempotency key, cap 2, 2 days, 1 fault | the rails take no more than the cap; a row that claims movement follows a transaction a rail accepted for it, and while nothing fails a send the rail took has a row unless its key already had one; one key is answered with one row |
| `idempotency` | 2 sends with one key, no fault | violation, section 6 |
| `provisioning` | 3 creates of any kind on one unique value, with CrossMint alone or with both rails, one of which may carry a body Postgres refuses, 1 fault or crash | creates that answer 2xx agree on one row that only its creator announces, and while nothing fails every group create that could be stored answers 2xx; a group is seen whole; orphans are lost races; everyone is answered |
| `stored_address` | 2 creates, no fault | violation, section 6 |
| `accounts` | 2 signups that may share an address, 2 requests, limit 1, 2 minutes, 1 fault | accounts are whole and unique per address; a key is revoked once; no authentication after an answered revocation; the limiter admits at most the limit and refuses nobody early |

**Why the bounds are enough.** Each race in these handlers is between two or three
parties over one row, counter or nonce, so each run has that many contenders on a
single contended object, and a third party (the rotator, the clock, an
administrator) where the code has one. One fault reaches every error path, since
no path has its own handling of a second failure. The caps of a policy are given per
period as daily, weekly, monthly, 0 for none. Under q1, <<2, 2, 3>>, a payment of 2 on
each of two days, which share a month but not a week, passes the daily and the weekly
cap and bursts the monthly one, so two earlier charges are rolled back; under q2,
<<2, 1, 0>>, two payments of 1 on a day burst the weekly cap with the daily charge
held. One body of three that cannot be stored lets it win, lose and race with bodies
that can. `MaxAttempts` = 3
and `PauseAfter` = 2 make both a retry after an automatic pause and giving up
occur; batch 1 with two keys makes the rotator need several ticks. Three
replacements let one wait for a transaction that then fails while a third has read
the row before either. 380 days pass every kind of month, week and year end, and a
bucket boundary is a midnight of a zone whole hours from UTC, which steps of three
hours, with the hour before each reset looked at too, do not miss. All bounds are
constants: `N`, `LastDay`, `LastTime`, `LastMinute`, `MaxFaults`, `Batch`, `Limit`,
`TTL`, `Span`, `Stride`, `Misfits`. Symmetry is used only in `transfers` and `accounts`, which check no liveness,
over sets whose members the constants do not distinguish.

The systems stop when the bounded supply of requests and time is used up; each
module has an explicit `Done` step for that, so deadlock checking stays on and a
handler that waits for ever is reported.

**Fairness.** `SessionKeys` assumes weak fairness of the rotator, which runs on a
ticker for the life of the process (`rotator.go`). `WebhookDelivery` assumes it of
each worker's tick and of the passing of time until a backoff has elapsed; nothing
is assumed of publishers, administrators or receivers. `Provisioning` and
`PolicyResolution` assume that a handler that can take a step does: goroutines are scheduled and calls return,
successfully or not. The CrossMint client has a timeout of its own; that Postgres
and the Tempo node answer is an assumption (the Tempo client bounds only the dial).
Failures are finitely many (`MaxFaults`), so a flip or a statement that keeps
failing for ever is outside the liveness claims. No safety property depends on
fairness.

## 4. Abstractions

* Redis configured: with no Redis client, or a limit of 0, the rate limiter passes
  everything through, which is not modelled.
* A command that the Redis client library resends by itself is not modelled: a
  failed call was applied once or not at all.
* Nothing in the gateway compares the signed bytes of a submit with what was prepared,
  and the models assume nothing of them. The prepare path does not call `limits.Check`
  in the code, so `PaidWithinCap` is about sends.
* The EXPIRE of a rate counter (`ratelimit.go:61-67`) is left out: its key names the
  minute, which the counter of another minute does not share.
* A worker's page is below its LIMIT. Backoff durations are one bit per row.
* `last_used_at` and `last_login_at`, which nothing reads back, are left out, as
  are hashes, signatures, formatting, validation wording and logging.
* Only `Signup` creates users, as owners, so the role gates of `Accounts` always
  pass; in `PolicyResolution` a user whose role was changed by hand is refused.
* No handler attaches a policy to a wallet or a group, or takes the default away:
  such rows, and a tenant without a default, are initial states of
  `PolicyResolution`, put there by hand as the schema and the comments allow.
* Transactions run at READ COMMITTED, the default of the pool.
* Zones keep one distance from UTC, in whole hours. Every handler writes "UTC"; a zone with summer
  time, which only a row edited by hand could name, is not in the calendar.

## 5. Theorems

**`SpendLimitsProofs`**, for any number of requests, policies, caps, days,
amounts and faults, from the named assumptions of `SpendLimits` (constants have
their types, `Bucket` is monotone).

| Theorem | Statement |
|---|---|
| `TypeCorrect` | `Spec => []TypeOK` |
| `Accounting` | `Spec => []IInv`, the inductive invariant |
| `CapHolds` | `Spec => []CapWhileOpen` |
| `CounterCovers` | `Spec => []CounterCoversSpent` |
| `DenialsUndone` | `Spec => []DeniedLeavesNoTrace` |
| `BudgetRefinement` | `Spec => ImplementsBudget` |

`CapWhileOpen` is not inductive: a step that admits a request must know that its
amount was already counted when it was compared, and that nobody's DECRBY has since
taken it out. `IInv` adds, for every capped key of an open bucket, with *f* the
total of the charges that passed their comparison and may still be admitted and *g*
the total of those that burst the cap and are not yet taken back,

    spent + f + g <= usage      and      spent + f <= cap,

the first an equality while no call has failed. The first makes the comparison of
the returned total sound; the second is what the comparison buys. A lost DECRBY or a
crash only loosens the first. The equality gives `DeniedLeavesNoTrace`: with no Check
under way *f* and *g* are totals of zeroes, so the counter is what was admitted. `HoldsInv` ties
the periods a request holds to its place in the loop. A total over the requests
1..N is the last of a witness of prefix sums, so that a step of one request changes
it by a difference and no induction over data is needed; the witness also says that
it is monotone and that it is flat where the charges are zero, which are facts a
proof by induction would otherwise have to supply. The refinement also uses
`SampleInv`: no clock sample lies in the future.

**`SessionKeysProofs`**, for any keys, requests, batch size, time and faults, from
the named assumptions of `SessionKeys` (constants have their types).

| Theorem | Statement |
|---|---|
| `KeyLifecycle` | `Spec => []IInv`, the inductive invariant |
| `TypeCorrect` | `Spec => []TypeOK` |
| `Backed` | `Spec => []ActiveKeyIsBacked` |
| `Sticks` | `Spec => []RevokeSticks` |
| `Once` | `Spec => []RevokedOnce` |
| `NoPayment` | `Spec => NoNewPaymentAfterRevoke` |

Activation in `SubmitAuthorize` and the rotator's flip are UPDATEs by id alone, so
nothing local keeps them from undoing a revocation. `IInv` adds where the rows come
from: a key without a finished mint has no row; only user-custody keys are ever
`pending_authorize`; hence a request that is submitting or activating is about a
user-custody key, and one that is activating has had its bytes accepted by the node; a
rail-native mint reaches its INSERT only with the key's own authorization broadcast; a
platform-custody key with `revoked_at` is revoked or expired. `PublishInv` is what
`RevokedOnce` rests on: only the request whose guarded UPDATE set `revoked_at` gets to
publish, and it has not yet. The publish is best-effort, so the event is promised only
while nothing has failed. For user-custody keys the corresponding claims are false
(section 6, 2), and `ActiveKeyIsBacked` says only that the node accepted something for
them, which is why the theorems name platform custody.

**`WebhookDeliveryProofs`**, for any events, endpoints, workers, administrators,
attempts and faults, from the named assumptions of `WebhookDelivery`.

| Theorem | Statement |
|---|---|
| `Delivery` | `Spec => []IInv`, the inductive invariant |
| `TypeCorrect` | `Spec => []TypeOK` |
| `SingleOwner` | `Spec => []OneOwner` |
| `BoundedPosts` | `Spec => []PostsBounded` |
| `Acknowledged` | `Spec => []DeliveredWasAccepted` |
| `NoneStranded` | `Spec => []StrandedByFaultOnly` |
| `Settled` | `Spec => SettledIsFinal` |
| `DeletedSilent` | `Spec => DeletedStaysSilent` |

Only the claim looks at a row's status; the outcome statements write by id. They
are safe because a worker that owes a row its outcome is the only one that does and
the row is `delivering` meanwhile (`OneOwner`). `IInv` adds that the attempts read
at the claim are still the row's (so the comparison with `MaxAttempts` is not
stale), that POSTs exceed attempts by at most the one whose outcome is unrecorded
and not at all while the row can be claimed, and that `Publish` writes a row only
where there is none. Type correctness itself depends on this: `attempts` stays
below `MaxAttempts` only because of what the worker knows. `DeliveredWasAccepted`
is a conjunct of `IInv`; no run lists it by itself.

**`PolicyResolutionProofs`**, for any replacements, bodies, session keys, payments
and faults, from the named assumptions of `PolicyResolution` (the names of the rows
are apart).

| Theorem | Statement |
|---|---|
| `Resolution` | `Spec => []IInv`, the inductive invariant |
| `TypeCorrect` | `Spec => []TypeOK` |
| `OneInForce` | `Spec => []OneDefaultInForce` |
| `Successor` | `Spec => []OneSuccessor` |
| `Governed` | `Spec => []GovernedUnlessFault` |

The handler locks nothing when it reads the default and disables it by id, so the
row may have been replaced since. `IndexInv` says what the partial unique index
buys: a request past its INSERT is alone there, and no default is enabled but the
one it has disabled. With `OneEnabled` (a tenant that has had a default has an
enabled one) a request whose row was replaced in between cannot get there, since
the successor is enabled and is not the row it holds. `WalkInv` is what a payment
keeps between two SELECTs: the rows enabled since it began are on record, and the
scopes behind it hold nothing.

**`TransfersProofs`**, for any sets of sends, prepares and submits, any keys, amounts,
cap, days and faults, from the named assumptions of `Transfers` (the three kinds of
request are apart, constants have their types).

| Theorem | Statement |
|---|---|
| `Accounted` | `Spec => []IInv`, the inductive invariant |
| `TypeCorrect` | `Spec => []TypeOK` |
| `PaymentsCapped` | `Spec => []PaidWithinCap` |
| `RowsAreTrue` | `Spec => []RecordedWasAccepted` |
| `EventsAreTrue` | `Spec => []PublishedWasTaken` |
| `OneRowPerKey` | `Spec => []SameKeySameRow` |

A send is charged before its rail is called, and the call may come days later, so
`PaidWithinCap` needs to know what is still to be paid. `PaidInv` says that for every
bucket

    paid + the total of the sends admitted to it and not yet sent <= spent,

and `SpentInv` that an open bucket's `spent` is within the cap. The total is a witness
that gives every set of sends its sum; a step of one send changes it pointwise.
`PaymentInv` and `SubmitInv` tell what a handler has done at each place, `KeyInv` is
the unique index, and `AnswerInv` ties each answer to a row that exists with the
request's key. `RowsBacked` says of a `pending` or `succeeded` row that a rail took this payment and of
a `broadcast` row that the node accepted what a submit of that row sent, whatever it was. `TakenInv`, proved on top of `IInv`, is the other direction: a send a rail
has taken keeps a place from which it still records its row, and the row of its key,
once there, stays. `PublishedWasTaken` is a conjunct of `IInv` that no run lists.

**`ProvisioningProofs`**, for any requests, slots, sets of rails and faults, from the
named assumptions of `Provisioning`.

| Theorem | Statement |
|---|---|
| `Provisioned` | `Spec => []IInv`, the inductive invariant |
| `TypeCorrect` | `Spec => []TypeOK` |
| `Agreement` | `Spec => []RacersAgree` |
| `WholeGroups` | `Spec => []GroupIsWhole` |
| `OrphansLost` | `Spec => []OrphanHasWinner` |
| `Stable` | `Spec => [][NothingTakenBack]_vars` |

The lookup and the INSERT are apart, with a rail call between them; what makes racers
agree is the index alone (`UniqueInv`: no two rows, open or committed, share a slot).
A request that found a row, or lost to one, holds a committed row of its own slot
(`TargetInv`, `AnswerInv`), because an INSERT waits for an open one and a row is
never taken back once committed. `Agreement` is about creates that answer 2xx: one that
loses on a label or repeats an onramp key gets a 500 (section 6), and only group creates,
whose handler reads the winner's row, are sure of a 2xx. `OrphanInv` says how a request
whose body can be stored may end without a row while nothing has failed. `Stable` is the action property behind it: no rollback and
no crash takes back a committed row or a given answer.

**`AccountsProofs`**, for any signups, keys, limit, minutes and faults, from the named
assumptions of `Accounts`. `FiniteAssumption` says that the requests are finitely many
(the limiter's claims are about their number; a run of the service serves finitely many
in a minute).

| Theorem | Statement |
|---|---|
| `Kept` | `Spec => []IInv`, the inductive invariant |
| `TypeCorrect` | `Spec => []TypeOK` |
| `WholeAccounts` | `Spec => []AccountIsWhole` |
| `RateBounded` | `Spec => []RateWithinLimit` |
| `RefusalsEarned` | `Spec => []RefusalIsEarned` |
| `Isolation` | `Spec => []OwnRevokesOnly` |
| `RevocationFinal` | `Spec => RevocationIsFinal` |
| `RevokedLockedOut` | `Spec => NoAuthAfterRevoke` |

The limiter compares what its own INCR returned and forgets it. `RateInv` bounds the
counter on both sides: those that passed are at most the counter and at most the limit;
a counter within the limit counts only requests that were let through; a counter past
it means that as many as the limit were. The last is what makes a 429 earned, and it
survives the fail-open path only because a request let through uncounted is let
through all the same. `OwnRevokesOnly`, a conjunct of `IInv`, is what isolates the
tenants: the handler reads the row, compares its tenant with the caller's and then
writes by id, which is safe because a key never changes its tenant.

**`PeriodClockProofs`**, for every instant after the first day of the calendar, every
fixed offset of whole hours from -12 to +14 and every walk, from the named assumptions of
`PeriodCalendar` and `PeriodClock` (`StartAssumption`: no walk begins before the second
day of year 1).

| Theorem | Statement |
|---|---|
| `ResetIsExact` | `Spec => []ResetEndsBucket` |
| `WholeBuckets` | `Spec => []BucketIsWhole` |
| `KeysAdvance` | `Spec => KeysOnlyAdvance` |

These are facts of arithmetic about all years, where the run walks four of them. `Year`
and `Month` are CHOOSEs, so the argument has two halves. That a year exists for every
day: the day is divided by the lengths of 400 years, a century, four years and a year,
which gives the year outright and needs no induction (`YearExists`). That there is only
one: `YearStart` is strictly monotone (`YearStartGrows`). The months of a year are twelve
cases; `NextMonth` is `time.Date` with month 13. A week is its Thursday, seven days from
the next (`WeekFacts`, `WeekAdvances`). `KeyOrder` then says that a later day has the same
key or a later one, which is what `SpendLimits` assumes of its map `Bucket`
(`CalendarAssumption`), and `BucketOfDays` that the days until the reset share a key;
`MidnightSplits` carries both over to instants and zones. `BucketIsWhole` says more than
`ResetEndsBucket`, which looks at two instants: no instant in between has another key.

**Only model-checked**: the liveness properties (`ExpiredIsSwept`, `EventuallySettled`,
`EveryoneAnswered`, `EveryPutAnswered`), which need fairness and ENABLED. The four
properties of section 6 do not hold and have no theorem.

## 6. Disagreements between code and documentation

1. `StoredCapEnforced` — a cap stored as `NUMERIC(38,18)` is rendered with more
   than six fractional digits, refused by `scaleToMicros`, and becomes 0, which
   means no cap; the quickstart promises a 429.
2. `RevokedAtStable` — two submit-authorize calls race with a revoke: activation by
   id alone re-activates the key, and the next revoke rewrites `revoked_at`.
3. `OneChargePerKey` — two sends with one idempotency key are both taken by the
   rail; the quickstart promises the previous result.
4. `StoredAddressIsDerived` — a virtual address can be recorded as the zero address
   when the registry is asked before the registration is mined.

Seen in the code while modelling, kept in the models as it is, and not the subject
of a run of its own:

* An event whose endpoint is paused loses an attempt without a POST, and is dead after
  the last, although the comment at `internal/webhooks/worker.go:142-143` says
  "Reschedule far in the future so a later resume picks it up, but don't burn a retry
  slot here". `EventuallySettled` claims nothing of rows whose endpoint is not active.
* A row whose worker dies between the claim and the outcome stays `delivering`: nothing
  lists such rows again (`StrandedByFaultOnly` says that only a fault does this).
* After a rotation a queued event is signed with the new secret while it carries
  the old version; the comment at `worker.go:149-151` says the prior version is used.
* A lookup of `resolvePolicy` that fails counts as a miss, so a payment may be
  governed by a broader policy or by none (`GovernedUnlessFault` excepts exactly
  these payments).
* `parseDecimalUSD` reads the integer at the head of the text: "2.50" is 2 and "0.50"
  is 0, which means no cap, although it says "must be a non-negative integer USD
  amount".
* An update that read an endpoint before it was deleted makes it active again
  (`DeletedStaysSilent` says that nothing else does).
* The comment at `internal/adapters/tempo/prepare.go:183-185` says "The caller is
  responsible for verifying" the signed transaction, and neither caller does. A
  user-custody key can be active without having been authorized on chain, and a
  prepared row can be `broadcast` for another transaction. `ActiveKeyIsBacked` and
  `RecordedWasAccepted` say what remains true: the node accepted what was sent.
* The events are best-effort (`handlers/session_keys.go:39` drops the error of
  `Publish`): a failed publish, or a process that dies after the UPDATE, leaves a
  revoked key without its `session_key.revoked`.
* An onramp call that repeats an idempotency key orders from CrossMint again and
  answers 500 at the unique index; `api/v1/openapi.yaml:26-29` says "Repeated calls with
  the same `(tenant, idempotency_key)` return the prior result instead of re-charging".
  Two of them need not race.
* Two creates of a virtual address that race on a label both register it, and the loser
  answers 500; `openapi.yaml:1642-1644` says "repeating the call with the same label
  returns the existing row, no new on-chain registration", which is true only once
  the first has finished. `RacersAgree` is about 2xx answers for this reason.
* A `parent_group_id` is checked only for being there (`handlers/wallet_groups.go:461`)
  and a fiat amount only for not being empty (`handlers/wallet_group_onramp.go:228`): a
  parent that does not exist, or a text that is not a number, is refused by Postgres
  after the rail was called, which leaves the rail's object without a row.
* Of two submits of one prepared row the second is refused by the node and marks the row
  `failed` (`handlers/wallet_group_tx_prepare.go:233`) although the first was broadcast.
* A pending send whose nonce is used again is replaced in the node's pool and keeps its
  row and its event.
* A send that the rail refuses, or whose process dies after `limits.Check`, keeps its
  share of the budget until the bucket ends: there is no refund.

## 7. Not modelled

Keystore and passwords (AES-GCM, argon2id: pure functions), statements and
capabilities (read-only views), HTTP routing and configuration, the command-line
client (stateless), the routes of the first version (`POST /v1/wallets`,
`/v1/transactions`, `/v1/onramp/orders` in `server.go`), which pass a request to a
rail with neither a row nor `limits.Check`, metrics and id generation, the encodings of the rail clients
(their calls are modelled by outcome), and `sqlcgen`, which is generated from the
queries the models do cover.

## 8. Plan

Done, in this order: `SpendLimits` and `Budget`; `SessionKeys`; `WebhookDelivery`;
`Transfers` over `Budget`; `Provisioning`; `Accounts`; `PeriodCalendar` and
`PeriodClock`; `PolicyResolution`; the proofs about each of them.

Next in the model: a composition of a send with its signer and its events.

Next in the proofs: the step between `PeriodClock` and `SpendLimits` as a theorem (a
`Bucket` made from `periodKey` satisfies `CalendarAssumption`); action properties of
the rows of `Transfers`; safety facts on which the liveness properties rest (a request
that is not answered has a step to take).
