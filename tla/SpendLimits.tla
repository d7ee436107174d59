----------------------------- MODULE SpendLimits -----------------------------
(***************************************************************************)
(* The spending-limit engine (internal/limits) with its Redis accumulators *)
(* and the handler that replaces a tenant's policy.                        *)
(*                                                                         *)
(* Every payment request runs limits.Check once, on a goroutine of its     *)
(* own.  A Check reads the governing policy from Postgres, evaluates the   *)
(* local gates, samples the clock once and then charges the daily, weekly  *)
(* and monthly counters in that order: INCRBY first, compare the returned  *)
(* total with the cap, DECRBY back on a bust.  Each Redis call is a step   *)
(* of its own, so the Checks interleave between any two of them; the clock *)
(* ticks and the tenant replaces its policy meanwhile.                     *)
(*                                                                         *)
(* Amounts and caps are micro-units.  A Redis key that is absent reads as  *)
(* 0, which is how INCRBY and DECRBY treat it.  A key disappears when its  *)
(* bucket closes (EXPIREAT nextReset).                                     *)
(***************************************************************************)
EXTENDS Integers, FiniteSets

CONSTANTS
    N,           \* number of payment requests
    Policies,    \* ids of limit_policies rows
    NoPolicy,    \* no row matched
    FirstPolicy, \* the tenant_default row Signup inserts
    StoredCap,   \* StoredCap[q][p]: the column of period p, 0 when NULL or zero
    CapDigits,   \* fractional digits the cap columns are rendered with
    PerTx,       \* PerTx[q]: the per_tx_amount column, NoPerTx when NULL
    NoPerTx,     \* the column is NULL; a stored 0 refuses every positive amount
    Blocked,     \* Blocked[q]: the recipients the lists of q turn away
    Recipients,  \* recipients a request may name
    Expiry,      \* Expiry[q]: last day on which q is valid
    Amounts,     \* amounts a request may ask for
    LastDay,     \* bound: the clock stops there
    Buckets,     \* bucket numbers (the date, week or month in a Redis key)
    Bucket,      \* Bucket[p][d]: the bucket of period p that day d lies in
    MaxFaults    \* bound: Redis and Postgres calls that fail

Requests == 1..N
Days     == 0..LastDay

\* The plan of checkPeriods: daily, weekly, monthly, in this order.
Periods  == 1..3

Keys == Policies \X Periods \X Buckets

\* Scopes in the order resolvePolicy tries them, most specific first.
Scopes == {"session_key", "wallet", "wallet_group", "tenant_default"}
Rank   == [s \in Scopes |->
             CASE s = "session_key"  -> 1
               [] s = "wallet"       -> 2
               [] s = "wallet_group" -> 3
               [] OTHER              -> 4]

ASSUME NAssumption        == N \in Nat
ASSUME PolicyAssumption   == /\ NoPolicy \notin Policies
                             /\ FirstPolicy \in Policies
                             /\ StoredCap \in [Policies -> [Periods -> Nat]]
                             /\ PerTx \in [Policies -> Nat \union {NoPerTx}]
                             /\ Blocked \in [Policies -> SUBSET Recipients]
                             /\ Expiry \in [Policies -> Nat]
                             /\ CapDigits \in Nat
ASSUME AmountAssumption   == Amounts \subseteq Nat
ASSUME CalendarAssumption == /\ LastDay \in Nat
                             /\ Buckets \subseteq Nat
                             /\ Bucket \in [Periods -> [Days -> Buckets]]
                             /\ \A p \in Periods : \A d, e \in Days :
                                  d <= e => Bucket[p][d] <= Bucket[p][e]
ASSUME FaultAssumption    == MaxFaults \in Nat

VARIABLES
    clock,      \* the current day
    bound,      \* bound[s]: the enabled policy of scope s, or NoPolicy
    used,       \* policies that have been inserted
    usage,      \* Redis: usage[k], the counter under usage:<policy>:<bucket>
    pc,         \* pc[r]: where request r is in Check
    pol,        \* pol[r]: the policy row r has read
    amount,     \* amount[r]
    now,        \* now[r]: the day sampled at the top of checkPeriods
    next,       \* next[r]: index of the period r charges next
    held,       \* held[r]: periods r has charged and passed (rollbacks)
    violation,  \* violation[r]: the type a denial reports
    violations, \* requests with a limit_violations row
    faults,     \* calls that failed so far
    spent       \* history: spent[<<q, p, b>>], the total of the requests that
                \* policy q admitted with a clock sample in bucket b of period p

vars == <<clock, bound, used, usage, pc, pol, amount, now, next, held,
          violation, violations, faults, spent>>
-----------------------------------------------------------------------------
(***************************************************************************)
(* Conversions and keys                                                    *)
(***************************************************************************)

\* scaleToMicros refuses a decimal with more than six fractional digits, and
\* numericToMicros turns that error into 0.
MicroDigits == 6
numericToMicros(c) == IF CapDigits > MicroDigits THEN 0 ELSE c

CapOf(q, p) == numericToMicros(StoredCap[q][p])

\* Variant: the clock is read again for every period.
KeyOfResampled(r, p) == <<pol[r], p, Bucket[p][clock]>>

\* usage:<policy>:<periodKey>, computed from the clock sample of the request.
KeyOf(r, p) == <<pol[r], p, Bucket[p][now[r]]>>

\* nextReset of the key's bucket has passed: Redis has expired the key.
Closed(k) == k[3] < Bucket[k[2]][clock]

\* Variant: EXPIREAT names the start of the bucket, so the key is gone at once.
AfterEarlyExpiry(k, delta) == 0

\* TxPipeline INCRBY + EXPIREAT.  EXPIREAT with a time in the past deletes.
AfterIncrBy(k, delta) == IF Closed(k) THEN 0 ELSE usage[k] + delta

Finished == {"allowed", "denied", "error"}
-----------------------------------------------------------------------------
Init ==
    /\ clock = 0
    /\ bound = [s \in Scopes |-> IF s = "tenant_default" THEN FirstPolicy
                                                         ELSE NoPolicy]
    /\ used = {FirstPolicy}
    /\ usage = [k \in Keys |-> 0]
    /\ pc = [r \in Requests |-> "idle"]
    /\ pol = [r \in Requests |-> FirstPolicy]
    /\ amount = [r \in Requests |-> 0]
    /\ now = [r \in Requests |-> 0]
    /\ next = [r \in Requests |-> 1]
    /\ held = [r \in Requests |-> {}]
    /\ violation = [r \in Requests |-> "none"]
    /\ violations = {}
    /\ faults = 0
    /\ spent = [k \in Keys |-> 0]

(***************************************************************************)
(* resolvePolicy.  A lookup that fails is treated as a miss, so a failing  *)
(* database moves the walk on to a broader scope, or past the last one.    *)
(* A request without a signer starts at the wallet scope.                  *)
(***************************************************************************)
Lookups(signed) == IF signed THEN Scopes ELSE Scopes \ {"session_key"}

Resolves(signed, failed, q) ==
    LET hits == {s \in Lookups(signed) \ failed : bound[s] # NoPolicy}
    IN  \/ /\ hits = {}
           /\ q = NoPolicy
        \/ \E s \in hits : /\ \A t \in hits : Rank[s] <= Rank[t]
                           /\ q = bound[s]

\* Gates 1 to 3 of Check, in order: expiry, per-transaction cap, recipients.
Gate(q, a, to) ==
    CASE clock > Expiry[q]                   -> "policy_expired"
      [] PerTx[q] # NoPerTx /\ a > PerTx[q]  -> "per_tx_exceeded"
      [] to \in Blocked[q]                   -> "recipient"
      [] OTHER                               -> "none"

\* Check up to the period gates, for a request of amount a to recipient `to`,
\* when the lookups in `failed` fail and the walk ends at q.  No policy at any
\* scope admits the request.
CheckGates(r, signed, a, to, failed, q) ==
    /\ pc[r] = "idle"
    /\ failed \subseteq Lookups(signed)
    /\ faults + Cardinality(failed) <= MaxFaults
    /\ faults' = faults + Cardinality(failed)
    /\ Resolves(signed, failed, q)
    /\ amount' = [amount EXCEPT ![r] = a]
    /\ \/ /\ q = NoPolicy
          /\ pc' = [pc EXCEPT ![r] = "allowed"]
          /\ UNCHANGED <<pol, violation>>
       \/ /\ q # NoPolicy
          /\ pol' = [pol EXCEPT ![r] = q]
          /\ violation' = [violation EXCEPT ![r] = Gate(q, a, to)]
          /\ pc' = [pc EXCEPT ![r] = IF Gate(q, a, to) = "none"
                                       THEN "gated" ELSE "reject"]
    /\ UNCHANGED <<clock, bound, used, usage, now, next, held, violations, spent>>

Begin(r) ==
    \E signed \in BOOLEAN, a \in Amounts, to \in Recipients,
       failed \in SUBSET Scopes, q \in Policies \union {NoPolicy} :
         CheckGates(r, signed, a, to, failed, q)

\* checkPeriods: scaleToMicros accepts the amount and the clock is sampled.
SampleClock(r) ==
    /\ pc[r] = "gated"
    /\ now' = [now EXCEPT ![r] = clock]
    /\ pc' = [pc EXCEPT ![r] = "period"]
    /\ UNCHANGED <<clock, bound, used, usage, pol, amount, next, held,
                   violation, violations, faults, spent>>

\* checkPeriods: the amount has more than six fractional digits.
RefuseAmount(r) ==
    /\ pc[r] = "gated"
    /\ pc' = [pc EXCEPT ![r] = "error"]
    /\ UNCHANGED <<clock, bound, used, usage, pol, amount, now, next, held,
                   violation, violations, faults, spent>>

\* Variant: the loop index advances twice.
SkipPeriodTwice(r) ==
    /\ pc[r] = "period"
    /\ next[r] \in Periods
    /\ CapOf(pol[r], next[r]) <= 0
    /\ next' = [next EXCEPT ![r] = @ + 2]
    /\ UNCHANGED <<clock, bound, used, usage, pc, pol, amount, now, held,
                   violation, violations, faults, spent>>

\* periodBudgetCheck returns errCapMissing: the loop continues.
SkipPeriod(r) ==
    /\ pc[r] = "period"
    /\ next[r] \in Periods
    /\ CapOf(pol[r], next[r]) <= 0
    /\ next' = [next EXCEPT ![r] = @ + 1]
    /\ UNCHANGED <<clock, bound, used, usage, pc, pol, amount, now, held,
                   violation, violations, faults, spent>>

\* periodBudgetCheck: the INCRBY is answered and its total is compared.
ChargePeriod(r) ==
    /\ pc[r] = "period"
    /\ next[r] \in Periods
    /\ CapOf(pol[r], next[r]) > 0
    /\ LET p     == next[r]
           k     == KeyOf(r, p)
           total == usage[k] + amount[r]
       IN  /\ usage' = [usage EXCEPT ![k] = AfterIncrBy(k, amount[r])]
           /\ \/ /\ total <= CapOf(pol[r], p)
                 /\ held' = [held EXCEPT ![r] = @ \union {p}]
                 /\ next' = [next EXCEPT ![r] = p + 1]
                 /\ UNCHANGED <<pc, violation>>
              \/ /\ total > CapOf(pol[r], p)
                 /\ violation' = [violation EXCEPT ![r] = "period_exceeded"]
                 /\ pc' = [pc EXCEPT ![r] = "bust"]
                 /\ UNCHANGED <<held, next>>
    /\ UNCHANGED <<clock, bound, used, pol, amount, now, violations, faults, spent>>

\* periodBudgetCheck: pipe.Exec fails, before or after Redis applied it.
ChargeFails(r) ==
    /\ pc[r] = "period"
    /\ next[r] \in Periods
    /\ CapOf(pol[r], next[r]) > 0
    /\ faults < MaxFaults
    /\ faults' = faults + 1
    /\ LET k == KeyOf(r, next[r])
       IN  usage' \in {usage, [usage EXCEPT ![k] = AfterIncrBy(k, amount[r])]}
    /\ pc' = [pc EXCEPT ![r] = "rollback"]
    /\ UNCHANGED <<clock, bound, used, pol, amount, now, next, held,
                   violation, violations, spent>>

\* Variant: the same charge is taken back twice.
DecrByTwice(k, delta) ==
    /\ usage' = [usage EXCEPT ![k] = @ - 2 * delta]
    /\ UNCHANGED faults

\* A DECRBY whose error is ignored: applied, or lost on a fault.
DecrBy(k, delta) ==
    \/ /\ usage' = [usage EXCEPT ![k] = @ - delta]
       /\ UNCHANGED faults
    \/ /\ faults < MaxFaults
       /\ faults' = faults + 1
       /\ UNCHANGED usage

\* periodBudgetCheck takes its own charge back after a bust.
UndoCharge(r) ==
    /\ pc[r] = "bust"
    /\ DecrBy(KeyOf(r, next[r]), amount[r])
    /\ pc' = [pc EXCEPT ![r] = "rollback"]
    /\ UNCHANGED <<clock, bound, used, pol, amount, now, next, held,
                   violation, violations, spent>>

\* Variant: the charges of the earlier periods are forgotten, not taken back.
RollbackForgotten(r) ==
    /\ pc[r] = "rollback"
    /\ held[r] # {}
    /\ held' = [held EXCEPT ![r] = {}]
    /\ UNCHANGED <<clock, bound, used, usage, pc, pol, amount, now, next,
                   violation, violations, faults, spent>>

\* rollbackBudgets: one DECRBY per period charged, oldest first.
RollbackBudget(r) ==
    /\ pc[r] = "rollback"
    /\ \E p \in held[r] :
         /\ \A o \in held[r] : p <= o
         /\ DecrBy(KeyOf(r, p), amount[r])
         /\ held' = [held EXCEPT ![r] = @ \ {p}]
    /\ UNCHANGED <<clock, bound, used, pc, pol, amount, now, next,
                   violation, violations, spent>>

\* The rollback is complete: a violation is rejected, a Redis error returned.
RolledBack(r) ==
    /\ pc[r] = "rollback"
    /\ held[r] = {}
    /\ pc' = [pc EXCEPT ![r] = IF violation[r] = "none" THEN "error" ELSE "reject"]
    /\ UNCHANGED <<clock, bound, used, usage, pol, amount, now, next, held,
                   violation, violations, faults, spent>>

\* reject: the violation row is written best-effort, the denial stands.
Reject(r) ==
    /\ pc[r] = "reject"
    /\ \/ /\ violations' = violations \union {r}
          /\ UNCHANGED faults
       \/ /\ faults < MaxFaults
          /\ faults' = faults + 1
          /\ UNCHANGED violations
    /\ pc' = [pc EXCEPT ![r] = "denied"]
    /\ UNCHANGED <<clock, bound, used, usage, pol, amount, now, next, held,
                   violation, spent>>

\* Every period passed: Check returns Allowed.  The charges stay.
Allow(r) ==
    /\ pc[r] = "period"
    /\ next[r] \notin Periods
    /\ pc' = [pc EXCEPT ![r] = "allowed"]
    /\ spent' = [k \in Keys |->
                   IF \E p \in Periods : k = KeyOf(r, p)
                     THEN spent[k] + amount[r] ELSE spent[k]]
    /\ held' = [held EXCEPT ![r] = {}]
    /\ UNCHANGED <<clock, bound, used, usage, pol, amount, now, next,
                   violation, violations, faults>>

\* The process serving r dies: its charges stay and nobody is answered.
Crash(r) ==
    /\ pc[r] \notin Finished \union {"idle"}
    /\ faults < MaxFaults
    /\ faults' = faults + 1
    /\ pc' = [pc EXCEPT ![r] = "error"]
    /\ held' = [held EXCEPT ![r] = {}]
    /\ UNCHANGED <<clock, bound, used, usage, pol, amount, now, next,
                   violation, violations, spent>>

(***************************************************************************)
(* Policy rows.  Replacing the tenant's caps disables the row and inserts  *)
(* one with a new id, in one database transaction; minting a session key   *)
(* inserts the row of its scope.                                           *)
(***************************************************************************)
InsertPolicy(scope) ==
    /\ \E q \in Policies \ used :
         /\ bound' = [bound EXCEPT ![scope] = q]
         /\ used' = used \union {q}
    /\ UNCHANGED <<clock, usage, pc, pol, amount, now, next, held,
                   violation, violations, faults, spent>>

UpdateTenantLimits == InsertPolicy("tenant_default")
MintSessionPolicy  == /\ bound["session_key"] = NoPolicy
                      /\ InsertPolicy("session_key")

\* Time passes, and Redis drops the keys of the buckets that end.
Tick ==
    /\ clock < LastDay
    /\ clock' = clock + 1
    /\ usage' = [k \in Keys |->
                   IF ~ Closed(k) /\ k[3] < Bucket[k[2]][clock + 1]
                     THEN 0 ELSE usage[k]]
    /\ UNCHANGED <<bound, used, pc, pol, amount, now, next, held,
                   violation, violations, faults, spent>>

\* Every request is decided and the clock has reached its bound.
Done ==
    /\ \A r \in Requests : pc[r] \in Finished
    /\ clock = LastDay
    /\ UNCHANGED vars

Step(r) ==
    \/ Begin(r)
    \/ SampleClock(r)
    \/ RefuseAmount(r)
    \/ SkipPeriod(r)
    \/ ChargePeriod(r)
    \/ ChargeFails(r)
    \/ UndoCharge(r)
    \/ RollbackBudget(r)
    \/ RolledBack(r)
    \/ Reject(r)
    \/ Allow(r)
    \/ Crash(r)

Next ==
    \/ \E r \in Requests : Step(r)
    \/ UpdateTenantLimits
    \/ MintSessionPolicy
    \/ Tick
    \/ Done

Spec == Init /\ [][Next]_vars
-----------------------------------------------------------------------------
(***************************************************************************)
(* Properties                                                              *)
(***************************************************************************)

\* Type invariant: every variable of the engine has its type.
TypeOK ==
    /\ clock \in Days
    /\ bound \in [Scopes -> Policies \union {NoPolicy}]
    /\ used \subseteq Policies
    /\ usage \in [Keys -> Int]
    /\ pc \in [Requests -> {"idle", "gated", "period", "bust", "rollback",
                            "reject"} \union Finished]
    /\ pol \in [Requests -> Policies]
    /\ amount \in [Requests -> Nat]
    /\ now \in [Requests -> Days]
    /\ next \in [Requests -> 1..4]
    /\ held \in [Requests -> SUBSET Periods]
    /\ violation \in [Requests -> {"none", "policy_expired", "per_tx_exceeded",
                                   "recipient", "period_exceeded"}]
    /\ violations \subseteq Requests
    /\ faults \in Nat
    /\ spent \in [Keys -> Nat]

\* However the Checks interleave, whatever fails and whenever a process dies,
\* what a policy has admitted in a bucket that is still open never exceeds the
\* cap periodBudgetCheck enforces on it.
CapWhileOpen ==
    \A k \in Keys :
        CapOf(k[1], k[2]) > 0 /\ ~ Closed(k) => spent[k] <= CapOf(k[1], k[2])

\* The Redis counter of an open bucket never falls below what was admitted in
\* it: an error in the rollback bookkeeping can only over-reject.
CounterCoversSpent ==
    \A k \in Keys :
        CapOf(k[1], k[2]) > 0 /\ ~ Closed(k) => spent[k] <= usage[k]

\* While no call has failed, a denied request leaves no trace: once no Check is
\* under way the counters hold exactly the admitted amounts, in every period
\* (checkPeriods: "so today's denied 5.01 USDC doesn't permanently inflate").
DeniedLeavesNoTrace ==
    faults = 0 /\ (\A r \in Requests : pc[r] \in Finished \union {"idle"})
        => \A k \in Keys :
             CapOf(k[1], k[2]) > 0 /\ ~ Closed(k) => usage[k] = spent[k]

\* The interleaved INCRBY/DECRBY protocol implements the atomic budget: each
\* Check that is admitted takes effect at one instant against every capped
\* period, and every other step of the engine is invisible.
B == INSTANCE Budget WITH
        Cap <- [q \in Policies |-> [p \in Periods |-> CapOf(q, p)]]
ImplementsBudget == B!Spec

\* A cap the policy row stores is enforced in the open bucket: "If the policy
\* would deny (e.g. the daily cap is exhausted) you get a" 429.
StoredCapEnforced ==
    \A k \in Keys :
        StoredCap[k[1]][k[2]] > 0 /\ ~ Closed(k) =>
            spent[k] <= StoredCap[k[1]][k[2]]
=============================================================================
