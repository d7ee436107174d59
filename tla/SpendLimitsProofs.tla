-------------------------- MODULE SpendLimitsProofs --------------------------
(***************************************************************************)
(* Proofs about SpendLimits, for any number of requests, policies, caps,   *)
(* days and faults.                                                        *)
(*                                                                         *)
(* The invariant behind the cap relates a Redis counter to the charges     *)
(* under way.  For a key of an open bucket let f be the total of the       *)
(* charges that passed the comparison and may still be admitted, and g the *)
(* total of those that busted the cap and have not been taken back.  Then  *)
(*     spent + f + g <= usage    and    spent + f <= cap,                  *)
(* and the first is an equality as long as no call has failed.  The first  *)
(* is what makes a comparison of the returned total sound, the second is   *)
(* what the comparison buys, and the equality is what a complete rollback  *)
(* buys.  A total is a witness of prefix sums over the requests 1..N, so   *)
(* that a change of one request's charge changes it pointwise and no       *)
(* induction is needed.                                                    *)
(***************************************************************************)
EXTENDS SpendLimits, FiniteSetTheorems, TLAPS

IsPrefixSum(F, c) ==
    /\ F \in [0..N -> Nat]
    /\ F[0] = 0
    /\ \A i \in 1..N : F[i] = F[i-1] + c[i]
    /\ \A i, j \in 0..N : i <= j => F[i] <= F[j]
    /\ \A i, j \in 0..N :
         i <= j /\ (\A m \in 1..N : i < m /\ m <= j => c[m] = 0) => F[i] = F[j]

\* t is the sum of c[1], ..., c[N].
IsTotal(c, t) == \E F : IsPrefixSum(F, c) /\ t = F[N]

\* What request r holds of key k after passing its comparison there.
PassedBy(k, r) ==
    IF k[2] \in held[r] /\ k = KeyOf(r, k[2]) THEN amount[r] ELSE 0

\* What request r has charged to k beyond the cap and must take back.
BustedBy(k, r) ==
    IF pc[r] = "bust" /\ k = KeyOf(r, next[r]) THEN amount[r] ELSE 0

Passed(k) == [r \in Requests |-> PassedBy(k, r)]
Busted(k) == [r \in Requests |-> BustedBy(k, r)]

\* The accounting of one counter.
Accounted(k) ==
    \E f, g \in Nat : /\ IsTotal(Passed(k), f)
                      /\ IsTotal(Busted(k), g)
                      /\ spent[k] + f + g <= usage[k]
                      /\ faults = 0 => spent[k] + f + g = usage[k]
                      /\ spent[k] + f <= CapOf(k[1], k[2])

\* Which periods a request holds, by its place in checkPeriods.
HoldsInv ==
    \A r \in Requests :
        /\ pc[r] = "period" =>
             held[r] = {p \in Periods : p < next[r] /\ CapOf(pol[r], p) > 0}
        /\ pc[r] = "bust" => next[r] \in Periods
        /\ pc[r] \notin {"period", "bust", "rollback"} => held[r] = {}
        /\ pc[r] \in {"idle", "gated"} => next[r] = 1

BudgetInv ==
    \A k \in Keys : CapOf(k[1], k[2]) > 0 /\ ~ Closed(k) => Accounted(k)

IInv == TypeOK /\ HoldsInv /\ BudgetInv
-----------------------------------------------------------------------------
(***************************************************************************)
(* Totals                                                                  *)
(***************************************************************************)

\* A request that charges nothing: the total of all zeroes is zero.
LEMMA TotalOfZero == IsTotal([r \in Requests |-> 0], 0)
<1> DEFINE F == [i \in 0..N |-> 0]
<1>1. IsPrefixSum(F, [r \in Requests |-> 0])
  BY NAssumption DEF IsPrefixSum, Requests
<1>2. F[N] = 0
  BY NAssumption
<1> QED BY <1>1, <1>2 DEF IsTotal

\* Changing the charge of one request changes the total by the difference, and
\* a total is never less than the charge of one request.
LEMMA TotalUpdate ==
  ASSUME NEW c \in [Requests -> Nat], NEW t, IsTotal(c, t),
         NEW r \in Requests, NEW v \in Nat
  PROVE  /\ t \in Nat
         /\ c[r] <= t
         /\ IsTotal([c EXCEPT ![r] = v], t - c[r] + v)
<1>1. PICK F : IsPrefixSum(F, c) /\ t = F[N]
  BY DEF IsTotal
<1>2. /\ F \in [0..N -> Nat]
      /\ F[0] = 0
      /\ \A i \in 1..N : F[i] = F[i-1] + c[i]
      /\ \A i, j \in 0..N : i <= j => F[i] <= F[j]
  BY <1>1 DEF IsPrefixSum
<1>f. ASSUME NEW i \in 0..N, NEW j \in 0..N, i <= j,
             \A m \in 1..N : i < m /\ m <= j => c[m] = 0
      PROVE  F[i] = F[j]
  BY <1>1, <1>f DEF IsPrefixSum
<1>3. /\ r \in 1..N /\ r \in 0..N /\ r-1 \in 0..N /\ N \in 0..N
      /\ c[r] \in Nat
      /\ F[r] = F[r-1] + c[r]
  BY <1>2, NAssumption DEF Requests
<1>4. t \in Nat /\ c[r] <= t
  <2>1. F[r] <= F[N]
    BY <1>2, <1>3, NAssumption
  <2> QED BY <1>1, <1>2, <1>3, <2>1
<1> DEFINE G == [i \in 0..N |-> IF i < r THEN F[i] ELSE F[i] - c[r] + v]
           d == [c EXCEPT ![r] = v]
<1>5. ASSUME NEW i \in 0..N, ~(i < r)
      PROVE  F[r-1] <= F[i] - c[r] /\ F[i] - c[r] \in Nat
  <2>1. F[r] <= F[i] /\ F[i] \in Nat /\ F[r-1] \in Nat
    BY <1>2, <1>3, <1>5, NAssumption
  <2> QED BY <2>1, <1>3
<1>6. G \in [0..N -> Nat]
  <2> SUFFICES ASSUME NEW i \in 0..N
               PROVE  (IF i < r THEN F[i] ELSE F[i] - c[r] + v) \in Nat
    OBVIOUS
  <2>1. CASE i < r
    BY <2>1, <1>2
  <2>2. CASE ~(i < r)
    <3>1. F[i] - c[r] \in Nat
      BY <2>2, <1>5
    <3> QED BY <2>2, <3>1
  <2> QED BY <2>1, <2>2
<1>7. G[0] = 0
  BY <1>2, <1>3, NAssumption
<1>8. \A i \in 1..N : G[i] = G[i-1] + d[i]
  <2> SUFFICES ASSUME NEW i \in 1..N PROVE G[i] = G[i-1] + d[i]
    OBVIOUS
  <2>1. i \in 0..N /\ i-1 \in 0..N /\ F[i] = F[i-1] + c[i] /\ i \in Requests
        /\ F[i] \in Nat /\ F[i-1] \in Nat /\ c[i] \in Nat
    BY <1>2, NAssumption DEF Requests
  <2>2. CASE i < r
    BY <2>1, <2>2, <1>3
  <2>3. CASE i = r
    BY <2>1, <2>3, <1>3
  <2>4. CASE i > r
    BY <2>1, <2>4, <1>3
  <2> QED BY <2>2, <2>3, <2>4, <1>3
<1>9. \A i, j \in 0..N : i <= j => G[i] <= G[j]
  <2> SUFFICES ASSUME NEW i \in 0..N, NEW j \in 0..N, i <= j
               PROVE  G[i] <= G[j]
    OBVIOUS
  <2>1. F[i] <= F[j] /\ F[i] \in Nat /\ F[j] \in Nat
    BY <1>2
  <2>2. CASE j < r
    BY <2>1, <2>2, <1>3
  <2>3. CASE ~(i < r)
    BY <2>1, <2>3, <1>3
  <2>4. CASE i < r /\ ~(j < r)
    <3>1. F[i] <= F[r-1] /\ F[r-1] \in Nat
      <4>1. i <= r-1
        BY <2>4, <1>3
      <4> QED BY <4>1, <1>2, <1>3
    <3>2. F[r-1] <= F[j] - c[r]
      BY <2>4, <1>5
    <3> QED BY <3>1, <3>2, <2>1, <2>4, <1>3
  <2> QED BY <2>2, <2>3, <2>4, <1>3
<1>g. ASSUME NEW i \in 0..N, NEW j \in 0..N, i <= j,
             \A m \in 1..N : i < m /\ m <= j => d[m] = 0
      PROVE  G[i] = G[j]
  <2>1. \A m \in 1..N : m # r => d[m] = c[m]
    BY DEF Requests
  <2>2. CASE j < r \/ ~(i < r)
    <3>1. \A m \in 1..N : i < m /\ m <= j => c[m] = 0
      BY <2>1, <2>2, <1>3, <1>g
    <3>2. F[i] = F[j]
      BY <3>1, <1>f, <1>g
    <3> QED BY <3>2, <2>2, <1>3, <1>g
  <2>3. CASE i < r /\ ~(j < r)
    <3>1. v = 0
      <4>1. d[r] = 0
        BY <2>3, <1>3, <1>g
      <4> QED BY <4>1
    <3>2. F[i] = F[r-1]
      <4>1. \A m \in 1..N : i < m /\ m <= r-1 => c[m] = 0
        BY <2>1, <2>3, <1>3, <1>g
      <4>2. i <= r-1
        BY <2>3, <1>3
      <4> QED BY <4>1, <4>2, <1>f, <1>3
    <3>3. F[r] = F[j]
      <4>1. \A m \in 1..N : r < m /\ m <= j => c[m] = 0
        BY <2>1, <2>3, <1>3, <1>g
      <4>2. r <= j
        BY <2>3, <1>3
      <4> QED BY <4>1, <4>2, <1>f, <1>3
    <3>4. F[i] \in Nat /\ F[j] \in Nat /\ F[r-1] \in Nat /\ F[r] \in Nat
      BY <1>2, <1>3
    <3>5. G[i] = F[i] /\ G[j] = F[j] - c[r] + v
      BY <2>3
    <3> QED BY <3>1, <3>2, <3>3, <3>4, <3>5, <1>3
  <2> QED BY <2>2, <2>3, <1>3
<1>10. IsPrefixSum(G, d)
  <2> HIDE DEF G, d
  <2> QED BY <1>6, <1>7, <1>8, <1>9, <1>g DEF IsPrefixSum
<1>11. G[N] = t - c[r] + v
  BY <1>1, <1>3, NAssumption
<1> QED BY <1>4, <1>10, <1>11 DEF IsTotal

\* When no request has a charge the total is zero.
LEMMA ZeroTotal ==
  ASSUME NEW c, NEW t, IsTotal(c, t), \A r \in Requests : c[r] = 0
  PROVE  t = 0
<1>1. PICK F : IsPrefixSum(F, c) /\ t = F[N]
  BY DEF IsTotal
<1>2. 0 \in 0..N /\ N \in 0..N /\ 0 <= N
  BY NAssumption
<1>3. F[0] = F[N]
  BY <1>1, <1>2 DEF IsPrefixSum, Requests
<1> QED BY <1>1, <1>3 DEF IsPrefixSum
-----------------------------------------------------------------------------
(***************************************************************************)
(* Types                                                                   *)
(***************************************************************************)

\* The key a request charges for a period is a key of the counter map.
LEMMA KeyOfType ==
  ASSUME TypeOK, NEW r \in Requests, NEW p \in Periods
  PROVE  /\ KeyOf(r, p) \in Keys
         /\ KeyOf(r, p)[1] = pol[r]
         /\ KeyOf(r, p)[2] = p
         /\ KeyOf(r, p)[3] = Bucket[p][now[r]]
BY CalendarAssumption DEF TypeOK, KeyOf, Keys

\* Caps are natural numbers.
LEMMA CapType ==
  ASSUME NEW q \in Policies, NEW p \in Periods
  PROVE  CapOf(q, p) \in Nat
BY PolicyAssumption DEF CapOf, numericToMicros, MicroDigits

\* There are finitely many scopes.
LEMMA ScopesFinite == IsFiniteSet(Scopes)
<1>1. Scopes = ((({} \union {"session_key"}) \union {"wallet"})
                 \union {"wallet_group"}) \union {"tenant_default"}
  BY DEF Scopes
<1> QED BY <1>1, FS_EmptySet, FS_AddElement

\* Every variable of the initial state has its type.
LEMMA InitTypeOK == Init => TypeOK
BY PolicyAssumption, CalendarAssumption, NAssumption
   DEF Init, TypeOK, Keys, Scopes, Periods, Days, Requests, Finished

\* Every step of the engine preserves the types.
LEMMA StepTypeOK == TypeOK /\ [Next]_vars => TypeOK'
<1> SUFFICES ASSUME TypeOK, [Next]_vars PROVE TypeOK'
  OBVIOUS
<1> USE DEF TypeOK
<1>1. ASSUME NEW r \in Requests, Begin(r) PROVE TypeOK'
  <2>1. PICK signed \in BOOLEAN, a \in Amounts, to \in Recipients,
             failed \in SUBSET Scopes, q \in Policies \union {NoPolicy} :
             CheckGates(r, signed, a, to, failed, q)
    BY <1>1 DEF Begin
  <2>2. Cardinality(failed) \in Nat
    BY FS_CardinalityType, FS_Subset, ScopesFinite
  <2>3. Gate(q, a, to) \in {"none", "policy_expired", "per_tx_exceeded",
                            "recipient", "period_exceeded"}
    BY DEF Gate
  <2> QED BY <1>1, <2>1, <2>2, <2>3, AmountAssumption DEF CheckGates, Finished
<1>2. ASSUME NEW r \in Requests, SampleClock(r) PROVE TypeOK'
  BY <1>2 DEF SampleClock
<1>3. ASSUME NEW r \in Requests, RefuseAmount(r) PROVE TypeOK'
  BY <1>3 DEF RefuseAmount, Finished
<1>4. ASSUME NEW r \in Requests, SkipPeriod(r) PROVE TypeOK'
  BY <1>4 DEF SkipPeriod, Periods
<1>5. ASSUME NEW r \in Requests, ChargePeriod(r) PROVE TypeOK'
  <2>1. KeyOf(r, next[r]) \in Keys
    BY <1>5, KeyOfType DEF ChargePeriod
  <2> QED BY <1>5, <2>1 DEF ChargePeriod, AfterIncrBy, Periods
<1>6. ASSUME NEW r \in Requests, ChargeFails(r) PROVE TypeOK'
  <2>1. KeyOf(r, next[r]) \in Keys
    BY <1>6, KeyOfType DEF ChargeFails
  <2> QED BY <1>6, <2>1 DEF ChargeFails, AfterIncrBy, Periods
<1>7. ASSUME NEW r \in Requests, UndoCharge(r) PROVE TypeOK'
  BY <1>7 DEF UndoCharge, DecrBy
<1>8. ASSUME NEW r \in Requests, RollbackBudget(r) PROVE TypeOK'
  BY <1>8 DEF RollbackBudget, DecrBy
<1>9. ASSUME NEW r \in Requests, RolledBack(r) PROVE TypeOK'
  BY <1>9 DEF RolledBack, Finished
<1>10. ASSUME NEW r \in Requests, Reject(r) PROVE TypeOK'
  BY <1>10 DEF Reject, Finished
<1>11. ASSUME NEW r \in Requests, Allow(r) PROVE TypeOK'
  BY <1>11 DEF Allow, Finished
<1>12. ASSUME NEW r \in Requests, Crash(r) PROVE TypeOK'
  BY <1>12 DEF Crash, Finished
<1>13. ASSUME NEW scope \in Scopes, InsertPolicy(scope) PROVE TypeOK'
  BY <1>13 DEF InsertPolicy
<1>14. CASE Tick
  BY <1>14, CalendarAssumption DEF Tick, Days
<1>15. CASE UNCHANGED vars
  BY <1>15 DEF vars
<1>16. CASE UpdateTenantLimits \/ MintSessionPolicy
  BY <1>13, <1>16 DEF UpdateTenantLimits, MintSessionPolicy, Scopes
<1> QED
  BY <1>1, <1>2, <1>3, <1>4, <1>5, <1>6, <1>7, <1>8, <1>9, <1>10, <1>11,
     <1>12, <1>14, <1>15, <1>16 DEF Next, Step, Done

\* The engine is type correct: no reachable state of the model leaves TypeOK.
THEOREM TypeCorrect == Spec => []TypeOK
BY InitTypeOK, StepTypeOK, PTL DEF Spec
-----------------------------------------------------------------------------
(***************************************************************************)
(* The accounting invariant                                                *)
(***************************************************************************)

\* A step in the name of r leaves the other requests alone.
Local(r) ==
    \A s \in Requests \ {r} :
        /\ pc'[s] = pc[s]         /\ pol'[s] = pol[s]
        /\ amount'[s] = amount[s] /\ now'[s] = now[s]
        /\ next'[s] = next[s]     /\ held'[s] = held[s]

\* What a request holds of a counter, or owes it, is a natural number.
LEMMA ChargeTypes ==
  ASSUME TypeOK, NEW k
  PROVE  /\ Passed(k) \in [Requests -> Nat]
         /\ Busted(k) \in [Requests -> Nat]
         /\ \A r \in Requests : Passed(k)[r] = PassedBy(k, r) /\ PassedBy(k, r) \in Nat
         /\ \A r \in Requests : Busted(k)[r] = BustedBy(k, r) /\ BustedBy(k, r) \in Nat
BY DEF TypeOK, Passed, Busted, PassedBy, BustedBy

\* A step of r changes only r's entries of the two totals.
LEMMA LocalCharges ==
  ASSUME TypeOK, TypeOK', NEW r \in Requests, Local(r), NEW k
  PROVE  /\ Passed(k)' = [Passed(k) EXCEPT ![r] = PassedBy(k, r)']
         /\ Busted(k)' = [Busted(k) EXCEPT ![r] = BustedBy(k, r)']
<1>1. \A s \in Requests \ {r} : PassedBy(k, s)' = PassedBy(k, s)
  BY DEF Local, PassedBy, KeyOf
<1>2. \A s \in Requests \ {r} : BustedBy(k, s)' = BustedBy(k, s)
  BY DEF Local, BustedBy, KeyOf
<1> QED BY <1>1, <1>2 DEF Passed, Busted

\* A step of r keeps a counter accounted for if the counter moves at least as
\* much as the admitted total and r's charges do (exactly as much if no call
\* has failed), and either r's claim on the cap does not grow or the new total
\* was compared with the cap.
LEMMA AccountStep ==
  ASSUME TypeOK, TypeOK', NEW r \in Requests, Local(r),
         NEW k \in Keys, Accounted(k),
         spent'[k] + PassedBy(k, r)' + BustedBy(k, r)' + usage[k]
           <= usage'[k] + spent[k] + PassedBy(k, r) + BustedBy(k, r),
         faults' = 0 =>
           /\ faults = 0
           /\ spent'[k] + PassedBy(k, r)' + BustedBy(k, r)' + usage[k]
                = usage'[k] + spent[k] + PassedBy(k, r) + BustedBy(k, r),
         \/ spent'[k] + PassedBy(k, r)' <= spent[k] + PassedBy(k, r)
         \/ /\ spent'[k] = spent[k]
            /\ usage[k] + PassedBy(k, r)' <= CapOf(k[1], k[2]) + PassedBy(k, r)
  PROVE  Accounted(k)'
<1>1. PICK f \in Nat, g \in Nat :
          /\ IsTotal(Passed(k), f)
          /\ IsTotal(Busted(k), g)
          /\ spent[k] + f + g <= usage[k]
          /\ faults = 0 => spent[k] + f + g = usage[k]
          /\ spent[k] + f <= CapOf(k[1], k[2])
  BY DEF Accounted
<1> DEFINE pass == PassedBy(k, r)
           bust == BustedBy(k, r)
           v == PassedBy(k, r)'
           w == BustedBy(k, r)'
           f1 == f - pass + v
           g1 == g - bust + w
<1>2. v \in Nat /\ w \in Nat /\ pass \in Nat /\ bust \in Nat
  BY DEF TypeOK, PassedBy, BustedBy
<1>3. /\ Passed(k) \in [Requests -> Nat] /\ Passed(k)[r] = pass
      /\ Busted(k) \in [Requests -> Nat] /\ Busted(k)[r] = bust
  BY ChargeTypes
<1>4. /\ pass <= f /\ IsTotal([Passed(k) EXCEPT ![r] = v], f1)
      /\ bust <= g /\ IsTotal([Busted(k) EXCEPT ![r] = w], g1)
  <2>1. pass <= f /\ IsTotal([Passed(k) EXCEPT ![r] = v], f - Passed(k)[r] + v)
    <3> HIDE DEF v, pass
    <3> QED BY <1>1, <1>2, <1>3, TotalUpdate
  <2>2. bust <= g /\ IsTotal([Busted(k) EXCEPT ![r] = w], g - Busted(k)[r] + w)
    <3> HIDE DEF w, bust
    <3> QED BY <1>1, <1>2, <1>3, TotalUpdate
  <2> QED BY <2>1, <2>2, <1>3
<1>5. IsTotal(Passed(k)', f1) /\ IsTotal(Busted(k)', g1)
  BY <1>4, LocalCharges
<1>6. /\ f1 \in Nat /\ g1 \in Nat
      /\ spent'[k] + f1 + g1 <= usage'[k]
      /\ faults' = 0 => spent'[k] + f1 + g1 = usage'[k]
      /\ spent'[k] + f1 <= CapOf(k[1], k[2])
  <2>1. /\ spent[k] \in Nat /\ spent'[k] \in Nat
        /\ usage[k] \in Int /\ usage'[k] \in Int
    BY DEF TypeOK
  <2>2. CapOf(k[1], k[2]) \in Nat
    BY CapType DEF Keys
  <2> HIDE DEF v, w, pass, bust
  <2>3. /\ spent'[k] + v + w + usage[k] <= usage'[k] + spent[k] + pass + bust
        /\ faults' = 0 =>
             /\ faults = 0
             /\ spent'[k] + v + w + usage[k] = usage'[k] + spent[k] + pass + bust
        /\ \/ spent'[k] + v <= spent[k] + pass
           \/ spent'[k] = spent[k] /\ usage[k] + v <= CapOf(k[1], k[2]) + pass
    BY DEF v, w, pass, bust
  <2>4. /\ f1 \in Nat /\ g1 \in Nat
        /\ spent'[k] + f1 + g1 <= usage'[k]
        /\ spent'[k] + f1 <= CapOf(k[1], k[2])
    BY <1>1, <1>2, <1>4, <2>1, <2>2, <2>3
  <2>5. ASSUME faults' = 0 PROVE spent'[k] + f1 + g1 = usage'[k]
    BY <1>1, <1>2, <1>4, <2>1, <2>3, <2>5
  <2> QED BY <2>4, <2>5
<1> HIDE DEF f1, g1
<1> QED
  BY <1>5, <1>6 DEF Accounted, CapOf, numericToMicros

\* Every step keeps the record of charged periods in line with the program
\* counter: a Check that has passed a period holds exactly the capped ones.
LEMMA StepHolds == TypeOK /\ HoldsInv /\ [Next]_vars => HoldsInv'
<1> SUFFICES ASSUME TypeOK, HoldsInv, [Next]_vars PROVE HoldsInv'
  OBVIOUS
<1> USE DEF TypeOK, HoldsInv
<1>1. ASSUME NEW r \in Requests, Begin(r) PROVE HoldsInv'
  <2>1. PICK signed \in BOOLEAN, a \in Amounts, to \in Recipients,
             failed \in SUBSET Scopes, q \in Policies \union {NoPolicy} :
             CheckGates(r, signed, a, to, failed, q)
    BY <1>1 DEF Begin
  <2> QED BY <2>1 DEF CheckGates
<1>2. ASSUME NEW r \in Requests, SampleClock(r) PROVE HoldsInv'
  BY <1>2 DEF SampleClock, Periods
<1>3. ASSUME NEW r \in Requests, RefuseAmount(r) PROVE HoldsInv'
  BY <1>3 DEF RefuseAmount
<1>4. ASSUME NEW r \in Requests, SkipPeriod(r) PROVE HoldsInv'
  <2>1. {p \in Periods : p < next[r] + 1 /\ CapOf(pol[r], p) > 0}
          = {p \in Periods : p < next[r] /\ CapOf(pol[r], p) > 0}
    BY <1>4, CapType DEF SkipPeriod, Periods
  <2> QED BY <1>4, <2>1 DEF SkipPeriod
<1>5. ASSUME NEW r \in Requests, ChargePeriod(r) PROVE HoldsInv'
  <2>1. {p \in Periods : p < next[r] + 1 /\ CapOf(pol[r], p) > 0}
          = {p \in Periods : p < next[r] /\ CapOf(pol[r], p) > 0} \union {next[r]}
    BY <1>5 DEF ChargePeriod, Periods
  <2> QED BY <1>5, <2>1 DEF ChargePeriod
<1>6. ASSUME NEW r \in Requests, ChargeFails(r) PROVE HoldsInv'
  BY <1>6 DEF ChargeFails
<1>7. ASSUME NEW r \in Requests, UndoCharge(r) PROVE HoldsInv'
  BY <1>7 DEF UndoCharge
<1>8. ASSUME NEW r \in Requests, RollbackBudget(r) PROVE HoldsInv'
  BY <1>8 DEF RollbackBudget
<1>9. ASSUME NEW r \in Requests, RolledBack(r) PROVE HoldsInv'
  BY <1>9 DEF RolledBack
<1>10. ASSUME NEW r \in Requests, Reject(r) PROVE HoldsInv'
  BY <1>10 DEF Reject
<1>11. ASSUME NEW r \in Requests, Allow(r) PROVE HoldsInv'
  BY <1>11 DEF Allow
<1>12. ASSUME NEW r \in Requests, Crash(r) PROVE HoldsInv'
  BY <1>12 DEF Crash
<1>13. CASE UpdateTenantLimits \/ MintSessionPolicy \/ Tick
  BY <1>13 DEF UpdateTenantLimits, MintSessionPolicy, InsertPolicy, Tick
<1>14. CASE UNCHANGED vars
  BY <1>14 DEF vars
<1> QED
  BY <1>1, <1>2, <1>3, <1>4, <1>5, <1>6, <1>7, <1>8, <1>9, <1>10, <1>11,
     <1>12, <1>13, <1>14 DEF Next, Step, Done

\* Every step keeps the counters of the open buckets accounted for.
LEMMA StepBudget == IInv /\ [Next]_vars => BudgetInv'
<1> SUFFICES ASSUME IInv, [Next]_vars,
                    NEW k \in Keys, CapOf(k[1], k[2]) > 0, ~ Closed(k)'
             PROVE  Accounted(k)'
  BY DEF BudgetInv, CapOf, numericToMicros
<1>a. TypeOK /\ HoldsInv /\ TypeOK'
  BY StepTypeOK DEF IInv
<1>b. /\ k[1] \in Policies /\ k[2] \in Periods /\ k[3] \in Nat
      /\ CapOf(k[1], k[2]) \in Nat
      /\ usage[k] \in Int /\ usage'[k] \in Int
      /\ spent[k] \in Nat /\ spent'[k] \in Nat /\ faults \in Nat
      /\ \A r \in Requests : /\ amount[r] \in Nat /\ amount'[r] \in Nat
                             /\ PassedBy(k, r) \in Nat /\ BustedBy(k, r) \in Nat
  BY <1>a, CapType, CalendarAssumption, ChargeTypes DEF TypeOK, Keys
<1>c. clock' = clock => ~ Closed(k)
  BY DEF Closed
<1>d. ~ Closed(k) => Accounted(k)
  BY DEF IInv, BudgetInv
<1>e. ASSUME pc' = pc, pol' = pol, amount' = amount, now' = now, next' = next,
             held' = held, usage'[k] = usage[k], spent' = spent, ~ Closed(k),
             faults' = faults
      PROVE  Accounted(k)'
  <2>1. Passed(k)' = Passed(k) /\ Busted(k)' = Busted(k)
    BY <1>e DEF Passed, Busted, PassedBy, BustedBy, KeyOf
  <2> QED BY <1>d, <1>e, <2>1 DEF Accounted, CapOf, numericToMicros
\* The requests' own steps: who holds what before and after.
<1>1. ASSUME NEW r \in Requests, Begin(r) PROVE Accounted(k)'
  <2>1. PICK signed \in BOOLEAN, a \in Amounts, to \in Recipients,
             failed \in SUBSET Scopes, q \in Policies \union {NoPolicy} :
             CheckGates(r, signed, a, to, failed, q)
    BY <1>1 DEF Begin
  <2>2. /\ Local(r) /\ clock' = clock /\ usage' = usage /\ spent' = spent
        /\ held[r] = {} /\ held'[r] = {} /\ pc[r] # "bust" /\ pc'[r] # "bust"
    BY <2>1, <1>a DEF CheckGates, Local, TypeOK, HoldsInv
  <2>3. faults' = 0 => faults = 0
    <3>1. Cardinality(failed) \in Nat
      BY FS_CardinalityType, FS_Subset, ScopesFinite
    <3> QED BY <2>1, <3>1, <1>b DEF CheckGates
  <2>4. /\ PassedBy(k, r) = 0 /\ PassedBy(k, r)' = 0
        /\ BustedBy(k, r) = 0 /\ BustedBy(k, r)' = 0
    BY <2>2 DEF PassedBy, BustedBy
  <2> QED BY <1>a, <1>b, <1>c, <1>d, <2>2, <2>3, <2>4, AccountStep
<1>2. ASSUME NEW r \in Requests, SampleClock(r) \/ RefuseAmount(r)
      PROVE  Accounted(k)'
  <2>2. /\ Local(r) /\ clock' = clock /\ usage' = usage /\ spent' = spent
        /\ held[r] = {} /\ held'[r] = {} /\ pc[r] # "bust" /\ pc'[r] # "bust"
        /\ faults' = faults
    BY <1>2, <1>a DEF SampleClock, RefuseAmount, Local, TypeOK, HoldsInv
  <2>3. /\ PassedBy(k, r) = 0 /\ PassedBy(k, r)' = 0
        /\ BustedBy(k, r) = 0 /\ BustedBy(k, r)' = 0
    BY <2>2 DEF PassedBy, BustedBy
  <2> QED BY <1>a, <1>b, <1>c, <1>d, <2>2, <2>3, AccountStep
<1>3. ASSUME NEW r \in Requests, SkipPeriod(r) PROVE Accounted(k)'
  <2>2. /\ Local(r) /\ clock' = clock /\ usage' = usage /\ spent' = spent
        /\ held' = held /\ amount' = amount /\ pol' = pol /\ now' = now
        /\ pc[r] # "bust" /\ pc'[r] # "bust" /\ faults' = faults
    BY <1>3, <1>a DEF SkipPeriod, Local, TypeOK
  <2>3. /\ PassedBy(k, r)' = PassedBy(k, r)
        /\ BustedBy(k, r) = 0 /\ BustedBy(k, r)' = 0
    BY <2>2 DEF PassedBy, BustedBy, KeyOf
  <2> QED BY <1>a, <1>b, <1>c, <1>d, <2>2, <2>3, AccountStep
<1>4. ASSUME NEW r \in Requests, ChargePeriod(r) PROVE Accounted(k)'
  <2> DEFINE p == next[r]
             j == KeyOf(r, p)
  <2>1. /\ p \in Periods /\ j \in Keys /\ j[1] = pol[r] /\ j[2] = p
        /\ pc[r] = "period" /\ p \notin held[r]
        /\ usage' = [usage EXCEPT ![j] = AfterIncrBy(j, amount[r])]
        /\ spent' = spent /\ clock' = clock /\ Local(r)
        /\ pol' = pol /\ amount' = amount /\ now' = now /\ faults' = faults
    BY <1>4, <1>a, KeyOfType DEF ChargePeriod, HoldsInv, Local, TypeOK
  <2>2. k = j => usage'[k] = usage[k] + amount[r]
    BY <2>1, <1>c, <1>a DEF AfterIncrBy, TypeOK
  <2>3. k # j => usage'[k] = usage[k]
    BY <2>1, <1>a DEF TypeOK
  <2>4. BustedBy(k, r) = 0
    BY <2>1 DEF BustedBy
  <2>5. CASE usage[j] + amount[r] <= CapOf(pol[r], p)
    <3>0. usage[j] \in Int /\ amount[r] \in Nat /\ CapOf(pol[r], p) \in Nat
      BY <2>1, <1>a, CapType DEF TypeOK
    <3>1. held'[r] = held[r] \union {p} /\ pc' = pc
      BY <1>4, <2>5, <3>0, <1>a DEF ChargePeriod, TypeOK
    <3>2. BustedBy(k, r)' = 0
      BY <3>1, <2>1 DEF BustedBy
    <3>3. CASE k = j
      <4>1. PassedBy(k, r) = 0 /\ PassedBy(k, r)' = amount[r]
        BY <3>1, <3>3, <2>1 DEF PassedBy, KeyOf
      <4>2. usage[k] + amount[r] <= CapOf(k[1], k[2])
        BY <2>1, <2>5, <3>3
      <4> QED BY <1>a, <1>b, <1>c, <1>d, <2>1, <2>2, <2>4, <3>2, <3>3, <4>1,
                 <4>2, AccountStep
    <3>4. CASE k # j
      <4>1. PassedBy(k, r)' = PassedBy(k, r)
        BY <3>1, <3>4, <2>1 DEF PassedBy, KeyOf
      <4> QED BY <1>a, <1>b, <1>c, <1>d, <2>1, <2>3, <2>4, <3>2, <3>4, <4>1,
                 AccountStep
    <3> QED BY <3>3, <3>4
  <2>6. CASE ~ (usage[j] + amount[r] <= CapOf(pol[r], p))
    <3>1. held' = held /\ next' = next /\ pc'[r] = "bust"
      BY <1>4, <2>6, <1>a DEF ChargePeriod, TypeOK
    <3>2. PassedBy(k, r)' = PassedBy(k, r)
      BY <3>1, <2>1 DEF PassedBy, KeyOf
    <3>3. CASE k = j
      <4>1. BustedBy(k, r)' = amount[r]
        BY <3>1, <3>3, <2>1 DEF BustedBy, KeyOf
      <4> QED BY <1>a, <1>b, <1>c, <1>d, <2>1, <2>2, <2>4, <3>2, <3>3, <4>1,
                 AccountStep
    <3>4. CASE k # j
      <4>1. BustedBy(k, r)' = 0
        BY <3>1, <3>4, <2>1 DEF BustedBy, KeyOf
      <4> QED BY <1>a, <1>b, <1>c, <1>d, <2>1, <2>3, <2>4, <3>2, <3>4, <4>1,
                 AccountStep
    <3> QED BY <3>3, <3>4
  <2> QED BY <2>5, <2>6
<1>5. ASSUME NEW r \in Requests, ChargeFails(r) PROVE Accounted(k)'
  <2> DEFINE j == KeyOf(r, next[r])
  <2>1. /\ j \in Keys /\ spent' = spent /\ clock' = clock /\ Local(r)
        /\ held' = held /\ pol' = pol /\ amount' = amount /\ now' = now
        /\ pc[r] = "period" /\ pc'[r] = "rollback"
        /\ usage' \in {usage, [usage EXCEPT ![j] = AfterIncrBy(j, amount[r])]}
        /\ faults' # 0
    BY <1>5, <1>a, KeyOfType DEF ChargeFails, Local, TypeOK
  <2>2. usage[k] <= usage'[k]
    BY <2>1, <1>a, <1>b, <1>c DEF AfterIncrBy, TypeOK
  <2>3. /\ PassedBy(k, r)' = PassedBy(k, r)
        /\ BustedBy(k, r) = 0 /\ BustedBy(k, r)' = 0
    BY <2>1 DEF PassedBy, BustedBy, KeyOf
  <2> QED BY <1>a, <1>b, <1>c, <1>d, <2>1, <2>2, <2>3, AccountStep
<1>6. ASSUME NEW r \in Requests, UndoCharge(r) PROVE Accounted(k)'
  <2> DEFINE j == KeyOf(r, next[r])
  <2>1. /\ j \in Keys /\ spent' = spent /\ clock' = clock /\ Local(r)
        /\ held' = held /\ pol' = pol /\ amount' = amount /\ now' = now
        /\ pc[r] = "bust" /\ pc'[r] = "rollback"
        /\ \/ usage' = [usage EXCEPT ![j] = @ - amount[r]] /\ faults' = faults
           \/ usage' = usage /\ faults' # 0
    BY <1>6, <1>a, KeyOfType DEF UndoCharge, DecrBy, HoldsInv, Local, TypeOK
  <2>2. PassedBy(k, r)' = PassedBy(k, r) /\ BustedBy(k, r)' = 0
    BY <2>1 DEF PassedBy, BustedBy, KeyOf
  <2>3. CASE k = j
    <3>1. /\ BustedBy(k, r) = amount[r] /\ usage[k] - amount[r] <= usage'[k]
          /\ faults' = 0 => faults = 0 /\ usage'[k] = usage[k] - amount[r]
      BY <2>1, <2>3, <1>a, <1>b DEF BustedBy, TypeOK
    <3> QED BY <1>a, <1>b, <1>c, <1>d, <2>1, <2>2, <3>1, AccountStep
  <2>4. CASE k # j
    <3>1. /\ BustedBy(k, r) = 0 /\ usage'[k] = usage[k]
          /\ faults' = 0 => faults = 0
      BY <2>1, <2>4, <1>a DEF BustedBy, TypeOK
    <3> QED BY <1>a, <1>b, <1>c, <1>d, <2>1, <2>2, <3>1, AccountStep
  <2> QED BY <2>3, <2>4
<1>7. ASSUME NEW r \in Requests, RollbackBudget(r) PROVE Accounted(k)'
  <2>1. PICK p \in held[r] : /\ DecrBy(KeyOf(r, p), amount[r])
                             /\ held' = [held EXCEPT ![r] = @ \ {p}]
    BY <1>7 DEF RollbackBudget
  <2> DEFINE j == KeyOf(r, p)
  <2>2. /\ p \in Periods /\ j \in Keys /\ j[2] = p
        /\ spent' = spent /\ clock' = clock /\ Local(r)
        /\ pc' = pc /\ pol' = pol /\ amount' = amount /\ now' = now /\ next' = next
        /\ pc[r] = "rollback" /\ held'[r] = held[r] \ {p}
        /\ \/ usage' = [usage EXCEPT ![j] = @ - amount[r]] /\ faults' = faults
           \/ usage' = usage /\ faults' # 0
    BY <1>7, <1>a, <2>1, KeyOfType DEF RollbackBudget, DecrBy, Local, TypeOK
  <2>3. BustedBy(k, r) = 0 /\ BustedBy(k, r)' = 0
    BY <2>2 DEF BustedBy
  <2>4. CASE k = j
    <3>1. /\ PassedBy(k, r) = amount[r] /\ PassedBy(k, r)' = 0
          /\ usage[k] - amount[r] <= usage'[k]
          /\ faults' = 0 => faults = 0 /\ usage'[k] = usage[k] - amount[r]
      BY <2>2, <2>4, <1>a, <1>b DEF PassedBy, TypeOK
    <3> QED BY <1>a, <1>b, <1>c, <1>d, <2>2, <2>3, <3>1, AccountStep
  <2>5. CASE k # j
    <3>1. /\ PassedBy(k, r)' = PassedBy(k, r) /\ usage'[k] = usage[k]
          /\ faults' = 0 => faults = 0
      BY <2>2, <2>5, <1>a DEF PassedBy, KeyOf, TypeOK
    <3> QED BY <1>a, <1>b, <1>c, <1>d, <2>2, <2>3, <3>1, AccountStep
  <2> QED BY <2>4, <2>5
<1>8. ASSUME NEW r \in Requests, RolledBack(r) \/ Reject(r) PROVE Accounted(k)'
  <2>1. /\ Local(r) /\ clock' = clock /\ usage' = usage /\ spent' = spent
        /\ held[r] = {} /\ held'[r] = {} /\ pc[r] # "bust" /\ pc'[r] # "bust"
        /\ faults' = 0 => faults = 0
    BY <1>8, <1>a DEF RolledBack, Reject, Local, TypeOK, HoldsInv
  <2>2. /\ PassedBy(k, r) = 0 /\ PassedBy(k, r)' = 0
        /\ BustedBy(k, r) = 0 /\ BustedBy(k, r)' = 0
    BY <2>1 DEF PassedBy, BustedBy
  <2> QED BY <1>a, <1>b, <1>c, <1>d, <2>1, <2>2, AccountStep
<1>9. ASSUME NEW r \in Requests, Allow(r) PROVE Accounted(k)'
  <2>1. /\ Local(r) /\ clock' = clock /\ usage' = usage
        /\ held'[r] = {} /\ pc[r] = "period" /\ pc'[r] = "allowed"
        /\ next[r] = 4 /\ faults' = faults
        /\ held[r] = {p \in Periods : CapOf(pol[r], p) > 0}
        /\ spent'[k] = IF \E p \in Periods : k = KeyOf(r, p)
                         THEN spent[k] + amount[r] ELSE spent[k]
    BY <1>9, <1>a DEF Allow, Local, TypeOK, HoldsInv, Periods
  <2>2. /\ BustedBy(k, r) = 0 /\ BustedBy(k, r)' = 0 /\ PassedBy(k, r)' = 0
    BY <2>1 DEF PassedBy, BustedBy
  <2>3. CASE \E p \in Periods : k = KeyOf(r, p)
    <3>1. k = KeyOf(r, k[2]) /\ k[1] = pol[r]
      BY <2>3, <1>a, KeyOfType
    <3>2. PassedBy(k, r) = amount[r]
      BY <3>1, <2>1, <1>b DEF PassedBy
    <3> QED BY <1>a, <1>b, <1>c, <1>d, <2>1, <2>2, <2>3, <3>2, AccountStep
  <2>4. CASE ~ \E p \in Periods : k = KeyOf(r, p)
    <3>1. PassedBy(k, r) = 0
      BY <2>4, <1>b DEF PassedBy
    <3> QED BY <1>a, <1>b, <1>c, <1>d, <2>1, <2>2, <2>4, <3>1, AccountStep
  <2> QED BY <2>3, <2>4
<1>10. ASSUME NEW r \in Requests, Crash(r) PROVE Accounted(k)'
  <2>1. /\ Local(r) /\ clock' = clock /\ usage' = usage /\ spent' = spent
        /\ held'[r] = {} /\ pc'[r] = "error" /\ faults' # 0
    BY <1>10, <1>a DEF Crash, Local, TypeOK
  <2>2. PassedBy(k, r)' = 0 /\ BustedBy(k, r)' = 0
    BY <2>1 DEF PassedBy, BustedBy
  <2> QED BY <1>a, <1>b, <1>c, <1>d, <2>1, <2>2, AccountStep
\* The steps of nobody's request.
<1>11. CASE UpdateTenantLimits \/ MintSessionPolicy
  BY <1>11, <1>c, <1>e DEF UpdateTenantLimits, MintSessionPolicy, InsertPolicy
<1>12. CASE Tick
  <2>1. clock \in Days /\ clock' \in Days /\ clock' = clock + 1
    BY <1>12, <1>a DEF Tick, TypeOK
  <2>2. Bucket[k[2]][clock] <= Bucket[k[2]][clock']
        /\ Bucket[k[2]][clock] \in Nat /\ Bucket[k[2]][clock'] \in Nat
    <3>1. clock <= clock'
      BY <2>1 DEF Days
    <3>2. /\ Bucket[k[2]] \in [Days -> Buckets]
          /\ \A d, e \in Days : d <= e => Bucket[k[2]][d] <= Bucket[k[2]][e]
      BY <1>b, CalendarAssumption
    <3> QED BY <2>1, <3>1, <3>2, CalendarAssumption
  <2>3. ~ Closed(k) /\ ~ (k[3] < Bucket[k[2]][clock + 1])
    BY <2>1, <2>2, <1>b DEF Closed
  <2>4. usage'[k] = usage[k]
    BY <2>3, <1>12 DEF Tick
  <2> QED BY <2>3, <2>4, <1>e, <1>12 DEF Tick
<1>13. CASE UNCHANGED vars
  BY <1>13, <1>c, <1>e DEF vars
<1> QED
  BY <1>1, <1>2, <1>3, <1>4, <1>5, <1>6, <1>7, <1>8, <1>9, <1>10, <1>11,
     <1>12, <1>13 DEF Next, Step, Done

\* The invariant holds initially: nothing is charged and nothing admitted.
LEMMA InitIInv == Init => IInv
<1> SUFFICES ASSUME Init PROVE IInv
  OBVIOUS
<1>1. TypeOK
  BY InitTypeOK
<1>2. HoldsInv
  BY DEF Init, HoldsInv
<1>3. ASSUME NEW k \in Keys PROVE Accounted(k)
  <2>1. Passed(k) = [r \in Requests |-> 0] /\ Busted(k) = [r \in Requests |-> 0]
    BY DEF Init, Passed, Busted, PassedBy, BustedBy
  <2>2. CapOf(k[1], k[2]) \in Nat
    BY CapType DEF Keys
  <2> QED BY <2>1, <2>2, TotalOfZero DEF Init, Accounted
<1> QED BY <1>1, <1>2, <1>3 DEF IInv, BudgetInv

\* The accounting invariant of the Redis counters holds in every state.
THEOREM Accounting == Spec => []IInv
<1>1. IInv /\ [Next]_vars => IInv'
  BY StepTypeOK, StepHolds, StepBudget DEF IInv
<1> QED BY <1>1, InitIInv, PTL DEF Spec

\* For any number of concurrent requests, Redis failures and crashes, what a
\* policy admitted in an open bucket stays within the cap it enforces.
THEOREM CapHolds == Spec => []CapWhileOpen
<1>1. IInv => CapWhileOpen
  <2> SUFFICES ASSUME IInv, NEW k \in Keys, CapOf(k[1], k[2]) > 0, ~ Closed(k)
               PROVE  spent[k] <= CapOf(k[1], k[2])
    BY DEF CapWhileOpen
  <2>1. PICK f \in Nat : spent[k] + f <= CapOf(k[1], k[2])
    BY DEF IInv, BudgetInv, Accounted
  <2>2. spent[k] \in Nat /\ CapOf(k[1], k[2]) \in Nat
    BY CapType DEF IInv, TypeOK, Keys
  <2> QED BY <2>1, <2>2
<1> QED BY <1>1, Accounting, PTL

\* The counter of an open bucket never falls below the admitted total, so the
\* engine errs only towards rejecting.
THEOREM CounterCovers == Spec => []CounterCoversSpent
<1>1. IInv => CounterCoversSpent
  <2> SUFFICES ASSUME IInv, NEW k \in Keys, CapOf(k[1], k[2]) > 0, ~ Closed(k)
               PROVE  spent[k] <= usage[k]
    BY DEF CounterCoversSpent
  <2>1. PICK f \in Nat, g \in Nat : spent[k] + f + g <= usage[k]
    BY DEF IInv, BudgetInv, Accounted
  <2>2. spent[k] \in Nat /\ usage[k] \in Int
    BY DEF IInv, TypeOK
  <2> QED BY <2>1, <2>2
<1> QED BY <1>1, Accounting, PTL

\* For any number of requests, policies and buckets: as long as no call has
\* failed, once no Check is under way the counters of the open buckets hold
\* exactly what was admitted, so the rollback of every denial was complete.
THEOREM DenialsUndone == Spec => []DeniedLeavesNoTrace
<1>1. IInv => DeniedLeavesNoTrace
  <2> SUFFICES ASSUME IInv, faults = 0,
                      \A r \in Requests : pc[r] \in Finished \union {"idle"},
                      NEW k \in Keys, CapOf(k[1], k[2]) > 0, ~ Closed(k)
               PROVE  usage[k] = spent[k]
    BY DEF DeniedLeavesNoTrace
  <2>1. PICK f \in Nat, g \in Nat : /\ IsTotal(Passed(k), f)
                                    /\ IsTotal(Busted(k), g)
                                    /\ spent[k] + f + g = usage[k]
    BY DEF IInv, BudgetInv, Accounted
  <2>2. \A r \in Requests : held[r] = {} /\ pc[r] # "bust"
    BY DEF IInv, HoldsInv, Finished
  <2>3. \A r \in Requests : Passed(k)[r] = 0 /\ Busted(k)[r] = 0
    BY <2>2 DEF Passed, Busted, PassedBy, BustedBy
  <2>4. f = 0 /\ g = 0
    BY <2>1, <2>3, ZeroTotal
  <2>5. spent[k] \in Nat /\ usage[k] \in Int
    BY DEF IInv, TypeOK
  <2> QED BY <2>1, <2>4, <2>5
<1> QED BY <1>1, Accounting, PTL
-----------------------------------------------------------------------------
(***************************************************************************)
(* Refinement                                                              *)
(***************************************************************************)

\* A request under way asks for a legal amount and sampled a day of the past.
SampleInv == \A r \in Requests : /\ pc[r] # "idle" => amount[r] \in Amounts
                                 /\ now[r] <= clock

\* Every step preserves the facts about amounts and clock samples.
LEMMA StepSample == TypeOK /\ SampleInv /\ [Next]_vars => SampleInv'
<1> SUFFICES ASSUME TypeOK, SampleInv, [Next]_vars PROVE SampleInv'
  OBVIOUS
<1> USE DEF TypeOK, SampleInv
<1>1. ASSUME NEW r \in Requests, Begin(r) PROVE SampleInv'
  <2>1. PICK signed \in BOOLEAN, a \in Amounts, to \in Recipients,
             failed \in SUBSET Scopes, q \in Policies \union {NoPolicy} :
             CheckGates(r, signed, a, to, failed, q)
    BY <1>1 DEF Begin
  <2> QED BY <2>1 DEF CheckGates
<1>2. ASSUME NEW r \in Requests, SampleClock(r) PROVE SampleInv'
  BY <1>2 DEF SampleClock, Days
<1>3. ASSUME NEW r \in Requests,
             \/ RefuseAmount(r) \/ SkipPeriod(r) \/ ChargeFails(r)
             \/ RolledBack(r) \/ Reject(r) \/ Allow(r) \/ Crash(r)
      PROVE  SampleInv'
  BY <1>3 DEF RefuseAmount, SkipPeriod, ChargeFails, RolledBack, Reject, Allow,
              Crash, Finished
<1>4. ASSUME NEW r \in Requests, ChargePeriod(r) PROVE SampleInv'
  BY <1>4 DEF ChargePeriod
<1>5. ASSUME NEW r \in Requests, UndoCharge(r) \/ RollbackBudget(r)
      PROVE  SampleInv'
  BY <1>5 DEF UndoCharge, RollbackBudget
<1>6. CASE UpdateTenantLimits \/ MintSessionPolicy
  BY <1>6 DEF UpdateTenantLimits, MintSessionPolicy, InsertPolicy
<1>7. CASE Tick
  BY <1>7 DEF Tick, Days
<1>8. CASE UNCHANGED vars
  BY <1>8 DEF vars
<1> QED
  BY <1>1, <1>2, <1>3, <1>4, <1>5, <1>6, <1>7, <1>8 DEF Next, Step, Done

\* A step of the engine is a step of the atomic budget or invisible to it.
LEMMA StepRefines ==
  IInv /\ SampleInv /\ [Next]_vars => [B!Next]_<<clock, spent>>
<1> SUFFICES ASSUME IInv, SampleInv, [Next]_vars
             PROVE  B!Next \/ UNCHANGED <<clock, spent>>
  OBVIOUS
<1>a. TypeOK /\ HoldsInv /\ BudgetInv
  BY DEF IInv
<1>1. ASSUME NEW r \in Requests, Allow(r) PROVE B!Next
  <2> DEFINE q == pol[r]
             a == amount[r]
             d == now[r]
             touched == {<<q, p, Bucket[p][d]>> : p \in Periods}
             cap == [x \in Policies |-> [y \in Periods |-> CapOf(x, y)]]
  <2>1. /\ q \in Policies /\ a \in Amounts /\ d \in 0..clock /\ clock' = clock
        /\ next[r] = 4 /\ pc[r] = "period" /\ a \in Nat
        /\ held[r] = {p \in Periods : CapOf(q, p) > 0}
    BY <1>1, <1>a DEF Allow, TypeOK, SampleInv, HoldsInv, Days, Periods
  <2>2. touched = {KeyOf(r, p) : p \in Periods}
    BY DEF KeyOf
  <2>3. ASSUME NEW k \in touched, k[3] >= Bucket[k[2]][clock], cap[q][k[2]] > 0
        PROVE  spent[k] + a <= cap[q][k[2]]
    <3>1. PICK p \in Periods : k = KeyOf(r, p)
      BY <2>2, <2>3
    <3>2. k \in Keys /\ k[1] = q /\ k[2] = p /\ k[3] = Bucket[p][d]
      BY <3>1, <1>a, KeyOfType
    <3>3. cap[q][k[2]] = CapOf(q, p) /\ CapOf(q, p) \in Nat
      BY <3>2, <2>1, CapType
    <3>4. clock \in Days /\ Bucket[p][clock] \in Nat /\ Bucket[p][d] \in Nat
      BY <1>a, CalendarAssumption DEF TypeOK
    <3>5. ~ Closed(k)
      BY <2>3, <3>2, <3>4 DEF Closed
    <3>6. Accounted(k)
      BY <3>2, <3>3, <3>5, <2>3, <1>a DEF BudgetInv
    <3>7. PICK f \in Nat : IsTotal(Passed(k), f) /\ spent[k] + f <= CapOf(q, p)
      BY <3>6, <3>2 DEF Accounted
    <3>8. Passed(k)[r] = a /\ Passed(k) \in [Requests -> Nat]
      <4>1. k[2] \in held[r] /\ k = KeyOf(r, k[2])
        BY <2>1, <2>3, <3>1, <3>2, <3>3
      <4> QED BY <4>1, <1>a, ChargeTypes DEF PassedBy
    <3>9. a <= f
      BY <3>7, <3>8, TotalUpdate
    <3>10. spent[k] \in Nat
      BY <3>2, <1>a DEF TypeOK
    <3> QED BY <3>3, <3>7, <3>9, <3>10, <2>1
  <2>4. spent' = [k \in Keys |-> IF k \in touched THEN spent[k] + a ELSE spent[k]]
    BY <1>1, <2>2 DEF Allow
  <2>5. B!Admit(q, a, d)
    BY <2>1, <2>3, <2>4 DEF B!Admit, B!IsOpen, B!Keys, Keys
  <2> QED BY <2>1, <2>5 DEF B!Next
<1>2. CASE Tick
  BY <1>2 DEF Tick, B!Next, B!Tick
<1>3. ASSUME NEW r \in Requests, Begin(r) PROVE UNCHANGED <<clock, spent>>
  BY <1>3 DEF Begin, CheckGates
<1>4. ASSUME NEW r \in Requests, Step(r), ~ Allow(r), ~ Begin(r)
      PROVE  UNCHANGED <<clock, spent>>
  BY <1>4 DEF Step, SampleClock, RefuseAmount, SkipPeriod, ChargePeriod,
              ChargeFails, UndoCharge, RollbackBudget, RolledBack, Reject, Crash
<1>5. CASE UpdateTenantLimits \/ MintSessionPolicy
  BY <1>5 DEF UpdateTenantLimits, MintSessionPolicy, InsertPolicy
<1>6. CASE UNCHANGED vars
  BY <1>6 DEF vars
<1> QED BY <1>1, <1>2, <1>3, <1>4, <1>5, <1>6 DEF Next, Done

\* The engine implements the atomic budget for every instance: all the Redis
\* traffic of a Check amounts to one indivisible admission, or to none.
THEOREM BudgetRefinement == Spec => ImplementsBudget
<1>1. Init => B!Init
  BY DEF Init, B!Init, B!Keys, Keys
<1>2. Init => SampleInv
  BY DEF Init, SampleInv
<1>3. Spec => []SampleInv
  BY <1>2, StepSample, TypeCorrect, PTL DEF Spec
<1> QED
  BY <1>1, <1>3, Accounting, StepRefines, PTL DEF Spec, ImplementsBudget, B!Spec
=============================================================================
