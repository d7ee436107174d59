--------------------------- MODULE TransfersProofs ---------------------------
(***************************************************************************)
(* Proofs about Transfers, for any sets of sends, prepares and submits,    *)
(* any amounts, cap, days and faults.                                      *)
(*                                                                         *)
(* The budget is charged before a rail is called, and the call may happen  *)
(* days later, so the cap on what the rails take needs an account of the   *)
(* admissions that are still to be paid: for every bucket,                 *)
(*     paid + the total of the admitted and unpaid sends <= spent.         *)
(* The total is a witness that assigns a sum to every set of sends, so     *)
(* that one request's step changes it pointwise and no induction is        *)
(* needed.                                                                 *)
(***************************************************************************)
EXTENDS Transfers, SequenceTheorems, TLAPS

\* The sets of sends.
Sets == SUBSET Sends

\* F gives every set of sends the sum of the values c of its members.
IsLedger(F, c) ==
    /\ F \in [Sets -> Nat]
    /\ F[{}] = 0
    /\ \A S \in Sets : \A t \in Sends \ S : F[S \union {t}] = F[S] + c[t]

\* What the sends that are admitted to bucket k and not yet sent will take from it.
Due(k) ==
    [t \in Sends |-> IF pc[t] \in {"admitted", "signed"} /\ BucketOf(t) = k
                       THEN Amount[t] ELSE 0]

\* What was paid and what is due have been charged to the bucket.
PaidInv ==
    \A k \in B!Keys : \E F : IsLedger(F, Due(k)) /\ paid[k] + F[Sends] <= spent[k]

\* The cap of the open buckets, as limits.Check keeps it.
SpentInv == \A k \in B!Keys : B!IsOpen(k) => spent[k] <= Cap

\* What a payment has done when it is at a place of its handler.
PaymentInv ==
    \A t \in Payments :
        /\ pc[t] \in {"admitted", "signed", "record"} => t \in Sends
        /\ pc[t] \in {"build", "insert"} => t \in Prepares
        /\ pc[t] \in {"signed", "insert"} => nonce[t] # 0
        /\ pc[t] = "record" => t \in taken
        /\ pc[t] \notin {"broadcast", "markBroadcast", "markFailed"}
        /\ row[t] # "absent" => pc[t] = "created"
        /\ pc[t] # "created" => answer[t] = NoTx
        /\ row[t] # "absent" /\ t \in Prepares => nonce[t] # 0
        /\ row[t] = "prepared" => t \in Prepares

\* A submit is about a prepared row; it marks it broadcast when the node took what was sent.
SubmitInv ==
    \A s \in Submits : pc[s] \in {"broadcast", "markBroadcast", "markFailed"} =>
        /\ target[s] \in Prepares
        /\ row[target[s]] # "absent"
        /\ pc[s] = "markBroadcast" => target[s] \in accepted

\* UNIQUE (tenant_id, idempotency_key): one row per key.
KeyInv ==
    \A t, u \in Payments : /\ row[t] # "absent"
                           /\ row[u] # "absent"
                           /\ IdemKey[t] = IdemKey[u]
                           /\ IdemKey[t] # NoKey
                           => t = u

\* An answer names a row: the request's own, or one with its key.
AnswerInv ==
    \A t \in Payments : answer[t] # NoTx =>
        /\ row[answer[t]] # "absent"
        /\ \/ answer[t] = t
           \/ IdemKey[answer[t]] = IdemKey[t] /\ IdemKey[t] # NoKey

\* What a row says has been accepted by a rail.
RowsBacked ==
    \A t \in Payments :
        /\ row[t] \in {"pending", "succeeded"} => t \in taken
        /\ row[t] = "broadcast" => t \in accepted

\* transaction.succeeded is published only for a send that a rail has taken and
\* whose row says so.
PublishedWasTaken ==
    \A t \in published : /\ t \in Sends
                          /\ t \in taken
                          /\ row[t] \in {"pending", "succeeded"}

IInv == /\ TypeOK
        /\ PaidInv
        /\ SpentInv
        /\ PaymentInv
        /\ SubmitInv
        /\ KeyInv
        /\ AnswerInv
        /\ RowsBacked
        /\ PublishedWasTaken
-----------------------------------------------------------------------------
(***************************************************************************)
(* Totals and the budget                                                   *)
(***************************************************************************)

\* The sets of sends that a ledger is about.
LEMMA SetsOfSends ==
  /\ {} \in Sets /\ Sends \in Sets
  /\ \A S \in Sets, t \in Sends : S \union {t} \in Sets /\ S \ {t} \in Sets
BY DEF Sets

\* Nothing is due: the ledger of all zeroes.
LEMMA LedgerOfZero ==
  ASSUME NEW c, \A t \in Sends : c[t] = 0
  PROVE  IsLedger([S \in Sets |-> 0], c)
BY SetsOfSends DEF IsLedger

\* A new value for one send changes the total by the difference, and no send has
\* more than the total.
LEMMA LedgerUpdate ==
  ASSUME NEW c \in [Sends -> Nat], NEW F, IsLedger(F, c),
         NEW t \in Sends, NEW d \in [Sends -> Nat], \A u \in Sends \ {t} : d[u] = c[u]
  PROVE  /\ F[Sends] \in Nat
         /\ c[t] <= F[Sends]
         /\ \E G : IsLedger(G, d) /\ G[Sends] = F[Sends] - c[t] + d[t]
<1>1. /\ F \in [Sets -> Nat] /\ c[t] \in Nat /\ F[{}] = 0
      /\ \A S \in Sets : \A u \in Sends \ S : F[S \union {u}] = F[S] + c[u]
  BY DEF IsLedger
<1>2. ASSUME NEW S \in Sets, t \in S
      PROVE  F[S] \in Nat /\ F[S \ {t}] \in Nat /\ F[S] = F[S \ {t}] + c[t]
  <2>1. S \ {t} \in Sets /\ t \notin S \ {t}
    BY SetsOfSends
  <2>2. (S \ {t}) \union {t} = S
    BY <1>2
  <2>3. F[(S \ {t}) \union {t}] = F[S \ {t}] + c[t]
    BY <1>1, <2>1
  <2> QED BY <1>1, <2>1, <2>2, <2>3
<1> DEFINE v == d[t]
           G == [S \in Sets |-> IF t \in S THEN F[S] - c[t] + v ELSE F[S]]
<1>3. G \in [Sets -> Nat]
  <2> SUFFICES ASSUME NEW S \in Sets
               PROVE  (IF t \in S THEN F[S] - c[t] + v ELSE F[S]) \in Nat
    OBVIOUS
  <2>1. CASE t \in S
    <3>1. F[S] \in Nat /\ F[S \ {t}] \in Nat /\ F[S] = F[S \ {t}] + c[t]
      BY <1>2, <2>1
    <3> QED BY <1>1, <2>1, <3>1
  <2>2. CASE t \notin S
    BY <1>1, <2>2
  <2> QED BY <2>1, <2>2
<1>4. G[{}] = 0
  BY <1>1, SetsOfSends
<1>5. ASSUME NEW S \in Sets, NEW u \in Sends \ S
      PROVE  G[S \union {u}] = G[S] + d[u]
  <2>1. S \union {u} \in Sets /\ F[S \union {u}] = F[S] + c[u]
    BY <1>1, SetsOfSends
  <2>2. F[S] \in Nat /\ c[u] \in Nat
    BY <1>1
  <2>3. CASE u = t
    BY <1>1, <2>1, <2>2, <2>3
  <2>4. CASE u # t
    BY <1>1, <2>1, <2>2, <2>4
  <2> QED BY <2>3, <2>4
<1>6. IsLedger(G, d)
  BY <1>3, <1>4, <1>5 DEF IsLedger
<1>7. G[Sends] = F[Sends] - c[t] + v
  BY SetsOfSends
<1>8. F[Sends] \in Nat /\ c[t] <= F[Sends]
  <2>1. F[Sends] \in Nat /\ F[Sends \ {t}] \in Nat /\ F[Sends] = F[Sends \ {t}] + c[t]
    BY <1>2, SetsOfSends
  <2> QED BY <1>1, <2>1
<1> HIDE DEF G
<1>9. \E H : IsLedger(H, d) /\ H[Sends] = F[Sends] - c[t] + v
  BY <1>6, <1>7
<1> QED BY <1>8, <1>9

\* The buckets: one a day.
LEMMA BudgetKeys ==
  /\ B!Keys = {Policy} \X {1} \X (0..LastDay)
  /\ \A k \in B!Keys : k[2] = 1 /\ k[3] \in 0..LastDay
  /\ \A d \in 0..LastDay : <<Policy, 1, d>> \in B!Keys
BY DEF B!Keys

\* A bucket is open from its day on backwards.
LEMMA OpenIs ==
  ASSUME TypeOK, NEW k \in B!Keys PROVE B!IsOpen(k) <=> k[3] >= clock
BY BudgetKeys DEF TypeOK, B!IsOpen

\* An admission charges one bucket, within the cap if that is open.
LEMMA AdmitCharges ==
  ASSUME TypeOK, NEW a, NEW d \in 0..clock, B!Admit(Policy, a, d)
  PROVE  LET k == <<Policy, 1, d>>
         IN  /\ k \in B!Keys
             /\ B!IsOpen(k) => spent[k] + a <= Cap
             /\ spent' = [j \in B!Keys |-> IF j = k THEN spent[j] + a ELSE spent[j]]
             /\ clock' = clock
<1> DEFINE k == <<Policy, 1, d>>
           touched == {<<Policy, p, [q \in {1} |-> [e \in 0..LastDay |-> e]][p][d]>> : p \in {1}}
<1>1. d \in 0..LastDay
  BY BudgetAssumption DEF TypeOK
<1>2. k \in B!Keys
  BY <1>1, BudgetKeys
<1>3. touched = {k}
  BY <1>1
<1>4. B!IsOpen(k) => spent[k] + a <= Cap
  BY <1>1, <1>3, BudgetAssumption DEF B!Admit
<1>5. spent' = [j \in B!Keys |-> IF j = k THEN spent[j] + a ELSE spent[j]]
  BY <1>3 DEF B!Admit
<1>6. clock' = clock
  BY DEF B!Admit
<1> QED BY <1>2, <1>4, <1>5, <1>6
-----------------------------------------------------------------------------
(***************************************************************************)
(* Type correctness                                                        *)
(***************************************************************************)

\* The places of a request.
Places == {"idle", "admitted", "signed", "record", "build", "insert",
           "broadcast", "markBroadcast", "markFailed"} \union Finished

\* A request goes from place to place.
LEMMA GoTypes ==
  ASSUME TypeOK, NEW x \in Payments \union Submits, NEW to \in Places, Go(x, to)
  PROVE  pc' \in [Payments \union Submits -> Places]
BY DEF TypeOK, Go, Places

\* Counting a failed call keeps the count a number.
LEMMA FaultType == ASSUME TypeOK, Fault \/ UNCHANGED faults PROVE faults' \in Nat
BY DEF TypeOK, Fault

\* The bucket of a payment is a bucket.
LEMMA BucketType == ASSUME TypeOK, NEW t \in Payments PROVE BucketOf(t) \in B!Keys
BY BudgetKeys DEF TypeOK, BucketOf

\* What a rail takes.
LEMMA TakenTypes ==
  ASSUME TypeOK, NEW t \in Payments, Taken(t)
  PROVE  taken' \subseteq Payments /\ paid' \in [B!Keys -> Nat]
<1>1. BucketOf(t) \in B!Keys /\ Amount[t] \in Nat
  BY BucketType, RequestAssumption
<1>2. paid[BucketOf(t)] + Amount[t] \in Nat
  BY <1>1 DEF TypeOK
<1> QED BY <1>1, <1>2 DEF TypeOK, Taken

\* What the node may hold under a nonce.
Pooled == Payments \union {NoTx}

\* What the node holds stays a sequence by nonce.
LEMMA NodeTypes ==
  ASSUME TypeOK, NEW t \in Payments, nonce[t] # 0,
         NodeAccepts(t) \/ UNCHANGED <<pool, taken, paid>>
  PROVE  /\ pool' \in [Wallets -> Seq(Pooled)]
         /\ taken' \subseteq Payments
         /\ paid' \in [B!Keys -> Nat]
<1>1. CASE UNCHANGED <<pool, taken, paid>>
  BY <1>1 DEF TypeOK, Pooled
<1>2. CASE NodeAccepts(t)
  <2> DEFINE w == WalletOf(t)
             q == pool[w]
  <2>1. w \in Wallets /\ q \in Seq(Pooled) /\ nonce[t] \in Nat
    BY DEF TypeOK, WalletOf, Wallets, Pooled
  <2>1a. t \in Pooled
    BY DEF Pooled
  <2>2. Append(q, t) \in Seq(Pooled)
    BY <2>1, <2>1a
  <2>3. nonce[t] <= Len(q) => [q EXCEPT ![nonce[t]] = t] \in Seq(Pooled)
    <3> SUFFICES ASSUME nonce[t] <= Len(q) PROVE [q EXCEPT ![nonce[t]] = t] \in Seq(Pooled)
      OBVIOUS
    <3>1. nonce[t] \in 1..Len(q)
      BY <2>1
    <3> QED BY <2>1, <2>1a, <3>1, ExceptSeq
  <2>4. \/ pool' = [pool EXCEPT ![w] = Append(q, t)]
        \/ nonce[t] <= Len(q) /\ pool' = [pool EXCEPT ![w] = [q EXCEPT ![nonce[t]] = t]]
    BY <1>2 DEF NodeAccepts
  <2>5. pool' \in [Wallets -> Seq(Pooled)]
    <3> HIDE DEF w, q
    <3> QED BY <2>1, <2>2, <2>3, <2>4 DEF TypeOK, Pooled
  <2> QED BY <1>2, <2>5, TakenTypes DEF NodeAccepts
<1> QED BY <1>1, <1>2

\* A foreign transaction takes the next nonce of the wallet, or none.
LEMMA ForeignTypes ==
  ASSUME TypeOK, NodeAcceptsForeign
  PROVE  /\ pool' \in [Wallets -> Seq(Pooled)]
         /\ taken' \subseteq Payments
         /\ paid' \in [B!Keys -> Nat]
<1>1. "user" \in Wallets /\ pool["user"] \in Seq(Pooled) /\ NoTx \in Pooled
  BY DEF TypeOK, Wallets, Pooled
<1>2. Append(pool["user"], NoTx) \in Seq(Pooled)
  BY <1>1
<1>3. ASSUME NEW n \in DOMAIN pool["user"]
      PROVE  [pool["user"] EXCEPT ![n] = NoTx] \in Seq(Pooled)
  BY <1>1
<1>4. taken' \subseteq Payments /\ paid' \in [B!Keys -> Nat]
  BY DEF TypeOK, NodeAcceptsForeign
<1>5. pool \in [Wallets -> Seq(Pooled)]
  BY DEF TypeOK, Pooled
<1>6. CASE UNCHANGED pool
  BY <1>4, <1>5, <1>6
<1>7. CASE pool' = [pool EXCEPT !["user"] = Append(@, NoTx)]
  BY <1>1, <1>2, <1>4, <1>5, <1>7
<1>8. ASSUME NEW n \in DOMAIN pool["user"], pool' = [pool EXCEPT !["user"][n] = NoTx]
      PROVE  pool' \in [Wallets -> Seq(Pooled)]
  BY <1>1, <1>3, <1>5, <1>8
<1> QED BY <1>4, <1>6, <1>7, <1>8 DEF NodeAcceptsForeign

\* The steps of SendTransaction keep the types.
LEMMA SendTypeOK == ASSUME IInv, NEW t \in Sends, Send(t) PROVE TypeOK'
<1>0. t \in Payments /\ t \in Payments \union Submits
  BY DEF Payments
<1>f. faults' \in Nat
  BY FaultType DEF IInv, Send, Admit, TurnAway, SendViaCrossMint, PendingNonce, SendViaTempo,
       RecordTransaction, Insert, RecordFails
<1>p. pc' \in [Payments \union Submits -> Places]
  BY <1>0, GoTypes DEF IInv, Places, Finished, Send, Admit, TurnAway, SendViaCrossMint,
       PendingNonce, SendViaTempo, RecordTransaction, Insert, RecordFails
<1> USE <1>0, <1>f, <1>p DEF IInv, TypeOK, Places
<1>1. ASSUME NEW d \in 0..clock, Admit(t, d) PROVE TypeOK'
  <2>1. d \in 0..LastDay
    BY BudgetAssumption
  <2>2. Amount[t] \in Nat
    BY RequestAssumption
  <2>3. clock' \in 0..LastDay /\ spent' \in [B!Keys -> Nat]
    <3> DEFINE k == <<Policy, 1, d>>
    <3>1. spent' = [j \in B!Keys |-> IF j = k THEN spent[j] + Amount[t] ELSE spent[j]]
          /\ clock' = clock
      BY <1>1, AdmitCharges DEF Admit
    <3> QED BY <2>2, <3>1
  <2> QED BY <1>1, <2>1, <2>3 DEF Admit
<1>2. CASE TurnAway(t)
  BY <1>2 DEF TurnAway
<1>3. CASE SendViaCrossMint(t)
  <2>1. taken' \subseteq Payments /\ paid' \in [B!Keys -> Nat]
    BY <1>3, TakenTypes DEF SendViaCrossMint
  <2> QED BY <1>3, <2>1 DEF SendViaCrossMint
<1>4. CASE PendingNonce(t)
  <2>1. Len(pool["platform"]) + 1 \in Nat
    BY DEF Wallets
  <2> QED BY <1>4, <2>1 DEF PendingNonce
<1>5. CASE SendViaTempo(t)
  <2>1. nonce[t] # 0
    BY <1>5 DEF SendViaTempo, PaymentInv
  <2>2. /\ pool' \in [Wallets -> Seq(Pooled)]
        /\ taken' \subseteq Payments
        /\ paid' \in [B!Keys -> Nat]
    BY <1>5, <2>1, NodeTypes DEF SendViaTempo, NodeRefuses, NodeUnheard
  <2> QED BY <1>5, <2>2 DEF SendViaTempo, Pooled
<1>6. ASSUME NEW status \in {"pending", "succeeded", "failed"}, RecordTransaction(t, status)
      PROVE  TypeOK'
  BY <1>6 DEF RecordTransaction, Insert
<1>7. CASE RecordFails(t)
  BY <1>7 DEF RecordFails
<1> HIDE DEF IInv, TypeOK
<1> QED BY <1>1, <1>2, <1>3, <1>4, <1>5, <1>6, <1>7 DEF Send

\* The steps of PrepareTransaction keep the types.
LEMMA PrepareTypeOK == ASSUME IInv, NEW t \in Prepares, Prepare(t) PROVE TypeOK'
<1>0. t \in Payments /\ t \in Payments \union Submits
  BY DEF Payments
<1>f. faults' \in Nat
  BY FaultType DEF IInv, Prepare, TurnAway, Lookup, BuildTransfer, InsertPrepared,
       PreparedExpires
<1>p. pc' \in [Payments \union Submits -> Places]
  <2>1. CASE pc' = pc
    BY <2>1 DEF IInv, TypeOK, Places
  <2>2. CASE \E to \in Places : Go(t, to)
    BY <1>0, <2>2, GoTypes DEF IInv
  <2> QED BY <2>1, <2>2 DEF Places, Finished, Prepare, TurnAway, Lookup, BuildTransfer,
                            InsertPrepared, PreparedExpires
<1> USE <1>0, <1>f, <1>p DEF IInv, TypeOK, Places
<1>1. CASE TurnAway(t)
  BY <1>1 DEF TurnAway
<1>2. CASE Lookup(t)
  BY <1>2 DEF Lookup, SameKey
<1>3. CASE BuildTransfer(t)
  <2>1. Len(pool["user"]) + 1 \in Nat
    BY DEF Wallets
  <2> QED BY <1>3, <2>1 DEF BuildTransfer
<1>4. CASE InsertPrepared(t)
  <2>1. row' \in [Payments -> {"absent", "prepared", "pending", "succeeded",
                               "broadcast", "failed"}]
    BY <1>4 DEF InsertPrepared
  <2>2. answer' \in [Payments -> Payments \union {NoTx}]
    <3>1. answer \in [Payments -> Payments \union {NoTx}]
      OBVIOUS
    <3>2. answer' = [answer EXCEPT ![t] = t] \/ answer' = answer
      BY <1>4 DEF InsertPrepared
    <3> HIDE DEF IInv, TypeOK, Places
    <3> QED BY <3>1, <3>2
  <2> QED BY <1>4, <2>1, <2>2 DEF InsertPrepared
<1>5. CASE PreparedExpires(t)
  BY <1>5 DEF PreparedExpires
<1> HIDE DEF IInv, TypeOK
<1> QED BY <1>1, <1>2, <1>3, <1>4, <1>5 DEF Prepare

\* The steps of SubmitTransaction keep the types.
LEMMA SubmitTypeOK == ASSUME IInv, NEW s \in Submits, Submit(s) PROVE TypeOK'
<1>0. s \in Payments \union Submits
  OBVIOUS
<1>f. faults' \in Nat
  BY FaultType DEF IInv, Submit, SubmitRead, BroadcastSignedTx, UpdateTransactionStatus
<1>p. pc' \in [Payments \union Submits -> Places]
  BY <1>0, GoTypes DEF IInv, Places, Finished, Submit, SubmitRead, BroadcastSignedTx,
       UpdateTransactionStatus
<1> USE <1>0, <1>f, <1>p DEF IInv, TypeOK, Places
<1>1. ASSUME NEW t \in Payments, SubmitRead(s, t) PROVE TypeOK'
  BY <1>1 DEF SubmitRead
<1>2. CASE BroadcastSignedTx(s)
  <2>1. target[s] \in Payments
    BY <1>2 DEF BroadcastSignedTx, SubmitInv, Payments
  <2>2. \A x \in Prepares : row[x] # "absent" => x \in Payments /\ nonce[x] # 0
    BY DEF PaymentInv, Payments
  <2>3. /\ pool' \in [Wallets -> Seq(Pooled)]
        /\ taken' \subseteq Payments
        /\ paid' \in [B!Keys -> Nat]
    <3>1. CASE NodeAcceptsForeign
      BY <3>1, ForeignTypes
    <3>2. ASSUME NEW x \in Prepares, row[x] # "absent",
                 NodeAccepts(x) \/ UNCHANGED <<pool, taken, paid>>
          PROVE  /\ pool' \in [Wallets -> Seq(Pooled)]
                 /\ taken' \subseteq Payments
                 /\ paid' \in [B!Keys -> Nat]
      BY <2>2, <3>2, NodeTypes
    <3>3. CASE UNCHANGED <<pool, taken, paid>>
      BY <3>3 DEF Pooled
    <3> QED BY <1>2, <3>1, <3>2, <3>3 DEF BroadcastSignedTx, NodeUnheard
  <2>4. accepted' \subseteq Payments
    BY <1>2, <2>1 DEF BroadcastSignedTx
  <2> QED BY <1>2, <2>3, <2>4 DEF BroadcastSignedTx, Pooled
<1>3. CASE UpdateTransactionStatus(s)
  <2>1. row' \in [Payments -> {"absent", "prepared", "pending", "succeeded",
                               "broadcast", "failed"}]
    BY <1>3 DEF UpdateTransactionStatus
  <2> QED BY <1>3, <2>1 DEF UpdateTransactionStatus
<1> HIDE DEF IInv, TypeOK
<1> QED BY <1>1, <1>2, <1>3 DEF Submit
-----------------------------------------------------------------------------
(***************************************************************************)
(* The budget                                                              *)
(***************************************************************************)

\* What is due are amounts.
LEMMA DueType == ASSUME NEW k PROVE Due(k) \in [Sends -> Nat]
BY RequestAssumption DEF Due, Payments

\* One send's step: what it adds to paid and due it must add to spent.
LEMMA PaidStep ==
  ASSUME TypeOK, TypeOK', PaidInv, NEW k \in B!Keys, NEW t \in Sends, NEW v \in Nat,
         Due(k)' = [Due(k) EXCEPT ![t] = v],
         paid'[k] + v + spent[k] <= paid[k] + Due(k)[t] + spent'[k]
  PROVE  \E F : IsLedger(F, Due(k)') /\ paid'[k] + F[Sends] <= spent'[k]
<1>1. PICK F : IsLedger(F, Due(k)) /\ paid[k] + F[Sends] <= spent[k]
  BY DEF PaidInv
<1> DEFINE c == Due(k)
           d == Due(k)'
<1>2. c \in [Sends -> Nat] /\ d \in [Sends -> Nat] /\ c[t] \in Nat /\ d[t] = v
      /\ \A u \in Sends \ {t} : d[u] = c[u]
  BY DueType
<1> HIDE DEF c, d
<1>a. F[Sends] \in Nat /\ \E G : IsLedger(G, d) /\ G[Sends] = F[Sends] - c[t] + d[t]
  BY <1>1, <1>2, LedgerUpdate DEF c
<1>3. PICK G : IsLedger(G, d) /\ G[Sends] = F[Sends] - c[t] + v
  BY <1>a, <1>2
<1>4. paid[k] \in Nat /\ paid'[k] \in Nat /\ spent[k] \in Nat /\ spent'[k] \in Nat
  BY DEF TypeOK
<1>5. paid'[k] + G[Sends] <= spent'[k]
  BY <1>1, <1>2, <1>a, <1>3, <1>4 DEF c
<1> QED BY <1>3, <1>5 DEF d

\* Steps that neither admit nor send leave the account as it is.
LEMMA PaidFrame ==
  ASSUME PaidInv, paid' = paid, spent' = spent, day' = day,
         \A t \in Sends : pc'[t] \in {"admitted", "signed"} <=> pc[t] \in {"admitted", "signed"}
  PROVE  PaidInv'
<1>1. \A k \in B!Keys : Due(k)' = Due(k)
  BY DEF Due, BucketOf
<1> QED BY <1>1 DEF PaidInv

\* A send that is admitted, sent or given up keeps the account.
LEMMA SendPaid == ASSUME IInv, NEW t \in Sends, Send(t) PROVE PaidInv'
<1>0. TypeOK /\ TypeOK' /\ PaidInv /\ t \in Payments /\ Amount[t] \in Nat
      /\ t \in Payments \union Submits
  BY SendTypeOK, RequestAssumption DEF IInv, Payments
<1>1. ASSUME NEW d \in 0..clock, Admit(t, d) PROVE PaidInv'
  <2> SUFFICES ASSUME NEW k \in B!Keys
               PROVE  \E F : IsLedger(F, Due(k)') /\ paid'[k] + F[Sends] <= spent'[k]
    BY DEF PaidInv
  <2> DEFINE j == <<Policy, 1, d>>
             v == IF k = j THEN Amount[t] ELSE 0
  <2>1. Due(k)[t] = 0
    BY <1>1 DEF Due, Admit
  <2>2. d \in 0..LastDay
    BY <1>0, BudgetAssumption DEF TypeOK
  <2>3. Due(k)' = [Due(k) EXCEPT ![t] = v]
    <3>1. BucketOf(t)' = j /\ pc'[t] = "admitted"
      BY <1>0, <1>1, <2>2 DEF Admit, Go, BucketOf, TypeOK
    <3>2. \A u \in Sends \ {t} : BucketOf(u)' = BucketOf(u) /\ pc'[u] = pc[u]
      BY <1>0, <1>1 DEF Admit, Go, BucketOf, TypeOK, Payments
    <3> QED BY <3>1, <3>2 DEF Due
  <2>4. paid' = paid /\ spent'[k] = spent[k] + v
    <3>1. spent' = [i \in B!Keys |-> IF i = j THEN spent[i] + Amount[t] ELSE spent[i]]
      BY <1>0, <1>1, AdmitCharges DEF Admit
    <3>2. spent[k] \in Nat
      BY <1>0 DEF TypeOK
    <3> QED BY <1>1, <3>1, <3>2 DEF Admit
  <2>5. v \in Nat /\ paid[k] \in Nat /\ spent[k] \in Nat
    BY <1>0 DEF TypeOK
  <2>6. paid'[k] + v + spent[k] <= paid[k] + Due(k)[t] + spent'[k]
    BY <2>1, <2>4, <2>5
  <2> HIDE DEF v
  <2> QED BY <1>0, <2>3, <2>5, <2>6, PaidStep
<1>2. ASSUME pc[t] \in {"admitted", "signed"},
             \E to \in {"record", "upstreamError"} : Go(t, to),
             Taken(t) \/ UNCHANGED <<taken, paid>>,
             day' = day, spent' = spent
      PROVE  PaidInv'
  <2> SUFFICES ASSUME NEW k \in B!Keys
               PROVE  \E F : IsLedger(F, Due(k)') /\ paid'[k] + F[Sends] <= spent'[k]
    BY DEF PaidInv
  <2>1. Due(k)' = [Due(k) EXCEPT ![t] = 0]
    <3>1. pc'[t] \in {"record", "upstreamError"}
      BY <1>0, <1>2 DEF Go, TypeOK
    <3>2. \A u \in Sends \ {t} : BucketOf(u)' = BucketOf(u) /\ pc'[u] = pc[u]
      BY <1>0, <1>2 DEF Go, BucketOf, TypeOK, Payments
    <3> QED BY <3>1, <3>2 DEF Due
  <2>2. Due(k)[t] = IF BucketOf(t) = k THEN Amount[t] ELSE 0
    BY <1>2 DEF Due
  <2>3. paid[k] \in Nat /\ spent[k] \in Nat
    BY <1>0 DEF TypeOK
  <2>4. paid'[k] <= paid[k] + Due(k)[t] /\ Due(k)[t] \in Nat /\ paid'[k] \in Nat
    BY <1>0, <1>2, <2>2, <2>3 DEF Taken, TypeOK
  <2>5. paid'[k] + 0 + spent[k] <= paid[k] + Due(k)[t] + spent'[k]
    BY <1>2, <2>3, <2>4
  <2> QED BY <1>0, <2>1, <2>5, PaidStep
<1>3. ASSUME paid' = paid, spent' = spent, day' = day, NEW to \in Places, Go(t, to),
             pc[t] \in {"admitted", "signed"} <=> to \in {"admitted", "signed"}
      PROVE  PaidInv'
  <2>1. \A u \in Sends : pc'[u] \in {"admitted", "signed"} <=> pc[u] \in {"admitted", "signed"}
    BY <1>0, <1>3 DEF Go, TypeOK, Payments
  <2> QED BY <1>0, <1>3, <2>1, PaidFrame
<1>4. CASE TurnAway(t)
  BY <1>3, <1>4 DEF TurnAway, Places, Finished
<1>5. CASE SendViaCrossMint(t)
  BY <1>2, <1>5 DEF SendViaCrossMint
<1>6. CASE PendingNonce(t)
  BY <1>2, <1>3, <1>6 DEF PendingNonce, Places
<1>7. CASE SendViaTempo(t)
  BY <1>2, <1>7 DEF SendViaTempo, NodeAccepts, NodeRefuses, NodeUnheard
<1>8. ASSUME NEW status \in {"pending", "succeeded", "failed"}, RecordTransaction(t, status)
      PROVE  PaidInv'
  BY <1>3, <1>8 DEF RecordTransaction, Insert, Places, Finished
<1>9. CASE RecordFails(t)
  BY <1>3, <1>9 DEF RecordFails, Places, Finished
<1> QED BY <1>1, <1>4, <1>5, <1>6, <1>7, <1>8, <1>9 DEF Send

\* A prepare or a submit is charged to no budget.
LEMMA UserPaid ==
  ASSUME IInv, \/ \E t \in Prepares : Prepare(t)
               \/ \E s \in Submits : Submit(s)
  PROVE  PaidInv'
<1>1. paid' = paid /\ spent' = spent /\ day' = day
  <2>1. ASSUME NEW t \in Prepares, Prepare(t) PROVE paid' = paid /\ spent' = spent /\ day' = day
    BY <2>1 DEF Prepare, TurnAway, Lookup, BuildTransfer, InsertPrepared, PreparedExpires
  <2>2. ASSUME NEW s \in Submits, Submit(s) PROVE paid' = paid /\ spent' = spent /\ day' = day
    <3>1. \A x \in Prepares : x \notin Sends
      BY RequestAssumption
    <3>2. ASSUME NEW x \in Prepares, NodeAccepts(x) \/ NodeUnheard(x) PROVE paid' = paid
      BY <3>1, <3>2 DEF NodeAccepts, NodeUnheard, Taken
    <3> QED BY <2>2, <3>2 DEF Submit, SubmitRead, BroadcastSignedTx, UpdateTransactionStatus,
                              NodeAcceptsForeign
  <2> QED BY <2>1, <2>2
<1>2. \A u \in Sends : pc'[u] = pc[u]
  <2>1. ASSUME NEW t \in Prepares, Prepare(t), NEW u \in Sends PROVE pc'[u] = pc[u]
    <3>1. u # t
      BY RequestAssumption
    <3> QED BY <2>1, <3>1 DEF Prepare, TurnAway, Lookup, BuildTransfer, InsertPrepared,
                              PreparedExpires, Go, IInv, TypeOK, Payments
  <2>2. ASSUME NEW s \in Submits, Submit(s), NEW u \in Sends PROVE pc'[u] = pc[u]
    <3>1. u # s
      BY RequestAssumption DEF Payments
    <3> QED BY <2>2, <3>1 DEF Submit, SubmitRead, BroadcastSignedTx, UpdateTransactionStatus,
                              Go, IInv, TypeOK, Payments
  <2> QED BY <2>1, <2>2
<1> QED BY <1>1, <1>2, PaidFrame DEF IInv

\* The cap of the open buckets is kept by every admission, and no other step
\* charges a bucket; a day that passes only closes buckets.
LEMMA SpentStep == ASSUME IInv, Next, TypeOK' PROVE SpentInv'
<1> SUFFICES ASSUME NEW k \in B!Keys, B!IsOpen(k)' PROVE spent'[k] <= Cap
  BY DEF SpentInv
<1>0. k[3] >= clock'
  <2>1. B!IsOpen(k)' <=> k[3] >= clock'
    BY BudgetKeys DEF TypeOK, B!IsOpen
  <2> QED BY <2>1
<1>1. B!IsOpen(k) <=> k[3] >= clock
  BY OpenIs DEF IInv
<1>2. ASSUME NEW t \in Sends, NEW d \in 0..clock, Admit(t, d) PROVE spent'[k] <= Cap
  <2> DEFINE j == <<Policy, 1, d>>
  <2>1. /\ B!IsOpen(j) => spent[j] + Amount[t] <= Cap
        /\ spent' = [i \in B!Keys |-> IF i = j THEN spent[i] + Amount[t] ELSE spent[i]]
        /\ clock' = clock
    BY <1>2, AdmitCharges DEF Admit, IInv
  <2>2. B!IsOpen(k)
    BY <1>0, <1>1, <2>1
  <2>3. CASE k = j
    BY <2>1, <2>2, <2>3
  <2>4. CASE k # j
    BY <2>1, <2>2, <2>4 DEF IInv, SpentInv
  <2> QED BY <2>3, <2>4
<1>3. CASE spent' = spent /\ (clock' = clock \/ clock' = clock + 1)
  <2>1. k[3] >= clock
    BY <1>0, <1>3, BudgetKeys, BudgetAssumption DEF IInv, TypeOK
  <2> QED BY <1>1, <1>3, <2>1 DEF IInv, SpentInv
<1>4. CASE Tick
  BY <1>3, <1>4 DEF Tick, B!Tick
<1>5. ASSUME NEW t \in Sends, Send(t) PROVE spent'[k] <= Cap
  <2>1. CASE \E d \in 0..clock : Admit(t, d)
    BY <1>2, <2>1
  <2>2. CASE ~ \E d \in 0..clock : Admit(t, d)
    BY <1>3, <1>5, <2>2 DEF Send, TurnAway, SendViaCrossMint, PendingNonce, SendViaTempo,
         RecordTransaction, Insert, RecordFails
  <2> QED BY <2>1, <2>2
<1>6. ASSUME NEW t \in Prepares, Prepare(t) PROVE spent'[k] <= Cap
  BY <1>3, <1>6 DEF Prepare, TurnAway, Lookup, BuildTransfer, InsertPrepared, PreparedExpires
<1>7. ASSUME NEW s \in Submits, Submit(s) PROVE spent'[k] <= Cap
  BY <1>3, <1>7 DEF Submit, SubmitRead, BroadcastSignedTx, UpdateTransactionStatus
<1>8. CASE Done
  BY <1>3, <1>8 DEF Done, vars
<1> QED BY <1>4, <1>5, <1>6, <1>7, <1>8 DEF Next
-----------------------------------------------------------------------------
(***************************************************************************)
(* The rows                                                                *)
(***************************************************************************)

\* The invariants about the rows and the answers.
RowsInv == /\ PaymentInv
           /\ SubmitInv
           /\ KeyInv
           /\ AnswerInv
           /\ RowsBacked
           /\ PublishedWasTaken

\* The two kinds of payments, and the requests that are no payments.
LEMMA Disjoint ==
  /\ \A t \in Sends : t \in Payments /\ t \notin Prepares /\ t \notin Submits /\ t # NoTx
  /\ \A t \in Prepares : t \in Payments /\ t \notin Sends /\ t \notin Submits /\ t # NoTx
  /\ \A t \in Payments : t \in Sends \/ t \in Prepares
  /\ \A s \in Submits : s \notin Payments
BY RequestAssumption DEF Payments

\* What a step that inserts no row does to a payment t keeps what is known of rows.
LEMMA MoveOnly ==
  ASSUME IInv, NEW t \in Payments, NEW to \in Places, Go(t, to),
         UNCHANGED <<row, answer, accepted, target, published>>,
         taken' \in {taken, taken \union {t}},
         \A u \in Payments \ {t} : nonce'[u] = nonce[u],
         pc[t] # "created",
         to \notin {"broadcast", "markBroadcast", "markFailed"},
         to \in {"admitted", "signed", "record"} => t \in Sends,
         to \in {"build", "insert"} => t \in Prepares,
         to \in {"signed", "insert"} => nonce'[t] # 0,
         to = "record" => t \in taken'
  PROVE  RowsInv'
<1>0. pc \in [Payments \union Submits -> Places] /\ pc'[t] = to
      /\ \A x \in Payments \union Submits : x # t => pc'[x] = pc[x]
  BY DEF IInv, TypeOK, Places, Go
<1>1. row[t] = "absent" /\ answer[t] = NoTx
  BY DEF IInv, PaymentInv
<1>2. PaymentInv'
  <2> SUFFICES ASSUME NEW u \in Payments
               PROVE  /\ pc'[u] \in {"admitted", "signed", "record"} => u \in Sends
                      /\ pc'[u] \in {"build", "insert"} => u \in Prepares
                      /\ pc'[u] \in {"signed", "insert"} => nonce'[u] # 0
                      /\ pc'[u] = "record" => u \in taken'
                      /\ pc'[u] \notin {"broadcast", "markBroadcast", "markFailed"}
                      /\ row'[u] # "absent" => pc'[u] = "created"
                      /\ pc'[u] # "created" => answer'[u] = NoTx
                      /\ row'[u] # "absent" /\ u \in Prepares => nonce'[u] # 0
                      /\ row'[u] = "prepared" => u \in Prepares
    BY DEF PaymentInv
  <2>1. CASE u = t
    BY <1>0, <1>1, <2>1
  <2>2. CASE u # t
    BY <1>0, <2>2 DEF IInv, PaymentInv
  <2> QED BY <2>1, <2>2
<1>3. SubmitInv'
  BY <1>0, Disjoint DEF IInv, SubmitInv
<1>4. KeyInv' /\ AnswerInv' /\ RowsBacked' /\ PublishedWasTaken'
  BY DEF IInv, KeyInv, AnswerInv, RowsBacked, PublishedWasTaken
<1> QED BY <1>2, <1>3, <1>4 DEF RowsInv

\* A payment inserts its row when the index lets it in.
LEMMA RowInserted ==
  ASSUME IInv, NEW t \in Payments, NEW status \in {"prepared", "pending", "succeeded", "failed"},
         Go(t, "created"), pc[t] # "created", SameKey(t) = {},
         row' = [row EXCEPT ![t] = status],
         answer' = [answer EXCEPT ![t] = t],
         \/ published' = published
         \/ published' = published \union {t} /\ status \in {"pending", "succeeded"},
         UNCHANGED <<accepted, target, taken, nonce>>,
         status = "prepared" => t \in Prepares,
         status # "prepared" => t \in Sends /\ t \in taken,
         t \in Prepares => nonce[t] # 0
  PROVE  RowsInv'
<1>0. pc'[t] = "created" /\ \A x \in Payments \union Submits : x # t => pc'[x] = pc[x]
  BY DEF IInv, TypeOK, Go
<1>1. row[t] = "absent" /\ answer[t] = NoTx
  BY DEF IInv, PaymentInv
<1>2. /\ row'[t] = status /\ \A u \in Payments \ {t} : row'[u] = row[u]
      /\ answer'[t] = t /\ \A u \in Payments \ {t} : answer'[u] = answer[u]
  BY DEF IInv, TypeOK
<1>3. PaymentInv'
  BY <1>0, <1>2 DEF IInv, PaymentInv
<1>4. SubmitInv'
  <2> SUFFICES ASSUME NEW s \in Submits,
                      pc'[s] \in {"broadcast", "markBroadcast", "markFailed"}
               PROVE  /\ target[s] \in Prepares
                      /\ row'[target[s]] # "absent"
                      /\ pc'[s] = "markBroadcast" => target[s] \in accepted
    BY DEF SubmitInv
  <2>1. pc'[s] = pc[s]
    BY <1>0, Disjoint
  <2> QED BY <1>1, <1>2, <2>1, Disjoint DEF IInv, SubmitInv
<1>5. KeyInv'
  <2>1. \A u \in Payments : row[u] # "absent" /\ IdemKey[t] # NoKey => IdemKey[u] # IdemKey[t]
    BY DEF SameKey
  <2> QED BY <1>2, <2>1 DEF IInv, KeyInv
<1>6. AnswerInv'
  <2> SUFFICES ASSUME NEW u \in Payments, answer'[u] # NoTx
               PROVE  /\ row'[answer'[u]] # "absent"
                      /\ \/ answer'[u] = u
                         \/ IdemKey[answer'[u]] = IdemKey[u] /\ IdemKey[u] # NoKey
    BY DEF AnswerInv
  <2>1. CASE u = t
    BY <1>2, <2>1
  <2>2. CASE u # t
    BY <1>1, <1>2, <2>2 DEF IInv, TypeOK, AnswerInv
  <2> QED BY <2>1, <2>2
<1>7. RowsBacked'
  BY <1>2 DEF IInv, RowsBacked
<1>8. PublishedWasTaken'
  <2> SUFFICES ASSUME NEW u \in published'
               PROVE  u \in Sends /\ u \in taken /\ row'[u] \in {"pending", "succeeded"}
    BY DEF PublishedWasTaken
  <2>1. CASE u = t
    <3>1. u \notin published
      BY <1>1, <2>1 DEF IInv, PublishedWasTaken
    <3> QED BY <1>2, <2>1, <3>1
  <2>2. CASE u # t
    BY <1>2, <2>2 DEF IInv, TypeOK, PublishedWasTaken
  <2> QED BY <2>1, <2>2
<1> QED BY <1>3, <1>4, <1>5, <1>6, <1>7, <1>8 DEF RowsInv

\* The steps of SendTransaction keep what is known of rows and answers.
LEMMA SendRows == ASSUME IInv, NEW t \in Sends, Send(t) PROVE RowsInv'
<1>0. t \in Payments /\ t \notin Prepares /\ taken \union {t} # {}
  BY Disjoint
<1> USE <1>0 DEF Places, Finished
<1>1. ASSUME NEW d \in 0..clock, Admit(t, d) PROVE RowsInv'
  BY <1>1, MoveOnly DEF Admit
<1>2. CASE TurnAway(t)
  BY <1>2, MoveOnly DEF TurnAway
<1>3. CASE SendViaCrossMint(t)
  <2>1. Taken(t) => t \in taken' /\ taken' = taken \union {t}
    BY DEF Taken
  <2> QED BY <1>3, <2>1, MoveOnly DEF SendViaCrossMint
<1>4. CASE PendingNonce(t)
  <2>1. /\ Len(pool["platform"]) + 1 # 0
        /\ \A n : nonce' = [nonce EXCEPT ![t] = n] =>
              nonce'[t] = n /\ \A u \in Payments \ {t} : nonce'[u] = nonce[u]
    BY DEF IInv, TypeOK, Wallets
  <2> QED BY <1>4, <2>1, MoveOnly DEF PendingNonce
<1>5. CASE SendViaTempo(t)
  <2>1. NodeAccepts(t) => t \in taken' /\ taken' = taken \union {t}
    BY DEF NodeAccepts, Taken
  <2> QED BY <1>5, <2>1, MoveOnly DEF SendViaTempo, NodeRefuses, NodeUnheard
<1>6. ASSUME NEW status \in {"pending", "succeeded", "failed"}, RecordTransaction(t, status)
      PROVE  RowsInv'
  <2>1. t \in taken
    BY <1>6 DEF RecordTransaction, Insert, IInv, PaymentInv
  <2>2. \/ published' = published
        \/ published' = published \union {t} /\ status \in {"pending", "succeeded"}
    BY <1>6 DEF RecordTransaction, Insert
  <2>3. /\ Go(t, "created") /\ pc[t] # "created" /\ SameKey(t) = {}
        /\ row' = [row EXCEPT ![t] = status] /\ answer' = [answer EXCEPT ![t] = t]
        /\ UNCHANGED <<accepted, target, taken, nonce>>
    BY <1>6 DEF RecordTransaction, Insert
  <2> HIDE DEF Places, Finished
  <2> QED BY <2>1, <2>2, <2>3, RowInserted
<1>7. CASE RecordFails(t)
  BY <1>7, MoveOnly DEF RecordFails
<1> HIDE DEF Places, Finished
<1> QED BY <1>1, <1>2, <1>3, <1>4, <1>5, <1>6, <1>7 DEF Send

\* The steps of PrepareTransaction keep what is known of rows and answers.
LEMMA PrepareRows == ASSUME IInv, NEW t \in Prepares, Prepare(t) PROVE RowsInv'
<1>0. t \in Payments /\ t \notin Sends
  BY Disjoint
<1> USE <1>0 DEF Places, Finished
<1>1. CASE TurnAway(t)
  BY <1>1, MoveOnly DEF TurnAway
<1>2. CASE Lookup(t)
  <2>1. CASE UNCHANGED answer
    BY <1>2, <2>1, MoveOnly DEF Lookup
  <2>2. ASSUME NEW u \in SameKey(t), answer' = [answer EXCEPT ![t] = u], Go(t, "created")
        PROVE  RowsInv'
    <3>1. /\ pc'[t] = "created" /\ \A x \in Payments \union Submits : x # t => pc'[x] = pc[x]
          /\ answer'[t] = u /\ \A v \in Payments \ {t} : answer'[v] = answer[v]
      BY <2>2 DEF Go, IInv, TypeOK
    <3>2. row[u] # "absent" /\ IdemKey[u] = IdemKey[t] /\ IdemKey[t] # NoKey
      BY DEF SameKey
    <3>3. UNCHANGED <<row, taken, nonce, accepted, target, published>>
      BY <1>2 DEF Lookup
    <3>4. PaymentInv'
      BY <3>1, <3>3 DEF IInv, PaymentInv
    <3>5. SubmitInv'
      BY <3>1, <3>3, Disjoint DEF IInv, SubmitInv
    <3>6. KeyInv' /\ RowsBacked' /\ PublishedWasTaken'
      BY <3>3 DEF IInv, KeyInv, RowsBacked, PublishedWasTaken
    <3>7. AnswerInv'
      BY <3>1, <3>2, <3>3 DEF IInv, AnswerInv
    <3> QED BY <3>4, <3>5, <3>6, <3>7 DEF RowsInv
  <2> QED BY <1>2, <2>1, <2>2 DEF Lookup
<1>3. CASE BuildTransfer(t)
  <2>1. /\ Len(pool["user"]) + 1 # 0
        /\ \A n : nonce' = [nonce EXCEPT ![t] = n] =>
              nonce'[t] = n /\ \A u \in Payments \ {t} : nonce'[u] = nonce[u]
    BY DEF IInv, TypeOK, Wallets
  <2> QED BY <1>3, <2>1, MoveOnly DEF BuildTransfer
<1>4. CASE InsertPrepared(t)
  <2>1. CASE UNCHANGED <<row, answer>>
    BY <1>4, <2>1, MoveOnly DEF InsertPrepared
  <2>2. CASE SameKey(t) = {} /\ row' = [row EXCEPT ![t] = "prepared"]
             /\ answer' = [answer EXCEPT ![t] = t] /\ Go(t, "created")
    <3>1. nonce[t] # 0
      BY <1>4 DEF InsertPrepared, IInv, PaymentInv
    <3>2. pc[t] # "created" /\ UNCHANGED <<accepted, target, taken, nonce, published>>
      BY <1>4 DEF InsertPrepared
    <3> HIDE DEF Places, Finished
    <3> QED BY <2>2, <3>1, <3>2, RowInserted
  <2> QED BY <1>4, <2>1, <2>2 DEF InsertPrepared
<1>5. CASE PreparedExpires(t)
  BY <1>5 DEF PreparedExpires, IInv, RowsInv, PaymentInv, SubmitInv, KeyInv, AnswerInv,
       RowsBacked, PublishedWasTaken
<1> HIDE DEF Places, Finished
<1> QED BY <1>1, <1>2, <1>3, <1>4, <1>5 DEF Prepare

\* A submit changes the status of the row it is about, and inserts none.
LEMMA SubmitRows == ASSUME IInv, NEW s \in Submits, Submit(s) PROVE RowsInv'
<1>0. s \notin Payments /\ s \in Payments \union Submits
  BY Disjoint
<1>1. UNCHANGED <<nonce, answer, published>> /\ \A x \in Payments \union Submits :
        x # s => pc'[x] = pc[x]
  BY <1>0 DEF Submit, SubmitRead, BroadcastSignedTx, UpdateTransactionStatus, Go, IInv, TypeOK
<1>2. \A x \in Payments : pc'[x] = pc[x]
  BY <1>0, <1>1
<1>3. taken \subseteq taken' /\ accepted \subseteq accepted'
  BY DEF Submit, SubmitRead, BroadcastSignedTx, UpdateTransactionStatus, NodeAccepts,
       NodeAcceptsForeign, NodeUnheard, Taken
<1>4. CASE UpdateTransactionStatus(s) /\ row' # row
  <2> DEFINE u == target[s]
  <2>1. /\ u \in Prepares /\ u \in Payments /\ row[u] # "absent" /\ u \notin Sends
        /\ pc[s] = "markBroadcast" => u \in accepted
    BY <1>4, Disjoint DEF UpdateTransactionStatus, IInv, SubmitInv
  <2>2. /\ row'[u] \in {"broadcast", "failed"}
        /\ row'[u] = "broadcast" => u \in accepted
        /\ \A v \in Payments \ {u} : row'[v] = row[v]
        /\ UNCHANGED <<taken, accepted, target>>
        /\ pc'[s] \in {"created", "upstreamError"}
    BY <1>0, <1>4, <2>1 DEF UpdateTransactionStatus, Go, IInv, TypeOK
  <2>3. \A v \in Payments : row'[v] # "absent" <=> row[v] # "absent"
    BY <2>1, <2>2
  <2> HIDE DEF u
  <2>4. PaymentInv'
    BY <1>1, <1>2, <2>1, <2>2, <2>3 DEF IInv, PaymentInv
  <2>5. SubmitInv'
    BY <1>1, <2>2, <2>3, Disjoint DEF IInv, SubmitInv
  <2>6. KeyInv'
    BY <2>3 DEF IInv, KeyInv
  <2>7. AnswerInv'
    BY <1>1, <2>3 DEF IInv, TypeOK, AnswerInv
  <2>8. RowsBacked'
    BY <2>1, <2>2 DEF IInv, RowsBacked
  <2>9. PublishedWasTaken'
    <3>1. u \notin published
      BY <2>1, Disjoint DEF IInv, TypeOK, PublishedWasTaken
    <3> QED BY <1>1, <2>2, <3>1 DEF IInv, TypeOK, PublishedWasTaken
  <2> QED BY <2>4, <2>5, <2>6, <2>7, <2>8, <2>9 DEF RowsInv
<1>5. CASE ~ (UpdateTransactionStatus(s) /\ row' # row)
  <2>1. row' = row
    BY <1>5 DEF Submit, SubmitRead, BroadcastSignedTx, UpdateTransactionStatus
  <2>2. PaymentInv'
    BY <1>1, <1>2, <1>3, <2>1 DEF IInv, PaymentInv
  <2>3. KeyInv' /\ AnswerInv' /\ RowsBacked' /\ PublishedWasTaken'
    BY <1>1, <1>3, <2>1 DEF IInv, KeyInv, AnswerInv, RowsBacked, PublishedWasTaken
  <2>4. SubmitInv'
    <3>1. \A x \in Submits \ {s} : target'[x] = target[x]
      BY DEF Submit, SubmitRead, BroadcastSignedTx, UpdateTransactionStatus, IInv, TypeOK
    <3>2. pc'[s] \in {"broadcast", "markBroadcast", "markFailed"} =>
            /\ target'[s] \in Prepares
            /\ row[target'[s]] # "absent"
            /\ pc'[s] = "markBroadcast" => target'[s] \in accepted'
      <4>1. ASSUME NEW t \in Payments, SubmitRead(s, t)
            PROVE  /\ target'[s] = t
                   /\ pc'[s] \in {"broadcast", "refused"}
                   /\ pc'[s] = "broadcast" => row[t] = "prepared"
        BY <1>0, <4>1 DEF SubmitRead, Go, IInv, TypeOK
      <4>2. ASSUME NEW t \in Payments, SubmitRead(s, t), pc'[s] = "broadcast"
            PROVE  t \in Prepares
        BY <4>1, <4>2 DEF IInv, PaymentInv
      <4>3. CASE BroadcastSignedTx(s)
        <5>1. target[s] \in Prepares /\ row[target[s]] # "absent" /\ target' = target
          BY <4>3 DEF BroadcastSignedTx, IInv, SubmitInv
        <5>2. pc'[s] = "markBroadcast" => target[s] \in accepted'
          BY <1>0, <4>3 DEF BroadcastSignedTx, Go, IInv, TypeOK
        <5> QED BY <5>1, <5>2
      <4>4. CASE UpdateTransactionStatus(s)
        BY <1>0, <4>4 DEF UpdateTransactionStatus, Go, IInv, TypeOK
      <4> QED BY <4>1, <4>2, <4>3, <4>4 DEF Submit
    <3>3. \A x \in Submits \ {s} : pc'[x] = pc[x]
      BY <1>1
    <3> QED BY <1>3, <2>1, <3>1, <3>2, <3>3 DEF IInv, SubmitInv
  <2> QED BY <2>2, <2>3, <2>4 DEF RowsInv
<1> QED BY <1>4, <1>5
-----------------------------------------------------------------------------
\* The initial state: nothing is admitted, paid or recorded.
LEMMA InitIInv == Init => IInv
<1> SUFFICES ASSUME Init PROVE IInv
  OBVIOUS
<1>0. clock = 0 /\ spent = [k \in B!Keys |-> 0]
  BY DEF Init, B!Init
<1>1. TypeOK
  BY <1>0, BudgetAssumption DEF Init, TypeOK, Finished
<1>2. PaidInv
  <2> SUFFICES ASSUME NEW k \in B!Keys
               PROVE  \E F : IsLedger(F, Due(k)) /\ paid[k] + F[Sends] <= spent[k]
    BY DEF PaidInv
  <2> DEFINE F == [S \in Sets |-> 0]
  <2>1. \A t \in Sends : Due(k)[t] = 0
    BY DEF Init, Due, Payments
  <2>2. IsLedger(F, Due(k))
    BY <2>1, LedgerOfZero
  <2>3. paid[k] + F[Sends] <= spent[k]
    BY <1>0, SetsOfSends DEF Init
  <2> HIDE DEF F
  <2> QED BY <2>2, <2>3
<1>3. SpentInv
  BY <1>0, BudgetAssumption DEF SpentInv
<1>4. PaymentInv /\ SubmitInv /\ KeyInv /\ AnswerInv /\ RowsBacked /\ PublishedWasTaken
  BY DEF Init, PaymentInv, SubmitInv, KeyInv, AnswerInv, RowsBacked, PublishedWasTaken
<1> QED BY <1>1, <1>2, <1>3, <1>4 DEF IInv

\* The invariant is inductive.
LEMMA NextIInv == IInv /\ [Next]_vars => IInv'
<1> SUFFICES ASSUME IInv, [Next]_vars PROVE IInv'
  OBVIOUS
<1>1. ASSUME NEW t \in Sends, Send(t) PROVE IInv'
  <2>1. Next
    BY <1>1 DEF Next
  <2> QED BY <1>1, <2>1, SendTypeOK, SendPaid, SendRows, SpentStep DEF IInv, RowsInv
<1>2. ASSUME NEW t \in Prepares, Prepare(t) PROVE IInv'
  <2>1. Next
    BY <1>2 DEF Next
  <2> QED BY <1>2, <2>1, PrepareTypeOK, UserPaid, PrepareRows, SpentStep DEF IInv, RowsInv
<1>3. ASSUME NEW s \in Submits, Submit(s) PROVE IInv'
  <2>1. Next
    BY <1>3 DEF Next
  <2> QED BY <1>3, <2>1, SubmitTypeOK, UserPaid, SubmitRows, SpentStep DEF IInv, RowsInv
<1>4. ASSUME UNCHANGED <<spent, pc, day, nonce, pool, taken, row, stale, answer,
                         accepted, target, published, paid, faults>>,
             clock' \in 0..LastDay, clock' >= clock
      PROVE  IInv'
  <2>1. TypeOK'
    BY <1>4 DEF IInv, TypeOK
  <2>2. PaidInv'
    BY <1>4, PaidFrame DEF IInv
  <2>3. SpentInv'
    <3> SUFFICES ASSUME NEW k \in B!Keys, B!IsOpen(k)' PROVE spent[k] <= Cap
      BY <1>4 DEF SpentInv
    <3>1. k[3] >= clock'
      BY <2>1, BudgetKeys DEF TypeOK, B!IsOpen
    <3>2. k[3] >= clock
      BY <1>4, <3>1, BudgetKeys, BudgetAssumption DEF IInv, TypeOK
    <3> QED BY <3>2, OpenIs DEF IInv, SpentInv
  <2>4. /\ PaymentInv' /\ SubmitInv' /\ KeyInv' /\ AnswerInv'
        /\ RowsBacked' /\ PublishedWasTaken'
    BY <1>4 DEF IInv, PaymentInv, SubmitInv, KeyInv, AnswerInv, RowsBacked,
                PublishedWasTaken
  <2> QED BY <2>1, <2>2, <2>3, <2>4 DEF IInv
<1>5. CASE Tick
  <2>1. clock' \in 0..LastDay /\ clock' >= clock
    BY <1>5, BudgetAssumption DEF Tick, B!Tick, IInv, TypeOK
  <2> QED BY <1>4, <1>5, <2>1 DEF Tick, B!Tick
<1>6. CASE UNCHANGED vars
  <2>1. clock' \in 0..LastDay /\ clock' >= clock
    BY <1>6, BudgetAssumption DEF vars, IInv, TypeOK
  <2> QED BY <1>4, <1>6, <2>1 DEF vars
<1> QED BY <1>1, <1>2, <1>3, <1>5, <1>6 DEF Next, Done
-----------------------------------------------------------------------------
\* The inductive invariant of the transfers holds in every reachable state.
THEOREM Accounted == Spec => []IInv
BY InitIInv, NextIInv, PTL DEF Spec

\* Every variable of Transfers keeps its type.
THEOREM TypeCorrect == Spec => []TypeOK
<1>1. IInv => TypeOK
  BY DEF IInv
<1> QED BY <1>1, Accounted, PTL

\* SendTransaction: what the rails take from an open day never exceeds the cap, for
\* any number of payments, whatever fails and however late a rail is called.
THEOREM PaymentsCapped == Spec => []PaidWithinCap
<1>1. IInv => PaidWithinCap
  <2> SUFFICES ASSUME IInv, NEW k \in B!Keys, B!IsOpen(k) PROVE paid[k] <= Cap
    BY DEF PaidWithinCap
  <2>1. PICK F : IsLedger(F, Due(k)) /\ paid[k] + F[Sends] <= spent[k]
    BY DEF IInv, PaidInv
  <2>2. F[Sends] \in Nat
    BY <2>1, SetsOfSends DEF IsLedger
  <2>3. spent[k] <= Cap /\ paid[k] \in Nat /\ spent[k] \in Nat
    BY DEF IInv, TypeOK, SpentInv
  <2> QED BY <2>1, <2>2, <2>3, BudgetAssumption
<1> QED BY <1>1, Accounted, PTL

\* How a send that a rail has taken ends while no call has failed.
TakenInv ==
    faults = 0 => \A t \in Sends :
        /\ t \in taken => pc[t] \in {"record", "created", "unrecorded"}
        /\ pc[t] = "created" => row[t] # "absent"
        /\ pc[t] = "unrecorded" => SameKey(t) # {}

\* What a step may not do to the sends other than x: move them, or have a rail take
\* them; and no row disappears.
Frame(x) ==
    /\ \A t \in Sends \ {x} : pc'[t] = pc[t] /\ (t \in taken' <=> t \in taken)
    /\ \A t \in Payments : row[t] # "absent" => row'[t] # "absent"
    /\ faults' = 0 => faults = 0

\* Only its own handler moves a send.
LEMMA SendFrame == ASSUME IInv, NEW t \in Sends, Send(t) PROVE Frame(t)
<1> USE DEF IInv, TypeOK, Payments, Frame, Go, Fault
<1>1. ASSUME NEW d \in 0..clock, Admit(t, d) PROVE Frame(t)
  BY <1>1 DEF Admit
<1>2. CASE TurnAway(t)
  BY <1>2 DEF TurnAway
<1>3. CASE SendViaCrossMint(t)
  BY <1>3 DEF SendViaCrossMint, Taken
<1>4. CASE PendingNonce(t)
  BY <1>4 DEF PendingNonce
<1>5. CASE SendViaTempo(t)
  BY <1>5 DEF SendViaTempo, NodeAccepts, NodeRefuses, NodeUnheard, Taken
<1>6. ASSUME NEW status \in {"pending", "succeeded", "failed"}, RecordTransaction(t, status)
      PROVE  Frame(t)
  BY <1>6 DEF RecordTransaction, Insert
<1>7. CASE RecordFails(t)
  BY <1>7 DEF RecordFails
<1> HIDE DEF IInv, TypeOK, Frame
<1> QED BY <1>1, <1>2, <1>3, <1>4, <1>5, <1>6, <1>7 DEF Send

\* The prepares, the submits and the clock leave every send alone.
LEMMA OtherFrame ==
  ASSUME IInv, (\E t \in Prepares : Prepare(t)) \/ (\E s \in Submits : Submit(s)) \/ Tick
  PROVE  Frame(NoTx)
<1> USE RequestAssumption DEF IInv, TypeOK, Payments, Frame, Go, Fault
<1>1. ASSUME NEW t \in Prepares, Prepare(t) PROVE Frame(NoTx)
  <2>1. CASE TurnAway(t)
    BY <2>1 DEF TurnAway
  <2>2. CASE Lookup(t)
    BY <2>2 DEF Lookup
  <2>3. CASE BuildTransfer(t)
    BY <2>3 DEF BuildTransfer
  <2>4. CASE InsertPrepared(t)
    BY <2>4 DEF InsertPrepared
  <2>5. CASE PreparedExpires(t)
    BY <2>5 DEF PreparedExpires
  <2> QED BY <1>1, <2>1, <2>2, <2>3, <2>4, <2>5 DEF Prepare
<1>2. ASSUME NEW s \in Submits, Submit(s) PROVE Frame(NoTx)
  <2>1. ASSUME NEW t \in Payments, SubmitRead(s, t) PROVE Frame(NoTx)
    BY <2>1 DEF SubmitRead
  <2>2. CASE BroadcastSignedTx(s)
    <3>1. \A t \in Sends : t \in taken' <=> t \in taken
      BY <2>2 DEF BroadcastSignedTx, NodeAccepts, NodeAcceptsForeign, NodeUnheard, Taken
    <3> QED BY <2>2, <3>1 DEF BroadcastSignedTx
  <2>3. CASE UpdateTransactionStatus(s)
    BY <2>3 DEF UpdateTransactionStatus, SubmitInv
  <2> QED BY <1>2, <2>1, <2>2, <2>3 DEF Submit
<1>3. CASE Tick
  BY <1>3 DEF Tick
<1> QED BY <1>1, <1>2, <1>3

\* Where a step leaves the send that takes it, when nothing fails.
LEMMA SendTaken ==
  ASSUME IInv, TakenInv, NEW t \in Sends, Send(t), faults' = 0
  PROVE  /\ t \in taken' => pc'[t] \in {"record", "created", "unrecorded"}
         /\ pc'[t] = "created" => row'[t] # "absent"
         /\ pc'[t] = "unrecorded" => SameKey(t) # {}
<1>0. faults = 0
  BY SendFrame DEF Frame
<1> USE <1>0 DEF IInv, TypeOK, Payments, TakenInv, Go, Fault
<1>1. ASSUME NEW d \in 0..clock, Admit(t, d) PROVE t \notin taken' /\ pc'[t] = "admitted"
  BY <1>1 DEF Admit
<1>2. CASE TurnAway(t)
  BY <1>2 DEF TurnAway
<1>3. CASE SendViaCrossMint(t)
  BY <1>3 DEF SendViaCrossMint, Taken
<1>4. CASE PendingNonce(t)
  BY <1>4 DEF PendingNonce
<1>5. CASE SendViaTempo(t)
  <2>1. CASE NodeAccepts(t) /\ Go(t, "record")
    BY <2>1
  <2>2. CASE NodeRefuses(t) /\ Go(t, "upstreamError")
    <3>1. t \notin taken
      BY <1>5 DEF SendViaTempo
    <3> QED BY <2>2, <3>1 DEF NodeRefuses
  <2>3. ~ Fault
    OBVIOUS
  <2> HIDE DEF IInv, TypeOK, TakenInv, Go, Fault
  <2> QED BY <1>5, <2>1, <2>2, <2>3 DEF SendViaTempo
<1>6. ASSUME NEW status \in {"pending", "succeeded", "failed"}, RecordTransaction(t, status)
      PROVE  pc'[t] = "created" /\ row'[t] # "absent"
  BY <1>6 DEF RecordTransaction, Insert
<1>7. CASE RecordFails(t)
  BY <1>7 DEF RecordFails
<1> HIDE DEF IInv, TypeOK, TakenInv
<1> QED BY <1>1, <1>2, <1>3, <1>4, <1>5, <1>6, <1>7 DEF Send

\* A key that has a row keeps one.
LEMMA KeyKept ==
  ASSUME NEW t \in Payments, SameKey(t) # {},
         \A u \in Payments : row[u] # "absent" => row'[u] # "absent"
  PROVE  SameKey(t)' # {}
BY DEF SameKey

\* Every step keeps what is known of the sends a rail has taken.
LEMMA NextTaken == IInv /\ TakenInv /\ [Next]_vars => TakenInv'
<1> SUFFICES ASSUME IInv, TakenInv, [Next]_vars PROVE TakenInv'
  OBVIOUS
<1>1. ASSUME NEW x, Frame(x), NEW t \in Sends \ {x}, faults' = 0
      PROVE  /\ t \in taken' => pc'[t] \in {"record", "created", "unrecorded"}
             /\ pc'[t] = "created" => row'[t] # "absent"
             /\ pc'[t] = "unrecorded" => SameKey(t)' # {}
  BY <1>1, KeyKept DEF Frame, TakenInv, Payments
<1>2. ASSUME NEW t \in Sends, Send(t) PROVE TakenInv'
  <2>1. ASSUME SameKey(t) # {} PROVE SameKey(t)' # {}
    BY <1>2, <2>1, SendFrame, KeyKept DEF Frame, Payments
  <2> QED BY <1>1, <1>2, <2>1, SendFrame, SendTaken DEF TakenInv
<1>3. CASE (\E t \in Prepares : Prepare(t)) \/ (\E s \in Submits : Submit(s)) \/ Tick
  <2>1. \A t \in Sends : t \in Sends \ {NoTx}
    BY RequestAssumption DEF Payments
  <2> QED BY <1>1, <1>3, <2>1, OtherFrame DEF TakenInv
<1>4. CASE UNCHANGED vars
  BY <1>4 DEF vars, TakenInv, SameKey
<1> QED BY <1>2, <1>3, <1>4 DEF Next, Done

\* recordTransaction and UpdateTransactionStatus: a send's row says that money moves
\* only when a rail has accepted the payment, a prepared row is marked broadcast only
\* when the node has accepted the bytes that were submitted for it, and without a
\* failed call a send that a rail took has a row, or its key had one.
THEOREM RowsAreTrue == Spec => []RecordedWasAccepted
<1>1. Init => TakenInv
  BY DEF Init, TakenInv, Payments
<1>2. IInv /\ TakenInv => RecordedWasAccepted
  BY DEF IInv, RowsBacked, TakenInv, RecordedWasAccepted, Backed, Finished
<1> QED BY <1>1, <1>2, NextTaken, Accounted, PTL DEF Spec

\* SendTransaction publishes transaction.succeeded only for a payment a rail took.
THEOREM EventsAreTrue == Spec => []PublishedWasTaken
<1>1. IInv => PublishedWasTaken
  BY DEF IInv
<1> QED BY <1>1, Accounted, PTL

\* The unique index makes all 2xx answers for one idempotency key name one row.
THEOREM OneRowPerKey == Spec => []SameKeySameRow
<1>1. IInv => SameKeySameRow
  <2> SUFFICES ASSUME IInv, NEW t \in Payments, NEW u \in Payments,
                      IdemKey[t] # NoKey, IdemKey[t] = IdemKey[u],
                      answer[t] # NoTx, answer[u] # NoTx
               PROVE  answer[t] = answer[u]
    BY DEF SameKeySameRow
  <2>1. /\ answer[t] \in Payments /\ answer[u] \in Payments
        /\ row[answer[t]] # "absent" /\ row[answer[u]] # "absent"
        /\ IdemKey[answer[t]] = IdemKey[t] /\ IdemKey[answer[u]] = IdemKey[u]
    BY DEF IInv, TypeOK, AnswerInv
  <2> QED BY <2>1 DEF IInv, KeyInv
<1> QED BY <1>1, Accounted, PTL
=============================================================================
