------------------------------ MODULE Transfers ------------------------------
(***************************************************************************)
(* Moving money: SendTransaction on platform-custody wallets, and the      *)
(* prepare / submit pair on user-custody wallets, over the transactions    *)
(* table, the spending-limit engine and the two rails.                     *)
(*                                                                         *)
(* limits.Check is the atomic step of module Budget, which SpendLimits is  *)
(* shown to implement.  Postgres enforces UNIQUE (tenant_id,               *)
(* idempotency_key).  The Tempo node accepts a transaction that carries    *)
(* the next nonce of its wallet; one that reuses a nonce is refused, or    *)
(* replaces the pending transaction when its gas price is high enough.     *)
(* Every call to the database or to a rail is a step; a request whose      *)
(* process dies is one that takes no further step.                         *)
(***************************************************************************)
EXTENDS Integers, Sequences, FiniteSets

CONSTANTS
    Sends,      \* requests to SendTransaction
    Prepares,   \* requests to PrepareTransaction
    Submits,    \* requests to SubmitTransaction
    IdemKey,    \* IdemKey[t]: the idempotency_key of request t
    NoKey,      \* no idempotency_key in the body
    Amount,     \* Amount[t]
    Cap,        \* the daily cap of the policy that governs the sends
    LastDay,    \* bound: the clock stops there
    MaxFaults,  \* bound: calls that fail
    NoTx        \* no row

Payments == Sends \union Prepares
Wallets  == {"platform", "user"}
WalletOf(t) == IF t \in Sends THEN "platform" ELSE "user"

ASSUME RequestAssumption == /\ Sends \intersect Prepares = {}
                            /\ Submits \intersect Payments = {}
                            /\ NoTx \notin Payments
                            /\ Amount \in [Payments -> Nat]
ASSUME BudgetAssumption  == Cap \in Nat \ {0} /\ LastDay \in Nat
ASSUME FaultAssumption   == MaxFaults \in Nat

VARIABLES
    clock, spent,   \* the budget: the day, and what each bucket has admitted
    pc,             \* pc[x]: where a request is
    day,            \* day[t]: the day the admission of t was charged to
    nonce,          \* nonce[t]: the nonce t was built with
    pool,           \* pool[w]: what the Tempo node holds, by nonce; NoTx is a
                    \* transaction of the wallet that is none of the payments
    taken,          \* payments a rail has accepted
    accepted,       \* rows for which the node accepted the bytes a submit sent
    row,            \* row[t]: status of the transactions row t inserted
    stale,          \* prepared rows older than preparedTTL
    answer,         \* answer[t]: the row a 2xx answer to t names
    target,         \* target[s]: the prepared row submit s is about
    published,      \* rows announced with transaction.succeeded
    paid,           \* history: paid[k], what the rails took from bucket k
    faults

vars == <<clock, spent, pc, day, nonce, pool, taken, row, stale, answer, accepted,
          target, published, paid, faults>>

Policy == "policy"
B == INSTANCE Budget WITH
        Policies <- {Policy}, Periods <- {1}, Buckets <- 0..LastDay,
        Amounts <- {Amount[t] : t \in Sends},
        Cap <- [q \in {Policy} |-> [p \in {1} |-> Cap]],
        Bucket <- [p \in {1} |-> [d \in 0..LastDay |-> d]]

BucketOf(t) == <<Policy, 1, day[t]>>

Fault == /\ faults < MaxFaults
         /\ faults' = faults + 1

Go(x, to) == pc' = [pc EXCEPT ![x] = to]

\* The rows of the partial unique index that hold the key of t.
SameKey(t) == {u \in Payments : /\ row[u] # "absent"
                                /\ IdemKey[u] = IdemKey[t]
                                /\ IdemKey[t] # NoKey}
-----------------------------------------------------------------------------
Init ==
    /\ B!Init
    /\ pc = [x \in Payments \union Submits |-> "idle"]
    /\ day = [t \in Payments |-> 0]
    /\ nonce = [t \in Payments |-> 0]
    /\ pool = [w \in Wallets |-> << >>]
    /\ taken = {}
    /\ accepted = {}
    /\ row = [t \in Payments |-> "absent"]
    /\ stale = {}
    /\ answer = [t \in Payments |-> NoTx]
    /\ target = [s \in Submits |-> NoTx]
    /\ published = {}
    /\ paid = [k \in B!Keys |-> 0]
    /\ faults = 0

(***************************************************************************)
(* SendTransaction                                                         *)
(***************************************************************************)

\* Variant: the answer of limits.Check is not waited for.
AdmitUnchecked(t, d) ==
    /\ pc[t] = "idle"
    /\ Go(t, "admitted")
    /\ UNCHANGED <<clock, spent, day, nonce, pool, taken, row, stale, answer, accepted, target,
                   published, paid, faults>>

\* Routing, the wallet, the signer guard and limits.Check: the request is
\* admitted and charged with a clock sample of day d...
Admit(t, d) ==
    /\ pc[t] = "idle"
    /\ B!Admit(Policy, Amount[t], d)
    /\ day' = [day EXCEPT ![t] = d]
    /\ Go(t, "admitted")
    /\ UNCHANGED <<nonce, pool, taken, row, stale, answer, accepted, target, published, paid, faults>>

\* ...or turned away: 4xx, 429 or 500, before any rail is called.
TurnAway(t) ==
    /\ pc[t] = "idle"
    /\ Go(t, "refused")
    /\ UNCHANGED <<clock, spent, day, nonce, pool, taken, row, stale, answer, accepted, target,
                   published, paid, faults>>

\* A rail has taken payment t; only sends are charged to a budget.
Taken(t) ==
    /\ taken' = taken \union {t}
    /\ paid' = IF t \in Sends THEN [paid EXCEPT ![BucketOf(t)] = @ + Amount[t]] ELSE paid

\* The node takes t under its nonce.
NodeAccepts(t) ==
    LET w == WalletOf(t)
    IN  /\ \/ /\ nonce[t] = Len(pool[w]) + 1
              /\ pool' = [pool EXCEPT ![w] = Append(@, t)]
           \/ /\ nonce[t] <= Len(pool[w])
              /\ pool[w][nonce[t]] # t
              /\ pool' = [pool EXCEPT ![w][nonce[t]] = t]
        /\ Taken(t)

\* Nonce too low, replacement underpriced, already known.
NodeRefuses(t) ==
    /\ nonce[t] <= Len(pool[WalletOf(t)])
    /\ UNCHANGED <<pool, taken, paid>>

\* The answer of the node is lost, or t never reached it.
NodeUnheard(t) == NodeAccepts(t) \/ UNCHANGED <<pool, taken, paid>>

\* sendViaCrossMint: one HTTP call; an error may hide an accepted transfer.
SendViaCrossMint(t) ==
    /\ pc[t] = "admitted"
    /\ \/ /\ Taken(t)
          /\ Go(t, "record")
          /\ UNCHANGED faults
       \/ /\ Fault
          /\ Taken(t) \/ UNCHANGED <<taken, paid>>
          /\ Go(t, "upstreamError")
    /\ UNCHANGED <<clock, spent, day, nonce, pool, row, stale, answer, accepted, target, published>>

\* sendViaTempo: PendingNonceAt, then the signature; either may fail.
PendingNonce(t) ==
    /\ pc[t] = "admitted"
    /\ \/ /\ nonce' = [nonce EXCEPT ![t] = Len(pool["platform"]) + 1]
          /\ Go(t, "signed")
          /\ UNCHANGED faults
       \/ /\ Fault
          /\ Go(t, "upstreamError")
          /\ UNCHANGED nonce
    /\ UNCHANGED <<clock, spent, day, pool, taken, row, stale, answer, accepted, target,
                   published, paid>>

\* TransferWithKey sends the signed transaction.
SendViaTempo(t) ==
    /\ pc[t] = "signed"
    /\ \/ NodeAccepts(t) /\ Go(t, "record") /\ UNCHANGED faults
       \/ NodeRefuses(t) /\ Go(t, "upstreamError") /\ UNCHANGED faults
       \/ Fault /\ NodeUnheard(t) /\ Go(t, "upstreamError")
    /\ UNCHANGED <<clock, spent, day, nonce, row, stale, answer, accepted, target, published>>

\* recordTransaction, the event and the 201.  CrossMint may report any status.
Insert(t, status) ==
    /\ pc[t] = "record"
    /\ row' = [row EXCEPT ![t] = status]
    /\ published' = IF status = "failed" THEN published ELSE published \union {t}
    /\ answer' = [answer EXCEPT ![t] = t]
    /\ Go(t, "created")
    /\ UNCHANGED <<clock, spent, day, nonce, pool, taken, stale, accepted, target, paid, faults>>

\* Variant: the word of the provider is stored as it comes.
RecordUnmapped(t, status) == SameKey(t) = {} /\ Insert(t, "completed")

\* The unique index lets the row in.  A transfer over Tempo, which has a nonce, is
\* always recorded as pending.
RecordTransaction(t, status) == /\ SameKey(t) = {}
                                /\ nonce[t] # 0 => status = "pending"
                                /\ Insert(t, status)

\* The key is taken (23505), or the statement fails: "rail call succeeded".
RecordFails(t) ==
    /\ pc[t] = "record"
    /\ \/ SameKey(t) # {} /\ UNCHANGED faults
       \/ Fault
    /\ Go(t, "unrecorded")
    /\ UNCHANGED <<clock, spent, day, nonce, pool, taken, row, stale, answer, accepted, target,
                   published, paid>>

(***************************************************************************)
(* PrepareTransaction and SubmitTransaction                                *)
(***************************************************************************)

\* A row of the same key that is still prepared is returned as it is; an error of
\* the lookup is a miss.
Lookup(t) ==
    /\ pc[t] = "idle"
    /\ \/ \E u \in SameKey(t) :
            /\ row[u] = "prepared"
            /\ answer' = [answer EXCEPT ![t] = u]
            /\ Go(t, "created")
            /\ UNCHANGED faults
       \/ /\ \/ (\A u \in SameKey(t) : row[u] # "prepared") /\ UNCHANGED faults
             \/ Fault
          /\ Go(t, "build")
          /\ UNCHANGED answer
    /\ UNCHANGED <<clock, spent, day, nonce, pool, taken, row, stale, accepted, target,
                   published, paid>>

\* BuildTransfer reads the nonce, or fails.
BuildTransfer(t) ==
    /\ pc[t] = "build"
    /\ \/ /\ nonce' = [nonce EXCEPT ![t] = Len(pool["user"]) + 1]
          /\ Go(t, "insert")
          /\ UNCHANGED faults
       \/ /\ Fault
          /\ Go(t, "upstreamError")
          /\ UNCHANGED nonce
    /\ UNCHANGED <<clock, spent, day, pool, taken, row, stale, answer, accepted, target,
                   published, paid>>

InsertPrepared(t) ==
    /\ pc[t] = "insert"
    /\ \/ /\ SameKey(t) = {}
          /\ row' = [row EXCEPT ![t] = "prepared"]
          /\ answer' = [answer EXCEPT ![t] = t]
          /\ Go(t, "created")
          /\ UNCHANGED faults
       \/ /\ \/ SameKey(t) # {} /\ UNCHANGED faults
             \/ Fault
          /\ Go(t, "refused")
          /\ UNCHANGED <<row, answer>>
    /\ UNCHANGED <<clock, spent, day, nonce, pool, taken, stale, accepted, target, published, paid>>

\* preparedTTL passes.
PreparedExpires(t) ==
    /\ row[t] = "prepared"
    /\ t \notin stale
    /\ stale' = stale \union {t}
    /\ UNCHANGED <<clock, spent, pc, day, nonce, pool, taken, row, answer, accepted, target,
                   published, paid, faults>>

\* The row is read: 404, 409 and 410 end the request.
SubmitRead(s, t) ==
    /\ pc[s] = "idle"
    /\ target' = [target EXCEPT ![s] = t]
    /\ Go(s, IF row[t] = "prepared" /\ t \notin stale THEN "broadcast" ELSE "refused")
    /\ UNCHANGED <<clock, spent, day, nonce, pool, taken, row, stale, answer, accepted,
                   published, paid, faults>>

\* The bytes are a transaction that is none of the payments: one of another wallet,
\* or one that takes the next nonce of this one or replaces what is pending.
NodeAcceptsForeign ==
    /\ \/ UNCHANGED pool
       \/ pool' = [pool EXCEPT !["user"] = Append(@, NoTx)]
       \/ \E n \in DOMAIN pool["user"] : pool' = [pool EXCEPT !["user"][n] = NoTx]
    /\ UNCHANGED <<taken, paid>>

\* BroadcastSignedTx sends the bytes as they are: nothing compares them with the
\* row.  They are the transaction of a prepared payment x, which the client may
\* have mixed up, or anything else, undecodable bytes (refused) included.
BroadcastSignedTx(s) ==
    /\ pc[s] = "broadcast"
    /\ \/ /\ \/ \E x \in Prepares : row[x] # "absent" /\ NodeAccepts(x)
             \/ NodeAcceptsForeign
          /\ accepted' = accepted \union {target[s]}
          /\ Go(s, "markBroadcast")
          /\ UNCHANGED faults
       \/ /\ UNCHANGED <<pool, taken, paid, accepted, faults>>
          /\ Go(s, "markFailed")
       \/ /\ Fault
          /\ \/ \E x \in Prepares : row[x] # "absent" /\ NodeUnheard(x)
             \/ NodeAcceptsForeign
          /\ Go(s, "markFailed")
          /\ UNCHANGED accepted
    /\ UNCHANGED <<clock, spent, day, nonce, row, stale, answer, target, published>>

\* Variant: the row is marked before the outcome is known.
MarkBroadcastAlways(s) ==
    /\ pc[s] \in {"markBroadcast", "markFailed"}
    /\ row' = [row EXCEPT ![target[s]] = "broadcast"]
    /\ Go(s, "created")
    /\ UNCHANGED <<clock, spent, day, nonce, pool, taken, stale, answer, accepted, target,
                   published, paid, faults>>

\* UpdateTransactionStatus: WHERE id only, with the outcome of this broadcast.
UpdateTransactionStatus(s) ==
    /\ pc[s] \in {"markBroadcast", "markFailed"}
    /\ \/ /\ row' = [row EXCEPT ![target[s]] = IF pc[s] = "markBroadcast" THEN "broadcast"
                                                                          ELSE "failed"]
          /\ UNCHANGED faults
       \/ /\ Fault
          /\ UNCHANGED row
    /\ Go(s, IF pc[s] = "markBroadcast" THEN "created" ELSE "upstreamError")
    /\ UNCHANGED <<clock, spent, day, nonce, pool, taken, stale, answer, accepted, target,
                   published, paid>>
-----------------------------------------------------------------------------
Tick ==
    /\ B!Tick
    /\ UNCHANGED <<pc, day, nonce, pool, taken, row, stale, answer, accepted, target,
                   published, paid, faults>>

Finished == {"refused", "upstreamError", "unrecorded", "created"}

Done ==
    /\ \A x \in Payments \union Submits : pc[x] \in Finished
    /\ clock = LastDay
    /\ UNCHANGED vars

Send(t) ==
    \/ \E d \in 0..clock : Admit(t, d)
    \/ TurnAway(t)
    \/ SendViaCrossMint(t)
    \/ PendingNonce(t)
    \/ SendViaTempo(t)
    \/ \E status \in {"pending", "succeeded", "failed"} : RecordTransaction(t, status)
    \/ RecordFails(t)

Prepare(t) ==
    \/ TurnAway(t)
    \/ Lookup(t)
    \/ BuildTransfer(t)
    \/ InsertPrepared(t)
    \/ PreparedExpires(t)

Submit(s) ==
    \/ \E t \in Payments : SubmitRead(s, t)
    \/ BroadcastSignedTx(s)
    \/ UpdateTransactionStatus(s)

Next ==
    \/ \E t \in Sends : Send(t)
    \/ \E t \in Prepares : Prepare(t)
    \/ \E s \in Submits : Submit(s)
    \/ Tick
    \/ Done

Spec == Init /\ [][Next]_vars
-----------------------------------------------------------------------------
(***************************************************************************)
(* Properties                                                              *)
(***************************************************************************)

\* Type invariant of the requests, the rows and the rails.
TypeOK ==
    /\ clock \in 0..LastDay
    /\ spent \in [B!Keys -> Nat]
    /\ pc \in [Payments \union Submits ->
                 {"idle", "admitted", "signed", "record", "build", "insert",
                  "broadcast", "markBroadcast", "markFailed"} \union Finished]
    /\ day \in [Payments -> 0..LastDay]
    /\ nonce \in [Payments -> Nat]
    /\ pool \in [Wallets -> Seq(Payments \union {NoTx})]
    /\ taken \subseteq Payments
    /\ accepted \subseteq Payments
    /\ row \in [Payments -> {"absent", "prepared", "pending", "succeeded",
                             "broadcast", "failed"}]
    /\ stale \subseteq Payments
    /\ answer \in [Payments -> Payments \union {NoTx}]
    /\ target \in [Submits -> Payments \union {NoTx}]
    /\ published \subseteq Payments
    /\ paid \in [B!Keys -> Nat]
    /\ faults \in Nat

\* What the rails have taken for SendTransaction from a day that is still open
\* never exceeds the daily cap, across retries, nonce clashes and failures.
PaidWithinCap ==
    \A k \in B!Keys : B!IsOpen(k) => paid[k] <= Cap

\* A row that says the money is moving is one a rail has accepted something for:
\* the payment itself for a send, the bytes that were submitted for a prepared row.
Backed(t) == /\ row[t] \in {"pending", "succeeded"} => t \in taken
             /\ row[t] = "broadcast" => t \in accepted

\* The ledger and the rails agree.  No dispatch or broadcast that failed is
\* recorded as pending or broadcast, in any race of submits; and as long as no call
\* fails, a send that a rail has taken ends with a row, unless its idempotency key
\* already had one.  (That the bytes of a submit were the prepared transaction, and
\* that the pool still holds it, the gateway never finds out.)
RecordedWasAccepted ==
    /\ \A t \in Payments : Backed(t)
    /\ faults = 0 => \A t \in taken \intersect Sends :
                        pc[t] \in Finished /\ row[t] = "absent" => SameKey(t) # {}

\* Requests with one idempotency key that are answered 2xx name one row, in
\* every interleaving of sends, prepares and submits.
SameKeySameRow ==
    \A t, u \in Payments :
        /\ IdemKey[t] # NoKey
        /\ IdemKey[t] = IdemKey[u]
        /\ answer[t] # NoTx
        /\ answer[u] # NoTx
        => answer[t] = answer[u]

\* "Same idempotency_key on a retry returns the previous result instead of
\* double-charging."
OneChargePerKey ==
    \A t, u \in taken \intersect Sends :
        IdemKey[t] # NoKey /\ IdemKey[t] = IdemKey[u] => t = u
=============================================================================
