----------------------------- MODULE SessionKeys -----------------------------
(***************************************************************************)
(* The life of a session key: minting on a platform-custody wallet (with   *)
(* an optional on-chain authorizeKey outside the database transaction),    *)
(* the prepare / submit-authorize pair on a user-custody wallet, manual    *)
(* revocation, the rotator's expiry sweep and the signer guard of          *)
(* SendTransaction.                                                        *)
(*                                                                         *)
(* Every handler reads the row, decides, and writes in a later statement;  *)
(* each statement is a step, so handlers and the rotator interleave        *)
(* between them.  The row of key k is status[k], expires[k], revokedAt[k], *)
(* railNative[k] and stamped[k] (on_chain_tx_hash is set).                 *)
(***************************************************************************)
EXTENDS Integers, FiniteSets

CONSTANTS
    Keys,       \* ids of session keys
    Custody,    \* Custody[k]: "platform" or "user", the custody of its wallet
    Requests,   \* revoke, submit-authorize and send requests
    LastTime,   \* bound: the clock stops there
    Batch,      \* rows the rotator lists per tick
    MaxFaults   \* bound: database and RPC calls that fail

ASSUME CustodyAssumption == /\ Keys # {}
                            /\ Custody \in [Keys -> {"platform", "user"}]
ASSUME TimeAssumption    == LastTime \in Nat
ASSUME BatchAssumption   == Batch \in Nat \ {0}
ASSUME FaultAssumption   == MaxFaults \in Nat

Times    == 0..LastTime
Never    == LastTime + 1
Platform == {k \in Keys : Custody[k] = "platform"}

VARIABLES
    clock,
    status, expires, revokedAt, railNative, stamped,   \* session_keys rows
    mint,          \* mint[k]: where the request that creates k is
    broadcast,     \* keys whose authorizeKey the Tempo node has accepted
    accepted,      \* keys for which the node has accepted a transaction that
                   \* Mint or SubmitAuthorize broadcast, whatever its content
    op,            \* op[r]: where request r is in its handler
    key,           \* key[r]: the session key r is about
    swept,         \* rows the rotator has listed and not yet flipped
    answered,      \* keys for which a revoke was answered "revoked"
    revokedEvents, \* revokedEvents[k]: session_key.revoked events published
    faults

row   == <<status, expires, revokedAt, railNative, stamped>>
chain == <<broadcast, accepted>>
vars  == <<clock, row, mint, chain, op, key, swept, answered,
           revokedEvents, faults>>

Fault == /\ faults < MaxFaults
         /\ faults' = faults + 1
-----------------------------------------------------------------------------
Init ==
    /\ clock = 0
    /\ status = [k \in Keys |-> "absent"]
    /\ expires = [k \in Keys |-> 0]
    /\ revokedAt = [k \in Keys |-> Never]
    /\ railNative = [k \in Keys |-> FALSE]
    /\ stamped = [k \in Keys |-> FALSE]
    /\ mint = [k \in Keys |-> "idle"]
    /\ broadcast = {}
    /\ accepted = {}
    /\ op = [r \in Requests |-> "idle"]
    /\ key = [r \in Requests |-> CHOOSE k \in Keys : TRUE]
    /\ swept = {}
    /\ answered = {}
    /\ revokedEvents = [k \in Keys |-> 0]
    /\ faults = 0

(***************************************************************************)
(* Mint and PrepareUserCustody                                             *)
(***************************************************************************)

\* A request to create key k begins, with the expiry e.
Start(k, e, native, to) ==
    /\ mint[k] = "idle"
    /\ e >= clock
    /\ expires' = [expires EXCEPT ![k] = e]
    /\ railNative' = [railNative EXCEPT ![k] = native]
    /\ mint' = [mint EXCEPT ![k] = to]
    /\ UNCHANGED <<clock, status, revokedAt, stamped, chain, op, key, swept,
                   answered, revokedEvents, faults>>

\* Mint: validateMint, the keypair and the timestamps.
StartMint(k, e, onChainEnforce) ==
    /\ k \in Platform
    /\ Start(k, e, onChainEnforce, IF onChainEnforce THEN "authorize" ELSE "insert")

\* PrepareUserCustody: the key is rail-native from the start; the unsigned
\* authorizeKey transaction is built and nothing is broadcast.
PrepareUserCustody(k, e) ==
    /\ k \notin Platform
    /\ Start(k, e, TRUE, "insert")

\* runOnChainAuthorize: the node accepts the transaction and answers.
RunOnChainAuthorize(k) ==
    /\ mint[k] = "authorize"
    /\ broadcast' = broadcast \union {k}
    /\ accepted' = accepted \union {k}
    /\ mint' = [mint EXCEPT ![k] = "insert"]
    /\ UNCHANGED <<clock, row, op, key, swept, answered, revokedEvents, faults>>

\* Variant: a broadcast error is taken for a success.
AuthorizeErrorIgnored(k) ==
    /\ mint[k] = "authorize"
    /\ Fault
    /\ mint' = [mint EXCEPT ![k] = "insert"]
    /\ UNCHANGED <<clock, row, chain, op, key, swept, answered, revokedEvents>>

\* The broadcast fails, or its answer is lost: Mint returns before any row.
AuthorizeFails(k) ==
    /\ mint[k] = "authorize"
    /\ Fault
    /\ \/ UNCHANGED chain
       \/ /\ broadcast' = broadcast \union {k}
          /\ accepted' = accepted \union {k}
    /\ mint' = [mint EXCEPT ![k] = "failed"]
    /\ UNCHANGED <<clock, row, op, key, swept, answered, revokedEvents>>

\* The policy and the row are inserted in one database transaction.
Insert(k, st, hashed) ==
    /\ mint[k] = "insert"
    /\ mint' = [mint EXCEPT ![k] = "done"]
    /\ status' = [status EXCEPT ![k] = st]
    /\ stamped' = [stamped EXCEPT ![k] = hashed]
    /\ UNCHANGED <<clock, expires, revokedAt, railNative, chain, op, key,
                   swept, answered, revokedEvents, faults>>

\* Mint inserts an active row, with the hash of the authorizeKey transaction.
InsertActive(k) == k \in Platform /\ Insert(k, "active", railNative[k])

\* PrepareUserCustody inserts a row that waits for its owner's signature.
InsertPending(k) == k \notin Platform /\ Insert(k, "pending_authorize", FALSE)

\* The transaction is rolled back; an authorised key stays on chain.  (A commit
\* whose answer is lost is an Insert.)
InsertFails(k) ==
    /\ mint[k] = "insert"
    /\ Fault
    /\ mint' = [mint EXCEPT ![k] = "failed"]
    /\ UNCHANGED <<clock, row, chain, op, key, swept, answered, revokedEvents>>

(***************************************************************************)
(* SubmitAuthorize                                                         *)
(***************************************************************************)
Go(r, to) == op' = [op EXCEPT ![r] = to]

\* Variant: any key may be submitted.
SubmitReadAny(r, k) ==
    /\ op[r] = "idle"
    /\ status[k] # "absent"
    /\ key' = [key EXCEPT ![r] = k]
    /\ Go(r, "submitting")
    /\ UNCHANGED <<clock, row, mint, chain, swept, answered, revokedEvents, faults>>

\* The row is read: only a pending key may be submitted.
SubmitRead(r, k) ==
    /\ op[r] = "idle"
    /\ key' = [key EXCEPT ![r] = k]
    /\ Go(r, IF status[k] = "pending_authorize" THEN "submitting" ELSE "done")
    /\ UNCHANGED <<clock, row, mint, chain, swept, answered, revokedEvents, faults>>

\* The node accepts the signed transaction.  Nobody compares its content with
\* the authorizeKey that was prepared, so it may authorize this key or not.
Accepted(k) ==
    /\ accepted' = accepted \union {k}
    /\ broadcast' \in {broadcast, broadcast \union {k}}

\* BroadcastSignedTx, answered with a transaction hash.
SubmitBroadcast(r) ==
    /\ op[r] = "submitting"
    /\ Accepted(key[r])
    /\ Go(r, "activating")
    /\ UNCHANGED <<clock, row, mint, key, swept, answered, revokedEvents, faults>>

\* An error, or a lost answer: the row stays pending_authorize.
SubmitBroadcastFails(r) ==
    /\ op[r] = "submitting"
    /\ Fault
    /\ UNCHANGED chain \/ Accepted(key[r])
    /\ Go(r, "done")
    /\ UNCHANGED <<clock, row, mint, key, swept, answered, revokedEvents>>

\* UPDATE ... SET status = 'active' WHERE id: the status is not looked at again.
Activate(r) ==
    /\ op[r] = "activating"
    /\ \/ /\ status' = [status EXCEPT ![key[r]] = "active"]
          /\ stamped' = [stamped EXCEPT ![key[r]] = TRUE]
          /\ UNCHANGED faults
       \/ /\ Fault
          /\ UNCHANGED <<status, stamped>>
    /\ Go(r, "done")
    /\ UNCHANGED <<clock, expires, revokedAt, railNative, mint, chain, key,
                   swept, answered, revokedEvents>>

(***************************************************************************)
(* Revoke                                                                  *)
(***************************************************************************)

\* The row is read.  A key that is not active is returned as it is.
RevokeRead(r, k) ==
    /\ op[r] = "idle"
    /\ key' = [key EXCEPT ![r] = k]
    /\ Go(r, IF status[k] = "active" THEN "revoking" ELSE "done")
    /\ answered' = IF status[k] = "revoked" THEN answered \union {k} ELSE answered
    /\ UNCHANGED <<clock, row, mint, chain, swept, revokedEvents, faults>>

\* The effect of RevokeSessionKey on the row.
Revoked(k) ==
    /\ status' = [status EXCEPT ![k] = "revoked"]
    /\ revokedAt' = [revokedAt EXCEPT ![k] = clock]
    /\ UNCHANGED <<expires, railNative, stamped>>

\* Variant: the UPDATE has no status guard.
RevokeUnguarded(r) ==
    /\ op[r] = "revoking"
    /\ Revoked(key[r])
    /\ Go(r, "publishing")
    /\ UNCHANGED <<clock, mint, chain, key, swept, answered, revokedEvents, faults>>

\* RevokeSessionKey: UPDATE ... WHERE id AND status = 'active' RETURNING.
RevokeUpdate(r) ==
    /\ op[r] = "revoking"
    /\ status[key[r]] = "active"
    /\ Revoked(key[r])
    /\ Go(r, "publishing")
    /\ UNCHANGED <<clock, mint, chain, key, swept, answered, revokedEvents, faults>>

\* No row matched, or the statement failed, applied or not: the caller gets a
\* 500 and nothing is published.
RevokeMissed(r) ==
    /\ op[r] = "revoking"
    /\ \/ /\ status[key[r]] # "active"
          /\ UNCHANGED <<row, faults>>
       \/ Fault /\ UNCHANGED row
       \/ Fault /\ status[key[r]] = "active" /\ Revoked(key[r])
    /\ Go(r, "done")
    /\ UNCHANGED <<clock, mint, chain, key, swept, answered, revokedEvents>>

\* publishSessionKey: best-effort, an error of Publish is dropped.
PublishRevoked(r) ==
    /\ op[r] = "publishing"
    /\ \/ /\ revokedEvents' = [revokedEvents EXCEPT ![key[r]] = @ + 1]
          /\ UNCHANGED faults
       \/ Fault /\ UNCHANGED revokedEvents
    /\ Go(r, "answering")
    /\ UNCHANGED <<clock, row, mint, chain, key, swept, answered>>

\* The caller is told that the key is revoked.
AnswerRevoked(r) ==
    /\ op[r] = "answering"
    /\ answered' = answered \union {key[r]}
    /\ Go(r, "done")
    /\ UNCHANGED <<clock, row, mint, chain, key, swept, revokedEvents, faults>>

(***************************************************************************)
(* SendTransaction with a signer.  User-custody wallets are turned away    *)
(* before the signer is looked at.                                         *)
(***************************************************************************)
Guard(r, k, accepts) ==
    /\ op[r] = "idle"
    /\ k \in Platform
    /\ key' = [key EXCEPT ![r] = k]
    /\ Go(r, IF accepts THEN "paying" ELSE "done")
    /\ UNCHANGED <<clock, row, mint, chain, swept, answered, revokedEvents, faults>>

\* Variant: the expiry is looked at, the status is not.
GuardExpiryOnly(r, k) == Guard(r, k, clock <= expires[k])

\* The status is "active" and the expiry has not passed.
SignerGuard(r, k) == Guard(r, k, status[k] = "active" /\ clock <= expires[k])

\* The row is not read again before the rail is called.
Dispatch(r) ==
    /\ op[r] = "paying"
    /\ Go(r, "done")
    /\ UNCHANGED <<clock, row, mint, chain, key, swept, answered,
                   revokedEvents, faults>>

\* The process serving r dies between two of its steps.
Crash(r) ==
    /\ op[r] \notin {"idle", "done"}
    /\ Fault
    /\ Go(r, "done")
    /\ UNCHANGED <<clock, row, mint, chain, key, swept, answered, revokedEvents>>

(***************************************************************************)
(* Rotator.Tick                                                            *)
(***************************************************************************)

\* Variant: the sweep looks for the transient status only.
ExpiredRotating == {k \in Keys : status[k] = "rotating" /\ expires[k] <= clock}

\* ListExpiredSessionKeys: at most Batch rows, earliest expiry first.  No code
\* writes the status "rotating".
ExpiredKeys == {k \in Keys : status[k] = "active" /\ expires[k] <= clock}

ListExpired ==
    /\ swept = {}
    /\ ExpiredKeys # {}
    /\ \E page \in SUBSET ExpiredKeys :
         /\ \/ page = ExpiredKeys /\ Cardinality(page) <= Batch
            \/ Cardinality(page) = Batch
         /\ \A k \in page, l \in ExpiredKeys \ page : expires[k] <= expires[l]
         /\ swept' = page
    /\ UNCHANGED <<clock, row, mint, chain, op, key, answered, revokedEvents, faults>>

\* UpdateSessionKeyStatus: WHERE id only.  A failure is logged and skipped.
Flip(k, to) ==
    /\ k \in swept
    /\ \A l \in swept : expires[k] <= expires[l]
    /\ swept' = swept \ {k}
    /\ \/ /\ status' = [status EXCEPT ![k] = to]
          /\ UNCHANGED faults
       \/ /\ Fault
          /\ UNCHANGED status
    /\ UNCHANGED <<clock, expires, revokedAt, railNative, stamped, mint, chain,
                   op, key, answered, revokedEvents>>

\* Variant: the swept row gets the transient status.
FlipRotating(k) == Flip(k, "rotating")

FlipExpired(k) == Flip(k, "expired")

Tick ==
    /\ clock < LastTime
    /\ clock' = clock + 1
    /\ UNCHANGED <<row, mint, chain, op, key, swept, answered, revokedEvents, faults>>

\* Every request is answered, the clock stands at its bound, nothing is due.
Done ==
    /\ \A k \in Keys : mint[k] \in {"failed", "done"}
    /\ \A r \in Requests : op[r] = "done"
    /\ clock = LastTime
    /\ swept = {}
    /\ ExpiredKeys = {}
    /\ UNCHANGED vars
-----------------------------------------------------------------------------
Create(k) ==
    \/ \E e \in Times, onChainEnforce \in BOOLEAN : StartMint(k, e, onChainEnforce)
    \/ \E e \in Times : PrepareUserCustody(k, e)
    \/ RunOnChainAuthorize(k)
    \/ AuthorizeFails(k)
    \/ InsertActive(k)
    \/ InsertPending(k)
    \/ InsertFails(k)

Handle(r) ==
    \/ \E k \in Keys : SubmitRead(r, k) \/ RevokeRead(r, k) \/ SignerGuard(r, k)
    \/ SubmitBroadcast(r)
    \/ SubmitBroadcastFails(r)
    \/ Activate(r)
    \/ RevokeUpdate(r)
    \/ RevokeMissed(r)
    \/ PublishRevoked(r)
    \/ AnswerRevoked(r)
    \/ Dispatch(r)
    \/ Crash(r)

Rotate == ListExpired \/ \E k \in Keys : FlipExpired(k)

Next ==
    \/ \E k \in Keys : Create(k)
    \/ \E r \in Requests : Handle(r)
    \/ Rotate
    \/ Tick
    \/ Done

\* The rotator runs on a ticker for the life of the process.
Spec     == Init /\ [][Next]_vars
FairSpec == Spec /\ WF_vars(Rotate)
-----------------------------------------------------------------------------
(***************************************************************************)
(* Properties                                                              *)
(***************************************************************************)

\* Type invariant of the session-key rows and of the requests about them.
TypeOK ==
    /\ clock \in Times
    /\ status \in [Keys -> {"absent", "pending_authorize", "active", "revoked",
                            "expired"}]
    /\ expires \in [Keys -> Times]
    /\ revokedAt \in [Keys -> Times \union {Never}]
    /\ railNative \in [Keys -> BOOLEAN]
    /\ stamped \in [Keys -> BOOLEAN]
    /\ mint \in [Keys -> {"idle", "authorize", "insert", "failed", "done"}]
    /\ broadcast \subseteq Keys
    /\ accepted \subseteq Keys
    /\ op \in [Requests -> {"idle", "submitting", "activating", "revoking",
                            "publishing", "answering", "paying", "done"}]
    /\ key \in [Requests -> Keys]
    /\ swept \subseteq Keys
    /\ answered \subseteq Keys
    /\ revokedEvents \in [Keys -> Nat]
    /\ faults \in Nat

\* A rail-native key the gateway treats as active carries the hash of a
\* transaction the node has accepted for it, and when the gateway signed that
\* transaction itself (platform custody) the key is authorized on chain: a failed
\* or racing mint or submit never leaves an active row behind.  What a user's
\* signed bytes do is never looked at, so of a user-custody key no more can be said.
ActiveKeyIsBacked ==
    \A k \in Keys : status[k] = "active" /\ railNative[k] =>
                        /\ stamped[k]
                        /\ k \in accepted
                        /\ k \in Platform => k \in broadcast

\* Once a caller has been told that a platform-custody key is revoked, no later
\* step (a racing revoke, the rotator, a submit-authorize) makes it active again.
RevokeSticks ==
    \A k \in answered \intersect Platform : status[k] \in {"revoked", "expired"}

\* Revocations of one platform-custody key race: whatever the rotator does and
\* whatever is lost, session_key.revoked is published at most once, and only of a
\* key with a revoked_at; and a revoked_at that no event announces belongs to a
\* request that is about to publish it, unless a call has failed.
RevokedOnce ==
    \A k \in Platform :
        /\ revokedEvents[k] <= (IF revokedAt[k] = Never THEN 0 ELSE 1)
        /\ faults = 0 /\ revokedAt[k] # Never /\ revokedEvents[k] = 0 =>
             \E r \in Requests : op[r] = "publishing" /\ key[r] = k

\* SendTransaction takes on no payment with a key whose revocation has been
\* answered; only a payment past the guard by then may still reach the rail.
NoNewPaymentAfterRevoke ==
    [][\A r \in Requests : op[r] = "idle" /\ op'[r] = "paying" =>
                              key'[r] \notin answered]_vars

\* The sweep reaches every key: an active key past its expiry does not stay
\* active, however many rows are due and whichever flips fail.
ExpiredIsSwept ==
    \A k \in Keys : (status[k] = "active" /\ expires[k] <= clock)
                       ~> (status[k] # "active")

\* "repeat revokes don't overwrite the original revoked_at", for every key.
RevokedAtStable ==
    [][\A k \in Keys : revokedAt[k] # Never => revokedAt'[k] = revokedAt[k]]_vars
=============================================================================
