-------------------------- MODULE SessionKeysProofs --------------------------
(***************************************************************************)
(* Proofs about SessionKeys, for any keys, requests, batch size, time and  *)
(* number of faults.                                                       *)
(*                                                                         *)
(* None of the three safety properties is inductive alone.  That a failed  *)
(* or racing submit leaves no active row without a broadcast needs to know *)
(* what a request past its broadcast has done; that the unguarded UPDATE   *)
(* of SubmitAuthorize cannot resurrect a platform-custody key needs to     *)
(* know that such a request is never about one, which goes back to the     *)
(* status its row was inserted with.                                       *)
(***************************************************************************)
EXTENDS SessionKeys, TLAPS

\* A key has no row until the transaction of its mint commits.
MintInv == \A k \in Keys : mint[k] # "done" => status[k] = "absent"

\* A rail-native mint reaches its INSERT only with the key on chain.
AuthorizedInv ==
    \A k \in Platform : mint[k] = "insert" /\ railNative[k] =>
                          k \in broadcast /\ k \in accepted

\* Only user-custody keys ever wait for their owner's signature.
PendingInv == \A k \in Keys : status[k] = "pending_authorize" => k \notin Platform

\* What a submit-authorize request knows of its key.
SubmitInv ==
    \A r \in Requests :
        /\ op[r] \in {"submitting", "activating"} =>
             key[r] \notin Platform /\ mint[key[r]] = "done"
        /\ op[r] = "activating" => key[r] \in accepted

\* A request that revokes has seen a row, and so has the rotator.
SeenInv ==
    /\ \A r \in Requests : op[r] = "revoking" => mint[key[r]] = "done"
    /\ \A k \in swept : mint[k] = "done"

\* A platform-custody key with a revocation is not active, nor ever will be.
RevokedInv ==
    \A k \in Platform : revokedAt[k] # Never => status[k] \in {"revoked", "expired"}

\* What a revoke past its UPDATE knows of its key: revoked_at is written, and of a
\* platform-custody key it alone is to publish the event, which nobody has yet.
PublishInv ==
    /\ \A r \in Requests :
         /\ op[r] \in {"publishing", "answering"} => revokedAt[key[r]] # Never
         /\ op[r] = "publishing" /\ key[r] \in Platform => revokedEvents[key[r]] = 0
    /\ \A r, s \in Requests :
         (/\ op[r] = "publishing" /\ op[s] = "publishing"
          /\ key[r] = key[s] /\ key[r] \in Platform) => r = s

IInv == /\ TypeOK
        /\ MintInv
        /\ AuthorizedInv
        /\ PendingInv
        /\ SubmitInv
        /\ SeenInv
        /\ RevokedInv
        /\ PublishInv
        /\ ActiveKeyIsBacked
        /\ RevokeSticks
        /\ RevokedOnce
-----------------------------------------------------------------------------
\* A clock reading is never mistaken for "not revoked".
LEMMA NeverIsNoTime == Never \notin Times /\ Times \subseteq Nat
BY TimeAssumption DEF Never, Times

\* The initial state: no row, no request, nothing on chain.
LEMMA InitIInv == Init => IInv
<1> SUFFICES ASSUME Init PROVE IInv
  OBVIOUS
<1> USE CustodyAssumption, TimeAssumption DEF Init
<1>1. TypeOK
  <2>1. (CHOOSE k \in Keys : TRUE) \in Keys
    OBVIOUS
  <2> QED BY <2>1 DEF TypeOK, Times
<1>2. /\ MintInv
      /\ AuthorizedInv
      /\ PendingInv
      /\ SubmitInv
      /\ SeenInv
  BY DEF MintInv, AuthorizedInv, PendingInv, SubmitInv, SeenInv, Platform
<1>3. RevokedInv /\ PublishInv /\ ActiveKeyIsBacked /\ RevokeSticks /\ RevokedOnce
  BY DEF RevokedInv, PublishInv, ActiveKeyIsBacked, RevokeSticks, RevokedOnce, Platform
<1> QED BY <1>1, <1>2, <1>3 DEF IInv

\* Every step keeps the types.
LEMMA StepTypeOK == TypeOK /\ [Next]_vars => TypeOK'
<1> SUFFICES ASSUME TypeOK, [Next]_vars PROVE TypeOK'
  OBVIOUS
<1> USE FaultAssumption DEF TypeOK
<1>1. ASSUME NEW k \in Keys, Create(k) PROVE TypeOK'
  <2>1. ASSUME NEW e \in Times, NEW b \in BOOLEAN, StartMint(k, e, b) PROVE TypeOK'
    BY <2>1 DEF StartMint, Start, chain
  <2>2. ASSUME NEW e \in Times, PrepareUserCustody(k, e) PROVE TypeOK'
    BY <2>2 DEF PrepareUserCustody, Start, chain
  <2>3. CASE RunOnChainAuthorize(k)
    BY <2>3 DEF RunOnChainAuthorize, row, chain
  <2>4. CASE AuthorizeFails(k)
    BY <2>4 DEF AuthorizeFails, Fault, row, chain
  <2>5. CASE InsertActive(k)
    BY <2>5 DEF InsertActive, Insert, chain
  <2>6. CASE InsertPending(k)
    BY <2>6 DEF InsertPending, Insert, chain
  <2>7. CASE InsertFails(k)
    BY <2>7 DEF InsertFails, Fault, row, chain
  <2> QED BY <1>1, <2>1, <2>2, <2>3, <2>4, <2>5, <2>6, <2>7 DEF Create
<1>2. ASSUME NEW r \in Requests, Handle(r) PROVE TypeOK'
  <2>1. ASSUME NEW k \in Keys, SubmitRead(r, k) PROVE TypeOK'
    BY <2>1 DEF SubmitRead, Go, row, chain
  <2>2. ASSUME NEW k \in Keys, RevokeRead(r, k) PROVE TypeOK'
    BY <2>2 DEF RevokeRead, Go, row, chain
  <2>3. ASSUME NEW k \in Keys, SignerGuard(r, k) PROVE TypeOK'
    BY <2>3 DEF SignerGuard, Guard, Go, row, chain
  <2>4. CASE SubmitBroadcast(r)
    BY <2>4 DEF SubmitBroadcast, Accepted, Go, row, chain
  <2>5. CASE SubmitBroadcastFails(r)
    BY <2>5 DEF SubmitBroadcastFails, Accepted, Fault, Go, row, chain
  <2>6. CASE Activate(r)
    <3>1. stamped' \in [Keys -> BOOLEAN]
      BY <2>6, Zenon DEF Activate
    <3> QED BY <2>6, <3>1 DEF Activate, Fault, Go, chain
  <2>7. CASE RevokeUpdate(r)
    BY <2>7 DEF RevokeUpdate, Revoked, Go, chain
  <2>8. CASE RevokeMissed(r)
    BY <2>8 DEF RevokeMissed, Revoked, Fault, Go, row, chain
  <2>9. CASE Dispatch(r)
    BY <2>9 DEF Dispatch, Go, row, chain
  <2>10. CASE PublishRevoked(r)
    BY <2>10 DEF PublishRevoked, Fault, Go, row, chain
  <2>11. CASE AnswerRevoked(r)
    BY <2>11 DEF AnswerRevoked, Go, row, chain
  <2>12. CASE Crash(r)
    BY <2>12 DEF Crash, Fault, Go, row, chain
  <2> QED BY <1>2, <2>1, <2>2, <2>3, <2>4, <2>5, <2>6, <2>7, <2>8, <2>9, <2>10,
           <2>11, <2>12 DEF Handle
<1>3. CASE Rotate
  <2>1. CASE ListExpired
    BY <2>1 DEF ListExpired, ExpiredKeys, row, chain
  <2>2. ASSUME NEW k \in Keys, FlipExpired(k) PROVE TypeOK'
    BY <2>2 DEF FlipExpired, Flip, Fault, chain
  <2> QED BY <1>3, <2>1, <2>2 DEF Rotate
<1>4. CASE Tick
  BY <1>4, TimeAssumption DEF Tick, row, chain, Times
<1>5. CASE Done \/ UNCHANGED vars
  BY <1>5 DEF Done, vars, row, chain
<1> QED BY <1>1, <1>2, <1>3, <1>4, <1>5 DEF Next
-----------------------------------------------------------------------------
(***************************************************************************)
(* The inductive step, one action at a time                                *)
(***************************************************************************)

\* The steps of a request that creates a key.
LEMMA CreateStep ==
  ASSUME IInv, TypeOK', NEW k \in Keys, Create(k)
  PROVE  IInv'
<1> USE NeverIsNoTime DEF IInv, TypeOK, MintInv, AuthorizedInv, PendingInv, SubmitInv,
        SeenInv, RevokedInv, PublishInv, ActiveKeyIsBacked, RevokeSticks, RevokedOnce, Platform
<1>1. ASSUME NEW e \in Times, NEW b \in BOOLEAN, StartMint(k, e, b) PROVE IInv'
  BY <1>1 DEF StartMint, Start, chain
<1>2. ASSUME NEW e \in Times, PrepareUserCustody(k, e) PROVE IInv'
  BY <1>2 DEF PrepareUserCustody, Start, chain
<1>3. CASE RunOnChainAuthorize(k)
  BY <1>3 DEF RunOnChainAuthorize, row, chain
<1>4. CASE AuthorizeFails(k)
  BY <1>4 DEF AuthorizeFails, Fault, row, chain
<1>5. CASE InsertActive(k)
  BY <1>5 DEF InsertActive, Insert, chain
<1>6. CASE InsertPending(k)
  BY <1>6 DEF InsertPending, Insert, chain
<1>7. CASE InsertFails(k)
  BY <1>7 DEF InsertFails, Fault, row, chain
<1> QED BY <1>1, <1>2, <1>3, <1>4, <1>5, <1>6, <1>7 DEF Create

\* The steps of a revoke, a submit-authorize or a send.
LEMMA HandleStep ==
  ASSUME IInv, TypeOK', NEW r \in Requests, Handle(r)
  PROVE  IInv'
<1> USE NeverIsNoTime DEF IInv, TypeOK, MintInv, AuthorizedInv, PendingInv, SubmitInv,
        SeenInv, RevokedInv, PublishInv, ActiveKeyIsBacked, RevokeSticks, RevokedOnce, Platform
<1>1. ASSUME NEW k \in Keys, SubmitRead(r, k) PROVE IInv'
  BY <1>1 DEF SubmitRead, Go, row, chain
<1>2. ASSUME NEW k \in Keys, RevokeRead(r, k) PROVE IInv'
  BY <1>2 DEF RevokeRead, Go, row, chain
<1>3. ASSUME NEW k \in Keys, SignerGuard(r, k) PROVE IInv'
  BY <1>3 DEF SignerGuard, Guard, Go, row, chain
<1>4. CASE SubmitBroadcast(r)
  BY <1>4 DEF SubmitBroadcast, Accepted, Go, row, chain
<1>5. CASE SubmitBroadcastFails(r)
  BY <1>5 DEF SubmitBroadcastFails, Accepted, Fault, Go, row, chain
<1>6. CASE Activate(r)
  BY <1>6 DEF Activate, Fault, Go, chain
<1>7. CASE RevokeUpdate(r)
  BY <1>7 DEF RevokeUpdate, Revoked, Go, chain
<1>8. CASE RevokeMissed(r)
  BY <1>8 DEF RevokeMissed, Revoked, Fault, Go, row, chain
<1>9. CASE Dispatch(r)
  BY <1>9 DEF Dispatch, Go, row, chain
<1>10. CASE PublishRevoked(r)
  BY <1>10 DEF PublishRevoked, Fault, Go, row, chain
<1>11. CASE AnswerRevoked(r)
  BY <1>11 DEF AnswerRevoked, Go, row, chain
<1>12. CASE Crash(r)
  BY <1>12 DEF Crash, Fault, Go, row, chain
<1> QED BY <1>1, <1>2, <1>3, <1>4, <1>5, <1>6, <1>7, <1>8, <1>9, <1>10,
           <1>11, <1>12 DEF Handle

\* The sweep, the clock and the stuttering steps.
LEMMA OtherStep ==
  ASSUME IInv, TypeOK', Rotate \/ Tick \/ Done \/ UNCHANGED vars
  PROVE  IInv'
<1> USE NeverIsNoTime DEF IInv, TypeOK, MintInv, AuthorizedInv, PendingInv, SubmitInv,
        SeenInv, RevokedInv, PublishInv, ActiveKeyIsBacked, RevokeSticks, RevokedOnce, Platform
<1>1. CASE ListExpired
  BY <1>1 DEF ListExpired, ExpiredKeys, row, chain
<1>2. ASSUME NEW k \in Keys, FlipExpired(k) PROVE IInv'
  BY <1>2 DEF FlipExpired, Flip, Fault, chain
<1>3. CASE Tick \/ Done \/ UNCHANGED vars
  BY <1>3 DEF Tick, Done, vars, row, chain
<1> QED BY <1>1, <1>2, <1>3 DEF Rotate

\* The inductive invariant holds in every state the handlers and the rotator
\* reach, however they interleave.
THEOREM KeyLifecycle == Spec => []IInv
<1>1. IInv /\ [Next]_vars => IInv'
  <2> SUFFICES ASSUME IInv, [Next]_vars PROVE IInv'
    OBVIOUS
  <2>1. TypeOK'
    BY StepTypeOK DEF IInv
  <2> QED BY <2>1, CreateStep, HandleStep, OtherStep DEF Next
<1> QED BY <1>1, InitIInv, PTL DEF Spec

\* Every variable of the session-key module keeps its type.
THEOREM TypeCorrect == Spec => []TypeOK
<1>1. IInv => TypeOK
  BY DEF IInv
<1> QED BY <1>1, KeyLifecycle, PTL

\* No mint or submit-authorize, failed or racing, leaves a rail-native key active
\* in the database without a transaction that the node accepted for it, nor a
\* platform-custody one that is not authorized on chain.
THEOREM Backed == Spec => []ActiveKeyIsBacked
<1>1. IInv => ActiveKeyIsBacked
  BY DEF IInv
<1> QED BY <1>1, KeyLifecycle, PTL

\* A revocation of a platform-custody key, once answered, is never undone.
THEOREM Sticks == Spec => []RevokeSticks
<1>1. IInv => RevokeSticks
  BY DEF IInv
<1> QED BY <1>1, KeyLifecycle, PTL

\* Racing revocations of a platform-custody key publish session_key.revoked at
\* most once, and a revoked_at stays unannounced only if a call has failed.
THEOREM Once == Spec => []RevokedOnce
<1>1. IInv => RevokedOnce
  BY DEF IInv
<1> QED BY <1>1, KeyLifecycle, PTL

\* The signer guard takes on no payment with a key whose revocation has been
\* answered: the only step into "paying" reads an active platform-custody row.
THEOREM NoPayment == Spec => NoNewPaymentAfterRevoke
<1>1. IInv /\ [Next]_vars =>
        [\A r \in Requests : op[r] = "idle" /\ op'[r] = "paying" =>
                                key'[r] \notin answered]_vars
  <2> SUFFICES ASSUME IInv, Next,
                      NEW r \in Requests, op[r] = "idle", op'[r] = "paying"
               PROVE  key'[r] \notin answered
    OBVIOUS
  <2> USE DEF IInv, TypeOK
  <2>1. op' # op
    OBVIOUS
  <2>2. PICK s \in Requests : Handle(s)
    BY <2>1 DEF Next, Create, StartMint, PrepareUserCustody, Start,
         RunOnChainAuthorize, AuthorizeFails, InsertActive, InsertPending, Insert,
         InsertFails, Rotate, ListExpired, FlipExpired, Flip, Tick, Done, vars
  <2>3. \E k \in Keys : SignerGuard(r, k) /\ status[k] = "active"
    BY <2>2 DEF Handle, SubmitRead, RevokeRead, SignerGuard, Guard, SubmitBroadcast,
         SubmitBroadcastFails, Activate, RevokeUpdate, Revoked, RevokeMissed,
         PublishRevoked, AnswerRevoked, Dispatch, Crash, Go
  <2> QED BY <2>3 DEF SignerGuard, Guard, RevokeSticks
<1> QED BY <1>1, KeyLifecycle, PTL DEF Spec, NoNewPaymentAfterRevoke
=============================================================================
