--------------------------- MODULE AccountsProofs ---------------------------
(***************************************************************************)
(* Proofs about Accounts, for any number of signups, keys, minutes and     *)
(* faults, and any finite number of requests.                              *)
(*                                                                         *)
(* The rate limiter compares what its own INCR returned, so its counter    *)
(* bounds the requests it lets through from above, and is bounded by the   *)
(* requests that were counted from below: both are needed, the one for the *)
(* limit and the other for the 429s.  What a request is counted under, its *)
(* caller and its window, is fixed before it is counted.                   *)
(***************************************************************************)
EXTENDS Accounts, FiniteSetTheorems, TLAPS

\* Where signup g is says what its transaction has done.
SignupInv ==
    \A g \in Signups :
        /\ spc[g] = "rows" <=> tenant[g] = "open"
        /\ spc[g] \in {"idle", "conflict", "refused"} => tenant[g] = "absent"
        /\ spc[g] = "created" => tenant[g] = "committed"
        /\ tenant[g] = "committed" => inserted[g] = Len(Statements)
        /\ tenant[g] = "absent" => inserted[g] = 0
        /\ \A e \in Envs :
             owner[Minted[g][e]] = IF tenant[g] = "committed" THEN g ELSE None

\* The unique index on primary_email covers open transactions too.
EmailInv ==
    \A g, h \in Signups : /\ tenant[g] # "absent"
                          /\ tenant[h] # "absent"
                          /\ email[g] = email[h]
                          => g = h

\* Where a /v1 request is says what it has been through.
CallInv ==
    \A r \in Requests :
        /\ pc[r] \in {"idle", "unauthorized", "authed", "limiting"} => gate[r] = "none"
        /\ pc[r] \notin {"idle", "unauthorized"} => caller[r] \in Signups
        /\ pc[r] = "revoking" => target[r] \in Keys /\ owner[target[r]] = caller[r]

\* A revoke that was answered has been written.
AnsweredInv == \A k \in answered : revokedBy[k] # None

\* A key is revoked only by a request of the tenant it belongs to.
OwnRevokesOnly ==
    \A k \in Keys : revokedBy[k] # None =>
        /\ owner[k] \in Signups
        /\ caller[revokedBy[k]] = owner[k]
        /\ pc[revokedBy[k]] # "idle"

\* The requests a counter has counted, and those the limiter let through.
Counters(t, m) == Passed(t, m, {"passed", "open", "refused"})
Admitted(t, m) == Passed(t, m, {"passed", "open"})

\* The counter of a window against the requests of that window.
RateInv ==
    \A t \in Signups, m \in Minutes :
        /\ Cardinality(Passed(t, m, {"passed"})) <= count[t][m]
        /\ Cardinality(Passed(t, m, {"passed"})) <= Limit
        /\ count[t][m] <= Cardinality(Counters(t, m))
        /\ count[t][m] <= Limit => count[t][m] <= Cardinality(Admitted(t, m))
        /\ count[t][m] > Limit => Limit <= Cardinality(Admitted(t, m))

\* A refused request is of a window whose counter is past the limit.
RefusedInv ==
    \A r \in Requests : gate[r] = "refused" => count[caller[r]][window[r]] > Limit

IInv == /\ TypeOK
        /\ SignupInv
        /\ EmailInv
        /\ CallInv
        /\ AnsweredInv
        /\ OwnRevokesOnly
        /\ RateInv
        /\ RefusedInv
-----------------------------------------------------------------------------
\* Signup runs four statements after the tenant's.
LEMMA FourStatements == Len(Statements) = 4
BY DEF Statements

\* The keys Signup mints are keys, and no two are the same.
LEMMA MintedKeys ==
  /\ \A g \in Signups, e \in Envs : Minted[g][e] \in Keys
  /\ \A g, h \in Signups, d, e \in Envs : Minted[g][d] = Minted[h][e] => g = h /\ d = e
BY MintedAssumption

\* The number of requests is a number.
LEMMA RequestCount == Cardinality(Requests) \in Nat
BY FiniteAssumption, FS_CardinalityType

\* Counting a failed call keeps the count within its bound.
LEMMA FaultType == ASSUME TypeOK, Fault \/ UNCHANGED faults PROVE faults' \in 0..MaxFaults
BY BoundAssumption DEF TypeOK, Fault

\* The requests of a window are finitely many.
LEMMA PassedFinite ==
  ASSUME NEW t, NEW m, NEW how
  PROVE  /\ IsFiniteSet(Passed(t, m, how))
         /\ Cardinality(Passed(t, m, how)) \in Nat
         /\ Cardinality(Passed(t, m, how)) <= Cardinality(Requests)
         /\ Cardinality(Requests) \in Nat
<1>1. Passed(t, m, how) \subseteq Requests
  BY DEF Passed
<1> QED BY <1>1, FiniteAssumption, FS_Subset, FS_CardinalityType

\* A request that the limiter has counted adds one to the requests of its window.
LEMMA PassedGrows ==
  ASSUME IInv, NEW r \in Requests, RateLimit(r), NEW t, NEW m,
         NEW how \in SUBSET {"passed", "open", "refused"}
  PROVE  Cardinality(Passed(t, m, how))' = Cardinality(Passed(t, m, how)) +
           IF t = caller[r] /\ m = window[r] /\ gate'[r] \in how THEN 1 ELSE 0
<1>1. gate[r] = "none"
  BY DEF RateLimit, IInv, CallInv
<1>2. r \notin Passed(t, m, how)
  BY <1>1 DEF Passed
<1>3. CASE t = caller[r] /\ m = window[r] /\ gate'[r] \in how
  <2>1. Passed(t, m, how)' = Passed(t, m, how) \union {r}
    BY <1>3 DEF RateLimit, Passed, IInv, TypeOK
  <2>2. Cardinality(Passed(t, m, how) \union {r}) = Cardinality(Passed(t, m, how)) + 1
    BY <1>2, PassedFinite, FS_AddElement
  <2> QED BY <1>3, <2>1, <2>2
<1>4. CASE ~ (t = caller[r] /\ m = window[r] /\ gate'[r] \in how)
  <2>1. Passed(t, m, how)' = Passed(t, m, how)
    BY <1>1, <1>2, <1>4 DEF RateLimit, Passed, IInv, TypeOK
  <2> QED BY <1>4, <2>1, PassedFinite
<1> QED BY <1>3, <1>4

\* No other step counts a request, and none moves one that was counted.
LEMMA RateFrame ==
  ASSUME IInv, gate' = gate, count' = count,
         \A r \in Requests : gate[r] # "none" =>
            caller'[r] = caller[r] /\ window'[r] = window[r]
  PROVE  RateInv' /\ RefusedInv'
<1>1. ASSUME NEW t, NEW m, NEW how \in SUBSET {"passed", "open", "refused"}
      PROVE  Passed(t, m, how)' = Passed(t, m, how)
  BY DEF Passed
<1>2. RateInv'
  BY <1>1 DEF IInv, RateInv, Counters, Admitted
<1>3. RefusedInv'
  BY DEF IInv, RefusedInv
<1> QED BY <1>2, <1>3

\* The initial state: no tenant, no key, no request.
LEMMA InitIInv == Init => IInv
<1> SUFFICES ASSUME Init PROVE IInv
  OBVIOUS
<1>1. TypeOK
  <2>1. minute \in Minutes /\ faults \in 0..MaxFaults /\ window \in [Requests -> Minutes]
    BY BoundAssumption DEF Init, Minutes
  <2>2. inserted \in [Signups -> 0..Len(Statements)]
    BY FourStatements DEF Init
  <2>3. count \in [Signups -> [Minutes -> 0..Cardinality(Requests)]]
    BY RequestCount DEF Init
  <2> QED BY <2>1, <2>2, <2>3, EnvAssumption DEF Init, TypeOK
<1>2. SignupInv /\ EmailInv
  BY MintedKeys DEF Init, SignupInv, EmailInv
<1>3. CallInv /\ AnsweredInv /\ OwnRevokesOnly /\ RefusedInv
  BY NoneAssumption DEF Init, CallInv, AnsweredInv, OwnRevokesOnly, RefusedInv
<1>4. RateInv
  <2> SUFFICES ASSUME NEW t \in Signups, NEW m \in Minutes
               PROVE  /\ Cardinality(Passed(t, m, {"passed"})) <= count[t][m]
                      /\ Cardinality(Passed(t, m, {"passed"})) <= Limit
                      /\ count[t][m] <= Cardinality(Counters(t, m))
                      /\ count[t][m] <= Limit => count[t][m] <= Cardinality(Admitted(t, m))
                      /\ count[t][m] > Limit => Limit <= Cardinality(Admitted(t, m))
    BY DEF RateInv
  <2>1. Passed(t, m, {"passed"}) = {} /\ count[t][m] = 0
    BY DEF Init, Passed
  <2>2. Cardinality(Passed(t, m, {"passed"})) = 0
    BY <2>1, FS_EmptySet
  <2> QED BY <2>1, <2>2, PassedFinite, BoundAssumption DEF Counters, Admitted
<1> QED BY <1>1, <1>2, <1>3, <1>4 DEF IInv
-----------------------------------------------------------------------------
(***************************************************************************)
(* Signup and Login                                                        *)
(***************************************************************************)

\* The statements of Signup and Login keep the types.
LEMMA SignupTypeOK ==
  ASSUME IInv, NEW g \in Signups, Signup(g) \/ Login(g) PROVE TypeOK'
<1> USE DEF IInv, TypeOK, SGo, account, keyRows, call
<1>0. faults' \in 0..MaxFaults
  BY FaultType DEF Signup, CreateTenant, RefuseSignup, InsertRow, CommitSignup, Login
<1>1. CASE CreateTenant(g)
  BY <1>0, <1>1 DEF CreateTenant
<1>2. CASE RefuseSignup(g)
  BY <1>0, <1>2 DEF RefuseSignup
<1>3. CASE InsertRow(g)
  <2>1. inserted' \in [Signups -> 0..Len(Statements)]
    BY <1>3, FourStatements DEF InsertRow, Rollback
  <2> QED BY <1>0, <1>3, <2>1 DEF InsertRow, Rollback
<1>4. CASE CommitSignup(g)
  <2>1. ASSUME Committed(g)
        PROVE  /\ owner' \in [Keys -> Signups \union {None}]
               /\ keyEnv' \in [Keys -> Envs]
    BY <2>1 DEF Committed
  <2>2. inserted' \in [Signups -> 0..Len(Statements)]
    BY <1>4, FourStatements DEF CommitSignup, Committed, Rollback
  <2>3. CASE Committed(g)
    BY <1>0, <1>4, <2>1, <2>2, <2>3 DEF CommitSignup, Committed
  <2>4. CASE Rollback(g) /\ UNCHANGED <<owner, keyEnv>>
    BY <1>0, <1>4, <2>2, <2>4 DEF CommitSignup, Rollback
  <2> QED BY <1>4, <2>3, <2>4 DEF CommitSignup
<1>5. CASE Login(g)
  <2>1. minute + TTL \in Nat
    BY BoundAssumption DEF Minutes
  <2>2. tokens' \subseteq Signups \X Nat
    BY <1>5, <2>1 DEF Login
  <2> QED BY <1>0, <1>5, <2>2 DEF Login
<1> HIDE DEF IInv, TypeOK
<1> QED BY <1>1, <1>2, <1>3, <1>4, <1>5 DEF Signup

\* The transaction of a signup inserts all of its rows or none: no other step
\* touches its row, and no other step inserts the keys it mints.
LEMMA SignupSteps ==
  ASSUME IInv, NEW g \in Signups, Signup(g) \/ Login(g) PROVE SignupInv' /\ EmailInv'
<1> USE DEF IInv, TypeOK, SignupInv, EmailInv, SGo, account, keyRows
<1>1. CASE CreateTenant(g)
  <2>1. SignupInv'
    BY <1>1 DEF CreateTenant
  <2>2. EmailInv'
    <3>1. email' = email /\ \A h \in Signups \ {g} : tenant'[h] = tenant[h]
      BY <1>1 DEF CreateTenant
    <3>2. tenant'[g] # "absent" =>
            \A h \in Signups \ {g} : tenant[h] # "absent" => email[h] # email[g]
      BY <1>1 DEF CreateTenant, Holders
    <3> QED BY <3>1, <3>2
  <2> QED BY <2>1, <2>2
<1>2. CASE RefuseSignup(g)
  BY <1>2 DEF RefuseSignup
<1>3. CASE InsertRow(g)
  <2>1. CASE Rollback(g) /\ SGo(g, "error")
    BY <1>3, <2>1 DEF InsertRow, Rollback
  <2>2. CASE inserted' = [inserted EXCEPT ![g] = @ + 1] /\ UNCHANGED <<spc, tenant>>
    BY <1>3, <2>2 DEF InsertRow
  <2> QED BY <1>3, <2>1, <2>2 DEF InsertRow
<1>4. CASE CommitSignup(g)
  <2>1. CASE Committed(g)
    <3>1. /\ tenant' = [tenant EXCEPT ![g] = "committed"] /\ inserted' = inserted
          /\ email' = email
      BY <1>4, <2>1 DEF CommitSignup, Committed
    <3>2. \A h \in Signups, e \in Envs :
            owner'[Minted[h][e]] = IF h = g THEN g ELSE owner[Minted[h][e]]
      BY <2>1, MintedKeys DEF Committed
    <3>3. SignupInv'
      BY <1>4, <3>1, <3>2 DEF CommitSignup
    <3>4. EmailInv'
      BY <1>4, <3>1 DEF CommitSignup
    <3> QED BY <3>3, <3>4
  <2>2. CASE Rollback(g) /\ UNCHANGED <<owner, keyEnv>>
    <3>1. spc' = [spc EXCEPT ![g] = "error"] \/ (spc' = [spc EXCEPT ![g] = "created"] /\ Committed(g))
      BY <1>4, <2>2 DEF CommitSignup
    <3> QED BY <1>4, <2>1, <2>2, <3>1 DEF CommitSignup, Rollback
  <2> QED BY <1>4, <2>1, <2>2 DEF CommitSignup
<1>5. CASE Login(g)
  BY <1>5 DEF Login
<1> HIDE DEF IInv, TypeOK, SignupInv, EmailInv
<1> QED BY <1>1, <1>2, <1>3, <1>4, <1>5 DEF Signup

\* A commit gives an owner only to keys that had none, so what requests know of the
\* owner of a key stays true.
LEMMA SignupOthers ==
  ASSUME IInv, NEW g \in Signups, Signup(g) \/ Login(g)
  PROVE  CallInv' /\ AnsweredInv' /\ OwnRevokesOnly' /\ RateInv' /\ RefusedInv'
<1>1. UNCHANGED <<pc, cred, caller, window, gate, target, count, answered, revokedBy>>
  BY DEF Signup, CreateTenant, RefuseSignup, InsertRow, CommitSignup, Login, call, keyRows
<1>2. \A k \in Keys : owner[k] # None => owner'[k] = owner[k]
  <2>1. CASE owner' = owner
    BY <2>1
  <2>2. CASE CommitSignup(g) /\ Committed(g)
    <3>1. tenant[g] # "committed"
      BY <2>2 DEF CommitSignup, IInv, SignupInv
    <3>2. \A e \in Envs : owner[Minted[g][e]] = None
      BY <3>1 DEF IInv, SignupInv
    <3> QED BY <2>2, <3>2 DEF Committed
  <2> QED BY <2>1, <2>2 DEF Signup, CreateTenant, RefuseSignup, InsertRow, CommitSignup,
                            Login, keyRows
<1>3. CallInv' /\ AnsweredInv' /\ OwnRevokesOnly'
  BY <1>1, <1>2, NoneAssumption DEF IInv, TypeOK, CallInv, AnsweredInv, OwnRevokesOnly
<1> QED BY <1>1, <1>3, RateFrame
-----------------------------------------------------------------------------
(***************************************************************************)
(* The path of a /v1 request                                               *)
(***************************************************************************)

\* The requests a counter has counted are at most all requests, so the INCR of a
\* request that was not counted yet keeps the counter in its type.
LEMMA CountType ==
  ASSUME IInv, NEW r \in Requests, pc[r] = "limiting", Counted(r)
  PROVE  count' \in [Signups -> [Minutes -> 0..Cardinality(Requests)]]
<1> DEFINE t == caller[r]
           m == window[r]
           others == Requests \ {r}
<1>1. t \in Signups /\ m \in Minutes /\ gate[r] = "none"
  BY DEF IInv, TypeOK, CallInv
<1>2. count[t][m] \in Nat
  BY <1>1 DEF IInv, TypeOK
<1>3. Counters(t, m) \subseteq others
  BY <1>1 DEF Counters, Passed
<1>4. /\ IsFiniteSet(others)
      /\ Cardinality(others) = Cardinality(Requests) - 1
  BY FiniteAssumption, FS_RemoveElement
<1>5. Cardinality(Counters(t, m)) \in Nat /\ Cardinality(Counters(t, m)) <= Cardinality(others)
  BY <1>3, <1>4, FS_Subset, PassedFinite DEF Counters
<1>6. count[t][m] <= Cardinality(Counters(t, m))
  BY <1>1 DEF IInv, RateInv
<1>7. count[t][m] + 1 \in 0..Cardinality(Requests)
  BY <1>2, <1>4, <1>5, <1>6, RequestCount
<1> HIDE DEF others
<1> QED BY <1>1, <1>7 DEF Counted, IInv, TypeOK

\* Every step of a request keeps the types.
LEMMA HandleTypeOK == ASSUME IInv, NEW r \in Requests, Handle(r) PROVE TypeOK'
<1> USE DEF IInv, TypeOK, Go, account, keyRows, call
<1>0. faults' \in 0..MaxFaults
  BY FaultType DEF Handle, APIKeyAuth, RevokeRead, CreateAPIKey, SessionAuth, SampleWindow,
       RateLimit, RevokeAPIKey, OtherHandler
<1>1. ASSUME NEW k \in Keys, APIKeyAuth(r, k) PROVE TypeOK'
  BY <1>0, <1>1 DEF APIKeyAuth, Authenticated
<1>2. ASSUME NEW k \in Keys, RevokeRead(r, k) PROVE TypeOK'
  <2>1. target' \in [Requests -> Keys \union {NoKey}] /\ answered' \subseteq Keys
    BY <1>2 DEF RevokeRead
  <2>2. pc' \in [Requests -> {"idle", "unauthorized", "authed", "limiting", "tooMany",
                              "handling", "revoking", "notFound", "answered", "error"}]
    BY <1>2 DEF RevokeRead
  <2> QED BY <1>0, <1>2, <2>1, <2>2 DEF RevokeRead
<1>3. ASSUME NEW k \in Keys, NEW e \in Envs, CreateAPIKey(r, k, e) PROVE TypeOK'
  <2>1. owner' \in [Keys -> Signups \union {None}] /\ keyEnv' \in [Keys -> Envs]
    <3>1. CASE UNCHANGED <<owner, keyEnv>>
      BY <3>1
    <3>2. CASE /\ owner' = [owner EXCEPT ![k] = caller[r]]
               /\ keyEnv' = [keyEnv EXCEPT ![k] = e]
      BY <3>2
    <3> QED BY <1>3, <3>1, <3>2 DEF CreateAPIKey, KeyInserted
  <2> QED BY <1>0, <1>3, <2>1 DEF CreateAPIKey
<1>4. ASSUME NEW tok \in tokens, SessionAuth(r, tok) PROVE TypeOK'
  <2>1. tok[1] \in Signups
    OBVIOUS
  <2> QED BY <1>0, <1>4, <2>1 DEF SessionAuth, Authenticated
<1>5. CASE SampleWindow(r)
  BY <1>0, <1>5 DEF SampleWindow
<1>6. CASE RateLimit(r)
  <2>1. count' \in [Signups -> [Minutes -> 0..Cardinality(Requests)]]
    BY <1>6, CountType DEF RateLimit
  <2>2. /\ gate' \in [Requests -> {"none", "passed", "open", "refused"}]
        /\ pc' \in [Requests -> {"idle", "unauthorized", "authed", "limiting", "tooMany",
                                 "handling", "revoking", "notFound", "answered", "error"}]
    BY <1>6 DEF RateLimit
  <2> QED BY <1>0, <1>6, <2>1, <2>2 DEF RateLimit
<1>7. CASE RevokeAPIKey(r)
  <2>1. target[r] \in Keys
    BY <1>7 DEF RevokeAPIKey, CallInv
  <2>2. revokedBy' \in [Keys -> Requests \union {None}] /\ answered' \subseteq Keys
    BY <1>7, <2>1 DEF RevokeAPIKey, KeyRevoked
  <2> QED BY <1>0, <1>7, <2>2 DEF RevokeAPIKey
<1>8. CASE OtherHandler(r)
  BY <1>0, <1>8 DEF OtherHandler
<1> HIDE DEF IInv, TypeOK
<1> QED BY <1>1, <1>2, <1>3, <1>4, <1>5, <1>6, <1>7, <1>8 DEF Handle

\* A request leaves the tenants alone, and an API key it creates is none that a
\* signup mints.
LEMMA HandleAccounts ==
  ASSUME IInv, NEW r \in Requests, Handle(r)
  PROVE  /\ SignupInv' /\ EmailInv'
         /\ \A k \in Keys : owner[k] # None => owner'[k] = owner[k]
<1>1. UNCHANGED <<spc, email, tenant, inserted>>
  BY DEF Handle, APIKeyAuth, RevokeRead, CreateAPIKey, SessionAuth, SampleWindow,
       RateLimit, RevokeAPIKey, OtherHandler, account
<1>2. \/ owner' = owner
      \/ \E k \in Keys : /\ owner[k] = None
                          /\ \A g \in Signups, d \in Envs : k # Minted[g][d]
                          /\ owner' = [owner EXCEPT ![k] = caller[r]]
  BY DEF Handle, APIKeyAuth, RevokeRead, CreateAPIKey, KeyInserted, SessionAuth,
       SampleWindow, RateLimit, RevokeAPIKey, OtherHandler, keyRows
<1>3. \A g \in Signups, e \in Envs : owner'[Minted[g][e]] = owner[Minted[g][e]]
  BY <1>2, MintedKeys DEF IInv, TypeOK
<1>4. SignupInv' /\ EmailInv'
  BY <1>1, <1>3 DEF IInv, SignupInv, EmailInv
<1> QED BY <1>2, <1>4 DEF IInv, TypeOK

\* Authentication names the tenant of a request that has done nothing yet.
LEMMA Entering ==
  ASSUME IInv, NEW r \in Requests,
         UNCHANGED <<owner, revokedBy, target, answered, gate>>,
         pc[r] = "idle", pc'[r] \in {"authed", "unauthorized"},
         pc'[r] = "authed" => caller'[r] \in Signups,
         \A u \in Requests \ {r} : pc'[u] = pc[u] /\ caller'[u] = caller[u]
  PROVE  CallInv' /\ AnsweredInv' /\ OwnRevokesOnly'
<1>1. CallInv'
  BY DEF IInv, CallInv
<1>2. AnsweredInv'
  BY DEF IInv, AnsweredInv
<1>3. \A k \in Keys : revokedBy[k] # None => revokedBy[k] \in Requests \ {r}
  BY DEF IInv, TypeOK, OwnRevokesOnly
<1>4. OwnRevokesOnly'
  BY <1>3 DEF IInv, OwnRevokesOnly
<1> QED BY <1>1, <1>2, <1>4

\* What is known of a request at its place stays true, and only a revoke of the
\* key's own tenant, of a key not revoked yet, writes revoked_at.
LEMMA HandleCalls ==
  ASSUME IInv, NEW r \in Requests, Handle(r)
  PROVE  CallInv' /\ AnsweredInv' /\ OwnRevokesOnly'
<1> DEFINE Goal == CallInv' /\ AnsweredInv' /\ OwnRevokesOnly'
<1>0. \A k \in Keys : owner[k] # None => owner'[k] = owner[k]
  BY HandleAccounts
<1> USE <1>0, NoneAssumption
    DEF IInv, TypeOK, CallInv, AnsweredInv, OwnRevokesOnly, Go, keyRows, call
<1>1. ASSUME NEW k \in Keys, APIKeyAuth(r, k) PROVE Goal
  <2>1. /\ UNCHANGED <<owner, revokedBy, target, answered, gate>>
        /\ pc[r] = "idle" /\ pc'[r] \in {"authed", "unauthorized"}
        /\ pc'[r] = "authed" => caller'[r] \in Signups
        /\ \A u \in Requests \ {r} : pc'[u] = pc[u] /\ caller'[u] = caller[u]
    BY <1>1 DEF APIKeyAuth, Authenticated, GetAPIKeyByHash
  <2> QED BY <2>1, Entering
<1>2. ASSUME NEW k \in Keys, RevokeRead(r, k) PROVE Goal
  BY <1>2 DEF RevokeRead, OfTenant
<1>3. ASSUME NEW k \in Keys, NEW e \in Envs, CreateAPIKey(r, k, e) PROVE Goal
  BY <1>3 DEF CreateAPIKey, KeyInserted
<1>4. ASSUME NEW tok \in tokens, SessionAuth(r, tok) PROVE Goal
  <2>1. tok[1] \in Signups
    OBVIOUS
  <2>2. /\ UNCHANGED <<owner, revokedBy, target, answered, gate>>
        /\ pc[r] = "idle" /\ pc'[r] \in {"authed", "unauthorized"}
        /\ pc'[r] = "authed" => caller'[r] \in Signups
        /\ \A u \in Requests \ {r} : pc'[u] = pc[u] /\ caller'[u] = caller[u]
    BY <1>4, <2>1 DEF SessionAuth, Authenticated
  <2> QED BY <2>2, Entering
<1>5. CASE SampleWindow(r)
  BY <1>5 DEF SampleWindow
<1>6. CASE RateLimit(r)
  BY <1>6 DEF RateLimit
<1>7. CASE RevokeAPIKey(r)
  <2>1. target[r] \in Keys /\ owner[target[r]] = caller[r] /\ caller[r] \in Signups
    BY <1>7 DEF RevokeAPIKey
  <2>2. CASE /\ revokedBy' = [revokedBy EXCEPT ![target[r]] = r]
             /\ answered' \subseteq answered \union {target[r]}
             /\ pc'[r] \in {"answered", "error"}
             /\ \A u \in Requests \ {r} : pc'[u] = pc[u]
    <3>1. CallInv'
      BY <1>7, <2>2 DEF RevokeAPIKey
    <3>2. AnsweredInv'
      BY <1>7, <2>1, <2>2 DEF RevokeAPIKey
    <3>3. OwnRevokesOnly'
      BY <1>7, <2>1, <2>2 DEF RevokeAPIKey
    <3> QED BY <3>1, <3>2, <3>3
  <2>3. CASE UNCHANGED <<revokedBy, answered>> /\ pc' = [pc EXCEPT ![r] = "error"]
    BY <1>7, <2>3 DEF RevokeAPIKey
  <2>4. CASE KeyRevoked(r)
    BY <1>7, <2>2, <2>4 DEF RevokeAPIKey, KeyRevoked
  <2>5. CASE ~ KeyRevoked(r)
    BY <1>7, <2>3, <2>5 DEF RevokeAPIKey
  <2> QED BY <2>4, <2>5
<1>8. CASE OtherHandler(r)
  BY <1>8 DEF OtherHandler
<1> HIDE DEF IInv, TypeOK, CallInv, AnsweredInv, OwnRevokesOnly
<1> QED BY <1>1, <1>2, <1>3, <1>4, <1>5, <1>6, <1>7, <1>8 DEF Handle

\* The limiter keeps its counters in step with the requests it counts.
LEMMA HandleRate ==
  ASSUME IInv, NEW r \in Requests, Handle(r)
  PROVE  RateInv' /\ RefusedInv'
<1>1. CASE RateLimit(r)
  <2> DEFINE t0 == caller[r]
             m0 == window[r]
             C(t, m, how) == Cardinality(Passed(t, m, how))
             One(t, m, how) == IF t = t0 /\ m = m0 /\ gate'[r] \in how THEN 1 ELSE 0
  <2>1. t0 \in Signups /\ m0 \in Minutes /\ gate[r] = "none"
    BY <1>1 DEF RateLimit, IInv, TypeOK, CallInv
  <2>2. caller' = caller /\ window' = window
    BY <1>1 DEF RateLimit
  <2>3. \A t \in Signups, m \in Minutes :
          /\ count[t][m] \in Nat
          /\ t # t0 \/ m # m0 => count'[t][m] = count[t][m]
    <3>1. \A t \in Signups, m \in Minutes : count[t][m] \in Nat
      BY RequestCount DEF IInv, TypeOK
    <3>2. CASE Counted(r)
      BY <2>1, <3>1, <3>2 DEF Counted, IInv, TypeOK
    <3>3. CASE UNCHANGED count
      BY <3>1, <3>3
    <3> QED BY <1>1, <3>2, <3>3 DEF RateLimit
  <2>4. \/ /\ count'[t0][m0] = count[t0][m0] + 1
           /\ gate'[r] = IF count[t0][m0] + 1 > Limit THEN "refused" ELSE "passed"
        \/ /\ count'[t0][m0] \in {count[t0][m0], count[t0][m0] + 1}
           /\ gate'[r] = "open"
    BY <1>1, <2>1 DEF RateLimit, Counted, OverLimit, IInv, TypeOK
  <2>5. ASSUME NEW t \in Signups, NEW m \in Minutes
        PROVE  /\ C(t, m, {"passed"})' = C(t, m, {"passed"}) + One(t, m, {"passed"})
               /\ Cardinality(Counters(t, m))' =
                    Cardinality(Counters(t, m)) + One(t, m, {"passed", "open", "refused"})
               /\ Cardinality(Admitted(t, m))' =
                    Cardinality(Admitted(t, m)) + One(t, m, {"passed", "open"})
               /\ C(t, m, {"passed"}) \in Nat
               /\ Cardinality(Counters(t, m)) \in Nat
               /\ Cardinality(Admitted(t, m)) \in Nat
    BY <1>1, PassedGrows, PassedFinite DEF Counters, Admitted
  <2>6. RateInv'
    <3> SUFFICES ASSUME NEW t \in Signups, NEW m \in Minutes
                 PROVE  /\ C(t, m, {"passed"})' <= count'[t][m]
                        /\ C(t, m, {"passed"})' <= Limit
                        /\ count'[t][m] <= Cardinality(Counters(t, m))'
                        /\ count'[t][m] <= Limit =>
                             count'[t][m] <= Cardinality(Admitted(t, m))'
                        /\ count'[t][m] > Limit => Limit <= Cardinality(Admitted(t, m))'
      BY DEF RateInv
    <3>1. /\ C(t, m, {"passed"}) <= count[t][m]
          /\ C(t, m, {"passed"}) <= Limit
          /\ count[t][m] <= Cardinality(Counters(t, m))
          /\ count[t][m] <= Limit => count[t][m] <= Cardinality(Admitted(t, m))
          /\ count[t][m] > Limit => Limit <= Cardinality(Admitted(t, m))
      BY DEF IInv, RateInv
    <3>2. CASE t # t0 \/ m # m0
      BY <2>3, <2>5, <3>1, <3>2, BoundAssumption
    <3>3. CASE t = t0 /\ m = m0
      <4> HIDE DEF C, t0, m0
      <4>1. CASE gate'[r] = "passed"
        BY <2>3, <2>4, <2>5, <3>1, <3>3, <4>1, BoundAssumption
      <4>2. CASE gate'[r] = "open"
        BY <2>3, <2>4, <2>5, <3>1, <3>3, <4>2, BoundAssumption
      <4>3. CASE gate'[r] = "refused"
        BY <2>3, <2>4, <2>5, <3>1, <3>3, <4>3, BoundAssumption
      <4> QED BY <2>4, <4>1, <4>2, <4>3
    <3> QED BY <3>2, <3>3
  <2>7. RefusedInv'
    <3> SUFFICES ASSUME NEW u \in Requests, gate'[u] = "refused"
                 PROVE  count'[caller[u]][window[u]] > Limit
      BY <2>2 DEF RefusedInv
    <3>1. CASE u = r
      BY <2>1, <2>3, <2>4, <3>1, BoundAssumption
    <3>2. CASE u # r
      <4>1. gate[u] = "refused"
        BY <1>1, <3>2 DEF RateLimit, IInv, TypeOK
      <4>2. caller[u] \in Signups /\ window[u] \in Minutes
        BY <4>1 DEF IInv, TypeOK, CallInv
      <4>3. count[caller[u]][window[u]] > Limit
        BY <4>1 DEF IInv, RefusedInv
      <4> QED BY <2>1, <2>3, <2>4, <4>2, <4>3, BoundAssumption
    <3> QED BY <3>1, <3>2
  <2> QED BY <2>6, <2>7
<1>2. CASE ~ RateLimit(r)
  <2>1. gate' = gate /\ count' = count
    BY <1>2 DEF Handle, APIKeyAuth, RevokeRead, CreateAPIKey, SessionAuth, SampleWindow,
         RevokeAPIKey, OtherHandler, call
  <2>2. \A u \in Requests : gate[u] # "none" =>
          caller'[u] = caller[u] /\ window'[u] = window[u]
    BY <1>2 DEF Handle, APIKeyAuth, RevokeRead, CreateAPIKey, SessionAuth, SampleWindow,
         RevokeAPIKey, OtherHandler, call, Authenticated, IInv, TypeOK, CallInv
  <2> QED BY <2>1, <2>2, RateFrame
<1> QED BY <1>1, <1>2
-----------------------------------------------------------------------------
\* The invariant is inductive.
LEMMA NextIInv == IInv /\ [Next]_vars => IInv'
<1> SUFFICES ASSUME IInv, [Next]_vars PROVE IInv'
  OBVIOUS
<1>1. ASSUME NEW g \in Signups, Signup(g) \/ Login(g) PROVE IInv'
  BY <1>1, SignupTypeOK, SignupSteps, SignupOthers DEF IInv
<1>2. ASSUME NEW r \in Requests, Handle(r) PROVE IInv'
  BY <1>2, HandleTypeOK, HandleAccounts, HandleCalls, HandleRate DEF IInv
<1>3. ASSUME minute' \in Minutes,
             UNCHANGED <<account, keyRows, tokens, pc, call, target, count, answered, faults>>
      PROVE  IInv'
  <2> USE <1>3 DEF account, keyRows, call
  <2>1. TypeOK'
    BY DEF IInv, TypeOK
  <2>2. SignupInv' /\ EmailInv'
    BY DEF IInv, SignupInv, EmailInv
  <2>3. CallInv' /\ AnsweredInv' /\ OwnRevokesOnly'
    BY DEF IInv, CallInv, AnsweredInv, OwnRevokesOnly
  <2>4. RateInv' /\ RefusedInv'
    BY RateFrame
  <2> QED BY <2>1, <2>2, <2>3, <2>4 DEF IInv
<1>4. CASE Tick
  <2>1. minute' \in Minutes
    BY <1>4, BoundAssumption DEF Tick, Minutes, IInv, TypeOK
  <2> QED BY <1>3, <1>4, <2>1 DEF Tick
<1>5. CASE UNCHANGED vars
  <2>1. minute' \in Minutes
    BY <1>5 DEF vars, IInv, TypeOK
  <2> QED BY <1>3, <1>5, <2>1 DEF vars
<1> QED BY <1>1, <1>2, <1>4, <1>5 DEF Next, Done
-----------------------------------------------------------------------------
\* The inductive invariant of accounts, keys and counters holds in every reachable
\* state.
THEOREM Kept == Spec => []IInv
BY InitIInv, NextIInv, PTL DEF Spec

\* Every variable of Accounts keeps its type; the counters of the limiter never
\* exceed the number of requests.
THEOREM TypeCorrect == Spec => []TypeOK
<1>1. IInv => TypeOK
  BY DEF IInv
<1> QED BY <1>1, Kept, PTL

\* Signup: one tenant per address, each with all its rows, whatever races, fails or
\* has its commit's answer lost.
THEOREM WholeAccounts == Spec => []AccountIsWhole
<1>1. IInv => AccountIsWhole
  BY DEF IInv, SignupInv, EmailInv, AccountIsWhole
<1> QED BY <1>1, Kept, PTL

\* RateLimit lets at most Limit counted requests of a tenant through in a window.
THEOREM RateBounded == Spec => []RateWithinLimit
<1>1. IInv => RateWithinLimit
  BY DEF IInv, RateInv, RateWithinLimit
<1> QED BY <1>1, Kept, PTL

\* RateLimit answers 429 only once Limit requests of the window have been served.
THEOREM RefusalsEarned == Spec => []RefusalIsEarned
<1>1. IInv => RefusalIsEarned
  <2> SUFFICES ASSUME IInv, NEW r \in Requests, gate[r] = "refused"
               PROVE  Cardinality(Admitted(caller[r], window[r])) >= Limit
    BY DEF RefusalIsEarned, Admitted
  <2>1. caller[r] \in Signups /\ window[r] \in Minutes
    BY DEF IInv, TypeOK, CallInv
  <2>2. count[caller[r]][window[r]] > Limit
    BY DEF IInv, RefusedInv
  <2>3. Limit <= Cardinality(Admitted(caller[r], window[r]))
    BY <2>1, <2>2 DEF IInv, RateInv
  <2> QED BY <2>3, PassedFinite, BoundAssumption DEF Admitted
<1> QED BY <1>1, Kept, PTL

\* RevokeAPIKey never writes to a key of another tenant.
THEOREM Isolation == Spec => []OwnRevokesOnly
<1>1. IInv => OwnRevokesOnly
  BY DEF IInv
<1> QED BY <1>1, Kept, PTL

\* RevokeAPIKey never overwrites an earlier revocation.
THEOREM RevocationFinal == Spec => RevocationIsFinal
<1> DEFINE A == \A k \in Keys : revokedBy[k] # None => revokedBy'[k] = revokedBy[k]
<1>1. IInv /\ [Next]_vars => [A]_vars
  <2> SUFFICES ASSUME IInv, Next PROVE A \/ UNCHANGED vars
    OBVIOUS
  <2>1. ASSUME NEW g \in Signups, Signup(g) \/ Login(g) PROVE A
    BY <2>1 DEF Signup, CreateTenant, RefuseSignup, InsertRow, CommitSignup, Login, keyRows
  <2>2. ASSUME NEW r \in Requests, RevokeAPIKey(r) PROVE A
    BY <2>2 DEF RevokeAPIKey, KeyRevoked, RevokeMatches, IInv, TypeOK
  <2>3. ASSUME NEW r \in Requests, Handle(r), ~ RevokeAPIKey(r) PROVE A
    BY <2>3 DEF Handle, APIKeyAuth, RevokeRead, CreateAPIKey, SessionAuth, SampleWindow,
         RateLimit, OtherHandler, keyRows
  <2>4. CASE Tick
    BY <2>4 DEF Tick, keyRows
  <2> QED BY <2>1, <2>2, <2>3, <2>4 DEF Next, Done
<1> QED BY <1>1, Kept, PTL DEF Spec, RevocationIsFinal

\* APIKeyAuth lets nobody in with a key whose revoke has been answered.
THEOREM RevokedLockedOut == Spec => NoAuthAfterRevoke
<1> DEFINE A == \A r \in Requests : pc[r] = "idle" /\ pc'[r] = "authed" =>
                                      cred'[r] \notin answered
<1>1. IInv /\ [Next]_vars => [A]_vars
  <2> SUFFICES ASSUME IInv, Next PROVE A \/ UNCHANGED vars
    OBVIOUS
  <2>0. ASSUME pc' = pc PROVE A
    BY <2>0
  <2>1. ASSUME NEW g \in Signups, Signup(g) \/ Login(g) PROVE A
    BY <2>0, <2>1 DEF Signup, CreateTenant, RefuseSignup, InsertRow, CommitSignup, Login
  <2>2. ASSUME NEW r \in Requests, NEW k \in Keys, APIKeyAuth(r, k) PROVE A
    <3>1. k \notin answered \/ pc'[r] # "authed"
      BY <2>2 DEF APIKeyAuth, GetAPIKeyByHash, Go, IInv, TypeOK, AnsweredInv
    <3> QED BY <2>2, <3>1 DEF APIKeyAuth, Authenticated, Go, IInv, TypeOK
  <2>3. ASSUME NEW r \in Requests, NEW tok \in tokens, SessionAuth(r, tok) PROVE A
    BY <2>3, NoneAssumption DEF SessionAuth, Authenticated, Go, IInv, TypeOK
  <2>4. ASSUME NEW r \in Requests, pc[r] # "idle", Handle(r) PROVE A
    <3>1. \A u \in Requests \ {r} : pc'[u] = pc[u]
      BY <2>4 DEF Handle, APIKeyAuth, RevokeRead, CreateAPIKey, SessionAuth, SampleWindow,
           RateLimit, RevokeAPIKey, OtherHandler, Go, IInv, TypeOK
    <3> QED BY <2>4, <3>1
  <2>5. ASSUME NEW r \in Requests, pc[r] = "idle", Handle(r) PROVE A
    BY <2>2, <2>3, <2>5 DEF Handle, RevokeRead, CreateAPIKey, SampleWindow,
         RateLimit, RevokeAPIKey, OtherHandler
  <2>6. CASE Tick
    BY <2>0, <2>6 DEF Tick
  <2> QED BY <2>1, <2>4, <2>5, <2>6 DEF Next, Done
<1> QED BY <1>1, Kept, PTL DEF Spec, NoAuthAfterRevoke
=============================================================================
