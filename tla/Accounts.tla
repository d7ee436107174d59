------------------------------ MODULE Accounts ------------------------------
(***************************************************************************)
(* Who may call the gateway: Signup (one transaction for the tenant, its   *)
(* owner, two API keys and the default policy), Login (a stateless session *)
(* token), and the path of a /v1 request: authentication by API key or by  *)
(* token, the per-tenant rate limit, then the API-key handlers.            *)
(*                                                                         *)
(* A tenant is named by the Signup request that creates it.  Every         *)
(* statement is a step, so requests interleave between authentication, the *)
(* limiter and the handler.  last_used_at and last_login_at, which no code *)
(* reads back, are left out.  Only Signup creates users, as owners: the    *)
(* role gates always let them through.                                     *)
(***************************************************************************)
EXTENDS Integers, FiniteSets, Sequences

CONSTANTS
    Signups,     \* POST /signup requests
    Emails,
    Keys,        \* ids of API keys
    Minted,      \* Minted[g][e]: the key Signup g mints for environment e
    NoKey,       \* the credential of a request with a session token
    Requests,    \* /v1 requests
    None,
    GatewayEnv,  \* the environment of the keys this gateway accepts
    Limit,       \* RequestsPerMinute
    TTL,         \* minutes a session token lasts
    LastMinute,  \* bound: the clock stops there
    MaxFaults    \* bound: calls that fail

Envs == {"test", "live"}

ASSUME MintedAssumption == /\ Minted \in [Signups -> [Envs -> Keys]]
                           /\ \A g, h \in Signups, d, e \in Envs :
                                Minted[g][d] = Minted[h][e] => g = h /\ d = e
ASSUME NoneAssumption   == None \notin Signups \union Requests /\ NoKey \notin Keys
ASSUME FiniteAssumption == IsFiniteSet(Requests)
ASSUME EnvAssumption    == GatewayEnv \in Envs
ASSUME BoundAssumption  == /\ Limit \in Nat \ {0}
                           /\ TTL \in Nat \ {0}
                           /\ LastMinute \in Nat
                           /\ MaxFaults \in Nat

\* The statements of Signup after the INSERT of the tenant, in order.
Statements == <<"owner", "test", "live", "policy">>

VARIABLES
    minute,
    spc, email,        \* where signup g is, and the address it is for
    tenant,            \* tenant[g]: the row of g is absent, open or committed
    inserted,          \* how many of Statements the transaction of g has run
    owner, keyEnv,     \* api_keys: the tenant (None: no row), the environment
    revokedBy,         \* the request that wrote revoked_at and its reason
    tokens,            \* session tokens handed out: tenant and expiry
    pc,                \* where /v1 request r is
    cred, caller,      \* the key that authenticated r, and the tenant
    window, gate,      \* the minute r is counted in, and what the limiter did
    target,            \* the key a revoke is about
    count,             \* the counters of the rate limiter in Redis
    answered,          \* keys for which a revoke was answered "revoked"
    faults

account == <<spc, email, tenant, inserted>>
keyRows == <<owner, keyEnv, revokedBy>>
call    == <<cred, caller, window, gate>>
vars    == <<minute, account, keyRows, tokens, pc, call, target, count, answered,
             faults>>

Fault == /\ faults < MaxFaults
         /\ faults' = faults + 1

Minutes == 0..LastMinute

\* The signups that keep g out of the unique index on primary_email.
Holders(g, e) == {h \in Signups \ {g} : tenant[h] # "absent" /\ email[h] = e}
-----------------------------------------------------------------------------
Init ==
    /\ minute = 0
    /\ spc = [g \in Signups |-> "idle"]
    /\ email \in [Signups -> Emails]
    /\ tenant = [g \in Signups |-> "absent"]
    /\ inserted = [g \in Signups |-> 0]
    /\ owner = [k \in Keys |-> None]
    /\ keyEnv = [k \in Keys |-> GatewayEnv]
    /\ revokedBy = [k \in Keys |-> None]
    /\ tokens = {}
    /\ pc = [r \in Requests |-> "idle"]
    /\ cred = [r \in Requests |-> NoKey]
    /\ caller = [r \in Requests |-> None]
    /\ window = [r \in Requests |-> 0]
    /\ gate = [r \in Requests |-> "none"]
    /\ target = [r \in Requests |-> NoKey]
    /\ count = [t \in Signups |-> [m \in Minutes |-> 0]]
    /\ answered = {}
    /\ faults = 0

(***************************************************************************)
(* Signup and Login                                                        *)
(***************************************************************************)
SGo(g, to) == spc' = [spc EXCEPT ![g] = to]

\* Variant: the tenant is inserted outside the transaction.
CreateTenantOutsideTx(g) ==
    /\ spc[g] = "idle"
    /\ Holders(g, email[g]) = {}
    /\ tenant' = [tenant EXCEPT ![g] = "committed"]
    /\ SGo(g, "rows")
    /\ UNCHANGED <<minute, email, inserted, keyRows, tokens, pc, call, target, count,
                   answered, faults>>

\* BEGIN; INSERT INTO tenants.  The statement waits for a transaction that holds
\* the address; a committed holder is a conflict.
CreateTenant(g) ==
    /\ spc[g] = "idle"
    /\ \A h \in Holders(g, email[g]) : tenant[h] = "committed"
    /\ \/ /\ Holders(g, email[g]) = {}
          /\ tenant' = [tenant EXCEPT ![g] = "open"]
          /\ SGo(g, "rows")
          /\ UNCHANGED faults
       \/ /\ Holders(g, email[g]) # {}
          /\ SGo(g, "conflict")
          /\ UNCHANGED <<tenant, faults>>
       \/ /\ Fault
          /\ SGo(g, "error")
          /\ UNCHANGED tenant
    /\ UNCHANGED <<minute, email, inserted, keyRows, tokens, pc, call, target, count,
                   answered>>

\* validateSignup: 400.
RefuseSignup(g) ==
    /\ spc[g] = "idle"
    /\ SGo(g, "refused")
    /\ UNCHANGED <<minute, email, tenant, inserted, keyRows, tokens, pc, call, target,
                   count, answered, faults>>

\* tx.Rollback, deferred, or by Postgres when the process dies.
Rollback(g) == /\ tenant' = [tenant EXCEPT ![g] = "absent"]
               /\ inserted' = [inserted EXCEPT ![g] = 0]

\* The owner, the two keys and the default policy, one INSERT at a time.
InsertRow(g) ==
    /\ spc[g] = "rows"
    /\ inserted[g] < Len(Statements)
    /\ \/ /\ inserted' = [inserted EXCEPT ![g] = @ + 1]
          /\ UNCHANGED <<spc, tenant, faults>>
       \/ /\ Fault
          /\ Rollback(g)
          /\ SGo(g, "error")
    /\ UNCHANGED <<minute, email, keyRows, tokens, pc, call, target, count, answered>>

\* The commit makes the rows of g visible.
Committed(g) ==
    /\ tenant' = [tenant EXCEPT ![g] = "committed"]
    /\ owner' = [k \in Keys |-> IF \E e \in Envs : k = Minted[g][e] THEN g ELSE owner[k]]
    /\ keyEnv' = [k \in Keys |-> IF \E e \in Envs : k = Minted[g][e]
                                   THEN CHOOSE e \in Envs : k = Minted[g][e]
                                   ELSE keyEnv[k]]
    /\ UNCHANGED inserted

\* COMMIT and the 201.  A lost answer may hide a commit.
CommitSignup(g) ==
    /\ spc[g] = "rows"
    /\ inserted[g] = Len(Statements)
    /\ \/ /\ Committed(g)
          /\ SGo(g, "created")
          /\ UNCHANGED faults
       \/ /\ Fault
          /\ Committed(g) \/ (Rollback(g) /\ UNCHANGED <<owner, keyEnv>>)
          /\ SGo(g, "error")
    /\ UNCHANGED <<minute, email, revokedBy, tokens, pc, call, target, count, answered>>

\* The right password: users[0] is the owner of the one tenant of that address.
Login(g) ==
    /\ tenant[g] = "committed"
    /\ tokens' = tokens \union {<<g, minute + TTL>>}
    /\ UNCHANGED <<minute, account, keyRows, pc, call, target, count, answered, faults>>

(***************************************************************************)
(* EitherAuthForEnvironment                                                *)
(***************************************************************************)
Go(r, to) == pc' = [pc EXCEPT ![r] = to]

\* r acts for tenant t, with API key k or with a session token.
Authenticated(r, k, t) ==
    /\ cred' = [cred EXCEPT ![r] = k]
    /\ caller' = [caller EXCEPT ![r] = t]
    /\ Go(r, "authed")

\* Variant: GetAPIKeyByHash returns revoked keys too.
HashOfAnyKey(k) == owner[k] # None

\* GetAPIKeyByHash: WHERE key_hash AND revoked_at IS NULL.
GetAPIKeyByHash(k) == owner[k] # None /\ revokedBy[k] = None

\* A key of the gateway's environment whose row is found; anything else is a 401.
APIKeyAuth(r, k) ==
    /\ pc[r] = "idle"
    /\ \/ /\ keyEnv[k] = GatewayEnv
          /\ GetAPIKeyByHash(k)
          /\ Authenticated(r, k, owner[k])
          /\ UNCHANGED faults
       \/ /\ \/ (keyEnv[k] # GatewayEnv \/ ~ GetAPIKeyByHash(k)) /\ UNCHANGED faults
             \/ Fault
          /\ Go(r, "unauthorized")
          /\ UNCHANGED <<cred, caller>>
    /\ UNCHANGED <<minute, account, keyRows, tokens, window, gate, target, count, answered>>

\* ParseSessionToken: the claims are trusted until they expire.
SessionAuth(r, tok) ==
    /\ pc[r] = "idle"
    /\ \/ /\ minute < tok[2]
          /\ Authenticated(r, NoKey, tok[1])
       \/ /\ minute >= tok[2]
          /\ Go(r, "unauthorized")
          /\ UNCHANGED <<cred, caller>>
    /\ UNCHANGED <<minute, account, keyRows, tokens, window, gate, target, count,
                   answered, faults>>

(***************************************************************************)
(* RateLimit                                                               *)
(***************************************************************************)

\* currentWindowKey: the minute is read before Redis is called.
SampleWindow(r) ==
    /\ pc[r] = "authed"
    /\ window' = [window EXCEPT ![r] = minute]
    /\ Go(r, "limiting")
    /\ UNCHANGED <<minute, account, keyRows, tokens, cred, caller, gate, target, count,
                   answered, faults>>

\* Variant: the last request of the budget is refused.
OverLimitEarly(used) == used >= Limit

\* Variant: the count before the INCR is compared.
OverLimitLate(used) == used - 1 > Limit

OverLimit(used) == used > Limit

\* Variant: the pipeline is sent twice.
CountedTwice(r) == count' = [count EXCEPT ![caller[r]][window[r]] = @ + 2]

\* The effect of the INCR (with its EXPIRE) on the counter of r.
Counted(r) == count' = [count EXCEPT ![caller[r]][window[r]] = @ + 1]

\* One round trip; 429 past the limit; a Redis error lets the request through.
RateLimit(r) ==
    /\ pc[r] = "limiting"
    /\ \/ /\ Counted(r)
          /\ LET over == OverLimit(count[caller[r]][window[r]] + 1)
             IN  /\ gate' = [gate EXCEPT ![r] = IF over THEN "refused" ELSE "passed"]
                 /\ Go(r, IF over THEN "tooMany" ELSE "handling")
          /\ UNCHANGED faults
       \/ /\ Fault
          /\ Counted(r) \/ UNCHANGED count
          /\ gate' = [gate EXCEPT ![r] = "open"]
          /\ Go(r, "handling")
    /\ UNCHANGED <<minute, account, keyRows, tokens, cred, caller, window, target, answered>>

(***************************************************************************)
(* CreateAPIKey, RevokeAPIKey and every other handler                      *)
(***************************************************************************)

\* The INSERT of key k.
KeyInserted(r, k, e) == /\ owner' = [owner EXCEPT ![k] = caller[r]]
                        /\ keyEnv' = [keyEnv EXCEPT ![k] = e]

\* A fresh key for the caller's tenant.  A lost answer may hide the INSERT.
CreateAPIKey(r, k, e) ==
    /\ pc[r] = "handling"
    /\ owner[k] = None
    /\ \A g \in Signups, d \in Envs : k # Minted[g][d]
    /\ \/ /\ KeyInserted(r, k, e)
          /\ Go(r, "answered")
          /\ UNCHANGED faults
       \/ /\ Fault
          /\ KeyInserted(r, k, e) \/ UNCHANGED <<owner, keyEnv>>
          /\ Go(r, "error")
    /\ UNCHANGED <<minute, account, revokedBy, tokens, call, target, count, answered>>

OfTenant(r, k) == owner[k] = caller[r]

\* GetAPIKeyByID: 404 for a key of another tenant or an error; a key revoked
\* already is returned as it is.
RevokeRead(r, k) ==
    /\ pc[r] = "handling"
    /\ \/ /\ OfTenant(r, k)
          /\ target' = [target EXCEPT ![r] = k]
          /\ Go(r, IF revokedBy[k] = None THEN "revoking" ELSE "answered")
          /\ answered' = IF revokedBy[k] = None THEN answered ELSE answered \union {k}
          /\ UNCHANGED faults
       \/ /\ \/ ~ OfTenant(r, k) /\ UNCHANGED faults
             \/ Fault
          /\ Go(r, "notFound")
          /\ UNCHANGED <<target, answered>>
    /\ UNCHANGED <<minute, account, keyRows, tokens, call, count>>

\* Variant: the UPDATE is by id alone.
RevokeUnguarded(r) == TRUE

\* UPDATE ... WHERE id AND revoked_at IS NULL.
RevokeMatches(r) == revokedBy[target[r]] = None

\* The UPDATE finds its row.
KeyRevoked(r) == /\ RevokeMatches(r)
                 /\ revokedBy' = [revokedBy EXCEPT ![target[r]] = r]

\* RevokeAPIKey: no row (another revoke came first) and a failure are a 500.  A
\* lost answer may hide the UPDATE.
RevokeAPIKey(r) ==
    /\ pc[r] = "revoking"
    /\ \/ /\ KeyRevoked(r)
          /\ answered' = answered \union {target[r]}
          /\ Go(r, "answered")
          /\ UNCHANGED faults
       \/ /\ \/ ~ RevokeMatches(r) /\ UNCHANGED <<revokedBy, faults>>
             \/ Fault /\ (KeyRevoked(r) \/ UNCHANGED revokedBy)
          /\ Go(r, "error")
          /\ UNCHANGED answered
    /\ UNCHANGED <<minute, account, owner, keyEnv, tokens, call, target, count>>

\* A handler of another module, or one that only reads.
OtherHandler(r) ==
    /\ pc[r] = "handling"
    /\ Go(r, "answered")
    /\ UNCHANGED <<minute, account, keyRows, tokens, call, target, count, answered, faults>>

Tick ==
    /\ minute < LastMinute
    /\ minute' = minute + 1
    /\ UNCHANGED <<account, keyRows, tokens, pc, call, target, count, answered, faults>>

\* Every request is answered and the clock stands at its bound.
Done ==
    /\ \A g \in Signups : spc[g] \notin {"idle", "rows"}
    /\ \A r \in Requests : pc[r] \in {"unauthorized", "tooMany", "notFound", "answered",
                                      "error"}
    /\ minute = LastMinute
    /\ UNCHANGED vars
-----------------------------------------------------------------------------
Signup(g) ==
    \/ CreateTenant(g)
    \/ RefuseSignup(g)
    \/ InsertRow(g)
    \/ CommitSignup(g)

Handle(r) ==
    \/ \E k \in Keys : APIKeyAuth(r, k) \/ RevokeRead(r, k)
    \/ \E k \in Keys, e \in Envs : CreateAPIKey(r, k, e)
    \/ \E tok \in tokens : SessionAuth(r, tok)
    \/ SampleWindow(r)
    \/ RateLimit(r)
    \/ RevokeAPIKey(r)
    \/ OtherHandler(r)

Next ==
    \/ \E g \in Signups : Signup(g) \/ Login(g)
    \/ \E r \in Requests : Handle(r)
    \/ Tick
    \/ Done

Spec == Init /\ [][Next]_vars
-----------------------------------------------------------------------------
(***************************************************************************)
(* Properties                                                              *)
(***************************************************************************)

\* Type invariant of the accounts, the API keys and the requests.
TypeOK ==
    /\ minute \in Minutes
    /\ spc \in [Signups -> {"idle", "rows", "conflict", "refused", "error", "created"}]
    /\ email \in [Signups -> Emails]
    /\ tenant \in [Signups -> {"absent", "open", "committed"}]
    /\ inserted \in [Signups -> 0..Len(Statements)]
    /\ owner \in [Keys -> Signups \union {None}]
    /\ keyEnv \in [Keys -> Envs]
    /\ revokedBy \in [Keys -> Requests \union {None}]
    /\ tokens \subseteq Signups \X Nat
    /\ pc \in [Requests -> {"idle", "unauthorized", "authed", "limiting", "tooMany",
                            "handling", "revoking", "notFound", "answered", "error"}]
    /\ cred \in [Requests -> Keys \union {NoKey}]
    /\ caller \in [Requests -> Signups \union {None}]
    /\ window \in [Requests -> Minutes]
    /\ gate \in [Requests -> {"none", "passed", "open", "refused"}]
    /\ target \in [Requests -> Keys \union {NoKey}]
    /\ count \in [Signups -> [Minutes -> 0..Cardinality(Requests)]]
    /\ answered \subseteq Keys
    /\ faults \in 0..MaxFaults

\* Racing signups, failed statements and lost commits never leave two tenants of
\* one address or a tenant without its owner, its two keys and its policy; a
\* signup answered 201 has its account.
AccountIsWhole ==
    /\ \A g, h \in Signups : tenant[g] = "committed" /\ tenant[h] = "committed"
                             /\ email[g] = email[h] => g = h
    /\ \A g \in Signups : tenant[g] = "committed" =>
                             /\ inserted[g] = Len(Statements)
                             /\ \A e \in Envs : owner[Minted[g][e]] = g
    /\ \A g \in Signups : spc[g] = "created" => tenant[g] = "committed"

\* Two revokes race: the first one's revoked_at and reason are never overwritten.
RevocationIsFinal ==
    [][\A k \in Keys : revokedBy[k] # None => revokedBy'[k] = revokedBy[k]]_vars

\* Once a revoke has been answered, APIKeyAuth lets no request in with that key;
\* only a request past authentication by then may still be served.
NoAuthAfterRevoke ==
    [][\A r \in Requests : pc[r] = "idle" /\ pc'[r] = "authed" =>
                              cred'[r] \notin answered]_vars

Passed(t, m, how) == {r \in Requests : caller[r] = t /\ window[r] = m /\ gate[r] \in how}

\* RateLimit admits at most Limit requests of a tenant per window, apart from
\* the ones a failing Redis lets through.
RateWithinLimit ==
    \A t \in Signups, m \in Minutes : Cardinality(Passed(t, m, {"passed"})) <= Limit

\* A 429 is earned: the tenant has had its Limit requests in that window.
RefusalIsEarned ==
    \A r \in Requests : gate[r] = "refused" =>
        Cardinality(Passed(caller[r], window[r], {"passed", "open"})) >= Limit
=============================================================================
