--------------------------- MODULE PolicyResolution ---------------------------
(***************************************************************************)
(* Which limit_policies row governs a payment.  Owners replace the tenant  *)
(* default with PUT /v1/tenants/me/limits (one database transaction: read  *)
(* the enabled default, disable it, insert its successor), minting a       *)
(* session key inserts the row of its scope, and every payment walks the   *)
(* scopes from the most specific to the broadest, one SELECT at a time.    *)
(*                                                                         *)
(* Statements run at READ COMMITTED, as the pool is opened: a SELECT sees  *)
(* the rows committed by then, an UPDATE waits for the transaction that    *)
(* holds its row, and an INSERT under the partial unique index             *)
(* idx_policy_default_unique waits for a transaction that has inserted, or *)
(* is about to disable, the other enabled default.  One tenant, one wallet *)
(* group with one wallet.  A row is named by who inserts it.               *)
(***************************************************************************)
EXTENDS Integers, FiniteSets

CONSTANTS
    Puts,        \* requests that replace the tenant default
    Bodies,      \* bodies such a request may carry
    Parsed,      \* Parsed[s]: the integer Sscanf reads at the head of s, or -1
    Checks,      \* payments
    SessionKeys, \* session keys that are minted
    Signup,      \* the row Signup inserts
    NoRow,       \* no row
    NoKey,       \* a payment without signer_id
    MaxFaults    \* bound: statements that fail and processes that die

\* Rows resolvePolicy looks for but no handler inserts: put there by hand, as a
\* tenant without a default is ("Missing row is fine").
Attached == {"wallet", "wallet_group"}
Defaults == {Signup} \union Puts
Rows     == Defaults \union SessionKeys \union Attached

ASSUME SentinelAssumption == /\ NoRow \notin Rows
                             /\ NoKey \notin SessionKeys
                             /\ Signup \notin Puts
                             /\ Defaults \intersect (SessionKeys \union Attached) = {}
                             /\ SessionKeys \intersect Attached = {}
ASSUME FaultAssumption    == MaxFaults \in Nat

VARIABLES
    row,      \* row[q]: the committed row q: "absent", "enabled" or "disabled"
    keys,     \* session_keys rows
    put,      \* put[u]: where request u is
    old,      \* old[u]: the default u has read, or NoRow
    locked,   \* locked[u]: the row u has disabled and not committed, or NoRow
    scope,    \* scope[c]: the scope payment c looks up next, or where it is
    signer,   \* signer[c]: its session key, or NoKey
    governor, \* governor[c]: the policy Check goes on with, or NoRow
    missed,   \* history: payments one of whose lookups failed
    live,     \* history: live[c], rows enabled at some time since c began
    bare,     \* history: payments that began while the tenant had no default
    faults

requests == <<put, old, locked>>
payments == <<scope, signer, governor, missed, live, bare>>
vars     == <<row, keys, requests, payments, faults>>

Fault == /\ faults < MaxFaults
         /\ faults' = faults + 1

Enabled == {q \in Rows : row[q] = "enabled"}
Answers == {"ok", "refused", "error"}
-----------------------------------------------------------------------------
Init ==
    /\ \E present \in SUBSET (Attached \union {Signup}) :
         row = [q \in Rows |-> IF q \in present THEN "enabled" ELSE "absent"]
    /\ keys = {}
    /\ put = [u \in Puts |-> "idle"]
    /\ old = [u \in Puts |-> NoRow]
    /\ locked = [u \in Puts |-> NoRow]
    /\ scope = [c \in Checks |-> "idle"]
    /\ signer = [c \in Checks |-> NoKey]
    /\ governor = [c \in Checks |-> NoRow]
    /\ missed = {}
    /\ live = [c \in Checks |-> {}]
    /\ bare = {}
    /\ faults = 0

(***************************************************************************)
(* UpdateTenantLimits                                                      *)
(***************************************************************************)
Tiers    == {"conservative", "standard", "aggressive"}
CapNames == {"per_tx", "daily", "weekly", "monthly"}

\* parseDecimalUSD: a whole number of dollars at the head of the text.
MaxWhole == 10000000
parseDecimalUSD(s) == Parsed[s] >= 0 /\ Parsed[s] <= MaxWhole

\* resolveLimitsUpdate: a known tier or all four caps, not both.
Accepts(b) ==
    LET hasTier   == b.tier # ""
        hasCustom == \E n \in CapNames : b.caps[n] # ""
    IN  \/ hasTier /\ ~ hasCustom /\ b.tier \in Tiers
        \/ /\ hasCustom /\ ~ hasTier
           /\ \A n \in CapNames : b.caps[n] # "" /\ parseDecimalUSD(b.caps[n])

\* Who may change the limits; a request made with an API key has no role.
Writers == {"", "owner", "admin"}

\* Role and body are looked at before the transaction begins: 403, 400 or go on.
ReceivePut(u, b) ==
    /\ put[u] = "idle"
    /\ put' = [put EXCEPT ![u] = IF b.role \in Writers /\ Accepts(b) THEN "lookup"
                                                                     ELSE "refused"]
    /\ UNCHANGED <<row, keys, old, locked, payments, faults>>

\* Variant: an early return without the deferred Rollback keeps its locks.
LeaveOpen(u) ==
    /\ put' = [put EXCEPT ![u] = "error"]
    /\ UNCHANGED locked

\* The deferred Rollback: the transaction leaves nothing behind.
Rollback(u) ==
    /\ put' = [put EXCEPT ![u] = "error"]
    /\ locked' = [locked EXCEPT ![u] = NoRow]

\* GetTenantDefaultPolicy in the transaction.  When it finds no row the handler
\* goes straight to the INSERT; when it fails so does everything after it, since
\* the transaction is aborted.
ReadDefault(u) ==
    /\ put[u] = "lookup"
    /\ \/ \E q \in Enabled \intersect Defaults :
            /\ old' = [old EXCEPT ![u] = q]
            /\ put' = [put EXCEPT ![u] = "disable"]
            /\ UNCHANGED <<locked, faults>>
       \/ /\ Enabled \intersect Defaults = {}
          /\ put' = [put EXCEPT ![u] = "insert"]
          /\ UNCHANGED <<old, locked, faults>>
       \/ /\ Fault
          /\ Rollback(u)
          /\ UNCHANGED old
    /\ UNCHANGED <<row, keys, payments>>

\* Variant: the UPDATE is sent outside the transaction.
DisableAtOnce(u) ==
    /\ put[u] = "disable"
    /\ row' = [row EXCEPT ![old[u]] = "disabled"]
    /\ put' = [put EXCEPT ![u] = "insert"]
    /\ UNCHANGED <<keys, old, locked, payments, faults>>

\* DisableLimitPolicy: WHERE id alone.  It waits for the row; a row that another
\* request has disabled in the meantime still matches.
DisableLimitPolicy(u) ==
    /\ put[u] = "disable"
    /\ \A v \in Puts \ {u} : locked[v] # old[u]
    /\ \/ /\ locked' = [locked EXCEPT ![u] = old[u]]
          /\ put' = [put EXCEPT ![u] = "insert"]
          /\ UNCHANGED faults
       \/ /\ Fault
          /\ Rollback(u)
    /\ UNCHANGED <<row, keys, old, payments>>

\* Variant: there is no index on the enabled defaults.
Unindexed(u) == {}

\* Enabled defaults the index holds against the INSERT of u: all but the one u
\* has itself disabled.
Conflicts(u) == (Enabled \intersect Defaults) \ {locked[u]}

\* Other transactions that decide whether there is a conflict.
Undecided(u) == {v \in Puts \ {u} : put[v] = "commit" \/ locked[v] \in Conflicts(u)}

\* CreateLimitPolicy, and the unique index.
CreateLimitPolicy(u) ==
    /\ put[u] = "insert"
    /\ Undecided(u) = {}
    /\ \/ /\ Conflicts(u) = {}
          /\ put' = [put EXCEPT ![u] = "commit"]
          /\ UNCHANGED <<locked, faults>>
       \/ /\ Conflicts(u) # {}
          /\ Rollback(u)
          /\ UNCHANGED faults
       \/ /\ Fault
          /\ Rollback(u)
    /\ UNCHANGED <<row, keys, old, payments>>

\* tx.Commit: the new row and the disabled one become visible together.  A commit
\* whose answer is lost is reported as an error.
Commit(u) ==
    /\ put[u] = "commit"
    /\ \/ /\ row' = [q \in Rows |-> CASE q = u         -> "enabled"
                                      [] q = locked[u] -> "disabled"
                                      [] OTHER         -> row[q]]
          /\ live' = [c \in Checks |->
                        IF scope[c] \in {"idle", "done"} THEN live[c]
                                                         ELSE live[c] \union {u}]
          /\ locked' = [locked EXCEPT ![u] = NoRow]
          /\ \/ /\ put' = [put EXCEPT ![u] = "ok"]
                /\ UNCHANGED faults
             \/ /\ put' = [put EXCEPT ![u] = "error"]
                /\ Fault
       \/ /\ Fault
          /\ Rollback(u)
          /\ UNCHANGED <<row, live>>
    /\ UNCHANGED <<keys, old, scope, signer, governor, missed, bare>>

\* The process dies and Postgres rolls the transaction back.
Die(u) ==
    /\ put[u] \notin Answers \union {"idle"}
    /\ Fault
    /\ Rollback(u)
    /\ UNCHANGED <<row, keys, old, payments>>

(***************************************************************************)
(* Mint and PrepareUserCustody                                             *)
(***************************************************************************)

\* Variant: the key's row is committed before the row of its policy.
MintKeyFirst(k) ==
    /\ row[k] = "absent"
    /\ \/ /\ k \notin keys
          /\ keys' = keys \union {k}
          /\ UNCHANGED row
       \/ /\ k \in keys
          /\ row' = [row EXCEPT ![k] = "enabled"]
          /\ UNCHANGED keys
    /\ UNCHANGED <<requests, payments, faults>>

\* The policy and the key that points at it, in one transaction.
Mint(k) ==
    /\ k \notin keys
    /\ keys' = keys \union {k}
    /\ row' = [row EXCEPT ![k] = "enabled"]
    /\ UNCHANGED <<requests, payments, faults>>

(***************************************************************************)
(* resolvePolicy                                                           *)
(***************************************************************************)

\* A payment passes the signer guard and enters Check.
BeginCheck(c, k) ==
    /\ scope[c] = "idle"
    /\ k \in keys \union {NoKey}
    /\ signer' = [signer EXCEPT ![c] = k]
    /\ scope' = [scope EXCEPT ![c] = IF k = NoKey THEN "wallet" ELSE "session_key"]
    /\ live' = [live EXCEPT ![c] = Enabled]
    /\ bare' = IF Enabled \intersect Defaults = {} THEN bare \union {c} ELSE bare
    /\ UNCHANGED <<row, keys, requests, governor, missed, faults>>

\* The row looked for at scope s; GetWalletByID comes before the group's.
Candidates(c, s) ==
    CASE s = "session_key"    -> {signer[c]}
      [] s = "wallet"         -> {"wallet"}
      [] s = "wallet_row"     -> {}
      [] s = "wallet_group"   -> {"wallet_group"}
      [] s = "tenant_default" -> Defaults

\* Variant: the walk does not stop after the broadest scope.
AfterAgain(s) ==
    CASE s = "session_key"    -> "wallet"
      [] s = "wallet"         -> "wallet_row"
      [] s = "wallet_row"     -> "wallet_group"
      [] s = "wallet_group"   -> "tenant_default"
      [] s = "tenant_default" -> "none"

After(s) ==
    CASE s = "session_key"    -> "wallet"
      [] s = "wallet"         -> "wallet_row"
      [] s = "wallet_row"     -> "wallet_group"
      [] s = "wallet_group"   -> "tenant_default"
      [] s = "tenant_default" -> "done"

\* One lookup: the first hit wins, and an error counts as a miss.  Without the
\* wallet's row the group's policy is not looked for.
Lookup(c) ==
    /\ scope[c] \notin {"idle", "done"}
    /\ LET hits == Candidates(c, scope[c]) \intersect Enabled
       IN  \/ \E q \in hits :
                /\ governor' = [governor EXCEPT ![c] = q]
                /\ scope' = [scope EXCEPT ![c] = "done"]
                /\ UNCHANGED <<missed, faults>>
           \/ /\ hits = {}
              /\ scope' = [scope EXCEPT ![c] = After(@)]
              /\ UNCHANGED <<governor, missed, faults>>
           \/ /\ Fault
              /\ scope' = [scope EXCEPT ![c] =
                             IF @ = "wallet_row" THEN "tenant_default" ELSE After(@)]
              /\ missed' = missed \union {c}
              /\ UNCHANGED governor
    /\ UNCHANGED <<row, keys, requests, signer, live, bare>>
-----------------------------------------------------------------------------
Done ==
    /\ \A u \in Puts : put[u] \in Answers
    /\ \A c \in Checks : scope[c] = "done"
    /\ UNCHANGED vars

Statement(u) ==
    \/ ReadDefault(u)
    \/ DisableLimitPolicy(u)
    \/ CreateLimitPolicy(u)
    \/ Commit(u)

Next ==
    \/ \E u \in Puts : \/ \E b \in Bodies : ReceivePut(u, b)
                       \/ Statement(u)
                       \/ Die(u)
    \/ \E k \in SessionKeys : Mint(k)
    \/ \E c \in Checks : \/ \E k \in SessionKeys \union {NoKey} : BeginCheck(c, k)
                         \/ Lookup(c)
    \/ Done

Spec == Init /\ [][Next]_vars

\* A handler whose statement can run runs it.
FairSpec == Spec /\ \A u \in Puts : WF_vars(Statement(u))
-----------------------------------------------------------------------------
(***************************************************************************)
(* Properties                                                              *)
(***************************************************************************)

\* Type invariant of the policy rows, the requests and the payments.
TypeOK ==
    /\ row \in [Rows -> {"absent", "enabled", "disabled"}]
    /\ keys \subseteq SessionKeys
    /\ put \in [Puts -> {"idle", "lookup", "disable", "insert", "commit"} \union Answers]
    /\ old \in [Puts -> Defaults \union {NoRow}]
    /\ locked \in [Puts -> Defaults \union {NoRow}]
    /\ scope \in [Checks -> {"idle", "session_key", "wallet", "wallet_row",
                             "wallet_group", "tenant_default", "done"}]
    /\ signer \in [Checks -> SessionKeys \union {NoKey}]
    /\ governor \in [Checks -> Rows \union {NoRow}]
    /\ missed \subseteq Checks
    /\ live \in [Checks -> SUBSET Rows]
    /\ bare \subseteq Checks
    /\ faults \in Nat

\* "at most one enabled tenant_default per tenant", and never none again once there
\* is one: whatever fails and however the replacements race, the tenant goes from
\* one default in force to the next without a gap or an overlap.
OneDefaultInForce ==
    Cardinality(Enabled \intersect Defaults) =
        IF \A q \in Defaults : row[q] = "absent" THEN 0 ELSE 1

\* Of the requests that read one default, at most one is told that it has replaced
\* it: no replacement is silently lost under another.
OneSuccessor ==
    \A u, v \in Puts :
        put[u] = "ok" /\ put[v] = "ok" /\ old[u] = old[v] => u = v

\* What governs the payment of c when no lookup has failed: the policy of its
\* signer, else the row attached to its wallet, its group, or a tenant default.
Governs(c, q) ==
    IF signer[c] # NoKey THEN q = signer[c]
    ELSE IF "wallet" \in Enabled THEN q = "wallet"
    ELSE IF "wallet_group" \in Enabled THEN q = "wallet_group"
    ELSE q \in Defaults

\* A payment none of whose lookups failed is governed by the most specific policy
\* there is for it, one that was in force while the payment was checked, although
\* its SELECTs are not one transaction.  No policy governs it only if it came in
\* when the tenant had no default.
GovernedUnlessFault ==
    \A c \in Checks \ missed :
        scope[c] = "done" =>
            \/ governor[c] \in live[c] /\ Governs(c, governor[c])
            \/ governor[c] = NoRow /\ c \in bare /\ signer[c] = NoKey

\* A replacement that waits for the row or the index entry of another does not
\* wait for ever: every request that has arrived is answered.
EveryPutAnswered == \A u \in Puts : (put[u] # "idle") ~> (put[u] \in Answers)
=============================================================================
