------------------------ MODULE PolicyResolutionProofs ------------------------
(***************************************************************************)
(* Proofs about PolicyResolution, for any number of replacements, session  *)
(* keys, payments and faults.                                              *)
(*                                                                         *)
(* The requests do not lock what they read, so all rests on the index: a   *)
(* request past its INSERT is alone there, and the only default that can   *)
(* be enabled besides its own is the one it has disabled.  That makes its  *)
(* commit pass the one default on, and it makes a request that read a row  *)
(* replaced since fail.  A payment keeps, from one SELECT to the next,     *)
(* that the scopes behind it hold nothing and that every default enabled   *)
(* since it began is known.                                                *)
(***************************************************************************)
EXTENDS PolicyResolution, FiniteSetTheorems, TLAPS

\* A session key never lacks its policy.
KeyInv == \A k \in keys : row[k] = "enabled"

\* At most one default is enabled, and one is as soon as there has been any.
OneEnabled ==
    /\ \A q, r \in Defaults : row[q] = "enabled" /\ row[r] = "enabled" => q = r
    /\ (\E q \in Defaults : row[q] # "absent") => \E q \in Defaults : row[q] = "enabled"

\* What a request knows of the row it has read and of the one it inserts.
PutInv ==
    \A u \in Puts :
        /\ put[u] \notin {"ok", "error"} => row[u] = "absent"
        /\ put[u] = "ok" => row[u] # "absent"
        /\ put[u] \in {"idle", "lookup"} => old[u] = NoRow
        /\ put[u] \in {"idle", "lookup", "disable"} => locked[u] = NoRow
        /\ put[u] \in {"insert", "commit"} => locked[u] = old[u]
        /\ old[u] # NoRow => row[old[u]] # "absent"
        /\ put[u] = "disable" => old[u] # NoRow
        /\ put[u] = "ok" /\ old[u] # NoRow => row[old[u]] = "disabled"

\* The unique index: a request past its INSERT is alone there, and no default is
\* enabled but the one it has disabled.
IndexInv ==
    \A u \in Puts : put[u] = "commit" =>
        /\ \A v \in Puts : put[v] = "commit" => v = u
        /\ \A q \in Defaults : row[q] = "enabled" => q = locked[u]

\* What a payment between two SELECTs has behind it.
WalkInv ==
    \A c \in Checks :
        /\ scope[c] # "done" => governor[c] = NoRow
        /\ scope[c] = "session_key" => signer[c] # NoKey
        /\ scope[c] \notin {"idle", "done"} =>
             /\ \A q \in Defaults \union Attached : row[q] = "enabled" => q \in live[c]
             /\ signer[c] # NoKey => signer[c] \in keys /\ signer[c] \in live[c]
             /\ c \notin bare => \E q \in Defaults : row[q] # "absent"
        /\ c \notin missed =>
             /\ scope[c] \in {"wallet", "wallet_row", "wallet_group", "tenant_default"}
                  => signer[c] = NoKey
             /\ scope[c] \in {"wallet_row", "wallet_group", "tenant_default"}
                  => row["wallet"] # "enabled"
             /\ scope[c] = "tenant_default" => row["wallet_group"] # "enabled"

IInv == /\ TypeOK
        /\ KeyInv
        /\ OneEnabled
        /\ PutInv
        /\ IndexInv
        /\ OneSuccessor
        /\ WalkInv
        /\ GovernedUnlessFault
-----------------------------------------------------------------------------
\* The rows of the three kinds are apart, and NoRow is none of them.
LEMMA RowKinds ==
  /\ Puts \subseteq Defaults /\ Defaults \subseteq Rows
  /\ SessionKeys \subseteq Rows /\ Attached \subseteq Rows
  /\ "wallet" \in Attached /\ "wallet_group" \in Attached
  /\ \A q \in Defaults : q \notin SessionKeys /\ q \notin Attached
  /\ \A k \in SessionKeys : k \notin Attached
  /\ NoRow \notin Rows /\ NoKey \notin SessionKeys /\ Signup \notin Puts
BY SentinelAssumption DEF Rows, Defaults, Attached

\* The initial states: a default or none, no session key, nobody under way.
LEMMA InitIInv == Init => IInv
<1> SUFFICES ASSUME Init PROVE IInv
  OBVIOUS
<1> USE RowKinds DEF Init
<1>1. PICK present \in SUBSET (Attached \union {Signup}) :
        row = [q \in Rows |-> IF q \in present THEN "enabled" ELSE "absent"]
  OBVIOUS
<1>2. \A q \in Defaults : row[q] # "absent" => q = Signup /\ row[q] = "enabled"
  BY <1>1
<1>3. \A u \in Puts : row[u] = "absent"
  BY <1>1
<1>4. TypeOK
  BY <1>1 DEF TypeOK, Answers
<1>5. KeyInv /\ OneEnabled /\ IndexInv /\ OneSuccessor
  BY <1>2 DEF KeyInv, OneEnabled, IndexInv, OneSuccessor
<1>6. PutInv
  BY <1>3 DEF PutInv
<1>7. WalkInv /\ GovernedUnlessFault
  BY DEF WalkInv, GovernedUnlessFault
<1> QED BY <1>4, <1>5, <1>6, <1>7 DEF IInv

\* A payment is not touched by a step that leaves the rows alone.
LEMMA WalkKept ==
  ASSUME IInv, UNCHANGED <<row, keys, payments>>
  PROVE  KeyInv' /\ OneEnabled' /\ WalkInv' /\ GovernedUnlessFault'
<1> USE DEF IInv, payments
<1>1. KeyInv' /\ OneEnabled'
  BY DEF KeyInv, OneEnabled
<1>2. WalkInv'
  BY DEF WalkInv
<1>3. GovernedUnlessFault'
  BY DEF GovernedUnlessFault, Governs, Enabled
<1> QED BY <1>1, <1>2, <1>3

\* A rolled back transaction leaves nothing behind.
LEMMA RollbackKeeps ==
  ASSUME IInv, NEW u \in Puts, Rollback(u), put[u] \notin Answers \union {"idle"},
         UNCHANGED <<row, keys, old, payments>>, faults' \in Nat
  PROVE  IInv'
<1>1. /\ put' = [put EXCEPT ![u] = "error"]
      /\ locked' = [locked EXCEPT ![u] = NoRow]
      /\ put[u] \notin {"ok", "error"}
  BY DEF Rollback, Answers
<1>2. TypeOK'
  BY <1>1 DEF IInv, TypeOK, Answers, payments
<1>3. PutInv' /\ IndexInv' /\ OneSuccessor'
  BY <1>1 DEF IInv, TypeOK, PutInv, IndexInv, OneSuccessor
<1> QED BY <1>2, <1>3, WalkKept DEF IInv

\* The statements of a request before its COMMIT write nothing that others see.
LEMMA RequestKeeps ==
  ASSUME IInv, NEW u \in Puts,
         \/ \E b \in Bodies : ReceivePut(u, b)
         \/ ReadDefault(u)
         \/ DisableLimitPolicy(u)
         \/ CreateLimitPolicy(u)
         \/ Die(u)
  PROVE  IInv'
<1> USE RowKinds
<1>1. UNCHANGED <<row, keys, payments>>
  BY DEF ReceivePut, ReadDefault, DisableLimitPolicy, CreateLimitPolicy, Die
<1>2. KeyInv' /\ OneEnabled' /\ WalkInv' /\ GovernedUnlessFault'
  BY <1>1, WalkKept
<1>3. faults' \in Nat
  BY DEF ReceivePut, ReadDefault, DisableLimitPolicy, CreateLimitPolicy, Die, Fault,
         IInv, TypeOK
<1>4. CASE \E b \in Bodies : ReceivePut(u, b)
  <2>1. /\ put[u] = "idle" /\ UNCHANGED <<old, locked>>
        /\ put' \in {[put EXCEPT ![u] = "lookup"], [put EXCEPT ![u] = "refused"]}
    BY <1>4 DEF ReceivePut
  <2>2. TypeOK'
    BY <1>1, <1>3, <2>1 DEF IInv, TypeOK, Answers, payments
  <2>3. PutInv' /\ IndexInv' /\ OneSuccessor'
    BY <1>1, <2>1 DEF IInv, TypeOK, PutInv, IndexInv, OneSuccessor
  <2> QED BY <1>2, <2>2, <2>3 DEF IInv
<1>5. CASE Rollback(u) /\ put[u] \notin Answers \union {"idle"} /\ UNCHANGED old
  BY <1>1, <1>3, <1>5, RollbackKeeps
<1>6. CASE ReadDefault(u) /\ ~ (Rollback(u) /\ UNCHANGED old)
  <2>1. /\ put[u] = "lookup" /\ UNCHANGED locked
        /\ \/ \E q \in Defaults : /\ row[q] = "enabled"
                                  /\ old' = [old EXCEPT ![u] = q]
                                  /\ put' = [put EXCEPT ![u] = "disable"]
           \/ old' = old /\ put' = [put EXCEPT ![u] = "insert"]
    BY <1>6 DEF ReadDefault, Enabled
  <2>2. TypeOK'
    BY <1>1, <1>3, <2>1 DEF IInv, TypeOK, Answers, payments
  <2>3. locked[u] = NoRow
    BY <2>1 DEF IInv, PutInv
  <2>4. PutInv' /\ IndexInv' /\ OneSuccessor'
    BY <1>1, <2>1, <2>3 DEF IInv, TypeOK, PutInv, IndexInv, OneSuccessor
  <2> QED BY <1>2, <2>2, <2>4 DEF IInv
<1>7. CASE DisableLimitPolicy(u) /\ ~ Rollback(u)
  <2>1. /\ put[u] = "disable" /\ UNCHANGED old
        /\ locked' = [locked EXCEPT ![u] = old[u]]
        /\ put' = [put EXCEPT ![u] = "insert"]
    BY <1>7 DEF DisableLimitPolicy
  <2>2. TypeOK'
    BY <1>1, <1>3, <2>1 DEF IInv, TypeOK, Answers, payments
  <2>3. PutInv' /\ IndexInv' /\ OneSuccessor'
    BY <1>1, <2>1 DEF IInv, TypeOK, PutInv, IndexInv, OneSuccessor
  <2> QED BY <1>2, <2>2, <2>3 DEF IInv
<1>8. CASE CreateLimitPolicy(u) /\ ~ Rollback(u)
  <2>1. /\ put[u] = "insert" /\ UNCHANGED <<old, locked>>
        /\ put' = [put EXCEPT ![u] = "commit"]
        /\ Conflicts(u) = {} /\ Undecided(u) = {}
    BY <1>8 DEF CreateLimitPolicy
  <2>2. /\ \A v \in Puts : put[v] # "commit"
        /\ \A q \in Defaults : row[q] = "enabled" => q = locked[u]
    BY <2>1 DEF Conflicts, Undecided, Enabled
  <2>3. TypeOK'
    BY <1>1, <1>3, <2>1 DEF IInv, TypeOK, Answers, payments
  <2>4. IndexInv'
    BY <1>1, <2>1, <2>2 DEF IInv, TypeOK, IndexInv
  <2>5. PutInv' /\ OneSuccessor'
    BY <1>1, <2>1 DEF IInv, TypeOK, PutInv, OneSuccessor
  <2> QED BY <1>2, <2>3, <2>4, <2>5 DEF IInv
<1>9. ReadDefault(u) \/ DisableLimitPolicy(u) \/ CreateLimitPolicy(u) \/ Die(u) =>
        put[u] \notin Answers \union {"idle"}
  BY DEF ReadDefault, DisableLimitPolicy, CreateLimitPolicy, Die, Answers
<1>10. DisableLimitPolicy(u) \/ CreateLimitPolicy(u) \/ Die(u) => UNCHANGED old
  BY DEF DisableLimitPolicy, CreateLimitPolicy, Die
<1>11. Die(u) => Rollback(u)
  BY DEF Die
<1> QED BY <1>4, <1>5, <1>6, <1>7, <1>8, <1>9, <1>10, <1>11

\* The COMMIT passes the one default on, from the row the request has disabled to
\* its own.
LEMMA CommitKeeps ==
  ASSUME IInv, NEW u \in Puts, Commit(u)
  PROVE  IInv'
<1> USE RowKinds
<1>1. CASE Rollback(u) /\ UNCHANGED <<row, live>> /\ Fault
  <2>1. put[u] \notin Answers \union {"idle"} /\ UNCHANGED <<row, keys, old, payments>>
    BY <1>1 DEF Commit, Answers, payments
  <2>2. faults' \in Nat
    BY <1>1 DEF Fault, IInv, TypeOK
  <2> QED BY <1>1, <2>1, <2>2, RollbackKeeps
<1>2. CASE ~ (Rollback(u) /\ UNCHANGED <<row, live>> /\ Fault)
  <2>1. /\ put[u] = "commit"
        /\ row' = [q \in Rows |-> CASE q = u         -> "enabled"
                                    [] q = locked[u] -> "disabled"
                                    [] OTHER         -> row[q]]
        /\ live' = [c \in Checks |->
                      IF scope[c] \in {"idle", "done"} THEN live[c]
                                                       ELSE live[c] \union {u}]
        /\ locked' = [locked EXCEPT ![u] = NoRow]
        /\ put' \in {[put EXCEPT ![u] = "ok"], [put EXCEPT ![u] = "error"]}
        /\ UNCHANGED <<keys, old, scope, signer, governor, missed, bare>>
    BY <1>2 DEF Commit
  <2>2. faults' \in Nat
    BY <1>2 DEF Commit, Fault, IInv, TypeOK
  <2>3. /\ row[u] = "absent" /\ locked[u] = old[u]
        /\ locked[u] \in Defaults \union {NoRow}
        /\ locked[u] # NoRow => row[locked[u]] # "absent"
    BY <2>1 DEF IInv, TypeOK, PutInv
  <2>4. /\ \A v \in Puts : put[v] = "commit" => v = u
        /\ \A q \in Defaults : row[q] = "enabled" => q = locked[u]
    BY <2>1 DEF IInv, IndexInv
  <2>5. /\ \A q \in Defaults : row'[q] = "enabled" <=> q = u
        /\ \A q \in Defaults : row'[q] = "absent" <=> row[q] = "absent" /\ q # u
        /\ \A q \in Rows : q \notin Defaults => row'[q] = row[q]
        /\ \A q \in Defaults : row[q] = "disabled" => row'[q] = "disabled"
        /\ locked[u] # NoRow => row'[locked[u]] = "disabled"
    BY <2>1, <2>3, <2>4
  <2>6. TypeOK'
    <3>1. row' \in [Rows -> {"absent", "enabled", "disabled"}]
      BY <2>1 DEF IInv, TypeOK
    <3>2. live' \in [Checks -> SUBSET Rows]
      BY <2>1 DEF IInv, TypeOK
    <3> QED BY <2>1, <2>2, <3>1, <3>2 DEF IInv, TypeOK, Answers
  <2>7. KeyInv' /\ OneEnabled' /\ IndexInv'
    <3>1. KeyInv'
      BY <2>1, <2>5 DEF IInv, TypeOK, KeyInv
    <3>2. OneEnabled'
      BY <2>5 DEF OneEnabled
    <3>3. \A v \in Puts : put'[v] # "commit"
      BY <2>1, <2>4 DEF IInv, TypeOK
    <3> QED BY <3>1, <3>2, <3>3 DEF IndexInv
  <2>8. PutInv'
    <3> SUFFICES ASSUME NEW v \in Puts
                 PROVE  /\ put'[v] \notin {"ok", "error"} => row'[v] = "absent"
                        /\ put'[v] = "ok" => row'[v] # "absent"
                        /\ put'[v] \in {"idle", "lookup"} => old'[v] = NoRow
                        /\ put'[v] \in {"idle", "lookup", "disable"} => locked'[v] = NoRow
                        /\ put'[v] \in {"insert", "commit"} => locked'[v] = old'[v]
                        /\ old'[v] # NoRow => row'[old'[v]] # "absent"
                        /\ put'[v] = "disable" => old'[v] # NoRow
                        /\ put'[v] = "ok" /\ old'[v] # NoRow => row'[old'[v]] = "disabled"
      BY DEF PutInv
    <3>1. old[v] \in Defaults \union {NoRow}
      BY DEF IInv, TypeOK
    <3>2. CASE v = u
      BY <2>1, <2>3, <2>5, <3>1, <3>2 DEF IInv, TypeOK, PutInv
    <3>3. CASE v # u
      BY <2>1, <2>3, <2>5, <3>1, <3>3 DEF IInv, TypeOK, PutInv
    <3> QED BY <3>2, <3>3
  <2>9. OneSuccessor'
    <3>1. ASSUME NEW v \in Puts, put[v] = "ok" PROVE old[v] # old[u]
      <4>1. \E q \in Defaults : row[q] = "enabled"
        BY <3>1 DEF IInv, PutInv, OneEnabled
      <4>2. locked[u] \in Defaults /\ row[locked[u]] = "enabled"
        BY <2>4, <4>1
      <4> QED BY <2>3, <3>1, <4>2 DEF IInv, PutInv
    <3> QED BY <2>1, <3>1 DEF IInv, TypeOK, OneSuccessor
  <2>10. WalkInv'
    BY <2>1, <2>5 DEF IInv, TypeOK, WalkInv
  <2>11. GovernedUnlessFault'
    BY <2>1, <2>5 DEF IInv, TypeOK, GovernedUnlessFault, Governs, Enabled
  <2> QED BY <2>6, <2>7, <2>8, <2>9, <2>10, <2>11 DEF IInv
<1> QED BY <1>1, <1>2

\* A mint adds a row no other scope looks at.
LEMMA MintKeeps ==
  ASSUME IInv, NEW k \in SessionKeys, Mint(k)
  PROVE  IInv'
<1> USE RowKinds
<1>1. /\ row' = [row EXCEPT ![k] = "enabled"]
      /\ keys' = keys \union {k}
      /\ UNCHANGED <<requests, payments, faults>>
  BY DEF Mint
<1>2. \A q \in Defaults \union Attached : row'[q] = row[q]
  BY <1>1 DEF IInv, TypeOK
<1>3. TypeOK'
  BY <1>1 DEF IInv, TypeOK, requests, payments
<1>4. KeyInv'
  BY <1>1 DEF IInv, TypeOK, KeyInv
<1>5. OneEnabled' /\ IndexInv' /\ OneSuccessor'
  BY <1>1, <1>2 DEF IInv, OneEnabled, IndexInv, OneSuccessor, requests
<1>6. PutInv'
  <2>1. \A v \in Puts : old[v] \in Defaults \union {NoRow}
    BY DEF IInv, TypeOK
  <2> QED BY <1>1, <1>2, <2>1 DEF IInv, PutInv, requests
<1>7. WalkInv'
  BY <1>1, <1>2 DEF IInv, WalkInv, payments
<1>8. GovernedUnlessFault'
  BY <1>1, <1>2 DEF IInv, GovernedUnlessFault, Governs, Enabled, payments
<1> QED BY <1>3, <1>4, <1>5, <1>6, <1>7, <1>8 DEF IInv

\* What is no payment's business stays.
LEMMA RowsKept ==
  ASSUME IInv, UNCHANGED <<row, keys, requests>>
  PROVE  KeyInv' /\ OneEnabled' /\ PutInv' /\ IndexInv' /\ OneSuccessor'
BY DEF IInv, KeyInv, OneEnabled, PutInv, IndexInv, OneSuccessor, requests

\* A payment begins with every enabled row on record.
LEMMA BeginKeeps ==
  ASSUME IInv, NEW c \in Checks, NEW k \in SessionKeys \union {NoKey}, BeginCheck(c, k)
  PROVE  IInv'
<1> USE RowKinds
<1>1. /\ scope[c] = "idle" /\ k \in keys \union {NoKey}
      /\ signer' = [signer EXCEPT ![c] = k]
      /\ scope' = [scope EXCEPT ![c] = IF k = NoKey THEN "wallet" ELSE "session_key"]
      /\ live' = [live EXCEPT ![c] = Enabled]
      /\ bare' = IF Enabled \intersect Defaults = {} THEN bare \union {c} ELSE bare
      /\ UNCHANGED <<row, keys, requests, governor, missed, faults>>
  BY DEF BeginCheck
<1>2. TypeOK'
  BY <1>1 DEF IInv, TypeOK, requests, Enabled
<1>3. WalkInv'
  <2>1. k # NoKey => k \in keys /\ k \in Enabled
    BY <1>1 DEF IInv, TypeOK, KeyInv, Enabled
  <2>2. \A q \in Defaults \union Attached : row[q] = "enabled" => q \in Enabled
    BY DEF Enabled
  <2>3. c \notin bare' => \E q \in Defaults : row[q] # "absent"
    BY <1>1 DEF Enabled
  <2>4. \A d \in Checks \ {c} : /\ scope'[d] = scope[d] /\ signer'[d] = signer[d]
                                /\ live'[d] = live[d] /\ (d \in bare' <=> d \in bare)
    BY <1>1 DEF IInv, TypeOK
  <2>5. scope'[c] = (IF k = NoKey THEN "wallet" ELSE "session_key") /\ signer'[c] = k
        /\ live'[c] = Enabled
    BY <1>1 DEF IInv, TypeOK
  <2> QED BY <1>1, <2>1, <2>2, <2>3, <2>4, <2>5 DEF IInv, WalkInv
<1>4. GovernedUnlessFault'
  BY <1>1 DEF IInv, TypeOK, GovernedUnlessFault, Governs, Enabled
<1> QED BY <1>1, <1>2, <1>3, <1>4, RowsKept DEF IInv

\* A SELECT ends the walk at an enabled row, or goes on with nothing left behind.
LEMMA LookupKeeps ==
  ASSUME IInv, NEW c \in Checks, Lookup(c)
  PROVE  IInv'
<1> USE RowKinds
<1>1. /\ scope[c] \in {"session_key", "wallet", "wallet_row", "wallet_group",
                       "tenant_default"}
      /\ UNCHANGED <<row, keys, requests, signer, live, bare>>
  BY DEF Lookup, IInv, TypeOK
<1>2. ASSUME NEW q \in Candidates(c, scope[c]) \intersect Enabled,
             governor' = [governor EXCEPT ![c] = q],
             scope' = [scope EXCEPT ![c] = "done"],
             UNCHANGED <<missed, faults>>
      PROVE  IInv'
  <2>1. q \in Rows /\ row[q] = "enabled"
    BY <1>2 DEF Enabled
  <2>2. TypeOK'
    BY <1>1, <1>2, <2>1 DEF IInv, TypeOK, requests
  <2>3. WalkInv'
    BY <1>1, <1>2 DEF IInv, TypeOK, WalkInv
  <2>4. ASSUME c \notin missed PROVE q \in live[c] /\ Governs(c, q)
    <3>1. CASE scope[c] = "session_key"
      <4>1. q = signer[c]
        BY <1>2, <3>1 DEF Candidates
      <4>2. signer[c] # NoKey /\ signer[c] \in live[c]
        BY <3>1 DEF IInv, WalkInv
      <4> QED BY <4>1, <4>2 DEF Governs
    <3>2. CASE scope[c] = "wallet"
      <4>1. q = "wallet"
        BY <1>2, <3>2 DEF Candidates
      <4>2. signer[c] = NoKey /\ q \in live[c]
        BY <2>1, <2>4, <3>2, <4>1 DEF IInv, WalkInv
      <4> QED BY <1>2, <4>1, <4>2 DEF Governs
    <3>3. CASE scope[c] = "wallet_row"
      BY <1>2, <3>3 DEF Candidates
    <3>4. CASE scope[c] = "wallet_group"
      BY <1>2, <2>1, <2>4, <3>4 DEF IInv, WalkInv, Governs, Candidates, Enabled
    <3>5. CASE scope[c] = "tenant_default"
      BY <1>2, <2>1, <2>4, <3>5 DEF IInv, WalkInv, Governs, Candidates, Enabled
    <3> QED BY <1>1, <3>1, <3>2, <3>3, <3>4, <3>5
  <2>5. GovernedUnlessFault'
    BY <1>1, <1>2, <2>4 DEF IInv, TypeOK, GovernedUnlessFault, Governs, Enabled
  <2> QED BY <1>1, <2>2, <2>3, <2>5, RowsKept DEF IInv
<1>3. CASE /\ Candidates(c, scope[c]) \intersect Enabled = {}
           /\ scope' = [scope EXCEPT ![c] = After(@)]
           /\ UNCHANGED <<governor, missed, faults>>
  <2>1. scope'[c] = After(scope[c]) /\ \A d \in Checks \ {c} : scope'[d] = scope[d]
    BY <1>3 DEF IInv, TypeOK
  <2>2. TypeOK'
    BY <1>1, <1>3 DEF IInv, TypeOK, After, requests
  <2>3. WalkInv'
    <3>1. CASE scope[c] = "session_key"
      <4>1. signer[c] \in Enabled
        BY <3>1 DEF IInv, TypeOK, WalkInv, KeyInv, Enabled
      <4> QED BY <1>3, <3>1, <4>1 DEF Candidates
    <3>2. CASE scope[c] # "session_key"
      BY <1>1, <1>3, <2>1, <3>2 DEF IInv, WalkInv, Candidates, After, Enabled
    <3> QED BY <3>1, <3>2
  <2>4. GovernedUnlessFault'
    <3>1. ASSUME scope[c] = "tenant_default", c \notin missed
          PROVE  governor[c] = NoRow /\ c \in bare /\ signer[c] = NoKey
      BY <1>3, <3>1 DEF IInv, OneEnabled, WalkInv, Candidates, Enabled
    <3> QED BY <1>1, <1>3, <2>1, <3>1 DEF IInv, GovernedUnlessFault, Governs, Enabled, After
  <2> QED BY <1>1, <2>2, <2>3, <2>4, RowsKept DEF IInv
<1>4. CASE /\ Fault
           /\ scope' = [scope EXCEPT ![c] =
                          IF @ = "wallet_row" THEN "tenant_default" ELSE After(@)]
           /\ missed' = missed \union {c}
           /\ UNCHANGED governor
  <2>1. /\ scope'[c] \in {"wallet", "wallet_row", "wallet_group", "tenant_default", "done"}
        /\ \A d \in Checks \ {c} : scope'[d] = scope[d]
    BY <1>1, <1>4 DEF IInv, TypeOK, After
  <2>2. TypeOK'
    BY <1>1, <1>4, <2>1 DEF IInv, TypeOK, requests, Fault, After
  <2>3. WalkInv'
    BY <1>1, <1>4, <2>1 DEF IInv, WalkInv
  <2>4. GovernedUnlessFault'
    BY <1>1, <1>4, <2>1 DEF IInv, GovernedUnlessFault, Governs, Enabled
  <2> QED BY <1>1, <2>2, <2>3, <2>4, RowsKept DEF IInv
<1> QED BY <1>2, <1>3, <1>4 DEF Lookup
-----------------------------------------------------------------------------
\* The inductive invariant holds in every reachable state.
THEOREM Resolution == Spec => []IInv
<1>1. IInv /\ [Next]_vars => IInv'
  <2> SUFFICES ASSUME IInv, [Next]_vars PROVE IInv'
    OBVIOUS
  <2>1. ASSUME NEW u \in Puts,
               (\E b \in Bodies : ReceivePut(u, b)) \/ Statement(u) \/ Die(u)
        PROVE  IInv'
    BY <2>1, RequestKeeps, CommitKeeps DEF Statement
  <2>2. ASSUME NEW k \in SessionKeys, Mint(k) PROVE IInv'
    BY <2>2, MintKeeps
  <2>3. ASSUME NEW c \in Checks,
               \/ \E k \in SessionKeys \union {NoKey} : BeginCheck(c, k)
               \/ Lookup(c)
        PROVE  IInv'
    BY <2>3, BeginKeeps, LookupKeeps
  <2>4. CASE Done \/ UNCHANGED vars
    <3>1. UNCHANGED <<row, keys, requests, payments, faults>>
      BY <2>4 DEF Done, vars
    <3>2. TypeOK'
      BY <3>1 DEF IInv, TypeOK, requests, payments
    <3> QED BY <3>1, <3>2, WalkKept, RowsKept DEF IInv
  <2> QED BY <2>1, <2>2, <2>3, <2>4 DEF Next
<1> QED BY <1>1, InitIInv, PTL DEF Spec

\* Every variable of the policy rows, the requests and the payments keeps its type.
THEOREM TypeCorrect == Spec => []TypeOK
<1>1. IInv => TypeOK
  BY DEF IInv
<1> QED BY <1>1, Resolution, PTL

\* However many replacements race and fail, a tenant that has had a default has
\* exactly one in force.
THEOREM OneInForce == Spec => []OneDefaultInForce
<1>1. ASSUME IInv PROVE OneDefaultInForce
  <2> DEFINE InForce == Enabled \intersect Defaults
  <2>1. CASE \A q \in Defaults : row[q] = "absent"
    <3>1. InForce = {}
      BY <2>1 DEF Enabled
    <3> QED BY <2>1, <3>1, FS_EmptySet DEF OneDefaultInForce
  <2>2. CASE ~ \A q \in Defaults : row[q] = "absent"
    <3>1. PICK q \in Defaults : row[q] = "enabled"
      BY <1>1, <2>2 DEF IInv, OneEnabled
    <3>2. InForce = {q}
      BY <1>1, <3>1, RowKinds DEF IInv, OneEnabled, Enabled
    <3> QED BY <2>2, <3>2, FS_Singleton DEF OneDefaultInForce
  <2> QED BY <2>1, <2>2
<1> QED BY <1>1, Resolution, PTL

\* No replacement that was acknowledged is lost under another of the same row.
THEOREM Successor == Spec => []OneSuccessor
<1>1. IInv => OneSuccessor
  BY DEF IInv
<1> QED BY <1>1, Resolution, PTL

\* The scope walk, which is no transaction, finds the most specific policy in
\* force unless one of its lookups fails.
THEOREM Governed == Spec => []GovernedUnlessFault
<1>1. IInv => GovernedUnlessFault
  BY DEF IInv
<1> QED BY <1>1, Resolution, PTL
===============================================================================
