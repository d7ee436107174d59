------------------------- MODULE ProvisioningProofs -------------------------
(***************************************************************************)
(* Proofs about Provisioning, for any number of requests, slots and        *)
(* faults.                                                                 *)
(*                                                                         *)
(* The handlers look for an earlier row and insert theirs in two           *)
(* statements, with a rail call between them, so what makes racing         *)
(* requests agree is the unique index alone: no two rows, committed or     *)
(* open, share a slot.  Beside that the invariant says what a request may  *)
(* have done at each place of its handler, and that a row a request has    *)
(* found or answered with is committed and is of its own slot.             *)
(***************************************************************************)
EXTENDS Provisioning, TLAPS

\* Where a request has inserted nothing and has not been answered.
Rowless == {"idle", "lookup", "listing", "rail", "insert", "lost"}

\* What a request has done when it is at a place of its handler.
PhaseInv ==
    \A r \in Requests :
        /\ pc[r] \in Rowless \union {"refused", "upstreamError", "unrecorded"}
              => row[r] = "absent" /\ answer[r] = None /\ r \notin announced
        /\ pc[r] \in {"idle", "refused", "lookup", "rail"} => r \notin created
        /\ pc[r] \in {"listing", "lost", "wallets"} => kind[r] = "group"
        /\ pc[r] = "lookup" => kind[r] # "onramp"
        /\ pc[r] = "unrecorded" => kind[r] # "group"
        /\ pc[r] = "wallets" => answer[r] = None /\ r \notin announced
        /\ pc[r] = "answered" => answer[r] # None
        /\ row[r] = "open" <=> pc[r] = "wallets"

\* The unique index: one row per owner ref, label or idempotency key.
UniqueInv ==
    \A r, u \in Requests :
        Same(r, u) /\ row[r] # "absent" /\ row[u] # "absent" => r = u

\* A row that a request has found is a committed one of the same slot.
TargetInv ==
    \A r \in Requests : pc[r] = "listing" =>
        /\ target[r] \in Requests
        /\ row[target[r]] = "committed"
        /\ Same(r, target[r])

\* An answer names a committed row, the request's own or one of its slot.
AnswerInv ==
    \A r \in Requests : answer[r] # None =>
        /\ row[answer[r]] = "committed"
        /\ answer[r] = r \/ Same(r, answer[r])

\* Only a request whose row is committed announces it.
AnnouncedInv == \A r \in announced : row[r] = "committed"

\* A committed group has all its wallets.
WholeInv ==
    \A r \in Requests :
        kind[r] = "group" /\ row[r] = "committed" => wallets[r] = wants[r]

\* How a request ends without a row while nothing has failed.
OrphanInv ==
    faults = 0 => \A r \in Requests :
        /\ pc[r] # "upstreamError"
        /\ pc[r] = "error" /\ r \notin unstorable => r \notin created /\ kind[r] # "group"
        /\ pc[r] = "unrecorded" /\ r \notin unstorable => Visible(r) # {}

IInv == /\ TypeOK
        /\ PhaseInv
        /\ UniqueInv
        /\ TargetInv
        /\ AnswerInv
        /\ AnnouncedInv
        /\ WholeInv
        /\ GroupIsWhole
        /\ OrphanInv
-----------------------------------------------------------------------------
\* All a request does, its arrival and its death included.
Act(r) ==
    \/ \E k \in Kinds, s \in Slots \union {NoSlot}, c \in {"platform", "user"},
          w \in RailSets \union {{}}, fits \in BOOLEAN : Arrive(r, k, s, c, w, fits)
    \/ TurnAway(r)
    \/ Handle(r)
    \/ Crash(r)

\* The initial state: nothing has arrived.
LEMMA InitIInv == Init => IInv
<1> SUFFICES ASSUME Init PROVE IInv
  OBVIOUS
<1> USE SentinelAssumption DEF Init
<1>1. TypeOK
  BY DEF TypeOK, Kinds, Finished
<1>2. PhaseInv /\ UniqueInv /\ TargetInv
  BY DEF PhaseInv, UniqueInv, TargetInv, Rowless
<1>3. AnswerInv /\ AnnouncedInv /\ WholeInv /\ GroupIsWhole /\ OrphanInv
  BY DEF AnswerInv, AnnouncedInv, WholeInv, GroupIsWhole, OrphanInv
<1> QED BY <1>1, <1>2, <1>3 DEF IInv

\* Every step of a request keeps the types.
LEMMA ActTypeOK == ASSUME IInv, NEW r \in Requests, Act(r) PROVE TypeOK'
<1> USE DEF IInv, TypeOK, Finished, Go, Fault, request, stored, reply
<1>1. ASSUME NEW k \in Kinds, NEW s \in Slots \union {NoSlot},
             NEW c \in {"platform", "user"}, NEW w \in RailSets \union {{}},
             NEW fits \in BOOLEAN, Arrive(r, k, s, c, w, fits)
      PROVE  TypeOK'
  <2>1. w \in SUBSET Rails
    BY RailAssumption
  <2> QED BY <1>1, <2>1 DEF Arrive
<1>2. CASE TurnAway(r)
  BY <1>2 DEF TurnAway
<1>3. CASE LookupGroup(r)
  BY <1>3, FaultAssumption DEF LookupGroup, Miss, Visible, Holders
<1>4. CASE LookupAddress(r)
  BY <1>4, FaultAssumption DEF LookupAddress, Miss, Visible, Holders
<1>5. CASE ListWallets(r)
  BY <1>5, FaultAssumption DEF ListWallets, TargetInv
<1>6. CASE CreateCrossMintWallet(r) \/ CreateOnrampOrder(r)
  BY <1>6, FaultAssumption DEF CreateCrossMintWallet, CreateOnrampOrder, RailCall
<1>7. CASE RegisterVirtualAddress(r)
  BY <1>7, FaultAssumption DEF RegisterVirtualAddress, RailCall
<1>8. CASE InsertGroup(r)
  BY <1>8, FaultAssumption DEF InsertGroup
<1>9. CASE LookupWinner(r)
  BY <1>9, FaultAssumption DEF LookupWinner, Visible, Holders
<1>10. CASE InsertWallet(r)
  BY <1>10, FaultAssumption DEF InsertWallet, Rollback
<1>11. CASE Commit(r)
  BY <1>11, FaultAssumption DEF Commit, Rollback, Created
<1>12. CASE CreateVirtualAddress(r) \/ RecordOnramp(r)
  BY <1>12, FaultAssumption DEF CreateVirtualAddress, RecordOnramp, InsertRow, Created
<1>13. CASE Crash(r)
  BY <1>13, FaultAssumption DEF Crash, Rollback
<1> HIDE DEF IInv, TypeOK
<1> QED BY <1>1, <1>2, <1>3, <1>4, <1>5, <1>6, <1>7, <1>8, <1>9, <1>10, <1>11, <1>12,
           <1>13 DEF Act, Handle

\* What a step of r may change: its own entries only, its request at the arrival
\* only, and never a row that is committed or an answer that is given.
Local(r) ==
    /\ \A u \in Requests \ {r} :
         /\ pc'[u] = pc[u] /\ row'[u] = row[u] /\ wallets'[u] = wallets[u]
         /\ kind'[u] = kind[u] /\ slot'[u] = slot[u] /\ wants'[u] = wants[u]
         /\ target'[u] = target[u] /\ answer'[u] = answer[u] /\ seen'[u] = seen[u]
         /\ (u \in created' <=> u \in created) /\ (u \in announced' <=> u \in announced)
         /\ u \in unstorable' <=> u \in unstorable
    /\ pc[r] # "idle" =>
         kind'[r] = kind[r] /\ slot'[r] = slot[r] /\ wants'[r] = wants[r]
    /\ row[r] = "committed" => row'[r] = "committed" /\ wallets'[r] = wallets[r]
    /\ answer[r] # None => answer'[r] = answer[r] /\ seen'[r] = seen[r]
    /\ faults' = 0 => faults = 0

\* Every step of a request is local.
LEMMA ActLocal == ASSUME IInv, NEW r \in Requests, Act(r) PROVE Local(r)
<1> USE DEF IInv, TypeOK, PhaseInv, Rowless, Local, Go, Fault, request, stored, reply
<1>1. ASSUME NEW k \in Kinds, NEW s \in Slots \union {NoSlot},
             NEW c \in {"platform", "user"}, NEW w \in RailSets \union {{}},
             NEW fits \in BOOLEAN, Arrive(r, k, s, c, w, fits)
      PROVE  Local(r)
  BY <1>1 DEF Arrive
<1>2. CASE TurnAway(r)
  BY <1>2 DEF TurnAway
<1>3. CASE LookupGroup(r)
  BY <1>3 DEF LookupGroup, Miss
<1>4. CASE LookupAddress(r)
  BY <1>4 DEF LookupAddress, Miss
<1>5. CASE ListWallets(r)
  BY <1>5 DEF ListWallets
<1>6. CASE CreateCrossMintWallet(r) \/ CreateOnrampOrder(r)
  BY <1>6 DEF CreateCrossMintWallet, CreateOnrampOrder, RailCall
<1>7. CASE RegisterVirtualAddress(r)
  BY <1>7 DEF RegisterVirtualAddress, RailCall
<1>8. CASE InsertGroup(r)
  BY <1>8 DEF InsertGroup
<1>9. CASE LookupWinner(r)
  BY <1>9 DEF LookupWinner
<1>10. CASE InsertWallet(r)
  BY <1>10 DEF InsertWallet, Rollback
<1>11. CASE Commit(r)
  BY <1>11 DEF Commit, Rollback, Created
<1>12. CASE CreateVirtualAddress(r) \/ RecordOnramp(r)
  BY <1>12 DEF CreateVirtualAddress, RecordOnramp, InsertRow, Created
<1>13. CASE Crash(r)
  BY <1>13 DEF Crash, Rollback, Finished
<1> HIDE DEF IInv, Local
<1> QED BY <1>1, <1>2, <1>3, <1>4, <1>5, <1>6, <1>7, <1>8, <1>9, <1>10, <1>11, <1>12,
           <1>13 DEF Act, Handle

\* Every step of a request keeps what is known of its place in the handler.
LEMMA ActPhase == ASSUME IInv, NEW r \in Requests, Act(r) PROVE PhaseInv'
<1> DEFINE Phase(u) ==
      /\ pc[u] \in Rowless \union {"refused", "upstreamError", "unrecorded"}
            => row[u] = "absent" /\ answer[u] = None /\ u \notin announced
      /\ pc[u] \in {"idle", "refused", "lookup", "rail"} => u \notin created
      /\ pc[u] \in {"listing", "lost", "wallets"} => kind[u] = "group"
      /\ pc[u] = "lookup" => kind[u] # "onramp"
      /\ pc[u] = "unrecorded" => kind[u] # "group"
      /\ pc[u] = "wallets" => answer[u] = None /\ u \notin announced
      /\ pc[u] = "answered" => answer[u] # None
      /\ row[u] = "open" <=> pc[u] = "wallets"
<1>a. \A u \in Requests : Phase(u)
  BY DEF IInv, PhaseInv
<1>b. \A u \in Requests \ {r} : Phase(u)'
  BY <1>a, ActLocal DEF Local
<1>c. Phase(r)'
  <2> USE <1>a, SentinelAssumption
      DEF IInv, TypeOK, Rowless, Go, Fault, request, stored, reply
  <2>1. ASSUME NEW k \in Kinds, NEW s \in Slots \union {NoSlot},
               NEW c \in {"platform", "user"}, NEW w \in RailSets \union {{}},
               NEW fits \in BOOLEAN, Arrive(r, k, s, c, w, fits)
        PROVE  Phase(r)'
    BY <2>1 DEF Arrive
  <2>2. CASE TurnAway(r)
    BY <2>2 DEF TurnAway
  <2>3. CASE LookupGroup(r)
    BY <2>3 DEF LookupGroup, Miss
  <2>4. CASE LookupAddress(r)
    BY <2>4 DEF LookupAddress, Miss, Visible, Holders
  <2>5. CASE ListWallets(r)
    BY <2>5 DEF ListWallets, TargetInv
  <2>6. CASE CreateCrossMintWallet(r) \/ CreateOnrampOrder(r)
    BY <2>6 DEF CreateCrossMintWallet, CreateOnrampOrder, RailCall
  <2>7. CASE RegisterVirtualAddress(r)
    BY <2>7 DEF RegisterVirtualAddress, RailCall
  <2>8. CASE InsertGroup(r)
    BY <2>8 DEF InsertGroup
  <2>9. CASE LookupWinner(r)
    BY <2>9 DEF LookupWinner
  <2>10. CASE InsertWallet(r)
    BY <2>10 DEF InsertWallet, Rollback
  <2>11. CASE Commit(r)
    BY <2>11 DEF Commit, Rollback, Created
  <2>12. CASE CreateVirtualAddress(r) \/ RecordOnramp(r)
    BY <2>12 DEF CreateVirtualAddress, RecordOnramp, InsertRow, Created
  <2>13. CASE Crash(r)
    BY <2>13 DEF Crash, Rollback, Finished
  <2> HIDE <1>a DEF IInv, TypeOK, Phase
  <2> QED BY <2>1, <2>2, <2>3, <2>4, <2>5, <2>6, <2>7, <2>8, <2>9, <2>10, <2>11, <2>12,
             <2>13 DEF Act, Handle
<1> QED BY <1>b, <1>c DEF PhaseInv

\* What r must have seen for a row, a target or an answer of its to change.
Effect(r) ==
    /\ row[r] = "absent" /\ row'[r] # "absent" => pc[r] # "idle" /\ Holders(r) = {}
    /\ pc'[r] = "listing" => pc[r] # "idle" /\ target'[r] \in Visible(r)
    /\ answer'[r] # answer[r] =>
         /\ pc[r] # "idle"
         /\ \/ answer'[r] = r /\ row'[r] = "committed" /\ seen'[r] = wallets'[r]
            \/ answer'[r] \in Visible(r) /\ kind[r] # "group"
            \/ /\ pc[r] = "listing"
               /\ answer'[r] = target[r]
               /\ seen'[r] = wallets[target[r]]
    /\ r \in announced' => row'[r] = "committed"
    /\ kind'[r] = "group" /\ row'[r] = "committed" => wallets'[r] = wants'[r]
    /\ faults' = 0 =>
         /\ pc'[r] # "upstreamError"
         /\ pc'[r] = "error" /\ r \notin unstorable' =>
              r \notin created' /\ kind'[r] # "group"
         /\ pc'[r] = "unrecorded" /\ r \notin unstorable' =>
              Holders(r) # {} /\ kind[r] # "group"

\* The effects of each step of a handler.
LEMMA ActEffect == ASSUME IInv, NEW r \in Requests, Act(r) PROVE Effect(r)
<1> USE SentinelAssumption
    DEF IInv, TypeOK, PhaseInv, Rowless, AnnouncedInv, WholeInv, Effect,
        Go, Fault, request, stored, reply
<1>1. ASSUME NEW k \in Kinds, NEW s \in Slots \union {NoSlot},
             NEW c \in {"platform", "user"}, NEW w \in RailSets \union {{}},
             NEW fits \in BOOLEAN, Arrive(r, k, s, c, w, fits)
      PROVE  Effect(r)
  BY <1>1 DEF Arrive
<1>2. CASE TurnAway(r)
  BY <1>2 DEF TurnAway
<1>3. CASE LookupGroup(r)
  BY <1>3 DEF LookupGroup, Miss
<1>4. CASE LookupAddress(r)
  BY <1>4 DEF LookupAddress, Miss
<1>5. CASE ListWallets(r)
  BY <1>5 DEF ListWallets
<1>6. CASE CreateCrossMintWallet(r) \/ CreateOnrampOrder(r)
  BY <1>6 DEF CreateCrossMintWallet, CreateOnrampOrder, RailCall
<1>7. CASE RegisterVirtualAddress(r)
  BY <1>7 DEF RegisterVirtualAddress, RailCall
<1>8. CASE InsertGroup(r)
  BY <1>8 DEF InsertGroup
<1>9. CASE LookupWinner(r)
  BY <1>9 DEF LookupWinner
<1>10. CASE InsertWallet(r)
  BY <1>10 DEF InsertWallet, Rollback
<1>11. CASE Commit(r)
  BY <1>11 DEF Commit, Rollback, Created
<1>12. CASE CreateVirtualAddress(r) \/ RecordOnramp(r)
  BY <1>12 DEF CreateVirtualAddress, RecordOnramp, InsertRow, Created
<1>13. CASE Crash(r)
  BY <1>13 DEF Crash, Rollback, Finished
<1> HIDE DEF IInv, Effect
<1> QED BY <1>1, <1>2, <1>3, <1>4, <1>5, <1>6, <1>7, <1>8, <1>9, <1>10, <1>11, <1>12,
           <1>13 DEF Act, Handle

\* Requests that have arrived keep their slot, so what was of one slot stays so.
LEMMA SameStays ==
  ASSUME IInv, NEW r \in Requests, Act(r),
         NEW u \in Requests, NEW v \in Requests, pc[u] # "idle", pc[v] # "idle"
  PROVE  Same(u, v)' <=> Same(u, v)
BY ActLocal DEF Local, Same

\* A row that is not absent is of a request that has arrived, and a committed row
\* stays committed.
LEMMA RowStays ==
  ASSUME IInv, NEW r \in Requests, Act(r)
  PROVE  \A u \in Requests :
           /\ row[u] # "absent" => pc[u] # "idle"
           /\ row[u] = "committed" =>
                row'[u] = "committed" /\ wallets'[u] = wallets[u] /\ wants'[u] = wants[u]
BY ActLocal DEF Local, IInv, PhaseInv, Rowless

\* The visible rows of a slot are committed rows of that slot.
LEMMA VisibleIs ==
  \A r, u \in Requests : u \in Visible(r) <=>
                            u # r /\ row[u] = "committed" /\ Same(r, u)
BY DEF Visible, Holders, Same

\* The index stays unique: an insert finds no holder of its slot.
LEMMA ActUnique == ASSUME IInv, NEW r \in Requests, Act(r) PROVE UniqueInv'
<1> SUFFICES ASSUME NEW u \in Requests, NEW v \in Requests,
                    Same(u, v)', row'[u] # "absent", row'[v] # "absent", u # v
             PROVE  FALSE
  BY DEF UniqueInv
<1>1. ASSUME NEW x \in Requests, row'[x] # "absent" PROVE pc[x] # "idle"
  BY <1>1, ActLocal, ActEffect, RowStays DEF Local, Effect
<1>2. Same(u, v)
  BY <1>1, SameStays
<1>3. CASE row[u] # "absent" /\ row[v] # "absent"
  BY <1>2, <1>3 DEF IInv, UniqueInv
<1>4. CASE row[u] = "absent"
  <2>1. u = r /\ row[v] # "absent"
    BY <1>4, ActLocal DEF Local
  <2> QED BY <2>1, <1>2, <1>4, ActEffect DEF Effect, Holders, Same
<1>5. CASE row[v] = "absent"
  <2>1. v = r /\ row[u] # "absent"
    BY <1>5, ActLocal DEF Local
  <2> QED BY <2>1, <1>2, <1>5, ActEffect DEF Effect, Holders, Same
<1> QED BY <1>3, <1>4, <1>5

\* What a request has found stays committed and of its slot.
LEMMA ActTarget == ASSUME IInv, NEW r \in Requests, Act(r) PROVE TargetInv'
<1> SUFFICES ASSUME NEW u \in Requests, pc'[u] = "listing"
             PROVE  /\ target'[u] \in Requests
                    /\ row'[target'[u]] = "committed"
                    /\ Same(u, target[u])'
  BY DEF TargetInv
<1>1. /\ pc[u] # "idle"
      /\ target'[u] \in Requests
      /\ row[target'[u]] = "committed"
      /\ Same(u, target'[u])
  <2>1. CASE u = r
    <3>1. pc[r] # "idle" /\ target'[r] \in Visible(r)
      BY <2>1, ActEffect DEF Effect
    <3>2. target'[r] \in Requests
      BY <3>1 DEF Visible, Holders
    <3> QED BY <2>1, <3>1, <3>2, VisibleIs
  <2>2. CASE u # r
    <3>1. pc[u] = "listing" /\ target'[u] = target[u]
      BY <2>2, ActLocal DEF Local
    <3> QED BY <3>1 DEF IInv, TargetInv
  <2> QED BY <2>1, <2>2
<1> DEFINE v == target'[u]
<1>2. v \in Requests /\ pc[v] # "idle" /\ row'[v] = "committed"
  BY <1>1, RowStays
<1>3. kind'[u] = kind'[v] /\ slot'[u] = slot'[v] /\ slot'[u] # NoSlot
  BY <1>1, <1>2, ActLocal DEF Local, Same
<1> QED BY <1>1, <1>2, <1>3 DEF Same

\* An answer given before or in this step names a row committed by now, of the slot
\* of the request, and lists the wallets of that row.
LEMMA ActAnswer ==
  ASSUME IInv, NEW r \in Requests, Act(r)
  PROVE  AnswerInv' /\ GroupIsWhole'
<1> SUFFICES ASSUME NEW u \in Requests, answer'[u] # None
             PROVE  /\ row'[answer'[u]] = "committed"
                    /\ answer'[u] = u \/ Same(u, answer[u])'
                    /\ kind'[u] = "group" => seen'[u] = wants'[answer'[u]]
  BY DEF AnswerInv, GroupIsWhole
<1> DEFINE v == answer'[u]
<1>0. v \in Requests
  BY ActTypeOK DEF TypeOK
<1>1. CASE answer[u] = v
  <2>1. /\ row[v] = "committed"
        /\ v = u \/ Same(u, v)
        /\ kind[u] = "group" => seen[u] = wants[v]
    BY <1>1 DEF IInv, AnswerInv, GroupIsWhole
  <2>2. pc[u] # "idle" /\ pc[v] # "idle"
    BY <1>0, <1>1, <2>1, RowStays DEF IInv, PhaseInv, Rowless
  <2>3. kind'[u] = kind[u] /\ kind'[v] = kind[v] /\ slot'[u] = slot[u] /\ slot'[v] = slot[v]
    BY <1>0, <2>2, ActLocal DEF Local
  <2>4. seen'[u] = seen[u]
    BY <1>1, ActLocal DEF Local
  <2> QED BY <1>0, <2>1, <2>3, <2>4, RowStays DEF Same
<1>2. CASE answer[u] # v
  <2>1. u = r /\ pc[r] # "idle"
    BY <1>2, ActLocal, ActEffect DEF Local, Effect
  <2>2. kind'[r] = kind[r] /\ slot'[r] = slot[r]
    BY <2>1, ActLocal DEF Local
  <2>3. CASE v = r /\ row'[r] = "committed" /\ seen'[r] = wallets'[r]
    BY <2>1, <2>3, ActEffect DEF Effect
  <2>4. ASSUME v # r, row[v] = "committed", Same(r, v),
               kind[r] = "group" => seen'[r] = wants[v]
        PROVE  /\ row'[v] = "committed" /\ Same(u, answer[u])'
               /\ kind'[u] = "group" => seen'[u] = wants'[v]
    <3>1. kind'[v] = kind[v] /\ slot'[v] = slot[v]
      BY <1>0, <2>4, ActLocal DEF Local
    <3> QED BY <1>0, <2>1, <2>2, <2>4, <3>1, RowStays DEF Same
  <2>5. CASE v \in Visible(r) /\ kind[r] # "group"
    BY <1>0, <2>1, <2>4, <2>5, VisibleIs
  <2>6. CASE pc[r] = "listing" /\ v = target[r] /\ seen'[r] = wallets[target[r]]
    <3>1. row[v] = "committed" /\ Same(r, v)
      BY <2>6 DEF IInv, TargetInv
    <3>2. v # r
      BY <2>6, <3>1 DEF IInv, PhaseInv, Rowless
    <3>3. kind[r] = "group" => wallets[v] = wants[v]
      BY <1>0, <3>1 DEF IInv, WholeInv, Same
    <3> QED BY <2>1, <2>4, <2>6, <3>1, <3>2, <3>3
  <2> QED BY <1>2, <2>1, <2>3, <2>5, <2>6, ActEffect DEF Effect
<1> QED BY <1>1, <1>2

\* Announcements are of committed rows, and committed groups are whole.
LEMMA ActWhole ==
  ASSUME IInv, NEW r \in Requests, Act(r)
  PROVE  AnnouncedInv' /\ WholeInv'
<1>1. AnnouncedInv'
  <2> SUFFICES ASSUME NEW u \in announced' PROVE row'[u] = "committed"
    BY DEF AnnouncedInv
  <2>1. u \in Requests
    BY ActTypeOK DEF TypeOK
  <2>2. CASE u = r
    BY <2>2, ActEffect DEF Effect
  <2>3. CASE u # r
    BY <2>1, <2>3, ActLocal DEF Local, IInv, AnnouncedInv
  <2> QED BY <2>2, <2>3
<1>2. WholeInv'
  <2> SUFFICES ASSUME NEW u \in Requests, kind'[u] = "group", row'[u] = "committed"
               PROVE  wallets'[u] = wants'[u]
    BY DEF WholeInv
  <2>2. CASE u = r
    BY <2>2, ActEffect DEF Effect
  <2>3. CASE u # r
    BY <2>3, ActLocal DEF Local, IInv, WholeInv
  <2> QED BY <2>2, <2>3
<1> QED BY <1>1, <1>2

\* A visible row stays visible to a request that has arrived.
LEMMA VisibleStays ==
  ASSUME IInv, NEW r \in Requests, Act(r), NEW u \in Requests, pc[u] # "idle",
         Visible(u) # {}
  PROVE  Visible(u)' # {}
<1>1. PICK v \in Requests : v # u /\ row[v] = "committed" /\ Same(u, v)
  BY VisibleIs DEF Visible, Holders
<1>2. pc[v] # "idle" /\ row'[v] = "committed"
  BY <1>1, RowStays
<1>3. Same(u, v)'
  BY <1>1, <1>2, SameStays
<1> QED BY <1>1, <1>2, <1>3 DEF Same, Visible, Holders

\* While nothing fails, who ends without a row has created nothing or sees the
\* row that was there first: only groups are inserted by transactions that others
\* could wait for.
LEMMA ActOrphan == ASSUME IInv, NEW r \in Requests, Act(r) PROVE OrphanInv'
<1> SUFFICES ASSUME faults' = 0, NEW u \in Requests
             PROVE  /\ pc'[u] # "upstreamError"
                    /\ pc'[u] = "error" /\ u \notin unstorable' =>
                         u \notin created' /\ kind'[u] # "group"
                    /\ pc'[u] = "unrecorded" /\ u \notin unstorable' => Visible(u)' # {}
  BY DEF OrphanInv
<1>0. faults = 0
  BY ActLocal DEF Local
<1>1. CASE u # r
  <2>1. /\ pc'[u] = pc[u] /\ kind'[u] = kind[u] /\ (u \in created' <=> u \in created)
        /\ u \in unstorable' <=> u \in unstorable
    BY <1>1, ActLocal DEF Local
  <2> QED BY <1>0, <2>1, VisibleStays DEF IInv, OrphanInv
<1>2. CASE u = r
  <2>1. ASSUME pc'[r] = "unrecorded", r \notin unstorable' PROVE Visible(r)' # {}
    <3>1. Holders(r) # {} /\ kind[r] # "group"
      BY <2>1, ActEffect DEF Effect
    <3>2. Visible(r) # {}
      BY <3>1 DEF IInv, TypeOK, PhaseInv, Holders, Visible
    <3>3. slot[r] # NoSlot
      BY <3>1 DEF Holders
    <3>4. pc[r] # "idle"
      BY <2>1 DEF Act, Handle, Arrive, TurnAway, Go, LookupGroup, LookupAddress,
           ListWallets, CreateCrossMintWallet, RegisterVirtualAddress, CreateOnrampOrder,
           InsertGroup, LookupWinner, InsertWallet, Commit, CreateVirtualAddress,
           RecordOnramp, InsertRow, Crash, IInv, TypeOK
    <3> QED BY <3>2, <3>4, VisibleStays
  <2> QED BY <1>2, <2>1, ActEffect DEF Effect
<1> QED BY <1>1, <1>2

\* The invariant is inductive.
LEMMA NextIInv == IInv /\ [Next]_vars => IInv'
<1> SUFFICES ASSUME IInv, [Next]_vars PROVE IInv'
  OBVIOUS
<1>1. ASSUME NEW r \in Requests, Act(r) PROVE IInv'
  BY <1>1, ActTypeOK, ActPhase, ActUnique, ActTarget, ActAnswer, ActWhole, ActOrphan DEF IInv
<1>2. CASE UNCHANGED vars
  <2>1. TypeOK' /\ PhaseInv' /\ UniqueInv' /\ TargetInv'
    BY <1>2 DEF vars, request, stored, reply, IInv, TypeOK, PhaseInv, UniqueInv, TargetInv,
         Same
  <2>2. AnswerInv' /\ AnnouncedInv' /\ WholeInv' /\ GroupIsWhole' /\ OrphanInv'
    BY <1>2 DEF vars, request, stored, reply, IInv, AnswerInv, AnnouncedInv, WholeInv,
         GroupIsWhole, OrphanInv, Same, Visible, Holders
  <2> QED BY <2>1, <2>2 DEF IInv
<1> QED BY <1>1, <1>2 DEF Next, Done, Act
-----------------------------------------------------------------------------
\* The inductive invariant of the creating handlers holds in every reachable state.
THEOREM Provisioned == Spec => []IInv
BY InitIInv, NextIInv, PTL DEF Spec

\* Every variable of Provisioning keeps its type.
THEOREM TypeCorrect == Spec => []TypeOK
<1>1. IInv => TypeOK
  BY DEF IInv
<1> QED BY <1>1, Provisioned, PTL

\* The 2xx answers of WalletGroups.Create, VirtualAddresses.Create and CreateOnramp
\* for a slot name one row, only the request that inserted it announces it, and
\* without a failed call every group create whose body fits the schema is answered.
THEOREM Agreement == Spec => []RacersAgree
<1>0. ASSUME IInv, NEW r \in Requests, faults = 0, pc[r] \in Finished, kind[r] = "group"
      PROVE  answer[r] # None \/ pc[r] = "refused" \/ r \in unstorable
  BY <1>0 DEF IInv, PhaseInv, OrphanInv, Finished
<1>1. IInv => RacersAgree
  <2> SUFFICES ASSUME IInv, NEW r \in Requests, NEW u \in Requests, Same(r, u),
                      answer[r] # None
               PROVE  /\ answer[u] # None => answer[r] = answer[u]
                      /\ u \in announced => answer[r] = u
    BY <1>0 DEF RacersAgree
  <2>1. /\ answer[r] \in Requests
        /\ row[answer[r]] = "committed"
        /\ Same(u, answer[r])
    BY DEF IInv, TypeOK, AnswerInv, Same
  <2>2. ASSUME NEW v \in Requests, row[v] = "committed", Same(u, v)
        PROVE  answer[r] = v
    BY <2>1, <2>2 DEF IInv, UniqueInv, Same
  <2>3. ASSUME answer[u] # None PROVE answer[r] = answer[u]
    <3>1. answer[u] \in Requests /\ row[answer[u]] = "committed" /\ Same(u, answer[u])
      BY <2>3 DEF IInv, TypeOK, AnswerInv, Same
    <3> QED BY <2>2, <3>1
  <2>4. ASSUME u \in announced PROVE answer[r] = u
    <3>1. row[u] = "committed" /\ Same(u, u)
      BY <2>4 DEF IInv, AnnouncedInv, Same
    <3> QED BY <2>2, <3>1
  <2> QED BY <2>3, <2>4
<1> QED BY <1>1, Provisioned, PTL

\* A wallet group is never answered half-made, by the winner or by a racer.
THEOREM WholeGroups == Spec => []GroupIsWhole
<1>1. IInv => GroupIsWhole
  BY DEF IInv
<1> QED BY <1>1, Provisioned, PTL

\* Without a failed call, whatever a body that fits the schema created at a rail and
\* did not record lost its slot to a request whose row is committed.
THEOREM OrphansLost == Spec => []OrphanHasWinner
<1>1. IInv => OrphanHasWinner
  <2> SUFFICES ASSUME IInv, faults = 0, NEW r \in created \ unstorable, pc[r] \in Finished,
                      row[r] # "committed"
               PROVE  Visible(r) # {}
    BY DEF OrphanHasWinner
  <2>1. r \in Requests
    BY DEF IInv, TypeOK
  <2>2. pc[r] \in {"answered", "unrecorded"}
    BY <2>1 DEF IInv, PhaseInv, OrphanInv, Finished
  <2>3. CASE pc[r] = "unrecorded"
    BY <2>1, <2>3 DEF IInv, OrphanInv
  <2>4. CASE pc[r] = "answered"
    <3>1. answer[r] \in Requests /\ row[answer[r]] = "committed"
          /\ answer[r] # r /\ Same(r, answer[r])
      BY <2>1, <2>4 DEF IInv, TypeOK, PhaseInv, AnswerInv
    <3> QED BY <2>1, <3>1, VisibleIs
  <2> QED BY <2>2, <2>3, <2>4
<1> QED BY <1>1, Provisioned, PTL

\* Once committed, a row is never undone, and a 2xx answer never changes: no step
\* of any request, no rollback and no crash takes either back.
NothingTakenBack ==
    \A r \in Requests : /\ row[r] = "committed" => row'[r] = "committed"
                        /\ answer[r] # None => answer'[r] = answer[r]

\* Committed rows and given answers are stable.
THEOREM Stable == Spec => [][NothingTakenBack]_vars
<1>1. IInv /\ [Next]_vars => [NothingTakenBack]_vars
  <2> SUFFICES ASSUME IInv, Next PROVE NothingTakenBack \/ UNCHANGED vars
    OBVIOUS
  <2>1. ASSUME NEW r \in Requests, Act(r) PROVE NothingTakenBack
    BY <2>1, ActLocal DEF Local, NothingTakenBack
  <2> QED BY <2>1 DEF Next, Done, Act
<1> QED BY <1>1, Provisioned, PTL DEF Spec
=============================================================================
