----------------------------- MODULE Provisioning -----------------------------
(***************************************************************************)
(* Creating what a rail and the database must agree on: wallet groups      *)
(* (WalletGroups.Create), virtual addresses (VirtualAddresses.Create) and  *)
(* onramp orders (WalletGroups.CreateOnramp).  Each handler looks for the  *)
(* row of an earlier request (an onramp does not), calls the rail outside  *)
(* any database transaction, and inserts the row last, under a unique      *)
(* index: (tenant_id, owner_ref), (wallet_id, label) or (tenant_id,        *)
(* idempotency_key).                                                       *)
(*                                                                         *)
(* A group and its wallets are inserted in one transaction.  Its row is    *)
(* "open" until the commit: other sessions do not see it, and an INSERT of *)
(* the same owner_ref waits for it.                                        *)
(***************************************************************************)
EXTENDS Integers, FiniteSets

CONSTANTS
    Requests,   \* create requests, of any of the three kinds
    Misfits,    \* those whose body may be one that Postgres refuses
    Slots,      \* owner refs, labels and idempotency keys
    NoSlot,     \* an onramp without idempotency_key
    RailSets,   \* sets of rails a new group may get wallets on
    None,       \* no row
    MaxFaults   \* bound: calls that fail and processes that die

ASSUME SentinelAssumption == NoSlot \notin Slots /\ None \notin Requests
ASSUME FaultAssumption    == MaxFaults \in Nat

Kinds == {"group", "address", "onramp"}
Rails == {"crossmint", "tempo"}

ASSUME RailAssumption     == RailSets \subseteq SUBSET Rails

VARIABLES
    pc,         \* pc[r]: where request r is in its handler
    kind, slot, \* what r creates, and the unique value it creates it under
    custody,    \* custody[r]: "platform" or "user"
    wants,      \* wants[r]: the rails on which group r gets a wallet
    unstorable, \* requests whose body validates and whose row Postgres refuses
    created,    \* requests for which a rail has created something
    row,        \* row[r]: the row r inserts is "absent", "open" or "committed"
    wallets,    \* wallets[r]: rails of the wallet rows r has inserted
    address,    \* address[r]: the address column of the row of r
    target,     \* target[r]: the existing row r has found
    answer,     \* answer[r]: the row a 2xx answer to r names
    seen,       \* seen[r]: the wallets a 2xx answer to group request r lists
    announced,  \* requests that published a creation event
    faults

request == <<kind, slot, custody, wants, unstorable>>
stored  == <<row, wallets, address>>
reply   == <<answer, seen, announced>>
vars    == <<pc, request, created, stored, target, reply, faults>>

Fault == /\ faults < MaxFaults
         /\ faults' = faults + 1

Go(r, to) == pc' = [pc EXCEPT ![r] = to]

\* Variant: the unique index is missing.
NoIndex(r) == {}

\* The rows, committed or not, that the unique index keeps r from duplicating.
Holders(r) == {u \in Requests \ {r} : /\ row[u] # "absent"
                                      /\ kind[u] = kind[r]
                                      /\ slot[u] = slot[r]
                                      /\ slot[r] # NoSlot}
Visible(r) == {u \in Holders(r) : row[u] = "committed"}
-----------------------------------------------------------------------------
Init ==
    /\ pc = [r \in Requests |-> "idle"]
    /\ kind = [r \in Requests |-> "group"]
    /\ slot = [r \in Requests |-> NoSlot]
    /\ custody = [r \in Requests |-> "platform"]
    /\ wants = [r \in Requests |-> {}]
    /\ unstorable = {}
    /\ created = {}
    /\ row = [r \in Requests |-> "absent"]
    /\ wallets = [r \in Requests |-> {}]
    /\ address = [r \in Requests |-> "none"]
    /\ target = [r \in Requests |-> None]
    /\ answer = [r \in Requests |-> None]
    /\ seen = [r \in Requests |-> {}]
    /\ announced = {}
    /\ faults = 0

\* A valid body arrives.  A platform group always gets a Tempo wallet, and a
\* CrossMint one when the adapter is configured; a user-custody group gets the
\* addresses the caller registers.  A user-custody onramp is turned away.  The
\* checks let two bodies pass that the schema does not: a parent_group_id that
\* names no group, and a fiat.amount that is not a number.
Arrive(r, k, s, c, w, fits) ==
    /\ pc[r] = "idle"
    /\ s = NoSlot => k = "onramp"
    /\ k = "onramp" => c = "platform"
    /\ IF k = "group" THEN w # {} /\ (c = "platform" => "tempo" \in w) ELSE w = {}
    /\ kind' = [kind EXCEPT ![r] = k]
    /\ slot' = [slot EXCEPT ![r] = s]
    /\ custody' = [custody EXCEPT ![r] = c]
    /\ wants' = [wants EXCEPT ![r] = w]
    /\ ~fits => k # "address" /\ r \in Misfits
    /\ unstorable' = IF fits THEN unstorable ELSE unstorable \union {r}
    /\ Go(r, IF k = "onramp" THEN "rail" ELSE "lookup")
    /\ UNCHANGED <<created, stored, target, reply, faults>>

\* validateCreateGroup, validateLabel, validateOnramp, 404, 422, 501, 503.
TurnAway(r) ==
    /\ pc[r] = "idle"
    /\ Go(r, "refused")
    /\ UNCHANGED <<request, created, stored, target, reply, faults>>

(***************************************************************************)
(* The idempotency lookup                                                  *)
(***************************************************************************)

\* Only a platform group with a CrossMint adapter and a virtual address call a
\* rail before the insert.
CallsRail(r) == \/ kind[r] # "group"
                \/ custody[r] = "platform" /\ "crossmint" \in wants[r]

\* No row is visible, or the lookup failed: any error is a miss.
Miss(r) ==
    /\ \/ Visible(r) = {} /\ UNCHANGED faults
       \/ Fault
    /\ Go(r, IF CallsRail(r) THEN "rail" ELSE "insert")
    /\ UNCHANGED <<target, answer>>

\* GetWalletGroupByOwnerRef.
LookupGroup(r) ==
    /\ pc[r] = "lookup"
    /\ kind[r] = "group"
    /\ \/ /\ \E u \in Visible(r) : target' = [target EXCEPT ![r] = u]
          /\ Go(r, "listing")
          /\ UNCHANGED <<answer, faults>>
       \/ Miss(r)
    /\ UNCHANGED <<request, created, stored, seen, announced>>

\* GetVirtualAddressByLabel: an existing row is the answer, no chain call.
LookupAddress(r) ==
    /\ pc[r] = "lookup"
    /\ kind[r] = "address"
    /\ \/ /\ \E u \in Visible(r) : answer' = [answer EXCEPT ![r] = u]
          /\ Go(r, "answered")
          /\ UNCHANGED <<target, faults>>
       \/ Miss(r)
    /\ UNCHANGED <<request, created, stored, seen, announced>>

\* ListWalletsByGroup and the answer with reused = true.
ListWallets(r) ==
    /\ pc[r] = "listing"
    /\ \/ /\ answer' = [answer EXCEPT ![r] = target[r]]
          /\ seen' = [seen EXCEPT ![r] = wallets[target[r]]]
          /\ Go(r, "answered")
          /\ UNCHANGED faults
       \/ /\ Fault
          /\ Go(r, "error")
          /\ UNCHANGED <<answer, seen>>
    /\ UNCHANGED <<request, created, stored, target, announced>>

(***************************************************************************)
(* The rails                                                               *)
(***************************************************************************)

\* One call: it succeeds, or it fails with or without an effect at the rail.
RailCall(r) ==
    \/ /\ created' = created \union {r}
       /\ UNCHANGED faults
       /\ Go(r, "insert")
    \/ /\ Fault
       /\ created' \in {created, created \union {r}}
       /\ Go(r, "upstreamError")

\* crossmint.CreateWallet, then the Tempo keypair.
CreateCrossMintWallet(r) ==
    /\ pc[r] = "rail"
    /\ kind[r] = "group"
    /\ RailCall(r)
    /\ UNCHANGED <<request, stored, target, reply>>

\* Variant: the answer of the view is stored before it is looked at.
RegisterUnresolved(r) ==
    /\ pc[r] = "rail"
    /\ kind[r] = "address"
    /\ RailCall(r)
    /\ address' = [address EXCEPT ![r] = "unresolved"]
    /\ UNCHANGED <<request, row, wallets, target, reply>>

\* RegisterVirtualAddress.  The address comes from the registry's view, asked
\* before the broadcast and, if it knew nothing, once more after: it is the zero
\* address when neither call has answered with the derived one.  A user-custody
\* wallet has no master key to sign with.
RegisterVirtualAddress(r) ==
    /\ pc[r] = "rail"
    /\ kind[r] = "address"
    /\ \/ /\ custody[r] = "platform"
          /\ RailCall(r)
          /\ \E a \in {"derived", "zero"} : address' = [address EXCEPT ![r] = a]
       \/ /\ custody[r] = "user"
          /\ Go(r, "error")
          /\ UNCHANGED <<created, address, faults>>
    /\ UNCHANGED <<request, row, wallets, target, reply>>

\* crossmint.CreateOnrampOrder.
CreateOnrampOrder(r) ==
    /\ pc[r] = "rail"
    /\ kind[r] = "onramp"
    /\ RailCall(r)
    /\ UNCHANGED <<request, stored, target, reply>>

(***************************************************************************)
(* The rows                                                                *)
(***************************************************************************)

\* Variant: the group is inserted outside the transaction.
InsertGroupOutsideTx(r) ==
    /\ pc[r] = "insert"
    /\ kind[r] = "group"
    /\ Holders(r) = Visible(r)
    /\ \/ /\ Visible(r) = {}
          /\ row' = [row EXCEPT ![r] = "committed"]
          /\ Go(r, "wallets")
       \/ /\ Visible(r) # {}
          /\ Go(r, "lost")
          /\ UNCHANGED row
    /\ UNCHANGED <<request, created, wallets, address, target, reply, faults>>

\* BEGIN; INSERT INTO wallet_groups.  The statement waits for a transaction that
\* holds the owner_ref; a committed holder is a unique violation.  The foreign key
\* of parent_group_id is checked at the end of the statement.
InsertGroup(r) ==
    /\ pc[r] = "insert"
    /\ kind[r] = "group"
    /\ Holders(r) = Visible(r)
    /\ \/ /\ Visible(r) = {} /\ r \notin unstorable
          /\ row' = [row EXCEPT ![r] = "open"]
          /\ Go(r, "wallets")
          /\ UNCHANGED faults
       \/ /\ Visible(r) # {}
          /\ Go(r, "lost")
          /\ UNCHANGED <<row, faults>>
       \/ /\ \/ Visible(r) = {} /\ r \in unstorable /\ UNCHANGED faults
             \/ Fault
          /\ Go(r, "error")
          /\ UNCHANGED row
    /\ UNCHANGED <<request, created, wallets, address, target, reply>>

\* The loser of the race looks the winner up.
LookupWinner(r) ==
    /\ pc[r] = "lost"
    /\ \/ /\ \E u \in Visible(r) : target' = [target EXCEPT ![r] = u]
          /\ Go(r, "listing")
          /\ UNCHANGED faults
       \/ /\ Fault
          /\ Go(r, "error")
          /\ UNCHANGED target
    /\ UNCHANGED <<request, created, stored, reply>>

\* The transaction of r is rolled back.
Rollback(r) == /\ row' = [row EXCEPT ![r] = "absent"]
               /\ wallets' = [wallets EXCEPT ![r] = {}]

\* Variant: an early return that leaves the transaction open.
InsertWalletNoRollback(r) ==
    /\ pc[r] = "wallets"
    /\ wallets[r] # wants[r]
    /\ \/ /\ \E w \in wants[r] \ wallets[r] :
               wallets' = [wallets EXCEPT ![r] = @ \union {w}]
          /\ UNCHANGED <<pc, row, faults>>
       \/ /\ Fault
          /\ Go(r, "error")
          /\ UNCHANGED <<row, wallets>>
    /\ UNCHANGED <<request, created, address, target, reply>>

\* CreateWallet of the CrossMint wallet, then of the Tempo wallet.
InsertWallet(r) ==
    /\ pc[r] = "wallets"
    /\ wallets[r] # wants[r]
    /\ \/ /\ \E w \in wants[r] \ wallets[r] :
               /\ w = "tempo" => wants[r] \ wallets[r] = {"tempo"}
               /\ wallets' = [wallets EXCEPT ![r] = @ \union {w}]
          /\ UNCHANGED <<pc, row, faults>>
       \/ /\ Fault
          /\ Rollback(r)
          /\ Go(r, "error")
    /\ UNCHANGED <<request, created, address, target, reply>>

\* The event and the 201 of the request that created the row.
Created(r) ==
    /\ announced' = IF kind[r] = "address" THEN announced ELSE announced \union {r}
    /\ answer' = [answer EXCEPT ![r] = r]
    /\ seen' = [seen EXCEPT ![r] = wallets[r]]
    /\ Go(r, "answered")

\* Variant: the handler answers without a commit.
CommitForgotten(r) ==
    /\ pc[r] = "wallets"
    /\ wallets[r] = wants[r]
    /\ Created(r)
    /\ Rollback(r)
    /\ UNCHANGED <<request, created, address, target, faults>>

\* COMMIT, the event and the answer.  A lost answer may hide a commit.
Commit(r) ==
    /\ pc[r] = "wallets"
    /\ wallets[r] = wants[r]
    /\ \/ /\ row' = [row EXCEPT ![r] = "committed"]
          /\ Created(r)
          /\ UNCHANGED <<wallets, faults>>
       \/ /\ Fault
          /\ \/ Rollback(r)
             \/ row' = [row EXCEPT ![r] = "committed"] /\ UNCHANGED wallets
          /\ Go(r, "error")
          /\ UNCHANGED reply
    /\ UNCHANGED <<request, created, address, target>>

\* One INSERT of its own.  A unique violation, a value that is no NUMERIC and a
\* failure are all answered 500: "chain registration succeeded", "provider call
\* succeeded".
InsertRow(r) ==
    /\ pc[r] = "insert"
    /\ \/ /\ Holders(r) = {} /\ r \notin unstorable
          /\ row' = [row EXCEPT ![r] = "committed"]
          /\ Created(r)
          /\ UNCHANGED faults
       \/ /\ \/ (Holders(r) # {} \/ r \in unstorable) /\ UNCHANGED faults
             \/ Fault
          /\ Go(r, "unrecorded")
          /\ UNCHANGED <<row, reply>>
    /\ UNCHANGED <<request, created, wallets, address, target>>

CreateVirtualAddress(r) == kind[r] = "address" /\ InsertRow(r)
RecordOnramp(r)         == kind[r] = "onramp" /\ InsertRow(r)

Finished == {"refused", "answered", "error", "upstreamError", "unrecorded"}

\* The process dies: Postgres rolls its open transaction back.
Crash(r) ==
    /\ pc[r] \notin Finished \union {"idle"}
    /\ Fault
    /\ Go(r, "error")
    /\ IF row[r] = "open" THEN Rollback(r) ELSE UNCHANGED <<row, wallets>>
    /\ UNCHANGED <<request, created, address, target, reply>>
-----------------------------------------------------------------------------
Handle(r) ==
    \/ LookupGroup(r)
    \/ LookupAddress(r)
    \/ ListWallets(r)
    \/ CreateCrossMintWallet(r)
    \/ RegisterVirtualAddress(r)
    \/ CreateOnrampOrder(r)
    \/ InsertGroup(r)
    \/ LookupWinner(r)
    \/ InsertWallet(r)
    \/ Commit(r)
    \/ CreateVirtualAddress(r)
    \/ RecordOnramp(r)

Done == /\ \A r \in Requests : pc[r] \in Finished
        /\ UNCHANGED vars

Next ==
    \/ \E r \in Requests :
         \/ \E k \in Kinds, s \in Slots \union {NoSlot}, c \in {"platform", "user"},
               w \in RailSets \union {{}}, fits \in BOOLEAN :
                 Arrive(r, k, s, c, w, fits)
         \/ TurnAway(r)
         \/ Handle(r)
         \/ Crash(r)
    \/ Done

Spec == Init /\ [][Next]_vars

\* A handler that can go on does: goroutines are scheduled, calls return.
FairSpec == Spec /\ \A r \in Requests : WF_vars(Handle(r))
-----------------------------------------------------------------------------
(***************************************************************************)
(* Properties                                                              *)
(***************************************************************************)

\* Type invariant of the requests and of the rows they insert.
TypeOK ==
    /\ pc \in [Requests -> {"idle", "lookup", "listing", "rail", "insert", "lost",
                            "wallets"} \union Finished]
    /\ kind \in [Requests -> Kinds]
    /\ slot \in [Requests -> Slots \union {NoSlot}]
    /\ custody \in [Requests -> {"platform", "user"}]
    /\ wants \in [Requests -> SUBSET Rails]
    /\ unstorable \subseteq Requests
    /\ created \subseteq Requests
    /\ row \in [Requests -> {"absent", "open", "committed"}]
    /\ wallets \in [Requests -> SUBSET Rails]
    /\ address \in [Requests -> {"none", "derived", "zero"}]
    /\ target \in [Requests -> Requests \union {None}]
    /\ answer \in [Requests -> Requests \union {None}]
    /\ seen \in [Requests -> SUBSET Rails]
    /\ announced \subseteq Requests
    /\ faults \in Nat

Same(r, u) == kind[r] = kind[u] /\ slot[r] = slot[u] /\ slot[r] # NoSlot

\* "if the customer POSTs /v1/wallet-groups twice with the same owner_ref, we
\* return the existing group instead of failing": however the creates race, the
\* 2xx answers for one owner ref, label or key name one row, only the request
\* that inserted it announces it, and while no call fails every group create
\* gets such an answer.  A racer for a label and a repeated onramp key need not:
\* they end "unrecorded", with a 500.
RacersAgree ==
    \A r, u \in Requests :
        /\ Same(r, u) /\ answer[r] # None =>
              /\ answer[u] # None => answer[r] = answer[u]
              /\ u \in announced => answer[r] = u
        /\ faults = 0 /\ pc[r] \in Finished /\ kind[r] = "group" =>
              answer[r] # None \/ pc[r] = "refused" \/ r \in unstorable

\* A group is never seen half-made: the answer to every racer lists exactly the
\* wallets the winner inserted.
GroupIsWhole ==
    \A r \in Requests :
        kind[r] = "group" /\ answer[r] # None =>
            /\ row[answer[r]] = "committed"
            /\ seen[r] = wants[answer[r]]

\* While no call has failed, what a finished request created at a rail and did
\* not record is the leftover of a race some other request won, or of a body that
\* the checks let pass and the schema does not.
OrphanHasWinner ==
    faults = 0 => \A r \in created \ unstorable :
        pc[r] \in Finished /\ row[r] # "committed" => Visible(r) # {}

\* An INSERT that waits for another transaction does not wait for ever: every
\* request that has arrived is answered.
EveryoneAnswered ==
    \A r \in Requests : (pc[r] # "idle") ~> (pc[r] \in Finished)

\* "the same label always resolves to the same on-chain address": the address a
\* recorded label carries is the one the registry derives for it.
StoredAddressIsDerived ==
    \A r \in Requests :
        kind[r] = "address" /\ row[r] = "committed" => address[r] = "derived"
=============================================================================
