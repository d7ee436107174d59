------------------------ MODULE WebhookDeliveryProofs ------------------------
(***************************************************************************)
(* Proofs about WebhookDelivery, for any number of events, endpoints,      *)
(* workers, administrators, attempts and faults.                           *)
(*                                                                         *)
(* The claim is the only statement on webhook_events that looks at the     *)
(* status; the outcome statements write by id alone.  They are safe since  *)
(* a worker that owes a row its outcome is the only one that does, and the *)
(* row is "delivering" as long as it does.  The bound on the POSTs needs,  *)
(* beside that, that the attempts the worker has read are still those of   *)
(* the row, and how many POSTs the row has seen in each of its states.     *)
(***************************************************************************)
EXTENDS WebhookDelivery, TLAPS

\* A worker past its claim holds a row.
CurInv == \A w \in Workers : wpc[w] \notin {"idle", "claim"} => cur[w] \in Rows

\* The attempts a worker has read are those of the row until its outcome.
TriedInv == \A w \in Workers : \A e \in Rows : Owns(w, e) => tried[w] = attempts[e]

\* Publish writes each row once: what is still to be written has no row.
PublishInv ==
    /\ fanout # {} => fanning \in Domain
    /\ fanning \notin unpublished
    /\ \A d \in unpublished, p \in Endpoints : evStatus[<<d, p>>] = "absent"
    /\ \A f \in fanout : evStatus[<<fanning, f[1]>>] = "absent"
    /\ \A f, g \in fanout : f[1] = g[1] => f = g

\* POSTs and attempts: they differ by the POST whose outcome is not recorded.
PostInv ==
    \A e \in Rows :
        /\ posts[e] <= attempts[e] + 1
        /\ evStatus[e] \in {"absent", "pending", "failed"} => posts[e] <= attempts[e]
        /\ \A w \in Workers : Owns(w, e) /\ wpc[w] \in {"endpoint", "post", "retry"}
                                 => posts[e] <= attempts[e]

\* A worker about to record a delivery has seen the 2xx.
AcceptedInv == \A w \in Workers : wpc[w] = "delivered" => cur[w] \in accepted

IInv == /\ TypeOK
        /\ CurInv
        /\ TriedInv
        /\ PublishInv
        /\ PostInv
        /\ AcceptedInv
        /\ OneOwner
        /\ DeliveredWasAccepted
        /\ StrandedByFaultOnly
-----------------------------------------------------------------------------
\* The endpoint of a row is an endpoint.
LEMMA EndpointOfRow == \A e \in Rows : EndpointOf(e) \in Endpoints
BY DEF Rows, EndpointOf

\* A row of the fan-out is a row.
LEMMA RowOf == \A d \in Domain, p \in Endpoints : <<d, p>> \in Rows
BY DEF Rows

\* The initial state: no endpoint, no row, idle workers.
LEMMA InitIInv == Init => IInv
<1> SUFFICES ASSUME Init PROVE IInv
  OBVIOUS
<1> USE AttemptsAssumption, SentinelAssumption DEF Init
<1>1. TypeOK
  BY DEF TypeOK
<1>2. CurInv /\ TriedInv /\ AcceptedInv /\ OneOwner
  BY DEF CurInv, TriedInv, AcceptedInv, OneOwner, Owns
<1>3. PublishInv
  BY RowOf DEF PublishInv
<1>4. PostInv /\ DeliveredWasAccepted /\ StrandedByFaultOnly
  BY DEF PostInv, DeliveredWasAccepted, StrandedByFaultOnly, Stranded, Owns
<1> QED BY <1>1, <1>2, <1>3, <1>4 DEF IInv
-----------------------------------------------------------------------------
(***************************************************************************)
(* Type correctness                                                        *)
(***************************************************************************)

\* Publishing keeps the types.
LEMMA PublishTypeOK == ASSUME TypeOK, PublishInv, PublishStep PROVE TypeOK'
<1> USE DEF TypeOK, endpoints, events, workers, history
<1>1. ASSUME NEW d \in Domain, Publish(d) PROVE TypeOK'
  BY <1>1 DEF Publish
<1>2. ASSUME NEW f \in fanout, InsertEvent(f) PROVE TypeOK'
  <2>1. <<fanning, f[1]>> \in Rows /\ f[2] \in Nat
    BY RowOf DEF PublishInv
  <2>2. /\ fanout' \subseteq Endpoints \X Nat
        /\ faults' \in Nat
    BY <1>2 DEF InsertEvent, Fault
  <2>3. /\ evStatus' \in [Rows -> {"absent", "pending", "delivering", "delivered",
                                   "failed", "dead"}]
        /\ evVersion' \in [Rows -> Nat]
        /\ due' \subseteq Rows
    BY <1>2, <2>1 DEF InsertEvent
  <2> QED BY <1>2, <2>2, <2>3 DEF InsertEvent
<1>3. CASE PublishReturns
  BY <1>3 DEF PublishReturns
<1> QED BY <1>1, <1>2, <1>3 DEF PublishStep

\* The steps of a worker keep the types: the attempts of a row stay below the
\* bound since the worker that counts them has read them at its claim.
LEMMA WorkerTypeOK ==
  ASSUME TypeOK, CurInv, TriedInv, NEW w \in Workers, Tick(w) \/ Crash(w)
  PROVE  TypeOK'
<1> USE AttemptsAssumption, FaultAssumption
    DEF TypeOK, CurInv, At, GoTo, Forget, NextRow, endpoints, events, publisher, history
<1>1. CASE ListDueWebhookEvents(w)
  BY <1>1 DEF ListDueWebhookEvents
<1>2. ASSUME NEW e \in Rows, MarkDelivering(w, e) PROVE TypeOK'
  <2>1. queue' \in [Workers -> SUBSET Rows]
    BY <1>2 DEF MarkDelivering, ClaimStep
  <2>2. CASE Take(w, e)
    BY <1>2, <2>1, <2>2 DEF MarkDelivering, ClaimStep, Take
  <2>3. CASE Skip(w, e)
    BY <1>2, <2>1, <2>3 DEF MarkDelivering, ClaimStep, Skip, Fault
  <2> QED BY <1>2, <2>2, <2>3 DEF MarkDelivering, ClaimStep
<1>3. CASE LoadEndpoint(w)
  <2>1. faults' \in Nat /\ secret' \in [Workers -> Nat]
    BY <1>3, EndpointOfRow DEF LoadEndpoint, Fault
  <2> QED BY <1>3, <2>1 DEF LoadEndpoint
<1>4. CASE Post(w)
  BY <1>4 DEF Post
<1>5. CASE MarkDelivered(w)
  BY <1>5 DEF MarkDelivered, Write, Fault
<1>6. CASE TouchSuccess(w)
  BY <1>6, EndpointOfRow DEF TouchSuccess, Fault
<1>7. CASE ScheduleRetry(w)
  <2>1. tried[w] = attempts[cur[w]] /\ cur[w] \in Rows
    BY <1>7 DEF ScheduleRetry, TriedInv, Owns
  <2>2. /\ evStatus' \in [Rows -> {"absent", "pending", "delivering", "delivered",
                                   "failed", "dead"}]
        /\ attempts' \in [Rows -> 0..(MaxAttempts - 1)]
        /\ due' \subseteq Rows
        /\ faults' \in Nat
    BY <1>7, <2>1 DEF ScheduleRetry, OutOfAttempts, Write, Fault
  <2> QED BY <1>7, <2>2 DEF ScheduleRetry
<1>8. CASE BumpFailure(w)
  <2>1. failures' \in [Endpoints -> Nat] /\ faults' \in Nat
    BY <1>8, EndpointOfRow DEF BumpFailure, Fault
  <2>2. \/ wpc' = [wpc EXCEPT ![w] = "pause"] /\ UNCHANGED <<cur, tried, secret>>
        \/ NextRow(w)
    BY <1>8 DEF BumpFailure
  <2>3. /\ wpc' \in [Workers -> {"idle", "claim", "endpoint", "post", "delivered",
                                 "success", "retry", "refused", "bump", "pause"}]
        /\ cur' \in [Workers -> Rows \union {NoRow}]
        /\ tried' \in [Workers -> 0..(MaxAttempts - 1)]
        /\ secret' \in [Workers -> Nat]
    BY <2>2
  <2> QED BY <1>8, <2>1, <2>3 DEF BumpFailure
<1>9. CASE PauseEndpoint(w)
  BY <1>9, EndpointOfRow DEF PauseEndpoint, Fault
<1>10. CASE Crash(w)
  BY <1>10 DEF Crash, Fault
<1> QED BY <1>1, <1>2, <1>3, <1>4, <1>5, <1>6, <1>7, <1>8, <1>9, <1>10 DEF Tick

\* The backoff, the endpoint handlers and stuttering keep the types.
LEMMA OtherTypeOK ==
  ASSUME TypeOK,
         \/ \E e \in Rows : BackoffElapses(e)
         \/ \E p \in Endpoints : CreateEndpoint(p)
         \/ \E a \in Admins : AdminStep(a)
         \/ Done
         \/ UNCHANGED vars
  PROVE  TypeOK'
<1> USE DEF TypeOK, endpoints, events, publisher, workers, history
<1>1. ASSUME NEW e \in Rows, BackoffElapses(e) PROVE TypeOK'
  BY <1>1 DEF BackoffElapses
<1>2. ASSUME NEW p \in Endpoints, CreateEndpoint(p) PROVE TypeOK'
  BY <1>2 DEF CreateEndpoint
<1>3. ASSUME NEW a \in Admins, NEW p \in Endpoints,
             NEW op \in {"active", "paused", "rotate", "deleted"}, AdminRead(a, op, p)
      PROVE  TypeOK'
  <2>1. /\ [op |-> "done"] \in [op : {"idle", "done"}]
        /\ [op |-> op, endpoint |-> p]
             \in [op : {"active", "paused", "rotate", "deleted"}, endpoint : Endpoints]
    OBVIOUS
  <2> QED BY <1>3, <2>1 DEF AdminRead
<1>4. ASSUME NEW a \in Admins, AdminWrite(a) PROVE TypeOK'
  <2>1. adm[a] \in [op : {"active", "paused", "rotate", "deleted"}, endpoint : Endpoints]
    BY <1>4 DEF AdminWrite
  <2>2. adm[a].endpoint \in Endpoints /\ adm[a].op \in {"active", "paused", "rotate", "deleted"}
    BY <2>1
  <2>3. [op |-> "done"] \in [op : {"idle", "done"}]
    OBVIOUS
  <2>4. adm' \in [Admins -> [op : {"idle", "done"}] \union
                            [op : {"active", "paused", "rotate", "deleted"},
                             endpoint : Endpoints]]
    BY <1>4, <2>3 DEF AdminWrite
  <2>5. /\ version' \in [Endpoints -> Nat]
        /\ epStatus' \in [Endpoints -> {"absent", "active", "paused", "deleted"}]
    <3>1. CASE adm[a].op = "rotate"
      BY <1>4, <2>2, <3>1 DEF AdminWrite
    <3>2. CASE adm[a].op # "rotate"
      BY <1>4, <2>2, <3>2 DEF AdminWrite
    <3> QED BY <3>1, <3>2
  <2> QED BY <1>4, <2>4, <2>5 DEF AdminWrite
<1>5. CASE Done \/ UNCHANGED vars
  BY <1>5 DEF Done, vars
<1> QED BY <1>1, <1>2, <1>3, <1>4, <1>5 DEF AdminStep
-----------------------------------------------------------------------------
(***************************************************************************)
(* The inductive step                                                      *)
(***************************************************************************)

\* Publishing only adds pending rows where there were none.
LEMMA PublishKeeps == ASSUME IInv, TypeOK', PublishStep PROVE IInv'
<1> USE DEF IInv, endpoints, events, workers, history
<1>1. ASSUME NEW d \in Domain, Publish(d) PROVE IInv'
  <2>1. PublishInv'
    BY <1>1, SentinelAssumption DEF Publish, PublishInv, TypeOK
  <2>2. /\ CurInv' /\ TriedInv' /\ PostInv' /\ AcceptedInv' /\ OneOwner'
        /\ DeliveredWasAccepted' /\ StrandedByFaultOnly'
    BY <1>1 DEF Publish, CurInv, TriedInv, PostInv, AcceptedInv, OneOwner,
         DeliveredWasAccepted, StrandedByFaultOnly, Stranded, Owns
  <2> QED BY <2>1, <2>2
<1>2. ASSUME NEW f \in fanout, InsertEvent(f) PROVE IInv'
  <2> DEFINE e == <<fanning, f[1]>>
  <2>1. e \in Rows /\ evStatus[e] = "absent"
    BY RowOf DEF PublishInv, TypeOK
  <2>2. evStatus' \in {evStatus, [evStatus EXCEPT ![e] = "pending"]}
    BY <1>2 DEF InsertEvent
  <2>3. /\ UNCHANGED <<attempts, unpublished, fanning, wpc, queue, cur, tried, posts, accepted>>
        /\ fanout' = fanout \ {f}
        /\ faults' = 0 => faults = 0
    BY <1>2, FaultAssumption DEF InsertEvent, Fault, TypeOK
  <2> HIDE DEF e
  <2>4. PublishInv'
    <3>1. \A d \in unpublished, p \in Endpoints : <<d, p>> # e /\ <<d, p>> \in Rows
      <4> SUFFICES ASSUME NEW d \in unpublished, NEW p \in Endpoints
                   PROVE  <<d, p>> # e /\ <<d, p>> \in Rows
        OBVIOUS
      <4>1. d \in Domain /\ d # fanning
        BY DEF PublishInv, TypeOK
      <4> QED BY <4>1, RowOf DEF e
    <3>2. \A g \in fanout \ {f} : <<fanning, g[1]>> # e /\ <<fanning, g[1]>> \in Rows
      BY RowOf DEF PublishInv, TypeOK, e
    <3> QED BY <2>1, <2>2, <2>3, <3>1, <3>2 DEF PublishInv, TypeOK
  <2>5. CurInv' /\ TriedInv' /\ AcceptedInv' /\ OneOwner'
    BY <2>1, <2>2, <2>3 DEF CurInv, TriedInv, AcceptedInv, OneOwner, Owns, TypeOK
  <2>6. PostInv' /\ DeliveredWasAccepted' /\ StrandedByFaultOnly'
    BY <2>1, <2>2, <2>3 DEF PostInv, DeliveredWasAccepted, StrandedByFaultOnly,
         Stranded, Owns, TypeOK
  <2> QED BY <2>4, <2>5, <2>6
<1>3. CASE PublishReturns
  BY <1>3, SentinelAssumption DEF PublishReturns, PublishInv, CurInv, TriedInv, PostInv, AcceptedInv,
     OneOwner, DeliveredWasAccepted, StrandedByFaultOnly, Stranded, Owns, TypeOK
<1> QED BY <1>1, <1>2, <1>3 DEF PublishStep

\* A claimable row that a worker marks has no owner, and becomes its row.
LEMMA ClaimKeeps ==
  ASSUME IInv, TypeOK', NEW w \in Workers, NEW e \in Rows, MarkDelivering(w, e)
  PROVE  IInv'
<1> USE DEF IInv, publisher, history
<1>1. /\ wpc[w] = "claim"
      /\ UNCHANGED <<attempts, fanout, fanning, unpublished, posts, accepted>>
  BY DEF MarkDelivering, ClaimStep, At
<1>2. CASE evStatus[e] \in Claimable /\ Take(w, e)
  <2>1. /\ evStatus' = [evStatus EXCEPT ![e] = "delivering"]
        /\ cur' = [cur EXCEPT ![w] = e]
        /\ tried' = [tried EXCEPT ![w] = attempts[e]]
        /\ wpc' = [wpc EXCEPT ![w] = "endpoint"]
        /\ faults' = faults
        /\ evStatus[e] \in {"pending", "failed"}
    BY <1>2 DEF Take, GoTo, Claimable
  <2>2. \A v \in Workers : ~ Owns(v, e)
    BY <2>1 DEF OneOwner
  <2>3. CurInv' /\ TriedInv' /\ AcceptedInv' /\ OneOwner'
    BY <1>1, <2>1, <2>2 DEF CurInv, TriedInv, AcceptedInv, OneOwner, Owns, TypeOK
  <2>4. PostInv' /\ DeliveredWasAccepted'
    BY <1>1, <2>1 DEF PostInv, DeliveredWasAccepted, Owns, TypeOK
  <2>5. StrandedByFaultOnly'
    <3> SUFFICES ASSUME faults' = 0, NEW x \in Rows, evStatus'[x] = "delivering"
                 PROVE  \E v \in Workers : Owns(v, x)'
      BY DEF StrandedByFaultOnly, Stranded
    <3>1. CASE x = e
      BY <2>1, <3>1 DEF Owns, TypeOK
    <3>2. CASE x # e
      <4>1. PICK v \in Workers : Owns(v, x)
        BY <2>1, <3>2 DEF StrandedByFaultOnly, Stranded, TypeOK
      <4>2. v # w
        BY <1>1, <4>1 DEF Owns
      <4> QED BY <2>1, <4>1, <4>2 DEF Owns, TypeOK
    <3> QED BY <3>1, <3>2
  <2>6. PublishInv'
    BY <1>1, <2>1, RowOf DEF PublishInv, TypeOK
  <2> QED BY <2>3, <2>4, <2>5, <2>6
<1>3. CASE Skip(w, e)
  <2>1. /\ UNCHANGED <<cur, tried>>
        /\ wpc' \in {[wpc EXCEPT ![w] = "idle"], [wpc EXCEPT ![w] = "claim"]}
        /\ \/ evStatus' = evStatus /\ (faults' = 0 => faults = 0)
           \/ /\ evStatus' = [evStatus EXCEPT ![e] = "delivering"]
              /\ evStatus[e] \in {"pending", "failed"}
              /\ faults' # 0
    <3>1. UNCHANGED <<cur, tried>>
      BY <1>3 DEF Skip
    <3>2. wpc' \in {[wpc EXCEPT ![w] = "idle"], [wpc EXCEPT ![w] = "claim"]}
      BY <1>3 DEF Skip, GoTo
    <3>3. \/ evStatus' = evStatus /\ (faults' = 0 => faults = 0)
          \/ /\ evStatus' = [evStatus EXCEPT ![e] = "delivering"]
             /\ evStatus[e] \in {"pending", "failed"}
             /\ faults' # 0
      BY <1>3 DEF Skip, Fault, Claimable, TypeOK
    <3> QED BY <3>1, <3>2, <3>3
  <2>a. \A v \in Workers : \A x \in Rows : Owns(v, x)' => Owns(v, x)
    BY <2>1 DEF Owns, TypeOK
  <2>b. \A x \in Rows : evStatus[x] = "delivering" => evStatus'[x] = "delivering"
    BY <2>1 DEF TypeOK
  <2>2. CurInv' /\ TriedInv' /\ AcceptedInv' /\ OneOwner'
    <3>0. /\ wpc'[w] \in {"idle", "claim"}
          /\ \A v \in Workers \ {w} : wpc'[v] = wpc[v]
      BY <2>1 DEF TypeOK
    <3>1. CurInv' /\ AcceptedInv'
      BY <1>1, <2>1, <3>0 DEF CurInv, AcceptedInv
    <3>2. TriedInv'
      BY <1>1, <2>1, <2>a DEF TriedInv
    <3>3. OneOwner'
      BY <2>a, <2>b DEF OneOwner
    <3> QED BY <3>1, <3>2, <3>3
  <2>3. PostInv' /\ DeliveredWasAccepted'
    BY <1>1, <2>1 DEF PostInv, DeliveredWasAccepted, Owns, TypeOK
  <2>4. StrandedByFaultOnly'
    BY <1>1, <2>1 DEF StrandedByFaultOnly, Stranded, Owns, TypeOK
  <2>5. PublishInv'
    BY <1>1, <2>1, RowOf DEF PublishInv, TypeOK
  <2> QED BY <2>2, <2>3, <2>4, <2>5
<1> QED BY <1>2, <1>3 DEF MarkDelivering, ClaimStep

\* A step of w that touches no event, after which w owes nothing: it owed
\* nothing before, or it was cut short by a fault.
LEMMA QuietKeeps ==
  ASSUME IInv, TypeOK', NEW w \in Workers,
         UNCHANGED <<evStatus, attempts, fanout, fanning, unpublished, posts, accepted>>,
         \A v \in Workers \ {w} :
            wpc'[v] = wpc[v] /\ cur'[v] = cur[v] /\ tried'[v] = tried[v],
         wpc'[w] \in {"idle", "claim", "pause"},
         wpc'[w] = "pause" => cur'[w] \in Rows,
         \/ /\ wpc[w] \in {"idle", "success", "bump", "pause"}
            /\ faults' = 0 => faults = 0
         \/ faults' # 0
  PROVE  IInv'
<1> USE DEF IInv
<1>1. \A v \in Workers : \A e \in Rows : Owns(v, e)' => v # w /\ Owns(v, e)
  BY DEF Owns
<1>2. faults' = 0 => faults = 0 /\ \A v \in Workers : \A e \in Rows : Owns(v, e) => Owns(v, e)'
  BY DEF Owns
<1>3. CurInv' /\ AcceptedInv'
  BY DEF CurInv, AcceptedInv
<1>4. TriedInv'
  BY <1>1 DEF TriedInv
<1>5. OneOwner'
  BY <1>1 DEF OneOwner
<1>6. PostInv'
  BY <1>1 DEF PostInv
<1>7. PublishInv' /\ DeliveredWasAccepted'
  BY DEF PublishInv, DeliveredWasAccepted
<1>8. StrandedByFaultOnly'
  BY <1>2 DEF StrandedByFaultOnly, Stranded
<1> QED BY <1>3, <1>4, <1>5, <1>6, <1>7, <1>8

\* Loading the endpoint and sending the POST: the worker goes on owing its row.
LEMMA SendKeeps ==
  ASSUME IInv, TypeOK', NEW w \in Workers, LoadEndpoint(w) \/ Post(w)
  PROVE  IInv'
<1> USE DEF IInv, events, publisher
<1> DEFINE e == cur[w]
<1>1. /\ UNCHANGED <<evStatus, attempts, fanout, fanning, unpublished, cur, tried>>
      /\ faults' = 0 => faults = 0
      /\ e \in Rows
      /\ Owns(w, e)
  BY DEF LoadEndpoint, Post, At, Fault, TypeOK, CurInv, Owns
<1>2. \/ /\ wpc' \in {[wpc EXCEPT ![w] = "post"], [wpc EXCEPT ![w] = "retry"]}
         /\ wpc[w] = "endpoint"
         /\ UNCHANGED <<posts, accepted>>
      \/ /\ wpc[w] = "post"
         /\ posts' = [posts EXCEPT ![e] = @ + 1]
         /\ \/ wpc' = [wpc EXCEPT ![w] = "delivered"] /\ accepted' = accepted \union {e}
            \/ wpc' = [wpc EXCEPT ![w] = "refused"] /\ accepted' = accepted
  BY DEF LoadEndpoint, Post, At, GoTo, history
<1>3. \A v \in Workers : \A x \in Rows : Owns(v, x)' <=> Owns(v, x)
  BY <1>1, <1>2 DEF Owns, TypeOK
<1>4. CurInv' /\ AcceptedInv'
  BY <1>1, <1>2 DEF CurInv, AcceptedInv, TypeOK
<1>5. TriedInv' /\ OneOwner'
  BY <1>1, <1>3 DEF TriedInv, OneOwner
<1>6. PublishInv' /\ DeliveredWasAccepted' /\ StrandedByFaultOnly'
  BY <1>1, <1>2, <1>3 DEF PublishInv, DeliveredWasAccepted, StrandedByFaultOnly, Stranded
<1>7. PostInv'
  <2>1. evStatus[e] = "delivering" /\ \A v \in Workers \ {w} : ~ Owns(v, e)
    BY <1>1 DEF OneOwner
  <2>2. CASE wpc[w] = "endpoint"
    BY <1>1, <1>2, <1>3, <2>2 DEF PostInv, TypeOK
  <2>3. CASE wpc[w] = "post"
    <3>1. /\ posts' = [posts EXCEPT ![e] = @ + 1]
          /\ wpc'[w] \notin {"endpoint", "post", "retry"}
          /\ \A v \in Workers \ {w} : wpc'[v] = wpc[v]
      BY <1>2, <2>3 DEF TypeOK
    <3>2. posts[e] <= attempts[e]
      BY <1>1, <2>3 DEF PostInv
    <3> HIDE DEF e
    <3> QED BY <1>1, <1>3, <2>1, <3>1, <3>2 DEF PostInv, TypeOK
  <2> QED BY <1>2, <2>2, <2>3
<1> QED BY <1>4, <1>5, <1>6, <1>7

\* The outcome statements: the row is written and its owner lets go of it.
LEMMA OutcomeKeeps ==
  ASSUME IInv, TypeOK', NEW w \in Workers, MarkDelivered(w) \/ ScheduleRetry(w)
  PROVE  IInv'
<1> USE DEF IInv, publisher, history
<1> DEFINE e == cur[w]
<1>1. /\ UNCHANGED <<fanout, fanning, unpublished, posts, accepted>>
      /\ wpc[w] \in {"delivered", "retry", "refused"}
      /\ e \in Rows
      /\ Owns(w, e)
  BY DEF MarkDelivered, ScheduleRetry, At, CurInv, Owns
<1>2. /\ \A v \in Workers \ {w} :
            wpc'[v] = wpc[v] /\ cur'[v] = cur[v] /\ tried'[v] = tried[v]
      /\ wpc'[w] \in {"idle", "claim", "success", "bump"}
      /\ wpc'[w] \in {"success", "bump"} => cur'[w] = e
  <2>1. CASE MarkDelivered(w)
    BY <2>1 DEF MarkDelivered, GoTo, TypeOK
  <2>2. CASE ScheduleRetry(w)
    <3>1. CASE wpc' = [wpc EXCEPT ![w] = "bump"] /\ UNCHANGED <<cur, tried>>
      BY <3>1 DEF TypeOK
    <3>2. CASE NextRow(w)
      BY <3>2 DEF NextRow, GoTo, Forget, TypeOK
    <3> QED BY <2>2, <3>1, <3>2 DEF ScheduleRetry, GoTo
  <2> QED BY <2>1, <2>2
<1>3. \/ UNCHANGED <<evStatus, attempts>> /\ faults' # 0
      \/ /\ evStatus' = [evStatus EXCEPT ![e] = "delivered"]
         /\ attempts' = attempts /\ faults' = faults /\ wpc[w] = "delivered"
      \/ /\ evStatus' = [evStatus EXCEPT ![e] = "dead"]
         /\ attempts' = attempts /\ faults' = faults
      \/ /\ evStatus' = [evStatus EXCEPT ![e] = "failed"]
         /\ attempts' = [attempts EXCEPT ![e] = @ + 1] /\ faults' = faults
  <2>1. CASE MarkDelivered(w)
    BY <2>1 DEF MarkDelivered, Write, At, Fault, TypeOK
  <2>2. CASE ScheduleRetry(w)
    BY <2>2 DEF ScheduleRetry, Write, Fault, TypeOK
  <2> QED BY <2>1, <2>2
<1> HIDE DEF e
<1>4. evStatus[e] = "delivering" /\ \A v \in Workers \ {w} : ~ Owns(v, e)
  BY <1>1 DEF OneOwner
<1>5. \A v \in Workers : \A x \in Rows :
        /\ Owns(v, x)' => v # w /\ x # e /\ Owns(v, x)
        /\ Owns(v, x) /\ v # w => Owns(v, x)'
  BY <1>2, <1>4 DEF Owns
<1>6. \A x \in Rows \ {e} : evStatus'[x] = evStatus[x] /\ attempts'[x] = attempts[x]
  BY <1>3 DEF TypeOK
<1>7. CurInv' /\ AcceptedInv'
  BY <1>1, <1>2 DEF CurInv, AcceptedInv
<1>8. TriedInv' /\ OneOwner'
  <2>1. TriedInv'
    <3> SUFFICES ASSUME NEW v \in Workers, NEW x \in Rows, Owns(v, x)'
                 PROVE  tried'[v] = attempts'[x]
      BY DEF TriedInv
    <3> QED BY <1>2, <1>5, <1>6 DEF TriedInv
  <2>2. OneOwner'
    BY <1>5, <1>6 DEF OneOwner
  <2> QED BY <2>1, <2>2
<1>9. PostInv'
  <2> SUFFICES ASSUME NEW x \in Rows
               PROVE  /\ posts'[x] <= attempts'[x] + 1
                      /\ evStatus'[x] \in {"absent", "pending", "failed"}
                           => posts'[x] <= attempts'[x]
                      /\ \A v \in Workers : Owns(v, x)' /\ wpc'[v] \in {"endpoint", "post", "retry"}
                                               => posts'[x] <= attempts'[x]
    BY DEF PostInv
  <2>1. CASE x = e
    BY <1>1, <1>3, <1>4, <1>5, <2>1 DEF PostInv, TypeOK
  <2>2. CASE x # e
    BY <1>1, <1>2, <1>5, <1>6, <2>2 DEF PostInv
  <2> QED BY <2>1, <2>2
<1>10. PublishInv'
  <2>1. \A d \in Domain, p \in Endpoints : evStatus[<<d, p>>] = "absent"
                                              => evStatus'[<<d, p>>] = "absent"
    BY <1>4, <1>6, RowOf
  <2> QED BY <1>1, <2>1 DEF PublishInv, TypeOK
<1>11. DeliveredWasAccepted'
  BY <1>1, <1>3, <1>6 DEF DeliveredWasAccepted, AcceptedInv, TypeOK, e
<1>12. StrandedByFaultOnly'
  <2> SUFFICES ASSUME faults' = 0, NEW x \in Rows, evStatus'[x] = "delivering"
               PROVE  \E v \in Workers : Owns(v, x)'
    BY DEF StrandedByFaultOnly, Stranded
  <2>1. x # e /\ evStatus[x] = "delivering" /\ faults = 0
    BY <1>1, <1>3, <1>6 DEF TypeOK
  <2>2. PICK v \in Workers : Owns(v, x)
    BY <2>1 DEF StrandedByFaultOnly, Stranded
  <2>3. v # w
    BY <2>1, <2>2 DEF Owns, e
  <2> QED BY <1>5, <2>2, <2>3
<1> QED BY <1>7, <1>8, <1>9, <1>10, <1>11, <1>12

\* Every step of a worker, its death included.
LEMMA WorkerKeeps ==
  ASSUME IInv, TypeOK', NEW w \in Workers, Tick(w) \/ Crash(w)
  PROVE  IInv'
<1> USE DEF At, GoTo, Forget, NextRow, events, publisher, history
<1>1. CASE ListDueWebhookEvents(w)
  BY <1>1, QuietKeeps DEF ListDueWebhookEvents, IInv, TypeOK
<1>2. CASE \E e \in Rows : MarkDelivering(w, e)
  BY <1>2, ClaimKeeps
<1>3. CASE LoadEndpoint(w) \/ Post(w)
  BY <1>3, SendKeeps
<1>4. CASE MarkDelivered(w) \/ ScheduleRetry(w)
  BY <1>4, OutcomeKeeps
<1>5. CASE TouchSuccess(w)
  BY <1>5, QuietKeeps DEF TouchSuccess, Fault, IInv, TypeOK
<1>6. CASE BumpFailure(w)
  <2>1. /\ wpc'[w] \in {"idle", "claim", "pause"}
        /\ wpc'[w] = "pause" => cur'[w] \in Rows
        /\ \A v \in Workers \ {w} :
              wpc'[v] = wpc[v] /\ cur'[v] = cur[v] /\ tried'[v] = tried[v]
    BY <1>6 DEF BumpFailure, IInv, TypeOK, CurInv
  <2>2. wpc[w] = "bump" /\ (faults' = 0 => faults = 0)
    BY <1>6 DEF BumpFailure, Fault, IInv, TypeOK
  <2> QED BY <1>6, <2>1, <2>2, QuietKeeps DEF BumpFailure
<1>7. CASE PauseEndpoint(w)
  BY <1>7, QuietKeeps DEF PauseEndpoint, Fault, IInv, TypeOK
<1>8. CASE Crash(w)
  BY <1>8, QuietKeeps DEF Crash, Fault, IInv, TypeOK
<1> QED BY <1>1, <1>2, <1>3, <1>4, <1>5, <1>6, <1>7, <1>8 DEF Tick

\* The backoff, the endpoint handlers and stuttering touch nothing the
\* invariant speaks of.
LEMMA OtherKeeps ==
  ASSUME IInv, TypeOK',
         \/ \E e \in Rows : BackoffElapses(e)
         \/ \E p \in Endpoints : CreateEndpoint(p)
         \/ \E a \in Admins : AdminStep(a)
         \/ Done
         \/ UNCHANGED vars
  PROVE  IInv'
<1>1. UNCHANGED <<evStatus, attempts, fanout, fanning, unpublished, posts, accepted,
                  wpc, cur, tried, faults>>
  BY DEF BackoffElapses, CreateEndpoint, AdminStep, AdminRead, AdminWrite, Done, vars,
         events, publisher, workers, history
<1>2. CurInv' /\ TriedInv' /\ PublishInv' /\ PostInv' /\ AcceptedInv'
  BY <1>1 DEF IInv, CurInv, TriedInv, PublishInv, PostInv, AcceptedInv, Owns
<1>3. OneOwner' /\ DeliveredWasAccepted' /\ StrandedByFaultOnly'
  BY <1>1 DEF IInv, OneOwner, DeliveredWasAccepted, StrandedByFaultOnly, Stranded, Owns
<1> QED BY <1>2, <1>3 DEF IInv
-----------------------------------------------------------------------------
\* The delivery invariant: in every reachable state each row has at most one
\* owner, who knows its attempts, and its POSTs are accounted for.
THEOREM Delivery == Spec => []IInv
<1>1. IInv /\ [Next]_vars => IInv'
  <2> SUFFICES ASSUME IInv, [Next]_vars PROVE IInv'
    OBVIOUS
  <2>1. CASE PublishStep
    BY <2>1, PublishTypeOK, PublishKeeps DEF IInv
  <2>2. ASSUME NEW w \in Workers, Tick(w) \/ Crash(w) PROVE IInv'
    BY <2>2, WorkerTypeOK, WorkerKeeps DEF IInv
  <2>3. CASE \/ \E e \in Rows : BackoffElapses(e)
             \/ \E p \in Endpoints : CreateEndpoint(p)
             \/ \E a \in Admins : AdminStep(a)
             \/ Done
             \/ UNCHANGED vars
    BY <2>3, OtherTypeOK, OtherKeeps DEF IInv
  <2> QED BY <2>1, <2>2, <2>3 DEF Next
<1> QED BY <1>1, InitIInv, PTL DEF Spec

\* Every variable keeps its type; in particular no row counts MaxAttempts.
THEOREM TypeCorrect == Spec => []TypeOK
<1>1. IInv => TypeOK
  BY DEF IInv
<1> QED BY <1>1, Delivery, PTL

\* Any number of workers can run: no row is ever delivered by two of them.
THEOREM SingleOwner == Spec => []OneOwner
<1>1. IInv => OneOwner
  BY DEF IInv
<1> QED BY <1>1, Delivery, PTL

\* A receiver is sent a row at most maxAttempts times, whatever fails.
THEOREM BoundedPosts == Spec => []PostsBounded
<1>1. IInv => PostsBounded
  BY AttemptsAssumption DEF IInv, TypeOK, PostInv, PostsBounded
<1> QED BY <1>1, Delivery, PTL

\* What MarkDelivered records was acknowledged by the receiver.
THEOREM Acknowledged == Spec => []DeliveredWasAccepted
<1>1. IInv => DeliveredWasAccepted
  BY DEF IInv
<1> QED BY <1>1, Delivery, PTL

\* Without a crash or a failed statement every row under delivery has a worker.
THEOREM NoneStranded == Spec => []StrandedByFaultOnly
<1>1. IInv => StrandedByFaultOnly
  BY DEF IInv
<1> QED BY <1>1, Delivery, PTL

\* No unguarded outcome statement ever moves a delivered or dead row.
THEOREM Settled == Spec => SettledIsFinal
<1>1. IInv /\ [Next]_vars =>
        [\A e \in Rows : evStatus[e] \in {"delivered", "dead"} =>
            evStatus'[e] = evStatus[e] /\ attempts'[e] = attempts[e]]_vars
  <2> SUFFICES ASSUME IInv, Next, NEW e \in Rows, evStatus[e] \in {"delivered", "dead"}
               PROVE  evStatus'[e] = evStatus[e] /\ attempts'[e] = attempts[e]
    OBVIOUS
  <2> USE DEF events
  <2>1. CASE PublishStep
    <3>1. ASSUME NEW f \in fanout, InsertEvent(f)
          PROVE  evStatus'[e] = evStatus[e] /\ attempts'[e] = attempts[e]
      <4>1. <<fanning, f[1]>> # e
        BY DEF IInv, PublishInv
      <4> QED BY <3>1, <4>1 DEF InsertEvent, IInv, TypeOK
    <3> QED BY <2>1, <3>1 DEF PublishStep, Publish, PublishReturns
  <2>2. ASSUME NEW w \in Workers, Tick(w) \/ Crash(w)
        PROVE  evStatus'[e] = evStatus[e] /\ attempts'[e] = attempts[e]
    <3>1. ASSUME NEW x \in Rows, MarkDelivering(w, x)
          PROVE  evStatus'[e] = evStatus[e] /\ attempts'[e] = attempts[e]
      BY <3>1 DEF MarkDelivering, ClaimStep, Take, Skip, Claimable, IInv, TypeOK
    <3>2. CASE MarkDelivered(w) \/ ScheduleRetry(w)
      <4>1. cur[w] # e
        BY <3>2 DEF MarkDelivered, ScheduleRetry, At, IInv, OneOwner, Owns
      <4> QED BY <3>2, <4>1 DEF MarkDelivered, ScheduleRetry, Write, IInv, TypeOK
    <3> QED BY <2>2, <3>1, <3>2 DEF Tick, ListDueWebhookEvents, LoadEndpoint, Post,
             TouchSuccess, BumpFailure, PauseEndpoint, Crash
  <2>3. CASE \/ \E x \in Rows : BackoffElapses(x)
             \/ \E p \in Endpoints : CreateEndpoint(p)
             \/ \E a \in Admins : AdminStep(a)
             \/ Done
    BY <2>3 DEF BackoffElapses, CreateEndpoint, AdminStep, AdminRead, AdminWrite, Done, vars
  <2> QED BY <2>1, <2>2, <2>3 DEF Next
<1> QED BY <1>1, Delivery, PTL DEF Spec, SettledIsFinal
\* A deleted endpoint nobody has read before its deletion stays as it is: only a
\* late Update could change its status, only a late worker POST to it.
THEOREM DeletedSilent == Spec => DeletedStaysSilent
<1>1. IInv /\ [Next]_vars => [\A p \in Endpoints : Quiet(p) => Quiet(p)']_vars
  <2> SUFFICES ASSUME IInv, Next, NEW p \in Endpoints, Quiet(p)
               PROVE  Quiet(p)'
    OBVIOUS
  <2>1. epStatus[p] = "deleted"
    BY DEF Quiet
  <2>2. epStatus'[p] = "deleted"
    <3>1. ASSUME NEW w \in Workers, PauseEndpoint(w) PROVE epStatus'[p] = "deleted"
      BY <2>1, <3>1 DEF PauseEndpoint, IInv, TypeOK
    <3>2. ASSUME NEW a \in Admins, AdminWrite(a) PROVE epStatus'[p] = "deleted"
      <4>1. adm[a].op \in {"active", "paused", "rotate", "deleted"}
        BY <3>2 DEF AdminWrite, IInv, TypeOK
      <4>2. adm[a].op \in {"active", "paused"} => adm[a].endpoint # p
        BY DEF Quiet
      <4> QED BY <2>1, <3>2, <4>1, <4>2 DEF AdminWrite, IInv, TypeOK
    <3>3. ASSUME NEW q \in Endpoints, CreateEndpoint(q) PROVE epStatus'[p] = "deleted"
      BY <2>1, <3>3 DEF CreateEndpoint, IInv, TypeOK
    <3>4. ASSUME NEW w \in Workers, Tick(w) \/ Crash(w) PROVE epStatus'[p] = "deleted"
      BY <2>1, <3>1, <3>4 DEF Tick, ListDueWebhookEvents, MarkDelivering, ClaimStep,
         LoadEndpoint, Post, MarkDelivered, TouchSuccess, ScheduleRetry, BumpFailure,
         Crash, endpoints
    <3> QED BY <2>1, <3>2, <3>3, <3>4 DEF Next, PublishStep, Publish, InsertEvent,
            PublishReturns, BackoffElapses, AdminStep, AdminRead, Done, vars, endpoints
  <2>3. ASSUME NEW a \in Admins, adm'[a].op \in {"active", "paused"}
        PROVE  adm'[a].endpoint # p
    <3>1. ASSUME NEW b \in Admins, AdminStep(b) PROVE adm'[a].endpoint # p
      <4>1. ASSUME NEW q \in Endpoints, NEW op \in {"active", "paused", "rotate", "deleted"},
                   AdminRead(b, op, q)
            PROVE  adm'[a].endpoint # p
        BY <2>1, <2>3, <4>1 DEF AdminRead, Quiet, IInv, TypeOK
      <4>2. CASE AdminWrite(b)
        BY <2>3, <4>2 DEF AdminWrite, Quiet, IInv, TypeOK
      <4> QED BY <3>1, <4>1, <4>2 DEF AdminStep
    <3>2. CASE UNCHANGED adm
      BY <2>3, <3>2 DEF Quiet
    <3> QED BY <3>1, <3>2 DEF Next, PublishStep, Publish, InsertEvent, PublishReturns,
            Tick, ListDueWebhookEvents, MarkDelivering, ClaimStep, LoadEndpoint, Post,
            MarkDelivered, TouchSuccess, ScheduleRetry, BumpFailure, PauseEndpoint, Crash,
            BackoffElapses, CreateEndpoint, Done, vars
  <2>4. ASSUME NEW v \in Workers, wpc'[v] = "post"
        PROVE  EndpointOf(cur'[v]) # p
    <3>1. CASE UNCHANGED <<wpc, cur>>
      BY <2>4, <3>1 DEF Quiet, At
    <3>2. ASSUME NEW w \in Workers, Tick(w) \/ Crash(w) PROVE EndpointOf(cur'[v]) # p
      <4>1. CASE LoadEndpoint(w)
        BY <2>1, <2>4, <4>1 DEF LoadEndpoint, GoTo, At, Quiet, IInv, TypeOK
      <4>2. CASE ~ LoadEndpoint(w)
        <5>1. wpc'[w] # "post"
          BY <3>2, <4>2 DEF Tick, ListDueWebhookEvents, MarkDelivering, ClaimStep, Take,
             Skip, Post, MarkDelivered, TouchSuccess, ScheduleRetry, BumpFailure,
             PauseEndpoint, Crash, NextRow, GoTo, IInv, TypeOK
        <5>2. ASSUME v # w PROVE wpc'[v] = wpc[v] /\ cur'[v] = cur[v]
          <6>1. ASSUME NEW e \in Rows, MarkDelivering(w, e)
                PROVE  wpc'[v] = wpc[v] /\ cur'[v] = cur[v]
            BY <5>2, <6>1 DEF MarkDelivering, ClaimStep, Take, Skip, GoTo, IInv, TypeOK
          <6>2. CASE ListDueWebhookEvents(w) \/ Post(w) \/ MarkDelivered(w)
            BY <5>2, <6>2 DEF ListDueWebhookEvents, Post, MarkDelivered, GoTo, IInv, TypeOK
          <6>3. CASE TouchSuccess(w) \/ PauseEndpoint(w) \/ Crash(w)
            BY <5>2, <6>3 DEF TouchSuccess, PauseEndpoint, Crash, NextRow, Forget, GoTo,
               IInv, TypeOK
          <6>4. CASE ScheduleRetry(w) \/ BumpFailure(w)
            BY <5>2, <6>4 DEF ScheduleRetry, BumpFailure, NextRow, Forget, GoTo, IInv, TypeOK
          <6> QED BY <3>2, <4>2, <6>1, <6>2, <6>3, <6>4 DEF Tick
        <5> QED BY <2>4, <5>1, <5>2 DEF Quiet, At
      <4> QED BY <4>1, <4>2
    <3> QED BY <3>1, <3>2 DEF Next, PublishStep, Publish, InsertEvent, PublishReturns,
            BackoffElapses, CreateEndpoint, AdminStep, AdminRead, AdminWrite, Done, vars,
            workers
  <2> QED BY <2>2, <2>3, <2>4 DEF Quiet, At
<1> QED BY <1>1, Delivery, PTL DEF Spec, DeletedStaysSilent
=============================================================================
