--------------------------- MODULE WebhookDelivery ---------------------------
(***************************************************************************)
(* Outbound webhooks: Publisher.Publish fans a domain event out into one   *)
(* webhook_events row per subscribed endpoint, delivery workers claim due  *)
(* rows, POST them and record the outcome, and the endpoint handlers       *)
(* pause, resume, rotate and delete endpoints meanwhile.                   *)
(*                                                                         *)
(* A row is identified by its domain event and its endpoint.  Every SQL    *)
(* statement and every POST is a step.  Wall-clock time is abstracted to   *)
(* one bit per row: a retried row is not due until its backoff elapses.    *)
(* The page a worker lists is below its LIMIT.                             *)
(***************************************************************************)
EXTENDS Integers, FiniteSets

CONSTANTS
    Domain,      \* domain events (a payment, a revocation, a violation...)
    Endpoints,   \* webhook_endpoints rows
    Workers,     \* delivery workers
    Admins,      \* requests to the endpoint handlers
    MaxAttempts, \* maxAttempts of NewWorker
    PauseAfter,  \* pauseAfterConsecutive of NewWorker
    MaxFaults,   \* bound: statements that fail and workers that die
    NoRow,       \* a worker holds no row
    NoEvent      \* no Publish is under way

Rows == Domain \X Endpoints

ASSUME SentinelAssumption == NoRow \notin Rows /\ NoEvent \notin Domain
ASSUME AttemptsAssumption == MaxAttempts \in Nat \ {0} /\ PauseAfter \in Nat \ {0}
ASSUME FaultAssumption    == MaxFaults \in Nat

VARIABLES
    epStatus, version, failures,     \* webhook_endpoints rows
    evStatus, attempts, evVersion,   \* webhook_events rows
    due,           \* rows whose next_attempt_at has arrived
    unpublished,   \* domain events no handler has published yet
    fanning,       \* the domain event a Publish is writing rows for, or NoEvent
    fanout,        \* its <<endpoint, secret_version>> pairs still to insert
    wpc, queue, cur, tried, secret,  \* worker w: position, listed rows, claimed
                                     \* row, its attempts and the secret read
    adm,           \* adm[a]: where an endpoint request is
    faults,
    posts,         \* history: posts[e], POSTs sent for row e
    accepted       \* history: rows some receiver has answered with a 2xx

endpoints == <<epStatus, version, failures>>
events    == <<evStatus, attempts, evVersion, due>>
publisher == <<unpublished, fanning, fanout>>
workers   == <<wpc, queue, cur, tried, secret>>
history   == <<posts, accepted>>
vars      == <<endpoints, events, publisher, workers, adm, faults, history>>

Fault == /\ faults < MaxFaults
         /\ faults' = faults + 1

EndpointOf(e) == e[2]

\* Variant: a row is only ever taken up once.
PendingOnly == {"pending"}

\* The rows ListDue lists and MarkDelivering takes.
Claimable == {"pending", "failed"}
-----------------------------------------------------------------------------
Init ==
    /\ epStatus = [p \in Endpoints |-> "absent"]
    /\ version = [p \in Endpoints |-> 1]
    /\ failures = [p \in Endpoints |-> 0]
    /\ evStatus = [e \in Rows |-> "absent"]
    /\ attempts = [e \in Rows |-> 0]
    /\ evVersion = [e \in Rows |-> 0]
    /\ due = {}
    /\ unpublished = Domain
    /\ fanning = NoEvent
    /\ fanout = {}
    /\ wpc = [w \in Workers |-> "idle"]
    /\ queue = [w \in Workers |-> {}]
    /\ cur = [w \in Workers |-> NoRow]
    /\ tried = [w \in Workers |-> 0]
    /\ secret = [w \in Workers |-> 0]
    /\ adm = [a \in Admins |-> [op |-> "idle"]]
    /\ faults = 0
    /\ posts = [e \in Rows |-> 0]
    /\ accepted = {}

(***************************************************************************)
(* Publisher.Publish                                                       *)
(***************************************************************************)

\* ListActiveEndpointsForTenant and the subscription filter.
Publish(d) ==
    /\ fanning = NoEvent
    /\ d \in unpublished
    /\ unpublished' = unpublished \ {d}
    /\ \E subscribed \in SUBSET {p \in Endpoints : epStatus[p] = "active"} :
         fanout' = {<<p, version[p]>> : p \in subscribed}
    /\ fanning' = d
    /\ UNCHANGED <<endpoints, events, workers, adm, faults, history>>

\* CreateWebhookEvent for one endpoint; an insert that fails is skipped.
InsertEvent(f) ==
    LET e == <<fanning, f[1]>>
    IN  /\ f \in fanout
        /\ fanout' = fanout \ {f}
        /\ \/ /\ evStatus' = [evStatus EXCEPT ![e] = "pending"]
              /\ evVersion' = [evVersion EXCEPT ![e] = f[2]]
              /\ due' = due \union {e}
              /\ UNCHANGED faults
           \/ /\ Fault
              /\ UNCHANGED <<evStatus, evVersion, due>>
        /\ UNCHANGED <<endpoints, attempts, unpublished, fanning, workers, adm, history>>

PublishReturns ==
    /\ fanning # NoEvent
    /\ fanout = {}
    /\ fanning' = NoEvent
    /\ UNCHANGED <<endpoints, events, unpublished, fanout, workers, adm, faults, history>>

(***************************************************************************)
(* Worker.Tick                                                             *)
(***************************************************************************)
At(w, here)  == wpc[w] = here
GoTo(w, to)  == wpc' = [wpc EXCEPT ![w] = to]

\* The worker is done with its row and goes on with the page.
Forget(w)  == /\ cur' = [cur EXCEPT ![w] = NoRow]
              /\ tried' = [tried EXCEPT ![w] = 0]
              /\ secret' = [secret EXCEPT ![w] = 0]
NextRow(w) == /\ GoTo(w, IF queue[w] = {} THEN "idle" ELSE "claim")
              /\ Forget(w)

ListDueWebhookEvents(w) ==
    /\ At(w, "idle")
    /\ LET page == {e \in due : evStatus[e] \in Claimable}
       IN  /\ page # {}
           /\ queue' = [queue EXCEPT ![w] = page]
    /\ GoTo(w, "claim")
    /\ UNCHANGED <<endpoints, events, publisher, cur, tried, secret, adm, faults, history>>

Take(w, e) ==
    /\ evStatus' = [evStatus EXCEPT ![e] = "delivering"]
    /\ cur' = [cur EXCEPT ![w] = e]
    /\ tried' = [tried EXCEPT ![w] = attempts[e]]
    /\ GoTo(w, "endpoint")
    /\ UNCHANGED faults

\* The row moved on, or the statement failed (it may have been applied): skip.
Skip(w, e) ==
    /\ \/ /\ evStatus[e] \notin Claimable
          /\ UNCHANGED <<evStatus, faults>>
       \/ /\ evStatus[e] \in Claimable
          /\ Fault
          /\ evStatus' \in {evStatus, [evStatus EXCEPT ![e] = "delivering"]}
    /\ GoTo(w, IF queue[w] = {e} THEN "idle" ELSE "claim")
    /\ UNCHANGED <<cur, tried>>

ClaimStep(w, e, take) ==
    /\ At(w, "claim")
    /\ e \in queue[w]
    /\ queue' = [queue EXCEPT ![w] = @ \ {e}]
    /\ take \/ Skip(w, e)
    /\ UNCHANGED <<endpoints, attempts, evVersion, due, publisher, secret, adm, history>>

\* Variant: the claim does not look at the status of the row.
ClaimBlindly(w, e) == ClaimStep(w, e, Take(w, e))

\* MarkWebhookEventDelivering: WHERE id AND status IN ('pending','failed').
MarkDelivering(w, e) == ClaimStep(w, e, evStatus[e] \in Claimable /\ Take(w, e))

(***************************************************************************)
(* Worker.deliverOne                                                       *)
(***************************************************************************)

\* GetWebhookEndpointByID: only an active endpoint is posted to.  (No code
\* removes an endpoint row, so endpoint_id is never NULL.)
LoadEndpoint(w) ==
    /\ At(w, "endpoint")
    /\ \/ /\ epStatus[EndpointOf(cur[w])] = "active"
          /\ secret' = [secret EXCEPT ![w] = version[EndpointOf(cur[w])]]
          /\ GoTo(w, "post")
          /\ UNCHANGED faults
       \/ /\ \/ epStatus[EndpointOf(cur[w])] # "active" /\ UNCHANGED faults
             \/ Fault
          /\ GoTo(w, "retry")
          /\ UNCHANGED secret
    /\ UNCHANGED <<endpoints, events, publisher, queue, cur, tried, adm, history>>

\* The POST: a 2xx, or anything else, an answer that never came included.
Post(w) ==
    /\ At(w, "post")
    /\ posts' = [posts EXCEPT ![cur[w]] = @ + 1]
    /\ \/ /\ accepted' = accepted \union {cur[w]}
          /\ GoTo(w, "delivered")
       \/ /\ GoTo(w, "refused")
          /\ UNCHANGED accepted
    /\ UNCHANGED <<endpoints, events, publisher, queue, cur, tried, secret, adm, faults>>

\* Variant: giving up writes nothing.
WriteNotDead(w, newStatus, more) ==
    /\ evStatus' = IF newStatus = "dead" THEN evStatus
                    ELSE [evStatus EXCEPT ![cur[w]] = newStatus]
    /\ more
    /\ UNCHANGED faults

\* A statement on the row of w whose error is ignored.
Write(w, newStatus, more) ==
    \/ /\ evStatus' = [evStatus EXCEPT ![cur[w]] = newStatus]
       /\ more
       /\ UNCHANGED faults
    \/ /\ Fault
       /\ UNCHANGED <<evStatus, attempts, due>>

MarkDelivered(w) ==
    /\ At(w, "delivered")
    /\ Write(w, "delivered", UNCHANGED <<attempts, due>>)
    /\ GoTo(w, "success")
    /\ UNCHANGED <<endpoints, evVersion, publisher, queue, cur, tried, secret, adm, history>>

\* TouchWebhookEndpointSuccess.
TouchSuccess(w) ==
    /\ At(w, "success")
    /\ \/ /\ failures' = [failures EXCEPT ![EndpointOf(cur[w])] = 0]
          /\ UNCHANGED faults
       \/ /\ Fault
          /\ UNCHANGED failures
    /\ NextRow(w)
    /\ UNCHANGED <<epStatus, version, events, publisher, queue, adm, history>>

\* Variant: the bound is compared with the attempts before this one.
OutOfAttemptsLate(w) == tried[w] >= MaxAttempts

OutOfAttempts(w) == tried[w] + 1 >= MaxAttempts

\* scheduleRetry, after an inactive endpoint ("retry") or a failed POST.
ScheduleRetry(w) ==
    /\ wpc[w] \in {"retry", "refused"}
    /\ \/ /\ OutOfAttempts(w)
          /\ Write(w, "dead", UNCHANGED <<attempts, due>>)
       \/ /\ ~ OutOfAttempts(w)
          /\ Write(w, "failed", /\ attempts' = [attempts EXCEPT ![cur[w]] = @ + 1]
                                /\ due' = due \ {cur[w]})
    /\ \/ /\ At(w, "refused")
          /\ GoTo(w, "bump")
          /\ UNCHANGED <<cur, tried, secret>>
       \/ /\ At(w, "retry")
          /\ NextRow(w)
    /\ UNCHANGED <<endpoints, evVersion, publisher, queue, adm, history>>

\* bumpFailure: TouchWebhookEndpointFailure, and the threshold.
BumpFailure(w) ==
    /\ At(w, "bump")
    /\ LET p == EndpointOf(cur[w])
       IN  \/ /\ failures' = [failures EXCEPT ![p] = @ + 1]
              /\ \/ /\ failures[p] + 1 >= PauseAfter
                    /\ GoTo(w, "pause")
                    /\ UNCHANGED <<cur, tried, secret>>
                 \/ /\ failures[p] + 1 < PauseAfter
                    /\ NextRow(w)
              /\ UNCHANGED faults
           \/ /\ Fault
              /\ NextRow(w)
              /\ UNCHANGED failures
    /\ UNCHANGED <<epStatus, version, events, publisher, queue, adm, history>>

\* Variant: the automatic pause does not look at the status of the endpoint.
PauseAnyEndpoint(w) ==
    /\ At(w, "pause")
    /\ epStatus' = [epStatus EXCEPT ![EndpointOf(cur[w])] = "paused"]
    /\ NextRow(w)
    /\ UNCHANGED <<version, failures, events, publisher, queue, adm, faults, history>>

\* PauseWebhookEndpoint: WHERE id AND status = 'active'.
PauseEndpoint(w) ==
    /\ At(w, "pause")
    /\ LET p == EndpointOf(cur[w])
       IN  \/ /\ epStatus' = [epStatus EXCEPT ![p] = IF @ = "active" THEN "paused" ELSE @]
              /\ UNCHANGED faults
           \/ /\ Fault
              /\ UNCHANGED epStatus
    /\ NextRow(w)
    /\ UNCHANGED <<version, failures, events, publisher, queue, adm, history>>

\* The process dies: page and row are forgotten, the row keeps its status.
Crash(w) ==
    /\ ~ At(w, "idle")
    /\ Fault
    /\ GoTo(w, "idle")
    /\ queue' = [queue EXCEPT ![w] = {}]
    /\ Forget(w)
    /\ UNCHANGED <<endpoints, events, publisher, adm, history>>

\* The backoff of a failed row has elapsed.
BackoffElapses(e) ==
    /\ evStatus[e] = "failed"
    /\ e \notin due
    /\ due' = due \union {e}
    /\ UNCHANGED <<endpoints, evStatus, attempts, evVersion, publisher, workers, adm,
                   faults, history>>

(***************************************************************************)
(* Endpoint handlers: Create, Update, RotateSecret, Delete                 *)
(***************************************************************************)
CreateEndpoint(p) ==
    /\ epStatus[p] = "absent"
    /\ epStatus' = [epStatus EXCEPT ![p] = "active"]
    /\ UNCHANGED <<version, failures, events, publisher, workers, adm, faults, history>>

\* The row is read; a deleted endpoint is not found.
AdminRead(a, op, p) ==
    /\ adm[a].op = "idle"
    /\ epStatus[p] # "absent"
    /\ adm' = [adm EXCEPT ![a] = IF epStatus[p] = "deleted" THEN [op |-> "done"]
                                 ELSE [op |-> op, endpoint |-> p]]
    /\ UNCHANGED <<endpoints, events, publisher, workers, faults, history>>

\* The UPDATE: by id alone, whatever has happened to the row since it was read.
AdminWrite(a) ==
    /\ adm[a].op \notin {"idle", "done"}
    /\ LET p == adm[a].endpoint
       IN  CASE adm[a].op = "rotate" ->
                  /\ version' = [version EXCEPT ![p] = @ + 1]
                  /\ UNCHANGED epStatus
             [] OTHER ->
                  /\ epStatus' = [epStatus EXCEPT ![p] = adm[a].op]
                  /\ UNCHANGED version
    /\ adm' = [adm EXCEPT ![a] = [op |-> "done"]]
    /\ UNCHANGED <<failures, events, publisher, workers, faults, history>>
-----------------------------------------------------------------------------
Tick(w) ==
    \/ ListDueWebhookEvents(w)
    \/ \E e \in Rows : MarkDelivering(w, e)
    \/ LoadEndpoint(w)
    \/ Post(w)
    \/ MarkDelivered(w)
    \/ TouchSuccess(w)
    \/ ScheduleRetry(w)
    \/ BumpFailure(w)
    \/ PauseEndpoint(w)

PublishStep ==
    \/ \E d \in Domain : Publish(d)
    \/ \E f \in fanout : InsertEvent(f)
    \/ PublishReturns

AdminStep(a) ==
    \/ \E p \in Endpoints, op \in {"active", "paused", "rotate", "deleted"} :
         AdminRead(a, op, p)
    \/ AdminWrite(a)

\* Nothing is left to publish, to deliver or to administer.
Done ==
    /\ unpublished = {}
    /\ fanning = NoEvent
    /\ \A w \in Workers : At(w, "idle")
    /\ \A e \in Rows : evStatus[e] \notin Claimable
    /\ UNCHANGED vars

Next ==
    \/ PublishStep
    \/ \E w \in Workers : Tick(w) \/ Crash(w)
    \/ \E e \in Rows : BackoffElapses(e)
    \/ \E p \in Endpoints : CreateEndpoint(p)
    \/ \E a \in Admins : AdminStep(a)
    \/ Done

Spec == Init /\ [][Next]_vars

\* Every worker runs on a ticker for the life of the process, and time passes.
FairSpec == /\ Spec
            /\ \A w \in Workers : WF_vars(Tick(w))
            /\ \A e \in Rows : WF_vars(BackoffElapses(e))
-----------------------------------------------------------------------------
(***************************************************************************)
(* Properties                                                              *)
(***************************************************************************)

\* Type invariant of the queue, the endpoints and the workers.
TypeOK ==
    /\ epStatus \in [Endpoints -> {"absent", "active", "paused", "deleted"}]
    /\ version \in [Endpoints -> Nat]
    /\ failures \in [Endpoints -> Nat]
    /\ evStatus \in [Rows -> {"absent", "pending", "delivering", "delivered",
                              "failed", "dead"}]
    /\ attempts \in [Rows -> 0..(MaxAttempts - 1)]
    /\ evVersion \in [Rows -> Nat]
    /\ due \subseteq Rows
    /\ unpublished \subseteq Domain
    /\ fanning \in Domain \union {NoEvent}
    /\ fanout \subseteq Endpoints \X Nat
    /\ wpc \in [Workers -> {"idle", "claim", "endpoint", "post", "delivered",
                            "success", "retry", "refused", "bump", "pause"}]
    /\ queue \in [Workers -> SUBSET Rows]
    /\ cur \in [Workers -> Rows \union {NoRow}]
    /\ tried \in [Workers -> 0..(MaxAttempts - 1)]
    /\ secret \in [Workers -> Nat]
    /\ adm \in [Admins -> [op : {"idle", "done"}] \union
                         [op : {"active", "paused", "rotate", "deleted"},
                          endpoint : Endpoints]]
    /\ faults \in Nat
    /\ posts \in [Rows -> Nat]
    /\ accepted \subseteq Rows

\* A worker that still owes its row an outcome.
Owns(w, e) == cur[w] = e /\ wpc[w] \in {"endpoint", "post", "delivered", "retry", "refused"}

\* "multiple workers can run safely": no two workers ever deliver one row at the
\* same time, and a row under delivery is in the state that keeps others away.
OneOwner ==
    \A e \in Rows : \A w \in Workers :
        Owns(w, e) => /\ evStatus[e] = "delivering"
                      /\ \A v \in Workers \ {w} : ~ Owns(v, e)

\* A settled row stays settled: the outcome statements carry no status guard, and
\* still no late worker moves a delivered or dead row, or bumps its attempts.
SettledIsFinal ==
    [][\A e \in Rows : evStatus[e] \in {"delivered", "dead"} =>
          evStatus'[e] = evStatus[e] /\ attempts'[e] = attempts[e]]_vars

\* A receiver sees a row at most MaxAttempts times ("8 attempts total"), through
\* every crash, lost claim and failed outcome statement.
PostsBounded == \A e \in Rows : posts[e] <= MaxAttempts

\* A row is recorded as delivered only if a receiver answered 2xx.
DeliveredWasAccepted == \A e \in Rows : evStatus[e] = "delivered" => e \in accepted

\* Claimed by a worker that is gone: nothing will ever move the row again.
Stranded(e) == evStatus[e] = "delivering" /\ \A w \in Workers : ~ Owns(w, e)

\* Without a crash or a failed statement no row is stranded.
StrandedByFaultOnly == faults = 0 => \A e \in Rows : ~ Stranded(e)

\* Neither delivered nor given up.
Unsettled(e) == evStatus[e] \in {"pending", "delivering", "failed"}

\* As long as its endpoint stays active, every row is delivered or given up in the
\* end, except one that is stranded.  Of a row whose endpoint is paused nothing is
\* claimed: deliverOne means to keep it for a later resume ("don't burn a retry
\* slot here"), and reschedules it with a claimed attempt that is spent.
EventuallySettled ==
    \A e \in Rows :
        Unsettled(e) /\ epStatus[EndpointOf(e)] = "active"
            ~> ~ Unsettled(e) \/ Stranded(e) \/ epStatus[EndpointOf(e)] # "active"

\* Deleted, with nobody left who read the endpoint before it was: no update that
\* would resume or pause it, no worker about to POST to it.
Quiet(p) ==
    /\ epStatus[p] = "deleted"
    /\ \A a \in Admins : adm[a].op \in {"active", "paused"} => adm[a].endpoint # p
    /\ \A w \in Workers : At(w, "post") => EndpointOf(cur[w]) # p

\* Update writes by id alone and can resurrect an endpoint deleted since it was
\* read, but nothing else can: once such requests are through, a deleted endpoint
\* stays deleted and is never POSTed to again, whatever rows are still queued for
\* it and however often its failures are counted.
DeletedStaysSilent == [][\A p \in Endpoints : Quiet(p) => Quiet(p)']_vars
=============================================================================
