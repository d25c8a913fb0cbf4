------------------------------- MODULE Outbox -------------------------------
(***************************************************************************)
(* The outbox dispatcher: what the API appended to outbox_event reaches    *)
(* the endpoints of the client.                                            *)
(*                                                                         *)
(* Every pod claims a batch of events (claimBatch commits dispatched_at    *)
(* first) and then plans, event by event, one delivery row per active      *)
(* endpoint that wants it, and a job for each row. A job is taken by one   *)
(* of many workers, which posts the event and applies the outcome: the     *)
(* next attempt of a delivery is a new row. BullMQ knows a job by its id   *)
(* (one per row), also while it runs and while it is kept after its end,   *)
(* and ignores an add of a job it knows. The sweeper adds the jobs of rows *)
(* that are PENDING. Times are left out: a delayed job, a due row and the  *)
(* end of a retention may come at any moment.                              *)
(***************************************************************************)
EXTENDS Integers, FiniteSets

CONSTANTS
  Events,          \* the events of one subject; the number is the sequence
  Endpoints,
  Type,            \* Type[e]: the event's type, a pair <<resource, verb>>
  Filters,         \* Filters[p]: the filters of p, each <<"*">>, <<resource, "*">> or a type
  Pods,            \* processes that run sweepOutbox
  MaxAttempts,     \* length of WEBHOOK_RETRY_SCHEDULE_SECONDS, plus one
  FailureThreshold,
  MaxFaults        \* bound on deaths of pods and workers

ASSUME EventsAssumption == Events \subseteq Nat
ASSUME FiltersAssumption == DOMAIN Type = Events /\ DOMAIN Filters = Endpoints
ASSUME BoundsAssumption ==
  /\ MaxAttempts \in Nat \ {0}
  /\ FailureThreshold \in Nat \ {0}
  /\ MaxFaults \in Nat

VARIABLES
  outbox,          \* of every event: not appended, appended, dispatched_at set
  claimed,         \* of every pod: events it claimed and has not planned
  fan,             \* of every pod: the fan-out it is in the middle of
  row,             \* status of every delivery row, or that there is none
  job,             \* what BullMQ knows of the job of every row
  work,            \* how far the worker that runs the job is
  endpoint,        \* status and consecutive_failures of every endpoint
  abandoned,       \* <<event, endpoint>> in the hands of a process that died
  faults

vars == <<outbox, claimed, fan, row, job, work, endpoint, abandoned, faults>>

Attempts == 1..MaxAttempts
Deliveries == Events \X Endpoints \X Attempts

\* A fan-out: nothing, the targets read, or the rows written.
NoFan == [stage |-> "none"]
Fans == {NoFan} \cup [stage : {"listed", "planned"}, event : Events,
                      targets : SUBSET Endpoints]

RowStatus == {"NONE", "PENDING", "SUCCEEDED", "FAILED", "EXHAUSTED"}

\* What a worker has done of its job; "idle" when nobody runs it.
WorkStages == {"idle", "taken", "open", "clear", "succeeded", "gone", "refused",
               "reset", "disable", "exhaust", "register", "reschedule", "enqueue"}

TypeOK ==
  /\ outbox \in [Events -> {"absent", "appended", "dispatched"}]
  /\ claimed \in [Pods -> SUBSET Events]
  /\ fan \in [Pods -> Fans]
  /\ row \in [Deliveries -> RowStatus]
  /\ job \in [Deliveries -> {"none", "waiting", "active", "kept"}]
  /\ work \in [Deliveries -> WorkStages]
  /\ endpoint \in [Endpoints -> [status   : {"ACTIVE", "DISABLED_BY_FAILURES"},
                                 failures : Nat, gone : BOOLEAN]]
  /\ abandoned \subseteq Events \X Endpoints
  /\ faults \in 0..MaxFaults

Init ==
  /\ outbox = [e \in Events |-> "absent"]
  /\ claimed = [q \in Pods |-> {}]
  /\ fan = [q \in Pods |-> NoFan]
  /\ row = [d \in Deliveries |-> "NONE"]
  /\ job = [d \in Deliveries |-> "none"]
  /\ work = [d \in Deliveries |-> "idle"]
  /\ endpoint = [p \in Endpoints |->
                   [status |-> "ACTIVE", failures |-> 0, gone |-> FALSE]]
  /\ abandoned = {}
  /\ faults = 0

(***************************************************************************)
(* Queue and rows                                                          *)
(***************************************************************************)

\* enqueue: an id BullMQ knows, running and kept jobs included, is ignored.
Enqueued(ds) ==
  [d \in Deliveries |-> IF d \in ds /\ job[d] = "none" THEN "waiting" ELSE job[d]]

\* createMany with skipDuplicates on (event, endpoint, attempt).
Scheduled(ds) ==
  [d \in Deliveries |-> IF d \in ds /\ row[d] = "NONE" THEN "PENDING" ELSE row[d]]

\* exhaustPendingForEndpoint.
ExhaustedFor(p) ==
  [d \in Deliveries |-> IF d[2] = p /\ row[d] = "PENDING" THEN "EXHAUSTED" ELSE row[d]]

\* No filter means every type.
matchesEventType(filters, type) ==
  \/ filters = {}
  \/ \E f \in filters : f \in {<<"*">>, <<type[1], "*">>, type}

\* The events whose type passes the filter of p.
Wanted(p) == {e \in Events : matchesEventType(Filters[p], Type[e])}

ListActive(e) == {p \in Endpoints : endpoint[p].status = "ACTIVE" /\ e \in Wanted(p)}

\* Mutant: the row itself counts as an earlier one.
EarlierOrEqualPending(e, p) ==
  \E d \in Deliveries : d[1] <= e /\ d[2] = p /\ row[d] = "PENDING"

HasEarlierPendingForSubject(e, p) ==
  \E d \in Deliveries : d[1] < e /\ d[2] = p /\ row[d] = "PENDING"

\* The end of the job: BullMQ keeps it for a while.
Finish(d) ==
  /\ work' = [work EXCEPT ![d] = "idle"]
  /\ job' = [job EXCEPT ![d] = "kept"]

Advance(d, stage) ==
  /\ work' = [work EXCEPT ![d] = stage]
  /\ UNCHANGED job

(***************************************************************************)
(* Fan-out                                                                 *)
(***************************************************************************)

\* A domain service appends an event, in the transaction of its own write.
AppendEvent(e) ==
  /\ outbox[e] = "absent"
  /\ \A f \in Events : f < e => outbox[f] # "absent"
  /\ outbox' = [outbox EXCEPT ![e] = "appended"]
  /\ UNCHANGED <<claimed, fan, row, job, work, endpoint, abandoned, faults>>

\* claimBatch: FOR UPDATE SKIP LOCKED and dispatched_at, one transaction.
ClaimBatch(q) ==
  LET batch == {e \in Events : outbox[e] = "appended"} IN
  /\ claimed[q] = {}
  /\ fan[q] = NoFan
  /\ batch # {}
  /\ outbox' = [e \in Events |-> IF e \in batch THEN "dispatched" ELSE outbox[e]]
  /\ claimed' = [claimed EXCEPT ![q] = batch]
  /\ UNCHANGED <<fan, row, job, work, endpoint, abandoned, faults>>

\* fanOut reads the endpoints of the next event of the batch. (The order of
\* the rows that UPDATE ... RETURNING answers is not specified; here it is the
\* order of the ids, which the plan of the statement gives in practice.)
ListTargets(q, e) ==
  /\ fan[q] = NoFan
  /\ e \in claimed[q]
  /\ \A f \in claimed[q] : e <= f
  /\ claimed' = [claimed EXCEPT ![q] = @ \ {e}]
  /\ fan' = [fan EXCEPT ![q] =
               IF ListActive(e) = {} THEN NoFan
               ELSE [stage |-> "listed", event |-> e, targets |-> ListActive(e)]]
  /\ UNCHANGED <<outbox, row, job, work, endpoint, abandoned, faults>>

FirstAttempts(f) == {<<f.event, p, 1>> : p \in f.targets}

ScheduleFirstAttempts(q) ==
  /\ fan[q].stage = "listed"
  /\ row' = Scheduled(FirstAttempts(fan[q]))
  /\ fan' = [fan EXCEPT ![q].stage = "planned"]
  /\ UNCHANGED <<outbox, claimed, job, work, endpoint, abandoned, faults>>

EnqueueFirstAttempts(q) ==
  /\ fan[q].stage = "planned"
  /\ job' = Enqueued(FirstAttempts(fan[q]))
  /\ fan' = [fan EXCEPT ![q] = NoFan]
  /\ UNCHANGED <<outbox, claimed, row, work, endpoint, abandoned, faults>>

(***************************************************************************)
(* One delivery                                                            *)
(***************************************************************************)

\* Mutant: the job trusts the queue and does not look at the row.
TakeUnread(d) ==
  /\ job[d] = "waiting"
  /\ work' = [work EXCEPT ![d] = "taken"]
  /\ job' = [job EXCEPT ![d] = "active"]
  /\ UNCHANGED <<outbox, claimed, fan, row, endpoint, abandoned, faults>>

\* A worker takes the job and reads the row; a row that is not PENDING any
\* more ends it.
TakeJob(d) ==
  /\ job[d] = "waiting"
  /\ IF row[d] = "PENDING"
     THEN /\ work' = [work EXCEPT ![d] = "taken"]
          /\ job' = [job EXCEPT ![d] = "active"]
     ELSE Finish(d)
  /\ UNCHANGED <<outbox, claimed, fan, row, endpoint, abandoned, faults>>

ReadEndpoint(d) ==
  /\ work[d] = "taken"
  /\ IF endpoint[d[2]].status = "ACTIVE"
     THEN Advance(d, "open") /\ UNCHANGED row
     ELSE Finish(d) /\ row' = [row EXCEPT ![d] = "EXHAUSTED"]
  /\ UNCHANGED <<outbox, claimed, fan, endpoint, abandoned, faults>>

\* An earlier delivery of the subject is PENDING: the job adds itself again,
\* which BullMQ ignores because it is running, and ends.
CheckOrder(d) ==
  /\ work[d] = "open"
  /\ IF HasEarlierPendingForSubject(d[1], d[2])
     THEN work' = [work EXCEPT ![d] = "idle"]
          /\ job' = [Enqueued({d}) EXCEPT ![d] = "kept"]
     ELSE Advance(d, "clear")
  /\ UNCHANGED <<outbox, claimed, fan, row, endpoint, abandoned, faults>>

\* An event of the subject, wanted by p, has been given its last word there.
Concluded(e, p) ==
  \E n \in Attempts : row[<<e, p, n>>] \in {"SUCCEEDED", "EXHAUSTED"}

\* What WebhookTransport.post returns: the class of the status, or no answer.
TransportResults == {"2xx", "3xx", "410", "4xx", "429", "5xx", "network"}

\* decideDelivery, and the retry that dispatch makes of a network error. The
\* decision names the next step of the worker.
decideDelivery(result) ==
  CASE result = "2xx" -> "succeeded"
    [] result = "410" -> "gone"
    [] OTHER -> "refused"

\* The POST and its answer. A worker that dies before it completes the row has
\* posted all the same.
Send(d, result) ==
  /\ work[d] = "clear"
  /\ Advance(d, decideDelivery(result))
  /\ UNCHANGED <<outbox, claimed, fan, row, endpoint, abandoned, faults>>

\* Mutant: the schedule is read one step too far.
HasNextAttemptBeyond(n) == n <= MaxAttempts

\* nextAttemptAt: the schedule has a step for the attempt after this one.
HasNextAttempt(n) == n < MaxAttempts

\* applyOutcome, its first write: complete. The row is written by its id,
\* whatever its status has become meanwhile.
Complete(d) ==
  /\ \/ /\ work[d] = "succeeded"
        /\ row' = [row EXCEPT ![d] = "SUCCEEDED"]
        /\ Advance(d, "reset")
     \/ /\ work[d] = "gone"
        /\ row' = [row EXCEPT ![d] = "EXHAUSTED"]
        /\ Advance(d, "disable")
     \/ /\ work[d] = "refused"
        /\ ~HasNextAttempt(d[3])
        /\ row' = [row EXCEPT ![d] = "EXHAUSTED"]
        /\ Advance(d, "register")
     \/ /\ work[d] = "refused"
        /\ HasNextAttempt(d[3])
        /\ row' = [row EXCEPT ![d] = "FAILED"]
        /\ Advance(d, "reschedule")
  /\ UNCHANGED <<outbox, claimed, fan, endpoint, abandoned, faults>>

ResetFailures(d) ==
  /\ work[d] = "reset"
  /\ endpoint' = [endpoint EXCEPT ![d[2]].failures = 0]
  /\ Finish(d)
  /\ UNCHANGED <<outbox, claimed, fan, row, abandoned, faults>>

\* disable after a 410: the client asked for it.
Disable(d) ==
  /\ work[d] = "disable"
  /\ endpoint' = [endpoint EXCEPT ![d[2]].status = "DISABLED_BY_FAILURES",
                                  ![d[2]].gone = TRUE]
  /\ Advance(d, "exhaust")
  /\ UNCHANGED <<outbox, claimed, fan, row, abandoned, faults>>

ExhaustPending(d) ==
  /\ work[d] = "exhaust"
  /\ row' = ExhaustedFor(d[2])
  /\ Finish(d)
  /\ UNCHANGED <<outbox, claimed, fan, endpoint, abandoned, faults>>

\* The statement of registerFailure.
WithFailure(r) ==
  [r EXCEPT !.failures = @ + 1,
            !.status = IF r.failures + 1 >= FailureThreshold
                       THEN "DISABLED_BY_FAILURES" ELSE @]

RegisterFailure(d) ==
  /\ work[d] = "register"
  /\ endpoint' = [endpoint EXCEPT ![d[2]] = WithFailure(@)]
  /\ Finish(d)
  /\ UNCHANGED <<outbox, claimed, fan, row, abandoned, faults>>

NextAttempt(d) == <<d[1], d[2], d[3] + 1>>

ScheduleRetry(d) ==
  /\ work[d] = "reschedule"
  /\ row' = Scheduled({NextAttempt(d)})
  /\ Advance(d, "enqueue")
  /\ UNCHANGED <<outbox, claimed, fan, endpoint, abandoned, faults>>

EnqueueRetry(d) ==
  /\ work[d] = "enqueue"
  /\ work' = [work EXCEPT ![d] = "idle"]
  /\ job' = [Enqueued({NextAttempt(d)}) EXCEPT ![d] = "kept"]
  /\ UNCHANGED <<outbox, claimed, fan, row, endpoint, abandoned, faults>>

(***************************************************************************)
(* Sweeper, retention and faults                                           *)
(***************************************************************************)

\* claimDue and enqueue.
SweepDeliveries ==
  LET due == {d \in Deliveries : row[d] = "PENDING"} IN
  /\ \E d \in due : job[d] = "none"
  /\ job' = Enqueued(due)
  /\ UNCHANGED <<outbox, claimed, fan, row, work, endpoint, abandoned, faults>>

\* BullMQ drops a finished job at the end of removeOnComplete/removeOnFail.
Forget(d) ==
  /\ job[d] = "kept"
  /\ job' = [job EXCEPT ![d] = "none"]
  /\ UNCHANGED <<outbox, claimed, fan, row, work, endpoint, abandoned, faults>>

\* A pod dies, or a statement of its fan-out throws, which ends the batch:
\* what it claimed and has not planned is claimed for good.
PodFails(q) ==
  /\ faults < MaxFaults
  /\ fan[q] # NoFan \/ claimed[q] # {}
  /\ faults' = faults + 1
  /\ abandoned' = abandoned \cup (claimed[q] \X Endpoints)
                  \cup (IF fan[q].stage = "listed"
                        THEN {fan[q].event} \X fan[q].targets ELSE {})
  /\ claimed' = [claimed EXCEPT ![q] = {}]
  /\ fan' = [fan EXCEPT ![q] = NoFan]
  /\ UNCHANGED <<outbox, row, job, work, endpoint>>

\* A worker dies (BullMQ gives the stalled job to another) or throws (the job
\* has one attempt: it is kept as failed). Between FAILED and the row of the
\* next attempt nothing mentions the delivery any more.
WorkerFails(d, after) ==
  /\ faults < MaxFaults
  /\ work[d] # "idle"
  /\ faults' = faults + 1
  /\ work' = [work EXCEPT ![d] = "idle"]
  /\ job' = [job EXCEPT ![d] = after]
  /\ abandoned' = abandoned \cup (IF work[d] = "reschedule" THEN {<<d[1], d[2]>>} ELSE {})
  /\ UNCHANGED <<outbox, claimed, fan, row, endpoint>>

FanOutStep(q) ==
  \/ ClaimBatch(q)
  \/ \E e \in Events : ListTargets(q, e)
  \/ ScheduleFirstAttempts(q)
  \/ EnqueueFirstAttempts(q)

WorkerStep(d) ==
  \/ TakeJob(d)
  \/ ReadEndpoint(d)
  \/ CheckOrder(d)
  \/ \E result \in TransportResults : Send(d, result)
  \/ Complete(d)
  \/ ResetFailures(d)
  \/ Disable(d)
  \/ ExhaustPending(d)
  \/ RegisterFailure(d)
  \/ ScheduleRetry(d)
  \/ EnqueueRetry(d)

Next ==
  \/ \E e \in Events : AppendEvent(e)
  \/ \E q \in Pods : FanOutStep(q) \/ PodFails(q)
  \/ \E d \in Deliveries : \/ WorkerStep(d)
                           \/ Forget(d)
                           \/ \E after \in {"waiting", "kept"} : WorkerFails(d, after)
  \/ SweepDeliveries

Spec == Init /\ [][Next]_vars

\* The workers of the queue take its jobs, a handler that runs goes on, the
\* sweeper runs every second and retention ends.
FairSpec ==
  /\ Spec
  /\ \A q \in Pods : WF_vars(FanOutStep(q))
  /\ \A d \in Deliveries : WF_vars(WorkerStep(d)) /\ WF_vars(Forget(d))
  /\ WF_vars(SweepDeliveries)

(***************************************************************************)
(* Properties                                                              *)
(***************************************************************************)

InHand(e, p) ==
  \/ \E q \in Pods : \/ e \in claimed[q]
                     \/ fan[q] # NoFan /\ fan[q].event = e /\ p \in fan[q].targets
  \/ \E n \in Attempts : work[<<e, p, n>>] = "reschedule"

\* A dispatched event that an active endpoint wants is planned there, given
\* its last word, or still in the hands of a living process (claimAndFanOut,
\* applyOutcome): only a death between two writes loses one.
NothingLost ==
  \A p \in Endpoints : \A e \in Wanted(p) :
    outbox[e] = "dispatched" /\ endpoint[p].status = "ACTIVE" =>
      \/ \E n \in Attempts : row[<<e, p, n>>] \in {"PENDING", "SUCCEEDED", "EXHAUSTED"}
      \/ InHand(e, p)
      \/ <<e, p>> \in abandoned

\* An endpoint is disabled because it said 410, or after as many deliveries
\* as the threshold were given up: attempts that failed and were repeated do
\* not count (applyOutcome, registerFailure).
DisabledIsEarned ==
  \A p \in Endpoints : endpoint[p].status # "ACTIVE" /\ ~endpoint[p].gone =>
    Cardinality({e \in Events : Concluded(e, p)}) >= FailureThreshold

\* The event of row d is posted in this step.
Posted(d) == work[d] = "clear" /\ work'[d] \in {"succeeded", "gone", "refused"}

\* An event whose delivery succeeded is not posted to that endpoint again, by
\* a repeated job, the sweeper or a later attempt (OutboxHandler.handle).
SucceededIsLast ==
  [][\A d \in Deliveries : Posted(d) =>
       \A n \in Attempts : row[<<d[1], d[2], n>>] # "SUCCEEDED"]_vars

\* No row stays PENDING for ever: not when its job was lost, nor when it
\* waited for an earlier row, nor when its endpoint was disabled.
EveryDeliveryEnds ==
  \A d \in Deliveries : row[d] = "PENDING" ~> row[d] # "PENDING"

\* "pix_out.settled" does not reach the client before "pix_out.pending": an
\* event is posted only when the earlier ones of its subject are concluded
\* (deliver, hasEarlierPendingForSubject) or were lost with a process.
InOrder ==
  [][\A d \in Deliveries : Posted(d) =>
       \A e \in Wanted(d[2]) :
         e < d[1] => Concluded(e, d[2]) \/ <<e, d[2]>> \in abandoned]_vars
=============================================================================
