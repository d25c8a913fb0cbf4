---------------------------- MODULE OutboxProofs ----------------------------
(***************************************************************************)
(* Theorems about the outbox: what is announced to a client's endpoint is  *)
(* not lost between the rows, the queue and the workers, and what          *)
(* succeeded is not posted again, for any number of events, endpoints,     *)
(* pods, attempts and faults.                                              *)
(***************************************************************************)
EXTENDS Outbox, TLAPS

-----------------------------------------------------------------------------
(* The rows of one event at one endpoint are a chain: every attempt but the *)
(* last has failed, and who works on the last knows what its row may say.   *)

Types ==
  /\ outbox \in [Events -> {"absent", "appended", "dispatched"}]
  /\ claimed \in [Pods -> SUBSET Events]
  /\ fan \in [Pods -> Fans]
  /\ row \in [Deliveries -> RowStatus]
  /\ work \in [Deliveries -> WorkStages]
  /\ endpoint \in [Endpoints -> [status   : {"ACTIVE", "DISABLED_BY_FAILURES"},
                                 failures : Nat, gone : BOOLEAN]]

\* An attempt is scheduled only when all the earlier ones have failed.
Chain ==
  \A e \in Events, p \in Endpoints, n \in Attempts : row[<<e, p, n>>] # "NONE" =>
     \A m \in Attempts : m < n => row[<<e, p, m>>] = "FAILED"

\* What a worker that holds an attempt knows of its row.
WorkersKnow ==
  \A d \in Deliveries :
    /\ work[d] \in {"taken", "open", "clear", "succeeded", "gone", "refused"} =>
         row[d] \in {"PENDING", "EXHAUSTED"}
    /\ work[d] = "reschedule" => row[d] = "FAILED" /\ d[3] < MaxAttempts
    /\ work[d] = "reschedule" => row[NextAttempt(d)] = "NONE"

\* An event planned at an endpoint has an attempt that is due or was the last word,
\* or is between two attempts, or was in the hands of a worker that died.
Followed(e, p) ==
  \/ \E n \in Attempts : row[<<e, p, n>>] \in {"PENDING", "SUCCEEDED", "EXHAUSTED"}
  \/ \E n \in Attempts : work[<<e, p, n>>] = "reschedule"
  \/ <<e, p>> \in abandoned

PlannedIsFollowed ==
  \A e \in Events, p \in Endpoints : row[<<e, p, 1>>] # "NONE" => Followed(e, p)

\* A fan-out that wrote its rows wrote one for each of its targets.
FansKnow ==
  \A q \in Pods : fan[q] # NoFan /\ fan[q].stage = "planned" =>
     \A p \in fan[q].targets : row[<<fan[q].event, p, 1>>] # "NONE"

OutboxInv == Types /\ Chain /\ WorkersKnow /\ PlannedIsFollowed /\ FansKnow /\ NothingLost

\* A job that somebody runs is active, so that nobody else takes it.
OneRunner ==
  /\ job \in [Deliveries -> {"none", "waiting", "active", "kept"}]
  /\ work \in [Deliveries -> WorkStages]
  /\ \A d \in Deliveries : work[d] # "idle" => job[d] = "active"

LEMMA Triples ==
  /\ \A d \in Deliveries : d = <<d[1], d[2], d[3]>> /\ d[1] \in Events /\ d[2] \in Endpoints
                           /\ d[3] \in Attempts
  /\ \A e \in Events, p \in Endpoints, n \in Attempts :
       <<e, p, n>> \in Deliveries
  /\ \A d \in Deliveries : d[3] < MaxAttempts =>
       NextAttempt(d) \in Deliveries /\ d[3] + 1 \in Attempts
  /\ 1 \in Attempts /\ Attempts \subseteq Nat
  BY BoundsAssumption DEF Deliveries, Attempts, NextAttempt

LEMMA OutboxInitially == Init => OutboxInv
  BY Triples DEF Init, OutboxInv, Types, Chain, WorkersKnow, PlannedIsFollowed, FansKnow,
     NothingLost, Fans, RowStatus, WorkStages, Wanted

-----------------------------------------------------------------------------
(* The workers. *)

Holding == {"taken", "open", "clear", "succeeded", "gone", "refused"}

\* How the worker of a row, or another one that ends all rows of its endpoint, may
\* change it: the row rests, is given its last word, or fails and has a successor.
Moves(d) ==
  \/ row'[d] = row[d] /\ work'[d] = work[d]
  \/ /\ row'[d] = row[d] /\ work'[d] # "reschedule"
     /\ work'[d] \in Holding => work[d] \in Holding \/ row[d] = "PENDING"
     /\ work[d] = "reschedule" => <<d[1], d[2]>> \in abandoned'
  \/ /\ row[d] \in {"PENDING", "EXHAUSTED"} /\ row'[d] = "EXHAUSTED"
     /\ work'[d] = work[d] \/ work'[d] \notin Holding \cup {"reschedule"}
  \/ /\ row[d] \in {"PENDING", "EXHAUSTED"} /\ row'[d] = "SUCCEEDED"
     /\ work'[d] \notin Holding \cup {"reschedule"}
  \/ /\ row[d] \in {"PENDING", "EXHAUSTED"} /\ row'[d] = "FAILED"
     /\ work'[d] = "reschedule" /\ d[3] < MaxAttempts

LEMMA MovesKeep ==
  ASSUME OutboxInv, \A d \in Deliveries : Moves(d),
         row' \in [Deliveries -> RowStatus], work' \in [Deliveries -> WorkStages],
         outbox' \in [Events -> {"absent", "appended", "dispatched"}],
         \A e \in Events : outbox'[e] = "dispatched" => outbox[e] = "dispatched",
         endpoint' \in [Endpoints -> [status   : {"ACTIVE", "DISABLED_BY_FAILURES"},
                                      failures : Nat, gone : BOOLEAN]],
         \A p \in Endpoints : endpoint'[p].status = "ACTIVE" => endpoint[p].status = "ACTIVE",
         abandoned \subseteq abandoned', UNCHANGED <<claimed, fan>>
  PROVE  OutboxInv'
<1>1. Types'
  BY DEF OutboxInv, Types
<1>2. \A d \in Deliveries : row'[d] # "NONE" <=> row[d] # "NONE"
  BY DEF Moves
<1>3. Chain'
  <2> SUFFICES ASSUME NEW e \in Events, NEW p \in Endpoints, NEW n \in Attempts, NEW m \in Attempts,
                      row'[<<e, p, n>>] # "NONE", m < n
               PROVE  row'[<<e, p, m>>] = "FAILED"
    BY DEF Chain
  <2>1. row[<<e, p, m>>] = "FAILED"
    BY <1>2, Triples DEF OutboxInv, Chain
  <2>2. Moves(<<e, p, m>>)
    BY Triples
  <2>3. QED
    BY <2>1, <2>2 DEF Moves
<1>4. WorkersKnow'
  <2> SUFFICES ASSUME NEW d \in Deliveries
               PROVE  /\ work'[d] \in Holding => row'[d] \in {"PENDING", "EXHAUSTED"}
                      /\ work'[d] = "reschedule" => row'[d] = "FAILED" /\ d[3] < MaxAttempts
                      /\ work'[d] = "reschedule" => row'[NextAttempt(d)] = "NONE"
    BY DEF WorkersKnow, Holding, NextAttempt
  <2>1. /\ work'[d] \in Holding => row'[d] \in {"PENDING", "EXHAUSTED"}
        /\ work'[d] = "reschedule" => row'[d] = "FAILED" /\ d[3] < MaxAttempts
    BY DEF OutboxInv, WorkersKnow, Moves, Holding
  <2>2. ASSUME work'[d] = "reschedule" PROVE row'[NextAttempt(d)] = "NONE"
    <3>1. NextAttempt(d) \in Deliveries
      BY <2>1, <2>2, Triples
    <3>2. CASE work[d] = "reschedule"
      BY <1>2, <3>1, <3>2 DEF OutboxInv, WorkersKnow
    <3>3. CASE work[d] # "reschedule"
      <4>1. row[d] # "FAILED"
        BY <2>2, <3>3 DEF Moves
      <4>2. d = <<d[1], d[2], d[3]>> /\ d[1] \in Events /\ d[2] \in Endpoints /\ d[3] \in Attempts
            /\ d[3] + 1 \in Attempts /\ d[3] < d[3] + 1
        BY <2>1, <2>2, Triples
      <4>3. row[<<d[1], d[2], d[3] + 1>>] = "NONE"
        BY <4>1, <4>2 DEF OutboxInv, Chain
      <4>4. QED
        BY <1>2, <3>1, <4>3 DEF NextAttempt
    <3>4. QED
      BY <3>2, <3>3
  <2>3. QED
    BY <2>1, <2>2
<1>5. ASSUME NEW e \in Events, NEW p \in Endpoints, Followed(e, p) PROVE Followed(e, p)'
  <2>1. ASSUME NEW n \in Attempts, row[<<e, p, n>>] \in {"PENDING", "SUCCEEDED", "EXHAUSTED"}
        PROVE  \/ row'[<<e, p, n>>] \in {"PENDING", "SUCCEEDED", "EXHAUSTED"}
               \/ work'[<<e, p, n>>] = "reschedule"
    <3>1. Moves(<<e, p, n>>)
      BY Triples
    <3>2. QED
      BY <2>1, <3>1 DEF Moves
  <2>2. ASSUME NEW n \in Attempts, work[<<e, p, n>>] = "reschedule"
        PROVE  work'[<<e, p, n>>] = "reschedule" \/ <<e, p>> \in abandoned'
    <3>1. Moves(<<e, p, n>>) /\ row[<<e, p, n>>] = "FAILED"
      BY <2>2, Triples DEF OutboxInv, WorkersKnow
    <3>2. QED
      BY <2>2, <3>1 DEF Moves
  <2>3. QED
    BY <1>5, <2>1, <2>2 DEF Followed
<1>6. PlannedIsFollowed'
  BY <1>2, <1>5, Triples DEF OutboxInv, PlannedIsFollowed
<1>7. FansKnow'
  <2> SUFFICES ASSUME NEW q \in Pods, fan[q] # NoFan, fan[q].stage = "planned",
                      NEW p \in fan[q].targets
               PROVE  row'[<<fan[q].event, p, 1>>] # "NONE"
    BY DEF FansKnow
  <2>1. fan[q].event \in Events /\ p \in Endpoints
    BY DEF OutboxInv, Types, Fans
  <2>2. QED
    BY <1>2, <2>1, Triples DEF OutboxInv, FansKnow
<1>8. NothingLost'
  <2> SUFFICES ASSUME NEW p \in Endpoints, NEW e \in Wanted(p),
                      outbox'[e] = "dispatched", endpoint'[p].status = "ACTIVE"
               PROVE  \/ Followed(e, p)'
                      \/ \E q \in Pods : \/ e \in claimed'[q]
                                         \/ fan'[q] # NoFan /\ fan'[q].event = e /\ p \in fan'[q].targets
    BY DEF NothingLost, Followed, InHand, Wanted
  <2>1. e \in Events
    BY DEF Wanted
  <2>2. \/ Followed(e, p)
        \/ \E q \in Pods : \/ e \in claimed[q]
                           \/ fan[q] # NoFan /\ fan[q].event = e /\ p \in fan[q].targets
    BY <2>1 DEF OutboxInv, NothingLost, InHand, Followed
  <2>3. QED
    BY <1>5, <2>1, <2>2
<1>9. QED
  BY <1>1, <1>3, <1>4, <1>6, <1>7, <1>8 DEF OutboxInv

\* The row and the stage of a delivery that a step does not touch.
LEMMA RestMoves ==
  ASSUME NEW d \in Deliveries, row'[d] = row[d], work'[d] = work[d] PROVE Moves(d)
  BY DEF Moves

\* A step of a worker that writes no row: on to a stage that needs no more than the
\* row being due, or to the end of the job.
LEMMA QuietMove ==
  ASSUME OutboxInv, NEW d \in Deliveries, NEW stage \in WorkStages \ {"reschedule"},
         stage \in Holding => work[d] \in Holding \/ row[d] = "PENDING",
         work[d] = "reschedule" => <<d[1], d[2]>> \in abandoned',
         work' = [work EXCEPT ![d] = stage], row' = row
  PROVE  work' \in [Deliveries -> WorkStages] /\ \A f \in Deliveries : Moves(f)
<1>1. work' \in [Deliveries -> WorkStages] /\ work'[d] = stage
  BY DEF OutboxInv, Types
<1>2. Moves(d)
  BY <1>1 DEF Moves
<1>3. ASSUME NEW f \in Deliveries, f # d PROVE Moves(f)
  BY <1>3, RestMoves DEF OutboxInv, Types
<1>4. QED
  BY <1>1, <1>2, <1>3

LEMMA WorkerStepsKeep ==
  ASSUME OutboxInv, OneRunner, NEW d \in Deliveries, WorkerStep(d), ~ScheduleRetry(d)
  PROVE  OutboxInv'
<1> USE DEF WorkStages
<1>0. /\ row \in [Deliveries -> RowStatus] /\ work \in [Deliveries -> WorkStages]
      /\ outbox \in [Events -> {"absent", "appended", "dispatched"}]
      /\ endpoint \in [Endpoints -> [status   : {"ACTIVE", "DISABLED_BY_FAILURES"},
                                     failures : Nat, gone : BOOLEAN]]
      /\ d[2] \in Endpoints
  BY Triples DEF OutboxInv, Types
<1>1. ASSUME NEW stage \in WorkStages \ {"reschedule"}, work[d] # "reschedule",
             stage \in Holding => work[d] \in Holding \/ row[d] = "PENDING",
             work' = [work EXCEPT ![d] = stage],
             endpoint' \in [Endpoints -> [status   : {"ACTIVE", "DISABLED_BY_FAILURES"},
                                          failures : Nat, gone : BOOLEAN]],
             \A p \in Endpoints : endpoint'[p].status = "ACTIVE" => endpoint[p].status = "ACTIVE",
             UNCHANGED <<outbox, claimed, fan, row, abandoned>>
      PROVE  OutboxInv'
  BY <1>0, <1>1, QuietMove, MovesKeep
<1>2. ASSUME work[d] \in Holding,
             NEW stage \in WorkStages \ Holding, NEW status \in {"SUCCEEDED", "EXHAUSTED", "FAILED"},
             status = "FAILED" <=> stage = "reschedule", status = "FAILED" => d[3] < MaxAttempts,
             work' = [work EXCEPT ![d] = stage], row' = [row EXCEPT ![d] = status],
             UNCHANGED <<outbox, claimed, fan, endpoint, abandoned>>
      PROVE  OutboxInv'
  <2>1. row[d] \in {"PENDING", "EXHAUSTED"} /\ row'[d] = status /\ work'[d] = stage
    BY <1>0, <1>2 DEF OutboxInv, WorkersKnow, Holding
  <2>2. Moves(d)
    BY <1>2, <2>1 DEF Moves, Holding
  <2>3. ASSUME NEW f \in Deliveries, f # d PROVE Moves(f)
    BY <1>0, <1>2, <2>3, RestMoves
  <2>4. row' \in [Deliveries -> RowStatus] /\ work' \in [Deliveries -> WorkStages]
    BY <1>0, <1>2 DEF RowStatus
  <2>5. QED
    BY <1>0, <1>2, <2>2, <2>3, <2>4, MovesKeep
<1>3. CASE TakeJob(d)
  <2>1. \/ work' = [work EXCEPT ![d] = "taken"] /\ row[d] = "PENDING"
        \/ work' = [work EXCEPT ![d] = "idle"]
    BY <1>3 DEF TakeJob, Finish
  <2>2. CASE work[d] # "reschedule"
    BY <1>0, <1>1, <1>3, <2>1, <2>2 DEF TakeJob, Holding
  <2>3. CASE work[d] = "reschedule"
    BY <1>3, <2>3 DEF TakeJob, OneRunner
  <2>4. QED
    BY <2>2, <2>3
<1>4. CASE ReadEndpoint(d)
  BY <1>0, <1>1, <1>2, <1>4 DEF ReadEndpoint, Advance, Finish, Holding
<1>5. CASE CheckOrder(d)
  BY <1>0, <1>1, <1>5 DEF CheckOrder, Advance, Holding
<1>6. ASSUME NEW result \in TransportResults, Send(d, result) PROVE OutboxInv'
  <2>1. decideDelivery(result) \in {"succeeded", "gone", "refused"}
    BY DEF decideDelivery, TransportResults
  <2>2. QED
    BY <1>0, <1>1, <1>6, <2>1 DEF Send, Advance, Holding
<1>7. CASE Complete(d)
  BY <1>0, <1>2, <1>7 DEF Complete, Advance, Holding, HasNextAttempt
<1>8. CASE ResetFailures(d)
  <2>1. /\ endpoint' \in [Endpoints -> [status   : {"ACTIVE", "DISABLED_BY_FAILURES"},
                                        failures : Nat, gone : BOOLEAN]]
        /\ \A p \in Endpoints : endpoint'[p].status = endpoint[p].status
    BY <1>0, <1>8 DEF ResetFailures
  <2>2. QED
    BY <1>0, <1>1, <1>8, <2>1 DEF ResetFailures, Finish, Holding
<1>9. CASE Disable(d)
  <2>1. /\ endpoint' \in [Endpoints -> [status   : {"ACTIVE", "DISABLED_BY_FAILURES"},
                                        failures : Nat, gone : BOOLEAN]]
        /\ \A p \in Endpoints : endpoint'[p].status = "ACTIVE" => endpoint[p].status = "ACTIVE"
    BY <1>0, <1>9 DEF Disable
  <2>2. QED
    BY <1>0, <1>1, <1>9, <2>1 DEF Disable, Advance, Holding
<1>10. CASE RegisterFailure(d)
  <2>1. /\ endpoint' \in [Endpoints -> [status   : {"ACTIVE", "DISABLED_BY_FAILURES"},
                                        failures : Nat, gone : BOOLEAN]]
        /\ \A p \in Endpoints : endpoint'[p].status = "ACTIVE" => endpoint[p].status = "ACTIVE"
    <3>1. endpoint' = [endpoint EXCEPT ![d[2]] = WithFailure(endpoint[d[2]])]
      BY <1>10 DEF RegisterFailure
    <3>2. /\ WithFailure(endpoint[d[2]]) \in [status   : {"ACTIVE", "DISABLED_BY_FAILURES"},
                                               failures : Nat, gone : BOOLEAN]
          /\ WithFailure(endpoint[d[2]]).status = "ACTIVE" => endpoint[d[2]].status = "ACTIVE"
      <4> DEFINE r == endpoint[d[2]]
                 status == IF r.failures + 1 >= FailureThreshold
                           THEN "DISABLED_BY_FAILURES" ELSE r.status
      <4>1. r \in [status   : {"ACTIVE", "DISABLED_BY_FAILURES"},
                   failures : Nat, gone : BOOLEAN]
        BY <1>0
      <4>2. status \in {"ACTIVE", "DISABLED_BY_FAILURES"} /\ (status = "ACTIVE" => r.status = "ACTIVE")
        BY <4>1
      <4>3. WithFailure(r) = [r EXCEPT !.failures = r.failures + 1, !.status = status]
            /\ r.failures + 1 \in Nat
        BY <4>1 DEF WithFailure
      <4> HIDE DEF r, status
      <4>4. /\ WithFailure(r) \in [status   : {"ACTIVE", "DISABLED_BY_FAILURES"},
                                   failures : Nat, gone : BOOLEAN]
            /\ WithFailure(r).status = status
        BY <4>1, <4>2, <4>3
      <4>5. QED
        BY <4>2, <4>4 DEF r
    <3>3. QED
      BY <1>0, <3>1, <3>2
  <2>2. QED
    BY <1>0, <1>1, <1>10, <2>1 DEF RegisterFailure, Finish, Holding
<1>11. CASE ExhaustPending(d)
  <2>1. row' = ExhaustedFor(d[2]) /\ work[d] = "exhaust" /\ work' = [work EXCEPT ![d] = "idle"]
    BY <1>11 DEF ExhaustPending, Finish
  <2>2. row' \in [Deliveries -> RowStatus] /\ work' \in [Deliveries -> WorkStages]
    BY <1>0, <2>1 DEF ExhaustedFor, RowStatus
  <2>3. ASSUME NEW f \in Deliveries PROVE Moves(f)
    <3>1. row'[f] = row[f] \/ (row[f] = "PENDING" /\ row'[f] = "EXHAUSTED")
      BY <2>1 DEF ExhaustedFor
    <3>2. work'[f] = work[f] \/ (f = d /\ work'[f] = "idle")
      BY <1>0, <2>1
    <3>3. QED
      BY <2>1, <3>1, <3>2 DEF Moves, Holding
  <2>4. QED
    BY <1>0, <1>11, <2>2, <2>3, MovesKeep DEF ExhaustPending
<1>12. CASE EnqueueRetry(d)
  BY <1>0, <1>1, <1>12 DEF EnqueueRetry, Holding
<1>13. QED
  BY <1>3, <1>4, <1>5, <1>6, <1>7, <1>8, <1>9, <1>10, <1>11, <1>12 DEF WorkerStep

-----------------------------------------------------------------------------
(* One worker per job. *)

LEMMA OneRunnerStep == OneRunner /\ [Next]_vars => OneRunner'
<1> SUFFICES ASSUME OneRunner, [Next]_vars PROVE OneRunner'
  OBVIOUS
<1>1. ASSUME UNCHANGED work, NEW ds, job' = Enqueued(ds) PROVE OneRunner'
  BY <1>1 DEF OneRunner, Enqueued
<1>2. ASSUME NEW d \in Deliveries, NEW after \in {"waiting", "kept"},
             work' = [work EXCEPT ![d] = "idle"], job' = [job EXCEPT ![d] = after]
      PROVE  OneRunner'
  BY <1>2 DEF OneRunner, WorkStages
<1>3. ASSUME NEW d \in Deliveries, NEW stage \in WorkStages, work[d] # "idle",
             work' = [work EXCEPT ![d] = stage], UNCHANGED job
      PROVE  OneRunner'
  BY <1>3 DEF OneRunner
<1>4. ASSUME NEW d \in Deliveries, NEW ds, work' = [work EXCEPT ![d] = "idle"],
             job' = [Enqueued(ds) EXCEPT ![d] = "kept"]
      PROVE  OneRunner'
  BY <1>4 DEF OneRunner, Enqueued, WorkStages
<1>5. ASSUME NEW d \in Deliveries, WorkerStep(d) PROVE OneRunner'
  <2>1. ASSUME TakeJob(d) PROVE OneRunner'
    BY <2>1, <1>2 DEF TakeJob, Finish, OneRunner, WorkStages
  <2>2. ASSUME NEW result \in TransportResults, Send(d, result) PROVE OneRunner'
    BY <2>2, <1>3 DEF Send, Advance, decideDelivery, WorkStages
  <2>3. ASSUME ReadEndpoint(d) \/ Complete(d) \/ ResetFailures(d) \/ Disable(d)
               \/ ExhaustPending(d) \/ RegisterFailure(d) \/ ScheduleRetry(d)
        PROVE  OneRunner'
    BY <2>3, <1>2, <1>3 DEF ReadEndpoint, Complete, ResetFailures, Disable, ExhaustPending,
       RegisterFailure, ScheduleRetry, Advance, Finish, WorkStages
  <2>4. ASSUME CheckOrder(d) \/ EnqueueRetry(d) PROVE OneRunner'
    BY <2>4, <1>3, <1>4 DEF CheckOrder, EnqueueRetry, Advance, WorkStages
  <2>5. QED
    BY <1>5, <2>1, <2>2, <2>3, <2>4 DEF WorkerStep
<1>6. ASSUME NEW d \in Deliveries, Forget(d) PROVE OneRunner'
  BY <1>6 DEF Forget, OneRunner
<1>7. ASSUME NEW d \in Deliveries, NEW after \in {"waiting", "kept"}, WorkerFails(d, after) PROVE OneRunner'
  BY <1>7, <1>2 DEF WorkerFails
<1>8. ASSUME NEW q \in Pods, FanOutStep(q) \/ PodFails(q) PROVE OneRunner'
  <2>1. UNCHANGED work /\ (UNCHANGED job \/ \E ds : job' = Enqueued(ds))
    BY <1>8 DEF FanOutStep, ClaimBatch, ListTargets, ScheduleFirstAttempts, EnqueueFirstAttempts, PodFails
  <2>2. QED
    BY <2>1, <1>1 DEF OneRunner
<1>9. CASE SweepDeliveries
  BY <1>9, <1>1 DEF SweepDeliveries
<1>10. ASSUME NEW e \in Events, AppendEvent(e) PROVE OneRunner'
  BY <1>10 DEF AppendEvent, OneRunner
<1>11. CASE UNCHANGED vars
  BY <1>11 DEF vars, OneRunner
<1>12. QED
  BY <1>5, <1>6, <1>7, <1>8, <1>9, <1>10, <1>11 DEF Next

-----------------------------------------------------------------------------
(* The rest of a worker's steps, and the fan-out. *)

\* The row of the next attempt comes after the failure of this one.
LEMMA ScheduleRetryKeeps == ASSUME OutboxInv, NEW d \in Deliveries, ScheduleRetry(d) PROVE OutboxInv'
<1> DEFINE f == NextAttempt(d)
<1>1. /\ d = <<d[1], d[2], d[3]>> /\ d[1] \in Events /\ d[2] \in Endpoints /\ d[3] \in Attempts
      /\ d[3] < MaxAttempts /\ f \in Deliveries /\ d[3] + 1 \in Attempts
      /\ f = <<d[1], d[2], d[3] + 1>> /\ f # d
      /\ row[d] = "FAILED" /\ row[f] = "NONE" /\ work[d] = "reschedule"
  BY Triples DEF ScheduleRetry, OutboxInv, WorkersKnow, NextAttempt, Attempts
<1>2. row' = [row EXCEPT ![f] = "PENDING"] /\ work' = [work EXCEPT ![d] = "enqueue"]
  BY <1>1 DEF ScheduleRetry, Scheduled, Advance, OutboxInv, Types
<1>3. UNCHANGED <<outbox, claimed, fan, endpoint, abandoned>>
  BY DEF ScheduleRetry
<1> HIDE DEF f
<1>4. Types'
  BY <1>1, <1>2, <1>3 DEF OutboxInv, Types, RowStatus, WorkStages
<1>5. row'[f] = "PENDING" /\ \A g \in Deliveries : g # f => row'[g] = row[g]
  BY <1>1, <1>2 DEF OutboxInv, Types
<1>6. Chain'
  <2> SUFFICES ASSUME NEW e \in Events, NEW p \in Endpoints, NEW n \in Attempts, NEW m \in Attempts,
                      row'[<<e, p, n>>] # "NONE", m < n
               PROVE  row'[<<e, p, m>>] = "FAILED"
    BY DEF Chain
  <2>0. <<e, p, m>> \in Deliveries /\ <<e, p, n>> \in Deliveries
    BY Triples
  <2>1. CASE <<e, p, n>> # f
    <3>1. row[<<e, p, m>>] = "FAILED"
      BY <1>5, <2>0, <2>1 DEF OutboxInv, Chain
    <3>2. QED
      BY <1>1, <1>5, <2>0, <3>1
  <2>2. CASE <<e, p, n>> = f
    <3>1. e = d[1] /\ p = d[2] /\ n = d[3] + 1
      BY <1>1, <2>2
    <3>2. m = d[3] \/ m < d[3]
      BY <3>1, <1>1 DEF Attempts
    <3>3. row[<<e, p, m>>] = "FAILED"
      BY <1>1, <3>1, <3>2 DEF OutboxInv, Chain
    <3>4. QED
      BY <1>1, <1>5, <2>0, <3>3
  <2>3. QED
    BY <2>1, <2>2
<1>7. WorkersKnow'
  <2> SUFFICES ASSUME NEW g \in Deliveries
               PROVE  /\ work'[g] \in Holding => row'[g] \in {"PENDING", "EXHAUSTED"}
                      /\ work'[g] = "reschedule" => row'[g] = "FAILED" /\ g[3] < MaxAttempts
                      /\ work'[g] = "reschedule" => row'[NextAttempt(g)] = "NONE"
    BY DEF WorkersKnow, Holding, NextAttempt
  <2>1. work'[g] = IF g = d THEN "enqueue" ELSE work[g]
    BY <1>2 DEF OutboxInv, Types
  <2>2. work[g] \in Holding \/ work[g] = "reschedule" => row[g] # "NONE"
    BY DEF OutboxInv, WorkersKnow, Holding
  <2>3. row'[g] = row[g] \/ g = f
    BY <1>5
  <2>4. ASSUME work'[g] = "reschedule" PROVE row'[NextAttempt(g)] = "NONE"
    <3>1. g # d /\ work[g] = "reschedule" /\ g[3] < MaxAttempts /\ row[NextAttempt(g)] = "NONE"
      BY <2>1, <2>4 DEF OutboxInv, WorkersKnow
    <3>2. NextAttempt(g) # f /\ NextAttempt(g) \in Deliveries
      <4>1. g = <<g[1], g[2], g[3]>> /\ g[3] \in Attempts /\ NextAttempt(g) \in Deliveries
        BY <3>1, Triples
      <4>2. NextAttempt(g) = f => g[1] = d[1] /\ g[2] = d[2] /\ g[3] + 1 = d[3] + 1
        BY <1>1 DEF NextAttempt
      <4>3. QED
        BY <1>1, <3>1, <4>1, <4>2 DEF Attempts
    <3>3. QED
      BY <1>5, <3>1, <3>2
  <2>5. QED
    BY <1>1, <2>1, <2>2, <2>3, <2>4 DEF OutboxInv, WorkersKnow, Holding
<1>8. ASSUME NEW e \in Events, NEW p \in Endpoints, Followed(e, p) PROVE Followed(e, p)'
  <2>1. ASSUME NEW n \in Attempts, row[<<e, p, n>>] \in {"PENDING", "SUCCEEDED", "EXHAUSTED"}
        PROVE  row'[<<e, p, n>>] \in {"PENDING", "SUCCEEDED", "EXHAUSTED"}
    BY <1>1, <1>5, <2>1, Triples
  <2>2. ASSUME NEW n \in Attempts, work[<<e, p, n>>] = "reschedule"
        PROVE  work'[<<e, p, n>>] = "reschedule" \/ row'[<<e, p, d[3] + 1>>] = "PENDING"
    <3>1. CASE <<e, p, n>> = d
      BY <1>1, <1>5, <3>1
    <3>2. CASE <<e, p, n>> # d
      BY <1>2, <2>2, <3>2, Triples DEF OutboxInv, Types
    <3>3. QED
      BY <3>1, <3>2
  <2>3. QED
    BY <1>1, <1>3, <1>8, <2>1, <2>2 DEF Followed
<1>9. PlannedIsFollowed'
  <2>1. \A e \in Events, p \in Endpoints : <<e, p, 1>> \in Deliveries /\ <<e, p, 1>> # f
    BY <1>1, Triples DEF Attempts
  <2>2. QED
    BY <1>5, <1>8, <2>1 DEF OutboxInv, PlannedIsFollowed
<1>10. FansKnow'
  <2> SUFFICES ASSUME NEW q \in Pods, fan[q] # NoFan, fan[q].stage = "planned",
                      NEW p \in fan[q].targets
               PROVE  row'[<<fan[q].event, p, 1>>] # "NONE"
    BY <1>3 DEF FansKnow
  <2>1. fan[q].event \in Events /\ p \in Endpoints
    BY DEF OutboxInv, Types, Fans
  <2>2. QED
    BY <1>5, <2>1, Triples DEF OutboxInv, FansKnow
<1>11. NothingLost'
  BY <1>3, <1>8 DEF OutboxInv, NothingLost, Followed, InHand, Wanted
<1>12. QED
  BY <1>4, <1>6, <1>7, <1>9, <1>10, <1>11 DEF OutboxInv

\* A worker that dies before the row of the next attempt leaves its trace.
LEMMA WorkerFailsKeeps ==
  ASSUME OutboxInv, NEW d \in Deliveries, NEW after \in {"waiting", "kept"}, WorkerFails(d, after)
  PROVE  OutboxInv'
<1>1. /\ work' = [work EXCEPT ![d] = "idle"] /\ UNCHANGED <<outbox, claimed, fan, row, endpoint>>
      /\ abandoned \subseteq abandoned'
      /\ work[d] = "reschedule" => <<d[1], d[2]>> \in abandoned'
  BY DEF WorkerFails
<1>2. "idle" \in WorkStages \ {"reschedule"} /\ "idle" \notin Holding
  BY DEF WorkStages, Holding
<1>3. work' \in [Deliveries -> WorkStages] /\ \A f \in Deliveries : Moves(f)
  BY <1>1, <1>2, QuietMove
<1>4. QED
  BY <1>1, <1>3, MovesKeep DEF OutboxInv, Types

\* Steps that touch neither rows nor workers nor the fan-outs.
LEMMA QueueKeeps ==
  ASSUME OutboxInv, UNCHANGED <<claimed, fan, row, work, endpoint, abandoned>>,
         outbox' \in [Events -> {"absent", "appended", "dispatched"}],
         \A e \in Events : outbox'[e] = "dispatched" => outbox[e] = "dispatched"
  PROVE  OutboxInv'
  BY RestMoves, MovesKeep DEF OutboxInv, Types

\* Steps of a pod that write no row: what it had to plan must still be in a hand.
LEMMA PodKeeps ==
  ASSUME OutboxInv, UNCHANGED <<row, work, endpoint>>, abandoned \subseteq abandoned',
         outbox' \in [Events -> {"absent", "appended", "dispatched"}],
         claimed' \in [Pods -> SUBSET Events], fan' \in [Pods -> Fans],
         \A q \in Pods : fan'[q] # NoFan /\ fan'[q].stage = "planned" => fan'[q] = fan[q],
         NothingLost'
  PROVE  OutboxInv'
<1>1. Types' /\ Chain' /\ WorkersKnow'
  BY DEF OutboxInv, Types, Chain, WorkersKnow, NextAttempt
<1>2. PlannedIsFollowed'
  BY DEF OutboxInv, PlannedIsFollowed, Followed
<1>3. FansKnow'
  BY DEF OutboxInv, FansKnow
<1>4. QED
  BY <1>1, <1>2, <1>3 DEF OutboxInv

\* What the fan-out of pod q is about to plan at endpoint p.
Carries(q, e, p) ==
  e \in claimed[q] \/ (fan[q] # NoFan /\ fan[q].event = e /\ p \in fan[q].targets)

LEMMA LostMeans ==
  NothingLost <=> \A p \in Endpoints : \A e \in Wanted(p) :
    outbox[e] = "dispatched" /\ endpoint[p].status = "ACTIVE" =>
      Followed(e, p) \/ \E q \in Pods : Carries(q, e, p)
  BY ZenonT(60) DEF NothingLost, InHand, Followed, Carries

LEMMA LostMeansNext ==
  NothingLost' <=> \A p \in Endpoints : \A e \in Wanted(p) :
    outbox'[e] = "dispatched" /\ endpoint'[p].status = "ACTIVE" =>
      Followed(e, p)' \/ \E q \in Pods : Carries(q, e, p)'
  BY ZenonT(60) DEF NothingLost, InHand, Followed, Carries, Wanted

LEMMA ClaimBatchKeeps == ASSUME OutboxInv, NEW q \in Pods, ClaimBatch(q) PROVE OutboxInv'
<1> DEFINE batch == {e \in Events : outbox[e] = "appended"}
<1>1. /\ claimed[q] = {} /\ outbox' = [e \in Events |-> IF e \in batch THEN "dispatched" ELSE outbox[e]]
      /\ claimed' = [claimed EXCEPT ![q] = batch]
      /\ UNCHANGED <<fan, row, job, work, endpoint, abandoned, faults>>
  BY DEF ClaimBatch
<1>2. /\ outbox \in [Events -> {"absent", "appended", "dispatched"}]
      /\ claimed \in [Pods -> SUBSET Events] /\ fan \in [Pods -> Fans]
  BY DEF OutboxInv, Types
<1>3. /\ outbox' \in [Events -> {"absent", "appended", "dispatched"}]
      /\ claimed' \in [Pods -> SUBSET Events]
      /\ \A e \in Events : outbox'[e] = "dispatched" => outbox[e] = "dispatched" \/ e \in batch
      /\ claimed'[q] = batch /\ \A r \in Pods : claimed[r] \subseteq claimed'[r]
  BY <1>1, <1>2
<1> HIDE DEF batch
<1>4. ASSUME NEW p \in Endpoints, NEW e \in Wanted(p), outbox'[e] = "dispatched",
             endpoint'[p].status = "ACTIVE"
      PROVE  Followed(e, p)' \/ \E r \in Pods : Carries(r, e, p)'
  <2>1. e \in Events
    BY DEF Wanted
  <2>2. CASE e \in batch
    BY <1>3, <2>2 DEF Carries
  <2>3. CASE outbox[e] = "dispatched"
    <3>1. Followed(e, p) \/ \E r \in Pods : Carries(r, e, p)
      BY <1>1, <1>4, <2>3, LostMeans DEF OutboxInv
    <3>2. QED
      BY <1>1, <1>3, <3>1 DEF Followed, Carries
  <2>4. QED
    BY <1>3, <1>4, <2>1, <2>2, <2>3
<1>5. NothingLost'
  BY <1>4, LostMeansNext
<1>6. QED
  BY <1>1, <1>2, <1>3, <1>5, PodKeeps

LEMMA ListTargetsKeeps ==
  ASSUME OutboxInv, NEW q \in Pods, NEW e \in Events, ListTargets(q, e) PROVE OutboxInv'
<1> DEFINE to == IF ListActive(e) = {} THEN NoFan
                 ELSE [stage |-> "listed", event |-> e, targets |-> ListActive(e)]
<1>1. /\ fan[q] = NoFan /\ claimed' = [claimed EXCEPT ![q] = claimed[q] \ {e}]
      /\ fan' = [fan EXCEPT ![q] = to]
      /\ UNCHANGED <<outbox, row, job, work, endpoint, abandoned, faults>>
  BY DEF ListTargets
<1>2. /\ outbox \in [Events -> {"absent", "appended", "dispatched"}]
      /\ claimed \in [Pods -> SUBSET Events] /\ fan \in [Pods -> Fans]
  BY DEF OutboxInv, Types
<1>3. /\ to \in Fans /\ to.stage # "planned"
      /\ \A p \in ListActive(e) : to # NoFan /\ to.event = e /\ p \in to.targets
  <2>1. ListActive(e) \in SUBSET Endpoints
    BY DEF ListActive
  <2>2. CASE ListActive(e) = {}
    BY <2>2 DEF Fans, NoFan
  <2>3. CASE ListActive(e) # {}
    <3>1. to = [stage |-> "listed", event |-> e, targets |-> ListActive(e)]
      BY <2>3
    <3>2. QED
      BY <2>1, <3>1 DEF Fans, NoFan
  <2>4. QED
    BY <2>2, <2>3
<1> HIDE DEF to
<1>4. /\ claimed' \in [Pods -> SUBSET Events] /\ fan' \in [Pods -> Fans] /\ fan'[q] = to
      /\ \A r \in Pods : r # q => fan'[r] = fan[r] /\ claimed'[r] = claimed[r]
      /\ claimed'[q] = claimed[q] \ {e}
  BY <1>1, <1>2, <1>3
<1>5. ASSUME NEW p \in Endpoints, NEW f \in Wanted(p), outbox'[f] = "dispatched",
             endpoint'[p].status = "ACTIVE"
      PROVE  Followed(f, p)' \/ \E r \in Pods : Carries(r, f, p)'
  <2>1. CASE f = e
    <3>1. p \in ListActive(e)
      BY <1>1, <1>5, <2>1 DEF ListActive
    <3>2. QED
      BY <1>3, <1>4, <2>1, <3>1 DEF Carries
  <2>2. CASE f # e
    <3>1. Followed(f, p) \/ \E r \in Pods : Carries(r, f, p)
      BY <1>1, <1>5, LostMeans DEF OutboxInv
    <3>2. CASE Followed(f, p)
      BY <1>1, <3>2 DEF Followed
    <3>3. ASSUME NEW r \in Pods, Carries(r, f, p) PROVE Carries(r, f, p)'
      BY <1>1, <1>4, <2>2, <3>3 DEF Carries
    <3>4. QED
      BY <3>1, <3>2, <3>3
  <2>3. QED
    BY <2>1, <2>2
<1>6. NothingLost'
  BY <1>5, LostMeansNext
<1>7. \A r \in Pods : fan'[r] # NoFan /\ fan'[r].stage = "planned" => fan'[r] = fan[r]
  BY <1>3, <1>4
<1>8. QED
  BY <1>1, <1>2, <1>4, <1>6, <1>7, PodKeeps

\* A fan-out that ends, in whatever way: each of its targets has its first row, or is
\* known to be abandoned.
LEMMA FanEnds ==
  ASSUME OutboxInv, NEW q \in Pods, NEW left \in SUBSET Events,
         claimed' = [claimed EXCEPT ![q] = left], fan' = [fan EXCEPT ![q] = NoFan],
         \A e \in claimed[q] \ left, p \in Endpoints : <<e, p>> \in abandoned',
         fan[q] # NoFan => \/ fan[q].stage = "planned"
                           \/ \A p \in fan[q].targets : <<fan[q].event, p>> \in abandoned',
         abandoned \subseteq abandoned', UNCHANGED <<outbox, row, work, endpoint>>
  PROVE  OutboxInv'
<1>1. /\ outbox \in [Events -> {"absent", "appended", "dispatched"}]
      /\ claimed \in [Pods -> SUBSET Events] /\ fan \in [Pods -> Fans] /\ NoFan \in Fans
  BY DEF OutboxInv, Types, Fans
<1>2. /\ claimed' \in [Pods -> SUBSET Events] /\ fan' \in [Pods -> Fans] /\ fan'[q] = NoFan
      /\ \A r \in Pods : r # q => fan'[r] = fan[r] /\ claimed'[r] = claimed[r]
      /\ claimed'[q] = left
  BY <1>1
<1>3. ASSUME NEW p \in Endpoints, NEW e \in Wanted(p), outbox'[e] = "dispatched",
             endpoint'[p].status = "ACTIVE"
      PROVE  Followed(e, p)' \/ \E r \in Pods : Carries(r, e, p)'
  <2>1. Followed(e, p) \/ \E r \in Pods : Carries(r, e, p)
    BY <1>3, LostMeans DEF OutboxInv
  <2>2. ASSUME Followed(e, p) PROVE Followed(e, p)'
    BY <2>2 DEF Followed
  <2>3. ASSUME NEW r \in Pods, r # q, Carries(r, e, p) PROVE Carries(r, e, p)'
    BY <1>2, <2>3 DEF Carries
  <2>4. CASE e \in claimed[q]
    BY <1>2, <2>4 DEF Carries, Followed
  <2>5. CASE fan[q] # NoFan /\ fan[q].event = e /\ p \in fan[q].targets
    <3>1. CASE fan[q].stage = "planned"
      <4>1. row[<<e, p, 1>>] # "NONE" /\ e \in Events
        BY <2>5, <3>1 DEF OutboxInv, FansKnow, Wanted
      <4>2. QED
        BY <2>2, <4>1 DEF OutboxInv, PlannedIsFollowed
    <3>2. CASE fan[q].stage # "planned"
      BY <2>5, <3>2 DEF Followed
    <3>3. QED
      BY <3>1, <3>2
  <2>6. QED
    BY <2>1, <2>2, <2>3, <2>4, <2>5 DEF Carries
<1>4. NothingLost'
  BY <1>3, LostMeansNext
<1>5. \A r \in Pods : fan'[r] # NoFan /\ fan'[r].stage = "planned" => fan'[r] = fan[r]
  BY <1>2
<1>6. QED
  BY <1>1, <1>2, <1>4, <1>5, PodKeeps

LEMMA EnqueueFirstAttemptsKeeps ==
  ASSUME OutboxInv, NEW q \in Pods, EnqueueFirstAttempts(q) PROVE OutboxInv'
<1>1. claimed' = [claimed EXCEPT ![q] = claimed[q]] /\ claimed[q] \in SUBSET Events
  BY DEF EnqueueFirstAttempts, OutboxInv, Types
<1>2. QED
  BY <1>1, FanEnds DEF EnqueueFirstAttempts

LEMMA PodFailsKeeps == ASSUME OutboxInv, NEW q \in Pods, PodFails(q) PROVE OutboxInv'
<1>1. fan[q] \in Fans
  BY DEF OutboxInv, Types
<1>2. ASSUME fan[q] # NoFan, fan[q].stage # "planned"
      PROVE  \A p \in fan[q].targets : <<fan[q].event, p>> \in abandoned'
  <2>1. fan[q].stage = "listed"
    BY <1>1, <1>2 DEF Fans
  <2>2. QED
    BY <2>1 DEF PodFails
<1>3. \A e \in claimed[q], p \in Endpoints : <<e, p>> \in abandoned'
  BY DEF PodFails
<1>4. /\ claimed' = [claimed EXCEPT ![q] = {}] /\ fan' = [fan EXCEPT ![q] = NoFan]
      /\ abandoned \subseteq abandoned' /\ UNCHANGED <<outbox, row, work, endpoint>>
      /\ {} \in SUBSET Events /\ claimed[q] \ {} = claimed[q]
  BY DEF PodFails
<1>5. QED
  BY <1>2, <1>3, <1>4, FanEnds

LEMMA ScheduleFirstAttemptsKeeps ==
  ASSUME OutboxInv, NEW q \in Pods, ScheduleFirstAttempts(q) PROVE OutboxInv'
<1> DEFINE first == FirstAttempts(fan[q])
           next == [fan[q] EXCEPT !.stage = "planned"]
<1>1. /\ fan[q].stage = "listed" /\ row' = Scheduled(first) /\ fan' = [fan EXCEPT ![q] = next]
      /\ UNCHANGED <<outbox, claimed, job, work, endpoint, abandoned, faults>>
  BY DEF ScheduleFirstAttempts
<1>2. /\ fan \in [Pods -> Fans] /\ row \in [Deliveries -> RowStatus] /\ fan[q] # NoFan
      /\ fan[q] \in [stage : {"listed", "planned"}, event : Events, targets : SUBSET Endpoints]
  BY <1>1 DEF OutboxInv, Types, Fans, NoFan
<1>3. /\ next \in Fans /\ next # NoFan /\ next.event = fan[q].event /\ next.targets = fan[q].targets
  BY <1>2 DEF Fans, NoFan
<1>4. /\ \A p \in fan[q].targets : <<fan[q].event, p, 1>> \in first
      /\ \A d \in first : d \in Deliveries /\ d[3] = 1
  BY <1>2, Triples DEF FirstAttempts
<1>5. /\ row' \in [Deliveries -> RowStatus]
      /\ \A d \in Deliveries : d \in first /\ row[d] = "NONE" => row'[d] = "PENDING"
      /\ \A d \in Deliveries : d \notin first \/ row[d] # "NONE" => row'[d] = row[d]
  BY <1>1, <1>2 DEF Scheduled, RowStatus
<1> HIDE DEF first, next
<1>6. Types'
  BY <1>1, <1>2, <1>3, <1>5 DEF OutboxInv, Types
<1>7. Chain'
  <2> SUFFICES ASSUME NEW e \in Events, NEW p \in Endpoints, NEW n \in Attempts, NEW m \in Attempts,
                      row'[<<e, p, n>>] # "NONE", m < n
               PROVE  row'[<<e, p, m>>] = "FAILED"
    BY DEF Chain
  <2>1. <<e, p, n>> \in Deliveries /\ <<e, p, m>> \in Deliveries /\ n # 1
    BY Triples DEF Attempts
  <2>2. row[<<e, p, n>>] # "NONE"
    BY <1>4, <1>5, <2>1
  <2>3. QED
    BY <1>5, <2>1, <2>2 DEF OutboxInv, Chain
<1>8. WorkersKnow'
  <2> SUFFICES ASSUME NEW d \in Deliveries
               PROVE  /\ work'[d] \in Holding => row'[d] \in {"PENDING", "EXHAUSTED"}
                      /\ work'[d] = "reschedule" => row'[d] = "FAILED" /\ d[3] < MaxAttempts
                      /\ work'[d] = "reschedule" => row'[NextAttempt(d)] = "NONE"
    BY DEF WorkersKnow, Holding, NextAttempt
  <2>1. /\ work'[d] \in Holding => row'[d] \in {"PENDING", "EXHAUSTED"}
        /\ work'[d] = "reschedule" => row'[d] = "FAILED" /\ d[3] < MaxAttempts
    BY <1>1, <1>5 DEF OutboxInv, WorkersKnow, Holding
  <2>2. ASSUME work'[d] = "reschedule" PROVE row'[NextAttempt(d)] = "NONE"
    <3>1. NextAttempt(d) \in Deliveries /\ NextAttempt(d)[3] = d[3] + 1 /\ d[3] \in Attempts
      BY <2>1, <2>2, Triples DEF NextAttempt
    <3>2. NextAttempt(d) \notin first
      BY <1>4, <3>1 DEF Attempts
    <3>3. QED
      BY <1>1, <1>5, <2>2, <3>1, <3>2 DEF OutboxInv, WorkersKnow
  <2>3. QED
    BY <2>1, <2>2
<1>9. ASSUME NEW e \in Events, NEW p \in Endpoints, Followed(e, p) PROVE Followed(e, p)'
  BY <1>1, <1>5, <1>9, Triples DEF Followed
<1>10. PlannedIsFollowed'
  <2> SUFFICES ASSUME NEW e \in Events, NEW p \in Endpoints, row'[<<e, p, 1>>] # "NONE"
               PROVE  Followed(e, p)'
    BY DEF PlannedIsFollowed
  <2>1. CASE row[<<e, p, 1>>] # "NONE"
    BY <1>9, <2>1 DEF OutboxInv, PlannedIsFollowed
  <2>2. CASE row[<<e, p, 1>>] = "NONE"
    BY <1>5, <2>2, Triples DEF Followed
  <2>3. QED
    BY <2>1, <2>2
<1>11. FansKnow'
  <2> SUFFICES ASSUME NEW r \in Pods, fan'[r] # NoFan, fan'[r].stage = "planned",
                      NEW p \in fan'[r].targets
               PROVE  row'[<<fan'[r].event, p, 1>>] # "NONE"
    BY DEF FansKnow
  <2>1. fan'[r].event \in Events /\ p \in Endpoints
    BY <1>6 DEF Types, Fans
  <2>2. CASE r = q
    BY <1>1, <1>2, <1>3, <1>4, <1>5, <2>2
  <2>3. CASE r # q
    <3>1. fan'[r] = fan[r]
      BY <1>1, <1>2, <2>3
    <3>2. row[<<fan'[r].event, p, 1>>] # "NONE" /\ <<fan'[r].event, p, 1>> \in Deliveries
      BY <2>1, <3>1, Triples DEF OutboxInv, FansKnow
    <3>3. QED
      BY <1>5, <3>2
  <2>4. QED
    BY <2>2, <2>3
<1>12. NothingLost'
  <2> SUFFICES ASSUME NEW p \in Endpoints, NEW e \in Wanted(p), outbox'[e] = "dispatched",
                      endpoint'[p].status = "ACTIVE"
               PROVE  Followed(e, p)' \/ \E r \in Pods : Carries(r, e, p)'
    BY LostMeansNext
  <2>1. Followed(e, p) \/ \E r \in Pods : Carries(r, e, p)
    BY <1>1, LostMeans DEF OutboxInv
  <2>2. ASSUME NEW r \in Pods, Carries(r, e, p) PROVE Carries(r, e, p)'
    <3>1. CASE r = q
      BY <1>1, <1>2, <1>3, <2>2, <3>1 DEF Carries
    <3>2. CASE r # q
      BY <1>1, <1>2, <2>2, <3>2 DEF Carries
    <3>3. QED
      BY <3>1, <3>2
  <2>3. QED
    BY <1>9, <2>1, <2>2 DEF Wanted
<1>13. QED
  BY <1>6, <1>7, <1>8, <1>10, <1>11, <1>12 DEF OutboxInv

-----------------------------------------------------------------------------
(* The theorems. *)

LEMMA OutboxStep == OutboxInv /\ OneRunner /\ [Next]_vars => OutboxInv'
<1> SUFFICES ASSUME OutboxInv, OneRunner, [Next]_vars PROVE OutboxInv'
  OBVIOUS
<1>1. ASSUME NEW d \in Deliveries, WorkerStep(d) PROVE OutboxInv'
  BY <1>1, WorkerStepsKeep, ScheduleRetryKeeps
<1>2. ASSUME NEW d \in Deliveries, Forget(d) PROVE OutboxInv'
  BY <1>2, QueueKeeps DEF Forget, OutboxInv, Types
<1>3. ASSUME NEW e \in Events, AppendEvent(e) PROVE OutboxInv'
  <2>1. /\ outbox' \in [Events -> {"absent", "appended", "dispatched"}]
        /\ \A f \in Events : outbox'[f] = "dispatched" => outbox[f] = "dispatched"
    BY <1>3 DEF AppendEvent, OutboxInv, Types
  <2>2. QED
    BY <1>3, <2>1, QueueKeeps DEF AppendEvent
<1>4. CASE SweepDeliveries
  BY <1>4, QueueKeeps DEF SweepDeliveries, OutboxInv, Types
<1>5. CASE UNCHANGED vars
  BY <1>5, QueueKeeps DEF vars, OutboxInv, Types
<1>6. ASSUME NEW q \in Pods, FanOutStep(q) PROVE OutboxInv'
  BY <1>6, ClaimBatchKeeps, ListTargetsKeeps, ScheduleFirstAttemptsKeeps, EnqueueFirstAttemptsKeeps
     DEF FanOutStep
<1>7. QED
  BY <1>1, <1>2, <1>3, <1>4, <1>5, <1>6, PodFailsKeeps, WorkerFailsKeeps DEF Next

\* The inductive invariant of the outbox.
THEOREM OutboxInvariant == Spec => [](OutboxInv /\ OneRunner)
<1>1. Init => OutboxInv /\ OneRunner
  BY OutboxInitially DEF Init, OneRunner, WorkStages
<1>2. QED
  BY <1>1, OutboxStep, OneRunnerStep, PTL DEF Spec

\* A dispatched event that an active endpoint wants is planned there, given its last
\* word or in the hands of a living process, unless a process died between the two
\* writes that hand it over (claimAndFanOut, fanOut, applyOutcome), for any number of
\* pods, workers, attempts and deaths.
THEOREM NoEventIsLost == Spec => []NothingLost
  BY OutboxInvariant, PTL DEF OutboxInv

\* Once an attempt succeeded at an endpoint the event is not posted there again: the
\* row of a job that is about to post is due or exhausted, and the rows of all the
\* other attempts have failed or do not exist (OutboxHandler.handle, applyOutcome).
THEOREM SuccessIsLast == Spec => SucceededIsLast
<1>1. ASSUME OutboxInv, NEW d \in Deliveries, Posted(d), NEW n \in Attempts
      PROVE  row[<<d[1], d[2], n>>] # "SUCCEEDED"
  <2>1. /\ d = <<d[1], d[2], d[3]>> /\ d[1] \in Events /\ d[2] \in Endpoints /\ d[3] \in Attempts
    BY Triples
  <2>2. row[<<d[1], d[2], d[3]>>] \in {"PENDING", "EXHAUSTED"}
    BY <1>1, <2>1 DEF Posted, OutboxInv, WorkersKnow
  <2>3. CASE n < d[3]
    BY <1>1, <2>1, <2>2, <2>3 DEF OutboxInv, Chain
  <2>4. CASE d[3] < n
    BY <1>1, <2>1, <2>2, <2>4 DEF OutboxInv, Chain
  <2>5. QED
    BY <2>1, <2>2, <2>3, <2>4 DEF Attempts
<1>2. OutboxInv => \A d \in Deliveries : Posted(d) =>
                     \A n \in Attempts : row[<<d[1], d[2], n>>] # "SUCCEEDED"
  BY <1>1
<1>3. QED
  BY <1>2, OutboxInvariant, PTL DEF SucceededIsLast
=============================================================================
