------------------------------- MODULE Inbound -------------------------------
(***************************************************************************)
(* Webhooks of the providers, from reception to effect, for one aggregate  *)
(* (transaction, account or onboarding case). The provider walks its own   *)
(* copy of the machine and sends one event per move, stamped with the time *)
(* of the move; events arrive in any order and again until they are        *)
(* acknowledged. The controller stores an event once and queues a job for  *)
(* it. The queue is in the process and knows no identity: the same event   *)
(* may have several jobs, and jobs die with their pod. A job claims the    *)
(* row (compare-and-set), takes the lock of the aggregate, applies the     *)
(* status under SELECT ... FOR UPDATE and marks the row. The sweeper       *)
(* queues again what stays RECEIVED or PROCESSING.                         *)
(*                                                                         *)
(* Our row is written late: the call that creates the aggregate at the        *)
(* provider has just been answered, and writes the row with the provider's *)
(* id only afterwards. An event that is applied before finds no row, is    *)
(* ignored and ends DISCARDED. Left out: events sent before the answer,    *)
(* which say no more than it does, an incoming payment, which its event    *)
(* creates (CreditIn), a row without the provider's id (PixSettle), and    *)
(* events the adapter reads no draft in. The provider's clock and ours     *)
(* agree: only the order of the instants matters.                          *)
(***************************************************************************)
EXTENDS StatusFsm, Sequences, FiniteSets

CONSTANTS
  Kind,            \* which machine: a key of Fsm
  Starts,          \* statuses the provider may start from
  Unnamed,         \* what the adapter reads in an answer it has no name for
  Reported,        \* the statuses this provider reports
  MaxMoves,        \* bound on the number of events
  Jobs,            \* bound on the jobs of one event at a time
  MaxFaults,       \* bound on jobs that die and statements that fail
  RedisAnswers     \* FALSE: the lock may be refused although it is free

ASSUME KindAssumption == Kind \in {"transaction", "account", "onboarding"}
ASSUME MovesAssumption == MaxMoves \in Nat
ASSUME FlagAssumption == RedisAnswers \in BOOLEAN

VARIABLES
  provider,        \* the status at the provider
  reports,         \* statuses reported, in order; the index is the timestamp
  unacked,         \* events the provider has not had a 200 for
  stored,          \* status of the stored event
  attempts,        \* attempts of the stored event
  job,             \* every job: how far it is, and the attempts it read
  lock,            \* <<event, job>> that holds the lock of the aggregate
  rowAt,            \* how many events had been sent when our row was written
  status,          \* status of our row; before, the one the call was answered
  lastEventAt,     \* last_event_at of our row; before, the instant of the draft
  anomalies,       \* audited anomalies: the events refused
  faults

inboundVars == <<provider, reports, unacked, stored, attempts, job, lock, rowAt,
          status, lastEventAt, anomalies, faults>>

Ids == 1..MaxMoves
Machine == Fsm[Kind]
NoLock == <<>>
Unwritten == -1

RowStatus == {"NONE", "RECEIVED", "PROCESSING", "PROCESSED", "DISCARDED",
              "FAILED", "DEAD_LETTER"}
NoJob == [at |-> "none", seen |-> 0]
Stages == {"none", "queued", "read", "claimed", "locked", "applied", "ignored", "lockLost",
           "failed"}

MAX_ATTEMPTS == 2

InboundTypeOK ==
  /\ provider \in DOMAIN Machine.ranks
  /\ reports \in Seq(Reported) /\ Len(reports) <= MaxMoves
  /\ unacked \subseteq DOMAIN reports
  /\ stored \in [Ids -> RowStatus]
  /\ attempts \in [Ids -> Nat]
  /\ job \in [Ids \X Jobs -> [at : Stages, seen : Nat]]
  /\ lock \in {NoLock} \cup (Ids \X Jobs)
  /\ rowAt \in {Unwritten} \cup 0..Len(reports)
  /\ status \in DOMAIN Machine.ranks
  /\ lastEventAt \in {NoEvent} \cup 0..(Len(reports) + 1)
  /\ anomalies \subseteq DOMAIN reports
  /\ faults \in 0..MaxFaults

InboundInit ==
  /\ provider \in Starts
  /\ reports = <<>>
  /\ unacked = {}
  /\ stored = [i \in Ids |-> "NONE"]
  /\ attempts = [i \in Ids |-> 0]
  /\ job = [k \in Ids \X Jobs |-> NoJob]
  /\ lock = NoLock
  /\ rowAt = Unwritten
  /\ status \in {provider} \cup Unnamed
  /\ lastEventAt = NoEvent
  /\ anomalies = {}
  /\ faults = 0

(***************************************************************************)
(* Reception                                                               *)
(***************************************************************************)

\* The provider changes the status and sends the event.
Report(s) ==
  /\ Len(reports) < MaxMoves
  /\ s \in Machine.transitions[provider] \ {provider}
  /\ provider' = s
  /\ reports' = Append(reports, s)
  /\ unacked' = unacked \cup {Len(reports) + 1}
  /\ UNCHANGED <<stored, attempts, job, lock, rowAt, status, lastEventAt, anomalies, faults>>

\* enqueue: one more job for event i, if the bound on jobs leaves one free;
\* which one is all the same.
FreeJobs(i) == {j \in Jobs : job[<<i, j>>] = NoJob}
Queued(i) ==
  {[job EXCEPT ![<<i, j>>].at = "queued"] :
     j \in {f \in FreeJobs(i) : f = CHOOSE g \in FreeJobs(i) : TRUE}}

\* The controller stores the event; enqueued is FALSE when the pod dies
\* before the job exists, and then nobody answers the provider.
Receive(i, enqueued) ==
  /\ i \in unacked
  /\ stored[i] = "NONE"
  /\ stored' = [stored EXCEPT ![i] = "RECEIVED"]
  /\ IF enqueued
     THEN unacked' = unacked \ {i} /\ job' \in Queued(i) /\ UNCHANGED faults
     ELSE /\ faults < MaxFaults
          /\ faults' = faults + 1
          /\ UNCHANGED <<unacked, job>>
  /\ UNCHANGED <<provider, reports, attempts, lock, rowAt, status, lastEventAt, anomalies>>

\* A second delivery finds the row (unique connection and dedupe key): it is
\* acknowledged and nothing is queued.
ReceiveDuplicate(i) ==
  /\ i \in unacked
  /\ stored[i] # "NONE"
  /\ unacked' = unacked \ {i}
  /\ UNCHANGED <<provider, reports, stored, attempts, job, lock, rowAt, status, lastEventAt,
                 anomalies, faults>>

(***************************************************************************)
(* The call that creates the aggregate                                     *)
(***************************************************************************)

\* draft() of a transaction stamps the row with our clock: after the last event
\* sent so far, or in the same instant. Accounts and cases have no stamp.
DraftRow(now) ==
  /\ Kind = "transaction"
  /\ rowAt = Unwritten
  /\ lastEventAt = NoEvent
  /\ now \in {Len(reports), Len(reports) + 1}
  /\ lastEventAt' = now
  /\ UNCHANGED <<provider, reports, unacked, stored, attempts, job, lock, rowAt, status,
                 anomalies, faults>>

\* The row is written with the provider's id: from here on events find it.
CreateRow ==
  /\ rowAt = Unwritten
  /\ Kind = "transaction" => lastEventAt # NoEvent
  /\ rowAt' = Len(reports)
  /\ UNCHANGED <<provider, reports, unacked, stored, attempts, job, lock, status, lastEventAt,
                 anomalies, faults>>

(***************************************************************************)
(* apply                                                                   *)
(***************************************************************************)

Move(k, stage) == job' = [job EXCEPT ![k].at = stage]
End(k) == job' = [job EXCEPT ![k] = NoJob]

\* findById: what the job will take for the number of earlier attempts.
Read(k) ==
  /\ job[k].at = "queued"
  /\ job' = [job EXCEPT ![k] = [at |-> "read", seen |-> attempts[k[1]]]]
  /\ UNCHANGED <<provider, reports, unacked, stored, attempts, lock, rowAt, status,
                 lastEventAt, anomalies, faults>>

\* The statuses markProcessing starts from.
Claimable(s) == s \in {"RECEIVED", "FAILED"}

\* markProcessing: compare-and-set, or the job ends.
MarkProcessing(k) ==
  /\ job[k].at = "read"
  /\ IF Claimable(stored[k[1]])
     THEN /\ stored' = [stored EXCEPT ![k[1]] = "PROCESSING"]
          /\ attempts' = [attempts EXCEPT ![k[1]] = @ + 1]
          /\ Move(k, "claimed")
     ELSE End(k) /\ UNCHANGED <<stored, attempts>>
  /\ UNCHANGED <<provider, reports, unacked, lock, rowAt, status, lastEventAt, anomalies, faults>>

\* SET NX of the lock. It is refused when another holds it, and when Redis
\* does not answer.
TakeLock(k) ==
  /\ job[k].at = "claimed"
  /\ \/ lock = NoLock /\ lock' = k /\ Move(k, "locked")
     \/ (lock # NoLock \/ ~RedisAnswers) /\ Move(k, "lockLost") /\ UNCHANGED lock
  /\ UNCHANGED <<provider, reports, unacked, stored, attempts, rowAt, status, lastEventAt,
                 anomalies, faults>>

\* The lock was not obtained: a new job, and the row stays PROCESSING.
Requeue(k) ==
  /\ job[k].at = "lockLost"
  /\ job' = [job EXCEPT ![k] = [at |-> "queued", seen |-> 0]]
  /\ UNCHANGED <<provider, reports, unacked, stored, attempts, lock, rowAt, status,
                 lastEventAt, anomalies, faults>>

\* What applyStatusChange answers for event i.
Decision(i) ==
  IF ~decideMonotonic(Machine.ranks, status, reports[i], i, lastEventAt)
  THEN "stale"
  ELSE IF checkTransition(Machine.transitions, status, reports[i])
       THEN "applied"
       ELSE "illegal_transition"

\* The script deletes the lock only if it is still this job's.
Released(k) == IF lock = k THEN NoLock ELSE lock

\* applyDraft under the lock. No row is found: ignored. Or the status and its
\* outbox event in one transaction; a refused event is marked at once
\* (onDuplicate, or an audited anomaly and onAnomaly) and ends the job. Then
\* the lock is given back.
ApplyDraft(k) ==
  LET i == k[1] IN
  /\ job[k].at = "locked"
  /\ CASE rowAt = Unwritten ->
            /\ Move(k, "ignored")
            /\ UNCHANGED <<stored, status, lastEventAt, anomalies>>
       [] rowAt # Unwritten /\ Decision(i) = "applied" ->
            /\ status' = reports[i] /\ lastEventAt' = i
            /\ Move(k, "applied")
            /\ UNCHANGED <<stored, anomalies>>
       [] rowAt # Unwritten /\ Decision(i) = "stale" ->
            /\ stored' = [stored EXCEPT ![i] = "DISCARDED"]
            /\ End(k)
            /\ UNCHANGED <<status, lastEventAt, anomalies>>
       [] OTHER ->
            /\ stored' = [stored EXCEPT ![i] = "PROCESSED"]
            /\ anomalies' = anomalies \cup {i}
            /\ End(k)
            /\ UNCHANGED <<status, lastEventAt>>
  /\ lock' = Released(k)
  /\ UNCHANGED <<provider, reports, unacked, attempts, rowAt, faults>>

\* Nothing was applied and nobody recorded why: the event is discarded for
\* good, though the row it looked for may exist by now.
MarkDiscarded(k) ==
  /\ job[k].at = "ignored"
  /\ stored' = [stored EXCEPT ![k[1]] = "DISCARDED"]
  /\ End(k)
  /\ UNCHANGED <<provider, reports, unacked, attempts, lock, rowAt, status, lastEventAt,
                 anomalies, faults>>

\* The outcome was "applied".
MarkProcessed(k) ==
  /\ job[k].at = "applied"
  /\ stored' = [stored EXCEPT ![k[1]] = "PROCESSED"]
  /\ End(k)
  /\ UNCHANGED <<provider, reports, unacked, attempts, lock, rowAt, status, lastEventAt,
                 anomalies, faults>>

\* A statement of the handler fails: the transaction is rolled back and the
\* error is caught.
Throw(k) ==
  /\ faults < MaxFaults
  /\ job[k].at \in {"claimed", "locked", "applied", "ignored"}
  /\ faults' = faults + 1
  /\ Move(k, "failed")
  /\ lock' = Released(k)
  /\ UNCHANGED <<provider, reports, unacked, stored, attempts, rowAt, status, lastEventAt,
                 anomalies>>

\* markFailed; the error goes on to the queue, which does not try again.
MarkFailed(k) ==
  /\ job[k].at = "failed"
  /\ stored' = [stored EXCEPT ![k[1]] = IF job[k].seen + 1 >= MAX_ATTEMPTS
                                        THEN "DEAD_LETTER" ELSE "FAILED"]
  /\ End(k)
  /\ UNCHANGED <<provider, reports, unacked, attempts, lock, rowAt, status, lastEventAt,
                 anomalies, faults>>

(***************************************************************************)
(* Sweeper and faults                                                      *)
(***************************************************************************)

\* Mutant: the sweeper looks for rows that were begun, not for new ones.
IsStaleBegun(s) == s = "PROCESSING"

\* findStale: the statuses the sweeper looks for. The window of 60 s is left
\* out: any such row may be stale.
IsStale(s) == s \in {"RECEIVED", "PROCESSING"}

Sweep(i) ==
  /\ IsStale(stored[i])
  /\ job' \in Queued(i)
  /\ UNCHANGED <<provider, reports, unacked, stored, attempts, lock, rowAt, status,
                 lastEventAt, anomalies, faults>>

\* The pod of a job dies, or is restarted with its queue in memory.
JobDies(k) ==
  /\ faults < MaxFaults
  /\ job[k].at # "none"
  /\ faults' = faults + 1
  /\ End(k)
  /\ UNCHANGED <<provider, reports, unacked, stored, attempts, lock, rowAt, status,
                 lastEventAt, anomalies>>

\* The lock of a dead job runs out (TTL); a living one renews it.
ExpireLock ==
  /\ lock # NoLock
  /\ job[lock].at # "locked"
  /\ lock' = NoLock
  /\ UNCHANGED <<provider, reports, unacked, stored, attempts, job, rowAt, status,
                 lastEventAt, anomalies, faults>>

JobStep(k) ==
  \/ Read(k)
  \/ MarkProcessing(k)
  \/ TakeLock(k)
  \/ Requeue(k)
  \/ ApplyDraft(k)
  \/ MarkProcessed(k)
  \/ MarkDiscarded(k)
  \/ MarkFailed(k)

InboundNext ==
  \/ \E s \in Reported : Report(s)
  \/ \E now \in 0..(MaxMoves + 1) : DraftRow(now)
  \/ CreateRow
  \/ \E i \in Ids : \/ \E enqueued \in BOOLEAN : Receive(i, enqueued)
                    \/ ReceiveDuplicate(i)
                    \/ Sweep(i)
  \/ \E k \in Ids \X Jobs : JobStep(k) \/ Throw(k) \/ JobDies(k)
  \/ ExpireLock

InboundSpec == InboundInit /\ [][InboundNext]_inboundVars

\* A queued job runs to its end, the sweeper runs every 15 s, a lock expires.
FairInboundSpec ==
  /\ InboundSpec
  /\ \A k \in Ids \X Jobs : WF_inboundVars(JobStep(k))
  /\ \A i \in Ids : WF_inboundVars(Sweep(i))
  /\ WF_inboundVars(ExpireLock)

(***************************************************************************)
(* Properties                                                              *)
(***************************************************************************)

\* Once the newest event is concluded, in whatever order events came, by however
\* many jobs and with whatever died in between, our row says what the provider
\* says (fsm/apply.ts, markProcessed). It was sent after our row was written: one
\* sent before may find no row and be ignored, or be older than the row's stamp,
\* and what it said is then lost until the provider moves again.
Converges ==
  /\ rowAt # Unwritten /\ Len(reports) > rowAt
  /\ stored[Len(reports)] \in {"PROCESSED", "DISCARDED"}
  => status = provider

\* A provider that follows the machine is never reported as contradicting it:
\* an anomaly alerts a person, so reordering and repetition raise none.
NoFalseAnomaly == anomalies = {}

\* Two jobs never work on one event at a time: the second effect would be
\* applied from what the first one left (markProcessing).
OneWorkerPerEvent ==
  \A i \in Ids : Cardinality({j \in Jobs :
    job[<<i, j>>].at \in {"claimed", "locked", "applied", "ignored", "lockLost", "failed"}}) <= 1

\* Losing the queue costs latency and never data: an event that was stored is
\* taken, also when its pod died before it queued the job (WebhookSweeper).
ReceivedIsTaken ==
  \A i \in Ids : stored[i] = "RECEIVED" ~> stored[i] # "RECEIVED"

\* The sweeper rescues an event whose job lost the lock: every stored event
\* is processed, discarded or handed to a person.
EveryEventConcluded ==
  \A i \in Ids : stored[i] = "RECEIVED" ~>
    stored[i] \in {"PROCESSED", "DISCARDED", "FAILED", "DEAD_LETTER"}
=============================================================================
