-------------------------------- MODULE Ladder --------------------------------
(***************************************************************************)
(* UnknownOutcomeLadderService: one operation whose outcome is unknown,    *)
(* the jobs that ask the provider about it, one per step of the ladder,    *)
(* and the sweeper that enqueues again what was left behind.               *)
(*                                                                         *)
(* A job's identity is the operation and the step, and BullMQ ignores an   *)
(* enqueue whose identity exists, whatever state that job is in: completed *)
(* jobs are kept for an hour, failed ones for seven days. The handler is   *)
(* split where it awaits: the check of the operation and its attempt       *)
(* counter, the lookup, and the two writes of exhaust(). A job whose       *)
(* worker died is given back to the queue once; the worker sets no         *)
(* maxStalledCount, so the second time BullMQ fails it.                    *)
(***************************************************************************)
EXTENDS Integers, FiniteSets, Functions

CONSTANTS
  Last,        \* the last step of the ladder
  Delays,      \* UNKNOWN_OUTCOME_LADDER_SECONDS, in units of the sweeper's period
  MaxClock,    \* where the clock stops counting (PatientLadder wants it past the whole ladder)
  MaxAttempts  \* where attempts stops counting: past the last step

Steps == 0..Last

ASSUME DelaysAssumption == Last \in Nat /\ Delays \in [0..Last -> Nat]
ASSUME LadderBoundAssumption == MaxClock \in Nat /\ MaxAttempts \in Nat /\ MaxAttempts > Last

VARIABLES
  clock,
  status,      \* of the provider_operation row
  attempts,    \* its attempt counter
  jobs,        \* state of the job of each step in the queue
  wait,        \* sweeper periods until the job of each step may start
  broken,      \* the reconciliation break for a person is open
  concluded,   \* the payment is final at the provider
  lookup,      \* the adapter finds by idempotency key or lists the statement
  stalled,     \* the steps whose job was given back once
  faulted      \* what has gone wrong that a job does not survive

vars == <<clock, status, attempts, jobs, wait, broken, concluded, lookup, stalled, faulted>>

Stuck == status \in {"UNKNOWN", "SUBMITTED"}
InHand == {"running", "exhausting", "opening"}

TypeOK ==
  /\ clock \in 0..MaxClock
  /\ status \in {"UNKNOWN", "SUBMITTED", "SETTLED", "FAILED"}
  /\ attempts \in 1..MaxAttempts
  /\ jobs \in [Steps -> {"absent", "queued", "done", "failed"} \cup InHand]
  /\ wait \in [Steps -> Nat]
  /\ broken \in BOOLEAN
  /\ concluded \in BOOLEAN
  /\ lookup \in BOOLEAN
  /\ stalled \subseteq Steps
  /\ faulted \subseteq {"throw", "stalled", "unopened"}

\* onUnknownOutcome has written the operation; its enqueue of step 0 is lost
\* when the queue is down.
Init ==
  /\ clock = 0
  /\ status = "UNKNOWN"
  /\ attempts = 1
  /\ jobs \in {[s \in Steps |-> IF s = 0 THEN j ELSE "absent"] : j \in {"absent", "queued"}}
  /\ wait = [s \in Steps |-> 0]
  /\ broken = FALSE
  /\ concluded \in BOOLEAN
  /\ lookup \in BOOLEAN
  /\ stalled = {}
  /\ faulted = {}

\* queue.enqueue(step, delay), ignored when the queue has a job of that step.
Enqueue(queue, waits, step, delay) ==
  IF queue[step] = "absent"
  THEN /\ jobs' = [queue EXCEPT ![step] = "queued"]
       /\ wait' = [waits EXCEPT ![step] = delay]
  ELSE jobs' = queue /\ wait' = waits

\* step(): resolve() reads the operation and gives up unless it is stuck;
\* otherwise it counts the attempt. Anything it reads first may throw.
Begin(s, throws) ==
  /\ jobs[s] = "queued"
  /\ wait[s] = 0
  /\ jobs' = [jobs EXCEPT ![s] = IF throws THEN "failed"
                                 ELSE IF Stuck THEN "running" ELSE "done"]
  /\ attempts' = IF Stuck /\ ~throws /\ attempts < MaxAttempts
                 THEN attempts + 1 ELSE attempts
  /\ faulted' = IF throws THEN faulted \cup {"throw"} ELSE faulted
  /\ UNCHANGED <<clock, status, wait, broken, concluded, lookup, stalled>>

\* The provider knows the payment: applyOutcome updates the operation, which
\* stays stuck while the payment is not final, and no step is enqueued.
\* SETTLED stands for the two final statuses it may write. Without a lookup
\* the row never gets the reference that byEndToEndId needs.
Found(s) ==
  /\ jobs[s] = "running"
  /\ lookup
  /\ jobs' = [jobs EXCEPT ![s] = "done"]
  /\ status' = IF concluded THEN "SETTLED" ELSE "SUBMITTED"
  /\ UNCHANGED <<clock, attempts, wait, broken, concluded, lookup, stalled, faulted>>

\* It does not: the next step is enqueued with its delay. The next_try_at
\* passed to operations.update is not among the columns it writes.
NotFound(s) ==
  /\ jobs[s] = "running"
  /\ lookup
  /\ s < Last
  /\ Enqueue([jobs EXCEPT ![s] = "done"], wait, s + 1, Delays[s + 1])
  /\ UNCHANGED <<clock, status, attempts, broken, concluded, lookup, stalled, faulted>>

\* It does not, and this was the last step; or there is no way to ask, and no
\* reason to insist (no_lookup_capability).
LadderEnds(s) ==
  /\ jobs[s] = "running"
  /\ s = Last \/ ~lookup
  /\ jobs' = [jobs EXCEPT ![s] = "exhausting"]
  /\ UNCHANGED <<clock, status, attempts, wait, broken, concluded, lookup, stalled, faulted>>

\* exhaust() marks the operation whatever its status is by now, then opens
\* the break.
Exhaust(s) ==
  /\ jobs[s] = "exhausting"
  /\ jobs' = [jobs EXCEPT ![s] = "opening"]
  /\ status' = "FAILED"
  /\ UNCHANGED <<clock, attempts, wait, broken, concluded, lookup, stalled, faulted>>

OpenBreak(s) ==
  /\ jobs[s] = "opening"
  /\ jobs' = [jobs EXCEPT ![s] = "done"]
  /\ broken' = TRUE
  /\ UNCHANGED <<clock, status, attempts, wait, concluded, lookup, stalled, faulted>>

\* The rest of the handler throws: the job has no second attempt.
Fail(s) ==
  /\ jobs[s] \in InHand
  /\ jobs' = [jobs EXCEPT ![s] = "failed"]
  /\ faulted' = faulted \cup {"throw"}
  /\ UNCHANGED <<clock, status, attempts, wait, broken, concluded, lookup, stalled>>

\* The worker dies: BullMQ finds the job stalled and queues it again, the second time
\* it fails it. Between the two writes of exhaust() the operation is no longer stuck,
\* so the job that is queued again does not open the break.
Die(s) ==
  /\ jobs[s] \in InHand
  /\ jobs' = [jobs EXCEPT ![s] = IF s \in stalled THEN "failed" ELSE "queued"]
  /\ stalled' = stalled \cup {s}
  /\ faulted' = faulted \cup (IF s \in stalled THEN {"stalled"} ELSE {})
                       \cup (IF jobs[s] = "opening" THEN {"unopened"} ELSE {})
  /\ UNCHANGED <<clock, status, attempts, wait, broken, concluded, lookup>>

\* A completed job is forgotten after an hour. (A failed one is kept for seven
\* days, longer than anything here lasts.)
Forget(s) ==
  /\ jobs[s] = "done"
  /\ jobs' = [jobs EXCEPT ![s] = "absent"]
  /\ stalled' = stalled \ {s}
  /\ UNCHANGED <<clock, status, attempts, wait, broken, concluded, lookup, faulted>>

\* The provider: a payment it knows becomes final sooner or later.
Conclude ==
  /\ ~concluded
  /\ concluded' = TRUE
  /\ UNCHANGED <<clock, status, attempts, jobs, wait, broken, lookup, stalled, faulted>>

\* Where sweepStuck resumes: the attempts made, within the ladder.
ResumeStep == IF attempts < Last THEN attempts ELSE Last

\* Mutant: findStuck looks for UNKNOWN only.
SweepUnknownOnly ==
  /\ clock' = IF clock < MaxClock THEN clock + 1 ELSE clock
  /\ LET waits == [s \in Steps |-> IF wait[s] > 0 THEN wait[s] - 1 ELSE 0] IN
       IF status = "UNKNOWN"
       THEN Enqueue(jobs, waits, ResumeStep, 0)
       ELSE UNCHANGED jobs /\ wait' = waits
  /\ UNCHANGED <<status, attempts, broken, concluded, lookup, stalled, faulted>>

\* A period of the sweeper passes and sweepStuck runs: next_try_at is always
\* null, so every stuck operation is taken to be due.
Sweep ==
  /\ clock' = IF clock < MaxClock THEN clock + 1 ELSE clock
  /\ LET waits == [s \in Steps |-> IF wait[s] > 0 THEN wait[s] - 1 ELSE 0] IN
       IF Stuck
       THEN Enqueue(jobs, waits, ResumeStep, 0)
       ELSE UNCHANGED jobs /\ wait' = waits
  /\ UNCHANGED <<status, attempts, broken, concluded, lookup, stalled, faulted>>

Handle(s) ==
  \/ \E throws \in BOOLEAN : Begin(s, throws)
  \/ Found(s)
  \/ NotFound(s)
  \/ LadderEnds(s)
  \/ Exhaust(s)
  \/ OpenBreak(s)

Next ==
  \/ Sweep
  \/ Conclude
  \/ \E s \in Steps : Handle(s) \/ Fail(s) \/ Die(s) \/ Forget(s)

\* Timers and workers keep running.
Fairness ==
  /\ WF_vars(Sweep)
  /\ WF_vars(Conclude)
  /\ \A s \in Steps : WF_vars(Handle(s)) /\ WF_vars(Forget(s))

Spec == Init /\ [][Next]_vars /\ Fairness

(***************************************************************************)
(* Properties                                                              *)
(***************************************************************************)

\* sweepers.service.ts: no operation stays stuck for ever with the client's
\* balance held, even when the first enqueue was lost and workers die: each is
\* concluded or handed to a person, unless a job was failed (its handler threw, or
\* its worker died twice) or a worker died just before it opened the break.
EveryOperationEnds == <>(status = "SETTLED" \/ broken \/ faulted # {})

\* The counter is never behind the ladder: every step already asked is below
\* it, so the sweeper resumes above them and never asks the provider from the
\* bottom again, whatever died or threw in between (ladder.service.ts,
\* sweepStuck).
AttemptsCoverSteps ==
  Stuck => \A s \in Steps : jobs[s] \in {"done"} \cup InHand => attempts > s

\* A stuck operation is within reach: a job for it is waiting or being handled,
\* or a sweep can enqueue one, at the latest when the completed job of the step
\* is forgotten (ladder.service.ts, sweepStuck).
InReach ==
  Stuck => \/ \E s \in Steps : jobs[s] \in {"queued"} \cup InHand
           \/ jobs[ResumeStep] \in {"absent", "done"}

\* It stays in reach wherever workers die, as long as no job was failed: a failed
\* job is kept for seven days, and its identity blocks the sweeper's.
WithinReach == faulted \cap {"throw", "stalled"} = {} => InReach

\* ladder.service.ts, exhaust(): a ladder that ends opens a break, because what
\* is left "e trabalho humano": once no job is left, a FAILED operation has one.
ExhaustedIsHandedOver ==
  status = "FAILED" /\ (\A s \in Steps : jobs[s] \in {"absent", "done"}) => broken

\* ADR 0015: FAILED and the human review come only after the whole ladder.
PatientLadder ==
  status = "FAILED" /\ lookup => clock >= FoldFunctionOnSet(+, 0, Delays, 1..Last)
=============================================================================
