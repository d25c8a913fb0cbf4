------------------------------- MODULE Circuit -------------------------------
(***************************************************************************)
(* InMemoryCircuitBreaker of packages/adapter-kit: the bucket of one        *)
(* breaker key and what each method makes of it.                           *)
(*                                                                         *)
(* Time is in units: a bucket holds how long ago its window began and how   *)
(* long ago it opened, each counted no further than the age at which the   *)
(* code stops telling the difference.                                      *)
(***************************************************************************)
EXTENDS Naturals

CONSTANTS MinimumRequests, WindowMs, OpenMs, HalfOpenProbes    \* BreakerPolicy

ASSUME PolicyAssumption ==
    /\ MinimumRequests \in Nat \ {0}
    /\ WindowMs \in Nat
    /\ OpenMs \in Nat
    /\ HalfOpenProbes \in Nat \ {0}

\* BreakerBucket; `opened` is openedAt # undefined.
Bucket == [successes : Nat, failures : Nat, probesInFlight : Nat,
           windowAge : 0..(WindowMs + 1), opened : BOOLEAN, openAge : 0..OpenMs]

NewBucket == [successes |-> 0, failures |-> 0, probesInFlight |-> 0,
              windowAge |-> 0, opened |-> FALSE, openAge |-> 0]

Aged(b) ==
    [b EXCEPT !.windowAge = IF @ > WindowMs THEN @ ELSE @ + 1,
              !.openAge = IF b.opened /\ @ < OpenMs THEN @ + 1 ELSE @]

\* Mutant: the new window inherits the probes of the old one.
FreshKeepsProbes(b) ==
    IF b.windowAge > WindowMs
    THEN [b EXCEPT !.successes = 0, !.failures = 0, !.windowAge = 0]
    ELSE b

\* bucket(): a window that ended is replaced, and only openedAt survives it.
Fresh(b) ==
    IF b.windowAge > WindowMs
    THEN [b EXCEPT !.successes = 0, !.failures = 0, !.probesInFlight = 0, !.windowAge = 0]
    ELSE b

CircuitState(b) ==
    IF ~b.opened THEN "CLOSED" ELSE IF b.openAge >= OpenMs THEN "HALF_OPEN" ELSE "OPEN"

\* assertClosed returns instead of throwing PROVIDER_CIRCUIT_OPEN.
Admits(b) ==
    \/ CircuitState(b) = "CLOSED"
    \/ CircuitState(b) = "HALF_OPEN" /\ Fresh(b).probesInFlight < HalfOpenProbes

\* What assertClosed leaves behind when it returns.
Admitted(b) ==
    IF CircuitState(b) = "CLOSED" THEN Fresh(b)
    ELSE [Fresh(b) EXCEPT !.probesInFlight = @ + 1]

Released(n) == IF n = 0 THEN 0 ELSE n - 1

RecordSuccess(b) ==
    LET f == [Fresh(b) EXCEPT !.successes = @ + 1, !.probesInFlight = Released(@)]
    IN  IF CircuitState(b) = "HALF_OPEN"
        THEN [f EXCEPT !.opened = FALSE, !.openAge = 0,
                       !.failures = 0, !.successes = 0, !.windowAge = 0]
        ELSE f

\* policy.failureRatio is one half.
Failing(b) ==
    LET total == b.successes + b.failures
    IN  total >= MinimumRequests /\ 2 * b.failures >= total

RecordFailure(b) ==
    LET f == [Fresh(b) EXCEPT !.failures = @ + 1, !.probesInFlight = Released(@)]
    IN  IF Failing(f) THEN [f EXCEPT !.opened = TRUE, !.openAge = 0] ELSE f
=============================================================================
