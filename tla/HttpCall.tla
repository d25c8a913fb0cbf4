------------------------------ MODULE HttpCall ------------------------------
(***************************************************************************)
(* HttpClient.request of packages/adapter-kit: one call to a provider, with *)
(* its retries.  The question is what the caller may conclude from the     *)
(* answer: "ok", "unknown" (ProviderOutcomeUnknownError) or "error" (any   *)
(* other BaasError).                                                       *)
(*                                                                         *)
(* An attempt ends in an Outcome, a class of the answers that the client   *)
(* tells apart.  What the provider did before answering is external: it is *)
(* MayHaveExecuted, read from the comments on isProvablyPreCommit.         *)
(* ProviderCall makes the calls, one after the other.                      *)
(***************************************************************************)
EXTENDS Naturals

CONSTANT MaxAttempts    \* RetryPolicy.maxAttempts

ASSUME MaxAttemptsAssumption == MaxAttempts \in Nat \ {0}

VARIABLES
    idempotent,    \* init.idempotent, or inferred from the method
    attempt,       \* the loop counter, which the retry after a 401 sets back
    attempts,      \* the passes through the loop, as reported to the caller
    authRetried,   \* the one retry after a 401 or 403 was used
    executed,      \* how many times the provider executed the request
    last,          \* the outcome of the last attempt
    result

Timeouts == {"connectTimeout", "headersTimeout", "bodyTimeout"}
NetworkErrors == {"refused", "reset"}
NoResponse == Timeouts \cup NetworkErrors
ServerErrors == {"http500", "http502", "http503", "http504"}
\* "http401" stands for 401 and 403, "http4xx" for every other refusal.
Outcomes == {"http2xx", "http401", "http4xx", "http408", "http429"}
                \cup ServerErrors \cup NoResponse

\* DEFAULT_SHOULD_RETRY
ShouldRetry(o) ==
    o \in NetworkErrors \cup {"connectTimeout", "http408", "http429"} \cup ServerErrors

\* isProvablyPreCommit: nothing reached the provider, or it said it did nothing.
ProvablyPreCommit(o) ==
    o \in {"connectTimeout", "refused", "http429", "http503"}

\* The provider: with these answers the request may have been executed.
MayHaveExecuted(o) ==
    o \in {"http2xx", "http500", "http502", "http504", "headersTimeout", "bodyTimeout", "reset"}

\* Mutant: the policy alone decides.
CanRetryAny(o) == attempt < MaxAttempts - 1 /\ ShouldRetry(o)

\* What the loop asks before it sleeps and tries again.
CanRetry(o) ==
    /\ attempt < MaxAttempts - 1
    /\ ShouldRetry(o)
    /\ idempotent \/ ProvablyPreCommit(o)

\* Mutant: a failure is a failure.
PlainError(o) == "error"

\* terminalError: what the caller gets when there was no response at all.
TerminalError(o) ==
    IF ~idempotent /\ ~ProvablyPreCommit(o) THEN "unknown" ELSE "error"

\* A 401 with a token that could be renewed: tried again, once, and not counted.
Renews(o, renewed) == o = "http401" /\ ~authRetried /\ renewed

\* A call that has just been made.
CallInit ==
    /\ idempotent \in BOOLEAN
    /\ attempt = 0
    /\ attempts = 0
    /\ authRetried = FALSE
    /\ executed = 0
    /\ last = "none"
    /\ result = "none"

\* assertClosed throws before the attempt is made.
CircuitOpen ==
    /\ result = "none"
    /\ result' = "error"
    /\ attempts' = attempts + 1
    /\ UNCHANGED <<idempotent, attempt, authRetried, executed, last>>

\* One attempt and what the client does with its outcome.
Attempt(o, renewed) ==
    /\ result = "none"
    /\ attempts' = attempts + 1
    /\ last' = o
    /\ \/ /\ o = "http2xx"
          /\ executed' = executed + 1
       \/ /\ o # "http2xx"
          /\ MayHaveExecuted(o)
          /\ executed' \in {executed, executed + 1}
       \/ /\ ~MayHaveExecuted(o)
          /\ UNCHANGED executed
    /\ \/ /\ o = "http2xx"
          /\ result' = "ok"
          /\ UNCHANGED <<attempt, authRetried>>
       \/ /\ Renews(o, renewed)
          /\ authRetried' = TRUE
          /\ UNCHANGED <<attempt, result>>
       \/ /\ o # "http2xx"
          /\ ~Renews(o, renewed)
          /\ CanRetry(o)
          /\ attempt' = attempt + 1
          /\ UNCHANGED <<authRetried, result>>
       \/ /\ o # "http2xx"
          /\ ~Renews(o, renewed)
          /\ ~CanRetry(o)
          /\ result' = IF o \in NoResponse THEN TerminalError(o) ELSE "error"
          /\ UNCHANGED <<attempt, authRetried>>
    /\ UNCHANGED idempotent

-----------------------------------------------------------------------------
\* A write that is not idempotent is executed at most once per call, whatever the
\* network does: only a provably pre-commit failure is retried.
WrittenAtMostOnce == ~idempotent => executed <= 1

\* When the provider never answered, the caller of a write is told so: no silence
\* after which the write may have happened is reported as an ordinary error.
SilenceIsUnknown ==
    /\ ~idempotent /\ result = "error" /\ last \in NoResponse
    => executed = 0

\* The provider gets at most maxAttempts requests and one more, however failures,
\* retries and refused tokens alternate: the 401 that sets the loop counter back
\* does so once, so the call ends.
AttemptsBounded == attempts <= MaxAttempts + 1

\* What retry.ts and client.ts say of every write: a failure that is not provably
\* pre-commit is an unknown outcome, so an ordinary error means that nothing was
\* executed.  A 500, 502 or 504 goes through errorMapper and breaks it.
ErrorMeansNotExecuted ==
    ~idempotent /\ result = "error" => executed = 0
=============================================================================
