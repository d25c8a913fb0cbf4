---------------------------- MODULE ProviderCall ----------------------------
(***************************************************************************)
(* The calls that an adapter makes through one HttpClient, one after the   *)
(* other, together with what they share with the other calls of the        *)
(* process: the circuit breaker (Circuit) and the token store.             *)
(*                                                                         *)
(* A pass through the loop of HttpClient.request is three steps, because    *)
(* other calls run at its awaits: assertClosed, prepare (which asks the     *)
(* token store for a token), and the exchange itself, which is HttpCall's   *)
(* Attempt.                                                                *)
(***************************************************************************)
EXTENDS HttpCall, Circuit

CONSTANT
    MaxInWindow    \* bound on the answers counted in one window

VARIABLES
    step,       \* of this call: "idle", "admitted" or "prepared"
    bucket,     \* the breaker's bucket
    others,     \* other calls that were admitted and have not ended: 0 or 1
    cached,     \* the token in the cache, 0 when there is none
    fetching,   \* inFlight: the token that the pending fetch will bring, 0 when none
    token,      \* the token in this call's prepared request
    refused,    \* the token of this call that was answered with 401, 0 when none
    healthy     \* from here on the provider answers every request with 2xx

call == <<idempotent, attempt, attempts, authRetried, executed, last, result>>
tokens == <<cached, fetching>>
allVars == <<idempotent, attempt, attempts, authRetried, executed, last, result,
             step, bucket, others, cached, fetching, token, refused, healthy>>

\* The provider issues a token that nothing here still holds.
NewToken == CHOOSE t \in 1..3 : t \notin {token, refused}

Counted == Fresh(bucket).successes + Fresh(bucket).failures

PInit ==
    /\ CallInit
    /\ step = "idle"
    /\ bucket = NewBucket
    /\ others = 0
    /\ cached = 0 /\ fetching = 0
    /\ token = 0 /\ refused = 0
    /\ healthy = FALSE

\* assertClosed lets this call through.
Admit ==
    /\ result = "none"
    /\ step = "idle"
    /\ Admits(bucket)
    /\ step' = "admitted"
    /\ bucket' = Admitted(bucket)
    /\ UNCHANGED <<call, others, tokens, token, refused, healthy>>

\* assertClosed throws: the call ends.
Refuse ==
    /\ step = "idle"
    /\ ~Admits(bucket)
    /\ CircuitOpen
    /\ bucket' = Fresh(bucket)
    /\ UNCHANGED <<step, others, tokens, token, refused, healthy>>

\* getOrFetch finds a token.
TakeCached ==
    /\ step = "admitted"
    /\ cached # 0
    /\ token' = cached
    /\ step' = "prepared"
    /\ UNCHANGED <<call, bucket, others, tokens, refused, healthy>>

\* getOrFetch starts a fetch, for this call or for another one of the process;
\* a call that comes while one is pending waits for the same promise.
StartFetch ==
    /\ cached = 0
    /\ fetching = 0
    /\ fetching' = NewToken
    /\ UNCHANGED <<call, step, bucket, others, cached, token, refused, healthy>>

\* The fetch ends: the token is cached, and this call goes on if it was waiting.
EndFetch ==
    /\ fetching # 0
    /\ cached' = fetching
    /\ fetching' = 0
    /\ IF step = "admitted"
       THEN token' = fetching /\ step' = "prepared"
       ELSE UNCHANGED <<token, step>>
    /\ UNCHANGED <<call, bucket, others, refused, healthy>>

\* fetchToken throws, outside the try of the loop: whoever waits fails, and a probe
\* that was admitted is never given back.
FailFetch ==
    /\ fetching # 0
    /\ ~healthy
    /\ fetching' = 0
    /\ IF step = "admitted"
       THEN /\ result' = "error"
            /\ attempts' = attempts + 1
            /\ step' = "idle"
       ELSE UNCHANGED <<result, attempts, step>>
    /\ UNCHANGED <<idempotent, attempt, authRetried, executed, last,
                   bucket, others, cached, token, refused, healthy>>

\* The cached token passes its expiry, or another call was refused with it.
DropToken ==
    /\ cached # 0
    /\ cached' = 0
    /\ UNCHANGED <<call, step, bucket, others, fetching, token, refused, healthy>>

\* What an outcome tells the breaker: refusals other than 5xx tell it nothing.
Recorded(b, o) ==
    IF o = "http2xx" THEN RecordSuccess(b)
    ELSE IF o \in ServerErrors \cup NoResponse THEN RecordFailure(b)
    ELSE b

\* onUnauthorized of the OAuth2 strategy: invalidate, and true.
AfterUnauthorized == 0

\* The request goes out and its answer is handled.
Exchange(o) ==
    /\ step = "prepared"
    /\ healthy => o = "http2xx"
    /\ Counted < MaxInWindow
    /\ Attempt(o, TRUE)
    /\ bucket' = Recorded(bucket, o)
    /\ IF Renews(o, TRUE)
       THEN cached' = AfterUnauthorized /\ refused' = token
       ELSE UNCHANGED <<cached, refused>>
    /\ step' = "idle"
    /\ token' = 0
    /\ UNCHANGED <<others, fetching, healthy>>

\* The adapter makes its next call.
NextCall ==
    /\ result # "none"
    /\ idempotent' \in BOOLEAN
    /\ attempt' = 0 /\ attempts' = 0 /\ authRetried' = FALSE
    /\ executed' = 0 /\ last' = "none" /\ result' = "none"
    /\ refused' = 0
    /\ UNCHANGED <<step, bucket, others, tokens, token, healthy>>

\* Another call with the same breaker key.
OtherStarts ==
    /\ others = 0
    /\ Admits(bucket)
    /\ others' = 1
    /\ bucket' = Admitted(bucket)
    /\ UNCHANGED <<call, step, tokens, token, refused, healthy>>

OtherEnds(o) ==
    /\ others = 1
    /\ healthy => o = "http2xx"
    /\ Counted < MaxInWindow
    /\ others' = 0
    /\ bucket' = Recorded(bucket, o)
    /\ UNCHANGED <<call, step, tokens, token, refused, healthy>>

Tick ==
    /\ bucket' = Aged(bucket)
    /\ UNCHANGED <<call, step, others, tokens, token, refused, healthy>>

Heal ==
    /\ ~healthy
    /\ healthy' = TRUE
    /\ UNCHANGED <<call, step, bucket, others, tokens, token, refused>>

\* Of the outcomes of the other call, one for each thing the breaker can be told.
PNext ==
    \/ Admit \/ Refuse \/ TakeCached \/ StartFetch \/ EndFetch \/ FailFetch \/ DropToken
    \/ \E o \in Outcomes : Exchange(o)
    \/ \E o \in {"http2xx", "http4xx", "http500"} : OtherEnds(o)
    \/ NextCall \/ OtherStarts \/ Tick \/ Heal

PSpec == PInit /\ [][PNext]_allVars

(***************************************************************************)
(* Fairness.  Time passes; calls keep coming and the steps of a call are   *)
(* run by the event loop; the provider issues tokens and answers, at the   *)
(* latest with a timeout.                                                  *)
(***************************************************************************)
PFairSpec ==
    /\ PSpec
    /\ WF_allVars(Admit) /\ WF_allVars(Refuse) /\ WF_allVars(NextCall) /\ WF_allVars(Tick)
    /\ WF_allVars(TakeCached \/ EndFetch \/ FailFetch) /\ WF_allVars(StartFetch)
    /\ WF_allVars(\E o \in Outcomes : Exchange(o))
    /\ WF_allVars(\E o \in {"http2xx", "http4xx", "http500"} : OtherEnds(o))

-----------------------------------------------------------------------------
\* The one retry after a 401 never sends the token that was refused, although other
\* calls fetch, renew and lose tokens of the same key while this one runs.
RefusedTokenNotSent == step = "prepared" /\ refused # 0 => token # refused

\* A circuit that opened closes again once the provider is well and calls keep
\* coming, although probes answered with 4xx, or lost to a failed token, never give
\* their slot of the half-open circuit back.
CircuitRecovers == (healthy /\ bucket.opened) ~> ~bucket.opened
=============================================================================
