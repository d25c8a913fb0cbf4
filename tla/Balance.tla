-------------------------------- MODULE Balance --------------------------------
(***************************************************************************)
(* The balance of an account as the API serves it: BalanceService over a   *)
(* cache shared by every pod, with its six reasons to pass the cache by,   *)
(* the single flight that turns many misses into one call, and what it     *)
(* answers when the provider fails.                                        *)
(*                                                                         *)
(* The provider's balance is a function of time, so that an answer can be  *)
(* compared with what the account held at the instant the answer claims.   *)
(***************************************************************************)
EXTENDS Integers

CONSTANTS
    Readers,           \* reads of the balance
    Queries,           \* what a read may ask for: see BalanceQuery
    Situations,        \* what the signals may say of the account: see Situation
    CacheTtl,          \* life of an entry, in instants
    PostMutation,      \* postMutationBypassSeconds, in instants
    MaxNow             \* bound: the last instant

BalanceQuery == [consistency : {"cached", "strong"}, source : {"provider", "ledger"},
                 onProviderError : {"fail", "serve_stale"}, authorizationPath : BOOLEAN]

\* Inbound webhooks, an open break of high severity, and the account's last_event_at.
Situation == [webhooks : BOOLEAN, highSeverityBreak : BOOLEAN, lastEventAt : Int]

ASSUME BalanceAssumption ==
    /\ Queries \subseteq BalanceQuery /\ Situations \subseteq Situation
    /\ CacheTtl \in Nat \ {0} /\ PostMutation \in Nat /\ MaxNow \in Nat

VARIABLES
    query,             \* the query of each read
    situation,         \* the signals of the account
    held,              \* the provider's balance at each instant so far
    now,               \* the instant
    slot,              \* the cache's entry, or Vacant
    flight,            \* the single flight's lock is set
    read               \* each read: where it stands, the entry it found, what it answers

balanceVars == <<query, situation, held, now, slot, flight, read>>

Vacant == [until |-> -1]
NoAnswer == [source |-> "none"]
Beginning == [at |-> "start", cached |-> Vacant, locked |-> FALSE, fresh |-> Vacant, answer |-> NoAnswer]

BalanceInit ==
    /\ query \in [Readers -> Queries]
    /\ situation \in Situations
    /\ held = [t \in 0 .. MaxNow |-> 0]
    /\ now = 0
    /\ slot = Vacant
    /\ flight = FALSE
    /\ read = [r \in Readers |-> Beginning]

-----------------------------------------------------------------------------
(* The bypass rules. *)

bypassRules(q, cached) ==
    [consistency_strong        |-> q.consistency = "strong",
     authorization_path        |-> q.authorizationPath,
     recent_local_mutation     |-> situation.lastEventAt >= 0
                                     /\ now - situation.lastEventAt < PostMutation,
     no_inbound_webhooks       |-> ~situation.webhooks,
     open_reconciliation_break |-> situation.highSeverityBreak,
     cache_older_than_movement |-> cached # Vacant /\ situation.lastEventAt >= 0
                                     /\ cached.asOf < situation.lastEventAt]

bypassReason(q, cached) == LET rules == bypassRules(q, cached) IN \E r \in DOMAIN rules : rules[r]

-----------------------------------------------------------------------------
(* The cache.  A Redis that fails reads as empty, and loses what it is given. *)

Live == IF slot.until > now THEN slot ELSE Vacant

\* get, which may fail.
Lookups == {Live, Vacant}

\* set, which may fail.
CacheSet(entry) == slot' \in {slot, [value |-> entry.value, asOf |-> entry.asOf, until |-> now + CacheTtl]}

\* freshnessOf: where the value comes from and the instant it claims.
freshnessOf(source, entry) == [source |-> source, value |-> entry.value, asOf |-> entry.asOf]

-----------------------------------------------------------------------------
(* get, await by await *)

Goes(r, to) == read' = [read EXCEPT ![r].at = to]

\* The shadow ledger's own figures, dated by itself.
fromLedger == [source |-> "ledger"]

\* fromLedger answers from the shadow ledger; any other read looks into the cache.
LookUp(r) ==
    /\ read[r].at = "start"
    /\ IF query[r].source = "ledger"
       THEN read' = [read EXCEPT ![r].at = "done", ![r].answer = fromLedger]
       ELSE \E entry \in Lookups :
               read' = [read EXCEPT ![r].at = "decide", ![r].cached = entry]
    /\ UNCHANGED <<query, situation, held, now, slot, flight>>

\* The signals arrive: the entry is served, or the provider is asked.
Decide(r) ==
    LET cached == read[r].cached IN
    /\ read[r].at = "decide"
    /\ IF cached # Vacant /\ ~bypassReason(query[r], cached)
       THEN read' = [read EXCEPT ![r].at = "done", ![r].answer = freshnessOf("cache", cached)]
       ELSE Goes(r, "flight")
    /\ UNCHANGED <<query, situation, held, now, slot, flight>>

\* singleFlight: whoever sets the lock calls the origin, the others wait for the value;
\* a Redis that fails lets everyone call.
EnterFlight(r) ==
    /\ read[r].at = "flight"
    /\ \/ Goes(r, "fetch") /\ UNCHANGED flight
       \/ ~flight /\ flight' = TRUE
          /\ read' = [read EXCEPT ![r].at = "fetch", ![r].locked = TRUE]
       \/ flight /\ Goes(r, "wait") /\ UNCHANGED flight
    /\ UNCHANGED <<query, situation, held, now, slot>>

\* The value appears, or an entry that was already there; past the deadline the loser calls.
WaitForFlight(r) ==
    /\ read[r].at = "wait"
    /\ \/ Live # Vacant /\ read' = [read EXCEPT ![r].at = "store", ![r].fresh = Live]
       \/ Goes(r, "fetch")
    /\ UNCHANGED <<query, situation, held, now, slot, flight>>

\* The lock outlives its five seconds, or the pod that held it.
FlightExpires == flight /\ flight' = FALSE /\ UNCHANGED <<query, situation, held, now, slot, read>>

\* The provider's figures and consultado_em, its own instant.
providerBalance == [value |-> held[now], asOf |-> now]

\* fetchFromProvider: the balance and the instant the provider read it.  The lock is
\* released whoever holds it by now.
Fetch(r) ==
    /\ read[r].at = "fetch"
    /\ read' = [read EXCEPT ![r].at = "store", ![r].fresh = providerBalance]
    /\ flight' = (flight /\ ~read[r].locked)
    /\ UNCHANGED <<query, situation, held, now, slot>>

\* onProviderFailure: an error, unless the client accepts the entry found at the start.
FetchFails(r) ==
    /\ read[r].at = "fetch"
    /\ read' = [read EXCEPT ![r].at = "done",
                  ![r].answer = IF query[r].onProviderError = "serve_stale" /\ read[r].cached # Vacant
                                THEN freshnessOf("cache-stale", read[r].cached)
                                ELSE [source |-> "error"]]
    /\ flight' = (flight /\ ~read[r].locked)
    /\ UNCHANGED <<query, situation, held, now, slot>>

\* Mutant: the answer is dated when it is given.
StampOnArrival(fresh) == [value |-> fresh.value, asOf |-> now]

\* The instant is the provider's, also for a value the single flight handed over.
Stamp(fresh) == [value |-> fresh.value, asOf |-> fresh.asOf]

\* The value is cached again and answered.
Store(r) ==
    LET fresh == Stamp(read[r].fresh) IN
    /\ read[r].at = "store"
    /\ CacheSet(fresh)
    /\ read' = [read EXCEPT ![r].at = "done", ![r].answer = freshnessOf("provider", fresh)]
    /\ UNCHANGED <<query, situation, held, now, flight>>

-----------------------------------------------------------------------------
(* What happens around the reads. *)

\* Time passes, and the account may have moved.
Pass ==
    /\ now < MaxNow
    /\ now' = now + 1
    /\ \E value \in {held[now], held[now] + 1} :
          held' = [t \in 0 .. MaxNow |-> IF t > now THEN value ELSE held[t]]
    /\ UNCHANGED <<query, situation, slot, flight, read>>

\* invalidateTag: called after every movement the connector makes or hears of.
Invalidate == slot # Vacant /\ slot' = Vacant /\ UNCHANGED <<query, situation, held, now, flight, read>>

\* A change of the account's status dates it.  No movement of money does.
SignalEvent ==
    /\ situation.lastEventAt # now
    /\ situation' = [situation EXCEPT !.lastEventAt = now]
    /\ UNCHANGED <<query, held, now, slot, flight, read>>

BalanceNext ==
    \/ \E r \in Readers : LookUp(r) \/ Decide(r) \/ EnterFlight(r) \/ WaitForFlight(r)
                            \/ Fetch(r) \/ FetchFails(r) \/ Store(r)
    \/ FlightExpires \/ Pass \/ Invalidate \/ SignalEvent

BalanceSpec == BalanceInit /\ [][BalanceNext]_balanceVars

-----------------------------------------------------------------------------
\* Whatever way a balance took to the client (the cache, another read's call, an entry served
\* because the provider failed), it is what the account held at the instant the answer
\* claims, and that instant is past: the freshness the contract promises is never overstated
\* (BalanceService.get, onProviderFailure, singleFlight).
AgeIsHonest ==
    \A r \in Readers :
        read[r].answer.source \in {"cache", "cache-stale", "provider"} =>
            /\ read[r].answer.asOf <= now
            /\ read[r].answer.value = held[read[r].answer.asOf]
================================================================================
