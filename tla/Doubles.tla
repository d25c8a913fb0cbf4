-------------------------------- MODULE Doubles --------------------------------
(***************************************************************************)
(* The in-memory repositories beside the ones over Postgres.  The suites   *)
(* that run the API end to end run it on the first, production runs on the *)
(* second, and "manter a logica no mesmo lugar e o que impede as duas      *)
(* implementacoes de divergirem": here one sequence of calls is made to    *)
(* both, and what they hold and answer is compared.                        *)
(*                                                                         *)
(* A behaviour is about one table, named by repo.  The two do not agree on *)
(* everything: the doubles have no constraints, so a write that Postgres   *)
(* refuses (a unique index, an update of no row) they take; some calls     *)
(* leave them with different rows; and some columns differ.  Such a call   *)
(* parts the twins and ends their comparison; such a column is hidden by   *)
(* Seen; and TwinsAgree is about what comes before and beside them.        *)
(*                                                                         *)
(* A client also walks the pages of a statement while the table changes.   *)
(***************************************************************************)
EXTENDS Integers, Sequences, FiniteSets, StatusFsm

LOCAL INSTANCE Rows

CONSTANTS
    Repos,             \* the repositories that are compared
    MaxCalls           \* bound: the writes of a behaviour

Mem == INSTANCE MemoryRepositories
Sql == INSTANCE PrismaRepositories

RepoNames == {"holder", "account", "case", "audit", "inbound", "transaction", "key", "charge", "operation",
              "run", "break", "cursor", "event", "endpoint", "delivery", "apiKey", "connection", "session",
              "idempotency"}

ASSUME DoublesAssumption == Repos \subseteq RepoNames /\ MaxCalls \in Nat

VARIABLES
    repo,              \* the repository of this behaviour
    mem, sql,          \* its rows: in memory in the order of insertion, in Postgres a set
    told,              \* both gave the same answer to the last call, or to every query
    parted,            \* a call was made that the two are known to take differently
    calls,             \* writes so far; ids and instants are taken from it
    walk               \* a client's walk through the pages of a statement

doublesVars == <<repo, mem, sql, told, parted, calls, walk>>

Envs == {"H", "P"}
\* The events that deliveries are of.
OutboxEvents == [id \in 1 .. 2 |-> [environment |-> "H", subjectId |-> "s", sequence |-> id]]
Ids == 1 .. calls
NewId == calls + 1
Instants == {1, calls + 1}          \* an event of the past, and one of now

-----------------------------------------------------------------------------
(* StatementService: the walk of a client through the pages. *)

\* The days a client may ask for.
Windows == {[from |-> 1, to |-> 2], [from |-> 2, to |-> 2]}

STATEMENT_STATUSES == {"SETTLED", "REVERSED", "PARTIALLY_REVERSED"}

filterDigest(window) == <<"a", window.from, window.to>>

\* A cursor is good for the filters it was made for; its position, or nothing.
decodeCursor(cursor, filters) == IF cursor.filters = filters THEN <<cursor.position>> ELSE <<>>

statementQuery(window, limit, position) ==
    [environment |-> "H", accountId |-> "a", from |-> window.from, to |-> window.to,
     statuses |-> STATEMENT_STATUSES, limit |-> limit, cursor |-> position]

\* The entries that belong to the statement now.
Entries(table, window) ==
    {r.id : r \in {t \in table : /\ t.environment = "H" /\ t.accountId = "a"
                                 /\ t.status \in STATEMENT_STATUSES
                                 /\ t.effectiveDate \in window.from .. window.to}}

NoCursor == [position |-> Sql!NoPosition, filters |-> <<>>]
NotWalking == [at |-> "start", window |-> [from |-> 1, to |-> 2], cursor |-> NoCursor,
               shown |-> <<>>, kept |-> {}]

\* list: the first page needs no cursor, a later one the cursor of the page before; the
\* limit may change from page to page, the filters may not.
listStatement ==
    /\ repo = "transaction" /\ walk.at # "end"
    /\ \E window \in Windows, limit \in {1, 2} :
         LET filters  == filterDigest(window)
             first    == walk.at = "start"
             decoded  == IF first THEN <<Sql!NoPosition>> ELSE decodeCursor(walk.cursor, filters)
             page     == Sql!statement(sql, statementQuery(window, limit, decoded[1]))
         IN  IF decoded = <<>>
             THEN UNCHANGED walk          \* INVALID_CURSOR
             ELSE walk' = [at     |-> IF page.nextCursor = Sql!NoPosition THEN "end" ELSE "open",
                              window |-> window,
                              cursor |-> [position |-> page.nextCursor, filters |-> filters],
                              shown  |-> walk.shown \o mapped(page.data, idOf),
                              kept   |-> IF first THEN Entries(sql, window) ELSE walk.kept]
    /\ UNCHANGED <<repo, mem, sql, told, parted, calls>>

-----------------------------------------------------------------------------
(* The calls. *)

\* The columns in which the two differ: a break of the double keeps the items it was opened
\* with, and the worker does not sign the ones it closes; a rotation of credentials counts up
\* their version in Postgres only; and Postgres has a column of transactions no record shows.
Seen(row) ==
    CASE repo = "transaction" -> Sql!toTransaction(row)
      [] repo = "break" -> [row EXCEPT !.item = 0, !.resolvedBy = ""]
      [] repo = "connection" -> [row EXCEPT !.version = 1]
      [] OTHER -> row

\* A write made to both.
Write(m, s) ==
    /\ calls < MaxCalls /\ ~parted
    /\ mem' = m.rows /\ sql' = s.rows
    /\ calls' = calls + 1
    /\ walk' = IF repo # "transaction" THEN walk
               ELSE [walk EXCEPT !.kept = @ \cap Entries(s.rows, walk.window)]
    /\ UNCHANGED repo

Call(m, s) == Write(m, s) /\ told' = (m.answer = s.answer) /\ UNCHANGED parted

\* A write that the two are known to take differently, if differs holds.
CallUnless(differs, m, s) ==
    IF differs THEN Write(m, s) /\ parted' = TRUE /\ UNCHANGED told ELSE Call(m, s)

\* A write that Postgres refuses unless its constraints are kept.
CallIf(allowed, m, s) ==
    IF allowed THEN Call(m, s) ELSE CallUnless(TRUE, m, result(sql, <<>>))

Known(id) == \E r \in sql : r.id = id
Free(column, value, environment) ==
    value = 0 \/ \A r \in sql : ~(r.environment = environment /\ r[column] = value)

HolderCalls == repo = "holder" /\
    \E e \in Envs, index \in 1 .. 2 :
      LET row == [id |-> NewId, environment |-> e, taxIdBlindIndex |-> index, envelope |-> NewId]
      IN  CallIf(Free("taxIdBlindIndex", index, e),
                 Mem!createHolder(mem, row), Sql!createHolder(sql, row))

AccountCreate == repo = "account" /\
    \E e \in Envs, external \in 0 .. 1, connection \in {"c1", "c2"} :
      LET row == [id |-> NewId, environment |-> e, externalId |-> external, provider |-> "bank",
                  providerAccountId |-> 0, providerConnectionId |-> connection, status |-> "DRAFT",
                  statusReasonCode |-> 0, statusChangedAt |-> 0, lastEventAt |-> NoEvent, number |-> 0,
                  openedAt |-> 0, closedAt |-> 0, ledger |-> 0]
      IN  CallIf(Free("externalId", external, e),
                 Mem!createAccount(mem, row), Sql!createAccount(sql, row))

AccountAttach == repo = "account" /\
    \E id \in Ids :
      \/ LET input == [id |-> id, ledger |-> NewId]
         IN  Call(Mem!attachLedgerAccounts(mem, input), Sql!attachLedgerAccounts(sql, input))
      \/ \E status \in {"PENDING_ONBOARDING", "ACTIVE"}, number \in 0 .. 1 :
           LET input == [id |-> id, providerAccountId |-> id, status |-> status,
                         number |-> number, openedAt |-> number]
           IN  Call(Mem!attachProviderAccount(mem, input), Sql!attachProviderAccount(sql, input))

AccountChange == repo = "account" /\
    \E id \in Ids, e \in Envs, to \in {"PENDING_ONBOARDING", "ACTIVE", "BLOCKED", "CLOSED"},
       at \in Instants, reason \in 0 .. 1 :
      LET input == [id |-> id, environment |-> e, toStatus |-> to, occurredAt |-> at, reasonCode |-> reason]
      IN  Call(Mem!changeAccountStatus(mem, input), Sql!changeAccountStatus(sql, input))

\* Of several cases of an account the double finds the first and Postgres the last.
CaseCreate == repo = "case" /\
    \E e \in Envs, account \in 1 .. NewId, pending \in {{}, {"SELFIE"}} :
      LET row == [id |-> NewId, environment |-> e, accountId |-> account, provider |-> "bank",
                  providerCaseId |-> NewId, status |-> "SUBMITTED", rejectionCode |-> 0,
                  lastEventAt |-> NoEvent, decidedAt |-> 0,
                  requirements |-> [c \in pending |-> "PENDING"]]
      IN  CallUnless(\E r \in sql : r.accountId = account,
                     Mem!createCase(mem, row), Sql!createCase(sql, row))

\* A list that names a code the case already has is refused by Postgres.
CaseChange == repo = "case" /\
    \E id \in Ids, e \in Envs, to \in {"IN_ANALYSIS", "MANUAL_REVIEW", "APPROVED", "REJECTED"},
       at \in Instants, listed \in {<<>>, <<{}>>, <<{"ID"}>>, <<{"SELFIE"}>>} :
      LET input == [id |-> id, environment |-> e, toStatus |-> to, occurredAt |-> at,
                    rejectionCode |-> IF to = "REJECTED" THEN 1 ELSE 0, listed |-> listed]
      IN  CallIf(\A r \in sql, codes \in asSet(listed) : r.id = id => DOMAIN r.requirements \cap codes = {},
                 Mem!changeCaseStatus(mem, input), Sql!changeCaseStatus(sql, input))

AuditCalls == repo = "audit" /\
    \E e \in Envs, actor \in {"u1", "u2"}, resource \in {"r1", "r2"} :
      LET draft == [id |-> 0, environment |-> e, actorId |-> actor, resourceId |-> resource,
                    occurredAt |-> NewId]
      IN  Call(Mem!recordAudit(mem, draft), Sql!recordAudit(sql, draft))

InboundClaim == repo = "inbound" /\
    \E e \in Envs, dedupeKey \in 1 .. 2, connection \in {"c1", "c2"} :
      LET row == [id |-> NewId, environment |-> e, connectionId |-> connection, provider |-> "bank",
                  dedupeKey |-> dedupeKey, receivedAt |-> NewId, status |-> "RECEIVED", attempts |-> 0,
                  lastError |-> "", processedAt |-> 0]
      IN  Call(Mem!claimInbound(mem, row), Sql!claimInbound(sql, row))

InboundMark == repo = "inbound" /\
    \E id \in Ids :
      \/ Call(Mem!markProcessing(mem, id), Sql!markProcessing(sql, id))
      \/ CallIf(Known(id), Mem!markProcessed(mem, id, NewId), Sql!markProcessed(sql, id, NewId))
      \/ CallIf(Known(id), Mem!markDiscarded(mem, id, "stale"), Sql!markDiscarded(sql, id, "stale"))
      \/ \E dead \in BOOLEAN :
           CallIf(Known(id), Mem!markFailed(mem, id, "error", dead), Sql!markFailed(sql, id, "error", dead))

TransactionCreate == repo = "transaction" /\
    \E e \in Envs, status \in {"PENDING", "SETTLED"}, day \in 1 .. 2 :
      LET row == [id |-> NewId, environment |-> e, accountId |-> "a", provider |-> "bank",
                  providerTransactionId |-> 0, idempotencyKey |-> NewId,
                  endToEndId |-> IF status = "SETTLED" THEN NewId ELSE 0, settlementAt |-> 0,
                  direction |-> IF status = "SETTLED" THEN "CREDIT" ELSE "DEBIT", status |-> status,
                  lastEventAt |-> NoEvent, failureCode |-> 0, settledAt |-> 0, failedAt |-> 0,
                  ledgerPosted |-> 0, effectiveDate |-> day]
      IN  Call(Mem!createTransaction(mem, row), Sql!createTransaction(sql, row))

TransactionChange == repo = "transaction" /\
    \E id \in Ids, e \in Envs, to \in {"PROCESSING", "SETTLED", "FAILED", "REVERSED"}, at \in Instants :
      LET input == [id |-> id, environment |-> e, toStatus |-> to, occurredAt |-> at,
                    failureCode |-> IF to = "FAILED" THEN 1 ELSE 0,
                    settledAt |-> IF to = "SETTLED" THEN at ELSE 0,
                    endToEndId |-> IF to = "SETTLED" THEN id ELSE 0,
                    ledgerPosted |-> IF to = "SETTLED" THEN id ELSE 0]
      IN  Call(Mem!changeTransactionStatus(mem, input), Sql!changeTransactionStatus(sql, input))

TransactionAttach == repo = "transaction" /\
    \E id \in Ids, named \in BOOLEAN :
      LET input == [id |-> id, providerTransactionId |-> id, status |-> "PROCESSING",
                    endToEndId |-> IF named THEN id ELSE 0]
      IN  Call(Mem!attachProviderTransaction(mem, input), Sql!attachProviderTransaction(sql, input))

KeyCreate == repo = "key" /\
    \E e \in Envs, index \in 1 .. 2 :
      LET row == [id |-> NewId, environment |-> e, accountId |-> "a", valueBlindIndex |-> index,
                  status |-> "ACTIVE", requestedAt |-> NewId, removedAt |-> 0]
      IN  CallIf(Sql!findActiveKey(sql, e, index) = <<>>,
                 Mem!createKey(mem, row), Sql!createKey(sql, row))

KeyRemove == repo = "key" /\
    \E id \in Ids, e \in Envs : Call(Mem!markRemoved(mem, e, id, NewId), Sql!markRemoved(sql, e, id, NewId))

ChargeCreate == repo = "charge" /\
    \E e \in Envs, txid \in 1 .. 2 :
      LET row == [id |-> NewId, environment |-> e, accountId |-> "a", txid |-> txid, status |-> "ACTIVE",
                  revision |-> 0, paidAmount |-> 0, paidAt |-> 0, lastEventAt |-> NoEvent]
      IN  CallIf(Free("txid", txid, e), Mem!createCharge(mem, row), Sql!createCharge(sql, row))

ChargeChange == repo = "charge" /\
    \E e \in Envs, txid \in 1 .. 2, to \in {"ACTIVE", "COMPLETED", "EXPIRED"}, at \in Instants :
      LET input == [environment |-> e, txid |-> txid, toStatus |-> to, occurredAt |-> at,
                    paidAmount |-> IF to = "COMPLETED" THEN 1 ELSE 0,
                    paidAt |-> IF to = "COMPLETED" THEN at ELSE 0]
      IN  Call(Mem!changeChargeStatus(mem, input), Sql!changeChargeStatus(sql, input))

OperationCreate == repo = "operation" /\
    \E e \in Envs, status \in {"PENDING", "UNKNOWN"} :
      LET row == [id |-> NewId, environment |-> e, status |-> status, providerRef |-> 0, attempts |-> 0,
                  updatedAt |-> NewId]
      IN  Call(Mem!createOperation(mem, row), Sql!createOperation(sql, row))

OperationUpdate == repo = "operation" /\
    \E id \in Ids, e \in Envs, status \in {"", "SUBMITTED", "UNKNOWN", "SETTLED"}, tried \in BOOLEAN :
      LET input == [id |-> id, environment |-> e, status |-> status,
                    providerRef |-> IF status = "SETTLED" THEN id ELSE 0,
                    incrementAttempts |-> tried, at |-> NewId]
      IN  Call(Mem!updateOperation(mem, input), Sql!updateOperation(sql, input))

RunStart == repo = "run" /\
    \E e \in Envs, window \in 1 .. 2 :
      LET input == [id |-> NewId, environment |-> e, connectionId |-> e, accountId |-> "a",
                    window |-> window, status |-> "", breakCount |-> 0]
      IN  Call(Mem!startRun(mem, input), Sql!startRun(sql, input))

RunEnd == repo = "run" /\
    \E id \in Ids :
      \/ CallIf(Known(id), Mem!markRunning(mem, id), Sql!markRunning(sql, id))
      \/ CallIf(Known(id), Mem!failRun(mem, id), Sql!failRun(sql, id))
      \/ \E status \in {"COMPLETED", "COMPLETED_WITH_BREAKS"}, breaks \in 0 .. 1 :
           CallIf(Known(id), Mem!completeRun(mem, id, status, breaks), Sql!completeRun(sql, id, status, breaks))

\* A draft of a break, as a run finds it.
Draft(severity, dedupeKey) ==
    [id |-> NewId, environment |-> "H", connectionId |-> "c1", accountId |-> "a", type |-> "AMOUNT_MISMATCH",
     severity |-> severity, status |-> "", dedupeKey |-> dedupeKey, effectiveDate |-> 1, runId |-> NewId,
     firstSeenRunId |-> 0, delta |-> NewId, item |-> NewId, ageDays |-> 0, resolvedBy |-> "",
     resolvedAt |-> 0, adjustment |-> 0, createdAt |-> 0]

BreakSeen == repo = "break" /\
    \E severity \in {"LOW", "HIGH"}, dedupeKey \in 1 .. 2 :
      Call(Mem!upsertBreak(mem, Draft(severity, dedupeKey), NewId),
           Sql!upsertBreak(sql, Draft(severity, dedupeKey), NewId))

BreakClosed == repo = "break" /\
    \E keep \in SUBSET (1 .. 2) :
      LET input == [environment |-> "H", connectionId |-> "c1", accountId |-> "a", from |-> 1, to |-> 1,
                    keep |-> keep, at |-> NewId]
      IN  Call(Mem!closeNotRecurring(mem, input), Sql!closeNotRecurring(sql, input))

\* An operator gives a name and, with an adjustment, its entry: an absent entry is written
\* as null in memory and leaves the column alone in Postgres.
BreakResolved == repo = "break" /\
    \E id \in Ids, e \in Envs, status \in {"RESOLVED", "WRITTEN_OFF"}, adjustment \in 0 .. 1 :
      LET input == [id |-> id, environment |-> e, status |-> status, resolvedBy |-> "operator",
                    adjustment |-> adjustment, at |-> NewId]
          m == Mem!resolveManually(mem, input)
          s == Sql!resolveManually(sql, input)
      IN  CallUnless(\E r \in sql : r.id = id /\ r.adjustment # 0 /\ adjustment = 0,
                     result(m.rows, mapped(m.answer, Seen)), result(s.rows, mapped(s.answer, Seen)))

CursorCalls == repo = "cursor" /\
    \/ \E connection \in {"c1", "c2"}, stream \in {"statement", "accounts"} :
         LET row == [id |-> NewId, connectionId |-> connection, stream |-> stream, scopeId |-> "a",
                     cursor |-> 0, watermark |-> 0, lastRunAt |-> 0]
         IN  Call(Mem!ensureCursor(mem, row), Sql!ensureCursor(sql, row))
    \/ \E id \in Ids :
         \/ LET input == [id |-> id, watermark |-> NewId, cursor |-> id, at |-> NewId]
            IN  CallIf(Known(id), Mem!advanceCursor(mem, input), Sql!advanceCursor(sql, input))
         \/ CallIf(Known(id), Mem!recordCursorFailure(mem, id, NewId), Sql!recordCursorFailure(sql, id, NewId))

EventCalls == repo = "event" /\
    \/ \E e \in Envs, subject \in {"s1", "s2"} :
         LET draft == [id |-> NewId, environment |-> e, subjectId |-> subject, createdAt |-> NewId,
                       dispatchedAt |-> 0, sequence |-> 0]
         IN  Call(Mem!appendOutbox(mem, draft), Sql!appendOutbox(sql, draft))
    \/ \E limit \in 1 .. 2 : Call(Mem!claimBatch(mem, limit, NewId), Sql!claimBatch(sql, limit, NewId))

\* Endpoints are there from the start: no code of the API adds one.
EndpointCalls == repo = "endpoint" /\
    \E id \in 1 .. 2 :
      \/ \E threshold \in 1 .. 2 :
           Call(Mem!registerFailure(mem, id, threshold, NewId), Sql!registerFailure(sql, id, threshold, NewId))
      \/ Call(Mem!resetFailures(mem, id), Sql!resetFailures(sql, id))
      \/ Call(Mem!disableEndpoint(mem, id, NewId), Sql!disableEndpoint(sql, id, NewId))

DeliverySchedule == repo = "delivery" /\
    \E event \in DOMAIN OutboxEvents, endpoint \in 1 .. 2, attempt \in 1 .. 2 :
      LET row == [id |-> NewId, eventId |-> event, endpointId |-> endpoint, attempt |-> attempt,
                  status |-> "", scheduledFor |-> NewId, attemptedAt |-> 0, error |-> ""]
          twin == \E r \in sql : r.eventId = event /\ r.endpointId = endpoint /\ r.attempt = attempt
      IN  IF attempt = 1
          THEN Call(Mem!scheduleFirstAttempt(mem, row), Sql!scheduleFirstAttempt(sql, row))
          ELSE CallIf(~twin, Mem!scheduleRetry(mem, row), Sql!scheduleRetry(sql, row))

\* A failure has an error: a success after it is written over it with null in memory and
\* leaves the column alone in Postgres.
DeliveryEnd == repo = "delivery" /\
    \/ \E id \in Ids, ok \in BOOLEAN :
         LET input == [id |-> id, status |-> IF ok THEN "SUCCEEDED" ELSE "FAILED",
                       error |-> IF ok THEN "" ELSE "HTTP", at |-> NewId]
         IN  CallUnless(~\E r \in sql : r.id = id /\ (ok => r.error = ""),
                        Mem!completeDelivery(mem, input), Sql!completeDelivery(sql, input))
    \/ \E endpoint \in 1 .. 2 :
         Call(Mem!exhaustPendingForEndpoint(mem, endpoint, "endpoint_disabled"),
              Sql!exhaustPendingForEndpoint(sql, endpoint, "endpoint_disabled"))

ApiKeyCalls == repo = "apiKey" /\
    \/ \E e \in Envs :
         LET row == [id |-> NewId, environment |-> e, status |-> "", secretHash |-> NewId,
                     secretLookup |-> NewId]
         IN  Call(Mem!createApiKey(mem, row), Sql!createApiKey(sql, row))
    \/ \E id \in Ids, e \in Envs : Call(Mem!revokeApiKey(mem, e, id), Sql!revokeApiKey(sql, e, id))

ConnectionCreate == repo = "connection" /\
    \E e \in Envs, label \in {"x", "y"}, secret \in 0 .. 1 :
      LET input == [id |-> NewId, environment |-> e, label |-> label, status |-> "", credentials |-> NewId,
                    version |-> 1, fingerprint |-> NewId, webhookSecret |-> secret, health |-> ""]
      IN  CallIf(\A r \in sql : ~(r.environment = e /\ r.label = label),
                 Mem!createConnection(mem, input), Sql!createConnection(sql, input))

ConnectionChange == repo = "connection" /\
    \E id \in Ids, e \in Envs :
      \/ \E secret \in 0 .. 1 :
           LET input == [id |-> id, environment |-> e, credentials |-> NewId, version |-> 1,
                         webhookSecret |-> secret * NewId]
           IN  Call(Mem!rotateConnection(mem, input), Sql!rotateConnection(sql, input))
      \/ \E status \in {"", "ACTIVE", "DISABLED"} :
           LET input == [id |-> id, environment |-> e, label |-> IF status = "" THEN "z" ELSE "", status |-> status]
           IN  CallIf(status # "" \/ \A r \in sql : ~(r.environment = e /\ r.label = "z" /\ r.id # id),
                      Mem!updateConnection(mem, input), Sql!updateConnection(sql, input))
      \/ \E healthy \in BOOLEAN :
           CallIf(Known(id), Mem!recordConnectionHealth(mem, id, healthy),
                  Sql!recordConnectionHealth(sql, id, healthy))

\* The double moves the instant of a session already revoked.
SessionCalls == repo = "session" /\
    \/ \E user \in {"u1", "u2"} :
         LET row == [id |-> NewId, userId |-> user, hash |-> NewId, expiresAt |-> NewId, revokedAt |-> 0]
         IN  Call(Mem!createConsoleSession(mem, row), Sql!createConsoleSession(sql, row))
    \/ \E id \in Ids : Call(Mem!rotateSession(mem, id, NewId, NewId), Sql!rotateSession(sql, id, NewId, NewId))
    \/ \E id \in Ids :
         CallUnless(\E r \in sql : r.id = id /\ r.revokedAt # 0,
                    Mem!revokeSession(mem, id, NewId), Sql!revokeSession(sql, id, NewId))
    \/ \E user \in {"u1", "u2"} :
         Call(Mem!revokeAllForUser(mem, user, NewId), Sql!revokeAllForUser(sql, user, NewId))

IdempotencyClaim == repo = "idempotency" /\
    \E e \in Envs, key \in 1 .. 2 :
      LET input == [id |-> NewId, environment |-> e, endpointKey |-> "pix", key |-> key, state |-> "",
                    leaseExpiresAt |-> 1, responseStatus |-> 0]
      IN  Call(Mem!claimIdempotency(mem, input, NewId), Sql!claimIdempotency(sql, input, NewId))

\* Of a record that is not in flight, the double lets the lease be stolen.
IdempotencyEnd == repo = "idempotency" /\
    \E id \in Ids :
      \/ CallUnless(\E r \in sql : r.id = id /\ r.state # "IN_FLIGHT",
                    Mem!stealLease(mem, id, 1, NewId), Sql!stealLease(sql, id, 1, NewId))
      \/ CallIf(Known(id), Mem!renewLease(mem, id, 1, NewId), Sql!renewLease(sql, id, 1, NewId))
      \/ Call(Mem!releaseIdempotency(mem, id), Sql!releaseIdempotency(sql, id))
      \/ \E state \in {"COMPLETED", "FAILED"} :
           CallIf(Known(id), Mem!completeIdempotency(mem, id, state, 200),
                  Sql!completeIdempotency(sql, id, state, 200))

-----------------------------------------------------------------------------
(* The queries. *)

\* The pages of a list: without a cursor, and after each row of the list.
SamePages(MemList(_, _), SqlList(_, _)) ==
    LET whole == MemList(0, MaxCalls + 1).data
    IN  \A cursor \in {0} \cup {r.id : r \in asSet(whole)}, limit \in 1 .. 2 :
          LET m == MemList(cursor, limit)
              s == SqlList(cursor, limit)
          IN  /\ mapped(m.data, Seen) = mapped(s.data, Seen)
              /\ m.nextCursor = s.nextCursor

SameDomainReads ==
    CASE repo = "holder" ->
           \A e \in Envs, n \in Ids :
             /\ Mem!findHolder(mem, e, n) = Sql!findHolder(sql, e, n)
             /\ Mem!findHolderByTaxId(mem, e, n) = Sql!findHolderByTaxId(sql, e, n)
             /\ Mem!taxIdEnvelope(mem, e, n) = Sql!taxIdEnvelope(sql, e, n)
      [] repo = "account" ->
           \A e \in Envs :
             /\ \A n \in Ids :
                  /\ Mem!findAccount(mem, e, n) = Sql!findAccount(sql, e, n)
                  /\ Mem!findAccountByExternalId(mem, e, n) = Sql!findAccountByExternalId(sql, e, n)
                  /\ Mem!findAccountByProviderId(mem, e, "bank", n) = Sql!findAccountByProviderId(sql, e, "bank", n)
             /\ \A connection \in {"", "c1"}, status \in {"", "ACTIVE"}, external \in 0 .. 1 :
                  LET filter(cursor, limit) ==
                        [environment |-> e, connectionId |-> connection, status |-> status,
                         externalId |-> external, cursor |-> cursor, limit |-> limit]
                  IN  SamePages(LAMBDA c, l : Mem!listAccounts(mem, filter(c, l)),
                                LAMBDA c, l : Sql!listAccounts(sql, filter(c, l)))
      [] repo = "case" ->
           \A e \in Envs, n \in Ids :
             /\ Mem!findCase(mem, e, n) = Sql!findCase(sql, e, n)
             /\ Mem!findCaseByAccount(mem, e, n) = Sql!findCaseByAccount(sql, e, n)
             /\ Mem!findCaseByProviderId(mem, e, "bank", n) = Sql!findCaseByProviderId(sql, e, "bank", n)
      [] repo = "audit" ->
           \A e \in Envs, actor \in {"", "u1"}, resource \in {"", "r1"}, from \in 0 .. 2, to \in {0, 2} :
             LET filter(cursor, limit) ==
                   [environment |-> e, actorId |-> actor, resourceId |-> resource, from |-> from, to |-> to,
                    cursor |-> cursor, limit |-> limit]
             IN  SamePages(LAMBDA c, l : Mem!listAudit(mem, filter(c, l)),
                           LAMBDA c, l : Sql!listAudit(sql, filter(c, l)))
      [] repo = "inbound" ->
           /\ \A n \in Ids :
                /\ Mem!findInbound(mem, n) = Sql!findInbound(sql, n)
                /\ asSet(Mem!findStale(mem, n, MaxCalls)) = Sql!staleRows(sql, n)
           /\ \A e \in Envs, connection \in {"", "c1"}, status \in {"", "FAILED"}, from \in 0 .. 2, to \in {0, 2} :
                LET filter(cursor, limit) ==
                      [environment |-> e, connectionId |-> connection, status |-> status, from |-> from,
                       to |-> to, cursor |-> cursor, limit |-> limit]
                IN  SamePages(LAMBDA c, l : Mem!listInbound(mem, filter(c, l)),
                              LAMBDA c, l : Sql!listInbound(sql, filter(c, l)))
      [] OTHER -> TRUE

SamePixReads ==
    CASE repo = "transaction" ->
           /\ \A e \in Envs, n \in Ids :
                /\ Mem!findTransaction(mem, e, n) = Sql!findTransaction(sql, e, n)
                /\ Mem!findByProviderTransactionId(mem, e, "bank", n) = Sql!findByProviderTransactionId(sql, e, "bank", n)
                /\ Mem!findByEndToEndId(mem, e, n) = Sql!findByEndToEndId(sql, e, n)
                /\ Mem!findByIdempotencyKey(mem, e, n) = Sql!findByIdempotencyKey(sql, e, n)
           /\ \A e \in Envs, status \in {"", "SETTLED"}, direction \in {"", "DEBIT"} :
                LET filter(cursor, limit) ==
                      [environment |-> e, accountId |-> "a", status |-> status, direction |-> direction,
                       endToEndId |-> 0, cursor |-> cursor, limit |-> limit]
                IN  SamePages(LAMBDA c, l : Mem!listTransactions(mem, filter(c, l)),
                              LAMBDA c, l : Sql!listTransactions(sql, filter(c, l)))
           /\ \A window \in Windows, limit \in 1 .. 2, r \in sql \cup {[id |-> 0, effectiveDate |-> 0]} :
                LET filter == statementQuery(window, limit, Sql!positionOf(r))
                IN  Mem!statement(mem, filter) = Sql!statement(sql, filter)
      [] repo = "key" ->
           \A e \in Envs :
             /\ Mem!listKeys(mem, e, "a") = Sql!listKeys(sql, e, "a")
             /\ \A n \in Ids : /\ Mem!findKey(mem, e, n) = Sql!findKey(sql, e, n)
                               /\ Mem!findActiveKey(mem, e, n) = Sql!findActiveKey(sql, e, n)
      [] repo = "charge" ->
           \A e \in Envs, n \in 1 .. 2 :
             /\ Mem!findCharge(mem, e, n) = Sql!findCharge(sql, e, n)
             /\ Mem!listCharges(mem, e, "a", n) = Sql!listCharges(sql, e, "a", n)
      \* The batch is compared whole: which of the stuck operations come first differs.
      [] repo = "operation" ->
           \A e \in Envs :
             /\ \A n \in Ids : Mem!findOperation(mem, e, n) = Sql!findOperation(sql, e, n)
             /\ asSet(Mem!findStuck(mem, e, MaxCalls)) = asSet(Sql!findStuck(sql, e, MaxCalls))
      [] OTHER -> TRUE

SameWorkerReads ==
    CASE repo = "run" ->
           \A e \in Envs :
             /\ \A n \in Ids : Mem!findRun(mem, e, n) = Sql!findRun(sql, e, n)
             /\ \A status \in {"", "RUNNING"} :
                  LET filter(cursor, limit) == [environment |-> e, accountId |-> "a", status |-> status,
                                                cursor |-> cursor, limit |-> limit]
                  IN  SamePages(LAMBDA c, l : Mem!listRuns(mem, filter(c, l)),
                                LAMBDA c, l : Sql!listRuns(sql, filter(c, l)))
      [] repo = "break" ->
           \A e \in Envs :
             /\ Mem!countOpenHighSeverity(mem, e, "a") = Sql!countOpenHighSeverity(sql, e, "a")
             /\ \A n \in Ids : mapped(Mem!findBreak(mem, e, n), Seen) = mapped(Sql!findBreak(sql, e, n), Seen)
             /\ \A status \in {"", "WRITTEN_OFF"}, severity \in {"", "HIGH"}, age \in 0 .. 1 :
                  LET filter(cursor, limit) ==
                        [environment |-> e, accountId |-> "a", status |-> status, severity |-> severity,
                         minAgeDays |-> age, cursor |-> cursor, limit |-> limit]
                  IN  SamePages(LAMBDA c, l : Mem!listBreaks(mem, filter(c, l)),
                                LAMBDA c, l : Sql!listBreaks(sql, filter(c, l)))
      [] repo = "cursor" ->
           \A stream \in {"statement", "accounts"} : Mem!listCursors(mem, stream) = Sql!listCursors(sql, stream)
      [] repo = "event" ->
           /\ Mem!pendingStats(mem, NewId) = Sql!pendingStats(sql, NewId)
           /\ \A n \in Ids : Mem!findEvent(mem, n) = Sql!findEvent(sql, n)
      [] repo = "endpoint" ->
           \A e \in Envs :
             /\ Mem!listActiveEndpoints(mem, e) = Sql!listActiveEndpoints(sql, e)
             /\ Mem!listEndpoints(mem, e) = Sql!listEndpoints(sql, e)
             /\ \A n \in 1 .. 2 : Mem!findEndpoint(mem, n) = Sql!findEndpoint(sql, n)
      [] repo = "delivery" ->
           /\ \A n \in Ids : /\ Mem!findDelivery(mem, n) = Sql!findDelivery(sql, n)
                             /\ Mem!claimDue(mem, 1, n) = Sql!claimDue(sql, 1, n)
           /\ \A endpoint \in 1 .. 2, n \in 1 .. 3 :
                Mem!hasEarlierPending(mem, OutboxEvents, endpoint, "s", n)
                  = Sql!hasEarlierPending(sql, OutboxEvents, endpoint, "s", n)
           /\ \A e \in Envs, endpoint \in 0 .. 1, status \in {"", "PENDING"} :
                LET filter(cursor, limit) == [environment |-> e, endpointId |-> endpoint, status |-> status,
                                              cursor |-> cursor, limit |-> limit]
                IN  SamePages(LAMBDA c, l : Mem!listDeliveries(mem, OutboxEvents, filter(c, l)),
                              LAMBDA c, l : Sql!listDeliveries(sql, OutboxEvents, filter(c, l)))
      [] OTHER -> TRUE

SameAccessReads ==
    CASE repo = "apiKey" ->
           /\ \A n \in Ids : Mem!findApiKeyByLookup(mem, n) = Sql!findApiKeyByLookup(sql, n)
           /\ \A e \in Envs :
                /\ \A n \in Ids : Mem!findApiKey(mem, e, n) = Sql!findApiKey(sql, e, n)
                /\ \A status \in {"", "ACTIVE"} : Mem!listApiKeys(mem, e, status) = Sql!listApiKeys(sql, e, status)
      [] repo = "connection" ->
           /\ mapped(Mem!listActiveConnections(mem), Seen) = mapped(Sql!listActiveConnections(sql), Seen)
           /\ \A n \in Ids :
                mapped(Mem!findConnection(mem, n), Seen) = mapped(Sql!findConnection(sql, n), Seen)
           /\ \A e \in Envs :
                /\ Mem!listConnections(mem, e) = Sql!listConnections(sql, e)
                /\ \A n \in Ids : Mem!findConnectionSummary(mem, e, n) = Sql!findConnectionSummary(sql, e, n)
      [] repo = "session" ->
           \A n \in Ids : Mem!findConsoleSession(mem, n) = Sql!findConsoleSession(sql, n)
      [] repo = "idempotency" ->
           \A e \in Envs, n \in 1 .. 2 : Mem!findIdempotency(mem, e, "pix", n) = Sql!findIdempotency(sql, e, "pix", n)
      [] OTHER -> TRUE

\* The queries of the repository of this behaviour, asked of both: they write nothing.
AskBoth ==
    /\ ~parted
    /\ told' = (SameDomainReads /\ SamePixReads /\ SameWorkerReads /\ SameAccessReads)
    /\ UNCHANGED <<repo, mem, sql, parted, calls, walk>>

-----------------------------------------------------------------------------
EndpointRows ==
    [id \in 1 .. 2 |-> [id |-> id, environment |-> IF id = 1 THEN "H" ELSE "P", status |-> "ACTIVE",
                        previousSecret |-> id - 1, consecutiveFailures |-> 0, disabledAt |-> 0]]

DoublesInit ==
    /\ repo \in Repos
    /\ mem = IF repo = "endpoint" THEN EndpointRows ELSE <<>>
    /\ sql = asSet(mem)
    /\ told = TRUE /\ parted = FALSE /\ calls = 0 /\ walk = NotWalking

DoublesNext ==
    \/ HolderCalls \/ AccountCreate \/ AccountAttach \/ AccountChange \/ CaseCreate \/ CaseChange
    \/ AuditCalls \/ InboundClaim \/ InboundMark
    \/ TransactionCreate \/ TransactionChange \/ TransactionAttach \/ listStatement
    \/ KeyCreate \/ KeyRemove \/ ChargeCreate \/ ChargeChange \/ OperationCreate \/ OperationUpdate
    \/ RunStart \/ RunEnd \/ BreakSeen \/ BreakClosed \/ BreakResolved \/ CursorCalls
    \/ EventCalls \/ EndpointCalls \/ DeliverySchedule \/ DeliveryEnd
    \/ ApiKeyCalls \/ ConnectionCreate \/ ConnectionChange \/ SessionCalls
    \/ IdempotencyClaim \/ IdempotencyEnd
    \/ AskBoth

DoublesSpec == DoublesInit /\ [][DoublesNext]_doublesVars

-----------------------------------------------------------------------------
(* What is compared. *)

\* So long as Postgres refused no call, and no call was one of the five the twins take
\* differently (a second case of an account, an adjustment taken back, a delivery that
\* succeeds after it failed, a session revoked twice, the lease of a settled record stolen),
\* the double of a repository holds the rows the table holds, but for the columns Seen
\* names, gave the answer the repository over Postgres gave, and answers every query as
\* that one does: page by page where the query has an order, as a set where it has none.
\* That far, and no further, what the suites show on the doubles is about production.
TwinsAgree ==
    ~parted =>
      /\ told
      /\ {Seen(r) : r \in asSet(mem)} = {Seen(r) : r \in sql}
      /\ Len(mem) = Cardinality(sql)

\* A client that walks a statement to its last page has been shown no entry twice, and
\* every entry that was in the statement from its first page to its last, whatever was
\* posted, settled or reversed meanwhile and whatever limits it asked for.
StatementWalkIsExact ==
    walk.at = "end" =>
      /\ \A i, j \in DOMAIN walk.shown : walk.shown[i] = walk.shown[j] => i = j
      /\ walk.kept \subseteq asSet(walk.shown)
=============================================================================
