------------------------- MODULE PrismaRepositories -------------------------
(***************************************************************************)
(* The repositories of apps/api/src/persistence over Prisma and Postgres,  *)
(* as the calls they make see the tables: each table is a set of rows.     *)
(* The operators have the names of MemoryRepositories.                     *)
(***************************************************************************)
EXTENDS Rows

\* The mappers copy the columns they name, and no other.
columns(row, names) == [f \in names |-> row[f]]

withId(table, id) == findFirst(table, LAMBDA r : r.id = id)
inEnvironment(table, environment, id) == findFirst(table, LAMBDA r : r.id = id /\ r.environment = environment)

\* id: { lt: cursor }, orderBy id desc, take limit + 1.
keysetById(table, Fits(_), cursor, limit, To(_)) ==
  LET rows == ordered({r \in table : Fits(r) /\ (cursor = 0 \/ r.id < cursor)}, newerId)
  IN  pageOf(mapped(take(rows, limit + 1), To), limit, idOf, 0)

-----------------------------------------------------------------------------
(* domain.repositories.ts *)

toHolder(row) == columns(row, {"id", "environment", "taxIdBlindIndex"})
findHolderByTaxId(table, environment, blindIndex) ==
  mapped(findFirst(table, LAMBDA r : r.environment = environment /\ r.taxIdBlindIndex = blindIndex), toHolder)
findHolder(table, environment, id) == mapped(inEnvironment(table, environment, id), toHolder)
taxIdEnvelope(table, environment, id) ==
  mapped(inEnvironment(table, environment, id), LAMBDA r : [envelope |-> r.envelope, version |-> 1])
createHolder(table, row) == result(table \cup {row}, <<toHolder(row)>>)

toAccount(row) ==
  columns(row, {"id", "environment", "externalId", "provider", "providerAccountId", "providerConnectionId",
                "status", "statusReasonCode", "statusChangedAt", "lastEventAt", "number", "openedAt",
                "closedAt", "ledger"})
findAccount(table, environment, id) == mapped(inEnvironment(table, environment, id), toAccount)
findAccountByExternalId(table, environment, externalId) ==
  mapped(findFirst(table, LAMBDA r : r.environment = environment /\ r.externalId = externalId), toAccount)
findAccountByProviderId(table, environment, provider, providerAccountId) ==
  mapped(findFirst(table, LAMBDA r : /\ r.environment = environment /\ r.provider = provider
                                     /\ r.providerAccountId = providerAccountId), toAccount)

listAccounts(table, filter) ==
  LET fits(r) == /\ r.environment = filter.environment
                 /\ asked(filter.connectionId, r.providerConnectionId, "")
                 /\ asked(filter.status, r.status, "")
                 /\ asked(filter.externalId, r.externalId, 0)
  IN  keysetById(table, fits, filter.cursor, filter.limit, toAccount)

createAccount(table, row) == result(table \cup {row}, <<toAccount(row)>>)

\* An update by id answers the row as written; without a row it throws.
updateById(table, id, New(_), To(_)) ==
  result(update(table, LAMBDA r : r.id = id, New),
         mapped(withId(table, id), LAMBDA r : To(New(r))))

attachLedgerAccounts(table, input) ==
  updateById(table, input.id, LAMBDA r : [r EXCEPT !.ledger = input.ledger], toAccount)
attachProviderAccount(table, input) ==
  updateById(table, input.id,
             LAMBDA r : [r EXCEPT !.providerAccountId = input.providerAccountId, !.status = input.status,
                                  !.number = orKeep(input.number, @, 0),
                                  !.openedAt = orKeep(input.openedAt, @, 0)], toAccount)

\* applyStatusChange: the row under SELECT ... FOR UPDATE, the two tests, the write.
changeUnderLock(table, locked, fsm, input, New(_), To(_)) ==
  LET current == locked[1]
      reason  == refusal(fsm, current.status, input.toStatus, input.occurredAt, current.lastEventAt)
  IN  IF locked = <<>> THEN result(table, refuseChange("not_found", ""))
      ELSE IF reason # "" THEN result(table, refuseChange(reason, current.status))
      ELSE result((table \ {current}) \cup {New(current)}, applyChange(To(New(current))))

changeAccountStatus(table, input) ==
  changeUnderLock(table, inEnvironment(table, input.environment, input.id), Fsm.account, input,
    LAMBDA r : [r EXCEPT !.status = input.toStatus,
                         !.statusReasonCode = orKeep(input.reasonCode, @, 0),
                         !.statusChangedAt = input.occurredAt, !.lastEventAt = input.occurredAt,
                         !.closedAt = IF input.toStatus = "CLOSED" THEN input.occurredAt ELSE @],
    toAccount)

toOnboarding(row) ==
  columns(row, {"id", "environment", "accountId", "provider", "providerCaseId", "status", "rejectionCode",
                "lastEventAt", "decidedAt", "requirements"})
findCase(table, environment, id) == mapped(inEnvironment(table, environment, id), toOnboarding)
\* The case created last.
findCaseByAccount(table, environment, accountId) ==
  mapped(take(ordered({r \in table : r.environment = environment /\ r.accountId = accountId}, newerId), 1),
         toOnboarding)
findCaseByProviderId(table, environment, provider, providerCaseId) ==
  mapped(findFirst(table, LAMBDA r : /\ r.environment = environment /\ r.provider = provider
                                     /\ r.providerCaseId = providerCaseId), toOnboarding)
createCase(table, row) == result(table \cup {row}, <<toOnboarding(row)>>)

\* updateMany of the pending codes that left the list, then an insert of each code listed:
\* the upsert looks for an id no requirement has.  Postgres refuses a code that is there.
syncRequirementRows(known, listed) ==
  [code \in DOMAIN known \cup listed |->
     IF code \in DOMAIN known
     THEN IF known[code] = "PENDING" /\ code \notin listed THEN "ACCEPTED" ELSE known[code]
     ELSE "PENDING"]

changeCaseStatus(table, input) ==
  changeUnderLock(table, inEnvironment(table, input.environment, input.id), Fsm.onboarding, input,
    LAMBDA r : [r EXCEPT !.status = input.toStatus,
                         !.rejectionCode = orKeep(input.rejectionCode, @, 0),
                         !.lastEventAt = input.occurredAt,
                         !.decidedAt = IF input.toStatus \in {"APPROVED", "REJECTED"}
                                       THEN input.occurredAt ELSE @,
                         !.requirements = IF input.listed = <<>> THEN @
                                          ELSE syncRequirementRows(@, input.listed[1])],
    toOnboarding)

\* The sequence is the table's: the next number.
appendOutbox(table, draft) ==
  result(table \cup {[draft EXCEPT !.sequence = Cardinality(table) + 1]}, <<>>)

toAuditRecord(row) == columns(row, {"id", "environment", "actorId", "resourceId", "occurredAt"})
recordAudit(table, draft) == result(table \cup {[draft EXCEPT !.id = Cardinality(table) + 1]}, <<>>)
listAudit(table, filter) ==
  LET fits(r) == /\ r.environment = filter.environment
                 /\ asked(filter.actorId, r.actorId, "")
                 /\ asked(filter.resourceId, r.resourceId, "")
                 /\ filter.from = 0 \/ r.occurredAt >= filter.from
                 /\ filter.to = 0 \/ r.occurredAt <= filter.to
  IN  keysetById(table, fits, filter.cursor, filter.limit, toAuditRecord)

toInboundEvent(row) ==
  columns(row, {"id", "environment", "connectionId", "provider", "dedupeKey", "receivedAt", "status",
                "attempts", "lastError", "processedAt"})

\* INSERT ... ON CONFLICT DO NOTHING on (connection_id, dedupe_key).
claimInbound(table, row) ==
  LET existing == findFirst(table, LAMBDA r : r.connectionId = row.connectionId /\ r.dedupeKey = row.dedupeKey)
  IN  IF existing = <<>> THEN result(table \cup {row}, [inserted |-> TRUE, record |-> <<row>>])
      ELSE result(table, [inserted |-> FALSE, record |-> mapped(existing, toInboundEvent)])
findInbound(table, id) == mapped(withId(table, id), toInboundEvent)

markProcessing(table, id) ==
  LET mine(r) == r.id = id /\ r.status \in {"RECEIVED", "FAILED"}
  IN  result(update(table, mine, LAMBDA r : [r EXCEPT !.status = "PROCESSING", !.attempts = @ + 1]),
             Cardinality({r \in table : mine(r)}) = 1)
markProcessed(table, id, at) ==
  result(update(table, LAMBDA r : r.id = id,
                LAMBDA r : [r EXCEPT !.status = "PROCESSED", !.processedAt = at]), <<>>)
markDiscarded(table, id, reason) ==
  result(update(table, LAMBDA r : r.id = id,
                LAMBDA r : [r EXCEPT !.status = "DISCARDED", !.lastError = reason]), <<>>)
markFailed(table, id, error, deadLetter) ==
  result(update(table, LAMBDA r : r.id = id,
                LAMBDA r : [r EXCEPT !.status = IF deadLetter THEN "DEAD_LETTER" ELSE "FAILED",
                                     !.lastError = error]), <<>>)

\* Without an order: any rows the plan reaches first.
staleRows(table, olderThan) ==
  {r \in table : r.status \in {"RECEIVED", "PROCESSING"} /\ r.receivedAt <= olderThan}

listInbound(table, filter) ==
  LET fits(r) == /\ r.environment = filter.environment
                 /\ asked(filter.connectionId, r.connectionId, "")
                 /\ asked(filter.status, r.status, "")
                 /\ filter.from = 0 \/ r.receivedAt >= filter.from
                 /\ filter.to = 0 \/ r.receivedAt <= filter.to
  IN  keysetById(table, fits, filter.cursor, filter.limit, toInboundEvent)

-----------------------------------------------------------------------------
(* pix.repositories.ts *)

\* processingAt is a column of the table and no field of the record.
toTransaction(row) ==
  columns(row, {"id", "environment", "accountId", "provider", "providerTransactionId", "idempotencyKey",
                "endToEndId", "settlementAt", "direction", "status", "lastEventAt", "failureCode",
                "settledAt", "failedAt", "ledgerPosted", "effectiveDate"})
findTransaction(table, environment, id) == mapped(inEnvironment(table, environment, id), toTransaction)
findByProviderTransactionId(table, environment, provider, providerTransactionId) ==
  mapped(findFirst(table, LAMBDA r : /\ r.environment = environment /\ r.provider = provider
                                     /\ r.providerTransactionId = providerTransactionId), toTransaction)
findByEndToEndId(table, environment, endToEndId) ==
  mapped(findFirst(table, LAMBDA r : r.environment = environment /\ r.endToEndId = endToEndId), toTransaction)
findByIdempotencyKey(table, environment, key) ==
  mapped(findFirst(table, LAMBDA r : r.environment = environment /\ r.idempotencyKey = key), toTransaction)

createTransaction(table, row) ==
  LET stored == [f \in DOMAIN row \cup {"processingAt"} |-> IF f = "processingAt" THEN 0 ELSE row[f]]
  IN  result(table \cup {stored}, <<toTransaction(stored)>>)

listTransactions(table, filter) ==
  LET fits(r) == /\ r.environment = filter.environment
                 /\ asked(filter.accountId, r.accountId, "")
                 /\ asked(filter.status, r.status, "")
                 /\ asked(filter.direction, r.direction, "")
                 /\ asked(filter.endToEndId, r.endToEndId, 0)
  IN  keysetById(table, fits, filter.cursor, filter.limit, toTransaction)

laterEntry(a, b) ==
  a.effectiveDate > b.effectiveDate \/ (a.effectiveDate = b.effectiveDate /\ a.id > b.id)
positionOf(r) == [date |-> r.effectiveDate, id |-> r.id]
NoPosition == [date |-> 0, id |-> 0]

\* Mutant: the keyset is on the day alone.
afterDay(r, cursor) == cursor = NoPosition \/ r.effectiveDate < cursor.date

\* The OR of the keyset: an earlier day, or the same day and a smaller id.
afterPosition(r, cursor) ==
  \/ cursor = NoPosition
  \/ r.effectiveDate < cursor.date
  \/ r.effectiveDate = cursor.date /\ r.id < cursor.id

statement(table, filter) ==
  LET fits(r) == /\ r.environment = filter.environment /\ r.accountId = filter.accountId
                 /\ r.status \in filter.statuses
                 /\ r.effectiveDate >= filter.from /\ r.effectiveDate <= filter.to
                 /\ afterPosition(r, filter.cursor)
      rows    == ordered({r \in table : fits(r)}, laterEntry)
  IN  pageOf(mapped(take(rows, filter.limit + 1), toTransaction), filter.limit, positionOf, NoPosition)

changeTransactionStatus(table, input) ==
  changeUnderLock(table, inEnvironment(table, input.environment, input.id), Fsm.transaction, input,
    LAMBDA r : [r EXCEPT !.status = input.toStatus, !.lastEventAt = input.occurredAt,
                         !.failureCode = orKeep(input.failureCode, @, 0),
                         !.settledAt = orKeep(input.settledAt, @, 0),
                         !.failedAt = IF input.toStatus = "FAILED" THEN input.occurredAt ELSE @,
                         !.processingAt = IF input.toStatus = "PROCESSING" THEN input.occurredAt ELSE @,
                         !.ledgerPosted = orKeep(input.ledgerPosted, @, 0),
                         !.endToEndId = orKeep(input.endToEndId, @, 0),
                         !.settlementAt = IF input.endToEndId # 0 THEN orKeep(input.settledAt, @, 0) ELSE @],
    toTransaction)

attachProviderTransaction(table, input) ==
  updateById(table, input.id,
             LAMBDA r : [r EXCEPT !.providerTransactionId = input.providerTransactionId,
                                  !.status = input.status,
                                  !.endToEndId = orKeep(input.endToEndId, @, 0)], toTransaction)

toPixKey(row) ==
  columns(row, {"id", "environment", "accountId", "valueBlindIndex", "status", "requestedAt", "removedAt"})
findKey(table, environment, id) == mapped(inEnvironment(table, environment, id), toPixKey)
listKeys(table, environment, accountId) ==
  mapped(ordered({r \in table : r.environment = environment /\ r.accountId = accountId},
                 LAMBDA a, b : a.requestedAt > b.requestedAt), toPixKey)
findActiveKey(table, environment, blindIndex) ==
  mapped(findFirst(table, LAMBDA r : /\ r.environment = environment /\ r.valueBlindIndex = blindIndex
                                     /\ r.status = "ACTIVE"), toPixKey)
createKey(table, row) == result(table \cup {row}, <<toPixKey(row)>>)
markRemoved(table, environment, id, at) ==
  result(update(table, LAMBDA r : r.id = id /\ r.environment = environment,
                LAMBDA r : [r EXCEPT !.status = "REMOVED", !.removedAt = at]), <<>>)

toPixCharge(row) ==
  columns(row, {"id", "environment", "accountId", "txid", "status", "revision", "paidAmount", "paidAt",
                "lastEventAt"})
findCharge(table, environment, txid) ==
  mapped(findFirst(table, LAMBDA r : r.environment = environment /\ r.txid = txid), toPixCharge)
listCharges(table, environment, accountId, limit) ==
  mapped(take(ordered({r \in table : r.environment = environment /\ r.accountId = accountId}, newerId), limit),
         toPixCharge)
createCharge(table, row) == result(table \cup {row}, <<toPixCharge(row)>>)

changeChargeStatus(table, input) ==
  LET locked  == findFirst(table, LAMBDA r : r.environment = input.environment /\ r.txid = input.txid)
      current == locked[1]
      row     == [current EXCEPT !.status = input.toStatus, !.paidAmount = orKeep(input.paidAmount, @, 0),
                                 !.paidAt = orKeep(input.paidAt, @, 0), !.lastEventAt = input.occurredAt,
                                 !.revision = @ + 1]
  IN  IF locked = <<>> THEN result(table, refuseChange("not_found", ""))
      ELSE IF current.lastEventAt > input.occurredAt THEN result(table, refuseChange("stale_timestamp", ""))
      ELSE IF current.status = input.toStatus THEN result(table, refuseChange("same_state", ""))
      ELSE IF ~checkTransition(PIX_CHARGE_STATUS_TRANSITIONS, current.status, input.toStatus)
           THEN result(table, refuseChange("illegal_transition", ""))
      ELSE result((table \ {current}) \cup {row}, applyChange(toPixCharge(row)))

toOperation(row) == columns(row, {"id", "environment", "status", "providerRef", "attempts", "updatedAt"})
findOperation(table, environment, id) == mapped(inEnvironment(table, environment, id), toOperation)
createOperation(table, row) == result(table \cup {row}, <<toOperation(row)>>)
updateOperation(table, input) ==
  LET mine(r) == r.id = input.id /\ r.environment = input.environment
      after   == update(table, mine,
                   LAMBDA r : [r EXCEPT !.status = orKeep(input.status, @, ""),
                                        !.providerRef = orKeep(input.providerRef, @, 0),
                                        !.attempts = IF input.incrementAttempts THEN @ + 1 ELSE @,
                                        !.updatedAt = input.at])
  IN  result(after, findOperation(after, input.environment, input.id))

\* status asc is the order of the enum of Postgres, where SUBMITTED comes before UNKNOWN.
OperationStatusOrder == [PENDING |-> 1, SUBMITTED |-> 2, UNKNOWN |-> 3, SETTLED |-> 4, FAILED |-> 5]
findStuck(table, environment, limit) ==
  LET place(r) == OperationStatusOrder[r.status]
  IN  mapped(take(ordered({r \in table : r.environment = environment /\ r.status \in {"UNKNOWN", "SUBMITTED"}},
                          LAMBDA a, b : \/ place(a) < place(b)
                                        \/ place(a) = place(b) /\ a.updatedAt < b.updatedAt),
                  limit), toOperation)

-----------------------------------------------------------------------------
(* reconciliation.repositories.ts *)

toRun(row) == columns(row, {"id", "environment", "connectionId", "accountId", "window", "status", "breakCount"})

\* INSERT ... ON CONFLICT DO NOTHING on the window, then the row that is there.
startRun(table, input) ==
  LET sameWindow(r) == /\ r.connectionId = input.connectionId /\ r.accountId = input.accountId
                       /\ r.window = input.window
      existing == {r \in table : sameWindow(r)}
      after    == IF existing = {} THEN table \cup {[input EXCEPT !.status = "QUEUED"]} ELSE table
  IN  result(after, [run |-> toRun(CHOOSE r \in after : sameWindow(r)), created |-> existing = {}])

findRun(table, environment, id) == mapped(inEnvironment(table, environment, id), toRun)
listRuns(table, filter) ==
  LET fits(r) == /\ r.environment = filter.environment
                 /\ asked(filter.accountId, r.accountId, "")
                 /\ asked(filter.status, r.status, "")
  IN  keysetById(table, fits, filter.cursor, filter.limit, toRun)

markRunning(table, id) ==
  result(update(table, LAMBDA r : r.id = id, LAMBDA r : [r EXCEPT !.status = "RUNNING"]), <<>>)
completeRun(table, id, status, breaks) ==
  result(update(table, LAMBDA r : r.id = id,
                LAMBDA r : [r EXCEPT !.status = status, !.breakCount = breaks]), <<>>)
failRun(table, id) ==
  result(update(table, LAMBDA r : r.id = id, LAMBDA r : [r EXCEPT !.status = "FAILED"]), <<>>)

\* Mutant: the mapper forgets the age, as it once forgot the evidence.
toBreakAgeless(row) == [row EXCEPT !.ageDays = 0]

toBreak(row) ==
  columns(row, {"id", "environment", "connectionId", "accountId", "type", "severity", "status", "dedupeKey",
                "effectiveDate", "runId", "firstSeenRunId", "delta", "item", "ageDays", "resolvedBy",
                "resolvedAt", "adjustment", "createdAt"})

\* INSERT ... ON CONFLICT DO UPDATE, RETURNING (xmax = 0).
upsertBreak(table, row, now) ==
  LET existing == findFirst(table, LAMBDA r : /\ r.connectionId = row.connectionId /\ r.type = row.type
                                              /\ r.effectiveDate = row.effectiveDate
                                              /\ r.dedupeKey = row.dedupeKey)
      old      == existing[1]
      fresh    == [row EXCEPT !.status = "OPEN", !.firstSeenRunId = row.runId, !.ageDays = 0, !.createdAt = now]
      again    == [old EXCEPT !.runId = row.runId, !.severity = row.severity, !.delta = row.delta,
                              !.item = row.item, !.ageDays = now - old.createdAt,
                              !.status = CASE @ = "WRITTEN_OFF" -> @
                                           [] @ \in {"RESOLVED", "AUTO_RESOLVED"} -> "OPEN"
                                           [] OTHER -> @]
  IN  IF existing = <<>> THEN result(table \cup {fresh}, [id |-> row.id, inserted |-> TRUE])
      ELSE result((table \ {old}) \cup {again}, [id |-> old.id, inserted |-> FALSE])

closeNotRecurring(table, input) ==
  LET ends(r) == /\ r.environment = input.environment
                 /\ r.connectionId = input.connectionId /\ r.accountId = input.accountId
                 /\ r.effectiveDate >= input.from /\ r.effectiveDate <= input.to
                 /\ r.status \in {"OPEN", "INVESTIGATING"} /\ r.dedupeKey \notin input.keep
  IN  result(update(table, ends, LAMBDA r : [r EXCEPT !.status = "AUTO_RESOLVED", !.resolvedAt = input.at,
                                                      !.resolvedBy = "worker:reconciliation"]),
             Cardinality({r \in table : ends(r)}))

findBreak(table, environment, id) == mapped(inEnvironment(table, environment, id), toBreak)

\* An absent value leaves the column as it was.
resolveManually(table, input) ==
  LET mine(r) == r.id = input.id /\ r.environment = input.environment
      after   == update(table, mine,
                   LAMBDA r : [r EXCEPT !.status = input.status, !.resolvedAt = input.at,
                                        !.resolvedBy = orKeep(input.resolvedBy, @, ""),
                                        !.adjustment = orKeep(input.adjustment, @, 0)])
  IN  result(after, findBreak(after, input.environment, input.id))

countOpenHighSeverity(table, environment, accountId) ==
  Cardinality({r \in table : /\ r.environment = environment /\ r.accountId = accountId
                             /\ r.status \in {"OPEN", "INVESTIGATING"}
                             /\ r.severity \in {"HIGH", "CRITICAL"}})

listBreaks(table, filter) ==
  LET fits(r) == /\ r.environment = filter.environment
                 /\ r.status \in (IF filter.status = "" THEN {"OPEN", "INVESTIGATING"} ELSE {filter.status})
                 /\ asked(filter.severity, r.severity, "")
                 /\ asked(filter.accountId, r.accountId, "")
                 /\ r.ageDays >= filter.minAgeDays
  IN  keysetById(table, fits, filter.cursor, filter.limit, toBreak)

toCursor(row) == columns(row, {"id", "connectionId", "stream", "scopeId", "cursor", "watermark", "lastRunAt"})
ensureCursor(table, row) ==
  LET same(r) == r.connectionId = row.connectionId /\ r.stream = row.stream /\ r.scopeId = row.scopeId
      after   == IF \E r \in table : same(r) THEN table ELSE table \cup {row}
  IN  result(after, mapped(findFirst(after, same), toCursor))
advanceCursor(table, input) ==
  result(update(table, LAMBDA r : r.id = input.id,
                LAMBDA r : [r EXCEPT !.watermark = input.watermark, !.cursor = input.cursor,
                                     !.lastRunAt = input.at]), <<>>)
recordCursorFailure(table, id, at) ==
  result(update(table, LAMBDA r : r.id = id, LAMBDA r : [r EXCEPT !.lastRunAt = at]), <<>>)
listCursors(table, stream) == mapped(ordered({r \in table : r.stream = stream}, olderId), toCursor)

-----------------------------------------------------------------------------
(* outbox-delivery.repositories.ts *)

toClaimedEvent(row) == columns(row, {"id", "environment", "subjectId", "createdAt"})

\* The oldest events not yet dispatched, marked in the statement that selects them.  No
\* other dispatcher holds a lock here, so SKIP LOCKED skips nothing.
claimBatch(table, limit, at) ==
  LET batch == take(ordered({r \in table : r.dispatchedAt = 0}, olderId), limit)
  IN  result(update(table, LAMBDA r : r \in asSet(batch), LAMBDA r : [r EXCEPT !.dispatchedAt = at]),
             mapped(batch, toClaimedEvent))
findEvent(table, id) == mapped(withId(table, id), toClaimedEvent)

pendingStats(table, now) ==
  LET pending == {r \in table : r.dispatchedAt = 0}
      oldest  == CHOOSE t \in {r.createdAt : r \in pending} : \A r \in pending : t <= r.createdAt
  IN  [pending |-> Cardinality(pending), oldestAge |-> IF pending = {} THEN 0 ELSE now - oldest]

toEndpoint(row) ==
  columns(row, {"id", "environment", "status", "previousSecret", "consecutiveFailures", "disabledAt"})
listActiveEndpoints(table, environment) ==
  mapped(ordered({r \in table : r.environment = environment /\ r.status = "ACTIVE"}, olderId), toEndpoint)
findEndpoint(table, id) == mapped(withId(table, id), toEndpoint)
\* The select names no column of an envelope but the id of the previous key.
listEndpoints(table, environment) ==
  mapped(ordered({r \in table : r.environment = environment}, newerId),
         LAMBDA r : [id |-> r.id, environment |-> r.environment, status |-> r.status, secretSet |-> TRUE,
                     secretRotating |-> r.previousSecret # 0,
                     consecutiveFailures |-> r.consecutiveFailures, disabledAt |-> r.disabledAt])

\* One statement counts the failure and disables at the threshold.
registerFailure(table, id, threshold, at) ==
  LET crosses(r) == r.consecutiveFailures + 1 >= threshold
      after == update(table, LAMBDA r : r.id = id,
                 LAMBDA r : [r EXCEPT !.consecutiveFailures = @ + 1,
                                      !.status = IF crosses(r) THEN "DISABLED_BY_FAILURES" ELSE @,
                                      !.disabledAt = IF crosses(r) THEN at ELSE @])
  IN  result(after, \E r \in after : r.id = id /\ r.status = "DISABLED_BY_FAILURES")
resetFailures(table, id) ==
  result(update(table, LAMBDA r : r.id = id /\ r.consecutiveFailures > 0,
                LAMBDA r : [r EXCEPT !.consecutiveFailures = 0]), <<>>)
disableEndpoint(table, id, at) ==
  result(update(table, LAMBDA r : r.id = id,
                LAMBDA r : [r EXCEPT !.status = "DISABLED_BY_FAILURES", !.disabledAt = at]), <<>>)

toDelivery(row) ==
  columns(row, {"id", "eventId", "endpointId", "attempt", "status", "scheduledFor", "attemptedAt", "error"})

\* createMany with skipDuplicates on (event_id, endpoint_id, attempt).
insertDelivery(table, row) ==
  result(IF \E r \in table : /\ r.eventId = row.eventId /\ r.endpointId = row.endpointId
                             /\ r.attempt = row.attempt
         THEN table ELSE table \cup {row}, <<>>)
scheduleFirstAttempt(table, row) == insertDelivery(table, [row EXCEPT !.attempt = 1, !.status = "PENDING"])
scheduleRetry(table, row) == insertDelivery(table, [row EXCEPT !.status = "PENDING"])
findDelivery(table, id) == mapped(withId(table, id), toDelivery)

\* The environment is the event's: a delivery has none.
listDeliveries(table, events, filter) ==
  LET fits(r) == /\ events[r.eventId].environment = filter.environment
                 /\ asked(filter.endpointId, r.endpointId, 0)
                 /\ asked(filter.status, r.status, "")
  IN  keysetById(table, fits, filter.cursor, filter.limit, toDelivery)

claimDue(table, limit, now) ==
  mapped(take(ordered({r \in table : r.status = "PENDING" /\ r.scheduledFor <= now},
                      LAMBDA a, b : a.scheduledFor < b.scheduledFor), limit), toDelivery)

completeDelivery(table, input) ==
  result(update(table, LAMBDA r : r.id = input.id,
                LAMBDA r : [r EXCEPT !.status = input.status, !.error = orKeep(input.error, @, ""),
                                     !.attemptedAt = input.at]), <<>>)

exhaustPendingForEndpoint(table, endpointId, reason) ==
  LET ends(r) == r.endpointId = endpointId /\ r.status = "PENDING"
  IN  result(update(table, ends, LAMBDA r : [r EXCEPT !.status = "EXHAUSTED", !.error = reason]),
             Cardinality({r \in table : ends(r)}))

hasEarlierPending(table, events, endpointId, subjectId, sequence) ==
  \E r \in table : /\ r.endpointId = endpointId /\ r.status = "PENDING"
                   /\ events[r.eventId].subjectId = subjectId /\ events[r.eventId].sequence < sequence

-----------------------------------------------------------------------------
(* api-key, connection, console and idempotency repositories *)

\* RECORD_SELECT names neither secretHash nor secretLookup.
toApiKeyRecord(row) == columns(row, {"id", "environment", "status"})
findApiKeyByLookup(table, lookup) ==
  mapped(findFirst(table, LAMBDA r : r.secretLookup = lookup),
         LAMBDA r : columns(r, {"id", "environment", "secretHash", "status"}))
listApiKeys(table, environment, status) ==
  {toApiKeyRecord(r) : r \in {k \in table : k.environment = environment /\ asked(status, k.status, "")}}
findApiKey(table, environment, id) == mapped(inEnvironment(table, environment, id), toApiKeyRecord)
createApiKey(table, row) ==
  result(table \cup {[row EXCEPT !.status = "ACTIVE"]}, <<toApiKeyRecord([row EXCEPT !.status = "ACTIVE"])>>)
revokeApiKey(table, environment, id) ==
  LET mine(r) == r.id = id /\ r.environment = environment /\ r.status = "ACTIVE"
      after   == update(table, mine, LAMBDA r : [r EXCEPT !.status = "REVOKED"])
  IN  result(after, IF \E r \in table : mine(r) THEN findApiKey(after, environment, id) ELSE <<>>)

toStored(row) == columns(row, {"id", "environment", "status", "credentials", "version", "webhookSecret"})
toSummary(row) ==
  [id |-> row.id, environment |-> row.environment, label |-> row.label, status |-> row.status,
   fingerprint |-> row.fingerprint, webhookSecretSet |-> row.webhookSecret # 0, health |-> row.health]
findConnection(table, id) == mapped(withId(table, id), toStored)
listActiveConnections(table) ==
  mapped(ordered({r \in table : r.status \in {"ACTIVE", "DEGRADED"}}, olderId), toStored)
listConnections(table, environment) ==
  mapped(ordered({r \in table : r.environment = environment}, olderId), toSummary)
findConnectionSummary(table, environment, id) == mapped(inEnvironment(table, environment, id), toSummary)
createConnection(table, input) ==
  LET row == [input EXCEPT !.status = "PENDING_VALIDATION", !.health = ""]
  IN  result(table \cup {row}, <<toSummary(row)>>)

\* updateMany with the environment in its WHERE, then the summary; no row, no answer.
updateConnectionRow(table, input, New(_)) ==
  LET after == update(table, LAMBDA r : r.id = input.id /\ r.environment = input.environment, New)
  IN  result(after, findConnectionSummary(after, input.environment, input.id))
rotateConnection(table, input) ==
  updateConnectionRow(table, input,
    LAMBDA r : [r EXCEPT !.credentials = input.credentials, !.version = @ + 1,
                         !.fingerprint = input.credentials,
                         !.webhookSecret = orKeep(input.webhookSecret, @, 0)])
updateConnection(table, input) ==
  updateConnectionRow(table, input,
    LAMBDA r : [r EXCEPT !.label = orKeep(input.label, @, ""), !.status = orKeep(input.status, @, "")])
recordConnectionHealth(table, id, healthy) ==
  result(update(table, LAMBDA r : r.id = id,
                LAMBDA r : [r EXCEPT !.health = IF healthy THEN "HEALTHY" ELSE "UNHEALTHY"]), <<>>)

createConsoleSession(table, row) == result(table \cup {[row EXCEPT !.revokedAt = 0]}, <<>>)
findConsoleSession(table, id) == withId(table, id)
rotateSession(table, id, hash, expiresAt) ==
  LET mine(r) == r.id = id /\ r.revokedAt = 0
  IN  result(update(table, mine, LAMBDA r : [r EXCEPT !.hash = hash, !.expiresAt = expiresAt]),
             Cardinality({r \in table : mine(r)}) = 1)
\* A session already revoked keeps the instant it was revoked at.
revokeSession(table, id, at) ==
  result(update(table, LAMBDA r : r.id = id /\ r.revokedAt = 0, LAMBDA r : [r EXCEPT !.revokedAt = at]), <<>>)
revokeAllForUser(table, userId, at) ==
  result(update(table, LAMBDA r : r.userId = userId /\ r.revokedAt = 0,
                LAMBDA r : [r EXCEPT !.revokedAt = at]), <<>>)

toIdempotencyRecord(row) ==
  columns(row, {"id", "environment", "endpointKey", "key", "state", "leaseExpiresAt", "responseStatus"})
claimIdempotency(table, input, now) ==
  LET same(r) == /\ r.environment = input.environment
                 /\ r.endpointKey = input.endpointKey /\ r.key = input.key
      row     == [input EXCEPT !.state = "IN_FLIGHT", !.leaseExpiresAt = now + input.leaseExpiresAt]
  IN  IF \E r \in table : same(r)
      THEN result(table, [claimed |-> FALSE, record |-> toIdempotencyRecord(CHOOSE r \in table : same(r))])
      ELSE result(table \cup {row}, [claimed |-> TRUE, record |-> toIdempotencyRecord(row)])
findIdempotency(table, environment, endpointKey, key) ==
  mapped(findFirst(table, LAMBDA r : r.environment = environment /\ r.endpointKey = endpointKey /\ r.key = key),
         toIdempotencyRecord)
\* Only a request still in flight has a lease to steal.
stealLease(table, id, lease, now) ==
  LET mine(r) == r.id = id /\ r.state = "IN_FLIGHT" /\ r.leaseExpiresAt <= now
      after   == update(table, mine, LAMBDA r : [r EXCEPT !.leaseExpiresAt = now + lease])
  IN  result(after, IF \E r \in table : mine(r) THEN mapped(withId(after, id), toIdempotencyRecord) ELSE <<>>)
renewLease(table, id, lease, now) ==
  result(update(table, LAMBDA r : r.id = id, LAMBDA r : [r EXCEPT !.leaseExpiresAt = now + lease]), <<>>)
completeIdempotency(table, id, state, status) ==
  result(update(table, LAMBDA r : r.id = id,
                LAMBDA r : [r EXCEPT !.state = state, !.responseStatus = status, !.leaseExpiresAt = 0]), <<>>)
releaseIdempotency(table, id) == result({r \in table : r.id # id}, <<>>)
=============================================================================
