------------------------- MODULE MemoryRepositories -------------------------
(***************************************************************************)
(* The in-memory repositories of apps/api/src/persistence/memory, on which *)
(* the end-to-end suite runs the whole API.  Each holds its rows in a Map, *)
(* here the sequence of its values.  PrismaRepositories defines the same   *)
(* operators for the repositories of production.                           *)
(***************************************************************************)
EXTENDS Rows

get(rows, id) == find(rows, LAMBDA r : r.id = id)
getIn(rows, environment, id) == find(rows, LAMBDA r : r.id = id /\ r.environment = environment)

\* A page that starts after the row of the cursor: findIndex answers -1 for a row that
\* is not in the list, and the first page is served again.
pageAfter(all, cursor, limit) ==
  LET found == {i \in DOMAIN all : all[i].id = cursor}
      start == IF cursor = 0 \/ found = {} THEN 0 ELSE CHOOSE i \in found : TRUE
      page  == take(SubSeq(all, start + 1, Len(all)), limit)
  IN  [data |-> page,
       nextCursor |-> IF start + limit < Len(all) /\ page # <<>> THEN page[Len(page)].id ELSE 0]

-----------------------------------------------------------------------------
(* memory/domain.repositories.ts *)

\* The envelope of the tax id is in a second Map under the same id.
holderRecord(r) == [id |-> r.id, environment |-> r.environment, taxIdBlindIndex |-> r.taxIdBlindIndex]
findHolderByTaxId(rows, environment, blindIndex) ==
  mapped(find(rows, LAMBDA r : r.environment = environment /\ r.taxIdBlindIndex = blindIndex), holderRecord)
findHolder(rows, environment, id) == mapped(getIn(rows, environment, id), holderRecord)
taxIdEnvelope(rows, environment, id) ==
  mapped(getIn(rows, environment, id), LAMBDA r : [envelope |-> r.envelope, version |-> 1])
createHolder(rows, row) == result(put(rows, row), <<holderRecord(row)>>)

findAccount(rows, environment, id) == getIn(rows, environment, id)
findAccountByExternalId(rows, environment, externalId) ==
  find(rows, LAMBDA r : r.environment = environment /\ r.externalId = externalId)
findAccountByProviderId(rows, environment, provider, providerAccountId) ==
  find(rows, LAMBDA r : /\ r.environment = environment /\ r.provider = provider
                        /\ r.providerAccountId = providerAccountId)

\* The filter on the type of holder is not implemented here.
listAccounts(rows, filter) ==
  LET fits(r) == /\ r.environment = filter.environment
                 /\ asked(filter.connectionId, r.providerConnectionId, "")
                 /\ asked(filter.status, r.status, "")
                 /\ asked(filter.externalId, r.externalId, 0)
  IN  pageAfter(ordered(asSet(SelectSeq(rows, fits)), newerId), filter.cursor, filter.limit)

createAccount(rows, row) == result(put(rows, row), <<row>>)

\* The row written and answered; without a row the call throws.
writeFound(rows, id, New(_)) ==
  LET found == get(rows, id)
  IN  IF found = <<>> THEN result(rows, <<>>) ELSE result(put(rows, New(found[1])), <<New(found[1])>>)

attachLedgerAccounts(rows, input) ==
  writeFound(rows, input.id, LAMBDA r : [r EXCEPT !.ledger = input.ledger])
attachProviderAccount(rows, input) ==
  writeFound(rows, input.id,
             LAMBDA r : [r EXCEPT !.providerAccountId = input.providerAccountId, !.status = input.status,
                                  !.number = orKeep(input.number, @, 0),
                                  !.openedAt = orKeep(input.openedAt, @, 0)])

changeAccountStatus(rows, input) ==
  LET found  == getIn(rows, input.environment, input.id)
      old    == found[1]
      reason == refusal(Fsm.account, old.status, input.toStatus, input.occurredAt, old.lastEventAt)
      row    == [old EXCEPT !.status = input.toStatus,
                            !.statusReasonCode = orKeep(input.reasonCode, old.statusReasonCode, 0),
                            !.statusChangedAt = input.occurredAt,
                            !.lastEventAt = input.occurredAt,
                            !.closedAt = IF input.toStatus = "CLOSED" THEN input.occurredAt ELSE @]
  IN  IF found = <<>> THEN result(rows, refuseChange("not_found", ""))
      ELSE IF reason # "" THEN result(rows, refuseChange(reason, old.status))
      ELSE result(put(rows, row), applyChange(row))

findCase(rows, environment, id) == getIn(rows, environment, id)
findCaseByAccount(rows, environment, accountId) ==
  find(rows, LAMBDA r : r.environment = environment /\ r.accountId = accountId)
findCaseByProviderId(rows, environment, provider, providerCaseId) ==
  find(rows, LAMBDA r : /\ r.environment = environment /\ r.provider = provider
                        /\ r.providerCaseId = providerCaseId)
createCase(rows, row) == result(put(rows, row), <<row>>)

\* A requirement that left the provider's list is accepted; a new code is pending; a code
\* already there is left as it is.
requirementsAfter(known, listed) ==
  [code \in DOMAIN known \cup listed |->
     IF code \in DOMAIN known
     THEN IF code \notin listed /\ known[code] = "PENDING" THEN "ACCEPTED" ELSE known[code]
     ELSE "PENDING"]

changeCaseStatus(rows, input) ==
  LET found  == getIn(rows, input.environment, input.id)
      old    == found[1]
      reason == refusal(Fsm.onboarding, old.status, input.toStatus, input.occurredAt, old.lastEventAt)
      row    == [old EXCEPT !.status = input.toStatus,
                            !.rejectionCode = orKeep(input.rejectionCode, old.rejectionCode, 0),
                            !.lastEventAt = input.occurredAt,
                            !.decidedAt = IF input.toStatus \in {"APPROVED", "REJECTED"}
                                          THEN input.occurredAt ELSE @,
                            !.requirements = IF input.listed = <<>> THEN @
                                             ELSE requirementsAfter(@, input.listed[1])]
  IN  IF found = <<>> THEN result(rows, refuseChange("not_found", ""))
      ELSE IF reason # "" THEN result(rows, refuseChange(reason, old.status))
      ELSE result(put(rows, row), applyChange(row))

\* The place of a row is its sequence.
appendOutbox(rows, draft) == result(Append(rows, [draft EXCEPT !.sequence = Len(rows) + 1]), <<>>)

recordAudit(rows, draft) == result(Append(rows, [draft EXCEPT !.id = Len(rows) + 1]), <<>>)

listAudit(rows, filter) ==
  LET fits(r) == /\ r.environment = filter.environment
                 /\ asked(filter.actorId, r.actorId, "")
                 /\ asked(filter.resourceId, r.resourceId, "")
                 /\ filter.from = 0 \/ r.occurredAt >= filter.from
                 /\ filter.to = 0 \/ r.occurredAt <= filter.to
                 /\ filter.cursor = 0 \/ r.id < filter.cursor
  IN  pageOf(ordered(asSet(SelectSeq(rows, fits)), newerId), filter.limit, idOf, 0)

claimInbound(rows, row) ==
  LET existing == find(rows, LAMBDA r : r.connectionId = row.connectionId /\ r.dedupeKey = row.dedupeKey)
  IN  IF existing # <<>> THEN result(rows, [inserted |-> FALSE, record |-> existing])
      ELSE result(put(rows, row), [inserted |-> TRUE, record |-> <<row>>])

findInbound(rows, id) == get(rows, id)

markProcessing(rows, id) ==
  LET found == find(rows, LAMBDA r : r.id = id /\ r.status \in {"RECEIVED", "FAILED"})
  IN  IF found = <<>> THEN result(rows, FALSE)
      ELSE result(put(rows, [found[1] EXCEPT !.status = "PROCESSING", !.attempts = @ + 1]), TRUE)

\* Object.assign on the row, where there is one.
assignInbound(rows, id, New(_)) ==
  LET found == get(rows, id)
  IN  result(IF found = <<>> THEN rows ELSE put(rows, New(found[1])), <<>>)

markProcessed(rows, id, at) ==
  assignInbound(rows, id, LAMBDA r : [r EXCEPT !.status = "PROCESSED", !.processedAt = at])
markDiscarded(rows, id, reason) ==
  assignInbound(rows, id, LAMBDA r : [r EXCEPT !.status = "DISCARDED", !.lastError = reason])
markFailed(rows, id, error, deadLetter) ==
  assignInbound(rows, id, LAMBDA r :
    [r EXCEPT !.status = IF deadLetter THEN "DEAD_LETTER" ELSE "FAILED", !.lastError = error])

\* In the order of arrival.
findStale(rows, olderThan, limit) ==
  take(SelectSeq(rows, LAMBDA r : r.status \in {"RECEIVED", "PROCESSING"} /\ r.receivedAt <= olderThan), limit)

listInbound(rows, filter) ==
  LET fits(r) == /\ r.environment = filter.environment
                 /\ asked(filter.connectionId, r.connectionId, "")
                 /\ asked(filter.status, r.status, "")
                 /\ filter.from = 0 \/ r.receivedAt >= filter.from
                 /\ filter.to = 0 \/ r.receivedAt <= filter.to
                 /\ filter.cursor = 0 \/ r.id < filter.cursor
  IN  pageOf(ordered(asSet(SelectSeq(rows, fits)), newerId), filter.limit, idOf, 0)

-----------------------------------------------------------------------------
(* memory/pix.repositories.ts *)

findTransaction(rows, environment, id) == getIn(rows, environment, id)
findByProviderTransactionId(rows, environment, provider, providerTransactionId) ==
  find(rows, LAMBDA r : /\ r.environment = environment /\ r.provider = provider
                        /\ r.providerTransactionId = providerTransactionId)
findByEndToEndId(rows, environment, endToEndId) ==
  find(rows, LAMBDA r : r.environment = environment /\ r.endToEndId = endToEndId)
findByIdempotencyKey(rows, environment, key) ==
  find(rows, LAMBDA r : r.environment = environment /\ r.idempotencyKey = key)

createTransaction(rows, row) == result(put(rows, row), <<row>>)

listTransactions(rows, filter) ==
  LET fits(r) == /\ r.environment = filter.environment
                 /\ asked(filter.accountId, r.accountId, "")
                 /\ asked(filter.status, r.status, "")
                 /\ asked(filter.direction, r.direction, "")
                 /\ asked(filter.endToEndId, r.endToEndId, 0)
  IN  pageAfter(ordered(asSet(SelectSeq(rows, fits)), newerId), filter.cursor, filter.limit)

\* Newest day first, and within a day the newest id.
laterEntry(a, b) ==
  a.effectiveDate > b.effectiveDate \/ (a.effectiveDate = b.effectiveDate /\ a.id > b.id)

\* The position of an entry: the pair the order is on.  No cursor is the day 0.
positionOf(r) == [date |-> r.effectiveDate, id |-> r.id]
NoPosition == [date |-> 0, id |-> 0]

statement(rows, filter) ==
  LET fits(r) == /\ r.environment = filter.environment /\ r.accountId = filter.accountId
                 /\ r.status \in filter.statuses
                 /\ r.effectiveDate >= filter.from /\ r.effectiveDate <= filter.to
                 /\ \/ filter.cursor = NoPosition
                    \/ r.effectiveDate < filter.cursor.date
                    \/ r.effectiveDate = filter.cursor.date /\ r.id < filter.cursor.id
  IN  pageOf(ordered(asSet(SelectSeq(rows, fits)), laterEntry), filter.limit, positionOf, NoPosition)

changeTransactionStatus(rows, input) ==
  LET found  == getIn(rows, input.environment, input.id)
      old    == found[1]
      reason == refusal(Fsm.transaction, old.status, input.toStatus, input.occurredAt, old.lastEventAt)
      row    == [old EXCEPT !.status = input.toStatus, !.lastEventAt = input.occurredAt,
                            !.failureCode = orKeep(input.failureCode, @, 0),
                            !.settledAt = orKeep(input.settledAt, @, 0),
                            !.ledgerPosted = orKeep(input.ledgerPosted, @, 0),
                            !.failedAt = IF input.toStatus = "FAILED" THEN input.occurredAt ELSE @,
                            !.endToEndId = orKeep(input.endToEndId, @, 0),
                            !.settlementAt = IF input.endToEndId # 0
                                             THEN orKeep(input.settledAt, @, 0) ELSE @]
  IN  IF found = <<>> THEN result(rows, refuseChange("not_found", ""))
      ELSE IF reason # "" THEN result(rows, refuseChange(reason, old.status))
      ELSE result(put(rows, row), applyChange(row))

attachProviderTransaction(rows, input) ==
  writeFound(rows, input.id,
             LAMBDA r : [r EXCEPT !.providerTransactionId = input.providerTransactionId,
                                  !.status = input.status,
                                  !.endToEndId = orKeep(input.endToEndId, @, 0)])

findKey(rows, environment, id) == getIn(rows, environment, id)
listKeys(rows, environment, accountId) ==
  ordered(asSet(SelectSeq(rows, LAMBDA r : r.environment = environment /\ r.accountId = accountId)),
          LAMBDA a, b : a.requestedAt > b.requestedAt)
findActiveKey(rows, environment, blindIndex) ==
  find(rows, LAMBDA r : /\ r.environment = environment /\ r.valueBlindIndex = blindIndex
                        /\ r.status = "ACTIVE")
createKey(rows, row) == result(put(rows, row), <<row>>)
markRemoved(rows, environment, id, at) ==
  LET found == getIn(rows, environment, id)
  IN  result(IF found = <<>> THEN rows
             ELSE put(rows, [found[1] EXCEPT !.status = "REMOVED", !.removedAt = at]), <<>>)

findCharge(rows, environment, txid) ==
  find(rows, LAMBDA r : r.environment = environment /\ r.txid = txid)
listCharges(rows, environment, accountId, limit) ==
  take(ordered(asSet(SelectSeq(rows, LAMBDA r : r.environment = environment /\ r.accountId = accountId)),
               newerId), limit)
createCharge(rows, row) == result(put(rows, row), <<row>>)

changeChargeStatus(rows, input) ==
  LET found == findCharge(rows, input.environment, input.txid)
      old   == found[1]
      row   == [old EXCEPT !.status = input.toStatus, !.paidAmount = orKeep(input.paidAmount, @, 0),
                           !.paidAt = orKeep(input.paidAt, @, 0), !.lastEventAt = input.occurredAt,
                           !.revision = @ + 1]
  IN  IF found = <<>> THEN result(rows, refuseChange("not_found", ""))
      ELSE IF old.lastEventAt > input.occurredAt THEN result(rows, refuseChange("stale_timestamp", ""))
      ELSE IF old.status = input.toStatus THEN result(rows, refuseChange("same_state", ""))
      ELSE IF ~checkTransition(PIX_CHARGE_STATUS_TRANSITIONS, old.status, input.toStatus)
           THEN result(rows, refuseChange("illegal_transition", ""))
      ELSE result(put(rows, row), applyChange(row))

findOperation(rows, environment, id) == getIn(rows, environment, id)
createOperation(rows, row) == result(put(rows, row), <<row>>)
updateOperation(rows, input) ==
  LET found == getIn(rows, input.environment, input.id)
      old   == found[1]
      row   == [old EXCEPT !.status = orKeep(input.status, @, ""),
                           !.providerRef = orKeep(input.providerRef, @, 0),
                           !.attempts = IF input.incrementAttempts THEN @ + 1 ELSE @,
                           !.updatedAt = input.at]
  IN  IF found = <<>> THEN result(rows, <<>>) ELSE result(put(rows, row), <<row>>)

\* UNKNOWN before SUBMITTED, and the one not touched for longest first.
stuckPriority == [UNKNOWN |-> 0, SUBMITTED |-> 1]
findStuck(rows, environment, limit) ==
  take(ordered(asSet(SelectSeq(rows, LAMBDA r : r.environment = environment /\ r.status \in DOMAIN stuckPriority)),
               LAMBDA a, b : \/ stuckPriority[a.status] < stuckPriority[b.status]
                             \/ stuckPriority[a.status] = stuckPriority[b.status] /\ a.updatedAt < b.updatedAt),
       limit)

-----------------------------------------------------------------------------
(* memory/reconciliation.repositories.ts *)

sameWindow(a, b) == a.connectionId = b.connectionId /\ a.accountId = b.accountId /\ a.window = b.window

startRun(rows, input) ==
  LET existing == find(rows, LAMBDA r : sameWindow(r, input))
  IN  IF existing # <<>> THEN result(rows, [run |-> existing[1], created |-> FALSE])
      ELSE result(put(rows, [input EXCEPT !.status = "QUEUED"]),
                  [run |-> [input EXCEPT !.status = "QUEUED"], created |-> TRUE])

findRun(rows, environment, id) == getIn(rows, environment, id)
listRuns(rows, filter) ==
  LET fits(r) == /\ r.environment = filter.environment
                 /\ asked(filter.accountId, r.accountId, "")
                 /\ asked(filter.status, r.status, "")
                 /\ filter.cursor = 0 \/ r.id < filter.cursor
  IN  pageOf(ordered(asSet(SelectSeq(rows, fits)), newerId), filter.limit, idOf, 0)

\* markRunning, complete and fail write on the run, where there is one.
writeRun(rows, id, status, breaks) ==
  LET found == get(rows, id)
  IN  result(IF found = <<>> THEN rows
             ELSE put(rows, [found[1] EXCEPT !.status = status, !.breakCount = orKeep(breaks, @, -1)]), <<>>)
markRunning(rows, id) == writeRun(rows, id, "RUNNING", -1)
completeRun(rows, id, status, breaks) == writeRun(rows, id, status, breaks)
failRun(rows, id) == writeRun(rows, id, "FAILED", -1)

breakKey(r) == <<r.connectionId, r.type, r.effectiveDate, r.dedupeKey>>

\* The row of a break already known: when it was first seen, and its age from then, do
\* not move; resolved, it is open again.  The items it points to stay the first ones.
seenAgain(old, row, now) ==
  [old EXCEPT !.runId = row.runId, !.severity = row.severity, !.delta = row.delta,
              !.ageDays = now - old.createdAt,
              !.status = IF @ \in {"RESOLVED", "AUTO_RESOLVED"} THEN "OPEN" ELSE @]

upsertBreak(rows, row, now) ==
  LET existing == find(rows, LAMBDA r : breakKey(r) = breakKey(row))
      fresh    == [row EXCEPT !.status = "OPEN", !.firstSeenRunId = row.runId, !.ageDays = 0, !.createdAt = now]
  IN  IF existing = <<>> THEN result(put(rows, fresh), [id |-> row.id, inserted |-> TRUE])
      ELSE result(put(rows, seenAgain(existing[1], row, now)), [id |-> existing[1].id, inserted |-> FALSE])

closeNotRecurring(rows, input) ==
  LET ends(r) == /\ r.environment = input.environment
                 /\ r.connectionId = input.connectionId /\ r.accountId = input.accountId
                 /\ r.effectiveDate >= input.from /\ r.effectiveDate <= input.to
                 /\ r.status \in {"OPEN", "INVESTIGATING"} /\ r.dedupeKey \notin input.keep
  IN  result([i \in DOMAIN rows |->
                IF ends(rows[i]) THEN [rows[i] EXCEPT !.status = "AUTO_RESOLVED", !.resolvedAt = input.at]
                ELSE rows[i]],
             Len(SelectSeq(rows, ends)))

findBreak(rows, environment, id) == getIn(rows, environment, id)

\* Every field is written, also with an absent value.
resolveManually(rows, input) ==
  LET found == getIn(rows, input.environment, input.id)
      row   == [found[1] EXCEPT !.status = input.status, !.resolvedAt = input.at,
                                !.resolvedBy = input.resolvedBy, !.adjustment = input.adjustment]
  IN  IF found = <<>> THEN result(rows, <<>>) ELSE result(put(rows, row), <<row>>)

countOpenHighSeverity(rows, environment, accountId) ==
  Len(SelectSeq(rows, LAMBDA r : /\ r.environment = environment /\ r.accountId = accountId
                                 /\ r.status \in {"OPEN", "INVESTIGATING"}
                                 /\ r.severity \in {"HIGH", "CRITICAL"}))

listBreaks(rows, filter) ==
  LET fits(r) == /\ r.environment = filter.environment
                 /\ IF filter.status # "" THEN r.status = filter.status
                    ELSE r.status \in {"OPEN", "INVESTIGATING"}
                 /\ asked(filter.severity, r.severity, "")
                 /\ asked(filter.accountId, r.accountId, "")
                 /\ r.ageDays >= filter.minAgeDays
                 /\ filter.cursor = 0 \/ r.id < filter.cursor
  IN  pageOf(ordered(asSet(SelectSeq(rows, fits)), newerId), filter.limit, idOf, 0)

ensureCursor(rows, row) ==
  LET existing == find(rows, LAMBDA r : r.connectionId = row.connectionId /\ r.stream = row.stream
                                        /\ r.scopeId = row.scopeId)
  IN  IF existing # <<>> THEN result(rows, existing) ELSE result(put(rows, row), <<row>>)
advanceCursor(rows, input) ==
  LET found == get(rows, input.id)
  IN  result(IF found = <<>> THEN rows
             ELSE put(rows, [found[1] EXCEPT !.watermark = input.watermark, !.cursor = input.cursor,
                                             !.lastRunAt = input.at]), <<>>)
\* The watermark stays: the next round does the same window again.
recordCursorFailure(rows, id, at) ==
  LET found == get(rows, id)
  IN  result(IF found = <<>> THEN rows ELSE put(rows, [found[1] EXCEPT !.lastRunAt = at]), <<>>)
listCursors(rows, stream) == SelectSeq(rows, LAMBDA r : r.stream = stream)

-----------------------------------------------------------------------------
(* memory/outbox-delivery.repositories.ts *)

\* The event as the dispatcher sees it, without the mark of the claim.
claimedEvent(r) == [id |-> r.id, environment |-> r.environment, subjectId |-> r.subjectId, createdAt |-> r.createdAt]

claimBatch(rows, limit, at) ==
  LET batch == take(ordered(asSet(SelectSeq(rows, LAMBDA r : r.dispatchedAt = 0)), olderId), limit)
  IN  result([i \in DOMAIN rows |->
                IF rows[i] \in asSet(batch) THEN [rows[i] EXCEPT !.dispatchedAt = at] ELSE rows[i]],
             mapped(batch, claimedEvent))
findEvent(rows, id) == mapped(get(rows, id), claimedEvent)

pendingStats(rows, now) ==
  LET pending == asSet(SelectSeq(rows, LAMBDA r : r.dispatchedAt = 0))
      oldest  == CHOOSE r \in pending : \A o \in pending : r.createdAt <= o.createdAt
  IN  [pending |-> Cardinality(pending),
       oldestAge |-> IF pending = {} THEN 0 ELSE now - oldest.createdAt]

listActiveEndpoints(rows, environment) ==
  ordered(asSet(SelectSeq(rows, LAMBDA r : r.environment = environment /\ r.status = "ACTIVE")), olderId)
findEndpoint(rows, id) == get(rows, id)

\* What the console may see: that there is a secret, never the secret.
endpointSummary(r) ==
  [id |-> r.id, environment |-> r.environment, status |-> r.status, secretSet |-> TRUE,
   secretRotating |-> r.previousSecret # 0, consecutiveFailures |-> r.consecutiveFailures,
   disabledAt |-> r.disabledAt]
listEndpoints(rows, environment) ==
  mapped(ordered(asSet(SelectSeq(rows, LAMBDA r : r.environment = environment)), newerId), endpointSummary)

registerFailure(rows, id, threshold, at) ==
  LET old == get(rows, id)
      row == [old[1] EXCEPT !.consecutiveFailures = @ + 1,
                !.status = IF old[1].consecutiveFailures + 1 >= threshold THEN "DISABLED_BY_FAILURES" ELSE @,
                !.disabledAt = IF old[1].consecutiveFailures + 1 >= threshold THEN at ELSE @]
  IN  IF old = <<>> THEN result(rows, FALSE)
      ELSE result(put(rows, row), row.status = "DISABLED_BY_FAILURES")
resetFailures(rows, id) ==
  result(IF get(rows, id) = <<>> THEN rows
         ELSE put(rows, [get(rows, id)[1] EXCEPT !.consecutiveFailures = 0]), <<>>)
disableEndpoint(rows, id, at) ==
  result(IF get(rows, id) = <<>> THEN rows
         ELSE put(rows, [get(rows, id)[1] EXCEPT !.status = "DISABLED_BY_FAILURES", !.disabledAt = at]), <<>>)

\* A first attempt already there is skipped; a retry is written under its own id.
scheduleFirstAttempt(rows, row) ==
  result(IF \E i \in DOMAIN rows : /\ rows[i].eventId = row.eventId /\ rows[i].endpointId = row.endpointId
                                   /\ rows[i].attempt = 1
         THEN rows ELSE put(rows, [row EXCEPT !.attempt = 1, !.status = "PENDING"]), <<>>)
scheduleRetry(rows, row) == result(put(rows, [row EXCEPT !.status = "PENDING"]), <<>>)
findDelivery(rows, id) == get(rows, id)

\* The maps beside the rows answer for the join with outbox_event.
listDeliveries(rows, events, filter) ==
  LET fits(r) == /\ events[r.eventId].environment = filter.environment
                 /\ asked(filter.endpointId, r.endpointId, 0)
                 /\ asked(filter.status, r.status, "")
                 /\ filter.cursor = 0 \/ r.id < filter.cursor
  IN  pageOf(ordered(asSet(SelectSeq(rows, fits)), newerId), filter.limit, idOf, 0)

claimDue(rows, limit, now) ==
  take(ordered(asSet(SelectSeq(rows, LAMBDA r : r.status = "PENDING" /\ r.scheduledFor <= now)),
               LAMBDA a, b : a.scheduledFor < b.scheduledFor), limit)

completeDelivery(rows, input) ==
  LET found == get(rows, input.id)
  IN  result(IF found = <<>> THEN rows
             ELSE put(rows, [found[1] EXCEPT !.status = input.status, !.error = input.error,
                                             !.attemptedAt = input.at]), <<>>)

exhaustPendingForEndpoint(rows, endpointId, reason) ==
  LET ends(r) == r.endpointId = endpointId /\ r.status = "PENDING"
  IN  result([i \in DOMAIN rows |->
                IF ends(rows[i]) THEN [rows[i] EXCEPT !.status = "EXHAUSTED", !.error = reason] ELSE rows[i]],
             Len(SelectSeq(rows, ends)))

hasEarlierPending(rows, events, endpointId, subjectId, sequence) ==
  \E i \in DOMAIN rows :
    /\ rows[i].endpointId = endpointId /\ rows[i].status = "PENDING"
    /\ events[rows[i].eventId].subjectId = subjectId
    /\ events[rows[i].eventId].sequence < sequence

-----------------------------------------------------------------------------
(* memory/api-key, connection, console and idempotency repositories *)

\* An ApiKeyRecord has no hash of the secret.
apiKeyRecord(r) == [f \in DOMAIN r \ {"secretHash", "secretLookup"} |-> r[f]]
findApiKeyByLookup(rows, lookup) ==
  mapped(find(rows, LAMBDA r : r.secretLookup = lookup),
         LAMBDA r : [id |-> r.id, environment |-> r.environment, secretHash |-> r.secretHash, status |-> r.status])
listApiKeys(rows, environment, status) ==
  asSet(mapped(SelectSeq(rows, LAMBDA r : r.environment = environment /\ asked(status, r.status, "")),
               apiKeyRecord))
findApiKey(rows, environment, id) == mapped(getIn(rows, environment, id), apiKeyRecord)
createApiKey(rows, row) == result(put(rows, [row EXCEPT !.status = "ACTIVE"]),
                                  <<apiKeyRecord([row EXCEPT !.status = "ACTIVE"])>>)
revokeApiKey(rows, environment, id) ==
  LET found == find(rows, LAMBDA r : r.id = id /\ r.environment = environment /\ r.status = "ACTIVE")
      row   == [found[1] EXCEPT !.status = "REVOKED"]
  IN  IF found = <<>> THEN result(rows, <<>>) ELSE result(put(rows, row), <<apiKeyRecord(row)>>)

\* The summary is kept beside the stored connection and has no envelope.
connectionSummary(r) ==
  [id |-> r.id, environment |-> r.environment, label |-> r.label, status |-> r.status,
   fingerprint |-> r.fingerprint, webhookSecretSet |-> r.webhookSecret # 0, health |-> r.health]
storedConnection(r) ==
  [id |-> r.id, environment |-> r.environment, status |-> r.status, credentials |-> r.credentials,
   version |-> r.version, webhookSecret |-> r.webhookSecret]
findConnection(rows, id) == mapped(get(rows, id), storedConnection)
listActiveConnections(rows) ==
  mapped(SelectSeq(rows, LAMBDA r : r.status \in {"ACTIVE", "DEGRADED"}), storedConnection)
listConnections(rows, environment) ==
  mapped(SelectSeq(rows, LAMBDA r : r.environment = environment), connectionSummary)
findConnectionSummary(rows, environment, id) == mapped(getIn(rows, environment, id), connectionSummary)
createConnection(rows, input) ==
  LET row == [input EXCEPT !.status = "PENDING_VALIDATION", !.health = ""]
  IN  result(put(rows, row), <<connectionSummary(row)>>)

rotateConnection(rows, input) ==
  LET found == getIn(rows, input.environment, input.id)
      row   == [found[1] EXCEPT !.credentials = input.credentials, !.version = input.version,
                                !.fingerprint = input.credentials,
                                !.webhookSecret = orKeep(input.webhookSecret, @, 0)]
  IN  IF found = <<>> THEN result(rows, <<>>) ELSE result(put(rows, row), <<connectionSummary(row)>>)
updateConnection(rows, input) ==
  LET found == getIn(rows, input.environment, input.id)
      row   == [found[1] EXCEPT !.label = orKeep(input.label, @, ""), !.status = orKeep(input.status, @, "")]
  IN  IF found = <<>> THEN result(rows, <<>>) ELSE result(put(rows, row), <<connectionSummary(row)>>)
recordConnectionHealth(rows, id, healthy) ==
  result(IF get(rows, id) = <<>> THEN rows
         ELSE put(rows, [get(rows, id)[1] EXCEPT !.health = IF healthy THEN "HEALTHY" ELSE "UNHEALTHY"]), <<>>)

createConsoleSession(rows, row) == result(put(rows, [row EXCEPT !.revokedAt = 0]), <<>>)
findConsoleSession(rows, id) == get(rows, id)
rotateSession(rows, id, hash, expiresAt) ==
  LET found == find(rows, LAMBDA r : r.id = id /\ r.revokedAt = 0)
  IN  IF found = <<>> THEN result(rows, FALSE)
      ELSE result(put(rows, [found[1] EXCEPT !.hash = hash, !.expiresAt = expiresAt]), TRUE)
\* Revoked again, a session carries the later instant.
revokeSession(rows, id, at) ==
  result(IF get(rows, id) = <<>> THEN rows ELSE put(rows, [get(rows, id)[1] EXCEPT !.revokedAt = at]), <<>>)
revokeAllForUser(rows, userId, at) ==
  result([i \in DOMAIN rows |->
            IF rows[i].userId = userId /\ rows[i].revokedAt = 0
            THEN [rows[i] EXCEPT !.revokedAt = at] ELSE rows[i]], <<>>)

\* No lease is the instant 0.
claimIdempotency(rows, input, now) ==
  LET existing == find(rows, LAMBDA r : /\ r.environment = input.environment
                                        /\ r.endpointKey = input.endpointKey /\ r.key = input.key)
      row      == [input EXCEPT !.state = "IN_FLIGHT", !.leaseExpiresAt = now + input.leaseExpiresAt]
  IN  IF existing # <<>> THEN result(rows, [claimed |-> FALSE, record |-> existing[1]])
      ELSE result(put(rows, row), [claimed |-> TRUE, record |-> row])
findIdempotency(rows, environment, endpointKey, key) ==
  find(rows, LAMBDA r : r.environment = environment /\ r.endpointKey = endpointKey /\ r.key = key)
\* The state of the record is not looked at: one completed has no lease, and can be stolen.
stealLease(rows, id, lease, now) ==
  LET found == find(rows, LAMBDA r : r.id = id /\ ~(r.leaseExpiresAt > now))
      row   == [found[1] EXCEPT !.leaseExpiresAt = now + lease]
  IN  IF found = <<>> THEN result(rows, <<>>) ELSE result(put(rows, row), <<row>>)
renewLease(rows, id, lease, now) ==
  result([i \in DOMAIN rows |->
            IF rows[i].id = id THEN [rows[i] EXCEPT !.leaseExpiresAt = now + lease] ELSE rows[i]], <<>>)
completeIdempotency(rows, id, state, status) ==
  result([i \in DOMAIN rows |->
            IF rows[i].id = id THEN [rows[i] EXCEPT !.state = state, !.responseStatus = status,
                                                    !.leaseExpiresAt = 0] ELSE rows[i]], <<>>)
releaseIdempotency(rows, id) == result(SelectSeq(rows, LAMBDA r : r.id # id), <<>>)
=============================================================================
