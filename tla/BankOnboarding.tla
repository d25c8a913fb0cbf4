--------------------------- MODULE BankOnboarding ---------------------------
(***************************************************************************)
(* The provider's side of opening an account, as the mock bank has it: one *)
(* holder, the account the bank opens for the holder's document, and the   *)
(* onboarding case it opens with it.  The last digits of the document      *)
(* choose a scenario; the case then advances by itself, by the documents   *)
(* the client sends and by decisions forced from the control panel.  Every *)
(* change is announced by an event, which the wire keeps until it is       *)
(* delivered, in any order.                                                *)
(***************************************************************************)
EXTENDS Naturals, FiniteSets

CONSTANT
    Scenarios      \* the scenarios the documents of the instance select

VARIABLES
    scenario,      \* the scenario of the holder's document
    bank,          \* [account, case : status or "none", open, asleep, reason]: see BankRows
    wire,          \* events emitted and not delivered yet
    clock,         \* the time of the last change, of either side
    forced         \* bound: decisions the control panel may still force

bankVars == <<scenario, bank, wire, clock, forced>>

AllScenarios ==
    {"REJECT_DATA_MISMATCH", "PENDING_DOCUMENTS", "MANUAL_REVIEW", "SANCTIONS_MATCH",
     "PEP_MATCH", "EXPIRES", "APPROVE_BLOCKED", "APPROVE"}

ASSUME ScenariosAssumption == Scenarios \subseteq AllScenarios

\* The codes of a scenario that asks for documents.
Requirements(s) ==
    IF s = "PENDING_DOCUMENTS" THEN {"SELFIE_LIVENESS", "PROOF_OF_ADDRESS"}
    ELSE IF s = "EXPIRES" THEN {"IDENTITY_FRONT"} ELSE {}

Codes == UNION {Requirements(s) : s \in Scenarios}
OpensBlocked(s) == s = "APPROVE_BLOCKED"

\* MockAccount and MockOnboarding; no row exists before the first creation.
BankRows ==
    [account : {"none", "PENDING_ONBOARDING", "ACTIVE", "BLOCKED", "REJECTED", "CLOSED"},
     case    : {"none", "PENDING_REQUIREMENTS", "MANUAL_REVIEW", "SUBMITTED", "APPROVED",
                "REJECTED", "EXPIRED"},
     open    : SUBSET Codes,
     asleep  : BOOLEAN,
     reason  : {"none", "DATA_MISMATCH", "SANCTIONS_MATCH", "MB-ONB-FORCED"}]

CaseEvent(b, t) ==
    [kind |-> "onboarding", status |-> b.case, pending |-> b.open, reason |-> b.reason, at |-> t]
AccountEvent(b, t) ==
    [kind |-> "account", status |-> b.account, pending |-> {}, reason |-> "none", at |-> t]

(* approve: nothing for a case already approved, whatever else it went through;
   the account is activated, or opened blocked when the scenario says so, and both
   changes are announced. *)
Approved(b) ==
    [b EXCEPT !.case = "APPROVED", !.account = IF OpensBlocked(scenario) THEN "BLOCKED" ELSE "ACTIVE"]
ApproveEvents(b, t) ==
    IF b.case = "APPROVED" THEN {} ELSE {CaseEvent(Approved(b), t), AccountEvent(Approved(b), t)}
AfterApprove(b) == IF b.case = "APPROVED" THEN b ELSE Approved(b)

\* reject: the account is refused with the case, and only the case is announced.
AfterReject(b, code) ==
    [b EXCEPT !.case = "REJECTED", !.account = "REJECTED", !.reason = code]

\* advance, up to its first await: what the scenario decides at once, and whether a
\* decision is left to the timer.
AfterSubmit(b, s) ==
    LET opened == [b EXCEPT !.case = "SUBMITTED", !.open = Requirements(s)]
    IN  CASE s = "REJECT_DATA_MISMATCH" -> AfterReject(opened, "DATA_MISMATCH")
          [] s = "SANCTIONS_MATCH" -> AfterReject(opened, "SANCTIONS_MATCH")
          [] s \in {"PENDING_DOCUMENTS", "EXPIRES"} -> [opened EXCEPT !.case = "PENDING_REQUIREMENTS"]
          [] s = "PEP_MATCH"     -> [opened EXCEPT !.case = "MANUAL_REVIEW"]
          [] s = "MANUAL_REVIEW" -> [opened EXCEPT !.case = "MANUAL_REVIEW", !.asleep = TRUE]
          [] OTHER               -> [opened EXCEPT !.asleep = TRUE]
SubmitEvents(b, t) == IF b.case = "SUBMITTED" THEN {} ELSE {CaseEvent(b, t)}

\* The deduplication by document: a second creation finds the same account and the
\* same case.
BankCreates ==
    IF bank.account # "none"
    THEN UNCHANGED <<bank, wire, clock>>
    ELSE LET b == AfterSubmit([bank EXCEPT !.account = "PENDING_ONBOARDING"], scenario)
         IN  /\ bank' = b
             /\ clock' = clock + 1
             /\ wire' = wire \union SubmitEvents(b, clock + 1)

\* The timer of a scenario fires.
Wake ==
    /\ bank.asleep
    /\ bank' = AfterApprove([bank EXCEPT !.asleep = FALSE])
    /\ clock' = clock + 1
    /\ wire' = wire \union ApproveEvents(bank, clock + 1)
    /\ UNCHANGED <<scenario, forced>>

\* Reading a case expires it when its term has passed (expireIfDue): a read by the
\* connector or by the panel; any read may be the first after the term.
Expired(b) == [b EXCEPT !.case = "EXPIRED"]
IsDue(b) == scenario = "EXPIRES" /\ b.case = "PENDING_REQUIREMENTS"
Expire ==
    /\ IsDue(bank)
    /\ bank' = Expired(bank)
    /\ clock' = clock + 1
    /\ wire' = wire \union {CaseEvent(bank', clock + 1)}
    /\ UNCHANGED <<scenario, forced>>

\* forceDecision: no decision already made stands in its way.
ForceDecision(decision) ==
    /\ bank.case # "none"
    /\ forced > 0
    /\ forced' = forced - 1
    /\ clock' = clock + 1
    /\ bank' = CASE decision = "APPROVE" -> AfterApprove(bank)
                 [] decision = "REJECT"  -> AfterReject(bank, "MB-ONB-FORCED")
                 [] OTHER                -> [bank EXCEPT !.case = "PENDING_REQUIREMENTS"]
    /\ wire' = wire \union
                  (IF decision = "APPROVE" THEN ApproveEvents(bank, clock + 1)
                                           ELSE {CaseEvent(bank', clock + 1)})
    /\ UNCHANGED scenario

\* submitDocument: only a case that waits for documents takes one, and only for a
\* code still open; the last one approves the case.
TakesDocument(code) == bank.case = "PENDING_REQUIREMENTS" /\ code \in bank.open
TakeDocument(code) ==
    LET b == [bank EXCEPT !.open = @ \ {code}]
    IN  /\ clock' = clock + 1
        /\ bank' = IF b.open = {} THEN AfterApprove(b) ELSE b
        /\ wire' = wire \union
                      (IF b.open = {} THEN ApproveEvents(b, clock + 1) ELSE {CaseEvent(b, clock + 1)})

\* bloquear, desbloquear and encerrar: setStatus, whatever the status was, and no event.
StatusOf(action) == [block |-> "BLOCKED", unblock |-> "ACTIVE", close |-> "CLOSED"][action]
BankSets(action) == bank' = [bank EXCEPT !.account = StatusOf(action)] /\ UNCHANGED wire

\* The REST vocabulary and back: what the API has no word for is EM_ANALISE, and the
\* adapter reads that as under review.
toMockStatus(status) ==
    CASE status = "ACTIVE"    -> "ATIVA"
      [] status = "BLOCKED"   -> "BLOQUEADA"
      [] status = "REJECTED"  -> "RECUSADA"
      [] status = "CLOSED"    -> "ENCERRADA"
      [] OTHER                -> "EM_ANALISE"

toAccountStatus(situacao) ==
    CASE situacao = "ATIVA"     -> "ACTIVE"
      [] situacao = "BLOQUEADA" -> "BLOCKED"
      [] situacao = "RECUSADA"  -> "REJECTED"
      [] situacao = "ENCERRADA" -> "CLOSED"
      [] OTHER                  -> "UNDER_REVIEW"

\* An account as the REST API shows it and as the adapter reads it.
serializeAccount(b) == toMockStatus(b.account)
toProviderAccount(body) == toAccountStatus(body)

\* The case as a read through the adapter returns it: its status and the full list of
\* what is pending.
toOnboardingCase(b) == [status |-> b.case, pending |-> b.open]
readByAccount == toOnboardingCase(bank)

BankInit(decisions) ==
    /\ scenario \in Scenarios
    /\ bank = [account |-> "none", case |-> "none", open |-> {}, asleep |-> FALSE,
               reason |-> "none"]
    /\ wire = {} /\ clock = 0 /\ forced = decisions
=============================================================================
