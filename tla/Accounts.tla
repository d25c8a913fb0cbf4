------------------------------- MODULE Accounts -------------------------------
(***************************************************************************)
(* The connector's mirror of the accounts and onboarding cases it opens at *)
(* a provider: AccountsService.create await by await, changeStatus, the    *)
(* documents of a case, and the events of the bank as WebhookApplyService  *)
(* applies them.  The requests of the instance all concern one holder, the *)
(* case where the rows of several requests meet one account of the bank.   *)
(***************************************************************************)
EXTENDS BankOnboarding, StatusFsm

CONSTANTS
    Creations,     \* requests that create an account for the holder
    Loads          \* what the instance lets happen at once: see Load

\* The creations sent, whether documents are uploaded, and the bounds on the calls of
\* block, unblock and close and on the decisions forced at the bank.
Load == [creations : SUBSET Creations, documents : BOOLEAN, changes : Nat, decisions : Nat]

ASSUME LoadsAssumption == \A l \in Loads : l \in Load

VARIABLES
    extId,         \* the external_id of each creation, or NoExt
    at,            \* where each creation stands
    holder,        \* the holder's row exists
    row,           \* the account row of each creation
    case,          \* the onboarding case of each row
    seen,          \* the case as the seeding of a creation read it
    upload,        \* the upload, or fulfilment, of each code: where it stands, what it read
    change,        \* the call of changeStatus under way
    changes        \* bound: calls of changeStatus still allowed

connectorVars == <<extId, at, holder, row, case, seen, upload, change, changes>>
accountsVars == <<bankVars, connectorVars>>

NoExt == "no external_id"

AccountStatuses == DOMAIN ACCOUNT_STATUS_RANKS

AccountRow ==
    [exists : BOOLEAN, status : AccountStatuses, attached : BOOLEAN, ledger : BOOLEAN, last : Int]
OnboardingRow ==
    [status : {"none"} \union DOMAIN ONBOARDING_STATUS_RANKS,
     codes  : [Codes -> {"none", "PENDING", "ACCEPTED"}], last : Int]

NoRow == [exists |-> FALSE, status |-> "DRAFT", attached |-> FALSE, ledger |-> FALSE, last |-> NoEvent]
NoCase == [status |-> "none", codes |-> [c \in Codes |-> "none"], last |-> NoEvent]
Nothing == [status |-> "none", pending |-> {}]

\* The row findByProviderAccountId finds, if any.
Mirror == {r \in Creations : row[r].attached}

\* What the repository writes: the DRAFT row, the provider's account, the ledger's.
newAccount(account) == [account EXCEPT !.exists = TRUE]
attachProviderAccount(account, status) == [account EXCEPT !.attached = TRUE, !.status = status]
attachLedgerAccounts(account) == [account EXCEPT !.ledger = TRUE]

\* A new case lists as pending what the provider asks for.
newCase(remote) ==
    [status |-> remote.status, last |-> NoEvent,
     codes |-> [c \in Codes |-> IF c \in remote.pending THEN "PENDING" ELSE "none"]]

\* The unique index on external_id, and the lookup that comes before it.
TakenExternalId(r) == extId[r] # NoExt /\ \E q \in Creations : row[q].exists /\ extId[q] = extId[r]

-----------------------------------------------------------------------------
(* create.  Each step ends at an await; a step that fails or a pod that dies leaves
   what was written. *)

Advance(r, to) == at' = [at EXCEPT ![r] = to]

\* findByExternalId: the same external_id is the same account.
FindExternal(r) ==
    /\ at[r] = "start"
    /\ Advance(r, IF TakenExternalId(r) THEN "done" ELSE "holder")
    /\ UNCHANGED <<bankVars, extId, holder, row, case, seen, upload, change, changes>>

\* resolveHolder: found, or about to be written.
FindHolder(r) ==
    /\ at[r] = "holder"
    /\ Advance(r, IF holder THEN "insert" ELSE "newHolder")
    /\ UNCHANGED <<bankVars, extId, holder, row, case, seen, upload, change, changes>>

\* The unique index on the document decides between two that found none.
CreateHolder(r) ==
    /\ at[r] = "newHolder"
    /\ Advance(r, IF holder THEN "failed" ELSE "insert")
    /\ holder' = TRUE
    /\ UNCHANGED <<bankVars, extId, row, case, seen, upload, change, changes>>

\* Mutant: the row is written only when the provider has answered.
InsertLater(r) ==
    /\ at[r] = "insert"
    /\ Advance(r, "call")
    /\ UNCHANGED <<bankVars, extId, holder, row, case, seen, upload, change, changes>>

\* The DRAFT row, before the provider is called; unique by external_id.
InsertDraft(r) ==
    /\ at[r] = "insert"
    /\ IF TakenExternalId(r)
       THEN Advance(r, "failed") /\ UNCHANGED row
       ELSE Advance(r, "call") /\ row' = [row EXCEPT ![r] = newAccount(@)]
    /\ UNCHANGED <<bankVars, extId, holder, case, seen, upload, change, changes>>

\* createPF or createPJ reaches the bank; the answer arrives, or does not.
CallProvider(r) ==
    /\ at[r] = "call"
    /\ BankCreates
    /\ \/ /\ Advance(r, "attach")
          /\ seen' = [seen EXCEPT ![r].status = toProviderAccount(serializeAccount(bank'))]
       \/ Advance(r, "failed") /\ UNCHANGED seen
    /\ UNCHANGED <<scenario, forced, extId, holder, row, case, upload, change, changes>>

\* The index on the provider's account id admits one row.
CanAttach(r) == Mirror \subseteq {r}

\* attachProviderAccount: the status is the one the creation answered, written without
\* a look at the current one.
Attach(r) ==
    /\ at[r] = "attach"
    /\ IF CanAttach(r)
       THEN /\ Advance(r, "ledger")
            /\ row' = [row EXCEPT ![r] = attachProviderAccount(@, seen[r].status)]
       ELSE Advance(r, "failed") /\ UNCHANGED row
    /\ seen' = [seen EXCEPT ![r] = Nothing]
    /\ UNCHANGED <<bankVars, extId, holder, case, upload, change, changes>>

\* openAccounts repeats without effect, so only attachLedgerAccounts is a write to tell.
OpenLedger(r) ==
    /\ at[r] = "ledger"
    /\ row' = [row EXCEPT ![r] = attachLedgerAccounts(@)]
    /\ Advance(r, "seed")
    /\ UNCHANGED <<bankVars, extId, holder, case, seen, upload, change, changes>>

\* seedOnboarding reads the case (submitKyc only reads, for this provider).
ReadCase(r) ==
    /\ at[r] = "seed"
    /\ \/ Advance(r, "mirror") /\ seen' = [seen EXCEPT ![r] = readByAccount]
       \/ Advance(r, "announce") /\ UNCHANGED seen
    /\ UNCHANGED <<bankVars, extId, holder, row, case, upload, change, changes>>

\* The case as read, with its requirements, all pending.  A failure is only logged.
MirrorCase(r) ==
    /\ at[r] = "mirror"
    /\ Advance(r, "announce")
    /\ seen' = [seen EXCEPT ![r] = Nothing]
    /\ \/ case' = [case EXCEPT ![r] = newCase(seen[r])]
       \/ UNCHANGED case
    /\ UNCHANGED <<bankVars, extId, holder, row, upload, change, changes>>

\* account.created is appended and the audit record written; the request is answered.
AnnounceAccount(r) ==
    /\ at[r] = "announce"
    /\ Advance(r, "done")
    /\ UNCHANGED <<bankVars, extId, holder, row, case, seen, upload, change, changes>>

\* The pod dies.
Die(r) ==
    /\ at[r] \notin {"start", "done", "failed", "died"}
    /\ Advance(r, "died")
    /\ seen' = [seen EXCEPT ![r] = Nothing]
    /\ UNCHANGED <<bankVars, extId, holder, row, case, upload, change, changes>>

-----------------------------------------------------------------------------
(* applyStatusChange of both repositories, under the row's lock.  The events for the
   client and the audit records of the same transaction are left to Outbox; a refused
   change is forgotten, or reported as an anomaly when it is illegal, and neither
   changes a row. *)

Verdict(kind, current, incoming, when, last) ==
    LET m == Fsm[kind]
    IN  IF ~decideMonotonic(m.ranks, current, incoming, when, last) THEN "stale"
        ELSE IF ~checkTransition(m.transitions, current, incoming) THEN "illegal" ELSE "apply"


\* Mutant: the list is read as a delta, of what was fulfilled.
SyncAsDelta(codes, pending) ==
    {[c \in Codes |-> IF codes[c] = "PENDING" /\ c \in pending THEN "ACCEPTED" ELSE codes[c]]}

\* syncRequirements: what left the provider's list was fulfilled, what is new on it is
\* pending.  The upsert looks for an id no row has and so always inserts: a listed code
\* the case already has breaks the unique index and the transaction is rolled back (no
\* result).
syncRequirements(codes, pending) ==
    IF \E c \in pending : codes[c] # "none" THEN {}
    ELSE {[c \in Codes |-> IF codes[c] = "PENDING" THEN "ACCEPTED"
                           ELSE IF c \in pending THEN "PENDING" ELSE codes[c]]}

\* A rejection code the column's type does not have fails the update as well.
IsStorable(reason) == reason # "MB-ONB-FORCED"

\* The case after a change of status; unchanged when it is refused or the transaction fails.
CaseAfter(k, to, pending, when) ==
    IF /\ Verdict("onboarding", k.status, to, when, k.last) = "apply"
       /\ syncRequirements(k.codes, pending) # {}
    THEN [status |-> to, last |-> when,
          codes |-> CHOOSE codes \in syncRequirements(k.codes, pending) : TRUE]
    ELSE k

\* The account row after a change of status, asked for by an event or by the client.
RowAfter(account, to, when) ==
    IF Verdict("account", account.status, to, when, account.last) = "apply"
    THEN [account EXCEPT !.status = to, !.last = when] ELSE account

(* applyAccount: an event for an account no row is attached to is ignored. *)
ApplyAccount(e) ==
    row' = [r \in Creations |-> IF r \in Mirror THEN RowAfter(row[r], e.status, e.at) ELSE row[r]]

\* The case of the account the event names.
findCase == {r \in Mirror : case[r].status # "none"}

\* applyOnboarding: found through the account; a transaction that fails is tried a
\* second time and then given up, which changes nothing here.
ApplyOnboarding(e) ==
    case' = [r \in Creations |-> IF r \in findCase /\ IsStorable(e.reason)
                                 THEN CaseAfter(case[r], e.status, e.pending, e.at) ELSE case[r]]

DeliverAccount(e) ==
    /\ e.kind = "account" /\ wire' = wire \ {e}
    /\ ApplyAccount(e)
    /\ UNCHANGED <<scenario, bank, clock, forced, extId, at, holder, case, seen, upload, change, changes>>

DeliverOnboarding(e) ==
    /\ e.kind = "onboarding" /\ wire' = wire \ {e}
    /\ ApplyOnboarding(e)
    /\ UNCHANGED <<scenario, bank, clock, forced, extId, at, holder, row, seen, upload, change, changes>>

-----------------------------------------------------------------------------
(* uploadDocument and fulfill of a code: the call, the case read again, and the case
   applied with the connector's own time. *)

Upload(c) ==
    /\ upload[c].pc = "idle" /\ findCase # {}
    /\ IF TakesDocument(c)
       THEN TakeDocument(c) /\ upload' = [upload EXCEPT ![c].pc = "reread"]
       ELSE UNCHANGED <<bank, wire, clock>> /\ upload' = [upload EXCEPT ![c].pc = "done"]
    /\ UNCHANGED <<scenario, forced, extId, at, holder, row, case, seen, change, changes>>

\* fulfillRequirement only reads the case.
Fulfil(c) ==
    /\ upload[c].pc = "idle" /\ findCase # {}
    /\ upload' = [upload EXCEPT ![c].pc = "reread"]
    /\ UNCHANGED <<bankVars, extId, at, holder, row, case, seen, change, changes>>

Reread(c) ==
    /\ upload[c].pc = "reread"
    /\ upload' = [upload EXCEPT ![c] = [pc |-> "apply", status |-> readByAccount.status, pending |-> readByAccount.pending]]
    /\ UNCHANGED <<bankVars, extId, at, holder, row, case, seen, change, changes>>

ApplyReread(c) ==
    /\ upload[c].pc = "apply"
    /\ upload' = [upload EXCEPT ![c] = [pc |-> "done", status |-> "none", pending |-> {}]]
    /\ case' = [r \in Creations |-> IF r \in findCase
                                    THEN CaseAfter(case[r], upload[c].status, upload[c].pending, clock)
                                    ELSE case[r]]
    /\ UNCHANGED <<bankVars, extId, at, holder, row, seen, change, changes>>

-----------------------------------------------------------------------------
(* changeStatus: the provider first, then the row, with what the provider answered. *)

ChangeAtProvider(action) ==
    /\ change = "idle" /\ changes > 0
    /\ Mirror # {}
    /\ BankSets(action)
    /\ clock' = clock + 1
    /\ changes' = changes - 1
    /\ change' = toProviderAccount(serializeAccount(bank'))
    /\ UNCHANGED <<scenario, forced, extId, at, holder, row, case, seen, upload>>

ApplyChange ==
    /\ change # "idle"
    /\ change' = "idle"
    /\ row' = [r \in Creations |-> IF r \in Mirror THEN RowAfter(row[r], change, clock) ELSE row[r]]
    /\ UNCHANGED <<bankVars, extId, at, holder, case, seen, upload, changes>>

-----------------------------------------------------------------------------
AccountsInit ==
  \E load \in Loads :
    /\ BankInit(load.decisions)
    /\ extId \in [Creations -> {NoExt, "e1"}]
    /\ \A r \in Creations \ load.creations : extId[r] = NoExt
    /\ at = [r \in Creations |-> IF r \in load.creations THEN "start" ELSE "done"]
    /\ holder = FALSE
    /\ row = [r \in Creations |-> NoRow]
    /\ case = [r \in Creations |-> NoCase]
    /\ seen = [r \in Creations |-> Nothing]
    /\ upload = [c \in Codes |-> [pc |-> IF load.documents /\ c \in Requirements(scenario)
                                          THEN "idle" ELSE "done", status |-> "none", pending |-> {}]]
    /\ change = "idle" /\ changes = load.changes

CreationNext ==
    \E r \in Creations :
        \/ FindExternal(r) \/ FindHolder(r) \/ CreateHolder(r) \/ InsertDraft(r) \/ CallProvider(r)
        \/ Attach(r) \/ OpenLedger(r) \/ ReadCase(r) \/ MirrorCase(r) \/ AnnounceAccount(r) \/ Die(r)

BankNext ==
    /\ \/ Wake \/ Expire
       \/ \E d \in {"APPROVE", "REJECT", "PENDING"} : ForceDecision(d)
    /\ UNCHANGED connectorVars

AccountsNext ==
    \/ CreationNext \/ BankNext
    \/ \E e \in wire : DeliverAccount(e) \/ DeliverOnboarding(e)
    \/ \E c \in Codes : Upload(c) \/ Fulfil(c) \/ Reread(c) \/ ApplyReread(c)
    \/ \E action \in {"block", "unblock", "close"} : ChangeAtProvider(action)
    \/ ApplyChange

AccountsSpec == AccountsInit /\ [][AccountsNext]_accountsVars

-----------------------------------------------------------------------------
\* The shape of the rows and of the bank's state.
AccountsTypeOK ==
    /\ bank \in BankRows
    /\ row \in [Creations -> AccountRow] /\ case \in [Creations -> OnboardingRow]

\* The order the comment of create argues for: wherever a creation stopped, timed out
\* or died, an account of the bank has a row of ours, and however many creations met at
\* the bank's one account, one row is attached to it.
BankAccountIsTraced ==
    /\ bank.account # "none" => \E r \in Creations : row[r].exists
    /\ Cardinality(Mirror) <= 1

\* A requirement shown as accepted was fulfilled at the bank: no event out of order, no
\* stale reading of an upload racing another, closes a code the bank still waits for.
AcceptedIsFulfilled ==
    \A r \in Creations, c \in Codes : case[r].codes[c] = "ACCEPTED" => c \notin bank.open
=============================================================================
