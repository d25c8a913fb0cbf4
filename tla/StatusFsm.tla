------------------------------ MODULE StatusFsm ------------------------------
(***************************************************************************)
(* The status machines of packages/taxonomy/src/fsm: for each kind of      *)
(* aggregate the table of legal transitions, the monotonic rank of every   *)
(* status, and the two tests applyStatusChange makes under SELECT ... FOR  *)
(* UPDATE before it lets a provider event change a row.                    *)
(***************************************************************************)
EXTENDS Integers

TRANSACTION_STATUS_TRANSITIONS ==
  [CREATED            |-> {"PENDING", "PROCESSING", "FAILED", "CANCELLED", "UNKNOWN"},
   PENDING            |-> {"PROCESSING", "SETTLED", "FAILED", "CANCELLED", "UNKNOWN"},
   PROCESSING         |-> {"SETTLED", "FAILED", "UNKNOWN"},
   SETTLED            |-> {"REVERSED", "PARTIALLY_REVERSED"},
   PARTIALLY_REVERSED |-> {"REVERSED", "PARTIALLY_REVERSED"},
   FAILED             |-> {},
   CANCELLED          |-> {},
   REVERSED           |-> {},
   UNKNOWN            |-> {"PENDING", "PROCESSING", "SETTLED", "FAILED", "CANCELLED"}]

TRANSACTION_STATUS_RANKS ==
  [UNKNOWN |-> 0, CREATED |-> 1, PENDING |-> 2, PROCESSING |-> 3, SETTLED |-> 4,
   FAILED |-> 4, CANCELLED |-> 4, PARTIALLY_REVERSED |-> 5, REVERSED |-> 6]

ACCOUNT_STATUS_TRANSITIONS ==
  [DRAFT              |-> {"PENDING_ONBOARDING", "REJECTED"},
   PENDING_ONBOARDING |-> {"PENDING_DOCUMENTS", "UNDER_REVIEW", "ACTIVE", "REJECTED"},
   PENDING_DOCUMENTS  |-> {"UNDER_REVIEW", "PENDING_ONBOARDING", "ACTIVE", "REJECTED"},
   UNDER_REVIEW       |-> {"ACTIVE", "PENDING_DOCUMENTS", "REJECTED"},
   ACTIVE             |-> {"BLOCKED", "SUSPENDED", "CLOSING"},
   BLOCKED            |-> {"ACTIVE", "CLOSING", "CLOSED"},
   SUSPENDED          |-> {"ACTIVE", "CLOSING"},
   REJECTED           |-> {},
   CLOSING            |-> {"CLOSED", "ACTIVE"},
   CLOSED             |-> {}]

ACCOUNT_STATUS_RANKS ==
  [DRAFT |-> 0, PENDING_ONBOARDING |-> 1, PENDING_DOCUMENTS |-> 2, UNDER_REVIEW |-> 3,
   ACTIVE |-> 4, REJECTED |-> 4, SUSPENDED |-> 5, BLOCKED |-> 5, CLOSING |-> 6, CLOSED |-> 7]

ONBOARDING_STATUS_TRANSITIONS ==
  [DRAFT                |-> {"SUBMITTED", "CANCELLED"},
   SUBMITTED            |-> {"IN_ANALYSIS", "PENDING_REQUIREMENTS", "MANUAL_REVIEW",
                             "APPROVED", "REJECTED", "EXPIRED"},
   PENDING_REQUIREMENTS |-> {"IN_ANALYSIS", "SUBMITTED", "MANUAL_REVIEW", "APPROVED",
                             "REJECTED", "EXPIRED", "CANCELLED"},
   IN_ANALYSIS          |-> {"PENDING_REQUIREMENTS", "MANUAL_REVIEW", "APPROVED",
                             "REJECTED", "EXPIRED"},
   MANUAL_REVIEW        |-> {"APPROVED", "REJECTED", "PENDING_REQUIREMENTS", "EXPIRED"},
   APPROVED             |-> {},
   REJECTED             |-> {},
   EXPIRED              |-> {},
   CANCELLED            |-> {}]

ONBOARDING_STATUS_RANKS ==
  [DRAFT |-> 0, SUBMITTED |-> 1, PENDING_REQUIREMENTS |-> 2, IN_ANALYSIS |-> 2,
   MANUAL_REVIEW |-> 3, APPROVED |-> 4, REJECTED |-> 4, EXPIRED |-> 4, CANCELLED |-> 4]

\* Keys, charges and requirements have a table and no ranks.
PIX_KEY_STATUS_TRANSITIONS ==
  [PENDING_REGISTRATION           |-> {"PENDING_OWNERSHIP_CONFIRMATION", "PENDING_PORTABILITY_IN",
                                       "ACTIVE", "REJECTED"},
   PENDING_OWNERSHIP_CONFIRMATION |-> {"ACTIVE", "REJECTED"},
   ACTIVE                         |-> {"PENDING_PORTABILITY_OUT", "PENDING_CLAIM_IN",
                                       "PENDING_CLAIM_OUT", "REMOVED"},
   PENDING_PORTABILITY_IN         |-> {"ACTIVE", "REJECTED"},
   PENDING_PORTABILITY_OUT        |-> {"REMOVED", "ACTIVE"},
   PENDING_CLAIM_IN               |-> {"ACTIVE", "REJECTED"},
   PENDING_CLAIM_OUT              |-> {"REMOVED", "ACTIVE"},
   REMOVED                        |-> {},
   REJECTED                       |-> {}]

PIX_CHARGE_STATUS_TRANSITIONS ==
  [ACTIVE          |-> {"COMPLETED", "EXPIRED", "REMOVED_BY_PSP", "REMOVED_BY_USER"},
   COMPLETED       |-> {},
   EXPIRED         |-> {},
   REMOVED_BY_PSP  |-> {},
   REMOVED_BY_USER |-> {}]

REQUIREMENT_STATUS_TRANSITIONS ==
  [PENDING     |-> {"SUBMITTED", "WAIVED", "EXPIRED"},
   SUBMITTED   |-> {"IN_ANALYSIS", "ACCEPTED", "REJECTED"},
   IN_ANALYSIS |-> {"ACCEPTED", "REJECTED"},
   REJECTED    |-> {"SUBMITTED", "EXPIRED"},
   ACCEPTED    |-> {},
   WAIVED      |-> {},
   EXPIRED     |-> {"SUBMITTED"}]

\* The pair of tables each repository passes to the guard.
Fsm ==
  [transaction |-> [transitions |-> TRANSACTION_STATUS_TRANSITIONS,
                    ranks       |-> TRANSACTION_STATUS_RANKS],
   account     |-> [transitions |-> ACCOUNT_STATUS_TRANSITIONS,
                    ranks       |-> ACCOUNT_STATUS_RANKS],
   onboarding  |-> [transitions |-> ONBOARDING_STATUS_TRANSITIONS,
                    ranks       |-> ONBOARDING_STATUS_RANKS]]

\* A null lastEventAt.
NoEvent == -1

\* Mutant: only the very next rank is accepted.
decideNextRank(ranks, current, incoming, occurredAt, lastEventAt) ==
  /\ occurredAt >= lastEventAt
  /\ ranks[incoming] = ranks[current] + 1

\* An event may be applied: it is no older than the last one applied, and it
\* says strictly more than the current status.
decideMonotonic(ranks, current, incoming, occurredAt, lastEventAt) ==
  /\ occurredAt >= lastEventAt
  /\ ranks[incoming] > ranks[current]

checkTransition(transitions, from, to) == from = to \/ to \in transitions[from]
=============================================================================
