-------------------------------- MODULE PixKeys --------------------------------
(***************************************************************************)
(* Pix keys: PixKeysService of the API, which registers and removes them   *)
(* at the provider first and records the outcome afterwards, the           *)
(* repository with its partial unique index, and the bank's DICT.          *)
(*                                                                         *)
(* Every request that is not for an EVP asks for the same value, the case  *)
(* where requests meet; an EVP's value is minted by the bank, so it is     *)
(* identified here with the request that asked for it.                     *)
(***************************************************************************)
EXTENDS StatusFsm, FiniteSets

CONSTANTS
    KeyRequests,       \* requests that register a key
    KeyRemovals,       \* requests that remove one
    KeyAccounts,       \* accounts of the connector, each open at the bank
    SharedKey          \* the value every request but an EVP's asks for

VARIABLES
    wanted,            \* what each registration asks for: the account, whether an EVP
    keyAt,             \* where each registration stands
    keyRow,            \* the row a registration wrote: "none" or a status of PixKeyStatus
    removal,           \* each removal: where it stands, the row it concerns
    dict               \* the bank's active keys, each named by the request it came from

keyVars == <<wanted, keyAt, keyRow, removal, dict>>

KeyAsked == [account : KeyAccounts, evp : BOOLEAN]
Unread == "unread"

\* What toKeyStatus makes of the status of a provider: one it does not know is not ACTIVE.
toKeyStatus(raw) ==
    IF raw \in DOMAIN PIX_KEY_STATUS_TRANSITIONS THEN raw ELSE "PENDING_REGISTRATION"

\* normalizePixKey of the value, which the blind index and the DICT are keyed by.
ValueOf(k) == IF wanted[k].evp THEN k ELSE SharedKey

\* The bank's pixKeysByValue.
findActive(value) == {k \in dict : ValueOf(k) = value}

\* The rows findActiveByBlindIndex may return: the partial unique index leaves one at most.
findActiveByBlindIndex(value) == {k \in KeyRequests : keyRow[k] = "ACTIVE" /\ ValueOf(k) = value}

\* Some of the requests are sent.
KeysInit(requests, removals) ==
    /\ wanted \in [KeyRequests -> KeyAsked]
    /\ keyAt = [k \in KeyRequests |-> IF k \in requests THEN "lookup" ELSE "unsent"]
    /\ keyRow = [k \in KeyRequests |-> "none"]
    /\ removal = [m \in KeyRemovals |->
                     [at |-> IF m \in removals THEN "idle" ELSE "unsent", row |-> Unread]]
    /\ dict = {}

-----------------------------------------------------------------------------
(* create *)

KeyStep(k, to) == keyAt' = [keyAt EXCEPT ![k] = to]

\* The lookup that spares the provider a call it would refuse; an EVP has no value yet.
LookUpKey(k) ==
    LET found == findActiveByBlindIndex(ValueOf(k)) IN
    /\ keyAt[k] = "lookup"
    /\ KeyStep(k, IF wanted[k].evp \/ found = {} THEN "call"
                  ELSE IF \E e \in found : wanted[e].account = wanted[k].account
                       THEN "done" ELSE "refused")
    /\ UNCHANGED <<wanted, keyRow, removal, dict>>

\* The bank registers a value nobody holds, and its answer arrives or does not; or the
\* request ends there, refused or never received.
RegisterKey(k) ==
    /\ keyAt[k] = "call"
    /\ \/ KeyStep(k, "refused") /\ UNCHANGED dict
       \/ /\ findActive(ValueOf(k)) = {}
          /\ dict' = dict \union {k}
          /\ KeyStep(k, "insert") \/ KeyStep(k, "lost")
    /\ UNCHANGED <<wanted, keyRow, removal>>

\* The row is written with the status answered; a second active row of a value is refused
\* by the index, and the request fails with the key registered.
InsertKey(k) ==
    /\ keyAt[k] = "insert"
    /\ IF findActiveByBlindIndex(ValueOf(k)) # {}
       THEN KeyStep(k, "lost") /\ UNCHANGED keyRow
       ELSE KeyStep(k, "done") /\ keyRow' = [keyRow EXCEPT ![k] = toKeyStatus("ACTIVE")]
    /\ UNCHANGED <<wanted, removal, dict>>

\* The pod dies between the bank's answer and the row.
LoseRegistration(k) ==
    /\ keyAt[k] = "insert"
    /\ KeyStep(k, "lost")
    /\ UNCHANGED <<wanted, keyRow, removal, dict>>

-----------------------------------------------------------------------------
(* remove *)

RemovalStep(m, to) == removal' = [removal EXCEPT ![m].at = to]

\* A key already REMOVED is left alone; any other status goes on to the bank.
ReadKey(m, k) ==
    /\ removal[m].at = "idle"
    /\ keyRow[k] # "none"
    /\ removal' = [removal EXCEPT ![m] =
                     [at |-> IF keyRow[k] = "REMOVED" THEN "done" ELSE "delete", row |-> k]]
    /\ UNCHANGED <<wanted, keyAt, keyRow, dict>>

\* The bank removes by value and account, not by the id of the key: not found, not
\* received, or removed with an answer that may be lost.
DeleteKey(m) ==
    LET k == removal[m].row
        held == {d \in findActive(ValueOf(k)) : wanted[d].account = wanted[k].account} IN
    /\ removal[m].at = "delete"
    /\ \/ RemovalStep(m, "failed") /\ UNCHANGED dict
       \/ /\ held # {}
          /\ dict' = dict \ held
          /\ RemovalStep(m, "mark") \/ RemovalStep(m, "failed")
    /\ UNCHANGED <<wanted, keyAt, keyRow>>

\* Mutant: the row is marked first, and the bank is asked afterwards.
MarkFirst(m) ==
    /\ removal[m].at = "delete"
    /\ keyRow' = [keyRow EXCEPT ![removal[m].row] = "REMOVED"]
    /\ UNCHANGED <<wanted, keyAt, removal, dict>>

\* markRemoved, unconditional.
MarkRemoved(m) ==
    /\ removal[m].at = "mark"
    /\ keyRow' = [keyRow EXCEPT ![removal[m].row] = "REMOVED"]
    /\ RemovalStep(m, "done")
    /\ UNCHANGED <<wanted, keyAt, dict>>

\* The pod dies before the mark: the row stays as it was.
LoseRemoval(m) ==
    /\ removal[m].at = "mark"
    /\ RemovalStep(m, "failed")
    /\ UNCHANGED <<wanted, keyAt, keyRow, dict>>

KeysNext ==
    \/ \E k \in KeyRequests : LookUpKey(k) \/ RegisterKey(k) \/ InsertKey(k) \/ LoseRegistration(k)
    \/ \E m \in KeyRemovals : DeleteKey(m) \/ MarkRemoved(m) \/ LoseRemoval(m)
    \/ \E m \in KeyRemovals, k \in KeyRequests : ReadKey(m, k)

KeysSpec == KeysInit(KeyRequests, KeyRemovals) /\ [][KeysNext]_keyVars

-----------------------------------------------------------------------------
KeysTypeOK ==
    /\ wanted \in [KeyRequests -> KeyAsked]
    /\ keyAt \in [KeyRequests -> {"unsent", "lookup", "call", "insert", "done", "refused", "lost"}]
    /\ keyRow \in [KeyRequests -> {"none"} \union DOMAIN PIX_KEY_STATUS_TRANSITIONS]
    /\ removal \in [KeyRemovals -> [at  : {"unsent", "idle", "delete", "mark", "done", "failed"},
                                    row : {Unread} \union KeyRequests]]
    /\ dict \subseteq KeyRequests

\* A key the bank holds is one the connector shows as ACTIVE, or is about to, or lost: the
\* answer did not arrive, the pod died before the row, or the index refused the row because
\* another request of the value was first. Otherwise no order of registrations and removals of
\* one value leaves the connector showing as REMOVED a key that still receives money
\* (PixKeysService.create and remove, findActiveByBlindIndex, pix_key_active_uq).
RegisteredIsTraced ==
    \A k \in dict : keyRow[k] = "ACTIVE" \/ keyAt[k] \in {"insert", "lost"}
================================================================================
