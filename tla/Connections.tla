------------------------------ MODULE Connections ------------------------------
(***************************************************************************)
(* The connection to a provider: its row, which the console creates,       *)
(* rotates and edits, and CredentialResolver and ProviderResolver, which   *)
(* bind an adapter to it for every call.  Each pod keeps what it resolved  *)
(* for 60 seconds under the connection and the version of its credentials, *)
(* and only the pod that serves a rotation clears its own copy.            *)
(***************************************************************************)
EXTENDS Integers

CONSTANTS
    Pods,              \* processes of the API, each with a cache of its own
    Binds,             \* calls of the resolver
    ResolverTtl,       \* life of an entry of the cache, in instants
    MaxEdits,          \* bound: rotations and edits
    MaxInstant         \* bound: the last instant

ASSUME ConnectionsAssumption ==
    ResolverTtl \in Nat \ {0} /\ MaxEdits \in Nat /\ MaxInstant \in Nat

VARIABLES
    link,              \* the row: status, version of the credentials, settings
    podCache,          \* the cache of each pod: version -> entry
    bind,              \* each call of the resolver
    edits,             \* edits made so far
    instant            \* the clock

linkVars == <<link, podCache, bind, edits, instant>>

Versions == 1 .. MaxEdits + 1
Gone == [until |-> -1]

\* What updateSettings lets an operator set.
ManualStatuses == {"ACTIVE", "DEGRADED", "DISABLED"}

\* A connection is created with the first version of its credentials, to be validated.
newConnection == [status |-> "PENDING_VALIDATION", version |-> 1, settings |-> 0]

ConnectionsInit ==
    /\ link = newConnection
    /\ podCache = [p \in Pods |-> [v \in Versions |-> Gone]]
    /\ bind = [b \in Binds |-> [at |-> "idle"]]
    /\ edits = 0 /\ instant = 0

-----------------------------------------------------------------------------
(* The console. *)

CanEdit == edits < MaxEdits /\ edits' = edits + 1

\* The new secret and its version are written together.
nextVersion == [link EXCEPT !.version = @ + 1]

\* invalidate: every version the pod holds.
forget(p) == [podCache EXCEPT ![p] = [v \in Versions |-> Gone]]

\* rotateCredentials: the version grows in the row, and the pod that serves the request
\* clears what it holds of the connection.
Rotate(p) ==
    /\ CanEdit
    /\ link' = nextVersion
    /\ podCache' = forget(p)
    /\ UNCHANGED <<bind, instant>>

editedRow(status) == [link EXCEPT !.status = status, !.settings = edits + 1]

\* updateSettings: the status, the address and the configuration; no cache is cleared.
UpdateSettings(status) ==
    /\ CanEdit
    /\ status \in ManualStatuses
    /\ link' = editedRow(status)
    /\ UNCHANGED <<podCache, bind, instant>>

TimePasses ==
    /\ instant < MaxInstant
    /\ instant' = instant + 1
    /\ UNCHANGED <<link, podCache, bind, edits>>

-----------------------------------------------------------------------------
(* The resolver. *)

\* Mutant: the cache is keyed by the connection alone.
keyOfConnection(row) == 1

\* The key of an entry carries the version of the row just read.
cacheKeyOf(row) == row.version

Fresh(p, row) ==
    LET entry == podCache[p][cacheKeyOf(row)] IN IF entry.until > instant THEN {entry} ELSE {}

refused(row) == row.status \in {"DISABLED", "INVALID_CREDENTIALS"}

\* findById: the row decides whether the connection serves at all, and which entry counts.
ReadConnection(b, p) ==
    /\ bind[b].at = "idle"
    /\ bind' = [bind EXCEPT ![b] =
         IF refused(link)
         THEN [at |-> "refused"]
         ELSE IF Fresh(p, link) # {}
              THEN [at |-> "bound", version |-> link.version, read |-> instant,
                    entry |-> CHOOSE e \in Fresh(p, link) : TRUE]
              ELSE [at |-> "decrypt", pod |-> p, row |-> link, read |-> instant]]
    /\ UNCHANGED <<link, podCache, edits, instant>>

\* The credentials of the row read are decrypted and cached with the rest of it.
Decrypt(b) ==
    LET row == bind[b].row
        entry == [version |-> row.version, settings |-> row.settings, until |-> instant + ResolverTtl]
    IN
    /\ bind[b].at = "decrypt"
    /\ podCache' = [podCache EXCEPT ![bind[b].pod][cacheKeyOf(row)] = entry]
    /\ bind' = [bind EXCEPT ![b] = [at |-> "bound", version |-> row.version,
                                    read |-> bind[b].read, entry |-> entry]]
    /\ UNCHANGED <<link, edits, instant>>

ConnectionsNext ==
    \/ \E p \in Pods : Rotate(p)
    \/ \E s \in ManualStatuses : UpdateSettings(s)
    \/ TimePasses
    \/ \E b \in Binds, p \in Pods : ReadConnection(b, p)
    \/ \E b \in Binds : Decrypt(b)

ConnectionsSpec == ConnectionsInit /\ [][ConnectionsNext]_linkVars

-----------------------------------------------------------------------------
\* A call is bound to the credentials of the version its own read of the row found, on every
\* pod and not only on the one that served the rotation, and whatever call put the entry in
\* the cache (CredentialResolver.resolve, ConnectionsService.rotateCredentials).
BindingIsCurrent ==
    \A b \in Binds : bind[b].at = "bound" => bind[b].entry.version = bind[b].version
================================================================================
