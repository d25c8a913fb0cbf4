-------------------------------- MODULE Surface --------------------------------
(***************************************************************************)
(* The HTTP surface: every route with what its decorators ask for, the     *)
(* guards a request passes in order (console session, API key, signature,  *)
(* scope, capability) and the API keys, which the console mints and        *)
(* revokes while requests are under way.  A request may reach the service  *)
(* twice, on any pod: its timestamp is compared with the clock in whole    *)
(* seconds, and then its nonce is claimed in the shared store, which keeps *)
(* it for twice the tolerance.  A tick of the model is half a second, so   *)
(* that the rounding of the comparison shows.                              *)
(***************************************************************************)
EXTENDS ConsoleSessions

CONSTANTS
    ApiKeys,           \* keys the console may mint
    MintRequests,      \* what it may ask for: environment, scopes, signingRequired
    Arrivals,          \* requests, a repeated delivery of one counted on its own
    Requests,          \* what they may be: route, key, nonce, timestamp, signature, role
    SignatureTolerance,\* signatureToleranceSeconds
    MaxWall,           \* bound on the clock, in half seconds
    Unsupported        \* capabilities the connection's manifest denies

\* A secret that was never minted is the one of a key that never is.
ASSUME RequestsAssumption ==
    \A r \in Requests : r.key \in ApiKeys /\ r.signature \in BOOLEAN /\ r.timestamp \in Nat
ASSUME ToleranceAssumption == SignatureTolerance \in Nat \ {0} /\ MaxWall \in Nat

VARIABLES
    apiKey,            \* api_key: NoKey, or environment, scopes, signing, status
    request,           \* what each arrival is
    stage,             \* the guard each arrival stands before, or how it ended
    identity,          \* the key as authenticate read it
    nonces,            \* until when each pair of key and nonce is kept
    claimedAt,         \* when the nonce of each arrival was claimed
    wall               \* the clock, in half seconds

surfaceVars == <<apiKey, request, stage, identity, nonces, claimedAt, wall>>

NoKey == [status |-> "none"]
Never == -1

\* What a nonce is claimed under: baas:nonce:<key>:<nonce>.
Pairs == ApiKeys \X {r.nonce : r \in Requests}
PairOf(c) == <<request[c].key, request[c].nonce>>

-----------------------------------------------------------------------------
(* The routes. *)

Open == [surface |-> "open"]
Console(role) == [surface |-> "console", role |-> role]
Client(scope, capability) ==
    [surface |-> "client", scope |-> scope, capability |-> capability, signed |-> FALSE, once |-> FALSE]
Once(route) == [route EXCEPT !.once = TRUE]
Signed(route) == [route EXCEPT !.signed = TRUE]

PixRoutes ==
    [createKey    |-> Client("pix:keys:write", "pix.keys.create"),
     listKeys     |-> Client("pix:keys:read", "none"),
     resolveKey   |-> Client("pix:keys:read", "pix.keys.resolve"),
     removeKey    |-> Client("pix:keys:write", "pix.keys.delete"),
     createCharge |-> Client("pix:write", "none"),
     listCharges  |-> Client("pix:read", "none"),
     getCharge    |-> Client("pix:read", "none"),
     cancelCharge |-> Client("pix:write", "none")]

MoneyRoutes ==
    [transfer     |-> Signed(Once(Client("pix:write", "pix.out.send"))),
     refund       |-> Signed(Once(Client("pix:refund", "pix.refund.create")))]

TransactionRoutes ==
    [getTransaction   |-> Client("pix:read", "none"),
     listTransactions |-> Client("pix:read", "none"),
     statement        |-> Client("statement:read", "none"),
     getOperation     |-> Client("pix:read", "none"),
     reconcile        |-> Client("pix:write", "none")]

\* The capability of a creation depends on the kind of holder in the body.
AccountRoutes ==
    [createPF     |-> Once(Client("accounts:write", "accounts.create.pf")),
     createPJ     |-> Once(Client("accounts:write", "accounts.create.pj")),
     listAccounts |-> Client("accounts:read", "none"),
     getAccount   |-> Client("accounts:read", "none"),
     block        |-> Client("accounts:write", "accounts.updateStatus"),
     unblock      |-> Client("accounts:write", "accounts.updateStatus"),
     close        |-> Client("accounts:close", "accounts.close")]

BalanceRoutes == [getBalance |-> Client("balance:read", "balance.get")]

OnboardingRoutes ==
    [getOnboarding |-> Client("onboarding:read", "onboarding.status.get"),
     document      |-> Client("onboarding:documents", "onboarding.document.upload"),
     fulfill       |-> Client("onboarding:write", "onboarding.requirements.fulfill")]

\* Login and refresh are the closed list of anonymous routes below /admin/v1.
AdminRoutes ==
    [login     |-> Open,                refresh   |-> Open,
     logout    |-> Console("VIEWER"),   me        |-> Console("VIEWER"),
     providers |-> Console("OPERATOR"), config    |-> Console("ADMIN")]

ApiKeyRoutes ==
    [listApiKeys |-> Console("ADMIN"), createApiKey |-> Console("ADMIN"), revokeApiKey |-> Console("ADMIN")]

AuditRoutes == [searchAudit |-> Console("COMPLIANCE"), verifyAudit |-> Console("COMPLIANCE")]

ConnectionRoutes ==
    [listConnections  |-> Console("VIEWER"), getConnection     |-> Console("COMPLIANCE"),
     createConnection |-> Console("ADMIN"),  rotateCredentials |-> Console("ADMIN"),
     patchConnection  |-> Console("ADMIN"),  checkHealth       |-> Console("COMPLIANCE")]

OverviewRoutes == [overview |-> Console("VIEWER")]

WebhookRoutes ==
    [listInbound   |-> Console("COMPLIANCE"), getInbound     |-> Console("COMPLIANCE"),
     listEndpoints |-> Console("COMPLIANCE"), listDeliveries |-> Console("COMPLIANCE")]

AdminTransactionRoutes ==
    [adminTransactions  |-> Console("VIEWER"),     adminTransaction |-> Console("VIEWER"),
     transactionEntries |-> Console("COMPLIANCE"), adminOperation   |-> Console("OPERATOR")]

AdminAccountRoutes ==
    [adminAccounts |-> Console("VIEWER"), adminAccount |-> Console("VIEWER"),
     revealTaxId   |-> Console("COMPLIANCE")]

ReconciliationRoutes ==
    [listBreaks |-> Console("COMPLIANCE"), listRuns     |-> Console("COMPLIANCE"),
     evidence   |-> Console("COMPLIANCE"), getBreak     |-> Console("COMPLIANCE"),
     resolve    |-> Console("ADMIN")]

InboundRoutes == [ingest |-> Open]
HealthRoutes == [healthz |-> Open, readyz |-> Open]
DocsRoutes == [openapi |-> Open]

Tables ==
    {PixRoutes, MoneyRoutes, TransactionRoutes, AccountRoutes, BalanceRoutes, OnboardingRoutes, AdminRoutes,
     ApiKeyRoutes, AuditRoutes, ConnectionRoutes, OverviewRoutes, WebhookRoutes,
     AdminTransactionRoutes, AdminAccountRoutes, ReconciliationRoutes,
     InboundRoutes, HealthRoutes, DocsRoutes}

\* The decorators asked of a route by name.
RouteOf(name) == LET table == CHOOSE t \in Tables : name \in DOMAIN t IN table[name]

\* A name belongs to one controller; whatever must not be done twice for one key is signed or
\* creates an account; and only ADMIN and above write through the console.
ASSUME RouteTables ==
    /\ \A t, u \in Tables : t # u => DOMAIN t \cap DOMAIN u = {}
    /\ \A t \in Tables : \A n \in DOMAIN t : t[n].surface = "client" /\ t[n].signed => t[n].once
    /\ \A n \in {"createApiKey", "revokeApiKey", "createConnection", "rotateCredentials",
                 "patchConnection", "resolve"} : atLeast(RouteOf(n).role, "ADMIN")

-----------------------------------------------------------------------------
(* The keys. *)

\* A production key that may move money signs whatever the request says; a request that
\* forbids it is refused before.
resolveSigning(m) ==
    (m.environment = "PRODUCAO" /\ "pix:write" \in m.scopes) \/ m.signingRequired = "yes"

refusesMint(m) ==
    m.environment = "PRODUCAO" /\ "pix:write" \in m.scopes /\ m.signingRequired = "no"

\* The row create writes: the signing secret exists only for a key that must sign.
mintedRow(m) ==
    [status |-> "ACTIVE", environment |-> m.environment, scopes |-> m.scopes, signing |-> resolveSigning(m)]

Mint(k, m) ==
    /\ apiKey[k] = NoKey
    /\ ~refusesMint(m)
    /\ apiKey' = [apiKey EXCEPT ![k] = mintedRow(m)]
    /\ UNCHANGED <<request, stage, identity, nonces, claimedAt, wall>>

Revoke(k) ==
    /\ apiKey[k].status = "ACTIVE"
    /\ apiKey' = [apiKey EXCEPT ![k].status = "REVOKED"]
    /\ UNCHANGED <<request, stage, identity, nonces, claimedAt, wall>>

-----------------------------------------------------------------------------
(* The guards, in the order of the module's providers. *)

SurfaceInit ==
    /\ apiKey = [k \in ApiKeys |-> NoKey]
    /\ request \in [Arrivals -> Requests]
    /\ stage = [c \in Arrivals |-> "surface"]
    /\ identity = [c \in Arrivals |-> NoKey]
    /\ nonces = [p \in Pairs |-> Never]
    /\ claimedAt = [c \in Arrivals |-> Never]
    /\ wall = 0

\* Half seconds to seconds, as Math.floor(now / 1000).
Second(t) == t \div 2

Moves(c, to) == stage' = [stage EXCEPT ![c] = to]
Route(c) == RouteOf(request[c].route)

\* AdminSurfaceGuard by path, then @Public: a console route is decided by the session alone,
\* and an API key never reaches one.
EnterSurface(c) ==
    /\ stage[c] = "surface"
    /\ \/ Route(c).surface = "open" /\ Moves(c, "admitted")
       \/ /\ Route(c).surface = "console"
          /\ Moves(c, IF request[c].role # "none" /\ atLeast(request[c].role, Route(c).role)
                      THEN "admitted" ELSE "refused")
       \/ Route(c).surface = "client" /\ Moves(c, "key")
    /\ UNCHANGED <<apiKey, request, identity, nonces, claimedAt, wall>>

\* findByLookup: the row the secret's digest finds.
RowOfKey(k) == apiKey[k]

\* The decorator or the key asks for a signature.
MustSign(c, row) == Route(c).signed \/ row.signing

\* authenticate: the row as it is now; what happens to the key later is not seen.
Authenticate(c) ==
    LET row == RowOfKey(request[c].key) IN
    /\ stage[c] = "key"
    /\ IF row.status # "ACTIVE"
       THEN Moves(c, "refused") /\ UNCHANGED identity
       ELSE /\ identity' = [identity EXCEPT ![c] = row]
            /\ Moves(c, IF MustSign(c, row) THEN "signature" ELSE "scope")
    /\ UNCHANGED <<apiKey, request, nonces, claimedAt, wall>>

\* The skew of a timestamp from the clock, both in whole seconds.
Abs(n) == IF n < 0 THEN -n ELSE n
InWindow(timestamp, t) == Abs(Second(t) - timestamp) <= SignatureTolerance

\* verifySignature: a key without a secret and a timestamp out of the window are refused.
CheckTimestamp(c) ==
    /\ stage[c] = "signature"
    /\ Moves(c, IF identity[c].signing /\ InWindow(request[c].timestamp, wall)
                THEN "nonce" ELSE "refused")
    /\ UNCHANGED <<apiKey, request, identity, nonces, claimedAt, wall>>

\* Mutant: a nonce is kept for the tolerance only.
keptForTolerance(t) == t + 2 * SignatureTolerance

\* EX ttlSeconds: twice the tolerance from the claim.
keptUntil(t) == t + 2 * (2 * SignatureTolerance)

\* SET NX in the store all pods share: a key that has expired is not there.
claim(pair) == nonces[pair] <= wall

\* The nonce is claimed, at a later instant of the store, before the signature is compared.
ClaimNonce(c) ==
    /\ stage[c] = "nonce"
    /\ IF claim(PairOf(c))
       THEN /\ nonces' = [nonces EXCEPT ![PairOf(c)] = keptUntil(wall)]
            /\ claimedAt' = [claimedAt EXCEPT ![c] = wall]
            /\ Moves(c, IF request[c].signature THEN "scope" ELSE "refused")
       ELSE Moves(c, "refused") /\ UNCHANGED <<nonces, claimedAt>>
    /\ UNCHANGED <<apiKey, request, identity, wall>>

AssertScope(c) ==
    /\ stage[c] = "scope"
    /\ Moves(c, IF Route(c).scope \in identity[c].scopes THEN "capability" ELSE "refused")
    /\ UNCHANGED <<apiKey, request, identity, nonces, claimedAt, wall>>

\* CapabilityGuard: 501 before any call of the provider.
RequireCapability(c) ==
    /\ stage[c] = "capability"
    /\ Moves(c, IF Route(c).capability \in Unsupported THEN "refused" ELSE "admitted")
    /\ UNCHANGED <<apiKey, request, identity, nonces, claimedAt, wall>>

TickWall ==
    /\ wall < MaxWall
    /\ wall' = wall + 1
    /\ UNCHANGED <<apiKey, request, stage, identity, nonces, claimedAt>>

SurfaceNext ==
    \/ \E k \in ApiKeys : Revoke(k) \/ \E m \in MintRequests : Mint(k, m)
    \/ \E c \in Arrivals : EnterSurface(c) \/ Authenticate(c) \/ CheckTimestamp(c)
                             \/ ClaimNonce(c) \/ AssertScope(c) \/ RequireCapability(c)
    \/ TickWall

SurfaceSpec == SurfaceInit /\ [][SurfaceNext]_surfaceVars

-----------------------------------------------------------------------------
\* The first second in which the service takes a timestamp: its clock is the tolerance behind
\* the client's.
AtFirstSecond(c) == Second(claimedAt[c]) = request[c].timestamp - SignatureTolerance

\* What a production key with pix:write has admitted was signed, also on the routes whose
\* decorators do not ask for a signature, because minting made the key sign; and two requests
\* that passed under one nonce did so at least twice the tolerance apart, on one pod or on two.
\* So a signed request delivered twice counts once, unless its first delivery came in the first
\* second of its window: there the second may come in the last, up to a second after the nonce
\* was forgotten (ApiKeysService.resolveSigning, ApiKeyService.verifySignature,
\* NonceStore.claim).
SignedOnce ==
    \A c \in Arrivals :
        /\ stage[c] = "admitted"
        /\ Route(c).surface = "client"
        /\ identity[c].environment = "PRODUCAO" /\ "pix:write" \in identity[c].scopes
        => /\ request[c].signature
           /\ \A d \in Arrivals \ {c} :
                 /\ stage[d] = "admitted" /\ Route(d).surface = "client"
                 /\ PairOf(d) = PairOf(c) /\ claimedAt[c] <= claimedAt[d]
                 => /\ claimedAt[d] - claimedAt[c] >= 2 * (2 * SignatureTolerance)
                    /\ request[d].timestamp = request[c].timestamp
                         /\ InWindow(request[d].timestamp, claimedAt[d])
                       => AtFirstSecond(c)
================================================================================
