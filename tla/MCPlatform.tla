------------------------------ MODULE MCPlatform ------------------------------
(***************************************************************************)
(* The parts of the API around the money, checked one at a time: accounts  *)
(* and onboarding, Pix keys, Pix charges, the settlement of a payment that *)
(* was sent, the balance, the bindings of a connection, the console's      *)
(* sessions, the guards of the routes, and the repositories beside their   *)
(* doubles.  They share no state, so a behaviour is a behaviour of the     *)
(* part in focus and the others rest: the state spaces add up and do not   *)
(* multiply.                                                               *)
(***************************************************************************)
EXTENDS Accounts, PixCharges, PixSettle, Balance, Connections, Surface, Doubles

CONSTANTS c1, c2, k1, k2, m1, x1, x2, p1, p2

VARIABLE focus

Parts == {"accounts", "keys", "charges", "settle", "balance", "connections", "console", "surface",
          "doubles"}

-----------------------------------------------------------------------------
(* The instance. *)

MCCreations == {c1, c2}
\* Two creations at once; documents and a forced decision; changes of status by the client.
MCLoads ==
    {[creations |-> {c1, c2}, documents |-> FALSE, changes |-> 0, decisions |-> 0],
     [creations |-> {c1}, documents |-> TRUE, changes |-> 0, decisions |-> 1],
     [creations |-> {c1}, documents |-> FALSE, changes |-> 2, decisions |-> 0]}

\* A value to be paid in full, expiring soon or late, and a charge of any value.
MCChargeAsks == [amount : {2}, expiry : {1, 3}, account : {"a"}]
                  \union [amount : {0}, expiry : {3}, account : {"a"}]

CachedQuery == [consistency |-> "cached", source |-> "provider", onProviderError |-> "serve_stale",
                authorizationPath |-> FALSE]
StrongQuery == [CachedQuery EXCEPT !.consistency = "strong", !.onProviderError = "fail"]
PayingQuery == [CachedQuery EXCEPT !.onProviderError = "fail", !.authorizationPath = TRUE]
LedgerQuery == [CachedQuery EXCEPT !.source = "ledger", !.onProviderError = "fail"]
QuerySeq == <<CachedQuery, StrongQuery, PayingQuery, LedgerQuery>>
MCQueries == {QuerySeq[i] : i \in DOMAIN QuerySeq}

MCUserRecords ==
    {[role |-> "ADMIN", status |-> "ACTIVE", mfaEnabled |-> FALSE, totp |-> TRUE],
     [role |-> "VIEWER", status |-> "ACTIVE", mfaEnabled |-> FALSE, totp |-> FALSE]}

MCSituations ==
    {[webhooks |-> TRUE, highSeverityBreak |-> FALSE, lastEventAt |-> -1],
     [webhooks |-> FALSE, highSeverityBreak |-> TRUE, lastEventAt |-> -1]}

\* Keys of production that sign by rule and by mistake do not, and one that reads only.
MCMintRequests ==
    {[environment |-> "PRODUCAO", scopes |-> {"pix:write"}, signingRequired |-> "unsaid"],
     [environment |-> "PRODUCAO", scopes |-> {"pix:write"}, signingRequired |-> "no"],
     [environment |-> "HOMOLOGACAO", scopes |-> {"pix:write", "pix:read"}, signingRequired |-> "no"]}

\* Client requests under one nonce, of two timestamps, and the two other surfaces.
MCRequests ==
    [route : {"transfer", "createCharge", "getCharge", "resolveKey"}, key : {k1}, nonce : {"n1"},
     timestamp : {1}, signature : BOOLEAN, role : {"none"}]
    \union [route : {"createCharge"}, key : {k1}, nonce : {"n1"}, timestamp : {2},
            signature : {TRUE}, role : {"none"}]
    \union [route : {"createApiKey", "login"}, key : {k1}, nonce : {"n1"}, timestamp : {1},
            signature : {FALSE}, role : {"none", "ADMIN"}]

-----------------------------------------------------------------------------
(* One part at a time. *)

\* Readers are interchangeable, and so are payers: one order of their parts is enough.
ReadersInOrder == \E i \in DOMAIN QuerySeq, j \in DOMAIN QuerySeq :
                     i <= j /\ query[x1] = QuerySeq[i] /\ query[x2] = QuerySeq[j]
PayersInOrder == send[p1] <= send[p2]

\* A part at rest starts from one of its initial states.
AccountsRest == /\ scenario = "APPROVE" /\ forced = 0 /\ changes = 0
                /\ extId = [r \in Creations |-> NoExt]
ChargesRest == /\ ask = CHOOSE a \in ChargeAsks : TRUE
               /\ send = [p \in Payers |-> 1]
BalanceRest == /\ query = [r \in Readers |-> CHOOSE q \in Queries : TRUE]
               /\ situation = CHOOSE s \in Situations : TRUE
SurfaceRest == request = [c \in Arrivals |-> CHOOSE r \in Requests : TRUE]
ConsoleRest == user = [u \in ConsoleUsers |-> CHOOSE r \in UserRecords : TRUE]

KeysStart ==
    CASE focus = "keys" -> KeysInit(KeyRequests, KeyRemovals)
      [] focus = "charges" -> KeysInit({k1}, {m1}) /\ wanted = [k \in KeyRequests |-> [account |-> "a", evp |-> FALSE]]
      [] OTHER -> KeysInit({}, {}) /\ wanted = [k \in KeyRequests |-> [account |-> "a", evp |-> FALSE]]

PlatformInit ==
    /\ focus \in Parts
    /\ AccountsInit /\ (focus # "accounts" => AccountsRest)
    /\ KeysStart
    /\ ChargesInit /\ PayersInOrder /\ (focus # "charges" => ChargesRest)
    /\ SettleInit
    /\ BalanceInit /\ ReadersInOrder /\ (focus # "balance" => BalanceRest)
    /\ ConnectionsInit
    /\ ConsoleInit /\ (focus # "console" => ConsoleRest)
    /\ SurfaceInit /\ (focus # "surface" => SurfaceRest)
    /\ DoublesInit /\ (focus # "doubles" => repo = "holder")

\* The variables of the other parts.
Rest(part) ==
    /\ UNCHANGED focus
    /\ part # "accounts" => UNCHANGED accountsVars
    /\ part \notin {"keys", "charges"} => UNCHANGED chargeVars
    /\ part # "settle" => UNCHANGED settleVars
    /\ part # "balance" => UNCHANGED balanceVars
    /\ part # "connections" => UNCHANGED linkVars
    /\ part # "console" => UNCHANGED consoleVars
    /\ part # "surface" => UNCHANGED surfaceVars
    /\ part # "doubles" => UNCHANGED doublesVars

PlatformNext ==
    \/ focus = "accounts" /\ AccountsNext /\ Rest("accounts")
    \/ focus = "keys" /\ KeysNext /\ Rest("keys") /\ UNCHANGED chargeOnlyVars
    \/ focus = "charges" /\ PixAddressingNext /\ Rest("charges")
    \/ focus = "settle" /\ SettleNext /\ Rest("settle")
    \/ focus = "balance" /\ BalanceNext /\ Rest("balance")
    \/ focus = "connections" /\ ConnectionsNext /\ Rest("connections")
    \/ focus = "console" /\ ConsoleNext /\ Rest("console")
    \/ focus = "surface" /\ SurfaceNext /\ Rest("surface")
    \/ focus = "doubles" /\ DoublesNext /\ Rest("doubles")

platformVars == <<focus, accountsVars, chargeVars, settleVars, balanceVars, linkVars, consoleVars, surfaceVars,
                  doublesVars>>
PlatformSpec == PlatformInit /\ [][PlatformNext]_platformVars
=============================================================================
