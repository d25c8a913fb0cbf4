--------------------------- MODULE PlatformProofs ---------------------------
(***************************************************************************)
(* Theorems about the parts of the API around the sending of a payment:    *)
(* the Pix keys, the bindings of a connection, the console's sessions, the *)
(* signed requests, the balance, the charges, the opening of accounts, the *)
(* settlement of a payment that was sent and the provider's events, each   *)
(* from the specification of its own module and for every value of its     *)
(* constants.                                                              *)
(***************************************************************************)
EXTENDS Accounts, PixCharges, Balance, Connections, Surface, PixSettle, Inbound,
        FiniteSetTheorems, TLAPS

-----------------------------------------------------------------------------
(* Pix keys. *)

\* What a removal knows between its steps: it read a row that exists, and once the bank
\* has deleted, the bank does not hold the key of that row.
RemovalsKnow ==
    /\ \A m \in KeyRemovals : removal[m].at \in {"delete", "mark"} =>
          removal[m].row \in KeyRequests /\ keyRow[removal[m].row] # "none"
    /\ \A m \in KeyRemovals : removal[m].at = "mark" => removal[m].row \notin dict

\* A row is the last thing a registration writes: a key is registered once, before it.
RowsAreLast == \A k \in KeyRequests : keyRow[k] # "none" => keyAt[k] = "done"

KeysInv == KeysTypeOK /\ RowsAreLast /\ RemovalsKnow /\ RegisteredIsTraced

LEMMA KeysInitially == KeysInit(KeyRequests, KeyRemovals) => KeysInv
  BY DEF KeysInit, KeysInv, KeysTypeOK, RowsAreLast, RemovalsKnow, RegisteredIsTraced, KeyAsked

\* The status of a row that was just written.
LEMMA ActiveIsAStatus ==
    /\ toKeyStatus("ACTIVE") = "ACTIVE"
    /\ {"ACTIVE", "REMOVED"} \subseteq DOMAIN PIX_KEY_STATUS_TRANSITIONS
    /\ "none" \notin DOMAIN PIX_KEY_STATUS_TRANSITIONS
  BY DEF toKeyStatus, PIX_KEY_STATUS_TRANSITIONS

\* Every step of a registration and of a removal keeps the invariant.
LEMMA KeysStep == KeysInv /\ [KeysNext]_keyVars => KeysInv'
  <1> SUFFICES ASSUME KeysInv, [KeysNext]_keyVars PROVE KeysInv'
    OBVIOUS
  <1> USE DEF KeysInv, KeysTypeOK, RowsAreLast, RemovalsKnow, RegisteredIsTraced
  <1>1. ASSUME NEW k \in KeyRequests, LookUpKey(k) PROVE KeysInv'
    <2>1. \E to \in {"call", "done", "refused"} : keyAt' = [keyAt EXCEPT ![k] = to]
      BY <1>1 DEF LookUpKey, KeyStep
    <2>2. QED BY <2>1, <1>1 DEF LookUpKey
  <1>2. ASSUME NEW k \in KeyRequests, RegisterKey(k) PROVE KeysInv'
    <2>1. keyRow[k] = "none"
      BY <1>2 DEF RegisterKey
    <2>2. QED BY <2>1, <1>2 DEF RegisterKey, KeyStep
  <1>3. ASSUME NEW k \in KeyRequests, InsertKey(k) PROVE KeysInv'
    BY <1>3, ActiveIsAStatus DEF InsertKey, KeyStep
  <1>4. ASSUME NEW k \in KeyRequests, LoseRegistration(k) PROVE KeysInv'
    BY <1>4 DEF LoseRegistration, KeyStep
  <1>5. ASSUME NEW m \in KeyRemovals, NEW k \in KeyRequests, ReadKey(m, k) PROVE KeysInv'
    BY <1>5 DEF ReadKey
  <1>6. ASSUME NEW m \in KeyRemovals, DeleteKey(m) PROVE KeysInv'
    <2> DEFINE k == removal[m].row
               ofAccount == {d \in findActive(ValueOf(k)) : wanted[d].account = wanted[k].account}
    <2>1. k \notin dict \ ofAccount
      BY DEF findActive
    <2>2. QED BY <2>1, <1>6 DEF DeleteKey, RemovalStep
  <1>7. ASSUME NEW m \in KeyRemovals, MarkRemoved(m) PROVE KeysInv'
    BY <1>7, ActiveIsAStatus DEF MarkRemoved, RemovalStep
  <1>8. ASSUME NEW m \in KeyRemovals, LoseRemoval(m) PROVE KeysInv'
    BY <1>8 DEF LoseRemoval, RemovalStep
  <1>9. CASE UNCHANGED keyVars
    BY <1>9 DEF keyVars
  <1>10. QED
    BY <1>1, <1>2, <1>3, <1>4, <1>5, <1>6, <1>7, <1>8, <1>9 DEF KeysNext

\* Whatever the requests, the accounts and the values: a key that the bank holds is shown
\* as active, or is about to be, or was lost between the bank's answer and its row. No
\* removal marks the row of a key that receives money.
THEOREM HeldKeysAreTraced == KeysSpec => []RegisteredIsTraced
  <1>1. KeysInv => RegisteredIsTraced
    BY DEF KeysInv
  <1>2. QED
    BY <1>1, KeysInitially, KeysStep, PTL DEF KeysSpec

-----------------------------------------------------------------------------
(* The bindings of a connection. *)

LinkStatuses == {"PENDING_VALIDATION"} \union ManualStatuses
LinkRows == [status : LinkStatuses, version : Versions, settings : Nat]
CacheEntries == [version : Versions, settings : Nat, until : Nat]

\* The version counts the rotations, so there is room in Versions for every one.
LinkTypeOK ==
    /\ link \in LinkRows /\ link.version <= edits + 1
    /\ podCache \in [Pods -> [Versions -> {Gone} \union CacheEntries]]
    /\ edits \in 0 .. MaxEdits /\ instant \in Nat

\* What a call knows between its read of the row and its binding.
BindsKnow ==
    /\ bind = [b \in Binds |-> bind[b]]
    /\ \A b \in Binds : bind[b].at = "decrypt" => bind[b].row \in LinkRows /\ bind[b].pod \in Pods

\* An entry is under the version of the credentials it holds: the key is taken from the row
\* that was decrypted, never from the one of a later read.
EntriesUnderTheirVersion ==
    \A p \in Pods, v \in Versions : podCache[p][v].until > -1 => podCache[p][v].version = v

LinkInv == LinkTypeOK /\ BindsKnow /\ EntriesUnderTheirVersion /\ BindingIsCurrent

LEMMA LinkInitially == ConnectionsInit => LinkInv
  <1> SUFFICES ASSUME ConnectionsInit PROVE LinkInv
    OBVIOUS
  <1>1. link \in LinkRows /\ link.version <= edits + 1
    BY ConnectionsAssumption DEF ConnectionsInit, ConnectionsAssumption, LinkRows, LinkStatuses,
       newConnection, Versions
  <1>2. /\ podCache \in [Pods -> [Versions -> {Gone} \union CacheEntries]]
        /\ EntriesUnderTheirVersion
    BY DEF ConnectionsInit, EntriesUnderTheirVersion, Gone
  <1>3. BindsKnow /\ BindingIsCurrent
    BY DEF ConnectionsInit, BindsKnow, BindingIsCurrent
  <1>4. QED
    BY <1>1, <1>2, <1>3, ConnectionsAssumption
    DEF ConnectionsInit, ConnectionsAssumption, LinkInv, LinkTypeOK

\* Every edit, read and decryption keeps the invariant.
LEMMA LinkStep == LinkInv /\ [ConnectionsNext]_linkVars => LinkInv'
  <1> SUFFICES ASSUME LinkInv, [ConnectionsNext]_linkVars PROVE LinkInv'
    OBVIOUS
  <1> USE ConnectionsAssumption
      DEF LinkInv, LinkTypeOK, BindsKnow, EntriesUnderTheirVersion, BindingIsCurrent
  <1>1. ASSUME NEW p \in Pods, Rotate(p) PROVE LinkInv'
    <2>1. edits + 1 \in 0 .. MaxEdits
      BY <1>1 DEF Rotate, CanEdit
    <2>2. link' \in LinkRows /\ link'.version = link.version + 1
      <3>1. link'.version = link.version + 1 /\ link.version + 1 \in Versions
        BY <2>1, <1>1 DEF Rotate, CanEdit, nextVersion, LinkRows, Versions
      <3>2. QED
        BY <3>1, <1>1 DEF Rotate, nextVersion, LinkRows
    <2>3. podCache' \in [Pods -> [Versions -> {Gone} \union CacheEntries]] /\ EntriesUnderTheirVersion'
      BY <1>1 DEF Rotate, forget, Gone
    <2>4. edits' = edits + 1 /\ bind' = bind /\ instant' = instant
      BY <1>1 DEF Rotate, CanEdit
    <2>5. LinkTypeOK'
      BY <2>1, <2>2, <2>3, <2>4 DEF LinkRows, Versions
    <2>6. BindsKnow' /\ BindingIsCurrent'
      BY <2>4
    <2>7. QED
      BY <2>3, <2>5, <2>6
  <1>2. ASSUME NEW s \in ManualStatuses, UpdateSettings(s) PROVE LinkInv'
    <2>1. link' \in LinkRows /\ link'.version = link.version
      <3>1. link' = [status |-> s, version |-> link.version, settings |-> edits + 1]
        BY <1>2 DEF UpdateSettings, editedRow, LinkRows
      <3>2. edits + 1 \in Nat /\ link.version \in Versions
        BY DEF LinkRows
      <3>3. QED
        BY <3>1, <3>2 DEF LinkRows, LinkStatuses
    <2>2. edits' = edits + 1 /\ edits + 1 \in 0 .. MaxEdits /\ UNCHANGED <<podCache, bind, instant>>
      BY <1>2 DEF UpdateSettings, CanEdit
    <2>3. LinkTypeOK'
      BY <2>1, <2>2 DEF LinkRows, Versions
    <2>4. BindsKnow' /\ BindingIsCurrent' /\ EntriesUnderTheirVersion'
      BY <2>2
    <2>5. QED
      BY <2>3, <2>4
  <1>3. ASSUME TimePasses PROVE LinkInv'
    BY <1>3 DEF TimePasses
  <1>4. ASSUME NEW b \in Binds, NEW p \in Pods, ReadConnection(b, p) PROVE LinkInv'
    <2> link.version \in Versions
      BY DEF LinkRows
    <2>1. ASSUME NEW e \in Fresh(p, link) PROVE e.version = link.version
      <3>1. e = podCache[p][link.version] /\ e.until > instant
        BY <2>1 DEF Fresh, cacheKeyOf
      <3>2. e \in {Gone} \union CacheEntries
        BY <3>1
      <3>3. e.until > -1
        BY <3>1, <3>2 DEF Gone, CacheEntries
      <3>4. QED
        BY <3>1, <3>3
    <2>2. UNCHANGED <<link, podCache, edits, instant>> /\ BindsKnow'
      BY <1>4 DEF ReadConnection
    <2>3. BindingIsCurrent'
      BY <2>1, <1>4 DEF ReadConnection
    <2>4. QED
      BY <2>2, <2>3
  <1>5. ASSUME NEW b \in Binds, Decrypt(b) PROVE LinkInv'
    <2> DEFINE seenRow == bind[b].row
               entry == [version |-> seenRow.version, settings |-> seenRow.settings,
                         until |-> instant + ResolverTtl]
    <2>1. seenRow \in LinkRows /\ bind[b].pod \in Pods
      BY <1>5 DEF Decrypt
    <2>2. entry \in CacheEntries /\ seenRow.version \in Versions
      BY <2>1 DEF LinkRows, CacheEntries
    <2>3. podCache' = [podCache EXCEPT ![bind[b].pod][seenRow.version] = entry]
      BY <1>5 DEF Decrypt, cacheKeyOf
    <2>4. /\ podCache' \in [Pods -> [Versions -> {Gone} \union CacheEntries]]
          /\ EntriesUnderTheirVersion'
      <3> HIDE DEF entry
      <3>1. entry.version = seenRow.version
        BY DEF entry
      <3>2. QED BY <3>1, <2>1, <2>2, <2>3
    <2>5. BindsKnow' /\ BindingIsCurrent'
      BY <1>5 DEF Decrypt
    <2>6. QED
      BY <2>4, <2>5, <1>5 DEF Decrypt
  <1>6. CASE UNCHANGED linkVars
    BY <1>6 DEF linkVars
  <1>7. QED
    BY <1>1, <1>2, <1>3, <1>4, <1>5, <1>6 DEF ConnectionsNext

\* On every pod, and however rotations, edits and reads meet in its cache, a call goes out
\* under the version of the credentials that its own read of the row found.
THEOREM CallsUseTheirCredentials == ConnectionsSpec => []BindingIsCurrent
  <1>1. LinkInv => BindingIsCurrent
    BY DEF LinkInv
  <1>2. QED
    BY <1>1, LinkInitially, LinkStep, PTL DEF ConnectionsSpec

-----------------------------------------------------------------------------
(* The sessions of the console. *)

SessionRows == [owner : ConsoleUsers, secret : Nat, expiresAt : Nat, revoked : BOOLEAN]

SessionsTypeOK ==
    /\ session \in [LoginIds -> {Absent} \union SessionRows]
    /\ admitted = [s \in LoginIds |-> admitted[s]]
    /\ secrets \in Nat /\ moment \in Nat

\* The cookies of a browser name a session that a login created.
CookiesNameASession ==
    /\ jar = [b \in Browsers |-> jar[b]]
    /\ \A b \in Browsers : jar[b] # NoCookies => jar[b].session \in LoginIds

\* What a navigation knows: the session its cookies named and, once it was read, that it
\* exists and the moment it was read at.
TabsKnow ==
    /\ tab = [t \in Tabs |-> tab[t]]
    /\ \A t \in Tabs : tab[t].at \in {"sent", "user", "reuse", "rotate", "renewed"} =>
          tab[t].session \in LoginIds
    /\ \A t \in Tabs : tab[t].at \in {"user", "reuse", "rotate"} =>
          session[tab[t].session] # Absent /\ tab[t].now \in Nat

ConsoleInv == SessionsTypeOK /\ CookiesNameASession /\ TabsKnow

LEMMA ConsoleInitially == ConsoleInit => ConsoleInv
  BY DEF ConsoleInit, ConsoleInv, SessionsTypeOK, CookiesNameASession, TabsKnow

\* Setting the mark of revocation gives a row again, and the same row where it was set.
LEMMA MarkingARow ==
    ASSUME NEW old \in SessionRows, NEW marked, marked = [old EXCEPT !.revoked = TRUE]
    PROVE  marked \in SessionRows /\ (old.revoked => marked = old)
  BY DEF SessionRows

\* There is nothing to mark where no session is.
LEMMA MarkingNothing == [Absent EXCEPT !.revoked = TRUE] = Absent /\ Absent \notin SessionRows
  BY DEF Absent, SessionRows

\* What RevokedIsDead asks of one step.
RevokedStays ==
    \A s \in LoginIds : session[s] # Absent /\ session[s].revoked =>
        session'[s] = session[s] /\ admitted'[s] = admitted[s]

\* A step that leaves the sessions and what was admitted alone, and the clock and the tokens
\* no earlier, keeps what is known of them.
LEMMA SessionsUntouched ==
    ASSUME SessionsTypeOK, UNCHANGED <<session, admitted>>, secrets' \in Nat, moment' \in Nat
    PROVE  SessionsTypeOK' /\ RevokedStays
  BY DEF SessionsTypeOK, RevokedStays

\* Every step of the console keeps the invariant, and none brings a session back.
LEMMA ConsoleStep == ConsoleInv /\ [ConsoleNext]_consoleVars => ConsoleInv' /\ RevokedStays
  <1> SUFFICES ASSUME ConsoleInv, [ConsoleNext]_consoleVars PROVE ConsoleInv' /\ RevokedStays
    OBVIOUS
  <1> USE DEF ConsoleInv
  <1>1. ASSUME NEW u \in ConsoleUsers, NEW s \in LoginIds, NEW b \in Browsers, NEW code,
               Login(u, s, b, code)
        PROVE  ConsoleInv' /\ RevokedStays
    <2> DEFINE born == newSession(u, secrets + 1)
    <2>1. born \in SessionRows
      BY ConsoleAssumption DEF ConsoleAssumption, SessionsTypeOK, newSession, SessionRows
    <2>2. SessionsTypeOK' /\ RevokedStays
      <3> HIDE DEF born
      <3>1. session[s] = Absent /\ session' = [session EXCEPT ![s] = born]
        BY <1>1 DEF Login, born
      <3>2. QED
        BY <2>1, <3>1, <1>1 DEF Login, SessionsTypeOK, RevokedStays
    <2>3. CookiesNameASession'
      BY <1>1 DEF Login, CookiesNameASession, cookiesOf
    <2>4. TabsKnow'
      BY <1>1, <2>1, MarkingNothing DEF Login, TabsKnow, SessionsTypeOK
    <2>5. QED
      BY <2>2, <2>3, <2>4
  <1>2. ASSUME NEW t \in Tabs, NEW b \in Browsers, Navigate(t, b)
        PROVE  ConsoleInv' /\ RevokedStays
    <2>1. TabsKnow' /\ CookiesNameASession'
      BY <1>2 DEF Navigate, TabsKnow, CookiesNameASession
    <2>2. QED
      BY <2>1, <1>2, SessionsUntouched DEF Navigate, SessionsTypeOK
  <1>3. ASSUME NEW t \in Tabs, ReadSession(t) PROVE ConsoleInv' /\ RevokedStays
    <2>1. TabsKnow' /\ CookiesNameASession'
      BY <1>3 DEF ReadSession, TabsKnow, CookiesNameASession, Alive, SessionsTypeOK
    <2>2. QED
      BY <2>1, <1>3, SessionsUntouched DEF ReadSession, SessionsTypeOK
  <1>4. ASSUME NEW t \in Tabs, RevokeReused(t) PROVE ConsoleInv' /\ RevokedStays
    <2> DEFINE marked(s) == [session[s] EXCEPT !.revoked = TRUE]
    <2>1. \A s \in LoginIds : session'[s] \in {session[s], marked(s)}
      BY <1>4 DEF RevokeReused, revokeAllForUser
    <2>2. \A s \in LoginIds :
            /\ session'[s] \in {Absent} \union SessionRows
            /\ session'[s] = Absent <=> session[s] = Absent
            /\ session[s] # Absent /\ session[s].revoked => session'[s] = session[s]
      <3> SUFFICES ASSUME NEW s \in LoginIds
                   PROVE  /\ session'[s] \in {Absent} \union SessionRows
                          /\ session'[s] = Absent <=> session[s] = Absent
                          /\ session[s] # Absent /\ session[s].revoked => session'[s] = session[s]
        OBVIOUS
      <3>1. CASE session[s] = Absent
        BY <3>1, <2>1, MarkingNothing
      <3>2. CASE session[s] \in SessionRows
        <4>1. marked(s) \in SessionRows /\ (session[s].revoked => marked(s) = session[s])
          BY <3>2, MarkingARow
        <4> HIDE DEF marked
        <4>2. QED
          BY <4>1, <3>2, <2>1, MarkingNothing
      <3>3. QED
        BY <3>1, <3>2 DEF SessionsTypeOK
    <2>3. session' = [s \in LoginIds |-> session'[s]] /\ UNCHANGED <<jar, secrets, admitted, moment>>
      BY <1>4 DEF RevokeReused, revokeAllForUser
    <2>4. SessionsTypeOK' /\ RevokedStays
      BY <2>2, <2>3 DEF SessionsTypeOK, RevokedStays
    <2>5. TabsKnow'
      <3>1. /\ tab' = [tab EXCEPT ![t] = [at |-> "expired", browser |-> tab[t].browser]]
            /\ \A s \in LoginIds : session'[s] = Absent <=> session[s] = Absent
        BY <1>4, <2>2 DEF RevokeReused
      <3>2. QED
        BY <3>1 DEF TabsKnow
    <2>6. QED
      BY <2>3, <2>4, <2>5 DEF CookiesNameASession
  <1>5. ASSUME NEW t \in Tabs, ReadUser(t) PROVE ConsoleInv' /\ RevokedStays
    <2>1. TabsKnow' /\ CookiesNameASession'
      BY <1>5 DEF ReadUser, TabsKnow, CookiesNameASession
    <2>2. QED
      BY <2>1, <1>5, SessionsUntouched DEF ReadUser, SessionsTypeOK
  <1>6. ASSUME NEW t \in Tabs, RotateToken(t) PROVE ConsoleInv' /\ RevokedStays
    <2> DEFINE s == tab[t].session
               rotated == [[session[s] EXCEPT !.secret = secrets + 1] EXCEPT !.expiresAt = tab[t].now + RefreshTtl]
    <2>1. s \in LoginIds /\ session[s] \in SessionRows /\ tab[t].now \in Nat
      BY <1>6 DEF RotateToken, TabsKnow, SessionsTypeOK
    <2>2. rotated \in SessionRows
      <3>1. secrets + 1 \in Nat /\ tab[t].now + RefreshTtl \in Nat
        BY <2>1, ConsoleAssumption DEF ConsoleAssumption, SessionsTypeOK
      <3>2. QED
        BY <2>1, <3>1 DEF SessionRows
    <2>3. session' = IF session[s].revoked THEN session ELSE [session EXCEPT ![s] = rotated]
      BY <1>6, <2>1 DEF RotateToken, rotate, SessionsTypeOK
    <2> HIDE DEF rotated
    <2>4. SessionsTypeOK' /\ RevokedStays
      BY <2>1, <2>2, <2>3, <1>6 DEF RotateToken, SessionsTypeOK, RevokedStays
    <2>5. \A o \in LoginIds : session[o] # Absent => session'[o] # Absent
      BY <2>1, <2>2, <2>3, MarkingNothing DEF SessionsTypeOK
    <2>6. TabsKnow' /\ CookiesNameASession'
      BY <2>1, <2>5, <1>6 DEF RotateToken, TabsKnow, CookiesNameASession
    <2>7. QED
      BY <2>4, <2>6
  <1>7. ASSUME NEW t \in Tabs, AnswerTab(t) PROVE ConsoleInv' /\ RevokedStays
    <2>1. TabsKnow' /\ CookiesNameASession'
      BY <1>7 DEF AnswerTab, TabsKnow, CookiesNameASession, cookiesOf
    <2>2. QED
      BY <2>1, <1>7, SessionsUntouched DEF AnswerTab, SessionsTypeOK
  <1>8. ASSUME NEW s \in LoginIds, Logout(s) PROVE ConsoleInv' /\ RevokedStays
    <2> DEFINE marked == [session[s] EXCEPT !.revoked = TRUE]
    <2>1. session[s] \in SessionRows /\ session' = [session EXCEPT ![s] = marked]
      BY <1>8 DEF Logout, SessionsTypeOK
    <2>2. marked \in SessionRows /\ (session[s].revoked => marked = session[s])
      BY <2>1, MarkingARow
    <2> HIDE DEF marked
    <2>3. SessionsTypeOK' /\ RevokedStays
      BY <2>1, <2>2, <1>8 DEF Logout, SessionsTypeOK, RevokedStays
    <2>4. \A o \in LoginIds : session[o] # Absent => session'[o] # Absent
      BY <2>1, <2>2, MarkingNothing DEF SessionsTypeOK
    <2>5. QED
      BY <2>3, <2>4, <1>8 DEF Logout, TabsKnow, CookiesNameASession
  <1>9. ASSUME NEW b \in Browsers, Admit(b) PROVE ConsoleInv' /\ RevokedStays
    <2>1. /\ jar[b].session \in LoginIds
          /\ session[jar[b].session] # Absent /\ ~session[jar[b].session].revoked
      BY <1>9 DEF Admit, CookiesNameASession, Alive
    <2>2. SessionsTypeOK' /\ RevokedStays
      BY <2>1, <1>9 DEF Admit, SessionsTypeOK, RevokedStays
    <2>3. QED
      BY <2>2, <1>9 DEF Admit, TabsKnow, CookiesNameASession
  <1>10. ASSUME NEW u \in ConsoleUsers, DisableUser(u) PROVE ConsoleInv' /\ RevokedStays
    BY <1>10, SessionsUntouched DEF DisableUser, SessionsTypeOK, TabsKnow, CookiesNameASession
  <1>11. ASSUME MomentPasses PROVE ConsoleInv' /\ RevokedStays
    BY <1>11, SessionsUntouched DEF MomentPasses, SessionsTypeOK, TabsKnow, CookiesNameASession
  <1>12. CASE UNCHANGED consoleVars
    BY <1>12, SessionsUntouched DEF consoleVars, SessionsTypeOK, TabsKnow, CookiesNameASession
  <1>13. QED
    BY <1>1, <1>2, <1>3, <1>4, <1>5, <1>6, <1>7, <1>8, <1>9, <1>10, <1>11, <1>12 DEF ConsoleNext

\* Whatever refreshes read the session before it was revoked, and however many tabs and
\* logins there are: a revoked session keeps its row for good and admits no request.
THEOREM RevocationIsFinal == ConsoleSpec => RevokedIsDead
  <1>1. ConsoleInv /\ [ConsoleNext]_consoleVars => [RevokedStays]_consoleVars
    BY ConsoleStep
  <1>2. ConsoleSpec => [][RevokedStays]_consoleVars
    BY <1>1, ConsoleInitially, ConsoleStep, PTL DEF ConsoleSpec
  <1>3. QED
    BY <1>2 DEF RevokedIsDead, RevokedStays

-----------------------------------------------------------------------------
(* The age of a balance. *)

\* A figure is the account's at the instant it claims, and that instant has come.
Honest(entry) == entry.asOf \in 0 .. now /\ entry.value = held[entry.asOf]

ClockTypeOK ==
    /\ held = [t \in 0 .. MaxNow |-> held[t]] /\ now \in 0 .. MaxNow
    /\ read = [r \in Readers |-> read[r]]

\* Where a read stands, with what it found, holds, fetched and answers.
ReadOf(where, found, mutex, fetched, told) ==
    [at |-> where, cached |-> found, locked |-> mutex, fresh |-> fetched, answer |-> told]

IsARead(state) == state = ReadOf(state.at, state.cached, state.locked, state.fresh, state.answer)

\* The figures a read carries on their way to its client: the entry it found at the start,
\* the value it fetched or was handed, and its answer.
Carries(state) ==
    /\ IsARead(state)
    /\ state.cached # Vacant => Honest(state.cached)
    /\ state.at = "store" => Honest(state.fresh)
    /\ state.answer.source \in {"cache", "cache-stale", "provider"} => Honest(state.answer)

\* So are the figures of the cache.
FiguresAreHonest ==
    /\ slot # Vacant => Honest(slot)
    /\ \A r \in Readers : Carries(read[r])

BalanceInv == ClockTypeOK /\ FiguresAreHonest

\* A read made of honest parts carries honest figures.
LEMMA HonestParts ==
    ASSUME NEW a, NEW b, NEW c, NEW d, NEW e, b # Vacant => Honest(b), a = "store" => Honest(d),
           e.source \in {"cache", "cache-stale", "provider"} => Honest(e)
    PROVE  Carries(ReadOf(a, b, c, d, e))
  BY DEF Carries, IsARead, ReadOf

\* So does a read that carried them, with its place and one figure set to an honest one.
LEMMA ReadCarriesOn ==
    ASSUME NEW state, Carries(state), NEW where, NEW value
    PROVE  /\ where # "store" => Carries([state EXCEPT !.at = where])
           /\ where # "store" /\ (value # Vacant => Honest(value))
                => Carries([[state EXCEPT !.at = where] EXCEPT !.cached = value])
           /\ where # "store" => Carries([[state EXCEPT !.at = where] EXCEPT !.locked = value])
           /\ Honest(value) => Carries([[state EXCEPT !.at = where] EXCEPT !.fresh = value])
           /\ where # "store" /\ (value.source \in {"cache", "cache-stale", "provider"} => Honest(value))
                => Carries([[state EXCEPT !.at = where] EXCEPT !.answer = value])
  <1> DEFINE a == state.at  b == state.cached  c == state.locked  d == state.fresh  e == state.answer
  <1>1. state = ReadOf(a, b, c, d, e)
    BY DEF Carries, IsARead
  <1>2. /\ b # Vacant => Honest(b)
        /\ e.source \in {"cache", "cache-stale", "provider"} => Honest(e)
    BY DEF Carries
  <1> HIDE DEF a, b, c, d, e
  <1> DEFINE moved == [state EXCEPT !.at = where]
  <1>3. moved = ReadOf(where, b, c, d, e)
    BY <1>1 DEF ReadOf
  <1> HIDE DEF moved
  <1>4. [moved EXCEPT !.cached = value] = ReadOf(where, value, c, d, e)
    BY <1>3 DEF ReadOf
  <1>5. [moved EXCEPT !.locked = value] = ReadOf(where, b, value, d, e)
    BY <1>3 DEF ReadOf
  <1>6. [moved EXCEPT !.fresh = value] = ReadOf(where, b, c, value, e)
    BY <1>3 DEF ReadOf
  <1>7. [moved EXCEPT !.answer = value] = ReadOf(where, b, c, d, value)
    BY <1>3 DEF ReadOf
  <1>8. QED
    BY <1>2, <1>3, <1>4, <1>5, <1>6, <1>7, HonestParts DEF moved

LEMMA BalanceInitially == BalanceInit => BalanceInv
  <1> SUFFICES ASSUME BalanceInit PROVE BalanceInv
    OBVIOUS
  <1>1. Carries(Beginning)
    BY DEF Carries, IsARead, Beginning, ReadOf, NoAnswer
  <1>2. QED
    BY <1>1, BalanceAssumption
    DEF BalanceAssumption, BalanceInit, BalanceInv, ClockTypeOK, FiguresAreHonest

\* A step of one read in which neither time nor the account moves.
LEMMA OneReadMoves ==
    ASSUME BalanceInv, NEW r \in Readers, NEW next, read' = [read EXCEPT ![r] = next], Carries(next),
           UNCHANGED <<held, now>>, slot' # Vacant => Honest(slot')
    PROVE  BalanceInv'
  <1>1. \A o \in Readers : Carries(read'[o])
    BY DEF BalanceInv, ClockTypeOK, FiguresAreHonest
  <1>2. FiguresAreHonest'
    BY <1>1 DEF FiguresAreHonest, Carries, Honest
  <1>3. QED
    BY <1>2 DEF BalanceInv, ClockTypeOK

\* An instant that has come keeps its balance, so a figure stays honest as time passes.
LEMMA PassKeepsFigures ==
    ASSUME ClockTypeOK, Pass, NEW entry, Honest(entry)
    PROVE  Honest(entry)'
  <1>1. now' = now + 1 /\ now \in 0 .. MaxNow /\ now < MaxNow /\ MaxNow \in Nat
    BY BalanceAssumption DEF BalanceAssumption, ClockTypeOK, Pass
  <1>2. \A t \in 0 .. now : held'[t] = held[t]
    BY <1>1 DEF Pass, ClockTypeOK
  <1>3. QED
    BY <1>1, <1>2 DEF Honest

\* Every step of a read and of what happens around it keeps the invariant.
LEMMA BalanceStep == BalanceInv /\ [BalanceNext]_balanceVars => BalanceInv'
  <1> SUFFICES ASSUME BalanceInv, [BalanceNext]_balanceVars PROVE BalanceInv'
    OBVIOUS
  <1>a. ASSUME NEW r \in Readers, NEW where, where # "store", UNCHANGED <<held, now, slot>>, Goes(r, where)
        PROVE  BalanceInv'
    <2> DEFINE next == [read[r] EXCEPT !.at = where]
    <2>1. Carries(next)
      BY <1>a, ReadCarriesOn DEF BalanceInv, FiguresAreHonest
    <2>2. read' = [read EXCEPT ![r] = next]
      BY <1>a DEF Goes, BalanceInv, ClockTypeOK
    <2> HIDE DEF next
    <2>3. QED
      BY <2>1, <2>2, <1>a, OneReadMoves DEF BalanceInv, FiguresAreHonest
  <1>1. ASSUME NEW r \in Readers, LookUp(r) PROVE BalanceInv'
    <2>1. UNCHANGED <<held, now, slot>>
      BY <1>1 DEF LookUp
    <2>2. CASE query[r].source = "ledger"
      <3> DEFINE next == [[read[r] EXCEPT !.at = "done"] EXCEPT !.answer = fromLedger]
      <3>1. Carries(next)
        BY ReadCarriesOn DEF BalanceInv, FiguresAreHonest, fromLedger
      <3>2. read' = [read EXCEPT ![r] = next]
        BY <2>2, <1>1 DEF LookUp, BalanceInv, ClockTypeOK
      <3> HIDE DEF next
      <3>3. QED
        BY <3>1, <3>2, <2>1, OneReadMoves DEF BalanceInv, FiguresAreHonest
    <2>3. CASE query[r].source # "ledger"
      <3>1. PICK entry \in Lookups : read' = [read EXCEPT ![r].at = "decide", ![r].cached = entry]
        BY <2>3, <1>1 DEF LookUp
      <3> DEFINE next == [[read[r] EXCEPT !.at = "decide"] EXCEPT !.cached = entry]
      <3>2. entry # Vacant => Honest(entry)
        BY DEF Lookups, Live, BalanceInv, FiguresAreHonest
      <3>3. Carries(next)
        BY <3>2, ReadCarriesOn DEF BalanceInv, FiguresAreHonest
      <3>4. read' = [read EXCEPT ![r] = next]
        BY <3>1 DEF BalanceInv, ClockTypeOK
      <3> HIDE DEF next
      <3>5. QED
        BY <3>3, <3>4, <2>1, OneReadMoves DEF BalanceInv, FiguresAreHonest
    <2>4. QED
      BY <2>2, <2>3
  <1>2. ASSUME NEW r \in Readers, Decide(r) PROVE BalanceInv'
    <2> DEFINE found == read[r].cached
               next == [[read[r] EXCEPT !.at = "done"] EXCEPT !.answer = freshnessOf("cache", found)]
    <2>1. UNCHANGED <<held, now, slot>> /\ (Goes(r, "flight") \/ found # Vacant)
      BY <1>2 DEF Decide
    <2>2. CASE found # Vacant /\ read' = [read EXCEPT ![r].at = "done", ![r].answer = freshnessOf("cache", found)]
      <3>1. Carries(next)
        <4>1. Honest(freshnessOf("cache", found))
          BY <2>2 DEF BalanceInv, FiguresAreHonest, Carries, freshnessOf, Honest
        <4>2. QED
          BY <4>1, ReadCarriesOn DEF BalanceInv, FiguresAreHonest
      <3>2. read' = [read EXCEPT ![r] = next]
        BY <2>2 DEF BalanceInv, ClockTypeOK
      <3> HIDE DEF next
      <3>3. QED
        BY <3>1, <3>2, <2>1, OneReadMoves DEF BalanceInv, FiguresAreHonest
    <2>3. QED
      BY <2>1, <2>2, <1>a, <1>2 DEF Decide
  <1>3. ASSUME NEW r \in Readers, EnterFlight(r) PROVE BalanceInv'
    <2>1. UNCHANGED <<held, now, slot>>
      BY <1>3 DEF EnterFlight
    <2> DEFINE next == [[read[r] EXCEPT !.at = "fetch"] EXCEPT !.locked = TRUE]
    <2>2. CASE read' = [read EXCEPT ![r].at = "fetch", ![r].locked = TRUE]
      <3>1. Carries(next)
        BY ReadCarriesOn DEF BalanceInv, FiguresAreHonest
      <3>2. read' = [read EXCEPT ![r] = next]
        BY <2>2 DEF BalanceInv, ClockTypeOK
      <3> HIDE DEF next
      <3>3. QED
        BY <3>1, <3>2, <2>1, OneReadMoves DEF BalanceInv, FiguresAreHonest
    <2>3. QED
      BY <2>1, <2>2, <1>a, <1>3 DEF EnterFlight
  <1>4. ASSUME NEW r \in Readers, WaitForFlight(r) PROVE BalanceInv'
    <2>1. UNCHANGED <<held, now, slot>>
      BY <1>4 DEF WaitForFlight
    <2> DEFINE next == [[read[r] EXCEPT !.at = "store"] EXCEPT !.fresh = slot]
    <2>2. CASE slot # Vacant /\ read' = [read EXCEPT ![r].at = "store", ![r].fresh = slot]
      <3>1. Carries(next)
        BY <2>2, ReadCarriesOn DEF BalanceInv, FiguresAreHonest
      <3>2. read' = [read EXCEPT ![r] = next]
        BY <2>2 DEF BalanceInv, ClockTypeOK
      <3> HIDE DEF next
      <3>3. QED
        BY <3>1, <3>2, <2>1, OneReadMoves DEF BalanceInv, FiguresAreHonest
    <2>3. QED
      BY <2>1, <2>2, <1>a, <1>4 DEF WaitForFlight, Live
  <1>5. ASSUME NEW r \in Readers, Fetch(r) PROVE BalanceInv'
    <2> DEFINE next == [[read[r] EXCEPT !.at = "store"] EXCEPT !.fresh = providerBalance]
    <2>1. Carries(next)
      <3>1. Honest(providerBalance)
        BY BalanceAssumption DEF BalanceAssumption, Honest, providerBalance, BalanceInv,
           ClockTypeOK
      <3>2. QED
        BY <3>1, ReadCarriesOn DEF BalanceInv, FiguresAreHonest
    <2>2. read' = [read EXCEPT ![r] = next] /\ UNCHANGED <<held, now, slot>>
      BY <1>5 DEF Fetch, BalanceInv, ClockTypeOK
    <2> HIDE DEF next
    <2>3. QED
      BY <2>1, <2>2, OneReadMoves DEF BalanceInv, FiguresAreHonest
  <1>6. ASSUME NEW r \in Readers, FetchFails(r) PROVE BalanceInv'
    <2> DEFINE stale == query[r].onProviderError = "serve_stale" /\ read[r].cached # Vacant
               told == IF stale THEN freshnessOf("cache-stale", read[r].cached) ELSE [source |-> "error"]
               next == [[read[r] EXCEPT !.at = "done"] EXCEPT !.answer = told]
    <2>1. told.source \in {"cache", "cache-stale", "provider"} => Honest(told)
      BY DEF BalanceInv, FiguresAreHonest, Carries, freshnessOf, Honest
    <2>2. read' = [read EXCEPT ![r] = next] /\ UNCHANGED <<held, now, slot>>
      BY <1>6 DEF FetchFails, BalanceInv, ClockTypeOK
    <2>3. Carries(next)
      <3> HIDE DEF told
      <3> QED BY <2>1, ReadCarriesOn DEF BalanceInv, FiguresAreHonest
    <2> HIDE DEF next
    <2>4. QED
      BY <2>2, <2>3, OneReadMoves DEF BalanceInv, FiguresAreHonest
  <1>7. ASSUME NEW r \in Readers, Store(r) PROVE BalanceInv'
    <2> DEFINE told == freshnessOf("provider", Stamp(read[r].fresh))
               next == [[read[r] EXCEPT !.at = "done"] EXCEPT !.answer = told]
    <2>1. Honest(read[r].fresh) /\ UNCHANGED <<held, now>>
      BY <1>7 DEF Store, BalanceInv, FiguresAreHonest, Carries
    <2>2. Honest(told) /\ (slot' # Vacant => Honest(slot'))
      BY <2>1, <1>7 DEF Store, CacheSet, Stamp, freshnessOf, Honest, BalanceInv, FiguresAreHonest
    <2>3. read' = [read EXCEPT ![r] = next]
      BY <1>7 DEF Store, BalanceInv, ClockTypeOK
    <2>4. Carries(next)
      <3> HIDE DEF told
      <3> QED BY <2>2, ReadCarriesOn DEF BalanceInv, FiguresAreHonest
    <2> HIDE DEF next
    <2>5. QED
      BY <2>1, <2>2, <2>3, <2>4, OneReadMoves
  <1> USE DEF BalanceInv, ClockTypeOK, FiguresAreHonest, Carries, Honest
  <1>8. ASSUME FlightExpires \/ Invalidate \/ SignalEvent PROVE BalanceInv'
    BY <1>8, ZenonT(60) DEF FlightExpires, Invalidate, SignalEvent
  <1>9. ASSUME Pass PROVE BalanceInv'
    <2>1. FiguresAreHonest'
      BY <1>9, PassKeepsFigures DEF Pass
    <2>2. ClockTypeOK'
      BY <1>9, BalanceAssumption DEF Pass, BalanceAssumption
    <2>3. QED
      BY <2>1, <2>2
  <1>10. CASE UNCHANGED balanceVars
    BY <1>10 DEF balanceVars
  <1>11. QED
    BY <1>1, <1>2, <1>3, <1>4, <1>5, <1>6, <1>7, <1>8, <1>9, <1>10 DEF BalanceNext

\* Whatever way a balance took to the client, and whatever failed on it, it is what the
\* account held at the instant the answer claims, which is past.
THEOREM AnswersAreAsOldAsTheySay == BalanceSpec => []AgeIsHonest
  <1>1. BalanceInv => AgeIsHonest
    BY BalanceAssumption
    DEF BalanceAssumption, BalanceInv, ClockTypeOK, FiguresAreHonest, Carries, Honest, AgeIsHonest
  <1>2. QED
    BY <1>1, BalanceInitially, BalanceStep, PTL DEF BalanceSpec

-----------------------------------------------------------------------------
(* The signed requests. *)

KeyRows ==
    [status : {"ACTIVE", "REVOKED"}, environment : {m.environment : m \in MintRequests},
     scopes : {m.scopes : m \in MintRequests}, signing : BOOLEAN]

SurfaceTypeOK ==
    /\ apiKey \in [ApiKeys -> {NoKey} \union KeyRows]
    /\ request \in [Arrivals -> Requests]
    /\ stage = [c \in Arrivals |-> stage[c]]
    /\ identity = [c \in Arrivals |-> identity[c]]
    /\ nonces \in [Pairs -> Int] /\ claimedAt \in [Arrivals -> Int] /\ wall \in Nat

\* A production key that moves money signs, as minting decided, and revoking keeps it so.
MoneyKeysSign ==
    \A k \in ApiKeys : apiKey[k] \in KeyRows =>
        (apiKey[k].environment = "PRODUCAO" /\ "pix:write" \in apiKey[k].scopes => apiKey[k].signing)

KeyOf(c) == request[c].key

\* The guard of the keys and of the signatures has let the request pass.
Past(c) == stage[c] \in {"scope", "capability"} \/ (stage[c] = "admitted" /\ Route(c).surface = "client")

\* What the request was identified as differs from the row at most by a later revocation.
Identified(c) ==
    /\ apiKey[KeyOf(c)] \in KeyRows
    /\ identity[c].environment = apiKey[KeyOf(c)].environment
    /\ identity[c].scopes = apiKey[KeyOf(c)].scopes
    /\ identity[c].signing = apiKey[KeyOf(c)].signing

ArrivalsKnow ==
    /\ \A c \in Arrivals : stage[c] \in {"key", "signature", "nonce", "scope", "capability"} =>
          Route(c).surface = "client"
    /\ \A c \in Arrivals : stage[c] \in {"signature", "nonce"} \/ Past(c) => Identified(c)

\* The window of the timestamp of c has opened at t.
Opened(c, t) == request[c].timestamp - SignatureTolerance <= Second(t)

\* Whatever had to sign and passed was signed, and its nonce is kept for twice the tolerance
\* since it was claimed, in the window of its timestamp or after it.
SpentBy(c) ==
    /\ request[c].signature /\ Opened(c, claimedAt[c])
    /\ claimedAt[c] <= wall /\ keptUntil(claimedAt[c]) <= nonces[PairOf(c)]

Apart(c, d) == keptUntil(claimedAt[c]) <= claimedAt[d] \/ keptUntil(claimedAt[d]) <= claimedAt[c]

NoncesAreSpent ==
    /\ \A c \in Arrivals : stage[c] = "nonce" => Opened(c, wall)
    /\ \A c \in Arrivals : Past(c) /\ MustSign(c, identity[c]) => SpentBy(c)
    /\ \A c \in Arrivals, d \in Arrivals :
          c # d /\ Past(c) /\ Past(d) /\ MustSign(c, identity[c]) /\ MustSign(d, identity[d])
            /\ PairOf(c) = PairOf(d) => Apart(c, d)

SurfaceInv == SurfaceTypeOK /\ MoneyKeysSign /\ ArrivalsKnow /\ NoncesAreSpent

LEMMA SurfaceInitially == SurfaceInit => SurfaceInv
  BY DEF SurfaceInit, SurfaceInv, SurfaceTypeOK, MoneyKeysSign, ArrivalsKnow, NoncesAreSpent,
     Past, KeyRows, NoKey, Never

LEMMA Seconds ==
    \A t \in Int : Second(t) \in Int /\ 2 * Second(t) <= t /\ t < 2 * Second(t) + 2
  BY DEF Second

LEMMA PairsOfArrivals ==
    ASSUME SurfaceTypeOK, NEW c \in Arrivals
    PROVE  PairOf(c) \in Pairs /\ request[c].timestamp \in Nat
  BY RequestsAssumption DEF RequestsAssumption, SurfaceTypeOK, PairOf, Pairs

\* A row is not the mark of an absent one.
LEMMA ARowIsNotNoKey ==
    /\ NoKey \notin KeyRows
    /\ \A k \in KeyRows : k.status # "none"
  BY DEF NoKey, KeyRows

\* The keys stay as they are: a request that passes no guard of keys or signatures disturbs
\* nothing but where it stands.
LEMMA OneArrivalMoves ==
    ASSUME SurfaceInv, NEW c \in Arrivals, NEW to, Moves(c, to),
           UNCHANGED <<apiKey, request, identity, nonces, claimedAt, wall>>,
           Past(c)' => Past(c), to # "signature",
           to \in {"key", "nonce", "scope", "capability"} => Route(c).surface = "client",
           to = "nonce" => Identified(c) /\ Opened(c, wall)
    PROVE  SurfaceInv'
  <1> USE DEF SurfaceInv
  <1>1. stage' = [stage EXCEPT ![c] = to]
    BY DEF Moves
  <1>2. SurfaceTypeOK' /\ MoneyKeysSign'
    BY <1>1 DEF SurfaceTypeOK, MoneyKeysSign
  <1>3. \A d \in Arrivals : (Route(d).surface)' = Route(d).surface
    BY DEF Route
  <1>4. \A d \in Arrivals : Past(d)' => Past(d)
    BY <1>1, <1>3 DEF Past, SurfaceTypeOK
  <1>5. ArrivalsKnow'
    BY <1>1, <1>3, <1>4 DEF ArrivalsKnow, Identified, KeyOf, SurfaceTypeOK
  <1>6. \A d \in Arrivals : MustSign(d, identity[d])' <=> MustSign(d, identity[d])
    BY DEF MustSign, Route
  <1>7. NoncesAreSpent'
    <2>1. \A d \in Arrivals : /\ SpentBy(d) => SpentBy(d)'
                              /\ PairOf(d)' = PairOf(d) /\ Opened(d, wall)' = Opened(d, wall)
      BY DEF SpentBy, PairOf, Opened
    <2>2. \A d, e \in Arrivals : Apart(d, e)' = Apart(d, e)
      BY DEF Apart
    <2>3. \A d \in Arrivals : stage'[d] = "nonce" => Opened(d, wall)
      BY <1>1 DEF NoncesAreSpent, SurfaceTypeOK
    <2>4. QED
      BY <1>4, <1>6, <2>1, <2>2, <2>3 DEF NoncesAreSpent
  <1>8. QED
    BY <1>2, <1>5, <1>7

\* Every minting, revocation and guard keeps the invariant.
LEMMA SurfaceStep == SurfaceInv /\ [SurfaceNext]_surfaceVars => SurfaceInv'
  <1> SUFFICES ASSUME SurfaceInv, [SurfaceNext]_surfaceVars PROVE SurfaceInv'
    OBVIOUS
  <1> USE DEF SurfaceInv
  <1>1. ASSUME NEW k \in ApiKeys, NEW m \in MintRequests, Mint(k, m) PROVE SurfaceInv'
    <2> DEFINE minted == mintedRow(m)
    <2>1. minted \in KeyRows
      BY DEF mintedRow, resolveSigning, KeyRows
    <2>2. minted.environment = "PRODUCAO" /\ "pix:write" \in minted.scopes => minted.signing
      BY DEF mintedRow, resolveSigning
    <2>3. apiKey[k] = NoKey /\ apiKey' = [apiKey EXCEPT ![k] = minted]
          /\ UNCHANGED <<request, stage, identity, nonces, claimedAt, wall>>
      BY <1>1 DEF Mint
    <2> HIDE DEF minted
    <2>4. SurfaceTypeOK' /\ MoneyKeysSign'
      BY <2>1, <2>2, <2>3 DEF SurfaceTypeOK, MoneyKeysSign
    <2>5. \A c \in Arrivals : Identified(c) => Identified(c)'
      BY <2>1, <2>3, ARowIsNotNoKey, RequestsAssumption
      DEF RequestsAssumption, Identified, KeyOf, SurfaceTypeOK
    <2>6. \A c \in Arrivals : (Past(c)' <=> Past(c)) /\ (MustSign(c, identity[c])' <=> MustSign(c, identity[c]))
      BY <2>3 DEF Past, MustSign, Route
    <2>7. ArrivalsKnow'
      BY <2>3, <2>5, <2>6 DEF ArrivalsKnow, Route
    <2>8. NoncesAreSpent'
      BY <2>3, <2>6 DEF NoncesAreSpent, SpentBy, Apart, Opened, PairOf
    <2>9. QED
      BY <2>4, <2>7, <2>8
  <1>2. ASSUME NEW k \in ApiKeys, Revoke(k) PROVE SurfaceInv'
    <2> DEFINE revoked == [apiKey[k] EXCEPT !.status = "REVOKED"]
    <2>1. apiKey[k] \in KeyRows
      BY <1>2 DEF Revoke, SurfaceTypeOK, NoKey
    <2>2. /\ revoked \in KeyRows /\ revoked.environment = apiKey[k].environment
          /\ revoked.scopes = apiKey[k].scopes /\ revoked.signing = apiKey[k].signing
      BY <2>1 DEF KeyRows
    <2>3. apiKey' = [apiKey EXCEPT ![k] = revoked] /\ UNCHANGED <<request, stage, identity, nonces, claimedAt, wall>>
      BY <1>2 DEF Revoke
    <2> HIDE DEF revoked
    <2>4. SurfaceTypeOK' /\ MoneyKeysSign'
      BY <2>1, <2>2, <2>3 DEF SurfaceTypeOK, MoneyKeysSign
    <2>5. \A c \in Arrivals : Identified(c) => Identified(c)'
      BY <2>1, <2>2, <2>3, RequestsAssumption
      DEF RequestsAssumption, Identified, KeyOf, SurfaceTypeOK
    <2>6. \A c \in Arrivals : (Past(c)' <=> Past(c)) /\ (MustSign(c, identity[c])' <=> MustSign(c, identity[c]))
      BY <2>3 DEF Past, MustSign, Route
    <2>7. ArrivalsKnow'
      BY <2>3, <2>5, <2>6 DEF ArrivalsKnow, Route
    <2>8. NoncesAreSpent'
      BY <2>3, <2>6 DEF NoncesAreSpent, SpentBy, Apart, Opened, PairOf
    <2>9. QED
      BY <2>4, <2>7, <2>8
  <1>3. ASSUME NEW c \in Arrivals, EnterSurface(c) PROVE SurfaceInv'
    <2>1. PICK to \in {"admitted", "refused", "key"} :
            /\ Moves(c, to) /\ (to = "key" => Route(c).surface = "client")
            /\ to = "admitted" => Route(c).surface # "client"
      BY <1>3 DEF EnterSurface
    <2>2. Past(c)' => Past(c)
      BY <2>1, <1>3 DEF EnterSurface, Moves, Past, Route, SurfaceTypeOK
    <2>3. QED
      BY <2>1, <2>2, <1>3, OneArrivalMoves DEF EnterSurface
  <1>4. ASSUME NEW c \in Arrivals, Authenticate(c) PROVE SurfaceInv'
    <2> DEFINE found == RowOfKey(KeyOf(c))
    <2>1. CASE found.status # "ACTIVE"
      <3>1. Moves(c, "refused") /\ UNCHANGED <<apiKey, request, identity, nonces, claimedAt, wall>>
        BY <2>1, <1>4 DEF Authenticate, KeyOf
      <3>2. Past(c)' => Past(c)
        BY <3>1 DEF Moves, Past, SurfaceTypeOK
      <3>3. QED
        BY <3>1, <3>2, OneArrivalMoves
    <2>2. CASE found.status = "ACTIVE"
      <3> DEFINE to == IF MustSign(c, found) THEN "signature" ELSE "scope"
      <3>1. /\ identity' = [identity EXCEPT ![c] = found] /\ stage' = [stage EXCEPT ![c] = to]
            /\ stage[c] = "key" /\ UNCHANGED <<apiKey, request, nonces, claimedAt, wall>>
        BY <2>2, <1>4 DEF Authenticate, KeyOf, Moves
      <3>2. found = apiKey[KeyOf(c)] /\ found \in KeyRows
        BY <2>2, RequestsAssumption DEF RequestsAssumption, RowOfKey, KeyOf, SurfaceTypeOK, NoKey
      <3> HIDE DEF found
      <3>3. SurfaceTypeOK' /\ MoneyKeysSign'
        BY <3>1 DEF SurfaceTypeOK, MoneyKeysSign
      <3>4. Identified(c)' /\ Route(c).surface = "client"
        BY <3>1, <3>2 DEF Identified, KeyOf, SurfaceTypeOK, ArrivalsKnow
      <3>5. \A d \in Arrivals \ {c} :
              /\ stage'[d] = stage[d]
              /\ Past(d)' <=> Past(d)
              /\ Identified(d) => Identified(d)'
              /\ MustSign(d, identity[d])' <=> MustSign(d, identity[d])
        BY <3>1 DEF SurfaceTypeOK, Past, Route, Identified, KeyOf, MustSign
      <3>6. ArrivalsKnow'
        BY <3>1, <3>4, <3>5 DEF ArrivalsKnow, Route
      <3>7. Past(c)' => ~MustSign(c, identity[c])'
        BY <3>1 DEF Past, Route, MustSign, SurfaceTypeOK
      <3>8. NoncesAreSpent'
        BY <3>1, <3>5, <3>7 DEF NoncesAreSpent, SpentBy, Apart, Opened, PairOf
      <3>9. QED
        BY <3>3, <3>6, <3>8
    <2>3. QED
      BY <2>1, <2>2
  <1>5. ASSUME NEW c \in Arrivals, CheckTimestamp(c) PROVE SurfaceInv'
    <2>1. stage[c] = "signature" /\ Route(c).surface = "client" /\ Identified(c)
      BY <1>5 DEF CheckTimestamp, ArrivalsKnow
    <2>2. PICK to \in {"nonce", "refused"} :
            /\ Moves(c, to) /\ UNCHANGED <<apiKey, request, identity, nonces, claimedAt, wall>>
            /\ to = "nonce" => InWindow(request[c].timestamp, wall)
      BY <1>5 DEF CheckTimestamp
    <2>3. to = "nonce" => Opened(c, wall)
      <3>1. Second(wall) \in Int /\ request[c].timestamp \in Nat /\ SignatureTolerance \in Nat
        BY Seconds, PairsOfArrivals, ToleranceAssumption DEF ToleranceAssumption, SurfaceTypeOK
      <3>2. QED
        BY <2>2, <3>1 DEF InWindow, Abs, Opened
    <2>4. Past(c)' => Past(c)
      BY <2>2 DEF Moves, Past, SurfaceTypeOK
    <2>5. QED
      BY <2>1, <2>2, <2>3, <2>4, OneArrivalMoves
  <1>6. ASSUME NEW c \in Arrivals, ClaimNonce(c) PROVE SurfaceInv'
    <2>1. stage[c] = "nonce" /\ ~Past(c) /\ Route(c).surface = "client" /\ Identified(c)
          /\ Opened(c, wall) /\ UNCHANGED <<apiKey, request, identity, wall>>
      BY <1>6 DEF ClaimNonce, ArrivalsKnow, Past, NoncesAreSpent
    <2>2. CASE ~claim(PairOf(c))
      <3>1. Moves(c, "refused") /\ UNCHANGED <<nonces, claimedAt>>
        BY <1>6, <2>2 DEF ClaimNonce
      <3>2. Past(c)' => Past(c)
        BY <3>1 DEF Moves, Past, SurfaceTypeOK
      <3>3. QED
        BY <2>1, <3>1, <3>2, OneArrivalMoves
    <2>3. CASE claim(PairOf(c))
      <3>1. PICK to \in {"scope", "refused"} :
              stage' = [stage EXCEPT ![c] = to] /\ (to = "scope" => request[c].signature)
        BY <1>6, <2>3 DEF ClaimNonce, Moves
      <3>2. /\ nonces' = [nonces EXCEPT ![PairOf(c)] = keptUntil(wall)]
            /\ claimedAt' = [claimedAt EXCEPT ![c] = wall]
            /\ nonces[PairOf(c)] <= wall
        BY <1>6, <2>3 DEF ClaimNonce, claim
      <3>3. /\ wall \in Nat /\ keptUntil(wall) \in Int /\ wall < keptUntil(wall)
            /\ PairOf(c) \in Pairs /\ \A d \in Arrivals : PairOf(d) \in Pairs
        BY ToleranceAssumption, PairsOfArrivals DEF ToleranceAssumption, SurfaceTypeOK, keptUntil
      <3>4. SurfaceTypeOK' /\ MoneyKeysSign'
        <4>1. MoneyKeysSign' /\ wall' \in Nat
          BY <2>1 DEF SurfaceTypeOK, MoneyKeysSign
        <4>2. Pairs' = Pairs /\ nonces' \in [Pairs -> Int] /\ claimedAt' \in [Arrivals -> Int]
          BY <3>2, <3>3 DEF SurfaceTypeOK, Pairs
        <4>3. /\ apiKey' \in [ApiKeys -> {NoKey} \union KeyRows] /\ request' \in [Arrivals -> Requests]
              /\ identity' = [d \in Arrivals |-> identity'[d]]
              /\ stage' = [d \in Arrivals |-> stage'[d]]
          BY <2>1, <3>1 DEF SurfaceTypeOK, KeyRows, NoKey
        <4>4. QED
          BY <4>1, <4>2, <4>3 DEF SurfaceTypeOK, KeyRows, NoKey
      <3>5. \A d \in Arrivals : d # c => stage'[d] = stage[d] /\ (Past(d)' => Past(d))
        BY <2>1, <3>1 DEF SurfaceTypeOK, Past, Route
      <3>6. \A d \in Arrivals :
              /\ MustSign(d, identity[d])' => MustSign(d, identity[d])
              /\ Identified(d) => Identified(d)'
              /\ PairOf(d)' = PairOf(d)
              /\ (Route(d).surface)' = Route(d).surface
        BY <2>1 DEF MustSign, Route, Identified, KeyOf, PairOf
      <3>7. ArrivalsKnow'
        <4>1. \A d \in Arrivals : stage'[d] \in {stage[d], "scope", "refused"}
          BY <3>1 DEF SurfaceTypeOK
        <4>2. \A d \in Arrivals : Past(d)' => Identified(d)'
          BY <2>1, <3>5, <3>6 DEF ArrivalsKnow
        <4>3. ASSUME NEW d \in Arrivals, stage'[d] \in {"signature", "nonce"} PROVE Identified(d)'
          BY <3>6, <4>1, <4>3 DEF ArrivalsKnow
        <4>4. ASSUME NEW d \in Arrivals,
                     stage'[d] \in {"key", "signature", "nonce", "scope", "capability"}
              PROVE  Route(d).surface = "client"
          BY <2>1, <3>1, <3>5, <4>4 DEF ArrivalsKnow, SurfaceTypeOK
        <4>5. QED
          BY <3>6, <4>2, <4>3, <4>4 DEF ArrivalsKnow
      <3>8. Past(c)' => SpentBy(c)'
        <4>1. Past(c)' => request[c].signature
          BY <2>1, <3>1 DEF Past, Route, SurfaceTypeOK
        <4>2. claimedAt'[c] = wall /\ nonces'[PairOf(c)] = keptUntil(wall)
          BY <3>2, <3>3 DEF SurfaceTypeOK
        <4>3. QED
          BY <2>1, <3>3, <3>6, <4>1, <4>2 DEF SpentBy, Opened, keptUntil
      <3>9. ASSUME NEW d \in Arrivals \ {c}, Past(d)', MustSign(d, identity[d])'
            PROVE  SpentBy(d) /\ SpentBy(d)' /\ (PairOf(d) = PairOf(c) => keptUntil(claimedAt[d]) <= wall)
        <4>1. SpentBy(d) /\ claimedAt'[d] = claimedAt[d]
          BY <3>2, <3>5, <3>6, <3>9 DEF NoncesAreSpent, SurfaceTypeOK
        <4>2. claimedAt[d] \in Int /\ keptUntil(claimedAt[d]) \in Int /\ nonces[PairOf(d)] \in Int
              /\ nonces[PairOf(c)] \in Int
          BY <3>3, ToleranceAssumption DEF SurfaceTypeOK, ToleranceAssumption, keptUntil
        <4>3. PairOf(d) = PairOf(c) => keptUntil(claimedAt[d]) <= wall
          BY <3>2, <3>3, <4>1, <4>2 DEF SpentBy
        <4>4. nonces[PairOf(d)] <= nonces'[PairOf(d)]
          <5>1. CASE PairOf(d) = PairOf(c)
            BY <5>1, <3>2, <3>3, <4>2 DEF SurfaceTypeOK
          <5>2. CASE PairOf(d) # PairOf(c)
            BY <5>2, <3>2, <3>3, <4>2 DEF SurfaceTypeOK
          <5>3. QED
            BY <5>1, <5>2
        <4>5. nonces'[PairOf(d)] \in Int
          BY <3>2, <3>3 DEF SurfaceTypeOK
        <4>6. SpentBy(d)'
          BY <2>1, <3>6, <4>1, <4>2, <4>4, <4>5 DEF SpentBy, Opened, keptUntil
        <4>7. QED
          BY <4>1, <4>3, <4>6
      <3>10. NoncesAreSpent'
        <4>1. \A d \in Arrivals : stage'[d] = "nonce" => Opened(d, wall)'
          BY <2>1, <3>1, <3>5 DEF NoncesAreSpent, SurfaceTypeOK, Opened
        <4>2. \A d \in Arrivals : Past(d)' /\ MustSign(d, identity[d])' => SpentBy(d)'
          BY <3>8, <3>9
        <4>3. ASSUME NEW d \in Arrivals, NEW o \in Arrivals, d # o, Past(d)', Past(o)',
                     MustSign(d, identity[d])', MustSign(o, identity[o])', PairOf(d)' = PairOf(o)'
              PROVE  Apart(d, o)'
          <5>1. claimedAt'[c] = wall /\ \A e \in Arrivals \ {c} : claimedAt'[e] = claimedAt[e]
            BY <3>2 DEF SurfaceTypeOK
          <5>2. CASE d # c /\ o # c
            BY <5>1, <5>2, <4>3, <3>5, <3>6 DEF NoncesAreSpent, Apart, keptUntil
          <5>3. CASE d = c
            BY <5>1, <5>3, <4>3, <3>6, <3>9 DEF Apart, keptUntil
          <5>4. CASE o = c
            BY <5>1, <5>4, <4>3, <3>6, <3>9 DEF Apart, keptUntil
          <5>5. QED
            BY <5>2, <5>3, <5>4
        <4>4. QED
          BY <4>1, <4>2, <4>3 DEF NoncesAreSpent
      <3>11. QED
        BY <3>4, <3>7, <3>10
    <2>4. QED
      BY <2>2, <2>3
  <1>7. ASSUME TickWall PROVE SurfaceInv'
    <2>1. wall \in Nat /\ wall' = wall + 1 /\ UNCHANGED <<apiKey, request, stage, identity, nonces, claimedAt>>
      BY <1>7 DEF TickWall, SurfaceTypeOK
    <2>2. SurfaceTypeOK' /\ MoneyKeysSign' /\ ArrivalsKnow'
      BY <2>1 DEF SurfaceTypeOK, MoneyKeysSign, ArrivalsKnow, Identified, Past, Route, KeyOf, Pairs
    <2>3. \A d \in Arrivals : Opened(d, wall) => Opened(d, wall)'
      <3>1. Second(wall) \in Int /\ Second(wall + 1) \in Int /\ Second(wall) <= Second(wall + 1)
        BY <2>1, Seconds
      <3>2. \A d \in Arrivals : request[d].timestamp \in Nat
        BY PairsOfArrivals
      <3>3. QED
        BY <2>1, <3>1, <3>2, ToleranceAssumption DEF ToleranceAssumption, Opened
    <2>4. \A d \in Arrivals : SpentBy(d) => SpentBy(d)'
      <3>1. \A d \in Arrivals : claimedAt[d] \in Int
        BY DEF SurfaceTypeOK
      <3>2. QED
        BY <2>1, <3>1 DEF SpentBy, Opened, PairOf, keptUntil
    <2>5. NoncesAreSpent'
      <3>1. \A d \in Arrivals : /\ Past(d)' = Past(d) /\ MustSign(d, identity[d])' = MustSign(d, identity[d])
                                /\ PairOf(d)' = PairOf(d)
        BY <2>1 DEF Past, MustSign, Route, PairOf
      <3>2. \A d, e \in Arrivals : Apart(d, e)' = Apart(d, e)
        BY <2>1 DEF Apart
      <3>3. QED
        BY <2>1, <2>3, <2>4, <3>1, <3>2 DEF NoncesAreSpent
    <2>6. QED
      BY <2>2, <2>5
  <1>8. ASSUME NEW c \in Arrivals, AssertScope(c) PROVE SurfaceInv'
    <2>1. PICK to \in {"capability", "refused"} : Moves(c, to) /\ Past(c) /\ Route(c).surface = "client"
      BY <1>8 DEF AssertScope, Past, ArrivalsKnow
    <2>2. QED
      BY <2>1, <1>8, OneArrivalMoves DEF AssertScope
  <1>9. ASSUME NEW c \in Arrivals, RequireCapability(c) PROVE SurfaceInv'
    <2>1. PICK to \in {"admitted", "refused"} : Moves(c, to) /\ Past(c)
      BY <1>9 DEF RequireCapability, Past
    <2>2. QED
      BY <2>1, <1>9, OneArrivalMoves DEF RequireCapability
  <1>10. CASE UNCHANGED surfaceVars
    BY <1>10 DEF surfaceVars, SurfaceTypeOK, MoneyKeysSign, ArrivalsKnow, NoncesAreSpent, Past,
       Identified,
                KeyOf, PairOf, MustSign, Route, SpentBy, Apart, Opened
  <1>11. QED
    BY <1>1, <1>2, <1>3, <1>4, <1>5, <1>6, <1>7, <1>8, <1>9, <1>10 DEF SurfaceNext

\* What separates two claims of one nonce leaves, for two deliveries of one timestamp, only the
\* first second of the window to the earlier.
LEMMA TwoInOneWindow ==
    ASSUME NEW timestamp \in Nat, NEW early \in Int, NEW late \in Int,
           late - early >= 2 * (2 * SignatureTolerance),
           timestamp - SignatureTolerance <= Second(early), InWindow(timestamp, late)
    PROVE  Second(early) = timestamp - SignatureTolerance
  <1>1. SignatureTolerance \in Nat
    BY ToleranceAssumption DEF ToleranceAssumption
  <1>2. Second(late) \in Int /\ Second(late) <= timestamp + SignatureTolerance
    BY <1>1, Seconds DEF InWindow, Abs
  <1>3. /\ Second(early) \in Int /\ 2 * Second(early) <= early
        /\ late < 2 * Second(late) + 2
    BY Seconds
  <1>4. Second(early) < timestamp - SignatureTolerance + 1
    BY <1>1, <1>2, <1>3
  <1>5. QED
    BY <1>1, <1>3, <1>4

\* For every set of keys, requests and deliveries and every tolerance: what a production key
\* with pix:write has admitted was signed, and two of its admitted requests with one nonce
\* claimed it twice the tolerance apart, so that one of them came in the first second of its
\* window where both carry one timestamp.
THEOREM AdmittedOnce == SurfaceSpec => []SignedOnce
  <1>1. SurfaceInv => SignedOnce
    <2> SUFFICES ASSUME SurfaceInv, NEW c \in Arrivals, stage[c] = "admitted", Route(c).surface = "client",
                        identity[c].environment = "PRODUCAO", "pix:write" \in identity[c].scopes
                 PROVE  /\ request[c].signature
                        /\ \A d \in Arrivals \ {c} :
                             /\ stage[d] = "admitted" /\ Route(d).surface = "client"
                             /\ PairOf(d) = PairOf(c) /\ claimedAt[c] <= claimedAt[d]
                             => /\ claimedAt[d] - claimedAt[c] >= 2 * (2 * SignatureTolerance)
                                /\ request[d].timestamp = request[c].timestamp
                                     /\ InWindow(request[d].timestamp, claimedAt[d])
                                   => AtFirstSecond(c)
      BY DEF SignedOnce
    <2> USE DEF SurfaceInv
    <2>1. Past(c) /\ Identified(c)
      BY DEF Past, ArrivalsKnow
    <2>2. KeyOf(c) \in ApiKeys /\ apiKey[KeyOf(c)].signing
      BY <2>1, RequestsAssumption DEF RequestsAssumption, Identified, KeyOf, MoneyKeysSign,
         SurfaceTypeOK
    <2>3. MustSign(c, identity[c])
      BY <2>1, <2>2 DEF MustSign, Identified
    <2>4. ASSUME NEW d \in Arrivals \ {c}, stage[d] = "admitted", Route(d).surface = "client",
                 PairOf(d) = PairOf(c), claimedAt[c] <= claimedAt[d]
          PROVE  /\ claimedAt[d] - claimedAt[c] >= 2 * (2 * SignatureTolerance)
                 /\ request[d].timestamp = request[c].timestamp
                      /\ InWindow(request[d].timestamp, claimedAt[d])
                    => AtFirstSecond(c)
      <3>1. Past(d) /\ Identified(d) /\ KeyOf(d) = KeyOf(c)
        BY <2>4 DEF Past, ArrivalsKnow, PairOf, KeyOf
      <3>2. MustSign(d, identity[d])
        BY <3>1, <2>2 DEF MustSign, Identified
      <3>3. Apart(c, d) /\ Opened(c, claimedAt[c])
        BY <2>1, <2>3, <2>4, <3>1, <3>2 DEF NoncesAreSpent, SpentBy
      <3>4. claimedAt[c] \in Int /\ claimedAt[d] \in Int /\ request[c].timestamp \in Nat
        BY PairsOfArrivals DEF SurfaceTypeOK
      <3>5. claimedAt[d] - claimedAt[c] >= 2 * (2 * SignatureTolerance)
        BY <2>4, <3>3, <3>4, ToleranceAssumption DEF ToleranceAssumption, Apart, keptUntil
      <3>6. QED
        BY <3>3, <3>4, <3>5, TwoInOneWindow DEF Opened, AtFirstSecond
    <2>5. QED
      BY <2>1, <2>3, <2>4 DEF NoncesAreSpent, SpentBy
  <1>2. QED
    BY <1>1, SurfaceInitially, SurfaceStep, PTL DEF SurfaceSpec

-----------------------------------------------------------------------------
(* The charges. *)

QrStatuses == {"ACTIVE", "COMPLETED", "EXPIRED", "REMOVED_BY_USER"}
QrRows == [status : QrStatuses, amount : Nat, paid : Nat, expiry : Nat]

\* What completes a charge: its value, or anything if its value is open.
Need(charge) == IF charge.amount = 0 THEN 1 ELSE charge.amount

CompleteMeansPaid(charge) == charge.status = "COMPLETED" => charge.paid >= Need(charge)

ChargeTypeOK ==
    /\ ask \in ChargeAsks /\ send \in [Payers -> PayerAmounts]
    /\ qr \in {NoQr} \union QrRows
    /\ qrAt = [r \in ChargeRequests |-> qrAt[r]] /\ payer = [p \in Payers |-> payer[p]]

\* Everything that follows the bank's charge waits for it to exist.
BankIsFirst ==
    qr = NoQr =>
        /\ qrRow = NoQr /\ paidEvents = {} /\ cancel = "idle"
        /\ \A p \in Payers : payer[p] # "crediting"
        /\ \A r \in ChargeRequests : qrAt[r] # "check"

\* An event of payment tells an amount the bank had counted, and of a completed charge its
\* whole value.
EventsTellThePaid ==
    \A e \in paidEvents :
        /\ e.status \in QrStatuses /\ e.paid \in Nat \ {0} /\ e.paid <= qr.paid
        /\ e.status = "COMPLETED" => e.paid >= Need(qr)

CompletedRowIsPaid == (qrRow.status = "COMPLETED" => qrRow.paid \in Nat) /\ CompletedIsPaid

ChargesInv ==
    ChargeTypeOK /\ BankIsFirst /\ CompleteMeansPaid(qr) /\ EventsTellThePaid /\ CompletedRowIsPaid

LEMMA ChargesInitially == ChargesInit => ChargesInv
  BY DEF ChargesInit, ChargesInv, ChargeTypeOK, BankIsFirst, CompleteMeansPaid, EventsTellThePaid,
         CompletedRowIsPaid, CompletedIsPaid, NoQr

\* Reading a charge may expire it and changes nothing else.
LEMMA ReadingACharge ==
    ASSUME NEW charge \in QrRows
    PROVE  /\ expireIfDue(charge) \in QrRows
           /\ expireIfDue(charge).amount = charge.amount /\ expireIfDue(charge).paid = charge.paid
           /\ CompleteMeansPaid(charge) => CompleteMeansPaid(expireIfDue(charge))
  BY DEF QrRows, QrStatuses, expireIfDue, CompleteMeansPaid, Need

\* A payment adds to what was paid, and completes a charge only when it is.
LEMMA PayingACharge ==
    ASSUME NEW charge \in QrRows, CompleteMeansPaid(charge), NEW amount \in Nat \ {0}
    PROVE  /\ markPaid(charge, amount) \in QrRows
           /\ markPaid(charge, amount).amount = charge.amount
           /\ markPaid(charge, amount).paid = charge.paid + amount
           /\ CompleteMeansPaid(markPaid(charge, amount))
  <1> DEFINE fresh == expireIfDue(charge)
             total == fresh.paid + amount
             after == IF fresh.amount = 0 \/ total >= fresh.amount THEN "COMPLETED" ELSE fresh.status
  <1>1. fresh \in QrRows /\ fresh.amount = charge.amount /\ fresh.paid = charge.paid /\ CompleteMeansPaid(fresh)
    BY ReadingACharge
  <1>2. markPaid(charge, amount) = [[fresh EXCEPT !.paid = total] EXCEPT !.status = after]
    BY <1>1 DEF markPaid, QrRows
  <1> HIDE DEF fresh
  <1>3. total \in Nat /\ after \in QrStatuses /\ (after = "COMPLETED" => total >= Need(fresh))
    BY <1>1 DEF QrRows, QrStatuses, CompleteMeansPaid, Need
  <1> HIDE DEF total, after
  <1>4. markPaid(charge, amount) = [status |-> after, amount |-> fresh.amount, paid |-> total, expiry |-> fresh.expiry]
    BY <1>1, <1>2 DEF QrRows
  <1>5. QED
    BY <1>1, <1>3, <1>4 DEF QrRows, CompleteMeansPaid, Need, total

\* The bank's charge changes, no event is told and the row stays: what is paid and asked for
\* stays with it.
LEMMA TheChargeMoves ==
    ASSUME ChargesInv, qr \in QrRows, qr' \in QrRows, UNCHANGED <<ask, send, qrRow, paidEvents>>,
           qr'.amount = qr.amount, qr'.paid = qr.paid, CompleteMeansPaid(qr'),
           qrAt' = [r \in ChargeRequests |-> qrAt'[r]], payer' = [p \in Payers |-> payer'[p]]
    PROVE  ChargesInv'
  <1>1. NoQr \notin QrRows
    BY DEF NoQr, QrRows
  <1>2. EventsTellThePaid'
    BY DEF ChargesInv, EventsTellThePaid, Need
  <1>3. CompletedRowIsPaid'
    BY DEF ChargesInv, CompletedRowIsPaid, CompletedIsPaid
  <1>4. QED
    BY <1>1, <1>2, <1>3 DEF ChargesInv, ChargeTypeOK, BankIsFirst, CompleteMeansPaid, Need

\* An event of the bank never completes the row of a charge that was not paid.
LEMMA AnEventIsApplied ==
    ASSUME ChargesInv, NEW to, NEW paid, NEW when, qrRow' = applyChargeStatus(qrRow, to, paid, when),
           UNCHANGED qr, to = "COMPLETED" => paid \in Nat \ {0} /\ paid <= qr.paid /\ paid >= Need(qr)
    PROVE  CompletedRowIsPaid' /\ (qrRow = NoQr => qrRow' = NoQr)
  <1>1. CASE chargeApplies(qrRow, to, when)
    <2>1. qrRow # NoQr /\ qrRow' = [status |-> to, paid |-> IF paid = 0 THEN qrRow.paid ELSE paid, last |-> when]
      BY <1>1 DEF applyChargeStatus, chargeApplies
    <2>2. QED
      BY <2>1 DEF CompletedRowIsPaid, CompletedIsPaid, Need
  <1>2. CASE ~chargeApplies(qrRow, to, when)
    BY <1>2 DEF applyChargeStatus, ChargesInv, CompletedRowIsPaid, CompletedIsPaid
  <1>3. QED
    BY <1>1, <1>2

\* Every step of the charges, of the payers and of the keys keeps the invariant.
LEMMA ChargesStep == ChargesInv /\ [PixAddressingNext]_chargeVars => ChargesInv'
  <1> SUFFICES ASSUME ChargesInv, [PixAddressingNext]_chargeVars PROVE ChargesInv'
    OBVIOUS
  <1> USE DEF ChargesInv
  <1>a. NoQr \notin QrRows
    BY DEF NoQr, QrRows
  <1>b. ASSUME UNCHANGED chargeOnlyVars PROVE ChargesInv'
    BY <1>b DEF chargeOnlyVars, ChargeTypeOK, BankIsFirst, CompleteMeansPaid, Need,
       EventsTellThePaid,
       CompletedRowIsPaid, CompletedIsPaid
  <1>c. ASSUME NEW r \in ChargeRequests, NEW to, QrStep(r, to), to # "check",
               UNCHANGED <<ask, send, qr, qrRow, cancel, payer, paidEvents>>
        PROVE  ChargesInv'
    BY <1>c DEF QrStep, ChargeTypeOK, BankIsFirst, CompleteMeansPaid, Need, EventsTellThePaid,
       CompletedRowIsPaid, CompletedIsPaid
  <1>1. ASSUME Tick PROVE ChargesInv'
    BY <1>1 DEF Tick, ChargeTypeOK, BankIsFirst, CompleteMeansPaid, Need, EventsTellThePaid,
       CompletedRowIsPaid, CompletedIsPaid
  <1>2. ASSUME NEW r \in ChargeRequests, FindKeyOfCharge(r) PROVE ChargesInv'
    BY <1>2, <1>c DEF FindKeyOfCharge
  <1>3. ASSUME NEW r \in ChargeRequests, CreateAtBank(r) PROVE ChargesInv'
    <2>1. CASE QrStep(r, "refused") /\ UNCHANGED qr
      BY <2>1, <1>3, <1>c DEF CreateAtBank
    <2>2. CASE qr = NoQr /\ qr' = newCharge
      <3>1. ask \in ChargeAsked
        BY ChargesAssumption DEF ChargesAssumption, ChargeTypeOK
      <3>2. qr' \in QrRows /\ qr'.status = "ACTIVE"
        BY <2>2, <3>1 DEF newCharge, ChargeAsked, QrRows, QrStatuses
      <3>3. UNCHANGED <<ask, send, qrRow, cancel, payer, paidEvents>>
        BY <1>3 DEF CreateAtBank
      <3>4. qrRow = NoQr /\ paidEvents = {}
        BY <2>2 DEF BankIsFirst
      <3>5. ChargeTypeOK'
        BY <3>2, <3>3, <1>3 DEF ChargeTypeOK, CreateAtBank, QrStep
      <3>6. QED
        BY <3>2, <3>3, <3>4, <3>5, <1>a
        DEF BankIsFirst, CompleteMeansPaid, EventsTellThePaid, CompletedRowIsPaid,
            CompletedIsPaid, NoQr
    <2>3. QED
      BY <2>1, <2>2, <1>3 DEF CreateAtBank
  <1>4. ASSUME NEW r \in ChargeRequests, StoreCharge(r) PROVE ChargesInv'
    <2>1. CASE QrStep(r, "lost") /\ UNCHANGED qrRow
      BY <2>1, <1>4, <1>c DEF StoreCharge
    <2>2. CASE qrRow' = [status |-> "ACTIVE", paid |-> 0, last |-> NoEvent] /\ QrStep(r, "done")
      BY <2>2, <1>4
      DEF StoreCharge, QrStep, ChargeTypeOK, BankIsFirst, CompleteMeansPaid, Need,
          EventsTellThePaid,
         CompletedRowIsPaid, CompletedIsPaid
    <2>3. QED
      BY <2>1, <2>2, <1>4 DEF StoreCharge
  <1>5. ASSUME NEW r \in ChargeRequests, LoseCharge(r) PROVE ChargesInv'
    BY <1>5, <1>c DEF LoseCharge
  <1>6. ASSUME ReadForCancel PROVE ChargesInv'
    BY <1>6 DEF ReadForCancel, ChargeTypeOK, BankIsFirst, CompleteMeansPaid, Need,
       EventsTellThePaid,
       CompletedRowIsPaid, CompletedIsPaid
  <1>7. ASSUME CancelAtBank PROVE ChargesInv'
    <2> DEFINE fresh == expireIfDue(qr)
    <2>1. qr \in QrRows
      BY <1>7 DEF CancelAtBank, BankIsFirst, ChargeTypeOK
    <2>2. fresh \in QrRows /\ fresh.amount = qr.amount /\ fresh.paid = qr.paid /\ CompleteMeansPaid(fresh)
      BY <2>1, ReadingACharge
    <2>3. qr' = fresh \/ qr' = [fresh EXCEPT !.status = "REMOVED_BY_USER"]
      BY <1>7 DEF CancelAtBank
    <2> HIDE DEF fresh
    <2>4. qr' \in QrRows /\ qr'.amount = qr.amount /\ qr'.paid = qr.paid /\ CompleteMeansPaid(qr')
      BY <2>2, <2>3 DEF QrRows, QrStatuses, CompleteMeansPaid
    <2>5. QED
      BY <2>1, <2>4, <1>7, TheChargeMoves DEF CancelAtBank, ChargeTypeOK
  <1>8. ASSUME RecordCancel PROVE ChargesInv'
    <2>1. CompletedRowIsPaid' /\ (qrRow = NoQr => qrRow' = NoQr)
      BY <1>8, AnEventIsApplied DEF RecordCancel
    <2>2. QED
      BY <2>1, <1>8
      DEF RecordCancel, ChargeTypeOK, BankIsFirst, CompleteMeansPaid, Need, EventsTellThePaid
  <1>9. ASSUME NEW p \in Payers, StartPayment(p) PROVE ChargesInv'
    <2>1. qr \in QrRows /\ qr' = expireIfDue(qr) /\ UNCHANGED <<ask, send, qrAt, qrRow, paidEvents>>
      BY <1>9 DEF StartPayment, ChargeTypeOK
    <2>2. payer' = [q \in Payers |-> payer'[q]]
      BY <1>9 DEF StartPayment, ChargeTypeOK
    <2>3. QED
      BY <2>1, <2>2, ReadingACharge, TheChargeMoves DEF ChargeTypeOK
  <1>10. ASSUME NEW p \in Payers, FinishPayment(p) PROVE ChargesInv'
    <2> DEFINE paid == markPaid(qr, send[p])
    <2>1. qr \in QrRows /\ send[p] \in Nat \ {0}
      BY <1>10, ChargesAssumption DEF ChargesAssumption, FinishPayment, BankIsFirst, ChargeTypeOK
    <2>2. paid \in QrRows /\ paid.amount = qr.amount /\ paid.paid = qr.paid + send[p] /\ CompleteMeansPaid(paid)
      BY <2>1, PayingACharge
    <2>3. /\ qr' = paid /\ UNCHANGED <<ask, send, qrAt, qrRow, cancel>>
          /\ paidEvents' = paidEvents \union {[status |-> paid.status, paid |-> paid.paid, at |-> tick]}
          /\ payer' = [payer EXCEPT ![p] = "done"]
      BY <1>10 DEF FinishPayment
    <2> HIDE DEF paid
    <2>4. qr'.paid \in Nat \ {0} /\ qr'.paid > qr.paid /\ qr.paid \in Nat /\ Need(qr') = Need(qr)
      BY <2>1, <2>2, <2>3 DEF QrRows, Need
    <2>5. ChargeTypeOK' /\ BankIsFirst' /\ CompleteMeansPaid(qr)'
      BY <2>2, <2>3, <1>a DEF ChargeTypeOK, BankIsFirst, CompleteMeansPaid, Need
    <2>6. EventsTellThePaid'
      <3> SUFFICES ASSUME NEW e \in paidEvents'
                   PROVE  /\ e.status \in QrStatuses /\ e.paid \in Nat \ {0} /\ e.paid <= qr'.paid
                          /\ e.status = "COMPLETED" => e.paid >= Need(qr')
        BY DEF EventsTellThePaid, Need
      <3>1. CASE e \in paidEvents
        BY <3>1, <2>4 DEF EventsTellThePaid
      <3>2. CASE e = [status |-> paid.status, paid |-> paid.paid, at |-> tick]
        BY <3>2, <2>2, <2>3, <2>4 DEF QrRows, CompleteMeansPaid
      <3>3. QED
        BY <3>1, <3>2, <2>3
    <2>7. CompletedRowIsPaid'
      BY <2>2, <2>3, <2>4 DEF CompletedRowIsPaid, CompletedIsPaid
    <2>8. QED
      BY <2>5, <2>6, <2>7
  <1>11. ASSUME NEW e \in paidEvents, ApplyCharge(e) PROVE ChargesInv'
    <2>1. incomingStatus(e) = e.status
      BY DEF EventsTellThePaid, QrStatuses, incomingStatus, toChargeStatus,
         PIX_CHARGE_STATUS_TRANSITIONS, Unread
    <2>2. CompletedRowIsPaid' /\ (qrRow = NoQr => qrRow' = NoQr)
      BY <2>1, <1>11, AnEventIsApplied DEF ApplyCharge, EventsTellThePaid
    <2>3. QED
      BY <2>2, <1>11
      DEF ApplyCharge, ChargeTypeOK, BankIsFirst, CompleteMeansPaid, Need, EventsTellThePaid
  <1>12. CASE UNCHANGED chargeVars
    BY <1>12, <1>b DEF chargeVars, chargeOnlyVars
  <1>13. QED
    BY <1>1, <1>2, <1>3, <1>4, <1>5, <1>6, <1>7, <1>8, <1>9, <1>10, <1>11, <1>12, <1>b
    DEF PixAddressingNext, ChargesNext

\* However payments, their events, the expiry and a cancellation meet: a charge shown as
\* completed was paid its whole value at the bank, and shows no more than was paid.
THEOREM CompletedChargesArePaid == PixAddressingSpec => []CompletedIsPaid
  <1>1. ChargesInv => CompletedIsPaid
    BY DEF ChargesInv, CompletedRowIsPaid
  <1>2. QED
    BY <1>1, ChargesInitially, ChargesStep, PTL DEF PixAddressingSpec

-----------------------------------------------------------------------------
(* Accounts and onboarding. *)

CaseStatuses == {"none"} \union DOMAIN ONBOARDING_STATUS_RANKS

Uploads == [pc : {"idle", "reread", "apply", "done"}, status : CaseStatuses, pending : SUBSET Codes]

AccountsTypes ==
    /\ scenario \in Scenarios
    /\ bank \in BankRows
    /\ clock \in Int
    /\ row \in [Creations -> AccountRow]
    /\ case \in [Creations -> OnboardingRow]
    /\ at \in [Creations -> {"start", "holder", "newHolder", "insert", "call", "attach", "ledger",
                            "seed", "mirror", "announce", "done", "failed", "died"}]
    /\ seen \in [Creations -> [status : CaseStatuses \union AccountStatuses, pending : SUBSET Codes]]
    /\ upload \in [Codes -> Uploads]
    /\ change \in {"idle"} \union AccountStatuses

\* What a creation holds between its steps.
CreationsKnow ==
    \A r \in Creations :
        /\ at[r] \in {"call", "attach", "ledger", "seed", "mirror", "announce"} => row[r].exists
        /\ at[r] = "attach" => seen[r].status \in AccountStatuses
        /\ at[r] = "mirror" => seen[r].status \in CaseStatuses

\* Before the bank has the account, nothing of it is anywhere.
NotOpened ==
    bank.account = "none" =>
        /\ bank.case = "none" /\ bank.open = {} /\ ~bank.asleep /\ wire = {}
        /\ \A r \in Creations :
              /\ ~row[r].attached /\ case[r] = NoCase
              /\ at[r] \notin {"attach", "ledger", "seed", "mirror", "announce"}
        /\ \A c \in Codes : upload[c].pc \notin {"reread", "apply"}

\* An event on its way, in whatever order it comes, lists all the bank still waits for.
EventCovers(e, open) ==
    /\ e.at \in Int
    /\ e.kind = "account" => e.status \in AccountStatuses
    /\ e.kind = "onboarding" => e.status \in CaseStatuses /\ open \subseteq e.pending

ReadingsCover ==
    /\ \A e \in wire : EventCovers(e, bank.open)
    /\ \A c \in Codes : upload[c].pc = "apply" => bank.open \subseteq upload[c].pending

OneMirror == \A q, r \in Creations : row[q].attached /\ row[r].attached => q = r

TracedRow == bank.account # "none" => \E r \in Creations : row[r].exists

AccountsInv ==
    /\ AccountsTypes /\ CreationsKnow /\ NotOpened /\ ReadingsCover /\ OneMirror
    /\ TracedRow /\ AcceptedIsFulfilled

-----------------------------------------------------------------------------
LEMMA StatusSets ==
    /\ AccountStatuses = {"DRAFT", "PENDING_ONBOARDING", "PENDING_DOCUMENTS", "UNDER_REVIEW",
                          "ACTIVE", "REJECTED", "SUSPENDED", "BLOCKED", "CLOSING", "CLOSED"}
    /\ CaseStatuses = {"none", "DRAFT", "SUBMITTED", "PENDING_REQUIREMENTS", "IN_ANALYSIS",
                       "MANUAL_REVIEW", "APPROVED", "REJECTED", "EXPIRED", "CANCELLED"}
  BY DEF AccountStatuses, CaseStatuses, ACCOUNT_STATUS_RANKS, ONBOARDING_STATUS_RANKS

LEMMA NoRows == NoRow \in AccountRow /\ NoCase \in OnboardingRow
  BY StatusSets DEF NoRow, NoCase, AccountRow, OnboardingRow, NoEvent, CaseStatuses

\* What the connector reads of an account is one of its own statuses.
LEMMA ProviderStatus == \A b : toProviderAccount(serializeAccount(b)) \in AccountStatuses
  BY StatusSets DEF toProviderAccount, toAccountStatus

\* What a change of status leaves of a row.
LEMMA RowAfterKeeps ==
    ASSUME NEW account \in AccountRow, NEW to \in AccountStatuses, NEW when \in Int
    PROVE  /\ RowAfter(account, to, when) \in AccountRow
           /\ RowAfter(account, to, when).exists = account.exists
           /\ RowAfter(account, to, when).attached = account.attached
  BY DEF RowAfter, AccountRow

\* A reading that lists all the bank waits for closes no code the bank waits for.
LEMMA CaseAfterKeeps ==
    ASSUME NEW k \in OnboardingRow, NEW to \in CaseStatuses, NEW when \in Int,
           NEW pending, NEW open, open \subseteq pending,
           \A c \in Codes : k.codes[c] = "ACCEPTED" => c \notin open
    PROVE  /\ CaseAfter(k, to, pending, when) \in OnboardingRow
           /\ \A c \in Codes : CaseAfter(k, to, pending, when).codes[c] = "ACCEPTED" => c \notin open
<1> DEFINE synced == [c \in Codes |-> IF k.codes[c] = "PENDING" THEN "ACCEPTED"
                                      ELSE IF c \in pending THEN "PENDING" ELSE k.codes[c]]
<1>1. CASE CaseAfter(k, to, pending, when) = k
  BY <1>1
<1>2. CASE CaseAfter(k, to, pending, when) # k
  <2>1. syncRequirements(k.codes, pending) = {synced} /\ \A c \in pending \cap Codes : k.codes[c] = "none"
    BY <1>2 DEF CaseAfter, syncRequirements
  <2>2. CaseAfter(k, to, pending, when) = [status |-> to, last |-> when, codes |-> synced]
    <3>1. (CHOOSE codes \in {synced} : TRUE) = synced
      OBVIOUS
    <3>2. QED
      BY <1>2, <2>1, <3>1 DEF CaseAfter
  <2>3. synced \in [Codes -> {"none", "PENDING", "ACCEPTED"}]
    BY DEF OnboardingRow
  <2>4. \A c \in Codes : synced[c] = "ACCEPTED" => c \notin open
    BY <2>1
  <2>5. QED
    BY <2>2, <2>3, <2>4 DEF OnboardingRow, CaseStatuses
<1>3. QED
  BY <1>1, <1>2

-----------------------------------------------------------------------------
(* The bank's steps, once the account is open. *)

\* The bank waits for no more than before, and announces no less than it waits for.
BankMoved ==
    /\ scenario' = scenario /\ bank' \in BankRows /\ clock' \in Int
    /\ bank'.account # "none" /\ bank'.open \subseteq bank.open
    /\ \A e \in wire' : e \in wire \/ EventCovers(e, bank'.open)

\* The connector's rows rest, and no upload reads the case.
ConnectorRests ==
    /\ UNCHANGED <<at, row, case, seen>>
    /\ change' \in {"idle"} \union AccountStatuses
    /\ upload' \in [Codes -> Uploads]
    /\ \A c \in Codes : upload'[c].pc = "apply" => upload'[c] = upload[c]

LEMMA BankMovedStep ==
    ASSUME AccountsInv, bank.account # "none", BankMoved, ConnectorRests
    PROVE  AccountsInv'
<1>1. (AccountsTypes /\ CreationsKnow /\ NotOpened /\ OneMirror /\ TracedRow)'
  BY DEF AccountsInv, AccountsTypes, CreationsKnow, NotOpened, OneMirror, TracedRow,
     BankMoved, ConnectorRests
<1>2. ReadingsCover'
  <2>1. ASSUME NEW e \in wire' PROVE EventCovers(e, bank'.open)
    BY <2>1 DEF AccountsInv, ReadingsCover, EventCovers, BankMoved
  <2>2. ASSUME NEW c \in Codes, upload'[c].pc = "apply" PROVE bank'.open \subseteq upload'[c].pending
    BY <2>2 DEF AccountsInv, ReadingsCover, BankMoved, ConnectorRests
  <2>3. QED
    BY <2>1, <2>2 DEF ReadingsCover
<1>3. AcceptedIsFulfilled'
  BY DEF AccountsInv, AcceptedIsFulfilled, BankMoved, ConnectorRests
<1>4. QED
  BY <1>1, <1>2, <1>3 DEF AccountsInv

\* Approving and refusing leave the list as it is.
LEMMA DecisionsKeepTheList ==
    ASSUME NEW b \in BankRows, b.account # "none"
    PROVE  /\ AfterApprove(b) \in BankRows /\ AfterApprove(b).account # "none"
           /\ AfterApprove(b).open = b.open
           /\ \A code \in {"DATA_MISMATCH", "SANCTIONS_MATCH", "MB-ONB-FORCED"} :
                 /\ AfterReject(b, code) \in BankRows /\ AfterReject(b, code).account # "none"
                 /\ AfterReject(b, code).open = b.open
  BY DEF AfterApprove, Approved, AfterReject, BankRows

\* The events of an approval, and of any other change, carry the list of the case.
LEMMA EventsCarryTheList ==
    ASSUME NEW b \in BankRows, NEW t \in Int
    PROVE  /\ EventCovers(CaseEvent(b, t), b.open)
           /\ \A e \in ApproveEvents(b, t) : EventCovers(e, b.open)
<1>1. EventCovers(CaseEvent(b, t), b.open)
  BY StatusSets DEF EventCovers, CaseEvent, BankRows
<1>2. Approved(b) \in BankRows /\ Approved(b).open = b.open /\ Approved(b).account \in {"BLOCKED", "ACTIVE"}
  BY DEF Approved, BankRows
<1>3. EventCovers(CaseEvent(Approved(b), t), b.open) /\ EventCovers(AccountEvent(Approved(b), t), b.open)
  BY <1>2, StatusSets DEF EventCovers, CaseEvent, AccountEvent, BankRows
<1>4. QED
  BY <1>1, <1>3 DEF ApproveEvents

LEMMA WakeMoves == ASSUME AccountsInv, Wake PROVE bank.account # "none" /\ BankMoved
<1> DEFINE b == [bank EXCEPT !.asleep = FALSE]
<1>1. bank.account # "none" /\ bank \in BankRows /\ clock \in Int /\ clock + 1 \in Int
  BY DEF AccountsInv, AccountsTypes, NotOpened, Wake
<1>2. b \in BankRows /\ b.open = bank.open /\ b.account # "none"
  BY <1>1 DEF BankRows
<1>3. bank' = AfterApprove(b) /\ bank' \in BankRows /\ bank'.account # "none" /\ bank'.open = bank.open
  BY <1>2, DecisionsKeepTheList DEF Wake
<1>4. \A e \in ApproveEvents(bank, clock + 1) : EventCovers(e, bank.open)
  BY <1>1, EventsCarryTheList
<1>5. QED
  BY <1>1, <1>3, <1>4 DEF BankMoved, Wake

LEMMA ExpireMoves == ASSUME AccountsInv, Expire PROVE bank.account # "none" /\ BankMoved
<1>1. bank.account # "none" /\ bank \in BankRows /\ clock \in Int /\ clock + 1 \in Int
  BY DEF AccountsInv, AccountsTypes, NotOpened, Expire, IsDue
<1>2. bank' \in BankRows /\ bank'.account # "none" /\ bank'.open = bank.open
  BY <1>1 DEF BankRows, Expire, Expired
<1>3. EventCovers(CaseEvent(bank', clock + 1), bank'.open)
  BY <1>1, <1>2, EventsCarryTheList
<1>4. QED
  BY <1>1, <1>2, <1>3 DEF BankMoved, Expire

LEMMA ForceMoves ==
    ASSUME AccountsInv, NEW d \in {"APPROVE", "REJECT", "PENDING"}, ForceDecision(d)
    PROVE  bank.account # "none" /\ BankMoved
<1>1. bank.account # "none" /\ bank \in BankRows /\ clock \in Int /\ clock + 1 \in Int
  BY DEF AccountsInv, AccountsTypes, NotOpened, ForceDecision
<1>2. bank' \in BankRows /\ bank'.account # "none" /\ bank'.open = bank.open
  <2>1. CASE d = "APPROVE"
    BY <1>1, <2>1, DecisionsKeepTheList DEF ForceDecision
  <2>2. CASE d = "REJECT"
    BY <1>1, <2>2, DecisionsKeepTheList DEF ForceDecision
  <2>3. CASE d = "PENDING"
    BY <1>1, <2>3 DEF ForceDecision, BankRows
  <2>4. QED
    BY <2>1, <2>2, <2>3
<1>3. /\ EventCovers(CaseEvent(bank', clock + 1), bank'.open)
      /\ \A e \in ApproveEvents(bank, clock + 1) : EventCovers(e, bank.open)
  BY <1>1, <1>2, EventsCarryTheList
<1>4. QED
  BY <1>1, <1>2, <1>3 DEF BankMoved, ForceDecision

LEMMA DocumentMoves ==
    ASSUME AccountsInv, NEW c \in Codes, TakesDocument(c), TakeDocument(c), scenario' = scenario
    PROVE  bank.account # "none" /\ BankMoved
<1> DEFINE b == [bank EXCEPT !.open = bank.open \ {c}]
<1>1. bank.account # "none" /\ bank \in BankRows /\ clock \in Int /\ clock + 1 \in Int
  BY DEF AccountsInv, AccountsTypes, NotOpened, TakesDocument
<1>2. b \in BankRows /\ b.open = bank.open \ {c} /\ b.account # "none"
  BY <1>1 DEF BankRows
<1> HIDE DEF b
<1>3. bank' \in BankRows /\ bank'.account # "none" /\ bank'.open = b.open
  BY <1>2, DecisionsKeepTheList DEF TakeDocument, b
<1>4. /\ EventCovers(CaseEvent(b, clock + 1), b.open)
      /\ \A e \in ApproveEvents(b, clock + 1) : EventCovers(e, b.open)
  BY <1>1, <1>2, EventsCarryTheList
<1>5. \A e \in wire' : e \in wire \/ e = CaseEvent(b, clock + 1) \/ e \in ApproveEvents(b, clock + 1)
  BY DEF TakeDocument, b
<1>6. clock' = clock + 1
  BY DEF TakeDocument
<1>7. QED
  BY <1>1, <1>2, <1>3, <1>4, <1>5, <1>6 DEF BankMoved

-----------------------------------------------------------------------------
(* The creations. *)

\* A step that only moves the request on.
LEMMA AdvanceStep ==
    ASSUME AccountsInv, NEW r \in Creations,
           NEW to \in {"holder", "newHolder", "insert", "done", "failed", "died"},
           at' = [at EXCEPT ![r] = to], seen' = seen \/ seen' = [seen EXCEPT ![r] = Nothing],
           UNCHANGED <<bankVars, row, case, upload, change>>
    PROVE  AccountsInv'
<1>1. AccountsTypes'
  BY DEF AccountsInv, AccountsTypes, bankVars, Nothing, CaseStatuses
<1>2. (CreationsKnow /\ NotOpened)'
  BY DEF AccountsInv, AccountsTypes, CreationsKnow, NotOpened, bankVars
<1>3. QED
  BY <1>1, <1>2 DEF AccountsInv, ReadingsCover, EventCovers, OneMirror, TracedRow,
     AcceptedIsFulfilled, bankVars

\* The row comes before the call.
LEMMA InsertDraftStep == ASSUME AccountsInv, NEW r \in Creations, InsertDraft(r) PROVE AccountsInv'
<1>1. CASE TakenExternalId(r)
  BY <1>1, AdvanceStep DEF InsertDraft, Advance
<1>2. CASE ~TakenExternalId(r)
  <2>1. /\ at[r] = "insert" /\ at' = [at EXCEPT ![r] = "call"]
        /\ row' = [row EXCEPT ![r] = newAccount(row[r])]
        /\ UNCHANGED <<scenario, bank, wire, clock, case, seen, upload, change>>
    BY <1>2 DEF InsertDraft, Advance, bankVars
  <2>2. /\ newAccount(row[r]) \in AccountRow /\ newAccount(row[r]).exists
        /\ newAccount(row[r]).attached = row[r].attached
    BY ZenonT(60) DEF AccountsInv, AccountsTypes, newAccount, AccountRow
  <2>3. \A q \in Creations : row'[q].attached = row[q].attached /\ (row[q].exists => row'[q].exists)
    BY <2>1, <2>2 DEF AccountsInv, AccountsTypes
  <2>4. AccountsTypes'
    BY <2>1, <2>2 DEF AccountsInv, AccountsTypes
  <2>5. CreationsKnow'
    BY <2>1, <2>2, <2>3 DEF AccountsInv, AccountsTypes, CreationsKnow
  <2>6. NotOpened'
    BY <2>1, <2>3 DEF AccountsInv, AccountsTypes, NotOpened
  <2>7. QED
    BY <2>1, <2>3, <2>4, <2>5, <2>6 DEF AccountsInv, ReadingsCover, OneMirror, TracedRow,
       AcceptedIsFulfilled
<1>3. QED
  BY <1>1, <1>2

\* What the first creation leaves at the bank.
LEMMA SubmitOpens ==
    ASSUME NEW b \in BankRows, b.account = "PENDING_ONBOARDING", NEW s \in Scenarios
    PROVE  AfterSubmit(b, s) \in BankRows /\ AfterSubmit(b, s).account # "none"
<1> DEFINE opened == [b EXCEPT !.case = "SUBMITTED", !.open = Requirements(s)]
<1>1. Requirements(s) \in SUBSET Codes
  BY DEF Codes
<1>2. opened \in BankRows /\ opened.account = "PENDING_ONBOARDING"
  BY <1>1 DEF BankRows
<1> HIDE DEF opened
<1>3. \A code \in {"DATA_MISMATCH", "SANCTIONS_MATCH"} :
          AfterReject(opened, code) \in BankRows /\ AfterReject(opened, code).account # "none"
  BY <1>2, DecisionsKeepTheList
<1>4. \A x \in {"PENDING_REQUIREMENTS", "MANUAL_REVIEW"} :
          /\ [opened EXCEPT !.case = x] \in BankRows
          /\ [opened EXCEPT !.case = x].account # "none"
          /\ [opened EXCEPT !.case = x, !.asleep = TRUE] \in BankRows
          /\ [opened EXCEPT !.case = x, !.asleep = TRUE].account # "none"
  BY <1>2 DEF BankRows
<1>5. [opened EXCEPT !.asleep = TRUE] \in BankRows /\ [opened EXCEPT !.asleep = TRUE].account # "none"
  BY <1>2 DEF BankRows
<1>6. QED
  BY <1>3, <1>4, <1>5 DEF AfterSubmit, opened

LEMMA CallProviderStep == ASSUME AccountsInv, NEW r \in Creations, CallProvider(r) PROVE AccountsInv'
<1>1. /\ at[r] = "call" /\ row[r].exists
      /\ UNCHANGED <<scenario, row, case, upload, change>>
  BY DEF CallProvider, AccountsInv, CreationsKnow
<1>2. /\ bank' \in BankRows /\ bank'.account # "none" /\ clock' \in Int
      /\ \A e \in wire' : EventCovers(e, bank'.open)
      /\ bank.account # "none" => bank' = bank
  <2>1. CASE bank.account # "none"
    BY <2>1 DEF CallProvider, BankCreates, AccountsInv, AccountsTypes, ReadingsCover
  <2>2. CASE bank.account = "none"
    <3> DEFINE b == AfterSubmit([bank EXCEPT !.account = "PENDING_ONBOARDING"], scenario)
    <3>1. /\ [bank EXCEPT !.account = "PENDING_ONBOARDING"] \in BankRows
          /\ [bank EXCEPT !.account = "PENDING_ONBOARDING"].account = "PENDING_ONBOARDING"
      BY DEF AccountsInv, AccountsTypes, BankRows
    <3>0. scenario \in Scenarios /\ wire = {} /\ clock + 1 \in Int
      BY <2>2 DEF AccountsInv, AccountsTypes, NotOpened
    <3>2. b \in BankRows /\ b.account # "none"
      BY <3>0, <3>1, SubmitOpens
    <3>3. bank' = b /\ clock' = clock + 1 /\ wire' = wire \union SubmitEvents(b, clock + 1)
      BY <2>2 DEF CallProvider, BankCreates
    <3> HIDE DEF b
    <3>4. EventCovers(CaseEvent(b, clock + 1), b.open)
      BY <3>0, <3>2, EventsCarryTheList
    <3>5. QED
      BY <2>2, <3>0, <3>2, <3>3, <3>4 DEF SubmitEvents
  <2>3. QED
    BY <2>1, <2>2
<1>3. \/ /\ at' = [at EXCEPT ![r] = "attach"]
         /\ \E to \in AccountStatuses : seen' = [seen EXCEPT ![r].status = to]
      \/ at' = [at EXCEPT ![r] = "failed"] /\ seen' = seen
  BY ProviderStatus DEF CallProvider, Advance
<1>4. AccountsTypes'
  BY ZenonT(60), <1>1, <1>2, <1>3 DEF AccountsInv, AccountsTypes
<1>5. CreationsKnow'
  BY <1>1, <1>3 DEF AccountsInv, AccountsTypes, CreationsKnow
<1>6. bank.account = "none" =>
          (\A c \in Codes : upload[c].pc # "apply") /\ \A q \in Creations : case[q] = NoCase
  BY DEF AccountsInv, NotOpened
<1>7. ReadingsCover'
  BY <1>1, <1>2, <1>6 DEF AccountsInv, ReadingsCover
<1>8. AcceptedIsFulfilled'
  BY <1>1, <1>2, <1>6 DEF AccountsInv, AcceptedIsFulfilled, NoCase
<1>9. QED
  BY <1>1, <1>2, <1>4, <1>5, <1>7, <1>8 DEF AccountsInv, NotOpened, OneMirror, TracedRow

\* The unique index on the provider's id lets one row attach.
LEMMA AttachStep == ASSUME AccountsInv, NEW r \in Creations, Attach(r) PROVE AccountsInv'
<1>1. CASE ~CanAttach(r)
  BY <1>1, AdvanceStep DEF Attach, Advance
<1>2. CASE CanAttach(r)
  <2> DEFINE new == attachProviderAccount(row[r], seen[r].status)
  <2>1. /\ at[r] = "attach" /\ at' = [at EXCEPT ![r] = "ledger"]
        /\ row' = [row EXCEPT ![r] = new] /\ seen' = [seen EXCEPT ![r] = Nothing]
        /\ UNCHANGED <<scenario, bank, wire, clock, case, upload, change>>
    BY <1>2 DEF Attach, Advance, bankVars
  <2>2. new \in AccountRow /\ new.exists = row[r].exists
    BY ZenonT(60), <2>1 DEF AccountsInv, AccountsTypes, CreationsKnow, attachProviderAccount, AccountRow
  <2> HIDE DEF new
  <2>3. \A q \in Creations : q # r => ~row[q].attached
    BY <1>2 DEF CanAttach, Mirror
  <2>4. AccountsTypes'
    BY <2>1, <2>2 DEF AccountsInv, AccountsTypes, Nothing, CaseStatuses
  <2>5. (CreationsKnow /\ NotOpened)'
    BY <2>1, <2>2 DEF AccountsInv, AccountsTypes, CreationsKnow, NotOpened
  <2>6. (OneMirror /\ TracedRow)'
    BY <2>1, <2>2, <2>3 DEF AccountsInv, AccountsTypes, OneMirror, TracedRow
  <2>7. QED
    BY <2>1, <2>4, <2>5, <2>6 DEF AccountsInv, ReadingsCover, AcceptedIsFulfilled
<1>3. QED
  BY <1>1, <1>2

LEMMA OpenLedgerStep == ASSUME AccountsInv, NEW r \in Creations, OpenLedger(r) PROVE AccountsInv'
<1> DEFINE new == attachLedgerAccounts(row[r])
<1>1. /\ at[r] = "ledger" /\ at' = [at EXCEPT ![r] = "seed"] /\ row' = [row EXCEPT ![r] = new]
      /\ UNCHANGED <<scenario, bank, wire, clock, case, seen, upload, change>>
  BY DEF OpenLedger, Advance, bankVars
<1>2. new \in AccountRow /\ new.exists = row[r].exists /\ new.attached = row[r].attached
  BY ZenonT(60) DEF AccountsInv, AccountsTypes, attachLedgerAccounts, AccountRow
<1> HIDE DEF new
<1>3. (AccountsTypes /\ CreationsKnow /\ NotOpened)'
  BY <1>1, <1>2 DEF AccountsInv, AccountsTypes, CreationsKnow, NotOpened
<1>4. (OneMirror /\ TracedRow)'
  BY <1>1, <1>2 DEF AccountsInv, AccountsTypes, OneMirror, TracedRow
<1>5. QED
  BY <1>1, <1>3, <1>4 DEF AccountsInv, ReadingsCover, AcceptedIsFulfilled

\* The case the bank shows, and the row it is mirrored in.
LEMMA SeedStep ==
    ASSUME AccountsInv, NEW r \in Creations, ReadCase(r) \/ MirrorCase(r) \/ AnnounceAccount(r)
    PROVE  AccountsInv'
<1>1. ASSUME at[r] \in {"seed", "mirror", "announce"}, NEW to \in {"mirror", "announce", "done"},
             at' = [at EXCEPT ![r] = to],
             NEW k \in [status : CaseStatuses, pending : SUBSET Codes],
             seen' = [seen EXCEPT ![r] = k] \/ (seen' = seen /\ to # "mirror"),
             case' = case \/ (at[r] = "mirror" /\ case' = [case EXCEPT ![r] = newCase(seen[r])]),
             UNCHANGED <<scenario, bank, wire, clock, row, upload, change>>
      PROVE  AccountsInv'
  <2>1. at[r] = "mirror" => /\ newCase(seen[r]) \in OnboardingRow
                            /\ \A c \in Codes : newCase(seen[r]).codes[c] # "ACCEPTED"
    BY DEF AccountsInv, AccountsTypes, CreationsKnow, newCase, OnboardingRow, NoEvent,
       CaseStatuses
  <2>2. AccountsTypes'
    BY <1>1, <2>1 DEF AccountsInv, AccountsTypes
  <2>3. (CreationsKnow /\ NotOpened)'
    BY <1>1 DEF AccountsInv, AccountsTypes, CreationsKnow, NotOpened
  <2>4. AcceptedIsFulfilled'
    BY <1>1, <2>1 DEF AccountsInv, AccountsTypes, AcceptedIsFulfilled
  <2>5. QED
    BY <1>1, <2>2, <2>3, <2>4 DEF AccountsInv, ReadingsCover, OneMirror, TracedRow
<1>2. Nothing \in [status : CaseStatuses, pending : SUBSET Codes]
  BY DEF Nothing, CaseStatuses
<1>3. readByAccount \in [status : CaseStatuses, pending : SUBSET Codes]
  BY StatusSets DEF AccountsInv, AccountsTypes, readByAccount, toOnboardingCase, BankRows
<1>4. CASE ReadCase(r)
  BY <1>1, <1>2, <1>3, <1>4 DEF ReadCase, Advance, bankVars
<1>5. CASE MirrorCase(r)
  BY <1>1, <1>2, <1>5 DEF MirrorCase, Advance, bankVars
<1>6. CASE AnnounceAccount(r)
  BY <1>1, <1>2, <1>6 DEF AnnounceAccount, Advance, bankVars
<1>7. QED
  BY <1>4, <1>5, <1>6

-----------------------------------------------------------------------------
(* What events, uploads and changes of status do to the rows. *)

\* Changes of status of the attached row.
LEMMA RowsChange ==
    ASSUME AccountsInv, NEW to \in AccountStatuses, NEW when \in Int,
           row' = [r \in Creations |-> IF r \in Mirror THEN RowAfter(row[r], to, when) ELSE row[r]],
           wire' \subseteq wire, change' \in {"idle"} \union AccountStatuses,
           UNCHANGED <<scenario, bank, clock, at, case, seen, upload>>
    PROVE  AccountsInv'
<1>1. \A r \in Creations : /\ row'[r] \in AccountRow /\ row'[r].exists = row[r].exists
                           /\ row'[r].attached = row[r].attached
  BY RowAfterKeeps DEF AccountsInv, AccountsTypes
<1>2. AccountsTypes'
  BY <1>1 DEF AccountsInv, AccountsTypes
<1>3. (CreationsKnow /\ NotOpened /\ OneMirror /\ TracedRow)'
  BY <1>1 DEF AccountsInv, CreationsKnow, NotOpened, OneMirror, TracedRow
<1>4. QED
  BY <1>2, <1>3 DEF AccountsInv, ReadingsCover, AcceptedIsFulfilled

\* A reading applied to the case, if the transaction goes through.
LEMMA CasesChange ==
    ASSUME AccountsInv, NEW to \in CaseStatuses, NEW when \in Int, NEW pending,
           bank.open \subseteq pending, bank.account # "none", NEW of \in SUBSET Creations,
           case' = [r \in Creations |-> IF r \in of THEN CaseAfter(case[r], to, pending, when)
                                                    ELSE case[r]],
           wire' \subseteq wire, upload' \in [Codes -> Uploads],
           \A c \in Codes : upload'[c].pc = "apply" => upload'[c] = upload[c],
           UNCHANGED <<scenario, bank, clock, at, row, seen, change>>
    PROVE  AccountsInv'
<1>1. \A r \in Creations : /\ case'[r] \in OnboardingRow
                           /\ \A c \in Codes : case'[r].codes[c] = "ACCEPTED" => c \notin bank.open
  <2> SUFFICES ASSUME NEW r \in Creations
               PROVE  /\ case'[r] \in OnboardingRow
                      /\ \A c \in Codes : case'[r].codes[c] = "ACCEPTED" => c \notin bank.open
    OBVIOUS
  <2>1. case[r] \in OnboardingRow /\ \A c \in Codes : case[r].codes[c] = "ACCEPTED" => c \notin bank.open
    BY DEF AccountsInv, AccountsTypes, AcceptedIsFulfilled
  <2> DEFINE k == CaseAfter(case[r], to, pending, when)
  <2>2. k \in OnboardingRow /\ \A c \in Codes : k.codes[c] = "ACCEPTED" => c \notin bank.open
    BY ZenonT(60), <2>1, CaseAfterKeeps
  <2>3. case'[r] = k \/ case'[r] = case[r]
    OBVIOUS
  <2> HIDE DEF k
  <2>4. QED
    BY <2>1, <2>2, <2>3
<1>2. AccountsTypes'
  BY <1>1 DEF AccountsInv, AccountsTypes
<1>3. AcceptedIsFulfilled'
  BY <1>1 DEF AcceptedIsFulfilled
<1>4. QED
  BY <1>2, <1>3 DEF AccountsInv, CreationsKnow, NotOpened, ReadingsCover, OneMirror, TracedRow

LEMMA DeliverStep ==
    ASSUME AccountsInv, NEW e \in wire, DeliverAccount(e) \/ DeliverOnboarding(e)
    PROVE  AccountsInv'
<1>1. EventCovers(e, bank.open) /\ bank.account # "none" /\ change \in {"idle"} \union AccountStatuses
  BY DEF AccountsInv, AccountsTypes, ReadingsCover, NotOpened
<1>2. CASE DeliverAccount(e)
  BY <1>1, <1>2, RowsChange DEF DeliverAccount, ApplyAccount, EventCovers
<1>3. CASE DeliverOnboarding(e)
  <2> DEFINE of == {r \in Creations : r \in findCase /\ IsStorable(e.reason)}
  <2>1. case' = [r \in Creations |-> IF r \in of THEN CaseAfter(case[r], e.status, e.pending, e.at)
                                                 ELSE case[r]]
    BY <1>3 DEF DeliverOnboarding, ApplyOnboarding
  <2>2. of \in SUBSET Creations /\ upload \in [Codes -> Uploads]
    BY DEF AccountsInv, AccountsTypes
  <2> HIDE DEF of
  <2>3. /\ e.status \in CaseStatuses /\ bank.open \subseteq e.pending /\ e.at \in Int
        /\ wire' \subseteq wire /\ UNCHANGED <<scenario, bank, clock, at, row, seen, upload, change>>
    BY <1>1, <1>3 DEF DeliverOnboarding, EventCovers
  <2>4. QED
    BY <1>1, <2>1, <2>2, <2>3, CasesChange
<1>4. QED
  BY <1>2, <1>3

LEMMA UploadStep ==
    ASSUME AccountsInv, NEW c \in Codes, Upload(c) \/ Fulfil(c) \/ Reread(c) \/ ApplyReread(c)
    PROVE  AccountsInv'
<1>0. upload[c] \in Uploads /\ clock \in Int /\ change \in {"idle"} \union AccountStatuses
  BY DEF AccountsInv, AccountsTypes
<1>1. bank.account # "none"
  <2>1. upload[c].pc \in {"reread", "apply"} \/ \E r \in Creations : row[r].attached
    BY DEF Upload, Fulfil, Reread, ApplyReread, findCase, Mirror
  <2>2. QED
    BY <2>1 DEF AccountsInv, NotOpened
<1>2. ASSUME NEW to \in {"reread", "done"}, upload' = [upload EXCEPT ![c].pc = to]
      PROVE  /\ upload' \in [Codes -> Uploads]
             /\ \A d \in Codes : upload'[d].pc = "apply" => upload'[d] = upload[d]
  BY <1>2 DEF AccountsInv, AccountsTypes, Uploads
<1>3. CASE Upload(c)
  <2>1. ConnectorRests /\ scenario' = scenario
    BY <1>0, <1>2, <1>3 DEF Upload, ConnectorRests
  <2>2. CASE TakesDocument(c)
    BY <1>3, <2>1, <2>2, DocumentMoves, BankMovedStep DEF Upload
  <2>3. CASE ~TakesDocument(c)
    <3>1. BankMoved
      BY <1>1, <1>3, <2>3 DEF Upload, BankMoved, AccountsInv, AccountsTypes
    <3>2. QED
      BY <1>1, <2>1, <3>1, BankMovedStep
  <2>4. QED
    BY <2>2, <2>3
<1>4. CASE Fulfil(c)
  <2>1. ConnectorRests
    BY <1>0, <1>2, <1>4 DEF Fulfil, ConnectorRests
  <2>2. BankMoved
    BY <1>1, <1>4 DEF Fulfil, BankMoved, AccountsInv, AccountsTypes, bankVars
  <2>3. QED
    BY <1>1, <2>1, <2>2, BankMovedStep
<1>5. CASE Reread(c)
  <2> DEFINE new == [pc |-> "apply", status |-> readByAccount.status, pending |-> readByAccount.pending]
  <2>1. upload' = [upload EXCEPT ![c] = new] /\ UNCHANGED <<scenario, bank, wire, clock, at, row, case, seen, change>>
    BY <1>5 DEF Reread, bankVars
  <2>2. new \in Uploads /\ new.pending = bank.open
    BY StatusSets DEF AccountsInv, AccountsTypes, readByAccount, toOnboardingCase, BankRows,
       Uploads
  <2> HIDE DEF new
  <2>3. AccountsTypes'
    BY <2>1, <2>2 DEF AccountsInv, AccountsTypes
  <2>4. ReadingsCover'
    BY <2>1, <2>2 DEF AccountsInv, AccountsTypes, ReadingsCover
  <2>5. QED
    BY <1>1, <2>1, <2>3, <2>4 DEF AccountsInv, CreationsKnow, NotOpened, OneMirror, TracedRow,
       AcceptedIsFulfilled
<1>6. CASE ApplyReread(c)
  <2> DEFINE new == [pc |-> "done", status |-> "none", pending |-> {}]
             of == findCase
             to == upload[c].status
             pending == upload[c].pending
  <2>0. wire' \subseteq wire
    BY <1>6 DEF ApplyReread, bankVars
  <2>1. upload' = [upload EXCEPT ![c] = new]
    BY <1>6 DEF ApplyReread
  <2>2. new \in Uploads /\ new.pc # "apply"
    BY StatusSets DEF Uploads
  <2> HIDE DEF new
  <2>3. upload' \in [Codes -> Uploads] /\ \A d \in Codes : upload'[d].pc = "apply" => upload'[d] = upload[d]
    BY <2>1, <2>2 DEF AccountsInv, AccountsTypes
  <2>4. bank.open \subseteq pending /\ to \in CaseStatuses /\ of \in SUBSET Creations
    BY <1>0, <1>6 DEF AccountsInv, ReadingsCover, ApplyReread, Uploads, findCase, Mirror
  <2>5. UNCHANGED <<scenario, bank, clock, at, row, seen, change>>
    BY <1>6 DEF ApplyReread, bankVars
  <2>6. case' = [r \in Creations |-> IF r \in of THEN CaseAfter(case[r], to, pending, clock) ELSE case[r]]
    BY <1>6 DEF ApplyReread
  <2> HIDE DEF of, to, pending
  <2>7. QED
    BY <1>0, <1>1, <2>0, <2>3, <2>4, <2>5, <2>6, CasesChange
<1>7. QED
  BY <1>3, <1>4, <1>5, <1>6

LEMMA ChangeStep ==
    ASSUME AccountsInv,
           ApplyChange \/ \E action \in {"block", "unblock", "close"} : ChangeAtProvider(action)
    PROVE  AccountsInv'
<1>1. CASE ApplyChange
  BY <1>1, RowsChange DEF ApplyChange, AccountsInv, AccountsTypes, bankVars
<1>2. ASSUME NEW action \in {"block", "unblock", "close"}, ChangeAtProvider(action) PROVE AccountsInv'
  <2>1. bank.account # "none"
    BY <1>2 DEF ChangeAtProvider, Mirror, AccountsInv, NotOpened
  <2>2. ConnectorRests
    BY <1>2, ProviderStatus DEF ChangeAtProvider, ConnectorRests, AccountsInv, AccountsTypes
  <2>3. StatusOf(action) \in {"BLOCKED", "ACTIVE", "CLOSED"}
    BY DEF StatusOf
  <2>4. BankMoved
    BY <1>2, <2>3 DEF ChangeAtProvider, BankSets, BankMoved, AccountsInv, AccountsTypes, BankRows
  <2>5. QED
    BY <2>1, <2>2, <2>4, BankMovedStep
<1>3. QED
  BY <1>1, <1>2

-----------------------------------------------------------------------------
LEMMA AccountsInitially == AccountsInit => AccountsInv
<1> SUFFICES ASSUME AccountsInit PROVE AccountsInv
  OBVIOUS
<1>1. PICK load \in Loads :
        /\ BankInit(load.decisions)
        /\ at = [r \in Creations |-> IF r \in load.creations THEN "start" ELSE "done"]
        /\ row = [r \in Creations |-> NoRow] /\ case = [r \in Creations |-> NoCase]
        /\ seen = [r \in Creations |-> Nothing] /\ change = "idle"
        /\ upload = [c \in Codes |->
                        [pc |-> IF load.documents /\ c \in Requirements(scenario) THEN "idle" ELSE "done",
                         status |-> "none", pending |-> {}]]
  BY DEF AccountsInit
<1>2. AccountsTypes
  <2>1. bank \in BankRows /\ scenario \in Scenarios /\ clock \in Int
    BY <1>1 DEF BankInit, BankRows
  <2>2. upload \in [Codes -> Uploads]
    BY <1>1, StatusSets DEF Uploads
  <2>3. QED
    BY <1>1, <2>1, <2>2, NoRows DEF AccountsTypes, Nothing, CaseStatuses
<1>3. (CreationsKnow /\ NotOpened /\ ReadingsCover /\ OneMirror /\ TracedRow)
  BY <1>1 DEF BankInit, CreationsKnow, NotOpened, ReadingsCover, OneMirror, TracedRow, NoRow
<1>4. AcceptedIsFulfilled
  BY <1>1 DEF AcceptedIsFulfilled, NoCase
<1>5. QED
  BY <1>2, <1>3, <1>4 DEF AccountsInv

LEMMA CreationStep == ASSUME AccountsInv, CreationNext PROVE AccountsInv'
<1>1. ASSUME NEW r \in Creations, FindExternal(r) \/ FindHolder(r) \/ CreateHolder(r) \/ Die(r)
      PROVE  AccountsInv'
  BY <1>1, AdvanceStep DEF FindExternal, FindHolder, CreateHolder, Die, Advance, bankVars
<1>2. QED
  BY <1>1, InsertDraftStep, CallProviderStep, AttachStep, OpenLedgerStep,
     SeedStep DEF CreationNext

LEMMA AccountsStep == AccountsInv /\ [AccountsNext]_accountsVars => AccountsInv'
<1> SUFFICES ASSUME AccountsInv, [AccountsNext]_accountsVars PROVE AccountsInv'
  OBVIOUS
<1>1. CASE BankNext
  <2>1. ConnectorRests
    BY <1>1 DEF BankNext, connectorVars, ConnectorRests, AccountsInv, AccountsTypes
  <2>2. QED
    BY <1>1, <2>1, WakeMoves, ExpireMoves, ForceMoves, BankMovedStep DEF BankNext
<1>2. CASE UNCHANGED accountsVars
  BY <1>2 DEF accountsVars, bankVars, connectorVars, AccountsInv, AccountsTypes, CreationsKnow,
     NotOpened,
     ReadingsCover, OneMirror, TracedRow, AcceptedIsFulfilled
<1>3. QED
  BY <1>1, <1>2, CreationStep, DeliverStep, UploadStep, ChangeStep DEF AccountsNext

\* Wherever a creation stops, an account of the bank has a row of the connector's, and
\* one row only is attached to it: the DRAFT row is written before the provider is
\* called, and the provider's id is unique (AccountsService.create).
THEOREM OpenedAccountsAreTraced == AccountsSpec => []BankAccountIsTraced
<1>1. AccountsInv => BankAccountIsTraced
  <2> SUFFICES ASSUME AccountsInv PROVE Cardinality(Mirror) <= 1
    BY DEF BankAccountIsTraced, AccountsInv, TracedRow
  <2>1. CASE Mirror = {}
    BY <2>1, FS_EmptySet
  <2>2. ASSUME NEW r \in Mirror PROVE Cardinality(Mirror) <= 1
    <3>1. Mirror = {r}
      BY <2>2 DEF Mirror, AccountsInv, OneMirror
    <3>2. Cardinality({r}) = 1
      BY FS_Singleton
    <3>3. QED
      BY <3>1, <3>2
  <2>3. QED
    BY <2>1, <2>2
<1>2. QED
  BY <1>1, AccountsInitially, AccountsStep, PTL DEF AccountsSpec

\* A requirement shown as accepted was fulfilled at the bank, in whatever order events
\* and readings of the case are applied: each of them lists all the bank waited for,
\* which only shrinks (applyOnboarding, syncRequirements).
THEOREM AcceptedWasFulfilled == AccountsSpec => []AcceptedIsFulfilled
<1>1. AccountsInv => AcceptedIsFulfilled
  BY DEF AccountsInv
<1>2. QED
  BY <1>1, AccountsInitially, AccountsStep, PTL DEF AccountsSpec
-----------------------------------------------------------------------------
(* Settlement of an outgoing Pix: a final status is backed by the ledger   *)
(* and is never replaced, and the ledger follows the provider until a      *)
(* statement scan is misled.                                               *)

WorkerStates == [job : {"idle", "webhook", "resolve", "exhaust"},
         at : {"done", "lookup", "ledger", "status", "operation"},
         status : Reports \cup {"none"}, time : Times]

\* The part of the typing that the arguments below need.
WorkersTyped ==
  /\ settleClock \in Times
  /\ worker \in [Workers -> WorkerStates]
  /\ \A e \in events : e.status \in Final /\ e.at \in Times
  /\ \A w \in Workers : worker[w].at \in {"ledger", "status"} => worker[w].status \in Reports
  /\ \A w \in Workers : worker[w].job = "webhook" => worker[w].status \in Final
  /\ \A w \in Workers :
       worker[w].at \in {"ledger", "status"} => worker[w].job \in {"webhook", "resolve"}

\* The key under which the hold was resolved tells which way.
KeyTellsPhase ==
  /\ hold \in {"PENDING", "POSTED", "VOIDED"}
  /\ hold = "POSTED" => resolvedBy[1] = "settle"
  /\ hold = "VOIDED" => resolvedBy[1] = "void"

\* A worker past its ledger write found, or put, the hold in the phase of the
\* status it is about to write.
SettleReady ==
  \A w \in Workers :
    worker[w].at = "status" /\ worker[w].status \in Final => hold = HoldOf(worker[w].status)

\* A final status that a handler wrote has the ledger behind it.
Backed == tx.status \in Final /\ tx.source # "answer" => hold = HoldOf(tx.status)

SettleInv == WorkersTyped /\ KeyTellsPhase /\ SettleReady /\ Backed

LEMMA SettleInitially == SettleInit => SettleInv
  BY ClockAssumption DEF SettleInit, SettleInv, WorkersTyped, KeyTellsPhase, SettleReady, Backed,
     WorkerStates, Idle, NoTx, Times, Reports, Final

LEMMA GotoWorkers ==
  ASSUME worker \in [Workers -> WorkerStates], NEW w \in Workers,
         NEW a \in {"done", "lookup", "ledger", "status", "operation"}
  PROVE  /\ Goto(w, a) \in [Workers -> WorkerStates]
         /\ \A v \in Workers \ {w} : Goto(w, a)[v] = worker[v]
         /\ Goto(w, a)[w].at = a
         /\ Goto(w, a)[w].status = worker[w].status
         /\ Goto(w, a)[w].job = worker[w].job
         /\ Goto(w, a)[w].time = worker[w].time
  BY DEF Goto, WorkerStates

LEMMA DoneWorkers ==
  ASSUME worker \in [Workers -> WorkerStates], NEW w \in Workers
  PROVE  /\ Done(w) \in [Workers -> WorkerStates]
         /\ \A v \in Workers \ {w} : Done(w)[v] = worker[v]
         /\ Done(w)[w] = Idle
  BY ClockAssumption DEF Done, WorkerStates, Idle, Times, Reports, Final

\* A worker that takes a new job, or gives one up, and writes nothing.
LEMMA StartsJob ==
  ASSUME SettleInv, NEW w \in Workers, NEW r \in WorkerStates,
         worker' = [worker EXCEPT ![w] = r],
         r.at # "status",
         r.at = "ledger" => r.status \in Reports /\ r.job \in {"webhook", "resolve"},
         r.job = "webhook" => r.status \in Final,
         \A e \in events' : e.status \in Final /\ e.at \in Times,
         UNCHANGED <<settleClock, hold, resolvedBy, tx>>
  PROVE  SettleInv'
<1>1. /\ worker' \in [Workers -> WorkerStates]
      /\ worker'[w] = r
      /\ \A v \in Workers \ {w} : worker'[v] = worker[v]
  BY DEF SettleInv, WorkersTyped
<1>2. WorkersTyped'
  BY <1>1 DEF SettleInv, WorkersTyped
<1>3. SettleReady'
  BY <1>1 DEF SettleInv, SettleReady, HoldOf
<1>4. KeyTellsPhase' /\ Backed'
  BY DEF SettleInv, KeyTellsPhase, Backed, HoldOf
<1> QED
  BY <1>2, <1>3, <1>4 DEF SettleInv

LEMMA SettleKeeps ==
  ASSUME SettleInv, [SettleNext]_settleVars
  PROVE  SettleInv'
<1> USE DEF HoldOf, Backed
<1>1. CASE SettleTick
  <2>1. WorkersTyped'
    BY <1>1, ClockAssumption DEF SettleTick, SettleInv, WorkersTyped, Times
  <2> QED
    BY <1>1, <2>1 DEF SettleTick, SettleInv, KeyTellsPhase, SettleReady, Backed
<1>2. ASSUME NEW s \in Outcomes, Conclude(s) PROVE SettleInv'
  <2>1. s \in Final
    BY OutcomesAssumption DEF Final
  <2>2. WorkersTyped'
    BY <1>2, <2>1 DEF Conclude, SettleInv, WorkersTyped
  <2> QED
    BY <1>2, <2>2 DEF Conclude, SettleInv, KeyTellsPhase, SettleReady, Backed
<1>3. ASSUME NEW s \in Answers, RecordSent(s) PROVE SettleInv'
  <2>1. tx'.source = "answer"
    BY <1>3 DEF RecordSent
  <2> QED
    BY <1>3, <2>1 DEF RecordSent, SettleInv, WorkersTyped, KeyTellsPhase, SettleReady, Backed
<1>4. CASE RecordUnknown
  <2>1. tx'.status \notin Final
    BY <1>4 DEF RecordUnknown, Final
  <2> QED
    BY <1>4, <2>1 DEF RecordUnknown, SettleInv, WorkersTyped, KeyTellsPhase, SettleReady, Backed
<1>5. ASSUME NEW w \in Workers, NEW e \in events, NEW kept \in BOOLEAN, Deliver(w, e, kept)
      PROVE  SettleInv'
  <2> DEFINE r == IF tx.ref
                  THEN [job |-> "webhook", at |-> "ledger", status |-> e.status, time |-> e.at]
                  ELSE Idle
  <2>1. r \in WorkerStates /\ r.at # "status" /\ (r.job = "webhook" => r.status \in Final)
        /\ (r.at = "ledger" => r.status \in Reports /\ r.job \in {"webhook", "resolve"})
    BY ClockAssumption DEF SettleInv, WorkersTyped, WorkerStates, Idle, Reports, Final, Times
  <2>2. /\ worker' = [worker EXCEPT ![w] = r]
        /\ events' \subseteq events
        /\ UNCHANGED <<settleClock, hold, resolvedBy, tx>>
    BY <1>5 DEF Deliver
  <2>3. \A x \in events' : x.status \in Final /\ x.at \in Times
    BY <2>2 DEF SettleInv, WorkersTyped
  <2> HIDE DEF r
  <2> QED
    BY <2>1, <2>2, <2>3, StartsJob
<1>6. ASSUME NEW w \in Workers, Resolve(w) PROVE SettleInv'
  <2> DEFINE r == [job |-> "resolve", at |-> "lookup", status |-> "none", time |-> 0]
  <2>1. r \in WorkerStates /\ r.at # "status" /\ r.at # "ledger" /\ r.job # "webhook"
    BY ClockAssumption DEF WorkerStates, Times
  <2>2. /\ worker' = [worker EXCEPT ![w] = r]
        /\ UNCHANGED <<settleClock, hold, resolvedBy, tx, events>>
    BY <1>6 DEF Resolve
  <2>3. \A x \in events' : x.status \in Final /\ x.at \in Times
    BY <2>2 DEF SettleInv, WorkersTyped
  <2> HIDE DEF r
  <2> QED
    BY <2>1, <2>2, <2>3, StartsJob
<1>7. ASSUME NEW w \in Workers, NEW s \in Reports,
             worker' = [worker EXCEPT ![w] =
               [job |-> "resolve", at |-> "ledger", status |-> s, time |-> settleClock]],
             UNCHANGED <<settleClock, events, hold, resolvedBy, tx>>
      PROVE  SettleInv'
  <2> DEFINE r == [job |-> "resolve", at |-> "ledger", status |-> s, time |-> settleClock]
  <2>1. r \in WorkerStates /\ r.at # "status" /\ r.status \in Reports /\ r.job = "resolve"
    BY <1>7 DEF SettleInv, WorkersTyped, WorkerStates
  <2>2. worker' = [worker EXCEPT ![w] = r]
    BY <1>7
  <2>3. \A x \in events' : x.status \in Final /\ x.at \in Times
    BY <1>7 DEF SettleInv, WorkersTyped
  <2> HIDE DEF r
  <2> QED
    BY <1>7, <2>1, <2>2, <2>3, StartsJob
<1>8. ASSUME NEW w \in Workers, NEW last \in BOOLEAN, NotFound(w, last) PROVE SettleInv'
  <2> DEFINE r == IF last
                  THEN [job |-> "exhaust", at |-> "operation", status |-> "none", time |-> 0]
                  ELSE Idle
  <2>1. r \in WorkerStates /\ r.at # "status" /\ r.at # "ledger" /\ r.job # "webhook"
    BY ClockAssumption DEF WorkerStates, Idle, Times
  <2>2. /\ worker' = [worker EXCEPT ![w] = r]
        /\ UNCHANGED <<settleClock, hold, resolvedBy, tx, events>>
    BY <1>8 DEF NotFound
  <2>3. \A x \in events' : x.status \in Final /\ x.at \in Times
    BY <2>2 DEF SettleInv, WorkersTyped
  <2> HIDE DEF r
  <2> QED
    BY <2>1, <2>2, <2>3, StartsJob
<1>9. ASSUME NEW w \in Workers, Ledger(w) PROVE SettleInv'
  <2>0. worker \in [Workers -> WorkerStates] /\ worker[w].at = "ledger" /\ worker[w].status \in Reports
    BY <1>9 DEF Ledger, SettleInv, WorkersTyped
  <2>1. /\ Goto(w, "status") \in [Workers -> WorkerStates]
        /\ \A v \in Workers \ {w} : Goto(w, "status")[v] = worker[v]
        /\ Goto(w, "status")[w].at = "status"
        /\ Goto(w, "status")[w].status = worker[w].status
        /\ Goto(w, "status")[w].job = worker[w].job
    BY <2>0, GotoWorkers
  <2>2. /\ Done(w) \in [Workers -> WorkerStates]
        /\ \A v \in Workers \ {w} : Done(w)[v] = worker[v]
        /\ Done(w)[w].at = "done" /\ Done(w)[w].job = "idle"
    BY <2>0, DoneWorkers DEF Idle
  <2>3. worker' = Goto(w, "status") \/ worker' = Done(w)
    BY <1>9 DEF Ledger
  <2>4. UNCHANGED <<settleClock, events, tx>>
    BY <1>9 DEF Ledger
  <2>5. WorkersTyped'
    BY <2>0, <2>1, <2>2, <2>3, <2>4 DEF SettleInv, WorkersTyped
  <2>6. CASE worker[w].status \notin Final
    <3>1. UNCHANGED <<hold, resolvedBy>>
      BY <1>9, <2>6 DEF Ledger
    <3> QED
      BY <2>1, <2>2, <2>3, <2>4, <2>5, <2>6, <3>1
      DEF SettleInv, KeyTellsPhase, SettleReady, Backed
  <2>7. CASE worker[w].status \in Final /\ hold = "PENDING"
    <3>1. /\ hold' = HoldOf(worker[w].status)
          /\ resolvedBy' = LedgerKey(w)
          /\ worker' = Goto(w, "status")
      BY <1>9, <2>7 DEF Ledger
    <3>2. KeyTellsPhase'
      BY <3>1 DEF LedgerKey, KeyTellsPhase
    <3>3. \A v \in Workers : ~(worker[v].at = "status" /\ worker[v].status \in Final)
      BY <2>7 DEF SettleInv, SettleReady
    <3>4. SettleReady'
      BY <2>1, <3>1, <3>3 DEF SettleReady
    <3>5. ~(tx.status \in Final /\ tx.source # "answer")
      BY <2>7 DEF SettleInv, Backed
    <3> QED
      BY <2>4, <2>5, <3>2, <3>4, <3>5 DEF SettleInv, Backed
  <2>8. CASE worker[w].status \in Final /\ hold # "PENDING"
    <3>1. UNCHANGED <<hold, resolvedBy>>
      BY <1>9, <2>8 DEF Ledger
    <3>2. worker' = Goto(w, "status") => hold = HoldOf(worker[w].status) \/ worker' = Done(w)
      <4>1. CASE resolvedBy = LedgerKey(w)
        BY <2>8, <4>1 DEF Replays, LedgerKey, SettleInv, KeyTellsPhase, Final
      <4>2. CASE resolvedBy # LedgerKey(w)
        BY <1>9, <2>8, <4>2 DEF Ledger, Replays
      <4> QED
        BY <4>1, <4>2
    <3>3. SettleReady'
      BY <2>1, <2>2, <2>3, <3>1, <3>2 DEF SettleInv, SettleReady
    <3> QED
      BY <2>4, <2>5, <3>1, <3>3 DEF SettleInv, KeyTellsPhase, Backed
  <2> QED
    BY <2>6, <2>7, <2>8
<1>10. ASSUME NEW w \in Workers, ApplyStatus(w) PROVE SettleInv'
  <2>0. worker \in [Workers -> WorkerStates] /\ worker[w].at = "status" /\ worker[w].status \in Reports
    BY <1>10 DEF ApplyStatus, SettleInv, WorkersTyped
  <2>1. /\ Goto(w, "operation") \in [Workers -> WorkerStates]
        /\ \A v \in Workers \ {w} : Goto(w, "operation")[v] = worker[v]
        /\ Goto(w, "operation")[w].at = "operation"
        /\ Goto(w, "operation")[w].status = worker[w].status
        /\ Goto(w, "operation")[w].job = worker[w].job
    BY <2>0, GotoWorkers
  <2>2. /\ Done(w) \in [Workers -> WorkerStates]
        /\ \A v \in Workers \ {w} : Done(w)[v] = worker[v]
        /\ Done(w)[w].at = "done" /\ Done(w)[w].job = "idle"
    BY <2>0, DoneWorkers DEF Idle
  <2>3. /\ worker' = Goto(w, "operation") \/ worker' = Done(w)
        /\ UNCHANGED <<settleClock, events, hold, resolvedBy>>
        /\ tx' = tx \/ tx'.status = worker[w].status
    BY <1>10 DEF ApplyStatus
  <2>4. WorkersTyped'
    BY <2>0, <2>1, <2>2, <2>3 DEF SettleInv, WorkersTyped
  <2>5. SettleReady' /\ KeyTellsPhase'
    BY <2>1, <2>2, <2>3 DEF SettleInv, SettleReady, KeyTellsPhase
  <2>6. Backed'
    BY <2>0, <2>3 DEF SettleInv, SettleReady, Backed
  <2> QED
    BY <2>4, <2>5, <2>6 DEF SettleInv
<1>11. ASSUME NEW w \in Workers, UpdateOperation(w) PROVE SettleInv'
  <2>1. Idle \in WorkerStates /\ Idle.at # "status" /\ Idle.at # "ledger" /\ Idle.job # "webhook"
    BY ClockAssumption DEF WorkerStates, Idle, Times
  <2>2. /\ worker' = [worker EXCEPT ![w] = Idle]
        /\ UNCHANGED <<settleClock, hold, resolvedBy, tx, events>>
    BY <1>11 DEF UpdateOperation, Done
  <2>3. \A x \in events' : x.status \in Final /\ x.at \in Times
    BY <2>2 DEF SettleInv, WorkersTyped
  <2> QED
    BY <2>1, <2>2, <2>3, StartsJob
<1>12. ASSUME NEW w \in Workers, Crash(w) PROVE SettleInv'
  <2>1. Idle \in WorkerStates /\ Idle.at # "status" /\ Idle.at # "ledger" /\ Idle.job # "webhook"
    BY ClockAssumption DEF WorkerStates, Idle, Times
  <2>2. /\ worker' = [worker EXCEPT ![w] = Idle]
        /\ UNCHANGED <<settleClock, hold, resolvedBy, tx>>
    BY <1>12 DEF Crash, Done
  <2>3. \A x \in events' : x.status \in Final /\ x.at \in Times
    <3>1. worker[w].job = "webhook" => worker[w].status \in Final /\ worker[w].time \in Times
      BY DEF SettleInv, WorkersTyped, WorkerStates
    <3> QED
      BY <1>12, <3>1 DEF Crash, SettleInv, WorkersTyped
  <2> QED
    BY <2>1, <2>2, <2>3, StartsJob
<1>13. CASE UNCHANGED settleVars
  BY <1>13 DEF settleVars, SettleInv, WorkersTyped, KeyTellsPhase, SettleReady, Backed
<1>14. ASSUME NEW w \in Workers, NEW s \in Reports, Found(w, s) PROVE SettleInv'
  <2>1. /\ worker' = [worker EXCEPT ![w] =
               [job |-> "resolve", at |-> "ledger", status |-> s, time |-> settleClock]]
        /\ UNCHANGED <<settleClock, events, hold, resolvedBy, tx>>
    BY <1>14 DEF Found
  <2> QED
    BY <1>7, <2>1
<1>15. ASSUME NEW w \in Workers, FoundOther(w) PROVE SettleInv'
  <2>1. /\ worker' = [worker EXCEPT ![w] =
               [job |-> "resolve", at |-> "ledger", status |-> "SETTLED", time |-> settleClock]]
        /\ UNCHANGED <<settleClock, events, hold, resolvedBy, tx>>
    BY <1>15 DEF FoundOther
  <2>2. "SETTLED" \in Reports
    BY DEF Reports, Final
  <2> QED
    BY <1>7, <2>1, <2>2
<1> QED
  BY <1>1, <1>2, <1>3, <1>4, <1>5, <1>6, <1>8, <1>9, <1>10, <1>11, <1>12, <1>13, <1>14, <1>15
  DEF SettleNext, Step

\* The guard of applyStatusChange refuses every report once the row is final:
\* no report outranks a final status.
LEMMA FinalRefuses ==
  ASSUME NEW s \in Reports, NEW time, tx.status \in Final
  PROVE  ~Accepts(s, time)
<1>1. TRANSACTION_STATUS_RANKS[s] \in {3, 4}
  BY DEF Reports, Final, TRANSACTION_STATUS_RANKS
<1>2. TRANSACTION_STATUS_RANKS[tx.status] = 4
  BY DEF Final, TRANSACTION_STATUS_RANKS
<1> QED
  BY <1>1, <1>2 DEF Accepts, decideMonotonic

(***************************************************************************)
(* A final status is never replaced, for every number of late, duplicated  *)
(* or reordered events and lookups, whatever send() answered.              *)
(***************************************************************************)
THEOREM FinalStaysFinal == SettleSpec => FinalStatusIsFinal
<1>1. ASSUME SettleInv, [SettleNext]_settleVars
      PROVE  [tx.status \in Final => tx'.status = tx.status]_settleVars
  <2> SUFFICES ASSUME tx.status \in Final, SettleNext PROVE tx'.status = tx.status
    BY <1>1 DEF settleVars
  <2>1. tx # NoTx
    BY DEF NoTx, Final
  <2>2. ASSUME NEW w \in Workers, ApplyStatus(w) PROVE tx'.status = tx.status
    <3>1. worker[w].status \in Reports
      BY <1>1, <2>2 DEF ApplyStatus, SettleInv, WorkersTyped
    <3>2. ~Accepts(worker[w].status, worker[w].time)
      BY <3>1, FinalRefuses
    <3> QED
      BY <2>2, <3>2 DEF ApplyStatus
  <2> QED
    BY <2>1, <2>2 DEF SettleNext, Step, SettleTick, Conclude, RecordSent, RecordUnknown, Deliver, Resolve,
       Found, FoundOther, NotFound, Ledger, UpdateOperation, Crash
<1> QED
  BY <1>1, SettleInitially, SettleKeeps, PTL DEF SettleSpec, FinalStatusIsFinal

\* What a worker or an event in flight says of a final outcome is what the
\* provider says, and stays so: the provider's own outcome never changes.
Truthful ==
  /\ \A e \in events : e.status = payment
  /\ \A w \in Workers : worker[w].status \in Final => worker[w].status = payment

\* What holds as long as no scan has taken another debit for this payment.
Exact == SettleInv /\ Truthful /\ HoldIsConfirmed

LEMMA InitExact == SettleInit => Exact
  BY SettleInitially DEF SettleInit, Exact, Truthful, HoldIsConfirmed, Idle, Final

\* A worker whose new record is truthful, while the provider and the ledger
\* stay as they are.
LEMMA TruthfulJob ==
  ASSUME Exact, NEW w \in Workers, NEW r,
         worker' = [worker EXCEPT ![w] = r],
         r.status \in Final => r.status = payment,
         \A e \in events' : e.status = payment,
         UNCHANGED <<payment, hold>>
  PROVE  Truthful' /\ HoldIsConfirmed'
<1>1. /\ worker'[w] = r
      /\ \A v \in Workers \ {w} : worker'[v] = worker[v]
  BY DEF Exact, SettleInv, WorkersTyped
<1> QED
  BY <1>1 DEF Exact, Truthful, HoldIsConfirmed

LEMMA NextExact ==
  ASSUME Exact, [SettleNext]_settleVars, ~misled'
  PROVE  Exact'
<1>0. SettleInv'
  BY SettleKeeps DEF Exact
<1> SUFFICES Truthful' /\ HoldIsConfirmed'
  BY <1>0 DEF Exact
<1>t. worker \in [Workers -> WorkerStates]
  BY DEF Exact, SettleInv, WorkersTyped
<1>i. Idle.status \notin Final
  BY DEF Idle, Final
<1>1. CASE SettleTick \/ RecordUnknown \/ \E s \in Answers : RecordSent(s)
  BY <1>1 DEF SettleTick, RecordUnknown, RecordSent, Exact, Truthful, HoldIsConfirmed
<1>2. ASSUME NEW s \in Outcomes, Conclude(s) PROVE Truthful' /\ HoldIsConfirmed'
  <2>1. payment = "PROCESSING" /\ payment \notin Final
    BY <1>2 DEF Conclude, Final
  <2>2. events = {} /\ \A w \in Workers : worker[w].status \notin Final
    BY <2>1 DEF Exact, SettleInv, WorkersTyped, Truthful
  <2>3. hold \notin {"POSTED", "VOIDED"}
    BY <2>1 DEF Exact, HoldIsConfirmed
  <2> QED
    BY <1>2, <2>2, <2>3 DEF Conclude, Truthful, HoldIsConfirmed
<1>3. ASSUME NEW w \in Workers, NEW e \in events, NEW kept \in BOOLEAN, Deliver(w, e, kept)
      PROVE  Truthful' /\ HoldIsConfirmed'
  <2> DEFINE r == IF tx.ref
                  THEN [job |-> "webhook", at |-> "ledger", status |-> e.status, time |-> e.at]
                  ELSE Idle
  <2>1. r.status \in Final => r.status = payment
    BY <1>i DEF Exact, Truthful
  <2>2. /\ worker' = [worker EXCEPT ![w] = r]
        /\ events' \subseteq events
        /\ UNCHANGED <<payment, hold>>
    BY <1>3 DEF Deliver
  <2>3. \A x \in events' : x.status = payment
    BY <2>2 DEF Exact, Truthful
  <2> HIDE DEF r
  <2> QED
    BY <2>1, <2>2, <2>3, TruthfulJob
<1>4. ASSUME NEW w \in Workers, NEW r,
             worker' = [worker EXCEPT ![w] = r],
             r.status \in Final => r.status = payment,
             UNCHANGED <<payment, events, hold>>
      PROVE  Truthful' /\ HoldIsConfirmed'
  <2>1. \A x \in events' : x.status = payment
    BY <1>4 DEF Exact, Truthful
  <2> QED
    BY <1>4, <2>1, TruthfulJob
<1>5. ASSUME NEW w \in Workers, Resolve(w) PROVE Truthful' /\ HoldIsConfirmed'
  <2> DEFINE r == [job |-> "resolve", at |-> "lookup", status |-> "none", time |-> 0]
  <2>1. r.status \notin Final
    BY DEF Final
  <2>2. worker' = [worker EXCEPT ![w] = r] /\ UNCHANGED <<payment, events, hold>>
    BY <1>5 DEF Resolve
  <2> HIDE DEF r
  <2> QED
    BY <1>4, <2>1, <2>2
<1>6. ASSUME NEW w \in Workers, NEW s \in Reports, Found(w, s)
      PROVE  Truthful' /\ HoldIsConfirmed'
  <2> DEFINE r == [job |-> "resolve", at |-> "ledger", status |-> s, time |-> settleClock]
  <2>1. r.status = payment
    BY <1>6 DEF Found
  <2>2. worker' = [worker EXCEPT ![w] = r] /\ UNCHANGED <<payment, events, hold>>
    BY <1>6 DEF Found
  <2> HIDE DEF r
  <2> QED
    BY <1>4, <2>1, <2>2
<1>7. ASSUME NEW w \in Workers, NEW last \in BOOLEAN, NotFound(w, last)
      PROVE  Truthful' /\ HoldIsConfirmed'
  <2> DEFINE r == IF last
                  THEN [job |-> "exhaust", at |-> "operation", status |-> "none", time |-> 0]
                  ELSE Idle
  <2>1. r.status \notin Final
    BY <1>i DEF Final
  <2>2. worker' = [worker EXCEPT ![w] = r] /\ UNCHANGED <<payment, events, hold>>
    BY <1>7 DEF NotFound
  <2> HIDE DEF r
  <2> QED
    BY <1>4, <2>1, <2>2
<1>8. ASSUME NEW w \in Workers, NEW a \in {"done", "lookup", "ledger", "status", "operation"},
             worker' = Goto(w, a) \/ worker' = Done(w), UNCHANGED <<payment, events>>
      PROVE  Truthful'
  <2>1. Goto(w, a)[w].status = worker[w].status
        /\ \A v \in Workers \ {w} : Goto(w, a)[v] = worker[v]
    BY <1>t, GotoWorkers
  <2>2. Done(w)[w] = Idle /\ \A v \in Workers \ {w} : Done(w)[v] = worker[v]
    BY <1>t, DoneWorkers
  <2> QED
    BY <1>8, <1>i, <2>1, <2>2 DEF Exact, Truthful
<1>9. ASSUME NEW w \in Workers, Ledger(w) PROVE Truthful' /\ HoldIsConfirmed'
  <2>1. /\ worker' = Goto(w, "status") \/ worker' = Done(w)
        /\ UNCHANGED <<payment, events>>
    BY <1>9 DEF Ledger
  <2>2. Truthful'
    BY <1>8, <2>1
  <2>3. \/ hold' = hold
        \/ worker[w].status \in Final /\ hold' = HoldOf(worker[w].status)
    BY <1>9 DEF Ledger, HoldOf
  <2>4. HoldIsConfirmed'
    BY <2>1, <2>3 DEF Exact, Truthful, HoldIsConfirmed, HoldOf, Final
  <2> QED
    BY <2>2, <2>4
<1>10. ASSUME NEW w \in Workers, ApplyStatus(w) PROVE Truthful' /\ HoldIsConfirmed'
  <2>1. /\ worker' = Goto(w, "operation") \/ worker' = Done(w)
        /\ UNCHANGED <<payment, events, hold>>
    BY <1>10 DEF ApplyStatus
  <2> QED
    BY <1>8, <2>1 DEF Exact, HoldIsConfirmed
<1>11. ASSUME NEW w \in Workers, UpdateOperation(w) PROVE Truthful' /\ HoldIsConfirmed'
  <2>1. worker' = Done(w) /\ UNCHANGED <<payment, events, hold>>
    BY <1>11 DEF UpdateOperation
  <2> QED
    BY <1>8, <2>1 DEF Exact, HoldIsConfirmed
<1>12. ASSUME NEW w \in Workers, Crash(w) PROVE Truthful' /\ HoldIsConfirmed'
  <2>1. worker' = [worker EXCEPT ![w] = Idle] /\ UNCHANGED <<payment, hold>>
    BY <1>12 DEF Crash, Done
  <2>2. \A x \in events' : x.status = payment
    <3>1. worker[w].job = "webhook" => worker[w].status = payment
      BY DEF Exact, SettleInv, WorkersTyped, Truthful
    <3> QED
      BY <1>12, <3>1 DEF Crash, Exact, Truthful
  <2> QED
    BY <1>i, <2>1, <2>2, TruthfulJob
<1>13. CASE UNCHANGED settleVars
  BY <1>13 DEF settleVars, Exact, Truthful, HoldIsConfirmed
<1>14. \A w \in Workers : ~FoundOther(w)
  BY DEF FoundOther
<1> QED
  BY <1>1, <1>2, <1>3, <1>5, <1>6, <1>7, <1>9, <1>10, <1>11, <1>12, <1>13, <1>14
  DEF SettleNext, Step

\* Only FoundOther touches misled, and it sets it.
LEMMA MisledStays ==
  ASSUME [SettleNext]_settleVars, misled
  PROVE  misled'
  BY DEF SettleNext, Step, settleVars, SettleTick, Conclude, RecordSent, RecordUnknown, Deliver, Resolve, Found,
     FoundOther, NotFound, Ledger, ApplyStatus, UpdateOperation, Crash

TracedInv == ~misled => Exact

LEMMA TracedKeeps ==
  ASSUME TracedInv, [SettleNext]_settleVars
  PROVE  TracedInv'
<1> SUFFICES ASSUME ~misled' PROVE Exact'
  BY DEF TracedInv
<1>1. ~misled
  BY MisledStays
<1>2. Exact
  BY <1>1 DEF TracedInv
<1> QED
  BY <1>2, NextExact

(***************************************************************************)
(* ADR 0015: the hold is committed only on a settlement and voided only on *)
(* a failure that the provider confirmed. It holds for every interleaving  *)
(* of webhook and reconciler until the statement scan of the reconciler    *)
(* takes another debit for this payment.                                   *)
(***************************************************************************)
THEOREM HoldFollowsProvider == SettleSpec => []LedgerFollowsProvider
<1>1. SettleInit => TracedInv
  BY InitExact DEF TracedInv
<1>2. TracedInv /\ [SettleNext]_settleVars => TracedInv'
  BY TracedKeeps
<1>3. TracedInv => LedgerFollowsProvider
  BY DEF TracedInv, Exact, LedgerFollowsProvider
<1> QED
  BY <1>1, <1>2, <1>3, PTL DEF SettleSpec

\* As long as no operation is stuck the ladder has nothing to take: no lookup is
\* made, and none has been misled.
Unasked ==
  operation = "none" =>
    /\ ~misled
    /\ \A w \in Workers :
         /\ worker[w].job \in {"idle", "webhook"}
         /\ worker[w].at \notin {"lookup", "operation"}

\* An answer to send() leaves no operation, and a final one is the provider's.
AsAnswered ==
  /\ tx.source \in {"none", "answer"} => operation = "none"
  /\ tx.source = "answer" /\ tx.status \in Final => tx.status = payment

AnsweredInv == Unasked /\ AsAnswered

LEMMA AnsweredInitially == SettleInit => AnsweredInv
  BY DEF SettleInit, AnsweredInv, Unasked, AsAnswered, Idle, NoTx

\* A worker that moves on while no operation is stuck, and leaves the answer alone.
LEMMA StaysUnasked ==
  ASSUME SettleInv, AnsweredInv, NEW w \in Workers,
         operation = "none" =>
           /\ worker'[w].job \in {"idle", "webhook"}
           /\ worker'[w].at \notin {"lookup", "operation"}
           /\ ~misled',
         \A v \in Workers \ {w} : worker'[v] = worker[v],
         UNCHANGED <<operation, payment>>,
         tx' = tx \/ tx'.source \in {"webhook", "resolve"}
  PROVE  AnsweredInv'
  BY DEF AnsweredInv, Unasked, AsAnswered

LEMMA AnsweredKeeps ==
  ASSUME SettleInv, AnsweredInv, [SettleNext]_settleVars
  PROVE  AnsweredInv'
<1>t. worker \in [Workers -> WorkerStates]
  BY DEF SettleInv, WorkersTyped
<1>1. CASE SettleTick \/ RecordUnknown \/ UNCHANGED settleVars
  BY <1>1 DEF SettleTick, RecordUnknown, settleVars, AnsweredInv, Unasked, AsAnswered
<1>2. ASSUME NEW s \in Outcomes, Conclude(s) PROVE AnsweredInv'
  BY <1>2 DEF Conclude, AnsweredInv, Unasked, AsAnswered, Final
<1>3. ASSUME NEW s \in Answers, RecordSent(s) PROVE AnsweredInv'
  BY <1>3 DEF RecordSent, AnsweredInv, Unasked, AsAnswered, NoTx
<1>4. ASSUME NEW w \in Workers, NEW e \in events, NEW kept \in BOOLEAN, Deliver(w, e, kept)
      PROVE  AnsweredInv'
  BY <1>4, <1>t, StaysUnasked DEF Deliver, Idle, AnsweredInv, Unasked
<1>5. ASSUME NEW w \in Workers, Resolve(w) PROVE AnsweredInv'
  BY <1>5, <1>t, StaysUnasked DEF Resolve
<1>6. ASSUME NEW w \in Workers, worker[w].at \in {"lookup", "operation"} PROVE operation # "none"
  BY <1>6 DEF AnsweredInv, Unasked
<1>7. ASSUME NEW w \in Workers, NEW s \in Reports, Found(w, s) PROVE AnsweredInv'
  BY <1>7, <1>6, <1>t, StaysUnasked DEF Found
<1>8. ASSUME NEW w \in Workers, FoundOther(w) PROVE AnsweredInv'
  BY <1>8, <1>6, <1>t, StaysUnasked DEF FoundOther
<1>9. ASSUME NEW w \in Workers, NEW last \in BOOLEAN, NotFound(w, last) PROVE AnsweredInv'
  BY <1>9, <1>6, <1>t, StaysUnasked DEF NotFound
<1>10. ASSUME NEW w \in Workers, Ledger(w) PROVE AnsweredInv'
  <2>1. worker' = Goto(w, "status") \/ worker' = Done(w)
    BY <1>10 DEF Ledger
  <2>2. /\ worker'[w].job \in {worker[w].job, "idle"} /\ worker'[w].at \in {"status", "done"}
        /\ \A v \in Workers \ {w} : worker'[v] = worker[v]
    BY <1>t, <2>1, GotoWorkers, DoneWorkers DEF Idle
  <2> QED
    BY <1>10, <2>2, StaysUnasked DEF Ledger, AnsweredInv, Unasked
<1>11. ASSUME NEW w \in Workers, ApplyStatus(w) PROVE AnsweredInv'
  <2>1. worker' = IF worker[w].job = "resolve" THEN Goto(w, "operation") ELSE Done(w)
    BY <1>11 DEF ApplyStatus
  <2>2. /\ worker[w].job # "resolve" => worker'[w] = Idle
        /\ \A v \in Workers \ {w} : worker'[v] = worker[v]
    BY <1>t, <2>1, GotoWorkers, DoneWorkers
  <2>3. operation = "none" => worker[w].job # "resolve" /\ ~misled
    BY DEF AnsweredInv, Unasked
  <2>4. /\ UNCHANGED <<operation, payment, misled>>
        /\ tx' = tx \/ tx'.source = worker[w].job
    BY <1>11 DEF ApplyStatus
  <2>5. worker[w].job \in {"webhook", "resolve"}
    BY <1>11 DEF ApplyStatus, SettleInv, WorkersTyped
  <2> QED
    BY <2>2, <2>3, <2>4, <2>5, StaysUnasked DEF Idle
<1>12. ASSUME NEW w \in Workers, UpdateOperation(w) PROVE AnsweredInv'
  <2>1. operation # "none" /\ operation' # "none" /\ UNCHANGED <<tx, payment>>
    BY <1>12, <1>6 DEF UpdateOperation
  <2> QED
    BY <2>1 DEF AnsweredInv, Unasked, AsAnswered
<1>13. ASSUME NEW w \in Workers, Crash(w) PROVE AnsweredInv'
  <2>1. worker'[w] = Idle /\ \A v \in Workers \ {w} : worker'[v] = worker[v]
    BY <1>13, <1>t, DoneWorkers DEF Crash
  <2> QED
    BY <1>13, <2>1, StaysUnasked DEF Crash, Idle, AnsweredInv, Unasked
<1> QED
  BY <1>1, <1>2, <1>3, <1>4, <1>5, <1>7, <1>8, <1>9, <1>10, <1>11, <1>12, <1>13
  DEF SettleNext, Step

(***************************************************************************)
(* A final status never stands against the ledger, for every interleaving  *)
(* of webhook and reconciler and whatever send() answered: what a handler  *)
(* wrote has the ledger behind it (applyTransaction and applyOutcome write *)
(* the ledger first), and what recordSent wrote from a final answer finds  *)
(* the hold pending or resolved the same way.                              *)
(***************************************************************************)
THEOREM FinalStatusBacked == SettleSpec => []StatusBackedByLedger
<1> DEFINE Inv == SettleInv /\ TracedInv /\ AnsweredInv
<1>1. SettleInit => Inv
  BY SettleInitially, InitExact, AnsweredInitially DEF TracedInv
<1>2. Inv /\ [SettleNext]_settleVars => Inv'
  BY SettleKeeps, TracedKeeps, AnsweredKeeps
<1>3. Inv => StatusBackedByLedger
  <2> SUFFICES ASSUME Inv, tx.status \in Final
               PROVE  \/ hold = HoldOf(tx.status)
                      \/ tx.source = "answer" /\ hold = "PENDING"
    BY DEF StatusBackedByLedger
  <2>1. CASE tx.source # "answer"
    BY <2>1 DEF SettleInv, Backed
  <2>2. CASE tx.source = "answer"
    <3>1. ~misled /\ tx.status = payment
      BY <2>2 DEF AnsweredInv, Unasked, AsAnswered
    <3>2. HoldIsConfirmed /\ hold \in {"PENDING", "POSTED", "VOIDED"}
      BY <3>1 DEF TracedInv, Exact, SettleInv, KeyTellsPhase
    <3> QED
      BY <2>2, <3>1, <3>2 DEF HoldIsConfirmed, HoldOf, Final
  <2> QED
    BY <2>1, <2>2
<1> QED
  BY <1>1, <1>2, <1>3, PTL DEF SettleSpec

-----------------------------------------------------------------------------
(* The events of an aggregate. *)

Ranks == Machine.ranks

\* The statuses that a provider reports rise: each of its moves says more than what it
\* said before, what says more may follow whatever our row says, and an answer the adapter
\* has no name for says less than all the provider will report. The provider's walk of a
\* payment is one; the machine of an account has moves that say less, from BLOCKED to
\* ACTIVE say.
Rising ==
    /\ Starts \cup Unnamed \cup Reported \subseteq DOMAIN Ranks
    /\ \A p \in Starts \cup Reported : \A s \in Machine.transitions[p] \cap Reported :
          s # p => Ranks[s] > Ranks[p]
    /\ \A q \in Starts \cup Unnamed \cup Reported, s \in Reported :
          Ranks[s] > Ranks[q] => s \in Machine.transitions[q]
    /\ \A q \in Unnamed, s \in Reported : Ranks[s] > Ranks[q]

\* The walk of a payment at the provider rises.
LEMMA PaymentsRise ==
    ASSUME Kind = "transaction", Starts = {"PENDING", "PROCESSING"},
           Unnamed = {"UNKNOWN"},
           Reported = {"PENDING", "PROCESSING", "SETTLED", "FAILED"}
    PROVE  Rising
  <1>1. Machine.ranks = TRANSACTION_STATUS_RANKS /\ Machine.transitions = TRANSACTION_STATUS_TRANSITIONS
    BY DEF Machine, Fsm
  <1>2. QED
    BY <1>1 DEF Rising, Ranks, TRANSACTION_STATUS_RANKS, TRANSACTION_STATUS_TRANSITIONS

\* Ranks are numbers.
LEMMA RanksAreNumbers == \A s \in DOMAIN Ranks : Ranks[s] \in Int
  <1>1. CASE Kind = "transaction"
    BY <1>1 DEF Ranks, Machine, Fsm, TRANSACTION_STATUS_RANKS
  <1>2. CASE Kind = "account"
    BY <1>2 DEF Ranks, Machine, Fsm, ACCOUNT_STATUS_RANKS
  <1>3. CASE Kind = "onboarding"
    BY <1>3 DEF Ranks, Machine, Fsm, ONBOARDING_STATUS_RANKS
  <1>4. QED
    BY <1>1, <1>2, <1>3, KindAssumption

\* The provider's side: what it reported rises, and it is where it last reported.
ReportsRise ==
    /\ reports \in Seq(Reported) /\ Len(reports) <= MaxMoves
    /\ \A i, j \in DOMAIN reports : i < j => Ranks[reports[i]] < Ranks[reports[j]]
    /\ provider \in Starts \cup Reported
    /\ \A i \in DOMAIN reports : Ranks[reports[i]] <= Ranks[provider]
    /\ reports # <<>> => provider = reports[Len(reports)]

\* Our side: nothing was applied yet, the row says less than whatever was reported and its
\* stamp is no later than the first event sent after it was written, or it says the report
\* that was applied last.
RowFollows ==
    /\ rowAt \in {Unwritten} \cup 0..Len(reports)
    /\ \/ /\ status \in Starts \cup Unnamed
          /\ reports = <<>> => status = provider \/ status \in Unnamed
          /\ \A i \in DOMAIN reports : Ranks[status] < Ranks[reports[i]]
          /\ lastEventAt \in Int
          /\ lastEventAt <= (IF rowAt = Unwritten THEN Len(reports) ELSE rowAt) + 1
       \/ rowAt # Unwritten /\ lastEventAt \in DOMAIN reports /\ status = reports[lastEventAt]

\* An event sent after the row was written, and one that says no more than the row.
Late(i) == rowAt # Unwritten /\ i > rowAt
Followed(i) == Ranks[reports[i]] <= Ranks[status]

\* A job: how far it is, and the attempts it read.
IsJob(x) == x = [at |-> x.at, seen |-> x.seen]

JobsAreRecords ==
    /\ DOMAIN stored = Ids /\ DOMAIN job = Ids \X Jobs
    /\ \A k \in Ids \X Jobs : IsJob(job[k])

\* What is stored, or has a job, was sent; what was concluded of the events sent after the
\* row was written says no more than the row, and neither does what a job has applied and
\* has not marked yet; only an event sent before was ignored.
ConcludedIsApplied ==
    /\ unacked \subseteq DOMAIN reports
    /\ JobsAreRecords
    /\ \A i \in Ids : stored[i] # "NONE" => i \in DOMAIN reports
    /\ \A i \in Ids : stored[i] \in {"PROCESSED", "DISCARDED"} /\ Late(i) => Followed(i)
    /\ \A k \in Ids \X Jobs : job[k].at # "none" => k[1] \in DOMAIN reports
    /\ \A k \in Ids \X Jobs : job[k].at = "applied" => rowAt # Unwritten /\ Followed(k[1])
    /\ \A k \in Ids \X Jobs : job[k].at = "ignored" => ~Late(k[1])

InboundInv == ReportsRise /\ RowFollows /\ ConcludedIsApplied

\* At the start nothing was reported.
LEMMA InboundInitially == Rising /\ InboundInit => InboundInv
  <1> SUFFICES ASSUME Rising, InboundInit PROVE InboundInv
    OBVIOUS
  <1>1. reports \in Seq(Reported) /\ DOMAIN reports = {} /\ reports = <<>>
    BY DEF InboundInit
  <1>2. ReportsRise
    BY <1>1, MovesAssumption DEF ReportsRise, InboundInit
  <1>3. RowFollows
    BY <1>1 DEF RowFollows, InboundInit, Unwritten, NoEvent
  <1>4. ConcludedIsApplied
    BY <1>1 DEF ConcludedIsApplied, JobsAreRecords, InboundInit, NoJob, IsJob, Late
  <1>5. QED
    BY <1>2, <1>3, <1>4 DEF InboundInv

\* The provider moves: it says more than before.
LEMMA ReportKeeps ==
    ASSUME Rising, InboundInv, NEW s \in Reported, Report(s) PROVE InboundInv'
  <1> DEFINE n == Len(reports)
  <1>1. /\ reports \in Seq(Reported) /\ n \in Nat /\ DOMAIN reports = 1..n
        /\ reports' = Append(reports, s) /\ provider' = s
        /\ s \in Machine.transitions[provider] /\ s # provider /\ n < MaxMoves
    BY DEF InboundInv, ReportsRise, Report
  <1>2. /\ reports' \in Seq(Reported) /\ Len(reports') = n + 1 /\ DOMAIN reports' = 1..(n + 1)
        /\ reports'[n + 1] = s /\ \A i \in 1..n : reports'[i] = reports[i]
    BY <1>1
  <1>3. /\ \A q \in Starts \cup Unnamed \cup Reported : Ranks[q] \in Int
        /\ provider \in Starts \cup Reported /\ Ranks[s] > Ranks[provider]
    BY <1>1, RanksAreNumbers DEF Rising, InboundInv, ReportsRise
  <1>4. \A i \in 1..n : reports[i] \in Reported /\ Ranks[reports[i]] < Ranks[s]
    BY <1>1, <1>3 DEF InboundInv, ReportsRise
  <1>5. ReportsRise'
    <2>1. ASSUME NEW i \in 1..(n + 1), NEW j \in 1..(n + 1), i < j
          PROVE  Ranks[reports'[i]] < Ranks[reports'[j]]
      BY <1>1, <1>2, <1>4, <2>1 DEF InboundInv, ReportsRise
    <2>2. \A i \in 1..(n + 1) : Ranks[reports'[i]] <= Ranks[s]
      BY <1>1, <1>2, <1>3, <1>4
    <2>3. QED
      BY <1>1, <1>2, <2>1, <2>2, MovesAssumption DEF ReportsRise
  <1>6. RowFollows'
    <2>1. UNCHANGED <<rowAt, status, lastEventAt>>
      BY DEF Report
    <2>2. rowAt' \in {Unwritten} \cup 0..(n + 1)
      BY <1>1, <2>1 DEF InboundInv, RowFollows
    <2>3. CASE ~(rowAt # Unwritten /\ lastEventAt \in DOMAIN reports /\ status = reports[lastEventAt])
      <3>1. /\ status \in Starts \cup Unnamed
            /\ reports = <<>> => status = provider \/ status \in Unnamed
            /\ \A i \in DOMAIN reports : Ranks[status] < Ranks[reports[i]]
            /\ lastEventAt \in Int
            /\ lastEventAt <= (IF rowAt = Unwritten THEN n ELSE rowAt) + 1
        BY <2>3 DEF InboundInv, RowFollows
      <3>2. Ranks[status] < Ranks[s]
        <4>1. CASE reports = <<>>
          BY <1>1, <1>3, <3>1, <4>1 DEF Rising
        <4>2. CASE reports # <<>>
          <5>1. n \in 1..n
            BY <1>1, <4>2
          <5>2. Ranks[reports[n]] \in Int /\ Ranks[status] \in Int /\ Ranks[s] \in Int
            BY <1>1, <1>3, <1>4, <3>1, <5>1
          <5>3. QED
            BY <1>1, <1>4, <3>1, <5>1, <5>2
        <4>3. QED
          BY <4>1, <4>2
      <3>3. /\ reports' # <<>>
            /\ \A i \in 1..(n + 1) : Ranks[status] < Ranks[reports'[i]]
        BY <1>1, <1>2, <3>1, <3>2
      <3>4. lastEventAt <= (IF rowAt = Unwritten THEN n + 1 ELSE rowAt) + 1
        BY <1>1, <3>1
      <3>5. QED
        BY <1>2, <2>1, <2>2, <3>1, <3>3, <3>4 DEF RowFollows
    <2>4. CASE rowAt # Unwritten /\ lastEventAt \in DOMAIN reports /\ status = reports[lastEventAt]
      BY <1>1, <1>2, <2>1, <2>2, <2>4 DEF RowFollows
    <2>5. QED
      BY <2>3, <2>4
  <1>7. ConcludedIsApplied'
    <2>1. UNCHANGED <<stored, job, rowAt, status>> /\ unacked' = unacked \cup {n + 1}
      BY <1>1 DEF Report
    <2>2. \A i \in DOMAIN reports : (Followed(i) => Followed(i)') /\ i \in DOMAIN reports'
      BY <1>1, <1>2, <2>1 DEF Followed
    <2>3. \A i \in Ids : Late(i)' = Late(i)
      BY <2>1 DEF Late
    <2>4. QED
      BY <1>1, <1>2, <2>1, <2>2, <2>3 DEF InboundInv, ConcludedIsApplied, JobsAreRecords
  <1>8. QED
    BY <1>5, <1>6, <1>7 DEF InboundInv

\* The row is drafted, and written.
LEMMA BirthKeeps ==
    ASSUME InboundInv, CreateRow \/ \E stamp \in 0..(MaxMoves + 1) : DraftRow(stamp) PROVE InboundInv'
  <1>1. /\ Len(reports) \in Nat /\ rowAt = Unwritten
        /\ UNCHANGED <<provider, reports, unacked, stored, job, status>>
    BY DEF InboundInv, ReportsRise, CreateRow, DraftRow
  <1>2. ReportsRise'
    BY <1>1 DEF InboundInv, ReportsRise
  <1>3. /\ status \in Starts \cup Unnamed
        /\ reports = <<>> => status = provider \/ status \in Unnamed
        /\ \A i \in DOMAIN reports : Ranks[status] < Ranks[reports[i]]
        /\ lastEventAt \in Int /\ lastEventAt <= Len(reports) + 1
    BY <1>1 DEF InboundInv, RowFollows
  <1>4. /\ lastEventAt' \in Int /\ lastEventAt' <= Len(reports) + 1
        /\ rowAt' = Unwritten \/ rowAt' = Len(reports)
    BY <1>1, <1>3 DEF CreateRow, DraftRow
  <1>5. RowFollows'
    BY <1>1, <1>3, <1>4 DEF RowFollows
  <1>6. \A i \in DOMAIN reports : ~Late(i)'
    <2>1. \A i \in DOMAIN reports : i <= Len(reports)
      BY DEF InboundInv, ReportsRise
    <2>2. QED
      BY <1>1, <1>4, <2>1 DEF Late
  <1>7. ConcludedIsApplied'
    BY <1>1, <1>6 DEF InboundInv, ConcludedIsApplied, JobsAreRecords
  <1>8. QED
    BY <1>2, <1>5, <1>7 DEF InboundInv

\* A report is applied when it says more than the row, and one sent after the row was
\* written is stale only when it says no more.
LEMMA DecisionIsByAge ==
    ASSUME Rising, InboundInv, rowAt # Unwritten, NEW i \in DOMAIN reports
    PROVE  /\ Decision(i) \in {"applied", "stale"}
           /\ Decision(i) = "applied" => Ranks[reports[i]] > Ranks[status]
           /\ Decision(i) = "stale" /\ Late(i) => Followed(i)
  <1>1. /\ reports \in Seq(Reported) /\ i \in Nat /\ reports[i] \in Reported
        /\ lastEventAt \in Int /\ status \in Starts \cup Unnamed \cup Reported /\ rowAt \in Nat
    BY DEF InboundInv, ReportsRise, RowFollows
  <1>2. Ranks[reports[i]] \in Int /\ Ranks[status] \in Int
    BY <1>1, RanksAreNumbers DEF Rising
  <1>3. Ranks[reports[i]] > Ranks[status] => reports[i] \in Machine.transitions[status]
    BY <1>1 DEF Rising
  <1>4. Late(i) /\ i < lastEventAt => Followed(i)
    <2>1. \/ lastEventAt <= rowAt + 1
          \/ lastEventAt \in DOMAIN reports /\ status = reports[lastEventAt]
      BY DEF InboundInv, RowFollows
    <2>2. CASE lastEventAt <= rowAt + 1
      BY <1>1, <2>2 DEF Late
    <2>3. CASE lastEventAt \in DOMAIN reports /\ status = reports[lastEventAt]
      BY <1>2, <2>3 DEF InboundInv, ReportsRise, Followed
    <2>4. QED
      BY <2>1, <2>2, <2>3
  <1>5. decideMonotonic(Machine.ranks, status, reports[i], i, lastEventAt)
            => Ranks[reports[i]] > Ranks[status]
    BY DEF decideMonotonic, Ranks
  <1>6. ~decideMonotonic(Machine.ranks, status, reports[i], i, lastEventAt) /\ Late(i) => Followed(i)
    BY <1>1, <1>2, <1>4 DEF decideMonotonic, Ranks, Followed
  <1>7. QED
    BY <1>3, <1>5, <1>6 DEF Decision, checkTransition

\* A step that reports and applies nothing, and of one job at most.
LEMMA JobsKeep ==
    ASSUME InboundInv, UNCHANGED <<provider, reports, rowAt, status, lastEventAt>>,
           unacked' \subseteq unacked, DOMAIN stored' = Ids, DOMAIN job' = Ids \X Jobs,
           \A k \in Ids \X Jobs : IsJob(job'[k]),
           \A i \in Ids : stored'[i] # stored[i] =>
              /\ i \in DOMAIN reports
              /\ (stored'[i] \in {"PROCESSED", "DISCARDED"} /\ Late(i)) => Followed(i),
           \A k \in Ids \X Jobs : job'[k].at # job[k].at =>
              /\ job'[k].at # "none" => k[1] \in DOMAIN reports
              /\ job'[k].at # "applied" /\ (job'[k].at = "ignored" => ~Late(k[1]))
    PROVE  InboundInv'
  <1>1. ReportsRise' /\ RowFollows'
    BY DEF InboundInv, ReportsRise, RowFollows
  <1>2. ConcludedIsApplied'
    <2>1. unacked' \subseteq DOMAIN reports'
      BY DEF InboundInv, ConcludedIsApplied
    <2>2. \A i \in Ids : stored'[i] # "NONE" => i \in DOMAIN reports'
      BY DEF InboundInv, ConcludedIsApplied
    <2>0. \A i \in Ids : Late(i)' = Late(i) /\ Followed(i)' = Followed(i)
      BY DEF Late, Followed
    <2>3. \A i \in Ids : stored'[i] \in {"PROCESSED", "DISCARDED"} /\ Late(i)' => Followed(i)'
      BY <2>0 DEF InboundInv, ConcludedIsApplied
    <2>4. \A k \in Ids \X Jobs : job'[k].at # "none" => k[1] \in DOMAIN reports'
      BY DEF InboundInv, ConcludedIsApplied
    <2>5. ASSUME NEW k \in Ids \X Jobs
          PROVE  /\ job'[k].at = "applied" => rowAt' # Unwritten /\ Followed(k[1])'
                 /\ job'[k].at = "ignored" => ~Late(k[1])'
      BY <2>0 DEF InboundInv, ConcludedIsApplied
    <2>6. QED
      BY <2>1, <2>2, <2>3, <2>4, <2>5 DEF ConcludedIsApplied, JobsAreRecords
  <1>3. QED
    BY <1>1, <1>2 DEF InboundInv

\* One job moves, and keeps to the stages that a job of a report may be in.
JobMoves(k, phase) ==
    /\ DOMAIN job' = Ids \X Jobs
    /\ \A l \in Ids \X Jobs : IsJob(job'[l]) /\ (l # k => job'[l] = job[l])
    /\ job'[k].at = phase

LEMMA JobWrites ==
    ASSUME JobsAreRecords, NEW k \in Ids \X Jobs, NEW phase, NEW count
    PROVE  /\ Move(k, phase) => JobMoves(k, phase)
           /\ End(k) => JobMoves(k, "none")
           /\ job' = [job EXCEPT ![k] = [at |-> phase, seen |-> count]] => JobMoves(k, phase)
  <1>1. DOMAIN job = Ids \X Jobs /\ \A l \in Ids \X Jobs : job[l] = [at |-> job[l].at, seen |-> job[l].seen]
    BY DEF JobsAreRecords, IsJob
  <1>2. Move(k, phase) => JobMoves(k, phase)
    BY <1>1 DEF Move, JobMoves, IsJob
  <1>3. End(k) => JobMoves(k, "none")
    BY <1>1 DEF End, NoJob, JobMoves, IsJob
  <1>4. job' = [job EXCEPT ![k] = [at |-> phase, seen |-> count]] => JobMoves(k, phase)
    BY <1>1 DEF JobMoves, IsJob
  <1>5. QED
    BY <1>2, <1>3, <1>4

\* One row is written, or none.
RowWritten(i, value) ==
    /\ DOMAIN stored' = Ids
    /\ \A j \in Ids : j # i => stored'[j] = stored[j]
    /\ stored'[i] \in {stored[i], value}

\* A step of one job that reports and applies nothing.
LEMMA JobKeeps ==
    ASSUME InboundInv, UNCHANGED <<provider, reports, unacked, rowAt, status, lastEventAt>>,
           NEW k \in Ids \X Jobs, NEW phase, JobMoves(k, phase), phase # "applied",
           phase = "ignored" => ~Late(k[1]),
           phase # "none" => job[k].at # "none", NEW value, RowWritten(k[1], value),
           job[k].at # "none",
           value \in {"PROCESSED", "DISCARDED"} /\ Late(k[1]) => Followed(k[1])
    PROVE  InboundInv'
  <1>1. k[1] \in DOMAIN reports /\ k[1] \in Ids
    BY DEF InboundInv, ConcludedIsApplied
  <1>2. \A i \in Ids : stored'[i] # stored[i] =>
           /\ i \in DOMAIN reports
           /\ (stored'[i] \in {"PROCESSED", "DISCARDED"} /\ Late(i)) => Followed(i)
    BY <1>1 DEF RowWritten
  <1>3. \A l \in Ids \X Jobs : job'[l].at # job[l].at =>
           /\ job'[l].at # "none" => l[1] \in DOMAIN reports
           /\ job'[l].at # "applied" /\ (job'[l].at = "ignored" => ~Late(l[1]))
    BY <1>1 DEF JobMoves
  <1>4. QED
    BY <1>2, <1>3, JobsKeep DEF JobMoves, RowWritten

\* A job for a report that was stored.
LEMMA QueueKeeps ==
    ASSUME InboundInv, NEW i \in Ids, i \in DOMAIN reports, job' \in Queued(i),
           UNCHANGED <<provider, reports, rowAt, status, lastEventAt>>, unacked' \subseteq unacked,
           RowWritten(i, "RECEIVED")
    PROVE  InboundInv'
  <1>1. PICK j \in Jobs : job' = [job EXCEPT ![<<i, j>>].at = "queued"]
    BY DEF Queued, FreeJobs
  <1> DEFINE k == <<i, j>>
  <1>2. k \in Ids \X Jobs /\ k[1] = i /\ Move(k, "queued")
    BY <1>1 DEF Move
  <1> HIDE DEF k
  <1>3. JobMoves(k, "queued")
    BY <1>2, JobWrites DEF InboundInv, ConcludedIsApplied
  <1>4. \A n \in Ids : stored'[n] # stored[n] =>
           n \in DOMAIN reports /\ stored'[n] \notin {"PROCESSED", "DISCARDED"}
    BY DEF RowWritten
  <1>5. \A l \in Ids \X Jobs : job'[l].at # job[l].at =>
           /\ job'[l].at # "none" => l[1] \in DOMAIN reports
           /\ job'[l].at # "applied" /\ (job'[l].at = "ignored" => ~Late(l[1]))
    BY <1>2, <1>3 DEF JobMoves
  <1>6. QED
    BY <1>3, <1>4, <1>5, JobsKeep DEF JobMoves, RowWritten

\* The status changes under the lock, or the report is stale.
LEMMA ApplyKeeps ==
    ASSUME Rising, InboundInv, NEW k \in Ids \X Jobs, ApplyDraft(k) PROVE InboundInv'
  <1> DEFINE i == k[1]
  <1>0. JobsAreRecords
    BY DEF InboundInv, ConcludedIsApplied
  <1>1. i \in DOMAIN reports /\ i \in Ids /\ job[k].at = "locked"
    BY DEF ApplyDraft, InboundInv, ConcludedIsApplied
  <1>2. rowAt # Unwritten =>
           /\ Decision(i) \in {"applied", "stale"}
           /\ Decision(i) = "applied" => Ranks[reports[i]] > Ranks[status]
           /\ Decision(i) = "stale" /\ Late(i) => Followed(i)
    BY <1>1, DecisionIsByAge
  <1>3. UNCHANGED <<provider, reports, unacked, rowAt>>
    BY DEF ApplyDraft
  <1>4. DOMAIN stored = Ids
    BY <1>0 DEF JobsAreRecords
  <1>5. CASE rowAt # Unwritten /\ Decision(i) = "stale"
    <2>1. /\ stored' = [stored EXCEPT ![i] = "DISCARDED"] /\ End(k)
          /\ UNCHANGED <<status, lastEventAt>>
      BY <1>5 DEF ApplyDraft
    <2>2. RowWritten(i, "DISCARDED")
      BY <1>1, <1>4, <2>1 DEF RowWritten
    <2>3. QED
      BY <1>0, <1>1, <1>2, <1>3, <1>5, <2>1, <2>2, JobWrites, JobKeeps
  <1>6. CASE rowAt # Unwritten /\ Decision(i) = "applied"
    <2>1. status' = reports[i] /\ lastEventAt' = i /\ Move(k, "applied") /\ stored' = stored
      BY <1>6 DEF ApplyDraft
    <2>2. JobMoves(k, "applied")
      BY <1>0, <2>1, JobWrites
    <2>3. ReportsRise' /\ RowFollows'
      BY <1>1, <1>3, <1>6, <2>1 DEF InboundInv, ReportsRise, RowFollows
    <2>4. Followed(i)' /\ \A n \in DOMAIN reports : Followed(n) => Followed(n)'
      <3>1. /\ \A n \in DOMAIN reports : reports[n] \in Reported
            /\ status \in Starts \cup Unnamed \cup Reported
        BY DEF InboundInv, ReportsRise, RowFollows
      <3>2. \A q \in Starts \cup Unnamed \cup Reported : Ranks[q] \in Int
        BY RanksAreNumbers DEF Rising
      <3>3. QED
        BY <1>1, <1>2, <1>3, <1>6, <2>1, <3>1, <3>2 DEF Followed
    <2>5. \A n \in Ids : Late(n)' = Late(n)
      BY <1>3 DEF Late
    <2>6. \A n \in Ids : stored'[n] \in {"PROCESSED", "DISCARDED"} /\ Late(n)' => Followed(n)'
      BY <2>1, <2>4, <2>5 DEF InboundInv, ConcludedIsApplied
    <2>7. ASSUME NEW l \in Ids \X Jobs
          PROVE  /\ job'[l].at # "none" => l[1] \in DOMAIN reports
                 /\ job'[l].at = "applied" => rowAt' # Unwritten /\ Followed(l[1])'
                 /\ job'[l].at = "ignored" => ~Late(l[1])'
      <3>1. CASE l = k
        BY <1>1, <1>3, <1>6, <2>2, <2>4, <3>1 DEF JobMoves
      <3>2. CASE l # k
        <4>1. job'[l] = job[l] /\ l[1] \in Ids
          BY <2>2, <3>2 DEF JobMoves
        <4>2. QED
          BY <1>3, <1>6, <2>4, <2>5, <4>1 DEF InboundInv, ConcludedIsApplied
      <3>3. QED
        BY <3>1, <3>2
    <2>8. ConcludedIsApplied'
      BY <1>3, <2>1, <2>2, <2>6, <2>7 DEF JobMoves, InboundInv, ConcludedIsApplied, JobsAreRecords
    <2>9. QED
      BY <2>3, <2>8 DEF InboundInv
  <1>7. CASE rowAt = Unwritten
    <2>1. Move(k, "ignored") /\ UNCHANGED <<stored, status, lastEventAt>>
      BY <1>7 DEF ApplyDraft
    <2>2. RowWritten(i, "NONE") /\ ~Late(i)
      BY <1>4, <1>7, <2>1 DEF RowWritten, Late
    <2>3. JobMoves(k, "ignored")
      BY <1>0, <2>1, JobWrites
    <2>4. QED
      BY <1>1, <1>3, <2>1, <2>2, <2>3, JobKeeps
  <1>8. QED
    BY <1>2, <1>5, <1>6, <1>7

LEMMA InboundStep == Rising /\ InboundInv /\ [InboundNext]_inboundVars => InboundInv'
  <1> SUFFICES ASSUME Rising, InboundInv, [InboundNext]_inboundVars PROVE InboundInv'
    OBVIOUS
  <1>0. JobsAreRecords
    BY DEF InboundInv, ConcludedIsApplied
  <1>1. DOMAIN stored = Ids /\ DOMAIN job = Ids \X Jobs /\ \A k \in Ids \X Jobs : IsJob(job[k])
    BY <1>0 DEF JobsAreRecords
  <1>2. ASSUME NEW i \in Ids PROVE stored' = stored => \A value : RowWritten(i, value)
    BY <1>1 DEF RowWritten
  <1>3. ASSUME NEW i \in Ids, NEW value, stored' = [stored EXCEPT ![i] = value] PROVE RowWritten(i, value)
    BY <1>1, <1>3 DEF RowWritten
  <1>4. ASSUME NEW s \in Reported, Report(s) PROVE InboundInv'
    BY <1>4, ReportKeeps
  <1>5. ASSUME NEW i \in Ids, NEW enqueued \in BOOLEAN, Receive(i, enqueued) PROVE InboundInv'
    <2>1. /\ i \in DOMAIN reports /\ stored' = [stored EXCEPT ![i] = "RECEIVED"]
          /\ UNCHANGED <<provider, reports, rowAt, status, lastEventAt>>
      BY <1>5 DEF Receive, InboundInv, ConcludedIsApplied
    <2>2. RowWritten(i, "RECEIVED")
      BY <1>3, <2>1
    <2>3. CASE job' \in Queued(i) /\ unacked' = unacked \ {i}
      BY <2>1, <2>2, <2>3, QueueKeeps
    <2>4. CASE job' = job /\ unacked' = unacked
      <3>1. \A n \in Ids : stored'[n] # stored[n] =>
               n \in DOMAIN reports /\ stored'[n] \notin {"PROCESSED", "DISCARDED"}
        BY <2>1, <2>2 DEF RowWritten
      <3>2. QED
        BY <1>1, <2>1, <2>2, <2>4, <3>1, JobsKeep DEF RowWritten
    <2>5. QED
      BY <1>5, <2>3, <2>4 DEF Receive
  <1>6. ASSUME NEW i \in Ids, Sweep(i) PROVE InboundInv'
    <2>1. /\ i \in DOMAIN reports /\ stored' = stored /\ job' \in Queued(i)
          /\ UNCHANGED <<provider, reports, unacked, rowAt, status, lastEventAt>>
      BY <1>6 DEF Sweep, IsStale, InboundInv, ConcludedIsApplied
    <2>2. QED
      BY <1>2, <2>1, QueueKeeps
  <1>7. ASSUME \/ \E i \in Ids : ReceiveDuplicate(i)
               \/ ExpireLock
               \/ UNCHANGED inboundVars
        PROVE  InboundInv'
    <2>1. /\ unacked' \subseteq unacked
          /\ UNCHANGED <<provider, reports, stored, job, rowAt, status, lastEventAt>>
      BY <1>7 DEF ReceiveDuplicate, ExpireLock, inboundVars
    <2>2. QED
      BY <1>1, <2>1, JobsKeep
  <1>8. ASSUME NEW k \in Ids \X Jobs, ApplyDraft(k) PROVE InboundInv'
    BY <1>8, ApplyKeeps
  <1>9. ASSUME NEW k \in Ids \X Jobs,
               \/ Read(k) \/ MarkProcessing(k) \/ TakeLock(k) \/ Requeue(k) \/ MarkProcessed(k)
               \/ MarkDiscarded(k) \/ MarkFailed(k) \/ Throw(k) \/ JobDies(k)
        PROVE  InboundInv'
    <2>0. UNCHANGED <<provider, reports, unacked, rowAt, status, lastEventAt>> /\ job[k].at # "none"
      BY <1>9 DEF Read, MarkProcessing, TakeLock, Requeue, MarkProcessed, MarkDiscarded, MarkFailed,
         Throw, JobDies
    <2>1. ASSUME NEW phase, JobMoves(k, phase), phase \notin {"applied", "ignored"},
                 NEW value, RowWritten(k[1], value),
                 value \in {"PROCESSED", "DISCARDED"} /\ Late(k[1]) => Followed(k[1])
          PROVE  InboundInv'
      BY <2>0, <2>1, JobKeeps
    <2>2. k[1] \in Ids
      OBVIOUS
    <2>3. CASE Read(k)
      <3>1. JobMoves(k, "read") /\ stored' = stored
        BY <1>0, <2>3, JobWrites DEF Read
      <3>2. QED
        BY <1>2, <2>1, <2>2, <3>1
    <2>4. CASE MarkProcessing(k)
      <3>1. \E phase \in {"claimed", "none"} : JobMoves(k, phase)
        BY <1>0, <2>4, JobWrites DEF MarkProcessing
      <3>2. RowWritten(k[1], "PROCESSING")
        BY <1>2, <1>3, <2>2, <2>4 DEF MarkProcessing
      <3>3. QED
        BY <2>1, <3>1, <3>2
    <2>5. CASE TakeLock(k)
      <3>1. stored' = stored /\ \E phase \in {"locked", "lockLost"} : JobMoves(k, phase)
        BY <1>0, <2>5, JobWrites DEF TakeLock
      <3>2. QED
        BY <1>2, <2>1, <2>2, <3>1
    <2>6. CASE Requeue(k)
      <3>1. JobMoves(k, "queued") /\ stored' = stored
        BY <1>0, <2>6, JobWrites DEF Requeue
      <3>2. QED
        BY <1>2, <2>1, <2>2, <3>1
    <2>7. CASE MarkProcessed(k)
      <3>1. JobMoves(k, "none") /\ RowWritten(k[1], "PROCESSED")
        BY <1>0, <1>3, <2>2, <2>7, JobWrites DEF MarkProcessed
      <3>2. Followed(k[1])
        BY <2>7 DEF MarkProcessed, InboundInv, ConcludedIsApplied
      <3>3. QED
        BY <2>1, <3>1, <3>2
    <2>8. CASE MarkFailed(k)
      <3>1. JobMoves(k, "none") /\ \E value \in {"DEAD_LETTER", "FAILED"} : RowWritten(k[1], value)
        BY <1>0, <1>3, <2>2, <2>8, JobWrites DEF MarkFailed
      <3>2. QED
        BY <2>1, <3>1
    <2>9. CASE Throw(k) \/ JobDies(k)
      <3>1. stored' = stored /\ \E phase \in {"failed", "none"} : JobMoves(k, phase)
        BY <1>0, <2>9, JobWrites DEF Throw, JobDies
      <3>2. QED
        BY <1>2, <2>1, <2>2, <3>1
    <2>10. CASE MarkDiscarded(k)
      <3>1. JobMoves(k, "none") /\ RowWritten(k[1], "DISCARDED")
        BY <1>0, <1>3, <2>2, <2>10, JobWrites DEF MarkDiscarded
      <3>2. ~Late(k[1])
        BY <2>10 DEF MarkDiscarded, InboundInv, ConcludedIsApplied
      <3>3. QED
        BY <2>1, <3>1, <3>2
    <2>11. QED
      BY <1>9, <2>3, <2>4, <2>5, <2>6, <2>7, <2>8, <2>9, <2>10
  <1>10. CASE CreateRow \/ \E stamp \in 0..(MaxMoves + 1) : DraftRow(stamp)
    BY <1>10, BirthKeeps
  <1>11. QED
    BY <1>4, <1>5, <1>6, <1>7, <1>8, <1>9, <1>10 DEF InboundNext, JobStep

\* Once the newest event is concluded, our row says what the provider says, when it was
\* sent after the row was written: in whatever order events came, however often, with any
\* number of jobs, deaths and failures (decideMonotonic, applyStatusChange, markProcessed,
\* markDiscarded), for a provider whose reports rise.
THEOREM EventsConverge == ASSUME Rising PROVE InboundSpec => []Converges
  <1>1. InboundInit => InboundInv
    BY InboundInitially
  <1>2. InboundInv /\ [InboundNext]_inboundVars => InboundInv'
    BY InboundStep
  <1>3. InboundInv => Converges
    <2> DEFINE n == Len(reports)
    <2> SUFFICES ASSUME InboundInv, rowAt # Unwritten, n > rowAt, stored[n] \in {"PROCESSED", "DISCARDED"}
                 PROVE  status = provider
      BY DEF Converges
    <2>1. /\ n \in Nat /\ DOMAIN reports = 1..n /\ rowAt \in Nat /\ n <= MaxMoves
      BY DEF InboundInv, ReportsRise, RowFollows
    <2>2. n \in 1..n /\ n \in Ids /\ provider = reports[n]
      BY <2>1, MovesAssumption DEF InboundInv, ReportsRise, Ids
    <2>3. Ranks[reports[n]] <= Ranks[status]
      BY <2>2 DEF InboundInv, ConcludedIsApplied, Late, Followed
    <2>4. Ranks[reports[n]] \in Int /\ Ranks[status] \in Int
      BY <2>1, <2>2, RanksAreNumbers DEF Rising, InboundInv, ReportsRise, RowFollows
    <2>5. lastEventAt \in 1..n /\ status = reports[lastEventAt]
      BY <2>1, <2>2, <2>3, <2>4 DEF InboundInv, RowFollows
    <2>6. lastEventAt < n => Ranks[status] < Ranks[reports[n]]
      BY <2>1, <2>2, <2>5 DEF InboundInv, ReportsRise
    <2>7. QED
      BY <2>1, <2>2, <2>3, <2>4, <2>5, <2>6
  <1>4. QED
    BY <1>1, <1>2, <1>3, PTL DEF InboundSpec

\* A provider whose reports rise is never reported as contradicting its machine: no order
\* of arrival and no repetition raises an anomaly (checkTransition).
THEOREM AnomaliesAreReal == ASSUME Rising PROVE InboundSpec => []NoFalseAnomaly
  <1>1. InboundInit => InboundInv /\ NoFalseAnomaly
    BY InboundInitially DEF InboundInit, NoFalseAnomaly
  <1>2. InboundInv /\ NoFalseAnomaly /\ [InboundNext]_inboundVars => InboundInv' /\ NoFalseAnomaly'
    <2> SUFFICES ASSUME InboundInv, NoFalseAnomaly, [InboundNext]_inboundVars
                 PROVE  anomalies' = anomalies
      BY InboundStep DEF NoFalseAnomaly
    <2>1. ASSUME NEW k \in Ids \X Jobs, ApplyDraft(k) PROVE anomalies' = anomalies
      <3>1. k[1] \in DOMAIN reports
        BY <2>1 DEF ApplyDraft, InboundInv, ConcludedIsApplied
      <3>2. rowAt = Unwritten \/ Decision(k[1]) \in {"applied", "stale"}
        BY <3>1, DecisionIsByAge
      <3>3. QED
        BY <2>1, <3>2 DEF ApplyDraft
    <2>2. ASSUME NEW k \in Ids \X Jobs,
                 \/ Read(k) \/ MarkProcessing(k) \/ TakeLock(k) \/ Requeue(k) \/ MarkProcessed(k)
                 \/ MarkDiscarded(k) \/ MarkFailed(k) \/ Throw(k) \/ JobDies(k)
          PROVE  anomalies' = anomalies
      BY <2>2 DEF Read, MarkProcessing, TakeLock, Requeue, MarkProcessed, MarkDiscarded,
         MarkFailed, Throw, JobDies
    <2>3. ASSUME \/ \E s \in Reported : Report(s)
                 \/ \E i \in Ids : \/ \E enqueued \in BOOLEAN : Receive(i, enqueued)
                                   \/ ReceiveDuplicate(i)
                                   \/ Sweep(i)
                 \/ ExpireLock
                 \/ CreateRow
                 \/ \E stamp \in 0..(MaxMoves + 1) : DraftRow(stamp)
                 \/ UNCHANGED inboundVars
          PROVE  anomalies' = anomalies
      BY <2>3 DEF Report, Receive, ReceiveDuplicate, Sweep, ExpireLock, CreateRow, DraftRow, inboundVars
    <2>4. QED
      BY <2>1, <2>2, <2>3 DEF InboundNext, JobStep
  <1>3. QED
    BY <1>1, <1>2, PTL DEF InboundSpec

\* A job that has claimed the row of its event.
Holds(k) == job[k].at \in {"claimed", "locked", "applied", "ignored", "lockLost", "failed"}

\* The row of an event that a job has claimed says so, and only one job has.
ClaimsAreExclusive ==
    /\ JobsAreRecords
    /\ \A k \in Ids \X Jobs : Holds(k) => stored[k[1]] = "PROCESSING"
    /\ \A k, l \in Ids \X Jobs : k[1] = l[1] /\ Holds(k) /\ Holds(l) => k = l

\* One job moves that had claimed its row, or that claims it, or none does.
LEMMA ClaimStays ==
    ASSUME ClaimsAreExclusive, NEW k \in Ids \X Jobs, NEW phase, JobMoves(k, phase),
           NEW value, RowWritten(k[1], value), Holds(k) \/ Claimable(stored[k[1]]) \/ stored' = stored,
           Holds(k)' => /\ stored'[k[1]] = "PROCESSING"
                        /\ Holds(k) \/ Claimable(stored[k[1]])
    PROVE  ClaimsAreExclusive'
  <1>1. \A l \in Ids \X Jobs : l # k => job'[l] = job[l]
    BY DEF JobMoves
  <1>2. Holds(k) \/ Claimable(stored[k[1]]) => \A l \in Ids \X Jobs : l # k /\ l[1] = k[1] => ~Holds(l)
    BY DEF ClaimsAreExclusive, Claimable
  <1>3. \A l \in Ids \X Jobs : l[1] # k[1] => stored'[l[1]] = stored[l[1]]
    BY DEF RowWritten
  <1>4. \A l \in Ids \X Jobs : Holds(l)' => stored'[l[1]] = "PROCESSING"
    BY <1>1, <1>2, <1>3 DEF ClaimsAreExclusive, Holds
  <1>5. \A l, m \in Ids \X Jobs : l[1] = m[1] /\ Holds(l)' /\ Holds(m)' => l = m
    BY <1>1, <1>2 DEF ClaimsAreExclusive, Holds
  <1>6. JobsAreRecords'
    BY DEF JobsAreRecords, JobMoves, RowWritten
  <1>7. QED
    BY <1>4, <1>5, <1>6 DEF ClaimsAreExclusive

LEMMA ClaimStep == ClaimsAreExclusive /\ [InboundNext]_inboundVars => ClaimsAreExclusive'
  <1> SUFFICES ASSUME ClaimsAreExclusive, [InboundNext]_inboundVars PROVE ClaimsAreExclusive'
    OBVIOUS
  <1>0. JobsAreRecords
    BY DEF ClaimsAreExclusive
  <1>1. DOMAIN stored = Ids
    BY <1>0 DEF JobsAreRecords
  <1>2. ASSUME NEW i \in Ids, stored' = stored PROVE RowWritten(i, "NONE")
    BY <1>1, <1>2 DEF RowWritten
  <1>3. ASSUME NEW i \in Ids, NEW value, stored' = [stored EXCEPT ![i] = value]
        PROVE  RowWritten(i, value) /\ stored'[i] = value
    BY <1>1, <1>3 DEF RowWritten
  <1>4. ASSUME UNCHANGED <<stored, job>> PROVE ClaimsAreExclusive'
    BY <1>4 DEF ClaimsAreExclusive, JobsAreRecords, Holds
  <1>5. ASSUME NEW i \in Ids, stored[i] = "NONE", stored' = [stored EXCEPT ![i] = "RECEIVED"], job' = job
        PROVE  ClaimsAreExclusive'
    BY <1>1, <1>5 DEF ClaimsAreExclusive, JobsAreRecords, Holds
  <1>6. ASSUME NEW i \in Ids, job' \in Queued(i),
               stored' = stored \/ (stored[i] = "NONE" /\ stored' = [stored EXCEPT ![i] = "RECEIVED"])
        PROVE  ClaimsAreExclusive'
    <2>1. PICK j \in Jobs : job' = [job EXCEPT ![<<i, j>>].at = "queued"]
      BY <1>6 DEF Queued, FreeJobs
    <2> DEFINE k == <<i, j>>
    <2>2. k \in Ids \X Jobs /\ k[1] = i /\ Move(k, "queued")
      BY <2>1 DEF Move
    <2> HIDE DEF k
    <2>3. JobMoves(k, "queued")
      BY <1>0, <2>2, JobWrites
    <2>4. /\ \A l \in Ids \X Jobs : Holds(l)' => Holds(l)
          /\ \A l \in Ids \X Jobs : Holds(l) => stored'[l[1]] = stored[l[1]]
      BY <1>1, <1>6, <2>3 DEF JobMoves, Holds, ClaimsAreExclusive
    <2>5. JobsAreRecords'
      BY <1>1, <1>6, <2>3 DEF JobsAreRecords, JobMoves
    <2>6. QED
      BY <2>4, <2>5 DEF ClaimsAreExclusive
  <1>7. ASSUME NEW i \in Ids, NEW enqueued \in BOOLEAN, Receive(i, enqueued) PROVE ClaimsAreExclusive'
    BY <1>5, <1>6, <1>7 DEF Receive
  <1>8. ASSUME NEW i \in Ids, Sweep(i) PROVE ClaimsAreExclusive'
    BY <1>6, <1>8 DEF Sweep
  <1>9. ASSUME \/ \E s \in Reported : Report(s)
               \/ \E i \in Ids : ReceiveDuplicate(i)
               \/ ExpireLock
               \/ CreateRow
               \/ \E stamp \in 0..(MaxMoves + 1) : DraftRow(stamp)
               \/ UNCHANGED inboundVars
        PROVE  ClaimsAreExclusive'
    BY <1>4, <1>9 DEF Report, ReceiveDuplicate, ExpireLock, CreateRow, DraftRow, inboundVars
  <1>10. ASSUME NEW k \in Ids \X Jobs, NEW phase, JobMoves(k, phase), stored' = stored,
                phase \in {"none", "queued", "read"} \/ Holds(k)
         PROVE  ClaimsAreExclusive'
    <2>1. k[1] \in Ids
      OBVIOUS
    <2>2. Holds(k)' => stored'[k[1]] = "PROCESSING" /\ Holds(k)
      BY <1>10 DEF JobMoves, Holds, ClaimsAreExclusive
    <2>3. RowWritten(k[1], "NONE")
      BY <1>2, <1>10, <2>1
    <2>4. QED
      BY <1>10, <2>2, <2>3, ClaimStays
  <1>11. ASSUME NEW k \in Ids \X Jobs, Holds(k), JobMoves(k, "none"),
                NEW value, stored' = [stored EXCEPT ![k[1]] = value]
         PROVE  ClaimsAreExclusive'
    <2>1. k[1] \in Ids /\ ~Holds(k)'
      BY <1>11 DEF JobMoves, Holds
    <2>2. QED
      BY <1>3, <1>11, <2>1, ClaimStays
  <1>12. ASSUME NEW k \in Ids \X Jobs, Read(k) \/ Requeue(k) \/ JobDies(k) PROVE ClaimsAreExclusive'
    <2>1. stored' = stored /\ \E phase \in {"none", "queued", "read"} : JobMoves(k, phase)
      BY <1>0, <1>12, JobWrites DEF Read, Requeue, JobDies
    <2>2. QED
      BY <1>10, <2>1
  <1>13. ASSUME NEW k \in Ids \X Jobs, TakeLock(k) \/ Throw(k) PROVE ClaimsAreExclusive'
    <2>1. stored' = stored /\ Holds(k) /\ \E phase : JobMoves(k, phase)
      BY <1>0, <1>13, JobWrites DEF TakeLock, Throw, Holds
    <2>2. QED
      BY <1>10, <2>1
  <1>14. ASSUME NEW k \in Ids \X Jobs, MarkProcessed(k) \/ MarkDiscarded(k) \/ MarkFailed(k)
         PROVE  ClaimsAreExclusive'
    <2>1. Holds(k) /\ JobMoves(k, "none") /\ \E value : stored' = [stored EXCEPT ![k[1]] = value]
      BY <1>0, <1>14, JobWrites DEF MarkProcessed, MarkDiscarded, MarkFailed, Holds
    <2>2. QED
      BY <1>11, <2>1
  <1>15. ASSUME NEW k \in Ids \X Jobs, ApplyDraft(k) PROVE ClaimsAreExclusive'
    <2>1. Holds(k)
      BY <1>15 DEF ApplyDraft, Holds
    <2>2. \/ stored' = stored /\ \E phase \in {"applied", "ignored"} : JobMoves(k, phase)
          \/ JobMoves(k, "none") /\ \E value : stored' = [stored EXCEPT ![k[1]] = value]
      <3>0. CASE rowAt = Unwritten
        BY <1>0, <1>15, <3>0, JobWrites DEF ApplyDraft
      <3>1. CASE rowAt # Unwritten /\ Decision(k[1]) = "applied"
        BY <1>0, <1>15, <3>1, JobWrites DEF ApplyDraft
      <3>2. CASE rowAt # Unwritten /\ Decision(k[1]) = "stale"
        BY <1>0, <1>15, <3>2, JobWrites DEF ApplyDraft
      <3>3. CASE rowAt # Unwritten /\ Decision(k[1]) \notin {"applied", "stale"}
        BY <1>0, <1>15, <3>3, JobWrites DEF ApplyDraft
      <3>4. QED
        BY <3>0, <3>1, <3>2, <3>3
    <2>3. QED
      BY <1>10, <1>11, <2>1, <2>2
  <1>16. ASSUME NEW k \in Ids \X Jobs, MarkProcessing(k) PROVE ClaimsAreExclusive'
    <2>1. CASE Claimable(stored[k[1]])
      <3>1. JobMoves(k, "claimed") /\ stored' = [stored EXCEPT ![k[1]] = "PROCESSING"]
        BY <1>0, <1>16, <2>1, JobWrites DEF MarkProcessing
      <3>2. k[1] \in Ids
        OBVIOUS
      <3>3. RowWritten(k[1], "PROCESSING") /\ stored'[k[1]] = "PROCESSING"
        BY <1>3, <3>1, <3>2
      <3>4. QED
        BY <2>1, <3>1, <3>3, ClaimStays
    <2>2. CASE ~Claimable(stored[k[1]])
      <3>1. JobMoves(k, "none") /\ stored' = stored
        BY <1>0, <1>16, <2>2, JobWrites DEF MarkProcessing
      <3>2. QED
        BY <1>10, <3>1
    <2>3. QED
      BY <2>1, <2>2
  <1>17. QED
    BY <1>7, <1>8, <1>9, <1>12, <1>13, <1>14, <1>15, <1>16 DEF InboundNext, JobStep

\* Two jobs never work on one event at a time, however many the sweeper and repeated
\* deliveries have queued for it and whichever died (markProcessing, compare-and-set).
THEOREM OneJobWorks == InboundSpec => []OneWorkerPerEvent
  <1>1. InboundInit => ClaimsAreExclusive
    BY DEF InboundInit, ClaimsAreExclusive, JobsAreRecords, IsJob, NoJob, Holds
  <1>2. ClaimsAreExclusive => OneWorkerPerEvent
    <2> SUFFICES ASSUME ClaimsAreExclusive, NEW i \in Ids
                 PROVE  Cardinality({j \in Jobs : job[<<i, j>>].at \in
                          {"claimed", "locked", "applied", "ignored", "lockLost", "failed"}}) <= 1
      BY DEF OneWorkerPerEvent
    <2> DEFINE S == {j \in Jobs : job[<<i, j>>].at \in
                       {"claimed", "locked", "applied", "ignored", "lockLost", "failed"}}
    <2>1. \A j, l \in S : j = l
      <3> SUFFICES ASSUME NEW j \in S, NEW l \in S PROVE j = l
        OBVIOUS
      <3>1. <<i, j>> \in Ids \X Jobs /\ <<i, l>> \in Ids \X Jobs /\ Holds(<<i, j>>) /\ Holds(<<i, l>>)
        BY DEF Holds
      <3>2. <<i, j>> = <<i, l>>
        BY <3>1 DEF ClaimsAreExclusive
      <3>3. QED
        BY <3>2
    <2> HIDE DEF S
    <2>2. S = {} \/ \E x : S = {x}
      BY <2>1
    <2>3. Cardinality(S) <= 1
      <3>1. CASE S = {}
        <4>1. Cardinality(S) = 0
          BY <3>1, FS_EmptySet
        <4>2. QED
          BY <4>1
      <3>2. ASSUME NEW x, S = {x} PROVE Cardinality(S) <= 1
        <4>1. Cardinality(S) = 1
          BY <3>2, FS_Singleton
        <4>2. QED
          BY <4>1
      <3>3. QED
        BY <2>2, <3>1, <3>2
    <2>4. QED
      BY <2>3 DEF S
  <1>3. QED
    BY <1>1, <1>2, ClaimStep, PTL DEF InboundSpec
=============================================================================
