---------------------------- MODULE LedgerProofs ----------------------------
(***************************************************************************)
(* Proofs about the engine for any chart of accounts, any set of keys and  *)
(* any legs.  The inductive invariant is TypeOK, NoOverdraft, the positive *)
(* amounts and the equal sides of what is recorded, ResolvedOnce,          *)
(* RunningBalance and BooksClose; each part is proved preserved by the two *)
(* actions that change the counters.                                       *)
(***************************************************************************)
EXTENDS LedgerServices, SumTheorems, TLAPS

\* Every recorded transaction has positive amounts (assertBalanced ran on it).
PositiveLegs ==
    \A k \in DOMAIN txn : \A a \in DOMAIN txn[k].legs : txn[k].legs[a].amount > 0

\* Counters stay counters under the two updates of buildEntries.
LEMMA ApplyTypes ==
    ASSUME NEW c \in Counters, NEW leg \in Leg
    PROVE  /\ \A phase : ApplyNew(c, leg, phase) \in Counters
           /\ \A commit : ApplyResolve(c, leg, commit) \in Counters
<1>1. ASSUME NEW d \in Counters, NEW phase PROVE ApplyNew(d, leg, phase) \in Counters
  BY DEF Counters, Leg, ApplyNew
<1>2. Release(c, leg) \in Counters
  BY DEF Counters, Leg, Release
<1>3. QED
  BY <1>1, <1>2 DEF ApplyResolve

\* The legs a caller may post.
LEMMA LegTypes ==
    ASSUME NEW legs \in LegSets
    PROVE  /\ DOMAIN legs \subseteq Accounts
           /\ \A a \in DOMAIN legs : legs[a] \in Leg
  BY LegSetsAssumption

LEMMA PostedBalanceType ==
    ASSUME NEW a \in Accounts, NEW c \in Counters
    PROVE  /\ PostedBalance(a, c) \in Int
           /\ AvailableBalance(a, c) \in Int
  BY AccountsAssumption DEF PostedBalance, AvailableBalance, Counters

LEMMA AfterTypes ==
    ASSUME NEW ac \in [Accounts -> Counters], NEW legs \in LegSets,
           NEW phase, NEW commit \in BOOLEAN
    PROVE  /\ AfterPost(ac, legs, phase) \in [Accounts -> Counters]
           /\ AfterResolve(ac, legs, commit) \in [Accounts -> Counters]
  BY ApplyTypes, LegTypes DEF AfterPost, AfterResolve

LEMMA BookedType ==
    ASSUME NEW b \in [Accounts -> Seq(Entry)], NEW ac \in [Accounts -> Counters],
           NEW legs \in LegSets, NEW k \in Keys, NEW phase \in EntryPhases
    PROVE  Booked(b, ac, legs, k, phase) \in [Accounts -> Seq(Entry)]
<1>1. ASSUME NEW a \in Accounts, a \in DOMAIN legs
      PROVE  [txn |-> k, direction |-> legs[a].direction, amount |-> legs[a].amount,
              phase |-> phase, resulting |-> PostedBalance(a, ac[a])] \in Entry
  BY <1>1, LegTypes, PostedBalanceType DEF Entry, Leg
<1>2. QED
  BY <1>1 DEF Booked

LEMMA RecordedType ==
    ASSUME NEW t, DOMAIN t \subseteq Keys, t \in [DOMAIN t -> Txn],
           NEW k \in Keys, NEW r \in Txn
    PROVE  /\ DOMAIN Recorded(t, k, r) = DOMAIN t \cup {k}
           /\ DOMAIN Recorded(t, k, r) \subseteq Keys
           /\ Recorded(t, k, r) \in [DOMAIN Recorded(t, k, r) -> Txn]
<1>1. ASSUME NEW j \in DOMAIN t
      PROVE  [t[j] EXCEPT !.status = r.status] \in Txn
  BY <1>1 DEF Txn
<1>2. QED
  BY <1>1 DEF Recorded

LEMMA TypeInit == Init => TypeOK
  BY OwnersAssumption DEF Init, TypeOK, ZeroCounters, Counters

LEMMA TypeStep == TypeOK /\ [Next]_vars => TypeOK'
<1> SUFFICES ASSUME TypeOK, [Next]_vars PROVE TypeOK'
  OBVIOUS
<1>1. ASSUME NEW o \in Owners, OpenAccounts(o) PROVE TypeOK'
  BY <1>1, OwnersAssumption DEF TypeOK, OpenAccounts
<1>2. ASSUME NEW k \in Keys, NEW legs \in LegSets, NEW phase \in {"PENDING", "POSTED"},
             Post(k, legs, phase)
      PROVE  TypeOK'
  <2>1. [status |-> phase, legs |-> legs, resolves |-> NoKey] \in Txn
    BY DEF Txn
  <2>2. acct' \in [Accounts -> Counters]
    BY <1>2, AfterTypes DEF TypeOK, Post, IsRecorded
  <2>3. DOMAIN txn' \subseteq Keys /\ txn' \in [DOMAIN txn' -> Txn]
    BY <1>2, <2>1, RecordedType DEF TypeOK, Post, IsRecorded
  <2>4. book' \in [Accounts -> Seq(Entry)]
    BY <1>2, <2>2, BookedType DEF TypeOK, Post, IsRecorded, EntryPhases
  <2>5. QED
    BY <1>2, <2>2, <2>3, <2>4 DEF TypeOK, Post, IsRecorded
<1>3. ASSUME NEW k \in Keys, NEW h \in Keys, NEW commit \in BOOLEAN,
             ResolvePending(k, h, commit)
      PROVE  TypeOK'
  <2>1. txn[h] \in Txn /\ txn[h].legs \in LegSets
    BY <1>3 DEF TypeOK, ResolvePending, IsRecorded, IsResolvable, Txn
  <2>2. [status |-> IF commit THEN "POSTED" ELSE "VOIDED",
         legs |-> txn[h].legs, resolves |-> h] \in Txn
    BY <2>1 DEF Txn
  <2>3. acct' \in [Accounts -> Counters]
    BY <1>3, <2>1, AfterTypes DEF TypeOK, ResolvePending, IsRecorded, IsResolvable
  <2>4. DOMAIN txn' \subseteq Keys /\ txn' \in [DOMAIN txn' -> Txn]
    BY <1>3, <2>2, RecordedType DEF TypeOK, ResolvePending, IsRecorded, IsResolvable
  <2>5. book' \in [Accounts -> Seq(Entry)]
    BY <1>3, <2>1, <2>3, BookedType DEF TypeOK, ResolvePending, IsRecorded, IsResolvable, EntryPhases
  <2>6. QED
    BY <1>3, <2>3, <2>4, <2>5 DEF TypeOK, ResolvePending, IsRecorded, IsResolvable
<1>4. CASE UNCHANGED vars
  BY <1>4 DEF TypeOK, vars
<1>5. QED
  BY <1>1, <1>2, <1>3, <1>4 DEF Next, CommitPending, VoidPending

\* Type correctness of the engine.
THEOREM Typing == Spec => []TypeOK
  BY TypeInit, TypeStep, PTL DEF Spec

-----------------------------------------------------------------------------
(* What is recorded under each key.                                        *)

RecordInv == TypeOK /\ PositiveLegs /\ ResolvedOnce

LEMMA RecordInit == Init => RecordInv
  BY TypeInit DEF Init, RecordInv, PositiveLegs, ResolvedOnce

\* The two ways a record is written, in terms of the old table.
LEMMA PostRecord ==
    ASSUME TypeOK, NEW k \in Keys, NEW legs \in LegSets, NEW phase,
           Post(k, legs, phase)
    PROVE  /\ DOMAIN txn' = DOMAIN txn \cup {k}
           /\ k \notin DOMAIN txn
           /\ txn'[k].status = phase /\ txn'[k].legs = legs /\ txn'[k].resolves = NoKey
           /\ \A j \in DOMAIN txn : txn'[j] = txn[j]
<1> DEFINE r == [status |-> phase, legs |-> legs, resolves |-> NoKey]
<1>1. k \notin DOMAIN txn /\ txn' = Recorded(txn, k, r)
  BY DEF Post, IsRecorded
<1>2. r.status = phase /\ r.legs = legs /\ r.resolves = NoKey
  OBVIOUS
<1> HIDE DEF r
<1>3. \A j \in DOMAIN txn : j # NoKey
  BY KeysAssumption DEF TypeOK
<1>4. QED
  BY <1>1, <1>2, <1>3 DEF Recorded

LEMMA ResolveRecord ==
    ASSUME TypeOK, NEW k \in Keys, NEW h \in Keys, NEW commit \in BOOLEAN,
           ResolvePending(k, h, commit)
    PROVE  /\ DOMAIN txn' = DOMAIN txn \cup {k}
           /\ k \notin DOMAIN txn /\ h \in DOMAIN txn /\ h # k
           /\ txn[h].status = "PENDING"
           /\ txn'[k].status \in {"POSTED", "VOIDED"}
           /\ txn'[k].legs = txn[h].legs
           /\ txn'[k].resolves = h
           /\ txn'[h].status = txn'[k].status
           /\ txn'[h].legs = txn[h].legs
           /\ txn'[h].resolves = txn[h].resolves
           /\ \A j \in DOMAIN txn : j # h => txn'[j] = txn[j]
<1> DEFINE r == [status |-> IF commit THEN "POSTED" ELSE "VOIDED",
                 legs |-> txn[h].legs, resolves |-> h]
<1>1. /\ k \notin DOMAIN txn /\ h \in DOMAIN txn
      /\ txn[h].status = "PENDING"
      /\ txn' = Recorded(txn, k, r)
  BY DEF ResolvePending, IsRecorded, IsResolvable
<1>2. txn[h] \in Txn
  BY <1>1 DEF TypeOK
<1>3. r.status = (IF commit THEN "POSTED" ELSE "VOIDED") /\ r.legs = txn[h].legs /\ r.resolves = h
  OBVIOUS
<1> HIDE DEF r
<1>4. /\ DOMAIN txn' = DOMAIN txn \cup {k}
      /\ txn'[k] = r
      /\ txn'[h] = [txn[h] EXCEPT !.status = r.status]
      /\ \A j \in DOMAIN txn : j # h => txn'[j] = txn[j]
  BY <1>1, <1>3 DEF Recorded
<1>5. QED
  BY <1>1, <1>2, <1>3, <1>4 DEF Txn

LEMMA RecordStep == RecordInv /\ [Next]_vars => RecordInv'
<1> SUFFICES ASSUME RecordInv, [Next]_vars PROVE RecordInv'
  OBVIOUS
<1>t. TypeOK /\ TypeOK'
  BY TypeStep DEF RecordInv
<1>1. ASSUME NEW k \in Keys, NEW legs \in LegSets, NEW phase \in {"PENDING", "POSTED"},
             Post(k, legs, phase)
      PROVE  PositiveLegs' /\ ResolvedOnce'
  <2>0. /\ DOMAIN txn' = DOMAIN txn \cup {k}
        /\ k \notin DOMAIN txn
        /\ txn'[k].status = phase /\ txn'[k].legs = legs /\ txn'[k].resolves = NoKey
        /\ \A j \in DOMAIN txn : txn'[j] = txn[j]
    BY <1>1, <1>t, PostRecord
  <2>1. \A a \in DOMAIN legs : legs[a].amount > 0
    BY <1>1 DEF Post, IsRecorded, Balanced
  <2>2. PositiveLegs'
    BY <2>0, <2>1 DEF RecordInv, PositiveLegs
  <2>3. \A j \in DOMAIN txn : txn[j].resolves \in Keys \cup {NoKey} /\ txn[j].resolves # k
    BY <1>t, <2>0, KeysAssumption DEF TypeOK, Txn, RecordInv, ResolvedOnce
  <2>4. ResolvedOnce'
    BY <2>0, <2>3, KeysAssumption DEF RecordInv, ResolvedOnce, ResolversOf
  <2>5. QED
    BY <2>2, <2>4
<1>2. ASSUME NEW k \in Keys, NEW h \in Keys, NEW commit \in BOOLEAN,
             ResolvePending(k, h, commit)
      PROVE  PositiveLegs' /\ ResolvedOnce'
  <2>0. /\ DOMAIN txn' = DOMAIN txn \cup {k}
        /\ k \notin DOMAIN txn /\ h \in DOMAIN txn /\ h # k
        /\ txn[h].status = "PENDING"
        /\ txn'[k].status \in {"POSTED", "VOIDED"}
        /\ txn'[k].legs = txn[h].legs
        /\ txn'[k].resolves = h
        /\ txn'[h].status = txn'[k].status
        /\ txn'[h].legs = txn[h].legs
        /\ txn'[h].resolves = txn[h].resolves
        /\ \A j \in DOMAIN txn : j # h => txn'[j] = txn[j]
    BY <1>2, <1>t, ResolveRecord
  <2>1. PositiveLegs'
    BY <2>0 DEF RecordInv, PositiveLegs
  <2>2. \A j \in DOMAIN txn : txn[j].resolves # k /\ txn[j].resolves # h
    BY <1>t, <2>0, KeysAssumption DEF TypeOK, Txn, RecordInv, ResolvedOnce, ResolversOf
  <2>3. txn[h].resolves = NoKey
    BY <2>0 DEF RecordInv, ResolvedOnce
  <2>4. ASSUME NEW j \in DOMAIN txn', txn'[j].status = "PENDING"
        PROVE  ResolversOf(j)' = {} /\ txn'[j].resolves = NoKey
    <3>1. j # k /\ j # h /\ j \in DOMAIN txn /\ txn[j].status = "PENDING"
      BY <2>0, <2>4
    <3>2. QED
      BY <2>0, <3>1 DEF RecordInv, ResolvedOnce, ResolversOf
  <2>5. ASSUME NEW i \in DOMAIN txn', NEW j \in DOMAIN txn',
               txn'[i].resolves # NoKey, txn'[i].resolves = txn'[j].resolves
        PROVE  i = j
    BY <2>0, <2>2, <2>3, <2>5 DEF RecordInv, ResolvedOnce
  <2>6. ASSUME NEW j \in DOMAIN txn', txn'[j].resolves # NoKey
        PROVE  /\ txn'[j].resolves \in DOMAIN txn'
               /\ txn'[txn'[j].resolves].legs = txn'[j].legs
               /\ txn'[txn'[j].resolves].status = txn'[j].status
    <3>1. CASE j = k
      BY <2>0, <3>1
    <3>2. CASE j # k
      <4>1. j \in DOMAIN txn /\ j # h /\ txn'[j] = txn[j]
        BY <2>0, <2>3, <2>6, <3>2
      <4>2. QED
        BY <2>0, <2>2, <2>6, <4>1 DEF RecordInv, ResolvedOnce
    <3>3. QED
      BY <3>1, <3>2
  <2>7. QED
    BY <2>1, <2>4, <2>5, <2>6 DEF ResolvedOnce
<1>3. ASSUME UNCHANGED txn PROVE PositiveLegs' /\ ResolvedOnce'
  BY <1>3 DEF RecordInv, PositiveLegs, ResolvedOnce, ResolversOf
<1>4. ASSUME NEW o \in Owners, OpenAccounts(o) PROVE PositiveLegs' /\ ResolvedOnce'
  BY <1>3, <1>4 DEF OpenAccounts
<1>5. CASE UNCHANGED vars
  BY <1>3, <1>5, <1>t DEF RecordInv, vars
<1>6. QED
  BY <1>t, <1>1, <1>2, <1>4, <1>5 DEF RecordInv, Next, CommitPending, VoidPending

\* A pending transaction is resolved by at most one other transaction, which
\* agrees with it on legs and outcome.
THEOREM EveryHoldResolvedOnce == Spec => []ResolvedOnce
<1>1. RecordInv => ResolvedOnce
  BY DEF RecordInv
<1>2. QED
  BY <1>1, RecordInit, RecordStep, PTL DEF Spec

-----------------------------------------------------------------------------
(* Balances.                                                               *)

\* Resolving a leg never lowers what the account has to spend: a committed
\* debit moves from pending to posted, a committed credit adds, a released
\* debit returns and a released credit was never counted.
LEMMA ResolveKeepsAvailable ==
    ASSUME NEW a \in Accounts, NEW c \in Counters, NEW leg \in Leg,
           leg.amount > 0, NEW commit \in BOOLEAN
    PROVE  AvailableBalance(a, ApplyResolve(c, leg, commit)) >= AvailableBalance(a, c)
<1> USE DEF AvailableBalance, PostedBalance, ApplyResolve, Release, Counters, Leg, Directions
<1>1. CASE commit /\ leg.direction = "DEBIT"
  BY <1>1, AccountsAssumption DEF ApplyNew
<1>2. CASE commit /\ leg.direction = "CREDIT"
  BY <1>2, AccountsAssumption DEF ApplyNew
<1>3. CASE ~commit
  BY <1>3, AccountsAssumption
<1>4. QED
  BY <1>1, <1>2, <1>3

BalanceInv == RecordInv /\ NoOverdraft

LEMMA BalanceInit == Init => BalanceInv
  BY RecordInit, AccountsAssumption
  DEF Init, BalanceInv, NoOverdraft, AvailableBalance, PostedBalance, ZeroCounters

LEMMA GuardGives ==
    ASSUME NEW legs \in LegSets, NEW ac \in [Accounts -> Counters], GuardHolds(ac, legs)
    PROVE  \A a \in Accounts \ AllowsNegative :
               a \in DOMAIN legs => AvailableBalance(a, ac[a]) >= 0
  BY PostedBalanceType DEF GuardHolds, ViolatesOverdraftGuard

LEMMA BalanceStep == BalanceInv /\ [Next]_vars => BalanceInv'
<1> SUFFICES ASSUME BalanceInv, [Next]_vars PROVE BalanceInv'
  OBVIOUS
<1>r. RecordInv /\ RecordInv' /\ TypeOK /\ TypeOK'
  BY RecordStep DEF BalanceInv, RecordInv
<1>1. ASSUME NEW k \in Keys, NEW legs \in LegSets, NEW phase \in {"PENDING", "POSTED"},
             Post(k, legs, phase)
      PROVE  NoOverdraft'
  <2>1. acct' = AfterPost(acct, legs, phase) /\ GuardHolds(acct', legs)
    BY <1>1 DEF Post, IsRecorded
  <2>2. \A a \in Accounts \ AllowsNegative :
            a \in DOMAIN legs => AvailableBalance(a, acct'[a]) >= 0
    BY <1>r, <2>1, GuardGives DEF TypeOK
  <2>3. \A a \in Accounts : a \notin DOMAIN legs => acct'[a] = acct[a]
    BY <1>r, <2>1 DEF TypeOK, AfterPost
  <2>4. QED
    BY <2>2, <2>3 DEF BalanceInv, NoOverdraft
<1>2. ASSUME NEW k \in Keys, NEW h \in Keys, NEW commit \in BOOLEAN,
             ResolvePending(k, h, commit)
      PROVE  NoOverdraft'
  <2> DEFINE legs == txn[h].legs
  <2>1. /\ acct' = AfterResolve(acct, legs, commit) /\ GuardHolds(acct', legs)
        /\ legs \in LegSets
    BY <1>2, <1>r DEF ResolvePending, IsRecorded, IsResolvable, TypeOK, Txn
  <2> HIDE DEF legs
  <2>2. \A a \in Accounts \ AllowsNegative :
            a \in DOMAIN legs => AvailableBalance(a, acct'[a]) >= 0
    BY <1>r, <2>1, GuardGives DEF TypeOK
  <2>3. \A a \in Accounts : a \notin DOMAIN legs => acct'[a] = acct[a]
    BY <1>r, <2>1 DEF TypeOK, AfterResolve
  <2>4. QED
    BY <2>2, <2>3 DEF BalanceInv, NoOverdraft
<1>3. ASSUME UNCHANGED acct PROVE NoOverdraft'
  BY <1>3 DEF BalanceInv, NoOverdraft, AvailableBalance, PostedBalance
<1>4. ASSUME NEW o \in Owners, OpenAccounts(o) PROVE NoOverdraft'
  BY <1>3, <1>4 DEF OpenAccounts
<1>5. CASE UNCHANGED vars
  BY <1>3, <1>5, <1>r DEF BalanceInv, vars
<1>6. QED
  BY <1>r, <1>1, <1>2, <1>4, <1>5 DEF BalanceInv, Next, CommitPending, VoidPending

\* No account without allowsNegative is ever overdrawn, reserves included.
THEOREM NeverOverdrawn == Spec => []NoOverdraft
<1>1. BalanceInv => NoOverdraft
  BY DEF BalanceInv
<1>2. QED
  BY <1>1, BalanceInit, BalanceStep, PTL DEF Spec

\* Every pending transaction can be committed and can be released: the overdraft
\* guard that resolvePending runs never refuses.
THEOREM HoldsStayResolvable == Spec => []HoldAlwaysResolvable
<1>1. BalanceInv => HoldAlwaysResolvable
  <2> SUFFICES ASSUME BalanceInv, NEW h \in DOMAIN txn, NEW commit \in BOOLEAN,
                      NEW a \in DOMAIN txn[h].legs
               PROVE  ~ViolatesOverdraftGuard(a, AfterResolve(acct, txn[h].legs, commit)[a])
    BY DEF HoldAlwaysResolvable, GuardHolds
  <2>1. txn[h].legs \in LegSets /\ acct \in [Accounts -> Counters]
    BY DEF BalanceInv, RecordInv, TypeOK, Txn
  <2>2. a \in Accounts /\ txn[h].legs[a] \in Leg /\ txn[h].legs[a].amount > 0
    BY <2>1, LegTypes DEF BalanceInv, RecordInv, PositiveLegs
  <2>3. AfterResolve(acct, txn[h].legs, commit)[a] = ApplyResolve(acct[a], txn[h].legs[a], commit)
    BY <2>1, <2>2 DEF AfterResolve
  <2>4. ApplyResolve(acct[a], txn[h].legs[a], commit) \in Counters
    BY <2>1, <2>2, ApplyTypes
  <2>5. AvailableBalance(a, ApplyResolve(acct[a], txn[h].legs[a], commit)) >= AvailableBalance(a, acct[a])
    BY <2>1, <2>2, ResolveKeepsAvailable
  <2>6. a \notin AllowsNegative => AvailableBalance(a, acct[a]) >= 0
    BY <2>2 DEF BalanceInv, NoOverdraft
  <2>7. /\ AvailableBalance(a, acct[a]) \in Int
        /\ AvailableBalance(a, ApplyResolve(acct[a], txn[h].legs[a], commit)) \in Int
    BY <2>1, <2>2, <2>4, PostedBalanceType
  <2>8. QED
    BY <2>3, <2>5, <2>6, <2>7 DEF ViolatesOverdraftGuard
<1>2. QED
  BY <1>1, BalanceInit, BalanceStep, PTL DEF Spec

-----------------------------------------------------------------------------
(* The books.                                                              *)

\* What a leg does to the posted balance, by phase.
LEMMA PostMovement ==
    ASSUME NEW a \in Accounts, NEW c \in Counters, NEW leg \in Leg
    PROVE  /\ PostedBalance(a, ApplyNew(c, leg, "PENDING")) = PostedBalance(a, c)
           /\ PostedBalance(a, ApplyNew(c, leg, "POSTED")) =
                  PostedBalance(a, c) + (IF leg.direction = NormalBalance[a]
                                         THEN leg.amount ELSE -leg.amount)
  BY AccountsAssumption DEF PostedBalance, ApplyNew, Counters, Leg, Directions

LEMMA ResolveMovement ==
    ASSUME NEW a \in Accounts, NEW c \in Counters, NEW leg \in Leg
    PROVE  /\ PostedBalance(a, ApplyResolve(c, leg, FALSE)) = PostedBalance(a, c)
           /\ PostedBalance(a, ApplyResolve(c, leg, TRUE)) =
                  PostedBalance(a, c) + (IF leg.direction = NormalBalance[a]
                                         THEN leg.amount ELSE -leg.amount)
<1>1. Release(c, leg) \in Counters /\ PostedBalance(a, Release(c, leg)) = PostedBalance(a, c)
  BY AccountsAssumption DEF PostedBalance, Release, Counters, Leg, Directions
<1>2. QED
  BY <1>1, PostMovement DEF ApplyResolve

Chain(a, b, c) ==
    /\ \A i \in 1..Len(b) :
           b[i].resulting = (IF i = 1 THEN 0 ELSE b[i - 1].resulting) + Movement(a, b[i])
    /\ PostedBalance(a, c) = (IF b = <<>> THEN 0 ELSE b[Len(b)].resulting)

\* Appending an entry stamped with the new balance extends the chain.
LEMMA ChainAppend ==
    ASSUME NEW a \in Accounts, NEW b \in Seq(Entry), NEW c \in Counters,
           NEW d \in Counters, NEW e \in Entry, Chain(a, b, c),
           e.resulting = PostedBalance(a, d),
           PostedBalance(a, d) = PostedBalance(a, c) + Movement(a, e)
    PROVE  Chain(a, Append(b, e), d)
<1> DEFINE bb == Append(b, e)
<1>1. /\ Len(bb) = Len(b) + 1 /\ Len(b) \in Nat
      /\ \A i \in 1..Len(b) : bb[i] = b[i]
      /\ bb[Len(b) + 1] = e /\ bb # <<>>
  OBVIOUS
<1> HIDE DEF bb
<1>2. ASSUME NEW i \in 1..Len(bb)
      PROVE  bb[i].resulting = (IF i = 1 THEN 0 ELSE bb[i - 1].resulting) + Movement(a, bb[i])
  <2>1. CASE i \in 1..Len(b)
    <3>1. bb[i] = b[i] /\ (i # 1 => bb[i - 1] = b[i - 1])
      BY <1>1, <2>1
    <3>2. QED
      BY <2>1, <3>1 DEF Chain
  <2>2. CASE i = Len(b) + 1
    <3>1. CASE b = <<>>
      BY <1>1, <2>2, <3>1 DEF Chain
    <3>2. CASE b # <<>>
      <4>1. i # 1 /\ i - 1 = Len(b) /\ Len(b) \in 1..Len(b)
        BY <2>2, <3>2
      <4>2. QED
        BY <1>1, <2>2, <3>2, <4>1 DEF Chain
    <3>3. QED
      BY <3>1, <3>2
  <2>3. QED
    BY <1>1, <2>1, <2>2
<1>3. PostedBalance(a, d) = (IF bb = <<>> THEN 0 ELSE bb[Len(bb)].resulting)
  BY <1>1
<1>4. QED
  BY <1>2, <1>3 DEF Chain, bb

BookInv == TypeOK /\ RunningBalance

\* One call of buildEntries extends the chain of every account it touches.
LEMMA BookedChain ==
    ASSUME NEW b \in [Accounts -> Seq(Entry)], NEW ac \in [Accounts -> Counters],
           NEW ad \in [Accounts -> Counters], NEW legs \in LegSets, NEW k \in Keys,
           NEW phase \in EntryPhases, NEW a \in Accounts, Chain(a, b[a], ac[a]),
           a \notin DOMAIN legs => ad[a] = ac[a],
           a \in DOMAIN legs =>
               PostedBalance(a, ad[a]) = PostedBalance(a, ac[a]) +
                   (IF phase # "POSTED" THEN 0
                    ELSE IF legs[a].direction = NormalBalance[a]
                         THEN legs[a].amount ELSE -legs[a].amount)
    PROVE  Chain(a, Booked(b, ad, legs, k, phase)[a], ad[a])
<1>1. CASE a \notin DOMAIN legs
  BY <1>1 DEF Booked
<1>2. CASE a \in DOMAIN legs
  <2> DEFINE e == [txn |-> k, direction |-> legs[a].direction, amount |-> legs[a].amount,
                   phase |-> phase, resulting |-> PostedBalance(a, ad[a])]
  <2>1. e \in Entry
    BY <1>2, LegTypes, PostedBalanceType DEF Entry, Leg
  <2>2. /\ e.resulting = PostedBalance(a, ad[a]) /\ e.phase = phase
        /\ e.direction = legs[a].direction /\ e.amount = legs[a].amount
    OBVIOUS
  <2>3. Booked(b, ad, legs, k, phase)[a] = Append(b[a], e)
    BY <1>2 DEF Booked
  <2> HIDE DEF e
  <2>4. PostedBalance(a, ad[a]) = PostedBalance(a, ac[a]) + Movement(a, e)
    BY <1>2, <2>2 DEF Movement
  <2>5. b[a] \in Seq(Entry) /\ ac[a] \in Counters /\ ad[a] \in Counters
    OBVIOUS
  <2>6. QED
    BY <2>1, <2>2, <2>3, <2>4, <2>5, ChainAppend
<1>3. QED
  BY <1>1, <1>2

LEMMA BookStep == BookInv /\ [Next]_vars => BookInv'
<1> SUFFICES ASSUME BookInv, [Next]_vars PROVE BookInv'
  OBVIOUS
<1>t. TypeOK /\ TypeOK'
  BY TypeStep DEF BookInv
<1>c. \A a \in Accounts : Chain(a, book[a], acct[a])
  BY DEF BookInv, RunningBalance, Chain
<1>d. ASSUME \A a \in Accounts : Chain(a, book'[a], acct'[a]) PROVE RunningBalance'
  BY <1>d DEF RunningBalance, Chain, Movement, PostedBalance
<1>1. ASSUME NEW k \in Keys, NEW legs \in LegSets, NEW phase \in {"PENDING", "POSTED"},
             Post(k, legs, phase)
      PROVE  RunningBalance'
  <2>1. acct' = AfterPost(acct, legs, phase) /\ book' = Booked(book, acct', legs, k, phase)
    BY <1>1 DEF Post, IsRecorded
  <2>2. ASSUME NEW a \in Accounts PROVE Chain(a, book'[a], acct'[a])
    <3>1. a \notin DOMAIN legs => acct'[a] = acct[a]
      BY <1>t, <2>1 DEF AfterPost, TypeOK
    <3>2. a \in DOMAIN legs => acct'[a] = ApplyNew(acct[a], legs[a], phase)
      BY <1>t, <2>1 DEF AfterPost, TypeOK
    <3>3. a \in DOMAIN legs =>
              PostedBalance(a, acct'[a]) = PostedBalance(a, acct[a]) +
                   (IF phase # "POSTED" THEN 0
                    ELSE IF legs[a].direction = NormalBalance[a]
                         THEN legs[a].amount ELSE -legs[a].amount)
      <4>1. SUFFICES ASSUME a \in DOMAIN legs
                     PROVE  PostedBalance(a, acct'[a]) = PostedBalance(a, acct[a]) +
                                (IF phase # "POSTED" THEN 0
                                 ELSE IF legs[a].direction = NormalBalance[a]
                                      THEN legs[a].amount ELSE -legs[a].amount)
        OBVIOUS
      <4>2. acct[a] \in Counters /\ legs[a] \in Leg /\ PostedBalance(a, acct[a]) \in Int
        BY <1>t, <4>1, LegTypes, PostedBalanceType DEF TypeOK
      <4>3. QED
        BY <3>2, <4>1, <4>2, PostMovement
    <3>4. phase \in EntryPhases
      BY DEF EntryPhases
    <3>5. QED
      BY <1>t, <1>c, <2>1, <3>1, <3>3, <3>4, BookedChain DEF TypeOK
  <2>3. QED
    BY <2>2, <1>d
<1>2. ASSUME NEW k \in Keys, NEW h \in Keys, NEW commit \in BOOLEAN,
             ResolvePending(k, h, commit)
      PROVE  RunningBalance'
  <2> DEFINE legs == txn[h].legs
             phase == IF commit THEN "POSTED" ELSE "VOID"
  <2>1. /\ acct' = AfterResolve(acct, legs, commit)
        /\ book' = Booked(book, acct', legs, k, phase)
        /\ legs \in LegSets
    BY <1>2, <1>t DEF ResolvePending, IsRecorded, IsResolvable, TypeOK, Txn
  <2>p. phase \in EntryPhases /\ (phase = "POSTED" <=> commit)
    BY DEF EntryPhases
  <2> HIDE DEF legs, phase
  <2>2. ASSUME NEW a \in Accounts PROVE Chain(a, book'[a], acct'[a])
    <3>1. a \notin DOMAIN legs => acct'[a] = acct[a]
      BY <1>t, <2>1 DEF AfterResolve, TypeOK
    <3>2. a \in DOMAIN legs => acct'[a] = ApplyResolve(acct[a], legs[a], commit)
      BY <1>t, <2>1 DEF AfterResolve, TypeOK
    <3>3. a \in DOMAIN legs =>
              PostedBalance(a, acct'[a]) = PostedBalance(a, acct[a]) +
                   (IF phase # "POSTED" THEN 0
                    ELSE IF legs[a].direction = NormalBalance[a]
                         THEN legs[a].amount ELSE -legs[a].amount)
      <4>1. SUFFICES ASSUME a \in DOMAIN legs
                     PROVE  PostedBalance(a, acct'[a]) = PostedBalance(a, acct[a]) +
                                (IF phase # "POSTED" THEN 0
                                 ELSE IF legs[a].direction = NormalBalance[a]
                                      THEN legs[a].amount ELSE -legs[a].amount)
        OBVIOUS
      <4>2. acct[a] \in Counters /\ legs[a] \in Leg /\ PostedBalance(a, acct[a]) \in Int
        BY <1>t, <2>1, <4>1, LegTypes, PostedBalanceType DEF TypeOK
      <4>3. CASE commit
        BY ZenonT(60), <2>p, <3>2, <4>1, <4>2, <4>3, ResolveMovement
      <4>4. CASE ~commit
        <5>1. commit = FALSE
          BY <4>4
        <5>2. acct'[a] = ApplyResolve(acct[a], legs[a], FALSE)
          BY <3>2, <4>1, <5>1
        <5>3. PostedBalance(a, ApplyResolve(acct[a], legs[a], FALSE)) = PostedBalance(a, acct[a])
          BY <4>2, ResolveMovement
        <5>4. phase # "POSTED" /\ PostedBalance(a, acct'[a]) = PostedBalance(a, acct[a])
          BY <2>p, <4>4, <5>2, <5>3
        <5>5. QED
          BY <4>2, <5>4
      <4>5. QED
        BY <4>3, <4>4
    <3>4. QED
      BY <1>t, <1>c, <2>1, <2>p, <3>1, <3>3, BookedChain DEF TypeOK
  <2>3. QED
    BY <2>2, <1>d
<1>3. ASSUME UNCHANGED <<acct, book>> PROVE RunningBalance'
  BY <1>3, <1>c, <1>d
<1>4. ASSUME NEW o \in Owners, OpenAccounts(o) PROVE RunningBalance'
  BY <1>3, <1>4 DEF OpenAccounts
<1>5. CASE UNCHANGED vars
  BY <1>3, <1>5, <1>t DEF BookInv, vars
<1>6. QED
  BY <1>t, <1>1, <1>2, <1>4, <1>5 DEF BookInv, Next, CommitPending, VoidPending

\* The statement of every account adds up, entry by entry, to its counters.
THEOREM StatementsAddUp == Spec => []RunningBalance
<1>1. Init => BookInv
  <2>1. Init => RunningBalance
    BY AccountsAssumption DEF Init, RunningBalance, PostedBalance, ZeroCounters
  <2>2. QED
    BY <2>1, TypeInit DEF BookInv
<1>2. BookInv => RunningBalance
  BY DEF BookInv
<1>3. QED
  BY <1>1, <1>2, BookStep, PTL DEF Spec

-----------------------------------------------------------------------------
(* The books close.                                                        *)

\* Legs on one side of a transaction move the total over the ledger by the total
\* of that side.
LEMMA SideMoves ==
    ASSUME NEW legs \in LegSets, NEW d, NEW f \in [Accounts -> Int], NEW g \in [Accounts -> Int],
           \A a \in Accounts :
               g[a] = IF a \in SideOf(legs, d) THEN f[a] + legs[a].amount ELSE f[a]
    PROVE  SumFunction(g) = SumFunction(f) + SideTotal(legs, d)
<1> DEFINE amount == [a \in DOMAIN legs |-> legs[a].amount]
           D == SideOf(legs, d)
<1>1. D \in SUBSET Accounts /\ DOMAIN f = Accounts /\ DOMAIN g = Accounts
  BY LegTypes DEF SideOf
<1>2. \A a \in D : amount[a] \in Int /\ g[a] = f[a] + amount[a]
  BY <1>1, LegTypes DEF SideOf, Leg
<1>3. (\A a \in Accounts : f[a] \in Int) /\ (\A a \in Accounts \ D : g[a] = f[a])
  OBVIOUS
<1> HIDE DEF amount, D
<1>4. SumFunctionOnSet(g, Accounts) = SumFunctionOnSet(f, Accounts) + SumFunctionOnSet(amount, D)
  BY <1>1, <1>2, <1>3, AccountsAssumption, SumMoves
<1>5. SideTotal(legs, d) = SumFunctionOnSet(amount, D)
  BY DEF SideTotal, amount, D
<1>6. QED
  BY <1>1, <1>4, <1>5 DEF SumFunction

\* The four totals of TrialBalance.
DebitsPosted(ac) == [a \in Accounts |-> ac[a].debitsPosted]
CreditsPosted(ac) == [a \in Accounts |-> ac[a].creditsPosted]
DebitsPending(ac) == [a \in Accounts |-> ac[a].debitsPending]
CreditsPending(ac) == [a \in Accounts |-> ac[a].creditsPending]

TotalsClose(ac) ==
    /\ SumFunction(DebitsPosted(ac)) = SumFunction(CreditsPosted(ac))
    /\ SumFunction(DebitsPending(ac)) = SumFunction(CreditsPending(ac))

LEMMA TotalsTypes ==
    ASSUME NEW ac \in [Accounts -> Counters]
    PROVE  /\ DebitsPosted(ac) \in [Accounts -> Int] /\ CreditsPosted(ac) \in [Accounts -> Int]
           /\ DebitsPending(ac) \in [Accounts -> Int] /\ CreditsPending(ac) \in [Accounts -> Int]
  BY DEF Counters, DebitsPosted, CreditsPosted, DebitsPending, CreditsPending

\* A leg on side d adds its amount to the counter of that side.
Plus(n, added, leg) == IF added THEN n + leg.amount ELSE n

LEMMA NewLegCounters ==
    ASSUME NEW c \in Counters, NEW leg \in Leg, NEW phase \in {"PENDING", "POSTED"}
    PROVE  LET e == ApplyNew(c, leg, phase)
               debit == leg.direction = "DEBIT"
               credit == leg.direction = "CREDIT"
           IN  /\ e.debitsPosted = Plus(c.debitsPosted, phase = "POSTED" /\ debit, leg)
               /\ e.creditsPosted = Plus(c.creditsPosted, phase = "POSTED" /\ credit, leg)
               /\ e.debitsPending = Plus(c.debitsPending, phase = "PENDING" /\ debit, leg)
               /\ e.creditsPending = Plus(c.creditsPending, phase = "PENDING" /\ credit, leg)
  BY DEF Counters, Leg, Directions, ApplyNew, Plus

LEMMA ReleasedLegCounters ==
    ASSUME NEW c \in Counters, NEW leg \in Leg
    PROVE  LET e == Release(c, leg)
           IN  /\ e.debitsPosted = c.debitsPosted
               /\ e.creditsPosted = c.creditsPosted
               /\ c.debitsPending = Plus(e.debitsPending, leg.direction = "DEBIT", leg)
               /\ c.creditsPending = Plus(e.creditsPending, leg.direction = "CREDIT", leg)
  BY DEF Counters, Leg, Directions, Release, Plus

\* The four totals after a post.
LEMMA PostTotals ==
    ASSUME NEW ac \in [Accounts -> Counters], NEW legs \in LegSets,
           NEW phase \in {"PENDING", "POSTED"}
    PROVE  LET after == AfterPost(ac, legs, phase)
               debits == SideTotal(legs, "DEBIT")
               credits == SideTotal(legs, "CREDIT")
           IN  /\ IF phase = "POSTED"
                  THEN /\ SumFunction(DebitsPosted(after)) = SumFunction(DebitsPosted(ac)) + debits
                       /\ SumFunction(CreditsPosted(after)) = SumFunction(CreditsPosted(ac)) + credits
                  ELSE DebitsPosted(after) = DebitsPosted(ac) /\ CreditsPosted(after) = CreditsPosted(ac)
               /\ IF phase = "PENDING"
                  THEN /\ SumFunction(DebitsPending(after)) = SumFunction(DebitsPending(ac)) + debits
                       /\ SumFunction(CreditsPending(after)) = SumFunction(CreditsPending(ac)) + credits
                  ELSE DebitsPending(after) = DebitsPending(ac) /\ CreditsPending(after) = CreditsPending(ac)
<1> DEFINE after == AfterPost(ac, legs, phase)
<1>1. after \in [Accounts -> Counters]
  BY AfterTypes
<1>2. \A a \in Accounts \ DOMAIN legs : after[a] = ac[a]
  BY DEF AfterPost
<1>3. \A a \in DOMAIN legs : a \in Accounts /\ legs[a] \in Leg /\ after[a] = ApplyNew(ac[a], legs[a], phase)
  BY LegTypes DEF AfterPost
<1> HIDE DEF after
<1>4. ASSUME NEW a \in Accounts
      PROVE  /\ after[a].debitsPosted =
                    Plus(ac[a].debitsPosted, phase = "POSTED" /\ a \in SideOf(legs, "DEBIT"), legs[a])
             /\ after[a].creditsPosted =
                    Plus(ac[a].creditsPosted, phase = "POSTED" /\ a \in SideOf(legs, "CREDIT"), legs[a])
             /\ after[a].debitsPending =
                    Plus(ac[a].debitsPending, phase = "PENDING" /\ a \in SideOf(legs, "DEBIT"), legs[a])
             /\ after[a].creditsPending =
                    Plus(ac[a].creditsPending, phase = "PENDING" /\ a \in SideOf(legs, "CREDIT"), legs[a])
  <2>1. CASE a \in DOMAIN legs
    BY <1>3, <2>1, NewLegCounters DEF SideOf
  <2>2. CASE a \notin DOMAIN legs
    BY <1>2, <2>2 DEF SideOf, Plus
  <2>3. QED
    BY <2>1, <2>2
<1>5. /\ phase = "POSTED" => SumFunction(DebitsPosted(after)) =
                                 SumFunction(DebitsPosted(ac)) + SideTotal(legs, "DEBIT")
      /\ phase # "POSTED" => DebitsPosted(after) = DebitsPosted(ac)
  <2>1. \A a \in Accounts : DebitsPosted(after)[a] =
            Plus(DebitsPosted(ac)[a], phase = "POSTED" /\ a \in SideOf(legs, "DEBIT"), legs[a])
    BY <1>4 DEF DebitsPosted
  <2>2. DebitsPosted(ac) \in [Accounts -> Int] /\ DebitsPosted(after) \in [Accounts -> Int]
    BY <1>1, TotalsTypes
  <2>3. QED
    BY <2>1, <2>2, SideMoves DEF Plus
<1>6. /\ phase = "POSTED" => SumFunction(CreditsPosted(after)) =
                                 SumFunction(CreditsPosted(ac)) + SideTotal(legs, "CREDIT")
      /\ phase # "POSTED" => CreditsPosted(after) = CreditsPosted(ac)
  <2>1. \A a \in Accounts : CreditsPosted(after)[a] =
            Plus(CreditsPosted(ac)[a], phase = "POSTED" /\ a \in SideOf(legs, "CREDIT"), legs[a])
    BY <1>4 DEF CreditsPosted
  <2>2. CreditsPosted(ac) \in [Accounts -> Int] /\ CreditsPosted(after) \in [Accounts -> Int]
    BY <1>1, TotalsTypes
  <2>3. QED
    BY <2>1, <2>2, SideMoves DEF Plus
<1>7. /\ phase = "PENDING" => SumFunction(DebitsPending(after)) =
                                  SumFunction(DebitsPending(ac)) + SideTotal(legs, "DEBIT")
      /\ phase # "PENDING" => DebitsPending(after) = DebitsPending(ac)
  <2>1. \A a \in Accounts : DebitsPending(after)[a] =
            Plus(DebitsPending(ac)[a], phase = "PENDING" /\ a \in SideOf(legs, "DEBIT"), legs[a])
    BY <1>4 DEF DebitsPending
  <2>2. DebitsPending(ac) \in [Accounts -> Int] /\ DebitsPending(after) \in [Accounts -> Int]
    BY <1>1, TotalsTypes
  <2>3. QED
    BY <2>1, <2>2, SideMoves DEF Plus
<1>8. /\ phase = "PENDING" => SumFunction(CreditsPending(after)) =
                                  SumFunction(CreditsPending(ac)) + SideTotal(legs, "CREDIT")
      /\ phase # "PENDING" => CreditsPending(after) = CreditsPending(ac)
  <2>1. \A a \in Accounts : CreditsPending(after)[a] =
            Plus(CreditsPending(ac)[a], phase = "PENDING" /\ a \in SideOf(legs, "CREDIT"), legs[a])
    BY <1>4 DEF CreditsPending
  <2>2. CreditsPending(ac) \in [Accounts -> Int] /\ CreditsPending(after) \in [Accounts -> Int]
    BY <1>1, TotalsTypes
  <2>3. QED
    BY <2>1, <2>2, SideMoves DEF Plus
<1>9. QED
  BY <1>5, <1>6, <1>7, <1>8 DEF after

\* A transaction with equal sides leaves the ledger closed.
LEMMA PostKeepsTotals ==
    ASSUME NEW ac \in [Accounts -> Counters], NEW legs \in LegSets,
           NEW phase \in {"PENDING", "POSTED"}, TotalsClose(ac),
           SideTotal(legs, "DEBIT") = SideTotal(legs, "CREDIT")
    PROVE  TotalsClose(AfterPost(ac, legs, phase))
  BY PostTotals DEF TotalsClose

\* What resolving takes away, before a commit posts it.
ReleaseAll(ac, legs) ==
    [a \in DOMAIN ac |-> IF a \in DOMAIN legs THEN Release(ac[a], legs[a]) ELSE ac[a]]

\* Taking a reserve back is reserving it, backwards.
LEMMA ReleaseKeepsTotals ==
    ASSUME NEW ac \in [Accounts -> Counters], NEW legs \in LegSets, TotalsClose(ac),
           SideTotal(legs, "DEBIT") = SideTotal(legs, "CREDIT")
    PROVE  /\ ReleaseAll(ac, legs) \in [Accounts -> Counters]
           /\ TotalsClose(ReleaseAll(ac, legs))
<1> DEFINE after == ReleaseAll(ac, legs)
<1>1. after \in [Accounts -> Counters]
  BY LegTypes DEF ReleaseAll, Release, Counters, Leg
<1>2. \A a \in Accounts \ DOMAIN legs : after[a] = ac[a]
  BY DEF ReleaseAll
<1>3. \A a \in DOMAIN legs : a \in Accounts /\ legs[a] \in Leg /\ after[a] = Release(ac[a], legs[a])
  BY LegTypes DEF ReleaseAll
<1> HIDE DEF after
<1>4. ASSUME NEW a \in Accounts
      PROVE  /\ after[a].debitsPosted = ac[a].debitsPosted
             /\ after[a].creditsPosted = ac[a].creditsPosted
             /\ ac[a].debitsPending = Plus(after[a].debitsPending, a \in SideOf(legs, "DEBIT"), legs[a])
             /\ ac[a].creditsPending = Plus(after[a].creditsPending, a \in SideOf(legs, "CREDIT"), legs[a])
  <2>1. CASE a \in DOMAIN legs
    BY <1>3, <2>1, ReleasedLegCounters DEF SideOf
  <2>2. CASE a \notin DOMAIN legs
    BY <1>2, <2>2 DEF SideOf, Plus
  <2>3. QED
    BY <2>1, <2>2
<1>5. SumFunction(DebitsPending(ac)) = SumFunction(DebitsPending(after)) + SideTotal(legs, "DEBIT")
  <2>1. \A a \in Accounts : DebitsPending(ac)[a] =
            Plus(DebitsPending(after)[a], a \in SideOf(legs, "DEBIT"), legs[a])
    BY <1>4 DEF DebitsPending
  <2>2. DebitsPending(ac) \in [Accounts -> Int] /\ DebitsPending(after) \in [Accounts -> Int]
    BY <1>1, TotalsTypes
  <2>3. QED
    BY <2>1, <2>2, SideMoves DEF Plus
<1>6. SumFunction(CreditsPending(ac)) = SumFunction(CreditsPending(after)) + SideTotal(legs, "CREDIT")
  <2>1. \A a \in Accounts : CreditsPending(ac)[a] =
            Plus(CreditsPending(after)[a], a \in SideOf(legs, "CREDIT"), legs[a])
    BY <1>4 DEF CreditsPending
  <2>2. CreditsPending(ac) \in [Accounts -> Int] /\ CreditsPending(after) \in [Accounts -> Int]
    BY <1>1, TotalsTypes
  <2>3. QED
    BY <2>1, <2>2, SideMoves DEF Plus
<1>7. DebitsPosted(after) = DebitsPosted(ac) /\ CreditsPosted(after) = CreditsPosted(ac)
  BY <1>4 DEF DebitsPosted, CreditsPosted
<1>8. /\ SumFunction(DebitsPending(after)) \in Int /\ SumFunction(CreditsPending(after)) \in Int
      /\ SideTotal(legs, "DEBIT") \in Int
  <2>1. \A f \in [Accounts -> Int] : SumFunction(f) \in Int
    BY AccountsAssumption, SumTakeOut DEF SumFunction
  <2>2. SideTotal(legs, "DEBIT") \in Int
    <3>1. IsFiniteSet(SideOf(legs, "DEBIT"))
      BY LegTypes, AccountsAssumption, FS_Subset DEF SideOf
    <3>2. \A a \in SideOf(legs, "DEBIT") : [b \in DOMAIN legs |-> legs[b].amount][a] \in Int
      BY LegTypes DEF SideOf, Leg
    <3>3. QED
      BY <3>1, <3>2, SumTakeOut DEF SideTotal
  <2>3. QED
    BY <1>1, <2>1, <2>2, TotalsTypes
<1>9. SumFunction(DebitsPending(after)) = SumFunction(CreditsPending(after))
  <2>1. SumFunction(DebitsPending(after)) + SideTotal(legs, "DEBIT")
          = SumFunction(CreditsPending(after)) + SideTotal(legs, "DEBIT")
    BY <1>5, <1>6 DEF TotalsClose
  <2>2. \A x, y, n \in Int : x + n = y + n => x = y
    OBVIOUS
  <2>3. QED
    BY <1>8, <2>1, <2>2
<1>10. TotalsClose(after)
  BY <1>7, <1>9 DEF TotalsClose
<1>11. QED
  BY <1>1, <1>10 DEF after

\* A resolution releases and, on a commit, posts: the ledger stays closed.
LEMMA ResolveKeepsTotals ==
    ASSUME NEW ac \in [Accounts -> Counters], NEW legs \in LegSets,
           NEW commit \in BOOLEAN, TotalsClose(ac),
           SideTotal(legs, "DEBIT") = SideTotal(legs, "CREDIT")
    PROVE  TotalsClose(AfterResolve(ac, legs, commit))
<1> DEFINE released == ReleaseAll(ac, legs)
<1>1. released \in [Accounts -> Counters] /\ TotalsClose(released)
  BY ReleaseKeepsTotals
<1>2. AfterResolve(ac, legs, commit) = IF commit THEN AfterPost(released, legs, "POSTED") ELSE released
  BY LegTypes DEF AfterResolve, AfterPost, ReleaseAll, ApplyResolve
<1> HIDE DEF released
<1>3. TotalsClose(AfterPost(released, legs, "POSTED"))
  BY <1>1, PostKeepsTotals
<1>4. QED
  BY <1>1, <1>2, <1>3

\* Every recorded transaction passed assertBalanced.
EqualSides == \A k \in DOMAIN txn : SideTotal(txn[k].legs, "DEBIT") = SideTotal(txn[k].legs, "CREDIT")

CloseInv == RecordInv /\ IsFiniteSet(DOMAIN txn) /\ EqualSides /\ BooksClose

\* The reserves a new hold, or a resolved one, changes.
LEMMA ReservesGrow ==
    ASSUME NEW a, NEW d, NEW k,
           IsFiniteSet(ReservesOn(a, d)), k \notin ReservesOn(a, d),
           ReservesOn(a, d)' = ReservesOn(a, d) \cup {k},
           \A h \in ReservesOn(a, d) : /\ txn[h].legs[a].amount \in Int
                                       /\ txn'[h].legs[a].amount = txn[h].legs[a].amount,
           txn'[k].legs[a].amount \in Int
    PROVE  Outstanding(a, d)' = Outstanding(a, d) + txn'[k].legs[a].amount
<1> DEFINE R == ReservesOn(a, d)
           f == [h \in R |-> txn[h].legs[a].amount]
           g == [h \in R \cup {k} |-> txn'[h].legs[a].amount]
<1>1. /\ DOMAIN f = R /\ DOMAIN g = R \cup {k} /\ g[k] \in Int
      /\ \A h \in R : f[h] \in Int /\ g[h] = f[h]
  OBVIOUS
<1>2. Outstanding(a, d) = SumFunction(f) /\ Outstanding(a, d)' = SumFunction(g)
  BY DEF Outstanding
<1>3. g[k] = txn'[k].legs[a].amount
  OBVIOUS
<1> HIDE DEF f, g, R
<1>4. SumFunction(g) = SumFunction(f) + g[k]
  <2>1. IsFiniteSet(R) /\ k \notin R
    BY DEF R
  <2>2. QED
    BY <1>1, <2>1, SumGrows
<1>5. QED
  BY <1>2, <1>3, <1>4

LEMMA ReservesShrink ==
    ASSUME NEW a, NEW d, NEW k,
           IsFiniteSet(ReservesOn(a, d)'), k \notin ReservesOn(a, d)',
           ReservesOn(a, d) = ReservesOn(a, d)' \cup {k},
           \A h \in ReservesOn(a, d)' : /\ txn[h].legs[a].amount \in Int
                                        /\ txn'[h].legs[a].amount = txn[h].legs[a].amount,
           txn[k].legs[a].amount \in Int
    PROVE  /\ Outstanding(a, d) = Outstanding(a, d)' + txn[k].legs[a].amount
           /\ Outstanding(a, d)' \in Int
<1> DEFINE R == ReservesOn(a, d)'
           f == [h \in R |-> txn'[h].legs[a].amount]
           g == [h \in R \cup {k} |-> txn[h].legs[a].amount]
<1>1. /\ DOMAIN f = R /\ DOMAIN g = R \cup {k} /\ g[k] \in Int
      /\ \A h \in R : f[h] \in Int /\ g[h] = f[h]
  OBVIOUS
<1>2. Outstanding(a, d)' = SumFunction(f) /\ Outstanding(a, d) = SumFunction(g)
  BY DEF Outstanding
<1>3. g[k] = txn[k].legs[a].amount
  OBVIOUS
<1> HIDE DEF f, g, R
<1>4. IsFiniteSet(R) /\ k \notin R
  BY DEF R
<1>5. SumFunction(g) = SumFunction(f) + g[k]
  BY <1>1, <1>4, SumGrows
<1>6. SumFunction(f) \in Int
  BY <1>1, <1>4, SumTakeOut DEF SumFunction
<1>7. QED
  BY <1>2, <1>3, <1>5, <1>6

LEMMA ReservesSame ==
    ASSUME NEW a, NEW d, ReservesOn(a, d)' = ReservesOn(a, d),
           \A h \in ReservesOn(a, d) : txn'[h].legs = txn[h].legs
    PROVE  Outstanding(a, d)' = Outstanding(a, d)
  BY DEF Outstanding

\* The amount of a reserve is a number, and the reserves of an account are finitely many.
LEMMA ReserveTypes ==
    ASSUME TypeOK, IsFiniteSet(DOMAIN txn), NEW a, NEW d
    PROVE  /\ IsFiniteSet(ReservesOn(a, d))
           /\ \A h \in DOMAIN txn : a \in DOMAIN txn[h].legs => txn[h].legs[a] \in Leg
<1>1. IsFiniteSet(ReservesOn(a, d))
  BY FS_Subset DEF ReservesOn
<1>2. \A h \in DOMAIN txn : txn[h].legs \in LegSets
  BY DEF TypeOK, Txn
<1>3. QED
  BY <1>1, <1>2, LegTypes

LEMMA PostPending ==
    ASSUME CloseInv, NEW k \in Keys, NEW legs \in LegSets, NEW phase \in {"PENDING", "POSTED"},
           Post(k, legs, phase)
    PROVE  PendingMatchesHolds'
<1>t. TypeOK /\ RecordInv /\ IsFiniteSet(DOMAIN txn)
  BY DEF CloseInv, RecordInv
<1>0. /\ DOMAIN txn' = DOMAIN txn \cup {k}
      /\ k \notin DOMAIN txn
      /\ txn'[k].status = phase /\ txn'[k].legs = legs /\ txn'[k].resolves = NoKey
      /\ \A j \in DOMAIN txn : txn'[j] = txn[j]
  BY <1>t, PostRecord
<1>1. acct' = AfterPost(acct, legs, phase)
  BY DEF Post
<1> SUFFICES ASSUME NEW a \in Accounts
             PROVE  /\ acct'[a].debitsPending = Outstanding(a, "DEBIT")'
                    /\ acct'[a].creditsPending = Outstanding(a, "CREDIT")'
  BY DEF PendingMatchesHolds
<1>2. /\ acct[a] \in Counters
      /\ acct[a].debitsPending = Outstanding(a, "DEBIT")
      /\ acct[a].creditsPending = Outstanding(a, "CREDIT")
  BY <1>t DEF TypeOK, CloseInv, BooksClose, PendingMatchesHolds
<1>3. /\ acct'[a].debitsPending = Plus(acct[a].debitsPending,
                                       phase = "PENDING" /\ a \in SideOf(legs, "DEBIT"), legs[a])
      /\ acct'[a].creditsPending = Plus(acct[a].creditsPending,
                                        phase = "PENDING" /\ a \in SideOf(legs, "CREDIT"), legs[a])
  <2>1. CASE a \in DOMAIN legs
    <3>1. acct'[a] = ApplyNew(acct[a], legs[a], phase) /\ legs[a] \in Leg
      BY <1>t, <1>1, <2>1, LegTypes DEF AfterPost, TypeOK
    <3>2. QED
      BY <1>2, <2>1, <3>1, NewLegCounters DEF SideOf
  <2>2. CASE a \notin DOMAIN legs
    BY <1>t, <1>1, <2>2 DEF AfterPost, TypeOK, SideOf, Plus
  <2>3. QED
    BY <2>1, <2>2
<1>4. ASSUME NEW d \in Directions
      PROVE  Outstanding(a, d)' = Plus(Outstanding(a, d), phase = "PENDING" /\ a \in SideOf(legs, d), legs[a])
  <2>1. ReservesOn(a, d)' = ReservesOn(a, d) \cup
            (IF phase = "PENDING" /\ a \in SideOf(legs, d) THEN {k} ELSE {})
    BY <1>0 DEF ReservesOn, IsHold, SideOf
  <2>2. \A h \in ReservesOn(a, d) : h \in DOMAIN txn /\ a \in DOMAIN txn[h].legs /\ txn'[h] = txn[h]
    BY <1>0 DEF ReservesOn, SideOf
  <2>3. CASE phase = "PENDING" /\ a \in SideOf(legs, d)
    <3>1. a \in DOMAIN legs /\ legs[a].amount \in Int
      BY <2>3, LegTypes DEF SideOf, Leg
    <3>2. \A h \in ReservesOn(a, d) : txn[h].legs[a].amount \in Int
      BY <1>t, <2>2, ReserveTypes DEF Leg
    <3>3. IsFiniteSet(ReservesOn(a, d)) /\ k \notin ReservesOn(a, d)
      BY <1>t, <1>0, <2>2, ReserveTypes
    <3>4. Outstanding(a, d)' = Outstanding(a, d) + txn'[k].legs[a].amount
      BY <1>0, <2>1, <2>2, <2>3, <3>1, <3>2, <3>3, ReservesGrow
    <3>5. QED
      BY <1>0, <2>3, <3>4 DEF Plus
  <2>4. CASE ~(phase = "PENDING" /\ a \in SideOf(legs, d))
    BY <2>1, <2>2, <2>4, ReservesSame DEF Plus
  <2>5. QED
    BY <2>3, <2>4
<1>5. QED
  BY <1>2, <1>3, <1>4 DEF Directions

LEMMA ResolveReserves ==
    ASSUME CloseInv, NEW k \in Keys, NEW h \in Keys, NEW commit \in BOOLEAN,
           ResolvePending(k, h, commit)
    PROVE  PendingMatchesHolds'
<1>t. TypeOK /\ RecordInv /\ IsFiniteSet(DOMAIN txn)
  BY DEF CloseInv, RecordInv
<1>0. /\ DOMAIN txn' = DOMAIN txn \cup {k}
      /\ k \notin DOMAIN txn /\ h \in DOMAIN txn /\ h # k
      /\ txn[h].status = "PENDING"
      /\ txn'[k].status \in {"POSTED", "VOIDED"}
      /\ txn'[h].status = txn'[k].status
      /\ txn'[h].legs = txn[h].legs
      /\ \A j \in DOMAIN txn : j # h => txn'[j] = txn[j]
  BY <1>t, ResolveRecord, SMTT(30)
<1> DEFINE legs == txn[h].legs
<1>1. acct' = AfterResolve(acct, legs, commit) /\ legs \in LegSets
  BY <1>t, <1>0 DEF ResolvePending, TypeOK, Txn
<1>h. IsHold(h)
  BY <1>0, <1>t DEF IsHold, RecordInv, ResolvedOnce
<1> SUFFICES ASSUME NEW a \in Accounts
             PROVE  /\ acct'[a].debitsPending = Outstanding(a, "DEBIT")'
                    /\ acct'[a].creditsPending = Outstanding(a, "CREDIT")'
  BY DEF PendingMatchesHolds
<1>2. /\ acct[a] \in Counters
      /\ acct[a].debitsPending = Outstanding(a, "DEBIT")
      /\ acct[a].creditsPending = Outstanding(a, "CREDIT")
  BY <1>t DEF TypeOK, CloseInv, BooksClose, PendingMatchesHolds
<1>3. /\ acct'[a] \in Counters
      /\ acct[a].debitsPending = Plus(acct'[a].debitsPending, a \in SideOf(legs, "DEBIT"), legs[a])
      /\ acct[a].creditsPending = Plus(acct'[a].creditsPending, a \in SideOf(legs, "CREDIT"), legs[a])
  <2> HIDE DEF legs
  <2>1. CASE a \in DOMAIN legs
    <3>1. acct'[a] = ApplyResolve(acct[a], legs[a], commit) /\ legs[a] \in Leg
      BY <1>t, <1>1, <2>1, LegTypes DEF AfterResolve, TypeOK
    <3> DEFINE e == Release(acct[a], legs[a])
    <3>2. /\ e \in Counters
          /\ acct[a].debitsPending = Plus(e.debitsPending, legs[a].direction = "DEBIT", legs[a])
          /\ acct[a].creditsPending = Plus(e.creditsPending, legs[a].direction = "CREDIT", legs[a])
      <4>1. e \in Counters
        BY <1>2, <3>1 DEF Release, Counters, Leg
      <4>2. QED
        BY <1>2, <3>1, <4>1, ReleasedLegCounters
    <3>3. acct'[a] = IF commit THEN ApplyNew(e, legs[a], "POSTED") ELSE e
      BY <3>1 DEF ApplyResolve
    <3> HIDE DEF e
    <3>4. acct'[a] \in Counters /\ acct'[a].debitsPending = e.debitsPending
                                /\ acct'[a].creditsPending = e.creditsPending
      <4>1. ApplyNew(e, legs[a], "POSTED") \in Counters
        BY <3>1, <3>2, ApplyTypes
      <4>2. QED
        BY <3>1, <3>2, <3>3, <4>1, NewLegCounters DEF Plus
    <3>5. QED
      BY <2>1, <3>2, <3>4 DEF SideOf
  <2>2. CASE a \notin DOMAIN legs
    BY <1>t, <1>1, <1>2, <2>2 DEF AfterResolve, TypeOK, SideOf, Plus
  <2>3. QED
    BY <2>1, <2>2
<1>4. ASSUME NEW d \in Directions
      PROVE  /\ Outstanding(a, d) = Plus(Outstanding(a, d)', a \in SideOf(legs, d), legs[a])
             /\ a \in SideOf(legs, d) => Outstanding(a, d)' \in Int
  <2>1. ReservesOn(a, d)' = ReservesOn(a, d) \ {h}
    <3>1. ~(IsHold(h)') /\ ~(IsHold(k)')
      BY <1>0 DEF IsHold
    <3>2. \A j \in DOMAIN txn \ {h} : IsHold(j)' = IsHold(j) /\ txn'[j].legs = txn[j].legs
      BY <1>0 DEF IsHold
    <3>3. QED
      BY <1>0, <3>1, <3>2 DEF ReservesOn
  <2>2. \A j \in ReservesOn(a, d) : j \in DOMAIN txn /\ a \in DOMAIN txn[j].legs /\ txn'[j].legs = txn[j].legs
    BY <1>0 DEF ReservesOn, SideOf
  <2>3. CASE a \in SideOf(legs, d)
    <3>1. h \in ReservesOn(a, d)
      BY <1>0, <1>h, <2>3 DEF ReservesOn
    <3>2. a \in DOMAIN legs /\ legs[a].amount \in Int
      BY <1>1, <2>3, LegTypes DEF SideOf, Leg
    <3>3. \A j \in ReservesOn(a, d) : txn[j].legs[a].amount \in Int
      BY <1>t, <2>2, ReserveTypes DEF Leg
    <3>4. IsFiniteSet(ReservesOn(a, d)')
      BY <1>t, <2>1, ReserveTypes, FS_Subset
    <3>5. h \notin ReservesOn(a, d)' /\ ReservesOn(a, d) = ReservesOn(a, d)' \cup {h}
      BY <2>1, <3>1
    <3>6. /\ Outstanding(a, d) = Outstanding(a, d)' + txn[h].legs[a].amount
          /\ Outstanding(a, d)' \in Int
      BY <2>1, <2>2, <3>2, <3>3, <3>4, <3>5, ReservesShrink
    <3>7. QED
      BY <2>3, <3>6 DEF Plus
  <2>4. CASE a \notin SideOf(legs, d)
    <3>1. ReservesOn(a, d)' = ReservesOn(a, d)
      BY <2>1, <2>4 DEF ReservesOn
    <3>2. QED
      BY <2>2, <2>4, <3>1, ReservesSame DEF Plus
  <2>5. QED
    BY <2>3, <2>4
<1> HIDE DEF legs
<1>5. \A x, y : \A m \in Int : x \in Int /\ y \in Int /\ x + m = y + m => x = y
  OBVIOUS
<1>6. \A d \in Directions : a \in SideOf(legs, d) => legs[a].amount \in Int
  BY <1>1, LegTypes DEF SideOf, Leg
<1>7. acct'[a].debitsPending \in Int /\ acct'[a].creditsPending \in Int
      /\ acct[a].debitsPending \in Int /\ acct[a].creditsPending \in Int
  BY <1>2, <1>3 DEF Counters
<1>8. acct'[a].debitsPending = Outstanding(a, "DEBIT")'
  <2>1. CASE a \in SideOf(legs, "DEBIT")
    <3>1. acct'[a].debitsPending + legs[a].amount = Outstanding(a, "DEBIT")' + legs[a].amount
      BY <1>2, <1>3, <1>4, <2>1 DEF Directions, Plus
    <3>2. Outstanding(a, "DEBIT")' \in Int /\ legs[a].amount \in Int
      BY <1>4, <1>6, <2>1 DEF Directions
    <3>3. QED
      BY <1>5, <1>7, <3>1, <3>2
  <2>2. CASE a \notin SideOf(legs, "DEBIT")
    BY <1>2, <1>3, <1>4, <2>2 DEF Directions, Plus
  <2>3. QED
    BY <2>1, <2>2
<1>9. acct'[a].creditsPending = Outstanding(a, "CREDIT")'
  <2>1. CASE a \in SideOf(legs, "CREDIT")
    <3>1. acct'[a].creditsPending + legs[a].amount = Outstanding(a, "CREDIT")' + legs[a].amount
      BY <1>2, <1>3, <1>4, <2>1 DEF Directions, Plus
    <3>2. Outstanding(a, "CREDIT")' \in Int /\ legs[a].amount \in Int
      BY <1>4, <1>6, <2>1 DEF Directions
    <3>3. QED
      BY <1>5, <1>7, <3>1, <3>2
  <2>2. CASE a \notin SideOf(legs, "CREDIT")
    BY <1>2, <1>3, <1>4, <2>2 DEF Directions, Plus
  <2>3. QED
    BY <2>1, <2>2
<1>10. QED
  BY <1>8, <1>9

LEMMA CloseStep == CloseInv /\ [Next]_vars => CloseInv'
<1> SUFFICES ASSUME CloseInv, [Next]_vars PROVE CloseInv'
  OBVIOUS
<1>t. TypeOK /\ RecordInv /\ RecordInv' /\ IsFiniteSet(DOMAIN txn)
  BY RecordStep DEF CloseInv, RecordInv
<1>c. TotalsClose(acct) <=> TrialBalance
  BY DEF TotalsClose, TrialBalance, DebitsPosted, CreditsPosted, DebitsPending, CreditsPending
<1>d. TotalsClose(acct') <=> TrialBalance'
  BY DEF TotalsClose, TrialBalance, DebitsPosted, CreditsPosted, DebitsPending, CreditsPending
<1>1. ASSUME NEW k \in Keys, NEW legs \in LegSets, NEW phase \in {"PENDING", "POSTED"},
             Post(k, legs, phase)
      PROVE  CloseInv'
  <2>1. SideTotal(legs, "DEBIT") = SideTotal(legs, "CREDIT") /\ acct' = AfterPost(acct, legs, phase)
    BY <1>1 DEF Post, Balanced
  <2>2. TrialBalance'
    BY <1>t, <1>c, <1>d, <2>1, PostKeepsTotals DEF TypeOK, CloseInv, BooksClose
  <2>3. /\ DOMAIN txn' = DOMAIN txn \cup {k} /\ txn'[k].legs = legs
        /\ \A j \in DOMAIN txn : txn'[j] = txn[j]
    BY <1>1, <1>t, PostRecord
  <2>4. IsFiniteSet(DOMAIN txn')
    BY <1>t, <2>3, FS_AddElement
  <2>5. EqualSides'
    BY <2>1, <2>3 DEF CloseInv, EqualSides
  <2>6. QED
    BY <1>1, <1>t, <2>2, <2>4, <2>5, PostPending DEF CloseInv, BooksClose
<1>2. ASSUME NEW k \in Keys, NEW h \in Keys, NEW commit \in BOOLEAN,
             ResolvePending(k, h, commit)
      PROVE  CloseInv'
  <2>1. /\ DOMAIN txn' = DOMAIN txn \cup {k} /\ h \in DOMAIN txn
        /\ txn'[k].legs = txn[h].legs /\ txn'[h].legs = txn[h].legs
        /\ \A j \in DOMAIN txn : j # h => txn'[j] = txn[j]
    BY <1>2, <1>t, ResolveRecord, SMTT(30)
  <2>2. /\ SideTotal(txn[h].legs, "DEBIT") = SideTotal(txn[h].legs, "CREDIT")
        /\ txn[h].legs \in LegSets
        /\ acct' = AfterResolve(acct, txn[h].legs, commit)
    BY <1>2, <1>t, <2>1 DEF ResolvePending, CloseInv, EqualSides, TypeOK, Txn
  <2>3. TrialBalance'
    BY <1>t, <1>c, <1>d, <2>2, ResolveKeepsTotals DEF TypeOK, CloseInv, BooksClose
  <2>4. IsFiniteSet(DOMAIN txn')
    BY <1>t, <2>1, FS_AddElement
  <2>5. EqualSides'
    BY <2>1, <2>2 DEF CloseInv, EqualSides
  <2>6. QED
    BY <1>2, <1>t, <2>3, <2>4, <2>5, ResolveReserves DEF CloseInv, BooksClose
<1>3. ASSUME UNCHANGED <<acct, txn>> PROVE CloseInv'
  <2>1. PendingMatchesHolds'
    BY <1>3 DEF CloseInv, BooksClose, PendingMatchesHolds, Outstanding, ReservesOn, IsHold
  <2>2. TrialBalance'
    BY <1>3 DEF CloseInv, BooksClose, TrialBalance
  <2>3. IsFiniteSet(DOMAIN txn') /\ EqualSides'
    BY <1>3, <1>t DEF CloseInv, EqualSides
  <2>4. QED
    BY <1>t, <2>1, <2>2, <2>3 DEF CloseInv, BooksClose
<1>4. ASSUME NEW o \in Owners, OpenAccounts(o) PROVE CloseInv'
  BY <1>3, <1>4 DEF OpenAccounts
<1>5. CASE UNCHANGED vars
  BY <1>3, <1>5 DEF vars
<1>6. QED
  BY <1>1, <1>2, <1>4, <1>5 DEF Next, CommitPending, VoidPending

LEMMA CloseInit == Init => CloseInv
<1> SUFFICES ASSUME Init PROVE CloseInv
  OBVIOUS
<1>1. DOMAIN txn = {} /\ acct = [a \in Accounts |-> ZeroCounters]
  BY DEF Init
<1>2. IsFiniteSet(DOMAIN txn) /\ EqualSides
  BY <1>1, FS_EmptySet DEF EqualSides
<1>3. \A a \in Accounts : \A d \in Directions : Outstanding(a, d) = 0
  <2> SUFFICES ASSUME NEW a \in Accounts, NEW d \in Directions PROVE Outstanding(a, d) = 0
    OBVIOUS
  <2> DEFINE f == [h \in ReservesOn(a, d) |-> txn[h].legs[a].amount]
  <2>1. ReservesOn(a, d) = {}
    BY <1>1 DEF ReservesOn
  <2>2. DOMAIN f = {}
    BY <2>1
  <2>3. Outstanding(a, d) = SumFunction(f)
    BY DEF Outstanding
  <2> HIDE DEF f
  <2>4. QED
    BY <2>2, <2>3, SumOfNothing DEF SumFunction
<1>4. PendingMatchesHolds
  BY <1>1, <1>3 DEF PendingMatchesHolds, ZeroCounters, Directions
<1>5. TrialBalance
  <2>1. /\ [a \in Accounts |-> acct[a].debitsPosted] = [a \in Accounts |-> acct[a].creditsPosted]
        /\ [a \in Accounts |-> acct[a].debitsPending] = [a \in Accounts |-> acct[a].creditsPending]
    BY <1>1 DEF ZeroCounters
  <2>2. QED
    BY <2>1 DEF TrialBalance
<1>6. QED
  BY <1>2, <1>4, <1>5, RecordInit DEF CloseInv, BooksClose

\* The books close, for any chart of accounts and any number of transactions: the pending
\* counters are the sum of the reserves not yet resolved, and over the whole ledger debits
\* equal credits, for what is posted and for what is pending.
THEOREM BooksAlwaysClose == Spec => []BooksClose
<1>1. CloseInv => BooksClose
  BY DEF CloseInv
<1>2. QED
  BY <1>1, CloseInit, CloseStep, PTL DEF Spec

\* Entries are only appended, and a recorded outcome is final.
THEOREM HistoryNeverRewritten == Spec => HistoryIsAppendOnly
<1> DEFINE Kept ==
        /\ \A a \in Accounts :
               /\ Len(book[a]) <= Len(book'[a])
               /\ \A i \in 1..Len(book[a]) : book'[a][i] = book[a][i]
        /\ \A k \in DOMAIN txn :
               /\ k \in DOMAIN txn'
               /\ txn'[k].legs = txn[k].legs
               /\ txn[k].status # "PENDING" => txn'[k] = txn[k]
<1>1. TypeOK /\ [Next]_vars => [Kept]_vars
  <2> SUFFICES ASSUME TypeOK, Next PROVE Kept
    OBVIOUS
  <2>b. ASSUME NEW b \in [Accounts -> Seq(Entry)], NEW ac, NEW legs, NEW k, NEW phase,
               NEW a \in Accounts
        PROVE  /\ Len(b[a]) <= Len(Booked(b, ac, legs, k, phase)[a])
               /\ \A i \in 1..Len(b[a]) : Booked(b, ac, legs, k, phase)[a][i] = b[a][i]
    <3>1. b[a] \in Seq(Entry)
      OBVIOUS
    <3>2. CASE a \notin DOMAIN legs
      BY <3>1, <3>2 DEF Booked
    <3>3. CASE a \in DOMAIN legs
      <4> DEFINE e == [txn |-> k, direction |-> legs[a].direction,
                       amount |-> legs[a].amount, phase |-> phase,
                       resulting |-> PostedBalance(a, ac[a])]
      <4>1. Booked(b, ac, legs, k, phase)[a] = Append(b[a], e)
        BY <3>3 DEF Booked
      <4> HIDE DEF e
      <4>2. /\ Len(Append(b[a], e)) = Len(b[a]) + 1 /\ Len(b[a]) \in Nat
            /\ \A i \in 1..Len(b[a]) : Append(b[a], e)[i] = b[a][i]
        BY <3>1
      <4>3. QED
        BY <4>1, <4>2
    <3>4. QED
      BY <3>2, <3>3
  <2>1. ASSUME NEW k \in Keys, NEW legs \in LegSets, NEW phase, Post(k, legs, phase) PROVE Kept
    <3>1. /\ DOMAIN txn' = DOMAIN txn \cup {k} /\ \A j \in DOMAIN txn : txn'[j] = txn[j]
      BY <2>1, PostRecord
    <3>2. book' = Booked(book, AfterPost(acct, legs, phase), legs, k, phase)
      BY <2>1 DEF Post, IsRecorded
    <3>3. QED
      BY <3>1, <3>2, <2>b DEF TypeOK
  <2>2. ASSUME NEW k \in Keys, NEW h \in Keys, NEW commit \in BOOLEAN,
               ResolvePending(k, h, commit)
        PROVE  Kept
    <3>1. /\ DOMAIN txn' = DOMAIN txn \cup {k} /\ txn[h].status = "PENDING"
          /\ txn'[h].legs = txn[h].legs
          /\ \A j \in DOMAIN txn : j # h => txn'[j] = txn[j]
      BY SMTT(60), <2>2, ResolveRecord
    <3>2. book' = Booked(book, AfterResolve(acct, txn[h].legs, commit), txn[h].legs, k,
                         IF commit THEN "POSTED" ELSE "VOID")
      BY <2>2 DEF ResolvePending, IsRecorded, IsResolvable
    <3>3. QED
      BY <3>1, <3>2, <2>b DEF TypeOK
  <2>3. ASSUME NEW o \in Owners, OpenAccounts(o) PROVE Kept
    BY <2>3 DEF OpenAccounts, TypeOK
  <2>4. QED
    BY <2>1, <2>2, <2>3 DEF Next, CommitPending, VoidPending
<1>2. QED
  BY <1>1, Typing, PTL DEF Spec, HistoryIsAppendOnly

-----------------------------------------------------------------------------
(* The services implement the engine's specification: what is proved of the *)
(* engine for any legs holds under each of them.                            *)

\* ShadowLedgerService only ever makes calls of the engine, with legs it may post.
THEOREM ShadowUsesTheEngine == ShadowSpec => Spec
<1>1. [ShadowNext]_vars => [Next]_vars
  <2> SUFFICES ASSUME ShadowNext PROVE Next \/ UNCHANGED vars
    OBVIOUS
  <2>1. ASSUME NEW o \in Owners, openAccounts(o) PROVE Next
    BY <2>1 DEF openAccounts, Next
  <2>2. ASSUME NEW k \in Keys, NEW pending \in Keys, settleOut(k, pending) \/ voidOut(k, pending)
        PROVE  Next
    BY <2>2 DEF settleOut, voidOut, Next
  <2>3. ASSUME NEW k \in Keys, NEW o \in Owners, NEW n \in Amounts,
               \/ creditIn(k, o, n) \/ authorizeOut(k, o, n)
               \/ refundOut(k, o, n) \/ refundIn(k, o, n)
               \/ \E direction \in Directions : adjust(k, o, n, direction)
               \/ \E unblock \in BOOLEAN : moveBlocked(k, o, n, unblock)
        PROVE  Next
    <3>1. \E legs \in LegSets, phase \in {"PENDING", "POSTED"} : Post(k, legs, phase)
      BY <2>3, ServicesAssumption
         DEF ServicesAssumption, creditIn, authorizeOut, refundOut, refundIn, adjust, moveBlocked
    <3>2. QED
      BY <3>1 DEF Next
  <2>4. QED
    BY <2>1, <2>2, <2>3 DEF ShadowNext
<1>2. QED
  BY <1>1, PTL DEF ShadowSpec, Spec

\* The legs of an outgoing payment of the bank.
IsPixOut(legs) ==
    \E o \in Owners, n \in Amounts, fee \in FeeAmounts : legs = PixOutLegs(AvailableOf[o], n, fee)

\* Only authorizePixOut posts a hold, so what waits in the clearing account is a payment's.
OwedInv ==
    /\ TypeOK
    /\ \A k \in DOMAIN txn : txn[k].status = "PENDING" => IsPixOut(txn[k].legs)
    /\ \A p \in owed : p \in DOMAIN txn /\ IsPixOut(txn[p].legs)

LEMMA PixOutClears ==
    ASSUME NEW legs, IsPixOut(legs)
    PROVE  Between(Clearing, External, legs[Clearing].amount) \in LegSets
<1>1. PICK o \in Owners, n \in Amounts, fee \in FeeAmounts : legs = PixOutLegs(AvailableOf[o], n, fee)
  BY DEF IsPixOut
<1>2. Clearing # AvailableOf[o]
  BY ServicesAssumption DEF ServicesAssumption
<1>3. legs[Clearing].amount = n
  BY <1>1, <1>2 DEF PixOutLegs, Leg1
<1>4. QED
  BY <1>3, ServicesAssumption DEF ServicesAssumption

\* The legs of every call of the mock bank's LedgerService, by what the call posts.
LEMMA BankCalls ==
    ASSUME OwedInv, BankLedgerNext
    PROVE  \/ \E o \in Owners : OpenAccounts(o) /\ owed' = owed
           \/ \E k \in Keys, legs \in LegSets, phase \in {"PENDING", "POSTED"} :
                 /\ Post(k, legs, phase) /\ owed' \subseteq owed
                 /\ phase = "PENDING" => IsPixOut(legs)
           \/ \E k, h \in Keys, commit \in BOOLEAN :
                 ResolvePending(k, h, commit) /\ owed' \subseteq owed \cup {h}
<1>1. ASSUME NEW o \in Owners, openCustomerAccounts(o) PROVE OpenAccounts(o) /\ owed' = owed
  BY <1>1 DEF openCustomerAccounts
<1>2. ASSUME NEW k \in Keys, NEW o \in Owners, NEW n \in Amounts,
             \/ creditFromExternal(k, o, n) \/ postRefund(k, o, n)
             \/ \E unblock \in BOOLEAN : blockFunds(k, o, n, unblock)
      PROVE  \E legs \in LegSets : Post(k, legs, "POSTED") /\ owed' = owed
  BY <1>2, ServicesAssumption DEF ServicesAssumption, creditFromExternal, postRefund, blockFunds
<1>3. ASSUME NEW k \in Keys, NEW o \in Owners, NEW n \in Amounts, NEW fee \in FeeAmounts,
             authorizePixOut(k, o, n, fee)
      PROVE  \E legs \in LegSets : Post(k, legs, "PENDING") /\ IsPixOut(legs) /\ owed' = owed
  <2>1. PixOutLegs(AvailableOf[o], n, fee) \in LegSets
    BY ServicesAssumption DEF ServicesAssumption
  <2>2. IsPixOut(PixOutLegs(AvailableOf[o], n, fee))
    BY DEF IsPixOut
  <2>3. QED
    BY <1>3, <2>1, <2>2 DEF authorizePixOut
<1>4. ASSUME NEW k \in Keys, NEW h \in Keys, settlePixOut(k, h) \/ voidPixOut(k, h)
      PROVE  \E commit \in BOOLEAN : ResolvePending(k, h, commit) /\ owed' \subseteq owed \cup {h}
  BY <1>4 DEF settlePixOut, voidPixOut, CommitPending, VoidPending
<1>5. ASSUME NEW k \in Keys, NEW h \in Keys, settleExternal(k, h)
      PROVE  \E legs \in LegSets : Post(k, legs, "POSTED") /\ owed' \subseteq owed
  <2>1. Between(Clearing, External, txn[h].legs[Clearing].amount) \in LegSets
    BY <1>5, PixOutClears DEF settleExternal, OwedInv
  <2>2. QED
    BY <1>5, <2>1 DEF settleExternal
<1>6. CASE \E o \in Owners : openCustomerAccounts(o)
  BY <1>6, <1>1
<1>7. CASE \E k \in Keys, o \in Owners, n \in Amounts :
              \/ creditFromExternal(k, o, n) \/ postRefund(k, o, n)
              \/ \E fee \in FeeAmounts : authorizePixOut(k, o, n, fee)
              \/ \E unblock \in BOOLEAN : blockFunds(k, o, n, unblock)
  BY <1>7, <1>2, <1>3
<1>8. CASE \E k, h \in Keys : settlePixOut(k, h) \/ settleExternal(k, h) \/ voidPixOut(k, h)
  BY <1>8, <1>4, <1>5
<1>9. QED
  BY <1>6, <1>7, <1>8 DEF BankLedgerNext

LEMMA BankSteps == OwedInv /\ [BankLedgerNext]_bankLedgerVars => [Next]_vars
  BY BankCalls DEF bankLedgerVars, vars, Next, CommitPending, VoidPending

LEMMA OwedStep == OwedInv /\ [BankLedgerNext]_bankLedgerVars => OwedInv'
<1> SUFFICES ASSUME OwedInv, [BankLedgerNext]_bankLedgerVars PROVE OwedInv'
  OBVIOUS
<1>t. TypeOK'
  BY BankSteps, TypeStep DEF OwedInv
<1>1. CASE UNCHANGED bankLedgerVars
  BY <1>1, <1>t DEF bankLedgerVars, vars, OwedInv
<1>2. CASE BankLedgerNext
  <2>1. ASSUME NEW o \in Owners, OpenAccounts(o), owed' = owed PROVE OwedInv'
    BY <2>1, <1>t DEF OpenAccounts, OwedInv
  <2>2. ASSUME NEW k \in Keys, NEW legs \in LegSets, NEW phase \in {"PENDING", "POSTED"},
               Post(k, legs, phase), owed' \subseteq owed, phase = "PENDING" => IsPixOut(legs)
        PROVE  OwedInv'
    <3>1. /\ DOMAIN txn' = DOMAIN txn \cup {k} /\ k \notin DOMAIN txn
          /\ \A j \in DOMAIN txn : txn'[j] = txn[j]
          /\ txn'[k].status = phase /\ txn'[k].legs = legs
      <4>1. TypeOK
        BY DEF OwedInv
      <4>2. QED
        BY <2>2, <4>1, PostRecord
    <3>2. QED
      BY <2>2, <3>1, <1>t DEF OwedInv
  <2>3. ASSUME NEW k \in Keys, NEW h \in Keys, NEW commit \in BOOLEAN,
               ResolvePending(k, h, commit), owed' \subseteq owed \cup {h}
        PROVE  OwedInv'
    <3>1. /\ DOMAIN txn' = DOMAIN txn \cup {k} /\ h \in DOMAIN txn
          /\ txn[h].status = "PENDING" /\ txn'[h].legs = txn[h].legs
          /\ txn'[h].status # "PENDING" /\ txn'[k].status # "PENDING"
          /\ \A j \in DOMAIN txn : j # h => txn'[j] = txn[j]
      <4>1. TypeOK
        BY DEF OwedInv
      <4>2. /\ DOMAIN txn' = DOMAIN txn \cup {k} /\ h \in DOMAIN txn
            /\ txn[h].status = "PENDING" /\ txn'[h].legs = txn[h].legs
            /\ txn'[k].status \in {"POSTED", "VOIDED"} /\ txn'[h].status = txn'[k].status
            /\ \A j \in DOMAIN txn : j # h => txn'[j] = txn[j]
        <5>1. ResolvePending(k, h, commit)
          BY <2>3
        <5>2. QED
          BY <4>1, <5>1, ResolveRecord, SMTT(60)
      <4>3. QED
        BY <4>2
    <3>2. QED
      BY <2>3, <3>1, <1>t DEF OwedInv
  <2>4. QED
    BY <1>2, BankCalls, <2>1, <2>2, <2>3
<1>3. QED
  BY <1>1, <1>2

\* The mock bank's LedgerService only ever makes calls of the engine, the second half of a
\* settlement included: it moves what a payment left in the clearing account.
THEOREM BankUsesTheEngine == BankLedgerSpec => Spec
<1>1. BankLedgerInit => Init /\ OwedInv
  BY TypeInit DEF BankLedgerInit, OwedInv, Init
<1>2. QED
  BY <1>1, OwedStep, BankSteps, PTL DEF BankLedgerSpec, Spec

\* So under either service no customer is overdrawn, a hold is resolved once and can always
\* be resolved, the statements add up and the books close.
THEOREM ServicesKeepTheBooks ==
    LET Kept == NoOverdraft /\ ResolvedOnce /\ HoldAlwaysResolvable /\ RunningBalance /\ BooksClose
    IN  (ShadowSpec => []Kept) /\ (BankLedgerSpec => []Kept)
  BY ShadowUsesTheEngine, BankUsesTheEngine, NeverOverdrawn, EveryHoldResolvedOnce,
     HoldsStayResolvable, StatementsAddUp, BooksAlwaysClose, PTL
=============================================================================
