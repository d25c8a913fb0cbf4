----------------------------- MODULE ReconEngine -----------------------------
(***************************************************************************)
(* reconcile(): the five passes of the three-way reconciliation, a pure    *)
(* function of the items of one account and one window. A pass takes from  *)
(* the pools what the pass before it left.                                 *)
(*                                                                         *)
(* An item is the NormalizedItem of the code without its account (there is *)
(* one) and without the text of its evidence. Ids are numbers: < is the    *)
(* localeCompare of the code, and so the order in which ids were minted.   *)
(***************************************************************************)
EXTENDS Calendar, SequencesExt, FiniteSetsExt

CONSTANTS
  SettlementGrace,                   \* settlementGraceMinutes
  AmountToleranceCents,
  AmountToleranceBasisPoints,
  DateToleranceBusinessDays,
  AutoResolveDateWithinBusinessDays,
  CriticalAmountDeltaCents,
  MaxGreedyPairs

CONSTANT None                        \* an absent field

Abs(n) == IF n < 0 THEN -n ELSE n
Larger(a, b) == IF a > b THEN a ELSE b
ById(a, b) == a.id < b.id

\* The elements of S in an order that is total on S: the n-th has n - 1 before it.
Sorted(S, Before(_, _)) ==
  [n \in 1..Cardinality(S) |->
     CHOOSE x \in S : Cardinality({y \in S : Before(y, x)}) = n - 1]

\* The E2EID is unique in all of Pix, the provider's id only at the provider;
\* each has a namespace of its own.
strongKey(i) ==
  IF i.endToEndId # None THEN <<"e2e", i.endToEndId>>
  ELSE IF i.providerTransactionId # None THEN <<"ptx", i.providerTransactionId>>
  ELSE None

fuzzyKey(i) == <<i.direction, i.amountCents, i.effectiveDate>>

\* Mutant: the key is the provider's item even when both ends know the payment.
dedupeKeyByItem(endToEndId, providerItem, otherItem, isBalance) ==
  IF isBalance THEN <<"bal", 0>>
  ELSE IF providerItem # None THEN <<"pitem", providerItem.id>>
  ELSE <<"litem", otherItem.id>>
dedupeKeyFor(endToEndId, providerItem, otherItem, isBalance) ==
  IF endToEndId # None THEN <<"e2e", endToEndId>>
  ELSE IF isBalance THEN <<"bal", 0>>
  ELSE IF providerItem # None THEN <<"pitem", providerItem.id>>
  ELSE <<"litem", otherItem.id>>

amountTolerance(cents) ==
  Larger(1, ((Abs(cents) * AmountToleranceBasisPoints) + 9999) \div 10000)

(*************************** classification ********************************)

missingOnLocalSeverity(i) == IF i.direction = "CREDIT" THEN "HIGH" ELSE "CRITICAL"
missingOnProviderSeverity(i) == IF i.direction = "DEBIT" THEN "CRITICAL" ELSE "HIGH"
amountMismatchSeverity(delta) ==
  IF Abs(delta) > CriticalAmountDeltaCents THEN "CRITICAL" ELSE "MEDIUM"
dateMismatchSeverity(drift) ==
  IF drift <= AutoResolveDateWithinBusinessDays THEN "LOW" ELSE "MEDIUM"

orphanProviderBreakType(i) ==
  CASE i.type = "FEE" -> "UNMATCHED_FEE"
    [] i.type = "REFUND" -> "ORPHAN_REFUND"
    [] OTHER -> "MISSING_ON_LOCAL"

orphanProviderSeverity(i) ==
  CASE i.type = "FEE" -> "MEDIUM"
    [] i.type = "REFUND" -> "HIGH"
    [] OTHER -> missingOnLocalSeverity(i)

\* Only an unambiguous credit of the provider is imported.
importIntent(i, ambiguous) ==
  IF ~ambiguous /\ i.direction = "CREDIT" /\ i.side = "PROVIDER"
  THEN "IMPORT_FROM_PROVIDER" ELSE None

timingIntent(drift) ==
  IF drift > AutoResolveDateWithinBusinessDays THEN None ELSE "IGNORE_TIMING_DIFFERENCE"

\* A break about the items p, c and l (None where the break names no item of
\* that side), of the day and the payment of item i.
Draft(type, severity, i, key, delta, p, c, l, intent) ==
  [type |-> type, severity |-> severity, dedupeKey |-> key,
   effectiveDate |-> i.effectiveDate, endToEndId |-> i.endToEndId,
   amountCents |-> i.amountCents, deltaCents |-> delta,
   provider |-> p, local |-> c, ledger |-> l, autoResolution |-> intent]

Match(p, c, confidence, pass, needsReview) ==
  [provider |-> p, local |-> c, confidence |-> confidence, pass |-> pass,
   needsReview |-> needsReview]

(****************************** pass 1 *************************************)

Older(a, b) == a.postedAt < b.postedAt \/ (a.postedAt = b.postedAt /\ a.id < b.id)
escolherMaisAntigo(items) == CHOOSE i \in items : \A j \in items \ {i} : Older(i, j)
indexBy(items, key) == {i \in items : strongKey(i) = key}

Extra(items) == IF items = {} THEN {} ELSE items \ {escolherMaisAntigo(items)}

\* Two rows of one side with one strong key are one payment written twice.
duplicates(provider, local) ==
  {Draft("DUPLICATE_LOCAL", "HIGH", i, dedupeKeyFor(i.endToEndId, None, i, FALSE),
         None, None, i, None, None) : i \in Extra(local)}
  \cup
  {Draft("DUPLICATE_PROVIDER", "HIGH", i, dedupeKeyFor(i.endToEndId, i, None, FALSE),
         None, i, None, None, None) : i \in Extra(provider)}

\* The pair is certain; what differs between its ends is reported. Items of a
\* statement have no status, so STATUS_MISMATCH has no occasion to arise.
compareAttributes(p, c) ==
  LET delta == p.amountCents - c.amountCents
      drift == businessDaysBetween(c.effectiveDate, p.effectiveDate)
      key == dedupeKeyFor(p.endToEndId, None, c, FALSE)
      of == [c EXCEPT !.endToEndId = p.endToEndId]
  IN  (IF delta = 0 THEN {}
       ELSE {Draft("AMOUNT_MISMATCH", amountMismatchSeverity(delta), of, key, delta,
                   p, c, None, None)})
      \cup
      (IF p.effectiveDate = c.effectiveDate THEN {}
       ELSE {Draft("DATE_MISMATCH", dateMismatchSeverity(drift), of, key, None,
                   p, c, None, timingIntent(drift))})

passStrong(s) ==
  LET keys == ({strongKey(i) : i \in s.provider} \cap {strongKey(i) : i \in s.local}) \ {None}
      pairs == {<<escolherMaisAntigo(indexBy(s.provider, k)),
                  escolherMaisAntigo(indexBy(s.local, k))>> : k \in keys}
  IN  [s EXCEPT
         !.provider = {i \in @ : strongKey(i) \notin keys},
         !.local = {i \in @ : strongKey(i) \notin keys},
         !.matches = @ \cup {Match(q[1], q[2], "EXACT", 1, FALSE) : q \in pairs},
         !.breaks = @
           \cup (UNION {duplicates(indexBy(s.provider, k), indexBy(s.local, k)) : k \in keys})
           \cup (UNION {compareAttributes(q[1], q[2]) : q \in pairs})]

(****************************** pass 2 *************************************)

\* Candidates of a bucket, the nearest in time first, then by id.
Distance(q) == Abs(q[1].postedAt - q[2].postedAt)
Nearer(q, r) ==
  \/ Distance(q) < Distance(r)
  \/ Distance(q) = Distance(r) /\ q[1].id < r[1].id
  \/ Distance(q) = Distance(r) /\ q[1].id = r[1].id /\ q[2].id < r[2].id

\* Mutant: a local item is not marked as used.
casarGulosoReusing(provider, local) ==
  FoldLeft(LAMBDA pairs, q :
             IF \E r \in pairs : r[1] = q[1] THEN pairs ELSE pairs \cup {q},
           {}, Sorted(provider \X local, Nearer))
casarGuloso(provider, local) ==
  FoldLeft(LAMBDA pairs, q :
             IF \E r \in pairs : r[1] = q[1] \/ r[2] = q[2] THEN pairs ELSE pairs \cup {q},
           {}, Sorted(provider \X local, Nearer))

\* What is left over on one side of a bucket, with the counterparty of an item
\* that was paired, is a duplicate.
Twins(left, paired) ==
  {i \in left : i.party # None /\ \E j \in paired : j.party = i.party}

duplicatasSobrando(pairs, provider, local) ==
  LET P == {q[1] : q \in pairs}
      C == {q[2] : q \in pairs}
  IN  [provider |-> Twins(provider \ P, P), local |-> Twins(local \ C, C)]

Bucket(items, k) == {i \in items : fuzzyKey(i) = k}

\* A bucket too large to guess about is left to the next pass.
Guessable(P, C) ==
  LET n == Larger(Cardinality(P), Cardinality(C)) IN n = 1 \/ n <= MaxGreedyPairs

passDeterministicFuzzy(s) ==
  LET keys == {k \in {fuzzyKey(i) : i \in s.provider} \cap {fuzzyKey(i) : i \in s.local} :
                 Guessable(Bucket(s.provider, k), Bucket(s.local, k))}
      P(k) == Bucket(s.provider, k)
      C(k) == Bucket(s.local, k)
      pairs(k) == casarGuloso(P(k), C(k))
      extra(k) == duplicatasSobrando(pairs(k), P(k), C(k))
      ambiguous(k) == Cardinality(P(k)) > 1 \/ Cardinality(C(k)) > 1
  IN  [s EXCEPT
         !.provider = @ \ UNION {{q[1] : q \in pairs(k)} \cup extra(k).provider : k \in keys},
         !.local = @ \ UNION {{q[2] : q \in pairs(k)} \cup extra(k).local : k \in keys},
         !.matches = @ \cup UNION {{Match(q[1], q[2], "HIGH", 2, ambiguous(k)) :
                                      q \in pairs(k)} : k \in keys},
         !.breaks = @ \cup UNION
           {{Draft("DUPLICATE_LOCAL", "HIGH", i, dedupeKeyFor(i.endToEndId, None, i, FALSE),
                   None, None, i, None, None) : i \in extra(k).local}
            \cup
            {Draft("DUPLICATE_PROVIDER", "HIGH", i, dedupeKeyFor(i.endToEndId, i, None, FALSE),
                   None, i, None, None, None) : i \in extra(k).provider} : k \in keys}]

(****************************** pass 3 *************************************)

dentroDaJanela(p, c) ==
  /\ p.direction = c.direction
  /\ Abs(p.amountCents - c.amountCents)
       <= Larger(AmountToleranceCents, amountTolerance(c.amountCents))
  /\ businessDaysBetween(c.effectiveDate, p.effectiveDate) <= DateToleranceBusinessDays

faltaNoLocal(s, p, ambiguous) ==
  LET type == orphanProviderBreakType(p)
  IN  [s EXCEPT
         !.provider = @ \ {p},
         !.breaks = @ \cup
           {Draft(type, orphanProviderSeverity(p), p, dedupeKeyFor(p.endToEndId, p, None, FALSE),
                  None, p, None, None,
                  IF type = "MISSING_ON_LOCAL" THEN importIntent(p, ambiguous) ELSE None)}]

\* A recent item is not missing yet: the statement posts it later.
faltaNoProvedor(s, c, now) ==
  IF now - c.postedAt < SettlementGrace
  THEN [s EXCEPT !.local = @ \ {c}, !.pendingSettlement = @ \cup {c}]
  ELSE [s EXCEPT
          !.local = @ \ {c},
          !.breaks = @ \cup
            {Draft("MISSING_ON_PROVIDER", missingOnProviderSeverity(c), c,
                   dedupeKeyFor(c.endToEndId, None, c, FALSE), None, None, c, None, None)}]

\* A provider item with one candidate is paired with it; with several, which
\* one it is would be a guess.
passWindowedFuzzy(s, now) ==
  LET step(t, p) ==
        LET candidates == {c \in t.local : dentroDaJanela(p, c)}
        IN  IF Cardinality(candidates) = 1
            THEN LET c == CHOOSE c \in candidates : TRUE
                 IN  [t EXCEPT !.provider = @ \ {p}, !.local = @ \ {c},
                               !.matches = @ \cup {Match(p, c, "LOW", 3, TRUE)}]
            ELSE faltaNoLocal(t, p, Cardinality(candidates) > 1)
      paired == FoldLeft(step, s, Sorted(s.provider, ById))
  IN  FoldLeft(LAMBDA t, c : faltaNoProvedor(t, c, now), paired,
               Sorted(paired.local, ById))

(****************************** pass 4 *************************************)

\* The ledger's items of one transaction; the smallest id stands for them.
indexarPorTransacao(ledger, tx) == {l \in ledger : l.ledgerTransactionId = tx}
Representative(group) == CHOOSE l \in group : \A j \in group : l.id <= j.id

faltaNoRazao(c) ==
  Draft("MISSING_ON_LEDGER", "CRITICAL", c, dedupeKeyFor(c.endToEndId, None, c, FALSE),
        None, None, c, None, None)

conferirPerna(c, l) ==
  LET delta == l.amountCents - c.amountCents
      key == dedupeKeyFor(c.endToEndId, None, c, FALSE)
  IN  (IF delta = 0 THEN {}
       ELSE {Draft("AMOUNT_MISMATCH", "CRITICAL", c, key, delta, None, c, l, None)})
      \cup
      (IF l.effectiveDate = c.effectiveDate THEN {}
       ELSE {Draft("DATE_MISMATCH", "MEDIUM", c, key, None, None, c, l, None)})

lancamentoOrfao(l) ==
  Draft("MISSING_ON_LOCAL", "CRITICAL", l, dedupeKeyFor(None, None, l, FALSE),
        None, None, None, l, None)

\* The postings of local items that were not paired are taken out as well:
\* pass 3 has reported those items.
passLedgerCross(s, allLocal, ledger) ==
  LET group(c) == IF c.ledgerTransactionId = None THEN {}
                  ELSE indexarPorTransacao(ledger, c.ledgerTransactionId)
      matched == {m.local : m \in s.matches}
      orphans == ledger \ UNION {group(c) : c \in allLocal}
  IN  [s EXCEPT !.breaks = @
         \cup {faltaNoRazao(c) : c \in {d \in matched : group(d) = {}}}
         \cup (UNION {conferirPerna(c, Representative(group(c))) :
                        c \in {d \in matched : group(d) # {}}})
         \cup {lancamentoOrfao(l) : l \in orphans}]

(****************************** pass 5 *************************************)

Signed(i) == IF i.direction = "CREDIT" THEN i.amountCents ELSE -i.amountCents

\* A residue is a break of its own only when no item explains it.
passBalance(s, opening, closing, day) ==
  LET movement == FoldSet(LAMBDA m, sum : sum + Signed(m.provider), 0, s.matches)
      residue == closing - (opening + movement)
      account == [effectiveDate |-> day, endToEndId |-> None, amountCents |-> 0]
  IN  IF opening = None \/ closing = None \/ residue = 0 \/ s.breaks # {} THEN s
      ELSE [s EXCEPT !.breaks =
              {Draft("BALANCE_MISMATCH", "CRITICAL", account,
                     dedupeKeyFor(None, None, None, TRUE), residue,
                     None, None, None, None)}]

reconcile(provider, local, ledger, opening, closing, day, now) ==
  LET start == [provider |-> provider, local |-> local, matches |-> {}, breaks |-> {},
                pendingSettlement |-> {}]
      paired == passWindowedFuzzy(passDeterministicFuzzy(passStrong(start)), now)
  IN  passBalance(passLedgerCross(paired, local, ledger), opening, closing, day)
=============================================================================
