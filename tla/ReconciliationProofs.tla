------------------------ MODULE ReconciliationProofs ------------------------
(***************************************************************************)
(* Theorems about the reconciliation, for books and numbers of runs,       *)
(* workers and operators of any size.                                      *)
(*                                                                         *)
(* The engine: each pass keeps an account of the window, Accounted.  An    *)
(* item is in a pool and nothing is concluded about it, or it is out of    *)
(* the pools and exactly one thing is; after pass 3 the pools are empty.   *)
(* The folds of passes 2 and 3 are followed step by step along the list    *)
(* of their items (FoldRuns, by a least counterexample).                   *)
(*                                                                         *)
(* The runs: what a worker holds comes from records of the books, so the   *)
(* key of the row of a problem is the same in every run, and a problem is  *)
(* spoken of by the one worker that inserted its row.  No run takes back   *)
(* the decision of an operator to write a break off.                       *)
(***************************************************************************)
EXTENDS Reconciliation, SumTheorems, TLAPS

-----------------------------------------------------------------------------
(* Lists and folds.                                                        *)

\* Induction up to N, for a set of numbers.
LEMMA Upto ==
  ASSUME NEW N \in Nat, NEW B, 0 \in B, \A n \in 1..N : n - 1 \in B => n \in B
  PROVE  \A n \in 0..N : n \in B
<1> DEFINE T == {n \in 0..N : n \notin B}
<1> SUFFICES ASSUME T # {} PROVE FALSE
  OBVIOUS
<1>1. PICK n \in T : \A m \in T : n <= m
  <2>1. T \subseteq Nat
    OBVIOUS
  <2> HIDE DEF T
  <2>2. QED
    BY <2>1, LeastNatural
<1>2. n \in 1..N /\ n - 1 \in 0..N /\ ~(n <= n - 1)
  BY <1>1
<1>3. n - 1 \notin T
  BY <1>1, <1>2
<1>4. QED
  BY <1>1, <1>2, <1>3

\* R orders the members of S one after the other.
OrdersAll(R, S) ==
  /\ \A x \in S : <<x, x>> \notin R
  /\ \A x, y \in S : x # y => <<x, y>> \in R \/ <<y, x>> \in R
  /\ \A x, y, z \in S : <<x, y>> \in R /\ <<y, z>> \in R => <<x, z>> \in R

Below(R, S, x) == {y \in S : <<y, x>> \in R}

\* The number of members before it tells the members of an ordered set apart, and
\* every number is the number of some member.
LEMMA Ranks ==
  ASSUME NEW S, IsFiniteSet(S), NEW R, OrdersAll(R, S)
  PROVE  /\ \A x, y \in S : Cardinality(Below(R, S, x)) = Cardinality(Below(R, S, y)) => x = y
         /\ \A n \in 1..Cardinality(S) : \E x \in S : Cardinality(Below(R, S, x)) = n - 1
<1> DEFINE N == Cardinality(S)
           rank == [x \in S |-> Cardinality(Below(R, S, x))]
<1>1. N \in Nat
  BY FS_CardinalityType
<1>2. ASSUME NEW x \in S
      PROVE  IsFiniteSet(Below(R, S, x)) /\ Cardinality(Below(R, S, x)) \in Nat /\ Cardinality(Below(R, S, x)) < N
  <2>1. Below(R, S, x) \in SUBSET S /\ x \notin Below(R, S, x)
    BY DEF Below, OrdersAll
  <2>2. IsFiniteSet(Below(R, S, x)) /\ Cardinality(Below(R, S, x)) <= N /\ Cardinality(Below(R, S, x)) # N
    BY <2>1, FS_Subset
  <2>3. Cardinality(Below(R, S, x)) \in Nat
    BY <2>2, FS_CardinalityType
  <2>4. QED
    BY <1>1, <2>2, <2>3
<1>3. ASSUME NEW x \in S, NEW y \in S, <<x, y>> \in R
      PROVE  Cardinality(Below(R, S, x)) < Cardinality(Below(R, S, y))
  <2>1. Below(R, S, x) \in SUBSET Below(R, S, y) /\ x \in Below(R, S, y) /\ x \notin Below(R, S, x)
    BY <1>3 DEF Below, OrdersAll
  <2>2. /\ Cardinality(Below(R, S, x)) <= Cardinality(Below(R, S, y))
        /\ Cardinality(Below(R, S, x)) # Cardinality(Below(R, S, y))
    BY <1>2, <2>1, FS_Subset
  <2>3. QED
    BY <1>2, <2>2
<1>4. ASSUME NEW x \in S, NEW y \in S, x # y
      PROVE  Cardinality(Below(R, S, x)) # Cardinality(Below(R, S, y))
  <2>1. <<x, y>> \in R \/ <<y, x>> \in R
    BY <1>4 DEF OrdersAll
  <2>2. QED
    BY <1>2, <1>3, <2>1
<1>5. rank \in Injection(S, 0..(N - 1))
  <2>1. rank \in [S -> 0..(N - 1)]
    BY <1>1, <1>2
  <2>2. \A x, y \in S : rank[x] = rank[y] => x = y
    BY <1>4
  <2> HIDE DEF rank, N
  <2>3. QED
    BY <2>1, <2>2 DEF Injection, IsInjective
<1>6. IsFiniteSet(0..(N - 1)) /\ Cardinality(0..(N - 1)) = N
  <2>1. 0 \in Int /\ N - 1 \in Int
    BY <1>1
  <2>2. Cardinality(0..(N - 1)) = IF 0 > N - 1 THEN 0 ELSE (N - 1) - 0 + 1
    BY <2>1, FS_Interval
  <2>3. QED
    BY <1>1, <2>1, <2>2, FS_Interval
<1>7. rank \in Surjection(S, 0..(N - 1))
  <2> HIDE DEF rank
  <2> QED BY <1>5, <1>6, FS_Injection
<1>8. ASSUME NEW n \in 1..N PROVE \E x \in S : Cardinality(Below(R, S, x)) = n - 1
  <2>1. n - 1 \in 0..(N - 1)
    BY <1>1
  <2>2. \E x \in S : rank[x] = n - 1
    BY <1>7, <2>1 DEF Surjection
  <2>3. QED
    BY <2>2
<1>9. QED
  BY <1>4, <1>8

\* q lists the members of S, each once.
Lists(q, S) ==
  /\ q \in [1..Cardinality(S) -> S]
  /\ \A m, n \in 1..Cardinality(S) : q[m] = q[n] => m = n
  /\ \A x \in S : \E n \in 1..Cardinality(S) : q[n] = x

\* The members of a finite ordered set, each at the place of its rank, are a list of it.
LEMMA RankedList ==
  ASSUME NEW S, IsFiniteSet(S), NEW R, OrdersAll(R, S), NEW q,
         q = [n \in 1..Cardinality(S) |->
                CHOOSE x \in S : Cardinality(Below(R, S, x)) = n - 1]
  PROVE  Lists(q, S)
<1> DEFINE N == Cardinality(S)
<1>1. N \in Nat
  BY FS_CardinalityType
<1>2. ASSUME NEW n \in 1..N PROVE q[n] \in S /\ Cardinality(Below(R, S, q[n])) = n - 1
  <2>1. \E x \in S : Cardinality(Below(R, S, x)) = n - 1
    BY Ranks
  <2>2. q[n] = CHOOSE x \in S : Cardinality(Below(R, S, x)) = n - 1
    OBVIOUS
  <2>3. QED
    BY <2>1, <2>2
<1>3. ASSUME NEW x \in S PROVE \E n \in 1..N : q[n] = x
  <2>1. Below(R, S, x) \in SUBSET S /\ x \notin Below(R, S, x)
    BY DEF Below, OrdersAll
  <2>2. IsFiniteSet(Below(R, S, x)) /\ Cardinality(Below(R, S, x)) <= N /\ Cardinality(Below(R, S, x)) # N
    BY <2>1, FS_Subset
  <2>3. Cardinality(Below(R, S, x)) \in Nat
    BY <2>2, FS_CardinalityType
  <2> DEFINE n == Cardinality(Below(R, S, x)) + 1
  <2>4. n \in 1..N /\ n - 1 = Cardinality(Below(R, S, x))
    BY <1>1, <2>2, <2>3
  <2>5. q[n] \in S /\ Cardinality(Below(R, S, q[n])) = Cardinality(Below(R, S, x))
    BY <1>2, <2>4
  <2>6. q[n] = x
    BY <2>5, Ranks
  <2>7. QED
    BY <2>4, <2>6
<1>4. \A m, n \in 1..N : q[m] = q[n] => m = n
  BY <1>1, <1>2
<1>5. q \in [1..N -> S]
  BY <1>2
<1>6. QED
  BY <1>3, <1>4, <1>5 DEF Lists

\* The largest of the numbers of a subset of 1..N is one of them.
LEMMA MaxIsMember ==
  ASSUME NEW N \in Nat, NEW s \in SUBSET (1..N), s # {}
  PROVE  Max(s) \in s /\ \A y \in s : Max(s) >= y
<1> DEFINE T == {n \in Nat : N - n \in s}
<1>0. \A x \in s : x \in Int /\ N - x \in Nat /\ N - (N - x) = x
  OBVIOUS
<1>1. T \subseteq Nat /\ T # {}
  BY <1>0
<1>2. PICK n \in T : \A m \in T : n <= m
  <2> HIDE DEF T
  <2> QED BY <1>1, LeastNatural
<1> DEFINE x == N - n
<1>3. x \in s
  BY <1>2
<1>4. ASSUME NEW y \in s PROVE x >= y
  <2>1. N - y \in T
    BY <1>0
  <2>2. n <= N - y
    BY <1>2, <2>1
  <2>3. n \in Nat /\ y \in Int
    BY <1>0, <1>2
  <2>4. QED
    BY <2>2, <2>3
<1> HIDE DEF x
<1>5. QED
  BY <1>3, <1>4 DEF Max

\* The greatest number of 1..n is n.
LEMMA MaxOfInterval ==
  ASSUME NEW N \in Nat, NEW n \in 1..N
  PROVE  1..n \in SUBSET (1..N) /\ 1..n # {} /\ Max(1..n) = n /\ (1..n) \ {n} = 1..(n - 1)
<1>1. 1..n \in SUBSET (1..N) /\ n \in 1..n
  OBVIOUS
<1>2. Max(1..n) \in 1..n /\ Max(1..n) >= n
  BY <1>1, MaxIsMember
<1>3. QED
  BY <1>1, <1>2

\* g is a fold from base over 1..N, with the steps F takes.
FoldsBy(N, base, F, g) ==
  \A s \in SUBSET (1..N) : g[s] = IF s = {} THEN base ELSE F[<<g[s \ {Max(s)}], Max(s)>>]

\* There is one.
LEMMA FoldExists ==
  ASSUME NEW N \in Nat, NEW X, NEW base \in X, NEW F \in [X \X (1..N) -> X]
  PROVE  \E g \in [SUBSET (1..N) -> X] : FoldsBy(N, base, F, g)
<1> DEFINE B == {n \in 0..N : \E g \in [SUBSET (1..n) -> X] : FoldsBy(n, base, F, g)}
<1>1. 0 \in B
  <2> DEFINE g == [s \in SUBSET (1..0) |-> base]
  <2>1. g \in [SUBSET (1..0) -> X] /\ FoldsBy(0, base, F, g)
    BY DEF FoldsBy
  <2>2. QED
    BY <2>1
<1>2. ASSUME NEW n \in 1..N, n - 1 \in B PROVE n \in B
  <2>0. n \in Nat /\ n - 1 \in Nat
    OBVIOUS
  <2>1. PICK g \in [SUBSET (1..(n - 1)) -> X] : FoldsBy(n - 1, base, F, g)
    BY <1>2
  <2> DEFINE h == [s \in SUBSET (1..n) |-> IF n \in s THEN F[<<g[s \ {n}], n>>] ELSE g[s]]
  <2>2. \A s \in SUBSET (1..n) : IF n \in s THEN s \ {n} \in SUBSET (1..(n - 1)) ELSE s \in SUBSET (1..(n - 1))
    OBVIOUS
  <2>3. h \in [SUBSET (1..n) -> X]
    BY <2>1, <2>2
  <2>4. ASSUME NEW s \in SUBSET (1..n)
        PROVE  h[s] = IF s = {} THEN base ELSE F[<<h[s \ {Max(s)}], Max(s)>>]
    <3>1. CASE s = {}
      BY <3>1, <2>1, <2>2 DEF FoldsBy
    <3>2. CASE n \in s
      <4>1. Max(s) \in s /\ Max(s) >= n
        BY <2>0, <3>2, MaxIsMember
      <4>2. Max(s) = n
        <5>1. Max(s) \in 1..n
          BY <4>1
        <5>2. QED
          BY <4>1, <5>1
      <4>3. h[s \ {n}] = g[s \ {n}]
        BY <2>2, <3>2
      <4>4. QED
        BY <3>2, <4>2, <4>3
    <3>3. CASE n \notin s /\ s # {}
      <4>1. s \in SUBSET (1..(n - 1)) /\ Max(s) \in s
        BY <2>0, <2>2, <3>3, MaxIsMember
      <4>2. h[s \ {Max(s)}] = g[s \ {Max(s)}] /\ h[s] = g[s]
        BY <3>3
      <4>3. g[s] = F[<<g[s \ {Max(s)}], Max(s)>>]
        BY <2>1, <3>3, <4>1 DEF FoldsBy
      <4>4. QED
        BY <3>3, <4>2, <4>3
    <3>4. QED
      BY <3>1, <3>2, <3>3
  <2> HIDE DEF h
  <2>5. FoldsBy(n, base, F, h)
    BY <2>4 DEF FoldsBy
  <2>6. QED
    BY <2>3, <2>5
<1> HIDE DEF B
<1>3. \A n \in 0..N : n \in B
  BY <1>1, <1>2, Upto
<1>4. N \in B
  BY <1>3
<1>5. QED
  BY <1>4 DEF B

\* g is one as long as its values are in X.
StepsBy(N, X, base, F, g) ==
  /\ g[{}] = base
  /\ \A s \in SUBSET (1..N) :
       s # {} /\ g[s \ {Max(s)}] \in X => g[s] = F[<<g[s \ {Max(s)}], Max(s)>>]

\* The states of the fold g: the first one, and one after each step.
Runs(N, X, base, F, g, st) ==
  /\ st \in [0..N -> X] /\ st[0] = base /\ st[N] = g[1..N]
  /\ \A n \in 1..N : st[n] = F[<<st[n - 1], n>>]

\* What a fold goes through, one state after each member of the list.
LEMMA FoldRuns ==
  ASSUME NEW N \in Nat, NEW X, NEW base \in X, NEW F \in [X \X (1..N) -> X], NEW g,
         StepsBy(N, X, base, F, g)
  PROVE  \E st : Runs(N, X, base, F, g, st)
<1> DEFINE st == [n \in 0..N |-> g[1..n]]
           B == {n \in 0..N : g[1..n] \in X /\ (n > 0 => g[1..n] = F[<<g[1..(n - 1)], n>>])}
<1>1. 1..0 = {} /\ 0 \in B
  BY DEF StepsBy
<1>2. ASSUME NEW n \in 1..N, n - 1 \in B PROVE n \in B
  <2>1. g[1..(n - 1)] \in X
    BY <1>2
  <2>2. g[1..n] = F[<<g[1..(n - 1)], n>>]
    BY <2>1, MaxOfInterval DEF StepsBy
  <2>3. <<g[1..(n - 1)], n>> \in X \X (1..N)
    BY <2>1
  <2>4. F[<<g[1..(n - 1)], n>>] \in X
    BY <2>3
  <2>5. QED
    BY <2>2, <2>4
<1>3. \A n \in 0..N : n \in B
  <2> HIDE DEF B
  <2> QED BY <1>1, <1>2, Upto
<1>4. st \in [0..N -> X]
  BY <1>3
<1>5. \A n \in 1..N : st[n] = F[<<st[n - 1], n>>]
  <2> SUFFICES ASSUME NEW n \in 1..N PROVE st[n] = F[<<st[n - 1], n>>]
    OBVIOUS
  <2>1. n \in 0..N /\ n - 1 \in 0..N /\ n > 0
    OBVIOUS
  <2>2. st[n] = g[1..n] /\ st[n - 1] = g[1..(n - 1)]
    BY <2>1
  <2>3. QED
    BY <1>3, <2>1, <2>2
<1>6. st[0] = base /\ st[N] = g[1..N]
  BY <1>1 DEF StepsBy
<1> HIDE DEF st
<1>7. QED
  BY <1>4, <1>5, <1>6 DEF Runs

-----------------------------------------------------------------------------
(* The order of items.                                                     *)

\* Item i with the end-to-end id e, and that it is i otherwise.
WithE2e(i, e) == [i EXCEPT !.endToEndId = e]
TakesE2e(i) ==
  \A e : WithE2e(i, e).endToEndId = e /\ WithE2e(i, e).effectiveDate = i.effectiveDate

\* Items as a run mints them: each with an id of its own.
IsItems(S) ==
  /\ IsFiniteSet(S)
  /\ \A i \in S : i.id \in Int /\ i.postedAt \in Int /\ i # None /\ TakesE2e(i)
  /\ \A i, j \in S : i.id = j.id => i = j

\* What is left of items are items.
LEMMA SubsetOfItems == ASSUME NEW S, IsItems(S), NEW T \in SUBSET S PROVE IsItems(T)
  BY FS_Subset DEF IsItems

\* escolherMaisAntigo chooses one of the items: of two, one is the older.
LEMMA OldestIsMember ==
  ASSUME NEW S, IsItems(S), S # {} PROVE escolherMaisAntigo(S) \in S
<1> DEFINE R == {x \in S \X S : Older(x[1], x[2])}
<1>1. \A x, y \in S : <<x, y>> \in R <=> Older(x, y)
  OBVIOUS
<1> HIDE DEF R
<1>2. OrdersAll(R, S)
  <2>1. \A x \in S : ~Older(x, x)
    BY DEF Older, IsItems
  <2>2. \A x, y \in S : x # y => Older(x, y) \/ Older(y, x)
    BY DEF Older, IsItems
  <2>3. \A x, y, z \in S : Older(x, y) /\ Older(y, z) => Older(x, z)
    BY DEF Older, IsItems
  <2>4. QED
    BY <1>1, <2>1, <2>2, <2>3 DEF OrdersAll
<1>3. IsFiniteSet(S) /\ Cardinality(S) \in Nat /\ Cardinality(S) # 0
  BY FS_CardinalityType, FS_EmptySet DEF IsItems
<1>4. 1 \in 1..Cardinality(S)
  BY <1>3
<1>5. PICK x \in S : Cardinality(Below(R, S, x)) = 1 - 1
  BY <1>2, <1>3, <1>4, Ranks
<1>6. Below(R, S, x) = {}
  <2>1. IsFiniteSet(Below(R, S, x))
    BY <1>3, FS_Subset DEF Below
  <2>2. QED
    BY <1>5, <2>1, FS_EmptySet
<1>7. \A j \in S \ {x} : Older(x, j)
  BY <1>1, <1>2, <1>6 DEF Below, OrdersAll
<1>8. QED
  BY <1>7 DEF escolherMaisAntigo

\* A pass that walks the items by id meets each of them once.
LEMMA SortedById == ASSUME NEW S, IsItems(S) PROVE Lists(Sorted(S, ById), S)
<1> DEFINE R == {x \in S \X S : ById(x[1], x[2])}
<1>1. \A x, y \in S : <<x, y>> \in R <=> ById(x, y)
  OBVIOUS
<1> HIDE DEF R
<1>2. OrdersAll(R, S)
  BY <1>1 DEF OrdersAll, ById, IsItems
<1>3. \A x \in S : {y \in S : ById(y, x)} = Below(R, S, x)
  BY <1>1 DEF Below
<1>4. Sorted(S, ById) = [n \in 1..Cardinality(S) |-> CHOOSE x \in S : Cardinality(Below(R, S, x)) = n - 1]
  <2>1. \A n : (CHOOSE x \in S : Cardinality({y \in S : ById(y, x)}) = n - 1) =
               (CHOOSE x \in S : Cardinality(Below(R, S, x)) = n - 1)
    BY <1>3, Zenon
  <2>2. Sorted(S, ById) =
          [n \in 1..Cardinality(S) |-> CHOOSE x \in S : Cardinality({y \in S : ById(y, x)}) = n - 1]
    BY DEF Sorted
  <2>3. QED
    BY <2>1, <2>2, Zenon
<1>5. QED
  BY <1>2, <1>4, RankedList DEF IsItems

\* casarGuloso meets each candidate pair once.
LEMMA SortedByDistance ==
  ASSUME NEW P, IsItems(P), NEW C, IsItems(C) PROVE Lists(Sorted(P \X C, Nearer), P \X C)
<1> DEFINE S == P \X C
           R == {x \in S \X S : Nearer(x[1], x[2])}
<1>0. \A q \in S : q = <<q[1], q[2]>> /\ q[1] \in P /\ q[2] \in C
  OBVIOUS
<1>1. \A x, y \in S : <<x, y>> \in R <=> Nearer(x, y)
  OBVIOUS
<1>2. \A q \in S : Distance(q) \in Int /\ q[1].id \in Int /\ q[2].id \in Int
  BY DEF Distance, Abs, IsItems
<1>3. \A q, r \in S : q[1].id = r[1].id /\ q[2].id = r[2].id => q = r
  BY <1>0 DEF IsItems
<1> HIDE DEF R, S
<1>4. OrdersAll(R, S)
  <2>1. \A x \in S : ~Nearer(x, x)
    BY <1>2 DEF Nearer
  <2>2. \A x, y \in S : x # y => Nearer(x, y) \/ Nearer(y, x)
    BY <1>2, <1>3 DEF Nearer
  <2>3. \A x, y, z \in S : Nearer(x, y) /\ Nearer(y, z) => Nearer(x, z)
    BY <1>2 DEF Nearer
  <2>4. QED
    BY <1>1, <2>1, <2>2, <2>3 DEF OrdersAll
<1>5. \A x \in S : {y \in S : Nearer(y, x)} = Below(R, S, x)
  BY <1>1 DEF Below
<1>6. Sorted(S, Nearer) = [n \in 1..Cardinality(S) |-> CHOOSE x \in S : Cardinality(Below(R, S, x)) = n - 1]
  <2>1. \A n : (CHOOSE x \in S : Cardinality({y \in S : Nearer(y, x)}) = n - 1) =
               (CHOOSE x \in S : Cardinality(Below(R, S, x)) = n - 1)
    BY <1>5, Zenon
  <2>2. Sorted(S, Nearer) =
          [n \in 1..Cardinality(S) |-> CHOOSE x \in S : Cardinality({y \in S : Nearer(y, x)}) = n - 1]
    BY DEF Sorted
  <2>3. QED
    BY <2>1, <2>2, Zenon
<1>7. IsFiniteSet(S)
  BY FS_Product DEF S, IsItems
<1>8. Lists(Sorted(S, Nearer), S)
  BY <1>4, <1>6, <1>7, RankedList
<1>9. QED
  BY <1>8 DEF S

-----------------------------------------------------------------------------
(* casarGuloso: the nearest pairs first, each item once.                   *)

\* Pairs of which no two share an item.
Matching(pairs) == \A q, r \in pairs : q[1] = r[1] \/ q[2] = r[2] => q = r

\* One pair more, when its items are free.
Grown(pairs, q) ==
  IF \E r \in pairs : r[1] = q[1] \/ r[2] = q[2] THEN pairs ELSE pairs \cup {q}

\* casarGuloso uses no item of either side twice.
LEMMA GreedyIsMatching ==
  ASSUME NEW P, IsItems(P), NEW C, IsItems(C)
  PROVE  casarGuloso(P, C) \in SUBSET (P \X C) /\ Matching(casarGuloso(P, C))
<1> DEFINE S == P \X C
           N == Cardinality(S)
           q == Sorted(S, Nearer)
           X == {pairs \in SUBSET S : Matching(pairs)}
           F == [z \in X \X (1..N) |-> Grown(z[1], q[z[2]])]
           IsIter(g) == g = [s \in SUBSET (1..N) |->
                               IF s = {} THEN {} ELSE Grown(g[s \ {Max(s)}], q[Max(s)])]
           G == CHOOSE g : IsIter(g)
<1>1. N \in Nat /\ q \in [1..N -> S]
  <2>1. IsFiniteSet(S)
    BY FS_Product DEF IsItems
  <2>2. Lists(q, S)
    BY SortedByDistance
  <2> HIDE DEF S, q
  <2>3. QED
    BY <2>1, <2>2, FS_CardinalityType DEF Lists
<1>2. casarGuloso(P, C) = G[1..N]
  <2>1. DOMAIN q = 1..N
    BY DEF Sorted
  <2>2. casarGuloso(P, C) = FoldLeft(Grown, {}, q)
    BY DEF casarGuloso, Grown
  <2>3. FoldLeft(Grown, {}, q) = (CHOOSE g : g = [s \in SUBSET DOMAIN q |->
                                   IF s = {} THEN {} ELSE Grown(g[s \ {Max(s)}], q[Max(s)])])[DOMAIN q]
    BY DEF FoldLeft, MapThenFoldSet
  <2>4. QED
    BY <2>1, <2>2, <2>3
<1> HIDE DEF S, N, q
<1>3. {} \in X /\ \A pairs \in X, r \in S : Grown(pairs, r) \in X
  BY DEF Matching, Grown
<1> HIDE DEF X
<1>4. F \in [X \X (1..N) -> X] /\ \A pairs \in X, n \in 1..N : F[<<pairs, n>>] = Grown(pairs, q[n])
  BY <1>1, <1>3
<1> HIDE DEF F
<1>5. IsIter(G)
  <2>1. PICK g \in [SUBSET (1..N) -> X] : FoldsBy(N, {}, F, g)
    BY <1>1, <1>3, <1>4, FoldExists
  <2>2. ASSUME NEW s \in SUBSET (1..N)
        PROVE  g[s] = IF s = {} THEN {} ELSE Grown(g[s \ {Max(s)}], q[Max(s)])
    <3>1. CASE s = {}
      BY <2>1, <3>1 DEF FoldsBy
    <3>2. CASE s # {}
      <4>1. g[s \ {Max(s)}] \in X /\ Max(s) \in 1..N
        BY <1>1, <3>2, MaxIsMember
      <4>2. QED
        BY <1>4, <2>1, <3>2, <4>1 DEF FoldsBy
    <3>3. QED
      BY <3>1, <3>2
  <2>3. g = [s \in SUBSET (1..N) |-> g[s]]
    OBVIOUS
  <2>4. IsIter(g)
    BY <2>2, <2>3
  <2> HIDE DEF IsIter
  <2>5. QED
    BY <2>4
<1>6. G[1..N] \in X
  <2>1. G[{}] = {}
    BY <1>5
  <2>2. ASSUME NEW s \in SUBSET (1..N), s # {}, G[s \ {Max(s)}] \in X
        PROVE  G[s] = F[<<G[s \ {Max(s)}], Max(s)>>]
    <3>1. Max(s) \in 1..N
      BY <1>1, <2>2, MaxIsMember
    <3>2. G[s] = Grown(G[s \ {Max(s)}], q[Max(s)])
      BY <1>5, <2>2
    <3>3. QED
      BY <1>4, <2>2, <3>1, <3>2
  <2> HIDE DEF G
  <2>3. PICK st \in [0..N -> X] : st[N] = G[1..N]
    <3> DEFINE e == {}
    <3>1. StepsBy(N, X, e, F, G)
      BY <2>1, <2>2 DEF StepsBy
    <3>2. N \in Nat /\ e \in X /\ F \in [X \X (1..N) -> X]
      BY <1>1, <1>3, <1>4
    <3> HIDE DEF e
    <3>3. \E st : Runs(N, X, e, F, G, st)
      BY <3>1, <3>2, FoldRuns
    <3>4. QED
      BY <3>3 DEF Runs
  <2>4. N \in 0..N
    BY <1>1
  <2>5. QED
    BY <2>3, <2>4
<1>7. QED
  BY <1>2, <1>6 DEF X, S

-----------------------------------------------------------------------------
(* Accounting: what is concluded about an item.                            *)

\* What M, a set of pairs, D, a set of drafts, and W, the items that wait for the
\* statement, say of item i.
ProviderPairs(M, i) == {m \in M : m.provider = i}
ProviderDrafts(D, i) == {d \in D : d.provider = i /\ d.local = None}
LocalPairs(M, i) == {m \in M : m.local = i}
LocalDrafts(D, i) ==
  {d \in D : d.local = i /\ d.type \in {"DUPLICATE_LOCAL", "MISSING_ON_PROVIDER"}}
LocalWaits(W, i) == W \cap {i}

IsOne(S) == \E x : S = {x}

\* Nothing, or one thing.
ProviderFree(M, D, i) == ProviderPairs(M, i) = {} /\ ProviderDrafts(D, i) = {}
ProviderOnce(M, D, i) ==
  \/ IsOne(ProviderPairs(M, i)) /\ ProviderDrafts(D, i) = {}
  \/ ProviderPairs(M, i) = {} /\ IsOne(ProviderDrafts(D, i))
LocalFree(M, D, W, i) == LocalPairs(M, i) = {} /\ LocalDrafts(D, i) = {} /\ LocalWaits(W, i) = {}
LocalOnce(M, D, W, i) ==
  \/ IsOne(LocalPairs(M, i)) /\ LocalDrafts(D, i) = {} /\ LocalWaits(W, i) = {}
  \/ LocalPairs(M, i) = {} /\ IsOne(LocalDrafts(D, i)) /\ LocalWaits(W, i) = {}
  \/ LocalPairs(M, i) = {} /\ LocalDrafts(D, i) = {} /\ IsOne(LocalWaits(W, i))

\* A draft says on which items and which day it stands.
Grounded(d, P, C) ==
  /\ d.endToEndId # None =>
       /\ d.dedupeKey = <<"e2e", d.endToEndId>>
       /\ IF d.local # None THEN d.local \in C /\ d.effectiveDate = d.local.effectiveDate
          ELSE d.provider \in P /\ d.effectiveDate = d.provider.effectiveDate
  /\ d.autoResolution = "IMPORT_FROM_PROVIDER" => d.provider \in P

IsState(s) ==
  s = [provider |-> s.provider, local |-> s.local, matches |-> s.matches,
       breaks |-> s.breaks, pendingSettlement |-> s.pendingSettlement]

\* Between two passes: the items of a pool are free, the others are concluded about.
Accounted(s, P, C) ==
  /\ IsState(s)
  /\ s.provider \in SUBSET P /\ s.local \in SUBSET C
  /\ \A m \in s.matches : m.provider \in P /\ m.local \in C
  /\ \A d \in s.breaks : Grounded(d, P, C)
  /\ \A i \in P : IF i \in s.provider THEN ProviderFree(s.matches, s.breaks, i)
                  ELSE ProviderOnce(s.matches, s.breaks, i)
  /\ \A i \in C : IF i \in s.local THEN LocalFree(s.matches, s.breaks, s.pendingSettlement, i)
                  ELSE LocalOnce(s.matches, s.breaks, s.pendingSettlement, i)

\* What a pass adds about the items it takes from the pools, and about no other.
Adds(s, t, M, D, W, P, C) ==
  /\ IsState(t)
  /\ t.provider \in SUBSET s.provider /\ t.local \in SUBSET s.local
  /\ t.matches = s.matches \cup M /\ t.breaks = s.breaks \cup D
  /\ t.pendingSettlement = s.pendingSettlement \cup W
  /\ \A m \in M : m.provider \in P /\ m.local \in C
  /\ \A d \in D : Grounded(d, P, C)
  /\ \A i \in P : IF i \in s.provider \ t.provider THEN ProviderOnce(M, D, i)
                  ELSE ProviderFree(M, D, i)
  /\ \A i \in C : IF i \in s.local \ t.local THEN LocalOnce(M, D, W, i)
                  ELSE LocalFree(M, D, W, i)

\* A pass that concludes once about the items it takes, and about no other, keeps the account.
LEMMA AddsKeepsAccount ==
  ASSUME NEW P, NEW C, NEW s, Accounted(s, P, C), NEW t, NEW M, NEW D, NEW W,
         Adds(s, t, M, D, W, P, C)
  PROVE  Accounted(t, P, C)
<1>1. /\ IsState(t)
      /\ t.provider \in SUBSET P /\ t.local \in SUBSET C
      /\ \A m \in t.matches : m.provider \in P /\ m.local \in C
      /\ \A d \in t.breaks : Grounded(d, P, C)
  BY DEF Accounted, Adds
<1>2. ASSUME NEW i \in P
      PROVE  IF i \in t.provider THEN ProviderFree(t.matches, t.breaks, i)
             ELSE ProviderOnce(t.matches, t.breaks, i)
  <2>1. /\ ProviderPairs(t.matches, i) = ProviderPairs(s.matches, i) \cup ProviderPairs(M, i)
        /\ ProviderDrafts(t.breaks, i) = ProviderDrafts(s.breaks, i) \cup ProviderDrafts(D, i)
    BY DEF Adds, ProviderPairs, ProviderDrafts
  <2>2. IF i \in s.provider THEN ProviderFree(s.matches, s.breaks, i)
        ELSE ProviderOnce(s.matches, s.breaks, i)
    BY DEF Accounted
  <2>3. IF i \in s.provider \ t.provider THEN ProviderOnce(M, D, i) ELSE ProviderFree(M, D, i)
    BY DEF Adds
  <2>4. i \in t.provider => i \in s.provider
    BY DEF Adds
  <2>5. QED
    BY <2>1, <2>2, <2>3, <2>4 DEF ProviderFree, ProviderOnce
<1>3. ASSUME NEW i \in C
      PROVE  IF i \in t.local THEN LocalFree(t.matches, t.breaks, t.pendingSettlement, i)
             ELSE LocalOnce(t.matches, t.breaks, t.pendingSettlement, i)
  <2>1. /\ LocalPairs(t.matches, i) = LocalPairs(s.matches, i) \cup LocalPairs(M, i)
        /\ LocalDrafts(t.breaks, i) = LocalDrafts(s.breaks, i) \cup LocalDrafts(D, i)
        /\ LocalWaits(t.pendingSettlement, i) = LocalWaits(s.pendingSettlement, i) \cup LocalWaits(W, i)
    BY DEF Adds, LocalPairs, LocalDrafts, LocalWaits
  <2>2. IF i \in s.local THEN LocalFree(s.matches, s.breaks, s.pendingSettlement, i)
        ELSE LocalOnce(s.matches, s.breaks, s.pendingSettlement, i)
    BY DEF Accounted
  <2>3. IF i \in s.local \ t.local THEN LocalOnce(M, D, W, i) ELSE LocalFree(M, D, W, i)
    BY DEF Adds
  <2>4. i \in t.local => i \in s.local
    BY DEF Adds
  <2>5. QED
    BY <2>1, <2>2, <2>3, <2>4 DEF LocalFree, LocalOnce
<1>4. QED
  BY <1>1, <1>2, <1>3 DEF Accounted

-----------------------------------------------------------------------------
(* Drafts and pairs.                                                       *)

\* A row that is one payment written twice.
DuplicateProvider(i) ==
  Draft("DUPLICATE_PROVIDER", "HIGH", i, dedupeKeyFor(i.endToEndId, i, None, FALSE),
        None, i, None, None, None)
DuplicateLocal(i) ==
  Draft("DUPLICATE_LOCAL", "HIGH", i, dedupeKeyFor(i.endToEndId, None, i, FALSE),
        None, None, i, None, None)

\* No intention is taken for that of importing.
NoneIsNoIntent == None # "IMPORT_FROM_PROVIDER"

\* A duplicate concludes about one item, and stands on it.
LEMMA DuplicateFields ==
  ASSUME NoneIsNoIntent, NEW P, NEW C, \A i \in P \cup C : i # None
  PROVE  /\ \A i \in P : LET d == DuplicateProvider(i)
                         IN  d.provider = i /\ d.local = None /\ Grounded(d, P, C)
         /\ \A i \in C : LET d == DuplicateLocal(i)
                         IN  /\ d.provider = None /\ d.local = i /\ Grounded(d, P, C)
                             /\ d.type = "DUPLICATE_LOCAL"
<1>1. \A i, a, b : i.endToEndId # None => dedupeKeyFor(i.endToEndId, a, b, FALSE) = <<"e2e", i.endToEndId>>
  BY DEF dedupeKeyFor
<1>2. ASSUME NEW i \in P PROVE LET d == DuplicateProvider(i)
                               IN  d.provider = i /\ d.local = None /\ Grounded(d, P, C)
  <2> DEFINE d == DuplicateProvider(i)
  <2>1. /\ d.dedupeKey = dedupeKeyFor(i.endToEndId, i, None, FALSE) /\ d.endToEndId = i.endToEndId
        /\ d.effectiveDate = i.effectiveDate /\ d.provider = i /\ d.local = None
        /\ d.autoResolution = None
    BY DEF DuplicateProvider, Draft
  <2> HIDE DEF d
  <2>2. Grounded(d, P, C)
    BY <1>1, <2>1 DEF Grounded, NoneIsNoIntent
  <2>3. QED
    BY <2>1, <2>2 DEF d
<1>3. ASSUME NEW i \in C PROVE LET d == DuplicateLocal(i)
                               IN  /\ d.provider = None /\ d.local = i /\ Grounded(d, P, C)
                                   /\ d.type = "DUPLICATE_LOCAL"
  <2> DEFINE d == DuplicateLocal(i)
  <2>1. /\ d.dedupeKey = dedupeKeyFor(i.endToEndId, None, i, FALSE) /\ d.endToEndId = i.endToEndId
        /\ d.effectiveDate = i.effectiveDate /\ d.provider = None /\ d.local = i
        /\ d.autoResolution = None /\ d.type = "DUPLICATE_LOCAL"
    BY DEF DuplicateLocal, Draft
  <2> HIDE DEF d
  <2>2. Grounded(d, P, C)
    BY <1>1, <2>1 DEF Grounded, NoneIsNoIntent
  <2>3. QED
    BY <2>1, <2>2 DEF d
<1>4. QED
  BY <1>2, <1>3

-----------------------------------------------------------------------------
(* Pass 1 and pass 2: pairs.                                               *)

Firsts(pairs) == {q[1] : q \in pairs}
Seconds(pairs) == {q[2] : q \in pairs}

\* M is one match for each of the pairs.
MatchesOf(M, pairs) ==
  /\ \A m \in M : <<m.provider, m.local>> \in pairs
  /\ \A q \in pairs : \E m \in M : m.provider = q[1] /\ m.local = q[2]
  /\ \A m, n \in M : m.provider = n.provider /\ m.local = n.local => m = n

\* A pass that pairs some items, calls others duplicates, and remarks on pairs.
LEMMA PairingAdds ==
  ASSUME NoneIsNoIntent, NEW P, NEW C, \A i \in P \cup C : i # None,
         NEW s, Accounted(s, P, C), NEW t, IsState(t),
         NEW pairs \in SUBSET (s.provider \X s.local), Matching(pairs),
         NEW EP \in SUBSET (s.provider \ Firsts(pairs)),
         NEW EC \in SUBSET (s.local \ Seconds(pairs)),
         NEW M, MatchesOf(M, pairs),
         NEW O, \A d \in O : /\ Grounded(d, P, C) /\ d.local \in C
                             /\ d.type \notin {"DUPLICATE_LOCAL", "MISSING_ON_PROVIDER"},
         NEW D, D = {DuplicateProvider(i) : i \in EP} \cup {DuplicateLocal(i) : i \in EC} \cup O,
         t.provider = s.provider \ (Firsts(pairs) \cup EP),
         t.local = s.local \ (Seconds(pairs) \cup EC),
         t.matches = s.matches \cup M, t.breaks = s.breaks \cup D,
         t.pendingSettlement = s.pendingSettlement
  PROVE  Accounted(t, P, C)
<1>1. /\ s.provider \in SUBSET P /\ s.local \in SUBSET C
      /\ \A q \in pairs : q = <<q[1], q[2]>> /\ q[1] \in s.provider /\ q[2] \in s.local
      /\ EP \in SUBSET P /\ EC \in SUBSET C
  BY DEF Accounted
<1>2. /\ \A i \in P : LET d == DuplicateProvider(i)
                      IN  d.provider = i /\ d.local = None /\ Grounded(d, P, C)
      /\ \A i \in C : LET d == DuplicateLocal(i)
                      IN  /\ d.provider = None /\ d.local = i /\ Grounded(d, P, C)
                          /\ d.type = "DUPLICATE_LOCAL"
  BY DuplicateFields
<1>3. \A d \in D : \/ \E i \in EP : d = DuplicateProvider(i)
                   \/ \E i \in EC : d = DuplicateLocal(i)
                   \/ d \in O
  OBVIOUS
<1>4. \A d \in D : Grounded(d, P, C)
  BY <1>1, <1>2, <1>3
<1>5. ASSUME NEW m \in M PROVE /\ <<m.provider, m.local>> \in pairs
                               /\ m.provider \in s.provider /\ m.local \in s.local
                               /\ m.provider \in Firsts(pairs) /\ m.local \in Seconds(pairs)
  <2> DEFINE q == <<m.provider, m.local>>
  <2>1. q \in pairs /\ q[1] = m.provider /\ q[2] = m.local
    BY DEF MatchesOf
  <2> HIDE DEF q
  <2>2. QED
    BY <1>1, <2>1 DEF Firsts, Seconds
<1>6. \A m, n \in M : m.provider = n.provider \/ m.local = n.local => m = n
  <2> SUFFICES ASSUME NEW m \in M, NEW n \in M, m.provider = n.provider \/ m.local = n.local
               PROVE  m = n
    OBVIOUS
  <2> DEFINE q == <<m.provider, m.local>>
             r == <<n.provider, n.local>>
  <2>1. q \in pairs /\ r \in pairs /\ (q[1] = r[1] \/ q[2] = r[2])
    BY <1>5
  <2>2. q = r
    <3> HIDE DEF q, r
    <3> QED BY <2>1 DEF Matching
  <2>3. QED
    BY <2>2 DEF MatchesOf
<1>7. ASSUME NEW i \in P
      PROVE  IF i \in s.provider \ t.provider THEN ProviderOnce(M, D, i) ELSE ProviderFree(M, D, i)
  <2>1. ASSUME NEW d \in D, d.provider = i, d.local = None
        PROVE  i \in EP /\ d = DuplicateProvider(i)
    <3>1. d \notin O
      BY <2>1
    <3>2. \A j \in EC : d # DuplicateLocal(j)
      BY <1>1, <1>2, <2>1
    <3>3. QED
      BY <1>1, <1>2, <1>3, <2>1, <3>1, <3>2
  <2>2. CASE i \in EP
    <3>1. DuplicateProvider(i) \in D /\ DuplicateProvider(i).provider = i /\ DuplicateProvider(i).local = None
      BY <1>2, <2>2
    <3>2. ProviderDrafts(D, i) = {DuplicateProvider(i)}
      BY <2>1, <3>1 DEF ProviderDrafts
    <3>3. ProviderPairs(M, i) = {}
      BY <1>5, <2>2, ZenonT(40) DEF ProviderPairs
    <3>4. i \in s.provider \ t.provider
      BY <2>2
    <3>5. QED
      BY <3>2, <3>3, <3>4 DEF ProviderOnce, IsOne
  <2>3. CASE i \in Firsts(pairs)
    <3>1. ProviderDrafts(D, i) = {}
      BY <2>1, <2>3 DEF ProviderDrafts
    <3>2. PICK m \in M : m.provider = i
      BY <2>3 DEF Firsts, MatchesOf
    <3>3. ProviderPairs(M, i) = {m}
      BY <1>6, <3>2 DEF ProviderPairs
    <3>4. i \in s.provider \ t.provider
      BY <1>5, <2>3, <3>2
    <3>5. QED
      BY <3>1, <3>3, <3>4 DEF ProviderOnce, IsOne
  <2>4. CASE i \notin EP /\ i \notin Firsts(pairs)
    <3>1. ProviderDrafts(D, i) = {}
      BY <2>1, <2>4 DEF ProviderDrafts
    <3>2. ProviderPairs(M, i) = {}
      BY <1>5, <2>4, ZenonT(40) DEF ProviderPairs
    <3>3. i \notin s.provider \ t.provider
      BY <2>4
    <3>4. QED
      BY <3>1, <3>2, <3>3 DEF ProviderFree
  <2>5. QED
    BY <2>2, <2>3, <2>4
<1>8. ASSUME NEW i \in C
      PROVE  IF i \in s.local \ t.local THEN LocalOnce(M, D, {}, i) ELSE LocalFree(M, D, {}, i)
  <2>0. LocalWaits({}, i) = {} /\ i # None
    BY DEF LocalWaits
  <2>1. ASSUME NEW d \in D, d.local = i, d.type \in {"DUPLICATE_LOCAL", "MISSING_ON_PROVIDER"}
        PROVE  i \in EC /\ d = DuplicateLocal(i)
    <3>1. d \notin O
      BY <2>1
    <3>2. \A j \in EP : d # DuplicateProvider(j)
      BY <1>1, <1>2, <2>0, <2>1
    <3>3. QED
      BY <1>1, <1>2, <1>3, <2>1, <3>1, <3>2
  <2>2. CASE i \in EC
    <3>1. DuplicateLocal(i) \in D /\ DuplicateLocal(i).local = i /\ DuplicateLocal(i).type = "DUPLICATE_LOCAL"
      BY <1>2, <2>2
    <3>2. LocalDrafts(D, i) = {DuplicateLocal(i)}
      BY <2>1, <3>1 DEF LocalDrafts
    <3>3. LocalPairs(M, i) = {}
      BY <1>5, <2>2, ZenonT(40) DEF LocalPairs
    <3>4. i \in s.local \ t.local
      BY <2>2
    <3>5. QED
      BY <2>0, <3>2, <3>3, <3>4 DEF LocalOnce, IsOne
  <2>3. CASE i \in Seconds(pairs)
    <3>1. LocalDrafts(D, i) = {}
      BY <2>1, <2>3 DEF LocalDrafts
    <3>2. PICK m \in M : m.local = i
      BY <2>3 DEF Seconds, MatchesOf
    <3>3. LocalPairs(M, i) = {m}
      BY <1>6, <3>2 DEF LocalPairs
    <3>4. i \in s.local \ t.local
      BY <1>5, <2>3, <3>2
    <3>5. QED
      BY <2>0, <3>1, <3>3, <3>4 DEF LocalOnce, IsOne
  <2>4. CASE i \notin EC /\ i \notin Seconds(pairs)
    <3>1. LocalDrafts(D, i) = {}
      BY <2>1, <2>4 DEF LocalDrafts
    <3>2. LocalPairs(M, i) = {}
      BY <1>5, <2>4, ZenonT(40) DEF LocalPairs
    <3>3. i \notin s.local \ t.local
      BY <2>4
    <3>4. QED
      BY <2>0, <3>1, <3>2, <3>3 DEF LocalFree
  <2>5. QED
    BY <2>2, <2>3, <2>4
<1>9. Adds(s, t, M, D, {}, P, C)
  <2>1. \A m \in M : m.provider \in P /\ m.local \in C
    BY <1>1, <1>5
  <2>2. t.pendingSettlement = s.pendingSettlement \cup {}
    OBVIOUS
  <2>3. t.provider \in SUBSET s.provider /\ t.local \in SUBSET s.local
    OBVIOUS
  <2>4. QED
    BY <1>4, <1>7, <1>8, <2>1, <2>2, <2>3 DEF Adds
<1>10. QED
  BY <1>9, AddsKeepsAccount

\* A remark on a pair names our side of it, and its day.
LEMMA RemarksStand ==
  ASSUME NoneIsNoIntent, NEW P, NEW C, IsItems(C), NEW p \in P, NEW c \in C,
         NEW d \in compareAttributes(p, c)
  PROVE  /\ Grounded(d, P, C) /\ d.local \in C
         /\ d.type \notin {"DUPLICATE_LOCAL", "MISSING_ON_PROVIDER"}
<1> DEFINE key == dedupeKeyFor(p.endToEndId, None, c, FALSE)
           of == WithE2e(c, p.endToEndId)
           delta == p.amountCents - c.amountCents
           drift == businessDaysBetween(c.effectiveDate, p.effectiveDate)
<1>1. \/ d = Draft("AMOUNT_MISMATCH", amountMismatchSeverity(delta), of, key, delta,
                   p, c, None, None)
      \/ d = Draft("DATE_MISMATCH", dateMismatchSeverity(drift), of, key, None,
                   p, c, None, timingIntent(drift))
  BY Zenon DEF compareAttributes, WithE2e
<1>2. timingIntent(drift) # "IMPORT_FROM_PROVIDER"
  BY DEF timingIntent, NoneIsNoIntent
<1>3. of.endToEndId = p.endToEndId /\ of.effectiveDate = c.effectiveDate
  BY DEF IsItems, TakesE2e
<1>4. c # None /\ (p.endToEndId # None => key = <<"e2e", p.endToEndId>>)
  BY DEF IsItems, dedupeKeyFor
<1> HIDE DEF of, key, delta, drift
<1>5. /\ d.type \in {"AMOUNT_MISMATCH", "DATE_MISMATCH"} /\ d.local = c
      /\ d.dedupeKey = key /\ d.endToEndId = of.endToEndId /\ d.effectiveDate = of.effectiveDate
      /\ d.autoResolution \in {None, timingIntent(drift)}
  BY <1>1 DEF Draft
<1>6. QED
  BY <1>2, <1>3, <1>4, <1>5 DEF Grounded, NoneIsNoIntent

\* Pass 1 keeps the account: one pair for each strong key of both sides, the rest duplicates.
LEMMA StrongPass ==
  ASSUME NoneIsNoIntent, NEW P, NEW C, IsItems(P), IsItems(C), NEW s, Accounted(s, P, C)
  PROVE  Accounted(passStrong(s), P, C)
<1> DEFINE keys == ({strongKey(i) : i \in s.provider} \cap {strongKey(i) : i \in s.local}) \ {None}
           A(k) == indexBy(s.provider, k)
           B(k) == indexBy(s.local, k)
           a(k) == escolherMaisAntigo(A(k))
           b(k) == escolherMaisAntigo(B(k))
           pairs == {<<a(k), b(k)>> : k \in keys}
           M == {Match(q[1], q[2], "EXACT", 1, FALSE) : q \in pairs}
           EP == UNION {Extra(A(k)) : k \in keys}
           EC == UNION {Extra(B(k)) : k \in keys}
           O == UNION {compareAttributes(q[1], q[2]) : q \in pairs}
           U == UNION {duplicates(A(k), B(k)) : k \in keys}
           V == {DuplicateProvider(i) : i \in EP} \cup {DuplicateLocal(i) : i \in EC}
           D == V \cup O
           t == passStrong(s)
<1>0. /\ s.provider \in SUBSET P /\ s.local \in SUBSET C /\ IsState(s)
      /\ \A i \in P \cup C : i # None
  BY DEF Accounted, IsItems
<1>1. /\ IsState(t)
      /\ t.provider = {i \in s.provider : strongKey(i) \notin keys}
      /\ t.local = {i \in s.local : strongKey(i) \notin keys}
      /\ t.matches = s.matches \cup M
      /\ t.breaks = s.breaks \cup U \cup O
      /\ t.pendingSettlement = s.pendingSettlement
  <2> DEFINE x == {i \in s.provider : strongKey(i) \notin keys}
             y == {i \in s.local : strongKey(i) \notin keys}
             m == s.matches \cup M
             d == s.breaks \cup U \cup O
  <2>1. t = [s EXCEPT !.provider = x, !.local = y, !.matches = m, !.breaks = d]
    BY DEF passStrong
  <2> HIDE DEF x, y, m, d, t
  <2>2. t = [provider |-> x, local |-> y, matches |-> m, breaks |-> d,
             pendingSettlement |-> s.pendingSettlement]
    BY <1>0, <2>1 DEF IsState
  <2>3. QED
    BY <2>2 DEF IsState, x, y, m, d
<1>2. ASSUME NEW k \in keys
      PROVE  /\ A(k) \in SUBSET s.provider /\ B(k) \in SUBSET s.local
             /\ a(k) \in A(k) /\ b(k) \in B(k)
             /\ Extra(A(k)) = A(k) \ {a(k)} /\ Extra(B(k)) = B(k) \ {b(k)}
  <2>1. A(k) \in SUBSET s.provider /\ B(k) \in SUBSET s.local /\ A(k) # {} /\ B(k) # {}
    BY DEF indexBy
  <2>2. IsItems(A(k)) /\ IsItems(B(k))
    BY <1>0, <2>1, SubsetOfItems
  <2>3. a(k) \in A(k) /\ b(k) \in B(k)
    BY <2>1, <2>2, OldestIsMember
  <2>4. QED
    BY <2>1, <2>3 DEF Extra
<1>3. \A k : (\A i \in A(k) : strongKey(i) = k) /\ (\A i \in B(k) : strongKey(i) = k)
  BY DEF indexBy
<1>4. /\ \A i \in s.provider : i \in A(strongKey(i))
      /\ \A i \in s.local : i \in B(strongKey(i))
  BY DEF indexBy
<1> HIDE DEF keys, A, B, a, b, t
<1>5. \A k \in keys : strongKey(a(k)) = k /\ strongKey(b(k)) = k /\ a(k) \in s.provider /\ b(k) \in s.local
  BY <1>2, <1>3
<1>6. pairs \in SUBSET (s.provider \X s.local)
  BY <1>5
<1>7. \A q \in pairs : \E k \in keys : q[1] = a(k) /\ q[2] = b(k) /\ q = <<a(k), b(k)>>
  OBVIOUS
<1>8. /\ \A i : i \in Firsts(pairs) <=> \E k \in keys : i = a(k)
      /\ \A i : i \in Seconds(pairs) <=> \E k \in keys : i = b(k)
  <2>1. \A k \in keys : <<a(k), b(k)>> \in pairs /\ <<a(k), b(k)>>[1] = a(k) /\ <<a(k), b(k)>>[2] = b(k)
    OBVIOUS
  <2> HIDE DEF pairs
  <2>2. QED
    BY <1>7, <2>1, ZenonT(40) DEF Firsts, Seconds
<1>9. Matching(pairs)
  <2> HIDE DEF pairs
  <2> QED BY <1>5, <1>7 DEF Matching
<1>10. \A i : i \in EP <=> \E k \in keys : i \in A(k) /\ i # a(k)
  BY <1>2
<1>11. \A i : i \in EC <=> \E k \in keys : i \in B(k) /\ i # b(k)
  BY <1>2
<1>12. MatchesOf(M, pairs)
  <2>1. \A m \in M : \E q \in pairs : m = Match(q[1], q[2], "EXACT", 1, FALSE)
    OBVIOUS
  <2>2. \A q \in pairs : Match(q[1], q[2], "EXACT", 1, FALSE) \in M
    OBVIOUS
  <2>3. \A q \in pairs : q = <<q[1], q[2]>>
    BY <1>7
  <2>4. \A q : /\ Match(q[1], q[2], "EXACT", 1, FALSE).provider = q[1]
               /\ Match(q[1], q[2], "EXACT", 1, FALSE).local = q[2]
    BY DEF Match
  <2> HIDE DEF M, pairs
  <2>5. \A m \in M : \E q \in pairs : m.provider = q[1] /\ m.local = q[2] /\ q = <<m.provider, m.local>>
                                      /\ m = Match(q[1], q[2], "EXACT", 1, FALSE)
    <3> SUFFICES ASSUME NEW m \in M
                 PROVE  \E q \in pairs : m.provider = q[1] /\ m.local = q[2] /\ q = <<m.provider, m.local>>
                                          /\ m = Match(q[1], q[2], "EXACT", 1, FALSE)
      OBVIOUS
    <3>1. PICK q \in pairs : m = Match(q[1], q[2], "EXACT", 1, FALSE)
      BY <2>1
    <3>2. m.provider = q[1] /\ m.local = q[2]
      BY <2>4, <3>1
    <3>3. q = <<m.provider, m.local>>
      BY <2>3, <3>2
    <3>4. QED
      BY <3>1, <3>2, <3>3
  <2>6. ASSUME NEW m \in M, NEW n \in M, m.provider = n.provider, m.local = n.local PROVE m = n
    <3>1. PICK q \in pairs : m.provider = q[1] /\ m.local = q[2] /\ m = Match(q[1], q[2], "EXACT", 1, FALSE)
      BY <2>5
    <3>2. PICK r \in pairs : n.provider = r[1] /\ n.local = r[2] /\ n = Match(r[1], r[2], "EXACT", 1, FALSE)
      BY <2>5
    <3>3. QED
      BY <2>6, <3>1, <3>2
  <2>7. \A q \in pairs : \E m \in M : m.provider = q[1] /\ m.local = q[2]
    BY <2>2, <2>4
  <2>8. QED
    BY <2>5, <2>6, <2>7 DEF MatchesOf
<1>13. \A d \in O : /\ Grounded(d, P, C) /\ d.local \in C
                    /\ d.type \notin {"DUPLICATE_LOCAL", "MISSING_ON_PROVIDER"}
  <2>1. \A d \in O : \E q \in pairs : d \in compareAttributes(q[1], q[2])
    OBVIOUS
  <2>2. \A q \in pairs : q[1] \in P /\ q[2] \in C
    BY <1>0, <1>5, <1>7
  <2> HIDE DEF O, pairs
  <2>3. QED
    BY <2>1, <2>2, RemarksStand
<1>14. U = V
  <2>1. \A k : duplicates(A(k), B(k)) = {DuplicateProvider(i) : i \in Extra(A(k))}
                                          \cup {DuplicateLocal(i) : i \in Extra(B(k))}
    BY DEF duplicates, DuplicateProvider, DuplicateLocal
  <2>2. QED
    BY <2>1
<1>15. t.breaks = s.breaks \cup D
  <2> HIDE DEF U, V, O
  <2> QED BY <1>1, <1>14
<1>16. EP \in SUBSET (s.provider \ Firsts(pairs)) /\ EC \in SUBSET (s.local \ Seconds(pairs))
  <2> HIDE DEF EP, EC, pairs
  <2> QED BY <1>2, <1>3, <1>5, <1>8, <1>10, <1>11
<1>17. /\ t.provider = s.provider \ (Firsts(pairs) \cup EP)
       /\ t.local = s.local \ (Seconds(pairs) \cup EC)
  <2> HIDE DEF EP, EC, pairs
  <2>1. \A i \in s.provider : strongKey(i) \in keys <=> i \in Firsts(pairs) \cup EP
    BY <1>2, <1>3, <1>4, <1>5, <1>8, <1>10
  <2>2. \A i \in s.local : strongKey(i) \in keys <=> i \in Seconds(pairs) \cup EC
    BY <1>2, <1>3, <1>4, <1>5, <1>8, <1>11
  <2>3. QED
    BY <1>1, <2>1, <2>2
<1>18. D = {DuplicateProvider(i) : i \in EP} \cup {DuplicateLocal(i) : i \in EC} \cup O
  OBVIOUS
<1> HIDE DEF EP, EC, pairs, M, O, D
<1>19. Accounted(t, P, C)
  BY <1>0, <1>1, <1>6, <1>9, <1>12, <1>13, <1>15, <1>16, <1>17, <1>18, PairingAdds
<1>20. QED
  BY <1>19 DEF t

\* Pass 2 keeps the account: the pairs of a bucket, and what is left over with a partner's party.
LEMMA FuzzyPass ==
  ASSUME NoneIsNoIntent, NEW P, NEW C, IsItems(P), IsItems(C), NEW s, Accounted(s, P, C)
  PROVE  Accounted(passDeterministicFuzzy(s), P, C)
<1> DEFINE A(k) == Bucket(s.provider, k)
           B(k) == Bucket(s.local, k)
           keys == {k \in {fuzzyKey(i) : i \in s.provider} \cap {fuzzyKey(i) : i \in s.local} :
                      Guessable(A(k), B(k))}
           g(k) == casarGuloso(A(k), B(k))
           x(k) == duplicatasSobrando(g(k), A(k), B(k))
           amb(k) == Cardinality(A(k)) > 1 \/ Cardinality(B(k)) > 1
           pairs == UNION {g(k) : k \in keys}
           M == UNION {{Match(q[1], q[2], "HIGH", 2, amb(k)) : q \in g(k)} : k \in keys}
           EP == UNION {x(k).provider : k \in keys}
           EC == UNION {x(k).local : k \in keys}
           TP == UNION {{q[1] : q \in g(k)} \cup x(k).provider : k \in keys}
           TC == UNION {{q[2] : q \in g(k)} \cup x(k).local : k \in keys}
           U == UNION {{DuplicateLocal(i) : i \in x(k).local}
                       \cup {DuplicateProvider(i) : i \in x(k).provider} : k \in keys}
           D == {DuplicateProvider(i) : i \in EP} \cup {DuplicateLocal(i) : i \in EC} \cup {}
           t == passDeterministicFuzzy(s)
<1>0. /\ s.provider \in SUBSET P /\ s.local \in SUBSET C /\ IsState(s)
      /\ \A i \in P \cup C : i # None
  BY DEF Accounted, IsItems
<1>1. /\ IsState(t)
      /\ t.provider = s.provider \ TP /\ t.local = s.local \ TC
      /\ t.matches = s.matches \cup M /\ t.breaks = s.breaks \cup U
      /\ t.pendingSettlement = s.pendingSettlement
  <2> DEFINE a == s.provider \ TP
             b == s.local \ TC
             m == s.matches \cup M
             d == s.breaks \cup U
  <2>1. t = [s EXCEPT !.provider = a, !.local = b, !.matches = m, !.breaks = d]
    BY DEF passDeterministicFuzzy, DuplicateLocal, DuplicateProvider
  <2> HIDE DEF a, b, m, d, t
  <2>2. t = [provider |-> a, local |-> b, matches |-> m, breaks |-> d,
             pendingSettlement |-> s.pendingSettlement]
    BY <1>0, <2>1 DEF IsState
  <2>3. QED
    BY <2>2 DEF IsState, a, b, m, d
<1>2. ASSUME NEW k
      PROVE  /\ A(k) \in SUBSET s.provider /\ B(k) \in SUBSET s.local
             /\ (\A i \in A(k) : fuzzyKey(i) = k) /\ (\A i \in B(k) : fuzzyKey(i) = k)
             /\ g(k) \in SUBSET (A(k) \X B(k)) /\ Matching(g(k))
             /\ x(k).provider \in SUBSET (A(k) \ Firsts(g(k)))
             /\ x(k).local \in SUBSET (B(k) \ Seconds(g(k)))
  <2>1. /\ A(k) \in SUBSET s.provider /\ B(k) \in SUBSET s.local
        /\ (\A i \in A(k) : fuzzyKey(i) = k) /\ (\A i \in B(k) : fuzzyKey(i) = k)
    BY DEF Bucket
  <2>2. A(k) \in SUBSET P /\ B(k) \in SUBSET C
    BY <1>0, <2>1
  <2>3. IsItems(A(k)) /\ IsItems(B(k))
    BY <2>2, SubsetOfItems
  <2>4. g(k) \in SUBSET (A(k) \X B(k)) /\ Matching(g(k))
    BY <2>3, GreedyIsMatching
  <2>5. /\ x(k).provider = Twins(A(k) \ Firsts(g(k)), Firsts(g(k)))
        /\ x(k).local = Twins(B(k) \ Seconds(g(k)), Seconds(g(k)))
    BY DEF duplicatasSobrando, Firsts, Seconds
  <2> HIDE DEF A, B, g, x
  <2>6. QED
    BY <2>1, <2>4, <2>5 DEF Twins
<1>3. U = {DuplicateProvider(i) : i \in EP} \cup {DuplicateLocal(i) : i \in EC}
  <2> HIDE DEF keys, x
  <2> QED OBVIOUS
<1> HIDE DEF keys, A, B, g, x, amb, t, U
<1>4. /\ TP = Firsts(pairs) \cup EP /\ TC = Seconds(pairs) \cup EC
  BY DEF Firsts, Seconds
<1>5. \A q \in pairs : \E k \in keys : q \in g(k)
  OBVIOUS
<1>6. \A q, k : q \in g(k) => /\ q = <<q[1], q[2]>> /\ q[1] \in s.provider /\ q[2] \in s.local
                              /\ q[1] \in A(k) /\ q[2] \in B(k)
                              /\ fuzzyKey(q[1]) = k /\ fuzzyKey(q[2]) = k
  BY <1>2
<1>7. pairs \in SUBSET (s.provider \X s.local)
  <2>1. \A q \in pairs : q \in s.provider \X s.local
    BY <1>5, <1>6
  <2>2. QED
    BY <2>1
<1>8. Matching(pairs)
  <2> SUFFICES ASSUME NEW q \in pairs, NEW r \in pairs, q[1] = r[1] \/ q[2] = r[2] PROVE q = r
    BY DEF Matching
  <2>1. PICK k \in keys : q \in g(k)
    BY <1>5
  <2>2. PICK l \in keys : r \in g(l)
    BY <1>5
  <2>3. k = l
    BY <1>6, <2>1, <2>2
  <2>4. QED
    BY <1>2, <2>1, <2>2, <2>3 DEF Matching
<1>9. ASSUME NEW k \in keys
      PROVE  /\ x(k).provider \in SUBSET (s.provider \ Firsts(pairs))
             /\ x(k).local \in SUBSET (s.local \ Seconds(pairs))
  <2>1. ASSUME NEW i \in x(k).provider, i \in Firsts(pairs) PROVE FALSE
    <3>1. PICK q \in pairs : q[1] = i
      BY <2>1 DEF Firsts
    <3>2. PICK l \in keys : q \in g(l)
      BY <1>5
    <3>3. i \in A(k) /\ i \notin Firsts(g(k)) /\ fuzzyKey(i) = k
      BY <1>2
    <3>4. l = k
      BY <1>6, <3>1, <3>2, <3>3
    <3>5. QED
      BY <3>1, <3>2, <3>3, <3>4 DEF Firsts
  <2>2. ASSUME NEW i \in x(k).local, i \in Seconds(pairs) PROVE FALSE
    <3>1. PICK q \in pairs : q[2] = i
      BY <2>2 DEF Seconds
    <3>2. PICK l \in keys : q \in g(l)
      BY <1>5
    <3>3. i \in B(k) /\ i \notin Seconds(g(k)) /\ fuzzyKey(i) = k
      BY <1>2
    <3>4. l = k
      BY <1>6, <3>1, <3>2, <3>3
    <3>5. QED
      BY <3>1, <3>2, <3>3, <3>4 DEF Seconds
  <2>3. x(k).provider \in SUBSET s.provider /\ x(k).local \in SUBSET s.local
    BY <1>2
  <2>4. QED
    BY <2>1, <2>2, <2>3
<1>10. EP \in SUBSET (s.provider \ Firsts(pairs)) /\ EC \in SUBSET (s.local \ Seconds(pairs))
  <2> HIDE DEF pairs
  <2> QED BY <1>9
<1>11. MatchesOf(M, pairs)
  <2>1. \A m \in M : \E k \in keys : \E q \in g(k) : m = Match(q[1], q[2], "HIGH", 2, amb(k))
    OBVIOUS
  <2>2. \A k \in keys : \A q \in g(k) : q \in pairs /\ Match(q[1], q[2], "HIGH", 2, amb(k)) \in M
    OBVIOUS
  <2>3. \A q, k : /\ Match(q[1], q[2], "HIGH", 2, amb(k)).provider = q[1]
                  /\ Match(q[1], q[2], "HIGH", 2, amb(k)).local = q[2]
    BY DEF Match
  <2> HIDE DEF M, pairs
  <2>4. \A m \in M : \E k \in keys : \E q \in g(k) :
          /\ m.provider = q[1] /\ m.local = q[2] /\ q = <<m.provider, m.local>> /\ q \in pairs
          /\ m = Match(q[1], q[2], "HIGH", 2, amb(k)) /\ fuzzyKey(m.provider) = k
    BY <1>6, <2>1, <2>2, <2>3
  <2>5. ASSUME NEW m \in M, NEW n \in M, m.provider = n.provider, m.local = n.local PROVE m = n
    <3>1. PICK k \in keys, q \in pairs :
            /\ m.provider = q[1] /\ m.local = q[2] /\ m = Match(q[1], q[2], "HIGH", 2, amb(k))
            /\ fuzzyKey(m.provider) = k
      BY <2>4
    <3>2. PICK l \in keys, r \in pairs :
            /\ n.provider = r[1] /\ n.local = r[2] /\ n = Match(r[1], r[2], "HIGH", 2, amb(l))
            /\ fuzzyKey(n.provider) = l
      BY <2>4
    <3>3. k = l /\ q[1] = r[1] /\ q[2] = r[2]
      BY <2>5, <3>1, <3>2
    <3>4. QED
      BY <3>1, <3>2, <3>3
  <2>6. \A q \in pairs : \E m \in M : m.provider = q[1] /\ m.local = q[2]
    BY <1>5, <2>2, <2>3
  <2>7. QED
    BY <2>4, <2>5, <2>6 DEF MatchesOf
<1>12. t.provider = s.provider \ (Firsts(pairs) \cup EP) /\ t.local = s.local \ (Seconds(pairs) \cup EC)
  <2> HIDE DEF TP, TC, pairs, EP, EC
  <2> QED BY <1>1, <1>4
<1>13. t.breaks = s.breaks \cup D
  <2>1. D = U
    BY <1>3
  <2>2. QED
    BY <1>1, <2>1
<1> DEFINE O == {}
<1>14. D = {DuplicateProvider(i) : i \in EP} \cup {DuplicateLocal(i) : i \in EC} \cup O
  OBVIOUS
<1>15. \A d \in O : /\ Grounded(d, P, C) /\ d.local \in C
                    /\ d.type \notin {"DUPLICATE_LOCAL", "MISSING_ON_PROVIDER"}
  OBVIOUS
<1>16. t.matches = s.matches \cup M /\ t.pendingSettlement = s.pendingSettlement /\ IsState(t)
  BY <1>1
<1> HIDE DEF EP, EC, pairs, M, D, TP, TC, O
<1>17. Accounted(t, P, C)
  BY <1>0, <1>7, <1>8, <1>10, <1>11, <1>12, <1>13, <1>14, <1>15, <1>16, PairingAdds
<1>18. QED
  BY <1>17 DEF t

-----------------------------------------------------------------------------
(* Pass 3: a walk over the items of the pools.                             *)

\* The first n of a list.
Taken(q, n) == {q[i] : i \in 1..n}

\* The next of a list was not taken yet, and a list that was walked was taken whole.
LEMMA ListTaken ==
  ASSUME NEW S, IsFiniteSet(S), NEW q, Lists(q, S)
  PROVE  /\ Taken(q, 0) = {} /\ Taken(q, Cardinality(S)) = S
         /\ \A n \in 1..Cardinality(S) : /\ q[n] \in S \ Taken(q, n - 1)
                                         /\ Taken(q, n) = Taken(q, n - 1) \cup {q[n]}
<1> DEFINE N == Cardinality(S)
<1>1. N \in Nat
  BY FS_CardinalityType
<1>2. Taken(q, 0) = {} /\ Taken(q, N) = S
  BY <1>1 DEF Taken, Lists
<1>3. ASSUME NEW n \in 1..N
      PROVE  q[n] \in S \ Taken(q, n - 1) /\ Taken(q, n) = Taken(q, n - 1) \cup {q[n]}
  <2>1. /\ 1..n = (1..(n - 1)) \cup {n} /\ n \notin 1..(n - 1)
        /\ \A i \in 1..(n - 1) : i \in 1..N /\ i # n
    BY <1>1
  <2>2. q[n] \in S /\ \A i \in 1..(n - 1) : q[i] # q[n]
    BY <2>1 DEF Lists
  <2>3. QED
    BY <2>1, <2>2 DEF Taken
<1>4. QED
  BY <1>2, <1>3

-----------------------------------------------------------------------------
(* Pass 3: the items of the provider's side, one after the other.          *)

Candidates(t, p) == {c \in t.local : dentroDaJanela(p, c)}

\* One turn of the loop.
PairOrReport(t, p) ==
  IF Cardinality(Candidates(t, p)) = 1
  THEN LET c == CHOOSE c \in Candidates(t, p) : TRUE
       IN  [t EXCEPT !.provider = @ \ {p}, !.local = @ \ {c},
                     !.matches = @ \cup {Match(p, c, "LOW", 3, TRUE)}]
  ELSE faltaNoLocal(t, p, Cardinality(Candidates(t, p)) > 1)

PairedUp(s) == FoldLeft(PairOrReport, s, Sorted(s.provider, ById))

\* What is reported of an item nobody has.
MissingLocal(p, ambiguous) ==
  Draft(orphanProviderBreakType(p), orphanProviderSeverity(p), p,
        dedupeKeyFor(p.endToEndId, p, None, FALSE), None, p, None, None,
        IF orphanProviderBreakType(p) = "MISSING_ON_LOCAL" THEN importIntent(p, ambiguous) ELSE None)
MissingProvider(c) ==
  Draft("MISSING_ON_PROVIDER", missingOnProviderSeverity(c), c,
        dedupeKeyFor(c.endToEndId, None, c, FALSE), None, None, c, None, None)

\* Pass 3 is a walk over the provider's items, then one over what is left of ours.
LEMMA WindowedIsTwoFolds ==
  ASSUME NEW s, NEW t
  PROVE  passWindowedFuzzy(s, t) =
           FoldLeft(LAMBDA u, c : faltaNoProvedor(u, c, t), PairedUp(s), Sorted(PairedUp(s).local, ById))
  BY DEF passWindowedFuzzy, PairedUp, PairOrReport, Candidates

\* Shapes of the states a pass goes through.
Shapes(P, C, M, D, W) ==
  [provider : SUBSET P, local : SUBSET C, matches : SUBSET M, breaks : SUBSET D,
   pendingSettlement : SUBSET W]

\* One candidate is paired, otherwise the item is reported.
LEMMA PairOrReportCases ==
  ASSUME NEW t, IsState(t), IsFiniteSet(t.local), NEW p
  PROVE  LET u == PairOrReport(t, p)
         IN  /\ IsState(u) /\ u.provider = t.provider \ {p}
             /\ u.pendingSettlement = t.pendingSettlement
             /\ \/ \E c \in t.local : /\ u.local = t.local \ {c} /\ u.breaks = t.breaks
                                      /\ u.matches = t.matches \cup {Match(p, c, "LOW", 3, TRUE)}
                \/ \E b \in BOOLEAN : /\ u.local = t.local /\ u.matches = t.matches
                                      /\ u.breaks = t.breaks \cup {MissingLocal(p, b)}
<1> DEFINE S == Candidates(t, p)
           c == CHOOSE c \in S : TRUE
           u == PairOrReport(t, p)
<1>1. CASE Cardinality(S) = 1
  <2>1. c \in S /\ S \in SUBSET t.local
    <3>1. S \in SUBSET t.local
      BY DEF Candidates
    <3>2. IsFiniteSet(S)
      BY <3>1, FS_Subset
    <3>3. S # {}
      BY <1>1, <3>2, FS_EmptySet
    <3>4. QED
      BY <3>1, <3>3
  <2>2. u = [t EXCEPT !.provider = t.provider \ {p}, !.local = t.local \ {c},
                      !.matches = t.matches \cup {Match(p, c, "LOW", 3, TRUE)}]
    BY <1>1 DEF PairOrReport
  <2> HIDE DEF c, S, u
  <2>3. u = [provider |-> t.provider \ {p}, local |-> t.local \ {c},
             matches |-> t.matches \cup {Match(p, c, "LOW", 3, TRUE)}, breaks |-> t.breaks,
             pendingSettlement |-> t.pendingSettlement]
    BY <2>2 DEF IsState
  <2>4. /\ u.provider = t.provider \ {p} /\ u.local = t.local \ {c} /\ u.breaks = t.breaks
        /\ u.matches = t.matches \cup {Match(p, c, "LOW", 3, TRUE)}
        /\ u.pendingSettlement = t.pendingSettlement /\ IsState(u)
    BY <2>3 DEF IsState
  <2>5. c \in t.local
    BY <2>1
  <2>6. QED
    BY <2>4, <2>5 DEF u
<1>2. CASE Cardinality(S) # 1
  <2> DEFINE b == Cardinality(S) > 1
             d == MissingLocal(p, b)
  <2>1. u = [t EXCEPT !.provider = t.provider \ {p}, !.breaks = t.breaks \cup {d}]
    BY <1>2 DEF PairOrReport, faltaNoLocal, MissingLocal
  <2>2. b \in BOOLEAN
    OBVIOUS
  <2> HIDE DEF b, u
  <2>3. u = [provider |-> t.provider \ {p}, local |-> t.local, matches |-> t.matches,
             breaks |-> t.breaks \cup {d}, pendingSettlement |-> t.pendingSettlement]
    <3> HIDE DEF d
    <3> QED BY <2>1 DEF IsState
  <2>4. /\ u.provider = t.provider \ {p} /\ u.local = t.local /\ u.matches = t.matches
        /\ u.breaks = t.breaks \cup {d} /\ u.pendingSettlement = t.pendingSettlement /\ IsState(u)
    <3> HIDE DEF d
    <3> QED BY <2>3 DEF IsState
  <2>5. QED
    BY <2>2, <2>4 DEF u
<1>3. QED
  BY <1>1, <1>2

\* A recent item waits, an older one is reported.
LEMMA MissingCases ==
  ASSUME NEW t, IsState(t), NEW c, NEW time
  PROVE  LET u == faltaNoProvedor(t, c, time)
         IN  /\ IsState(u) /\ u.local = t.local \ {c}
             /\ u.provider = t.provider /\ u.matches = t.matches
             /\ \/ u.breaks = t.breaks /\ u.pendingSettlement = t.pendingSettlement \cup {c}
                \/ /\ u.breaks = t.breaks \cup {MissingProvider(c)}
                   /\ u.pendingSettlement = t.pendingSettlement
<1> DEFINE u == faltaNoProvedor(t, c, time)
           d == MissingProvider(c)
<1>1. \/ u = [t EXCEPT !.local = t.local \ {c}, !.pendingSettlement = t.pendingSettlement \cup {c}]
      \/ u = [t EXCEPT !.local = t.local \ {c}, !.breaks = t.breaks \cup {d}]
  BY DEF faltaNoProvedor, MissingProvider
<1> HIDE DEF u, d
<1>2. \/ u = [provider |-> t.provider, local |-> t.local \ {c}, matches |-> t.matches,
              breaks |-> t.breaks, pendingSettlement |-> t.pendingSettlement \cup {c}]
      \/ u = [provider |-> t.provider, local |-> t.local \ {c}, matches |-> t.matches,
              breaks |-> t.breaks \cup {d}, pendingSettlement |-> t.pendingSettlement]
  BY <1>1 DEF IsState
<1>3. /\ IsState(u) /\ u.local = t.local \ {c}
      /\ u.provider = t.provider /\ u.matches = t.matches
      /\ \/ u.breaks = t.breaks /\ u.pendingSettlement = t.pendingSettlement \cup {c}
         \/ u.breaks = t.breaks \cup {d} /\ u.pendingSettlement = t.pendingSettlement
  BY <1>2 DEF IsState
<1>4. QED
  BY <1>3 DEF u, d

\* Pairing or reporting an item of the provider keeps the account.
LEMMA PairOrReportKeeps ==
  ASSUME NoneIsNoIntent, NEW P, NEW C, IsItems(P), IsItems(C), NEW t, Accounted(t, P, C),
         NEW p \in t.provider
  PROVE  Accounted(PairOrReport(t, p), P, C)
<1> DEFINE u == PairOrReport(t, p)
<1>0. /\ p \in P /\ t.local \in SUBSET C /\ IsFiniteSet(t.local) /\ IsState(t) /\ t.provider \in SUBSET P
      /\ \A i \in P \cup C : i # None
  BY FS_Subset DEF Accounted, IsItems
<1>1. /\ IsState(u) /\ u.provider = t.provider \ {p}
      /\ u.pendingSettlement = t.pendingSettlement
      /\ \/ \E c \in t.local : /\ u.local = t.local \ {c} /\ u.breaks = t.breaks
                               /\ u.matches = t.matches \cup {Match(p, c, "LOW", 3, TRUE)}
         \/ \E b \in BOOLEAN : /\ u.local = t.local /\ u.matches = t.matches
                               /\ u.breaks = t.breaks \cup {MissingLocal(p, b)}
  BY <1>0, PairOrReportCases
<1> HIDE DEF u
<1>2. ASSUME NEW c \in t.local, u.local = t.local \ {c}, u.breaks = t.breaks,
             u.matches = t.matches \cup {Match(p, c, "LOW", 3, TRUE)}
      PROVE  Accounted(u, P, C)
  <2> DEFINE m == Match(p, c, "LOW", 3, TRUE)
             M == {m}
  <2>1. m.provider = p /\ m.local = c
    BY DEF Match
  <2> HIDE DEF m
  <2>2. \A i : ProviderDrafts({}, i) = {} /\ LocalDrafts({}, i) = {} /\ LocalWaits({}, i) = {}
    BY DEF ProviderDrafts, LocalDrafts, LocalWaits
  <2>3. \A i : ProviderPairs(M, i) = IF i = p THEN {m} ELSE {}
    BY <2>1 DEF ProviderPairs
  <2>4. \A i : LocalPairs(M, i) = IF i = c THEN {m} ELSE {}
    BY <2>1 DEF LocalPairs
  <2>5. \A i \in P : IF i \in t.provider \ u.provider THEN ProviderOnce(M, {}, i)
                     ELSE ProviderFree(M, {}, i)
    BY <1>1, <2>2, <2>3 DEF ProviderOnce, ProviderFree, IsOne
  <2>6. \A i \in C : IF i \in t.local \ u.local THEN LocalOnce(M, {}, {}, i)
                     ELSE LocalFree(M, {}, {}, i)
    BY <1>2, <2>2, <2>4 DEF LocalOnce, LocalFree, IsOne
  <2>7. \A n \in M : n.provider \in P /\ n.local \in C
    BY <1>0, <2>1
  <2>8. /\ u.matches = t.matches \cup M /\ u.breaks = t.breaks \cup {}
        /\ u.pendingSettlement = t.pendingSettlement \cup {}
    BY <1>1, <1>2 DEF m
  <2>9. Adds(t, u, M, {}, {}, P, C)
    <3> HIDE DEF M
    <3> QED BY <1>1, <1>2, <2>5, <2>6, <2>7, <2>8 DEF Adds
  <2>10. QED
    BY <2>9, AddsKeepsAccount
<1>3. ASSUME NEW b \in BOOLEAN, u.local = t.local, u.matches = t.matches,
             u.breaks = t.breaks \cup {MissingLocal(p, b)}
      PROVE  Accounted(u, P, C)
  <2> DEFINE d == MissingLocal(p, b)
             D == {d}
  <2>1. /\ d.provider = p /\ d.local = None /\ d.endToEndId = p.endToEndId
        /\ d.effectiveDate = p.effectiveDate /\ d.type = orphanProviderBreakType(p)
        /\ d.dedupeKey = dedupeKeyFor(p.endToEndId, p, None, FALSE)
    BY DEF MissingLocal, Draft
  <2>2. p.endToEndId # None => dedupeKeyFor(p.endToEndId, p, None, FALSE) = <<"e2e", p.endToEndId>>
    BY DEF dedupeKeyFor
  <2> HIDE DEF d
  <2>3. Grounded(d, P, C)
    BY <1>0, <2>1, <2>2 DEF Grounded
  <2>4. \A i : ProviderPairs({}, i) = {} /\ LocalPairs({}, i) = {} /\ LocalWaits({}, i) = {}
    BY DEF ProviderPairs, LocalPairs, LocalWaits
  <2>5. \A i : ProviderDrafts(D, i) = IF i = p THEN {d} ELSE {}
    BY <2>1 DEF ProviderDrafts
  <2>6. \A i \in C : LocalDrafts(D, i) = {}
    BY <1>0, <2>1 DEF LocalDrafts
  <2>7. \A i \in P : IF i \in t.provider \ u.provider THEN ProviderOnce({}, D, i)
                     ELSE ProviderFree({}, D, i)
    BY <1>1, <2>4, <2>5 DEF ProviderOnce, ProviderFree, IsOne
  <2>8. \A i \in C : IF i \in t.local \ u.local THEN LocalOnce({}, D, {}, i)
                     ELSE LocalFree({}, D, {}, i)
    BY <1>3, <2>4, <2>6 DEF LocalFree
  <2>9. /\ u.matches = t.matches \cup {} /\ u.breaks = t.breaks \cup D
        /\ u.pendingSettlement = t.pendingSettlement \cup {} /\ \A e \in D : Grounded(e, P, C)
    BY <1>1, <1>3, <2>3 DEF d
  <2>10. Adds(t, u, {}, D, {}, P, C)
    <3> HIDE DEF D
    <3> QED BY <1>1, <1>3, <2>7, <2>8, <2>9 DEF Adds
  <2>11. QED
    BY <2>10, AddsKeepsAccount
<1>4. Accounted(u, P, C)
  BY <1>1, <1>2, <1>3
<1>5. QED
  BY <1>4 DEF u

\* Reporting one of our items as missing, or as recent, keeps the account.
LEMMA MissingKeeps ==
  ASSUME NoneIsNoIntent, NEW P, NEW C, IsItems(P), IsItems(C), NEW t, Accounted(t, P, C),
         NEW c \in t.local, NEW time
  PROVE  Accounted(faltaNoProvedor(t, c, time), P, C)
<1> DEFINE u == faltaNoProvedor(t, c, time)
<1>0. /\ c \in C /\ t.local \in SUBSET C /\ IsState(t) /\ t.provider \in SUBSET P
      /\ \A i \in P \cup C : i # None
  BY DEF Accounted, IsItems
<1>1. /\ IsState(u) /\ u.local = t.local \ {c}
      /\ u.provider = t.provider /\ u.matches = t.matches
      /\ \/ u.breaks = t.breaks /\ u.pendingSettlement = t.pendingSettlement \cup {c}
         \/ /\ u.breaks = t.breaks \cup {MissingProvider(c)}
            /\ u.pendingSettlement = t.pendingSettlement
  BY <1>0, MissingCases
<1> HIDE DEF u
<1>2. \A i : ProviderPairs({}, i) = {} /\ LocalPairs({}, i) = {}
  BY DEF ProviderPairs, LocalPairs
<1>3. ASSUME u.breaks = t.breaks, u.pendingSettlement = t.pendingSettlement \cup {c}
      PROVE  Accounted(u, P, C)
  <2> DEFINE W == {c}
  <2>1. \A i : ProviderDrafts({}, i) = {} /\ LocalDrafts({}, i) = {}
    BY DEF ProviderDrafts, LocalDrafts
  <2>2. \A i : LocalWaits(W, i) = IF i = c THEN {c} ELSE {}
    BY DEF LocalWaits
  <2>3. \A i \in P : IF i \in t.provider \ u.provider THEN ProviderOnce({}, {}, i)
                     ELSE ProviderFree({}, {}, i)
    BY <1>1, <1>2, <2>1 DEF ProviderFree
  <2>4. \A i \in C : IF i \in t.local \ u.local THEN LocalOnce({}, {}, W, i)
                     ELSE LocalFree({}, {}, W, i)
    BY <1>1, <1>2, <2>1, <2>2 DEF LocalOnce, LocalFree, IsOne
  <2>5. Adds(t, u, {}, {}, W, P, C)
    <3>1. /\ u.matches = t.matches \cup {} /\ u.breaks = t.breaks \cup {}
          /\ u.pendingSettlement = t.pendingSettlement \cup W
      BY <1>1, <1>3
    <3> HIDE DEF W
    <3>2. QED
      BY <1>1, <2>3, <2>4, <3>1 DEF Adds
  <2>6. QED
    BY <2>5, AddsKeepsAccount
<1>4. ASSUME u.breaks = t.breaks \cup {MissingProvider(c)}, u.pendingSettlement = t.pendingSettlement
      PROVE  Accounted(u, P, C)
  <2> DEFINE d == MissingProvider(c)
             D == {d}
  <2>1. /\ d.provider = None /\ d.local = c /\ d.endToEndId = c.endToEndId
        /\ d.effectiveDate = c.effectiveDate /\ d.type = "MISSING_ON_PROVIDER"
        /\ d.dedupeKey = dedupeKeyFor(c.endToEndId, None, c, FALSE) /\ d.autoResolution = None
    BY DEF MissingProvider, Draft
  <2>2. c.endToEndId # None => dedupeKeyFor(c.endToEndId, None, c, FALSE) = <<"e2e", c.endToEndId>>
    BY DEF dedupeKeyFor
  <2> HIDE DEF d
  <2>3. Grounded(d, P, C)
    BY <1>0, <2>1, <2>2 DEF Grounded, NoneIsNoIntent
  <2>4. \A i : LocalWaits({}, i) = {}
    BY DEF LocalWaits
  <2>5. \A i \in P : ProviderDrafts(D, i) = {}
    BY <1>0, <2>1 DEF ProviderDrafts
  <2>6. \A i : LocalDrafts(D, i) = IF i = c THEN {d} ELSE {}
    BY <2>1 DEF LocalDrafts
  <2>7. \A i \in P : IF i \in t.provider \ u.provider THEN ProviderOnce({}, D, i)
                     ELSE ProviderFree({}, D, i)
    BY <1>1, <1>2, <2>5 DEF ProviderFree
  <2>8. \A i \in C : IF i \in t.local \ u.local THEN LocalOnce({}, D, {}, i)
                     ELSE LocalFree({}, D, {}, i)
    BY <1>1, <1>2, <2>4, <2>6 DEF LocalOnce, LocalFree, IsOne
  <2>9. /\ u.matches = t.matches \cup {} /\ u.breaks = t.breaks \cup D
        /\ u.pendingSettlement = t.pendingSettlement \cup {} /\ \A e \in D : Grounded(e, P, C)
    BY <1>1, <1>4, <2>3 DEF d
  <2>10. Adds(t, u, {}, D, {}, P, C)
    <3> HIDE DEF D
    <3> QED BY <1>1, <2>7, <2>8, <2>9 DEF Adds
  <2>11. QED
    BY <2>10, AddsKeepsAccount
<1>5. Accounted(u, P, C)
  BY <1>1, <1>3, <1>4
<1>6. QED
  BY <1>5 DEF u

\* The walk over the provider's items stays within the states it can reach.
LEMMA PairOrReportShape ==
  ASSUME NEW P, NEW C, IsFiniteSet(C), NEW M, NEW D, NEW W,
         \A p \in P, c \in C : Match(p, c, "LOW", 3, TRUE) \in M,
         \A p \in P, b \in BOOLEAN : MissingLocal(p, b) \in D,
         NEW t \in Shapes(P, C, M, D, W), NEW p \in P
  PROVE  PairOrReport(t, p) \in Shapes(P, C, M, D, W)
<1> DEFINE u == PairOrReport(t, p)
<1>1. /\ IsState(t) /\ t.provider \in SUBSET P /\ t.local \in SUBSET C /\ t.matches \in SUBSET M
      /\ t.breaks \in SUBSET D /\ t.pendingSettlement \in SUBSET W
  BY DEF Shapes, IsState
<1>2. IsFiniteSet(t.local)
  BY <1>1, FS_Subset
<1>3. /\ IsState(u) /\ u.provider = t.provider \ {p}
      /\ u.pendingSettlement = t.pendingSettlement
      /\ \/ \E c \in t.local : /\ u.local = t.local \ {c} /\ u.breaks = t.breaks
                               /\ u.matches = t.matches \cup {Match(p, c, "LOW", 3, TRUE)}
         \/ \E b \in BOOLEAN : /\ u.local = t.local /\ u.matches = t.matches
                               /\ u.breaks = t.breaks \cup {MissingLocal(p, b)}
  BY <1>1, <1>2, PairOrReportCases, ZenonT(40)
<1> HIDE DEF u
<1>4. /\ u.provider \in SUBSET P /\ u.local \in SUBSET C /\ u.matches \in SUBSET M
      /\ u.breaks \in SUBSET D /\ u.pendingSettlement \in SUBSET W
  BY <1>1, <1>3
<1>5. u \in Shapes(P, C, M, D, W)
  BY <1>3, <1>4 DEF Shapes, IsState
<1>6. QED
  BY <1>5 DEF u

\* So does the walk over ours.
LEMMA MissingShape ==
  ASSUME NEW P, NEW C, NEW M, NEW D, NEW W, C \in SUBSET W,
         \A c \in C : MissingProvider(c) \in D,
         NEW t \in Shapes(P, C, M, D, W), NEW c \in C, NEW time
  PROVE  faltaNoProvedor(t, c, time) \in Shapes(P, C, M, D, W)
<1> DEFINE u == faltaNoProvedor(t, c, time)
<1>1. /\ IsState(t) /\ t.provider \in SUBSET P /\ t.local \in SUBSET C /\ t.matches \in SUBSET M
      /\ t.breaks \in SUBSET D /\ t.pendingSettlement \in SUBSET W
  BY DEF Shapes, IsState
<1>2. /\ IsState(u) /\ u.local = t.local \ {c}
      /\ u.provider = t.provider /\ u.matches = t.matches
      /\ \/ u.breaks = t.breaks /\ u.pendingSettlement = t.pendingSettlement \cup {c}
         \/ /\ u.breaks = t.breaks \cup {MissingProvider(c)}
            /\ u.pendingSettlement = t.pendingSettlement
  BY <1>1, MissingCases
<1> HIDE DEF u
<1>3. /\ u.provider \in SUBSET P /\ u.local \in SUBSET C /\ u.matches \in SUBSET M
      /\ u.breaks \in SUBSET D /\ u.pendingSettlement \in SUBSET W
  BY <1>1, <1>2
<1>4. u \in Shapes(P, C, M, D, W)
  BY <1>2, <1>3 DEF Shapes, IsState
<1>5. QED
  BY <1>4 DEF u

\* After the loop over the provider's side none of its items is left.
LEMMA PairedUpAccounts ==
  ASSUME NoneIsNoIntent, NEW P, NEW C, IsItems(P), IsItems(C), NEW s, Accounted(s, P, C)
  PROVE  Accounted(PairedUp(s), P, C) /\ PairedUp(s).provider = {}
<1> DEFINE S == s.provider
           N == Cardinality(S)
           q == Sorted(S, ById)
           M == s.matches \cup {Match(z[1], z[2], "LOW", 3, TRUE) : z \in P \X C}
           D == s.breaks \cup {MissingLocal(z[1], z[2]) : z \in P \X BOOLEAN}
           X == Shapes(P, C, M, D, s.pendingSettlement)
           F == [z \in X \X (1..N) |-> PairOrReport(z[1], q[z[2]])]
           IsIter(g) == g = [r \in SUBSET (1..N) |->
                               IF r = {} THEN s ELSE PairOrReport(g[r \ {Max(r)}], q[Max(r)])]
           G == CHOOSE g : IsIter(g)
<1>0. S \in SUBSET P /\ s.local \in SUBSET C /\ IsState(s)
  BY DEF Accounted
<1>1. IsFiniteSet(S) /\ N \in Nat /\ Lists(q, S) /\ q \in [1..N -> S] /\ IsFiniteSet(C)
  <2>1. IsItems(S)
    BY <1>0, SubsetOfItems
  <2>2. Lists(q, S)
    BY <2>1, SortedById
  <2> HIDE DEF S, q
  <2>3. QED
    BY <2>1, <2>2, FS_CardinalityType DEF Lists, IsItems
<1>2. PairedUp(s) = G[1..N]
  <2>1. DOMAIN q = 1..N
    BY DEF Sorted
  <2>2. PairedUp(s) = (CHOOSE g : g = [r \in SUBSET DOMAIN q |->
                         IF r = {} THEN s ELSE PairOrReport(g[r \ {Max(r)}], q[Max(r)])])[DOMAIN q]
    BY DEF PairedUp, FoldLeft, MapThenFoldSet
  <2>3. QED
    BY <2>1, <2>2
<1>3. s \in X
  BY <1>0 DEF IsState, Shapes
<1>4. \A t \in X, p \in P : PairOrReport(t, p) \in X
  <2>1. \A p \in P, c \in C : Match(p, c, "LOW", 3, TRUE) \in M
    <3> SUFFICES ASSUME NEW p \in P, NEW c \in C PROVE Match(p, c, "LOW", 3, TRUE) \in M
      OBVIOUS
    <3>1. <<p, c>> \in P \X C /\ <<p, c>>[1] = p /\ <<p, c>>[2] = c
      OBVIOUS
    <3>2. QED
      BY <3>1
  <2>2. \A p \in P, b \in BOOLEAN : MissingLocal(p, b) \in D
    <3> SUFFICES ASSUME NEW p \in P, NEW b \in BOOLEAN PROVE MissingLocal(p, b) \in D
      OBVIOUS
    <3>1. <<p, b>> \in P \X BOOLEAN /\ <<p, b>>[1] = p /\ <<p, b>>[2] = b
      OBVIOUS
    <3>2. QED
      BY <3>1
  <2> HIDE DEF M, D
  <2>3. QED
    BY <1>1, <2>1, <2>2, PairOrReportShape
<1> HIDE DEF N, q, X, S
<1>5. F \in [X \X (1..N) -> X] /\ \A t \in X, n \in 1..N : F[<<t, n>>] = PairOrReport(t, q[n])
  BY <1>0, <1>1, <1>4
<1> HIDE DEF F
<1>6. IsIter(G)
  <2>1. PICK g \in [SUBSET (1..N) -> X] : FoldsBy(N, s, F, g)
    BY <1>1, <1>3, <1>5, FoldExists
  <2>2. ASSUME NEW r \in SUBSET (1..N)
        PROVE  g[r] = IF r = {} THEN s ELSE PairOrReport(g[r \ {Max(r)}], q[Max(r)])
    <3>1. CASE r = {}
      BY <2>1, <3>1 DEF FoldsBy
    <3>2. CASE r # {}
      <4>1. g[r \ {Max(r)}] \in X /\ Max(r) \in 1..N
        BY <1>1, <3>2, MaxIsMember
      <4>2. QED
        BY <1>5, <2>1, <3>2, <4>1 DEF FoldsBy
    <3>3. QED
      BY <3>1, <3>2
  <2>3. g = [r \in SUBSET (1..N) |-> g[r]]
    OBVIOUS
  <2>4. IsIter(g)
    BY <2>2, <2>3
  <2> HIDE DEF IsIter
  <2>5. QED
    BY <2>4
<1>7. StepsBy(N, X, s, F, G)
  <2>1. G[{}] = s
    BY <1>6
  <2>2. ASSUME NEW r \in SUBSET (1..N), r # {}, G[r \ {Max(r)}] \in X
        PROVE  G[r] = F[<<G[r \ {Max(r)}], Max(r)>>]
    <3>1. Max(r) \in 1..N
      BY <1>1, <2>2, MaxIsMember
    <3>2. G[r] = PairOrReport(G[r \ {Max(r)}], q[Max(r)])
      BY <1>6, <2>2
    <3>3. QED
      BY <1>5, <2>2, <3>1, <3>2
  <2> HIDE DEF G
  <2>3. QED
    BY <2>1, <2>2 DEF StepsBy
<1> HIDE DEF G
<1>8. PICK st : Runs(N, X, s, F, G, st)
  BY <1>1, <1>3, <1>5, <1>7, FoldRuns
<1>9. \A n \in 1..N : st[n - 1] \in X /\ st[n] = PairOrReport(st[n - 1], q[n])
  <2> SUFFICES ASSUME NEW n \in 1..N
               PROVE  st[n - 1] \in X /\ st[n] = PairOrReport(st[n - 1], q[n])
    OBVIOUS
  <2>1. n - 1 \in 0..N
    BY <1>1
  <2>2. st[n - 1] \in X /\ st[n] = F[<<st[n - 1], n>>]
    BY <1>8, <2>1 DEF Runs
  <2>3. QED
    BY <1>5, <2>2
<1> DEFINE B == {n \in 0..N : Accounted(st[n], P, C) /\ st[n].provider = S \ Taken(q, n)}
<1>10. /\ Taken(q, 0) = {} /\ Taken(q, N) = S
       /\ \A n \in 1..N : /\ q[n] \in S \ Taken(q, n - 1)
                          /\ Taken(q, n) = Taken(q, n - 1) \cup {q[n]}
  BY <1>1, ListTaken DEF N
<1>11. 0 \in B
  BY <1>1, <1>8, <1>10 DEF Runs, S
<1>12. ASSUME NEW n \in 1..N, n - 1 \in B PROVE n \in B
  <2> DEFINE t == st[n - 1]
             p == q[n]
  <2>1. Accounted(t, P, C) /\ t.provider = S \ Taken(q, n - 1) /\ p \in t.provider
    BY <1>10, <1>12
  <2>2. st[n] = PairOrReport(t, p)
    BY <1>9
  <2> HIDE DEF t, p
  <2>3. Accounted(st[n], P, C)
    BY <2>1, <2>2, PairOrReportKeeps
  <2>4. IsState(t) /\ IsFiniteSet(t.local)
    BY <1>1, <2>1, FS_Subset DEF Accounted
  <2>5. st[n].provider = t.provider \ {p}
    <3>1. PairOrReport(t, p).provider = t.provider \ {p}
      BY <2>4, PairOrReportCases
    <3>2. QED
      BY <2>2, <3>1
  <2>6. st[n].provider = S \ Taken(q, n)
    BY <1>10, <2>1, <2>5 DEF p
  <2>7. QED
    BY <1>1, <2>3, <2>6
<1>13. N \in B
  <2>1. \A n \in 0..N : n \in B
    <3> HIDE DEF B
    <3> QED BY <1>1, <1>11, <1>12, Upto
  <2>2. QED
    BY <1>1, <2>1
<1>14. QED
  BY <1>2, <1>8, <1>10, <1>13 DEF Runs
ReportedMissing(s, time) ==
  FoldLeft(LAMBDA t, c : faltaNoProvedor(t, c, time), s, Sorted(s.local, ById))

\* After the loop over our side none of its items is left either.
LEMMA ReportedAccounts ==
  ASSUME NoneIsNoIntent, NEW P, NEW C, IsItems(P), IsItems(C), NEW s, Accounted(s, P, C),
         s.provider = {}, NEW time
  PROVE  LET u == ReportedMissing(s, time)
         IN  Accounted(u, P, C) /\ u.provider = {} /\ u.local = {}
<1> DEFINE S == s.local
           N == Cardinality(S)
           q == Sorted(S, ById)
           D == s.breaks \cup {MissingProvider(c) : c \in C}
           W == s.pendingSettlement \cup C
           X == Shapes(P, C, s.matches, D, W)
           F == [z \in X \X (1..N) |-> faltaNoProvedor(z[1], q[z[2]], time)]
           IsIter(g) == g = [r \in SUBSET (1..N) |->
                               IF r = {} THEN s ELSE faltaNoProvedor(g[r \ {Max(r)}], q[Max(r)], time)]
           G == CHOOSE g : IsIter(g)
           Reported == ReportedMissing(s, time)
<1>0. s.provider \in SUBSET P /\ S \in SUBSET C /\ IsState(s)
  BY DEF Accounted
<1>1. IsFiniteSet(S) /\ N \in Nat /\ Lists(q, S) /\ q \in [1..N -> S]
  <2>1. IsItems(S)
    BY <1>0, SubsetOfItems
  <2>2. Lists(q, S)
    BY <2>1, SortedById
  <2> HIDE DEF S, q
  <2>3. QED
    BY <2>1, <2>2, FS_CardinalityType DEF Lists, IsItems
<1>2. Reported = G[1..N]
  <2>1. DOMAIN q = 1..N
    BY DEF Sorted
  <2>2. Reported = (CHOOSE g : g = [r \in SUBSET DOMAIN q |->
                         IF r = {} THEN s ELSE faltaNoProvedor(g[r \ {Max(r)}], q[Max(r)], time)])[DOMAIN q]
    BY DEF ReportedMissing, FoldLeft, MapThenFoldSet
  <2>3. QED
    BY <2>1, <2>2
<1>3. s \in X
  BY <1>0 DEF IsState, Shapes
<1>4. \A t \in X, c \in C : faltaNoProvedor(t, c, time) \in X
  <2>1. \A c \in C : MissingProvider(c) \in D /\ C \in SUBSET W
    OBVIOUS
  <2> HIDE DEF D, W
  <2>2. QED
    BY <2>1, MissingShape
<1> HIDE DEF N, q, X, S, Reported
<1>5. F \in [X \X (1..N) -> X] /\ \A t \in X, n \in 1..N : F[<<t, n>>] = faltaNoProvedor(t, q[n], time)
  BY <1>0, <1>1, <1>4
<1> HIDE DEF F
<1>6. IsIter(G)
  <2>1. PICK g \in [SUBSET (1..N) -> X] : FoldsBy(N, s, F, g)
    BY <1>1, <1>3, <1>5, FoldExists
  <2>2. ASSUME NEW r \in SUBSET (1..N)
        PROVE  g[r] = IF r = {} THEN s ELSE faltaNoProvedor(g[r \ {Max(r)}], q[Max(r)], time)
    <3>1. CASE r = {}
      BY <2>1, <3>1 DEF FoldsBy
    <3>2. CASE r # {}
      <4>1. g[r \ {Max(r)}] \in X /\ Max(r) \in 1..N
        BY <1>1, <3>2, MaxIsMember
      <4>2. QED
        BY <1>5, <2>1, <3>2, <4>1 DEF FoldsBy
    <3>3. QED
      BY <3>1, <3>2
  <2>3. g = [r \in SUBSET (1..N) |-> g[r]]
    OBVIOUS
  <2>4. IsIter(g)
    BY <2>2, <2>3
  <2> HIDE DEF IsIter
  <2>5. QED
    BY <2>4
<1>7. StepsBy(N, X, s, F, G)
  <2>1. G[{}] = s
    BY <1>6
  <2>2. ASSUME NEW r \in SUBSET (1..N), r # {}, G[r \ {Max(r)}] \in X
        PROVE  G[r] = F[<<G[r \ {Max(r)}], Max(r)>>]
    <3>1. Max(r) \in 1..N
      BY <1>1, <2>2, MaxIsMember
    <3>2. G[r] = faltaNoProvedor(G[r \ {Max(r)}], q[Max(r)], time)
      BY <1>6, <2>2
    <3>3. QED
      BY <1>5, <2>2, <3>1, <3>2
  <2> HIDE DEF G
  <2>3. QED
    BY <2>1, <2>2 DEF StepsBy
<1> HIDE DEF G
<1>8. PICK st : Runs(N, X, s, F, G, st)
  BY <1>1, <1>3, <1>5, <1>7, FoldRuns
<1>9. \A n \in 1..N : st[n - 1] \in X /\ st[n] = faltaNoProvedor(st[n - 1], q[n], time)
  <2> SUFFICES ASSUME NEW n \in 1..N
               PROVE  st[n - 1] \in X /\ st[n] = faltaNoProvedor(st[n - 1], q[n], time)
    OBVIOUS
  <2>1. n - 1 \in 0..N
    BY <1>1
  <2>2. st[n - 1] \in X /\ st[n] = F[<<st[n - 1], n>>]
    BY <1>8, <2>1 DEF Runs
  <2>3. QED
    BY <1>5, <2>2
<1> DEFINE B == {n \in 0..N : Accounted(st[n], P, C) /\ st[n].local = S \ Taken(q, n) /\ st[n].provider = {}}
<1>10. /\ Taken(q, 0) = {} /\ Taken(q, N) = S
       /\ \A n \in 1..N : /\ q[n] \in S \ Taken(q, n - 1)
                          /\ Taken(q, n) = Taken(q, n - 1) \cup {q[n]}
  BY <1>1, ListTaken DEF N
<1>11. 0 \in B
  BY <1>1, <1>8, <1>10 DEF Runs, S
<1>12. ASSUME NEW n \in 1..N, n - 1 \in B PROVE n \in B
  <2> DEFINE t == st[n - 1]
             c == q[n]
  <2>1. Accounted(t, P, C) /\ t.local = S \ Taken(q, n - 1) /\ t.provider = {} /\ c \in t.local
    BY <1>10, <1>12
  <2>2. st[n] = faltaNoProvedor(t, c, time)
    BY <1>9
  <2> HIDE DEF t, c
  <2>3. Accounted(st[n], P, C)
    BY <2>1, <2>2, MissingKeeps
  <2>4. IsState(t)
    BY <2>1 DEF Accounted
  <2>5. st[n].local = t.local \ {c} /\ st[n].provider = t.provider
    <3>1. LET u == faltaNoProvedor(t, c, time)
          IN  u.local = t.local \ {c} /\ u.provider = t.provider
      BY <2>4, MissingCases
    <3>2. QED
      BY <2>2, <3>1
  <2>6. st[n].local = S \ Taken(q, n) /\ st[n].provider = {}
    BY <1>10, <2>1, <2>5 DEF c
  <2>7. QED
    BY <1>1, <2>3, <2>6
<1>13. N \in B
  <2>1. \A n \in 0..N : n \in B
    <3> HIDE DEF B
    <3> QED BY <1>1, <1>11, <1>12, Upto
  <2>2. QED
    BY <1>1, <2>1
<1>14. Accounted(Reported, P, C) /\ Reported.provider = {} /\ Reported.local = {}
  BY <1>2, <1>8, <1>10, <1>13 DEF Runs
<1>15. QED
  BY <1>14 DEF Reported

\* Pass 3 keeps the account and leaves nothing in the pools.
LEMMA WindowedPass ==
  ASSUME NoneIsNoIntent, NEW P, NEW C, IsItems(P), IsItems(C), NEW s, Accounted(s, P, C), NEW time
  PROVE  LET u == passWindowedFuzzy(s, time)
         IN  Accounted(u, P, C) /\ u.provider = {} /\ u.local = {}
<1> DEFINE v == PairedUp(s)
<1>1. Accounted(v, P, C) /\ v.provider = {}
  BY PairedUpAccounts
<1>2. passWindowedFuzzy(s, time) = ReportedMissing(v, time)
  BY WindowedIsTwoFolds DEF ReportedMissing
<1> HIDE DEF v
<1>3. LET u == ReportedMissing(v, time) IN Accounted(u, P, C) /\ u.provider = {} /\ u.local = {}
  BY <1>1, ReportedAccounts
<1>4. QED
  BY <1>2, <1>3

-----------------------------------------------------------------------------
(* Passes 4 and 5, and the whole engine.                                   *)

\* Drafts that conclude about no item of the window: they only remark.
Remarks(D, P, C) ==
  \A d \in D : /\ Grounded(d, P, C) /\ d.provider = None
               /\ d.type \notin {"DUPLICATE_LOCAL", "MISSING_ON_PROVIDER"}

\* A pass that only remarks keeps the account.
LEMMA RemarksKeepAccount ==
  ASSUME NEW P, NEW C, \A i \in P : i # None, NEW s, Accounted(s, P, C),
         NEW D, Remarks(D, P, C), NEW t, IsState(t),
         t.provider = s.provider, t.local = s.local, t.matches = s.matches,
         t.breaks = s.breaks \cup D, t.pendingSettlement = s.pendingSettlement
  PROVE  Accounted(t, P, C)
<1>1. \A i \in P : ProviderFree({}, D, i)
  BY DEF ProviderFree, ProviderPairs, ProviderDrafts, Remarks
<1>2. \A i \in C : LocalFree({}, D, {}, i)
  BY DEF LocalFree, LocalPairs, LocalDrafts, LocalWaits, Remarks
<1>3. Adds(s, t, {}, D, {}, P, C)
  BY <1>1, <1>2 DEF Adds, Remarks
<1>4. QED
  BY <1>3, AddsKeepsAccount

\* The items of the ledger as a run mints them have no end-to-end id.
IsLedger(L) == \A l \in L : l.endToEndId = None

\* A posting is tied to a transaction or reported.
Tied(D, C, L) ==
  \A l \in L : \/ \E c \in C : c.ledgerTransactionId = l.ledgerTransactionId
               \/ \E d \in D : d.ledger = l

\* faltaNoRazao remarks on one of our items.
LEMMA MissingOnLedger ==
  ASSUME NoneIsNoIntent, NEW P, NEW C, NEW c \in C, c # None
  PROVE  Remarks({faltaNoRazao(c)}, P, C)
<1> DEFINE d == faltaNoRazao(c)
<1>1. c.endToEndId # None => dedupeKeyFor(c.endToEndId, None, c, FALSE) = <<"e2e", c.endToEndId>>
  BY DEF dedupeKeyFor
<1>2. /\ d.dedupeKey = dedupeKeyFor(c.endToEndId, None, c, FALSE) /\ d.endToEndId = c.endToEndId
      /\ d.effectiveDate = c.effectiveDate /\ d.provider = None /\ d.local = c
      /\ d.autoResolution = None /\ d.type = "MISSING_ON_LEDGER"
  BY DEF faltaNoRazao, Draft
<1> HIDE DEF d
<1>3. Grounded(d, P, C)
  BY <1>1, <1>2 DEF Grounded, NoneIsNoIntent
<1>4. QED
  BY <1>2, <1>3 DEF Remarks, d

\* conferirPerna remarks on one of our items.
LEMMA LegCompared ==
  ASSUME NoneIsNoIntent, NEW P, NEW C, NEW c \in C, c # None, NEW l
  PROVE  Remarks(conferirPerna(c, l), P, C)
<1> SUFFICES ASSUME NEW d \in conferirPerna(c, l)
             PROVE  /\ Grounded(d, P, C) /\ d.provider = None
                    /\ d.type \notin {"DUPLICATE_LOCAL", "MISSING_ON_PROVIDER"}
  BY DEF Remarks
<1>1. c.endToEndId # None => dedupeKeyFor(c.endToEndId, None, c, FALSE) = <<"e2e", c.endToEndId>>
  BY DEF dedupeKeyFor
<1> DEFINE key == dedupeKeyFor(c.endToEndId, None, c, FALSE)
<1>2. \/ d = Draft("AMOUNT_MISMATCH", "CRITICAL", c, key, l.amountCents - c.amountCents,
                   None, c, l, None)
      \/ d = Draft("DATE_MISMATCH", "MEDIUM", c, key, None, None, c, l, None)
  BY DEF conferirPerna
<1>3. /\ d.dedupeKey = key /\ d.endToEndId = c.endToEndId
      /\ d.effectiveDate = c.effectiveDate /\ d.provider = None /\ d.local = c
      /\ d.autoResolution = None /\ d.type \in {"AMOUNT_MISMATCH", "DATE_MISMATCH"}
  <2> HIDE DEF key
  <2> QED BY <1>2 DEF Draft
<1>4. Grounded(d, P, C)
  BY <1>1, <1>3 DEF Grounded, NoneIsNoIntent
<1>5. QED
  BY <1>3, <1>4

\* lancamentoOrfao names the posting and no item.
LEMMA OrphanReported ==
  ASSUME NoneIsNoIntent, NEW P, NEW C, NEW l, l.endToEndId = None
  PROVE  Remarks({lancamentoOrfao(l)}, P, C) /\ lancamentoOrfao(l).ledger = l
<1> DEFINE d == lancamentoOrfao(l)
<1>1. /\ d.endToEndId = None /\ d.provider = None /\ d.ledger = l
      /\ d.autoResolution = None /\ d.type = "MISSING_ON_LOCAL"
  BY DEF lancamentoOrfao, Draft
<1> HIDE DEF d
<1>2. Grounded(d, P, C)
  BY <1>1 DEF Grounded, NoneIsNoIntent
<1>3. QED
  BY <1>1, <1>2 DEF Remarks, d

\* Pass 4 keeps the account and reports every posting without a transaction.
LEMMA LedgerPass ==
  ASSUME NoneIsNoIntent, NEW P, NEW C, IsItems(P), IsItems(C), NEW L, IsLedger(L),
         NEW s, Accounted(s, P, C)
  PROVE  LET t == passLedgerCross(s, C, L)
         IN  Accounted(t, P, C) /\ t.provider = s.provider /\ t.local = s.local /\ Tied(t.breaks, C, L)
<1> DEFINE group(c) == IF c.ledgerTransactionId = None THEN {}
                       ELSE indexarPorTransacao(L, c.ledgerTransactionId)
           matched == {m.local : m \in s.matches}
           orphans == L \ UNION {group(c) : c \in C}
           absent == {faltaNoRazao(c) : c \in {d \in matched : group(d) = {}}}
           unlike == UNION {conferirPerna(c, Representative(group(c))) :
                              c \in {d \in matched : group(d) # {}}}
           alone == {lancamentoOrfao(l) : l \in orphans}
           D == absent \cup unlike \cup alone
           t == passLedgerCross(s, C, L)
           b == s.breaks \cup absent \cup unlike \cup alone
<1>1. t = [s EXCEPT !.breaks = b]
  BY DEF passLedgerCross
<1>2. matched \in SUBSET C /\ \A c \in C : c # None
  BY DEF Accounted, IsItems
<1>3. Remarks(absent, P, C)
  <2> HIDE DEF matched, group
  <2>1. \A c \in matched : Remarks({faltaNoRazao(c)}, P, C)
    BY <1>2, MissingOnLedger
  <2>2. QED
    BY <2>1 DEF Remarks
<1>4. Remarks(unlike, P, C)
  <2> HIDE DEF matched, group
  <2>1. \A c \in matched : Remarks(conferirPerna(c, Representative(group(c))), P, C)
    BY <1>2, LegCompared
  <2>2. QED
    BY <2>1 DEF Remarks
<1>5. Remarks(alone, P, C) /\ \A l \in orphans : lancamentoOrfao(l).ledger = l
  <2>1. \A l \in L : l.endToEndId = None
    BY DEF IsLedger
  <2>2. \A l \in L : Remarks({lancamentoOrfao(l)}, P, C) /\ lancamentoOrfao(l).ledger = l
    BY <2>1, OrphanReported
  <2>3. orphans \in SUBSET L
    OBVIOUS
  <2> HIDE DEF orphans
  <2>4. QED
    BY <2>2, <2>3 DEF Remarks
<1>6. \A l \in L \ orphans : \E c \in C : c.ledgerTransactionId = l.ledgerTransactionId
  BY DEF indexarPorTransacao
<1>7. s = [provider |-> s.provider, local |-> s.local, matches |-> s.matches,
           breaks |-> s.breaks, pendingSettlement |-> s.pendingSettlement]
  BY DEF Accounted, IsState
<1>8. t = [provider |-> s.provider, local |-> s.local, matches |-> s.matches,
           breaks |-> b, pendingSettlement |-> s.pendingSettlement]
  <2> HIDE DEF t, b
  <2> QED BY <1>1, <1>7
<1>9. b = s.breaks \cup D /\ Remarks(D, P, C)
  <2> HIDE DEF absent, unlike, alone
  <2> QED BY <1>3, <1>4, <1>5 DEF Remarks
<1>10. Tied(b, C, L)
  <2> HIDE DEF absent, unlike, orphans
  <2> QED BY <1>5, <1>6 DEF Tied
<1> HIDE DEF t, b, D
<1>11. IsState(t)
  BY <1>8 DEF IsState
<1>12. /\ t.provider = s.provider /\ t.local = s.local /\ t.matches = s.matches
       /\ t.breaks = b /\ t.pendingSettlement = s.pendingSettlement
  BY <1>8
<1>13. Accounted(t, P, C)
  BY <1>9, <1>11, <1>12, RemarksKeepAccount DEF IsItems
<1>14. QED
  BY <1>10, <1>12, <1>13 DEF t

\* Pass 5 keeps the account, and speaks only where no break does.
LEMMA BalancePass ==
  ASSUME NoneIsNoIntent, NEW P, NEW C, IsItems(P), IsItems(C), NEW L,
         NEW s, Accounted(s, P, C), Tied(s.breaks, C, L), NEW opening, NEW closing, NEW day
  PROVE  LET t == passBalance(s, opening, closing, day)
         IN  Accounted(t, P, C) /\ t.provider = s.provider /\ t.local = s.local /\ Tied(t.breaks, C, L)
<1> DEFINE t == passBalance(s, opening, closing, day)
           account == [effectiveDate |-> day, endToEndId |-> None, amountCents |-> 0]
           residue == closing - (opening + FoldSet(LAMBDA m, sum : sum + Signed(m.provider), 0, s.matches))
           d == Draft("BALANCE_MISMATCH", "CRITICAL", account, dedupeKeyFor(None, None, None, TRUE),
                      residue, None, None, None, None)
<1>1. t = s \/ (s.breaks = {} /\ t = [s EXCEPT !.breaks = {d}])
  <2> HIDE DEF d, residue
  <2> QED BY DEF passBalance, d, residue
<1>2. CASE t = s
  BY <1>2
<1>3. CASE s.breaks = {} /\ t = [s EXCEPT !.breaks = {d}]
  <2>1. d.endToEndId = None /\ d.provider = None /\ d.type = "BALANCE_MISMATCH" /\ d.autoResolution = None
    <3> HIDE DEF residue
    <3> QED BY DEF Draft
  <2> HIDE DEF d, t
  <2>2. Remarks({d}, P, C)
    BY <2>1 DEF Remarks, Grounded, NoneIsNoIntent
  <2>3. s = [provider |-> s.provider, local |-> s.local, matches |-> s.matches,
             breaks |-> s.breaks, pendingSettlement |-> s.pendingSettlement]
    BY DEF Accounted, IsState
  <2>4. t = [provider |-> s.provider, local |-> s.local, matches |-> s.matches,
             breaks |-> {d}, pendingSettlement |-> s.pendingSettlement]
    BY <1>3, <2>3
  <2>5. IsState(t)
    BY <2>4 DEF IsState
  <2>6. /\ t.provider = s.provider /\ t.local = s.local /\ t.matches = s.matches
        /\ t.breaks = s.breaks \cup {d} /\ t.pendingSettlement = s.pendingSettlement
    BY <1>3, <2>4
  <2>7. Accounted(t, P, C)
    BY <2>2, <2>5, <2>6, RemarksKeepAccount DEF IsItems
  <2>8. Tied(t.breaks, C, L)
    BY <1>3, <2>6 DEF Tied
  <2>9. QED
    BY <2>6, <2>7, <2>8 DEF t
<1>4. QED
  BY <1>1, <1>2, <1>3

\* The conclusion about a whole window.
Concluded(plan, P, C, L) ==
  Accounted(plan, P, C) /\ plan.provider = {} /\ plan.local = {} /\ Tied(plan.breaks, C, L)

\* The five passes conclude about every item.
LEMMA ReconcileConcludes ==
  ASSUME NoneIsNoIntent, NEW P, NEW C, NEW L, IsItems(P), IsItems(C), IsLedger(L),
         NEW opening, NEW closing, NEW day, NEW time
  PROVE  Concluded(reconcile(P, C, L, opening, closing, day, time), P, C, L)
<1> DEFINE start == [provider |-> P, local |-> C, matches |-> {}, breaks |-> {},
                     pendingSettlement |-> {}]
           s1 == passStrong(start)
           s2 == passDeterministicFuzzy(s1)
           s3 == passWindowedFuzzy(s2, time)
           s4 == passLedgerCross(s3, C, L)
           s5 == passBalance(s4, opening, closing, day)
<1>1. reconcile(P, C, L, opening, closing, day, time) = s5
  BY DEF reconcile
<1>2. Accounted(start, P, C)
  <2>1. \A i \in P : ProviderFree({}, {}, i)
    BY DEF ProviderFree, ProviderPairs, ProviderDrafts
  <2>2. \A i \in C : LocalFree({}, {}, {}, i)
    BY DEF LocalFree, LocalPairs, LocalDrafts, LocalWaits
  <2>3. QED
    BY <2>1, <2>2 DEF Accounted, IsState
<1> HIDE DEF start
<1>3. Accounted(s1, P, C)
  BY <1>2, StrongPass
<1> HIDE DEF s1
<1>4. Accounted(s2, P, C)
  BY <1>3, FuzzyPass
<1> HIDE DEF s2
<1>5. Accounted(s3, P, C) /\ s3.provider = {} /\ s3.local = {}
  BY <1>4, WindowedPass
<1> HIDE DEF s3
<1>6. Accounted(s4, P, C) /\ s4.provider = {} /\ s4.local = {} /\ Tied(s4.breaks, C, L)
  BY <1>5, LedgerPass
<1> HIDE DEF s4
<1>7. Accounted(s5, P, C) /\ s5.provider = {} /\ s5.local = {} /\ Tied(s5.breaks, C, L)
  BY <1>6, BalancePass
<1>8. QED
  BY <1>1, <1>7 DEF Concluded

\* One conclusion is counted once.
LEMMA ConcludedUses ==
  ASSUME NEW plan, NEW P, NEW C, NEW L, Concluded(plan, P, C, L)
  PROVE  /\ \A i \in P : ProviderUses(plan, i) = 1
         /\ \A i \in C : LocalUses(plan, i) = 1
<1>1. Cardinality({}) = 0 /\ \A S : IsOne(S) => Cardinality(S) = 1
  BY FS_EmptySet, FS_Singleton DEF IsOne
<1>2. ASSUME NEW i \in P PROVE ProviderUses(plan, i) = 1
  <2>1. ProviderOnce(plan.matches, plan.breaks, i)
    BY DEF Concluded, Accounted
  <2>2. ProviderUses(plan, i) = Cardinality(ProviderPairs(plan.matches, i))
                                  + Cardinality(ProviderDrafts(plan.breaks, i))
    BY DEF ProviderUses, ProviderPairs, ProviderDrafts
  <2>3. QED
    BY <1>1, <2>1, <2>2 DEF ProviderOnce
<1>3. ASSUME NEW i \in C PROVE LocalUses(plan, i) = 1
  <2>1. LocalOnce(plan.matches, plan.breaks, plan.pendingSettlement, i)
    BY DEF Concluded, Accounted
  <2>2. LocalUses(plan, i) = Cardinality(LocalPairs(plan.matches, i))
                               + Cardinality(LocalDrafts(plan.breaks, i))
                               + Cardinality(LocalWaits(plan.pendingSettlement, i))
    BY DEF LocalUses, LocalPairs, LocalDrafts, LocalWaits
  <2>3. QED
    BY <1>1, <2>1, <2>2 DEF LocalOnce
<1>4. QED
  BY <1>2, <1>3

-----------------------------------------------------------------------------
(* The books, and what the workers have read of them.                      *)

\* What the provider has posted or has still to post.
Entries == statement \cup late

\* Books are finite, and an id is that of one record.
Booked(E, T) ==
  /\ IsFiniteSet(E) /\ IsFiniteSet(T)
  /\ \A e \in E : e.at \in Int /\ <<"import", e.id>> # None
  /\ \A t \in T : IsTransaction(t) /\ t.at \in Int /\ t.id # None
  /\ \A e, f \in E : e.id = f.id => e.day = f.day
  /\ \A t, u \in T : t.id = u.id => t.day = u.day
  /\ \A t \in T, e \in E : t.id = <<"import", e.id>> => t.day = e.day

BooksInv == Booked(Entries, txns)

\* An item is that of a record of the books.
OfEntry(i, E) == \E e \in E : i.externalId = e.id /\ i.effectiveDate = e.day
OfTxn(i, T) == \E t \in T : i.externalId = t.id /\ i.effectiveDate = t.day

\* What a worker holds: items of its two sides and, from the last read on, the plan.
Held(x, E, T) ==
  /\ x = [at |-> x.at, run |-> x.run, provider |-> x.provider, local |-> x.local,
          ledger |-> x.ledger, plan |-> x.plan, unwritten |-> x.unwritten,
              inserted |-> x.inserted]
  /\ x.run \in Int
  /\ IsItems(x.provider) /\ IsItems(x.local)
  /\ \A i \in x.provider : OfEntry(i, E)
  /\ \A i \in x.local : OfTxn(i, T)
  /\ x.at \in {"persist", "complete", "resolve"} =>
       Concluded(x.plan, x.provider, x.local, x.ledger)
  /\ x.at = "persist" => x.unwritten \in SUBSET x.plan.breaks

WorkersInv ==
  /\ DOMAIN runs \in SUBSET Nat
  /\ DOMAIN worker = Workers
  /\ \A w \in Workers : Held(worker[w], Entries, txns)

\* None is a value of its own and no item.
NoneIsNoItem == \A r, id : fromStatementEntry(r, id) # None /\ fromTransaction(r, id) # None

\* The values of a function on a finite set are finitely many.
LEMMA ImageIsFinite ==
  ASSUME NEW S, IsFiniteSet(S), NEW f, DOMAIN f = S
  PROVE  IsFiniteSet({f[x] : x \in S})
<1> DEFINE T == {f[x] : x \in S}
           g == [x \in S |-> f[x]]
<1>1. g \in Surjection(S, T)
  BY DEF Surjection
<1>2. QED
  BY <1>1, FS_Surjection

\* What FetchProvider mints: items with ids of their own, of entries of the statement.
LEMMA MintedEntries ==
  ASSUME NoneIsNoItem, NEW E, NEW S \in SUBSET E, IsFiniteSet(S), \A e \in S : e.at \in Int,
         NEW run \in Int, NEW order \in Orders(S),
         NEW P, P = {fromStatementEntry(e, ItemId(run, 0, order[e])) : e \in S}
  PROVE  IsItems(P) /\ \A i \in P : OfEntry(i, E)
<1> DEFINE item == [e \in S |-> fromStatementEntry(e, ItemId(run, 0, order[e]))]
<1>1. P = {item[e] : e \in S} /\ DOMAIN item = S
  OBVIOUS
<1>2. \A e \in S : order[e] \in Int /\ \A f \in S : order[e] = order[f] => e = f
  BY DEF Orders, IsInjective
<1>3. \A e \in S : item[e] = fromStatementEntry(e, ItemId(run, 0, order[e]))
  OBVIOUS
<1> HIDE DEF item
<1>4. ASSUME NEW e \in S
      PROVE  /\ item[e].id = (100 * run) + order[e] /\ item[e].postedAt = e.at
             /\ item[e].externalId = e.id /\ item[e].effectiveDate = e.day
  <2> DEFINE id == ItemId(run, 0, order[e])
  <2>1. id = (100 * run) + order[e]
    BY <1>2 DEF ItemId
  <2>2. item[e] = fromStatementEntry(e, id)
    BY <1>3
  <2> HIDE DEF id
  <2>3. QED
    BY <2>1, <2>2 DEF fromStatementEntry
<1>5. \A e \in S : item[e] # None
  BY <1>3 DEF NoneIsNoItem
<1>6. ASSUME NEW e \in S PROVE TakesE2e(item[e])
  <2> SUFFICES ASSUME NEW x PROVE /\ WithE2e(item[e], x).endToEndId = x
                                  /\ WithE2e(item[e], x).effectiveDate = item[e].effectiveDate
    BY DEF TakesE2e
  <2> DEFINE id == ItemId(run, 0, order[e])
  <2>1. item[e] = fromStatementEntry(e, id)
    BY <1>3
  <2> HIDE DEF id
  <2>2. QED
    BY <2>1 DEF fromStatementEntry, WithE2e
<1>7. IsFiniteSet(P)
  <2>1. IsFiniteSet({item[e] : e \in S})
    BY <1>1, ImageIsFinite
  <2>2. QED
    BY <1>1, <2>1
<1>8. IsItems(P)
  <2>1. \A i \in P : i.id \in Int /\ i.postedAt \in Int /\ i # None /\ TakesE2e(i)
    <3>1. \A e \in S : item[e].id \in Int /\ item[e].postedAt \in Int
      BY <1>2, <1>4
    <3>2. QED
      BY <1>1, <1>5, <1>6, <3>1
  <2>2. \A e, f \in S : item[e].id = item[f].id => e = f
    BY <1>2, <1>4
  <2>3. \A i, j \in P : i.id = j.id => i = j
    BY <1>1, <2>2
  <2>4. QED
    BY <1>7, <2>1, <2>3 DEF IsItems
<1>9. QED
  BY <1>1, <1>4, <1>8 DEF OfEntry

\* What FetchLocal mints: items with ids of their own, of our transactions.
LEMMA MintedTransactions ==
  ASSUME NoneIsNoItem, NEW T, NEW S \in SUBSET T, IsFiniteSet(S), \A t \in S : t.at \in Int,
         NEW run \in Int, NEW order \in Orders(S),
         NEW C, C = {fromTransaction(t, ItemId(run, 1, order[t])) : t \in S}
  PROVE  IsItems(C) /\ \A i \in C : OfTxn(i, T)
<1> DEFINE item == [t \in S |-> fromTransaction(t, ItemId(run, 1, order[t]))]
<1>1. C = {item[t] : t \in S} /\ DOMAIN item = S
  OBVIOUS
<1>2. \A t \in S : order[t] \in Int /\ \A u \in S : order[t] = order[u] => t = u
  BY DEF Orders, IsInjective
<1>3. \A t \in S : item[t] = fromTransaction(t, ItemId(run, 1, order[t]))
  OBVIOUS
<1> HIDE DEF item
<1>4. ASSUME NEW t \in S
      PROVE  /\ item[t].id = (100 * run) + 10 + order[t] /\ item[t].postedAt = t.at
             /\ item[t].externalId = t.id /\ item[t].effectiveDate = t.day
  <2> DEFINE id == ItemId(run, 1, order[t])
  <2>1. id = (100 * run) + 10 + order[t]
    BY <1>2 DEF ItemId
  <2>2. item[t] = fromTransaction(t, id)
    BY <1>3
  <2> HIDE DEF id
  <2>3. QED
    BY <2>1, <2>2 DEF fromTransaction
<1>5. \A t \in S : item[t] # None
  BY <1>3 DEF NoneIsNoItem
<1>6. ASSUME NEW t \in S PROVE TakesE2e(item[t])
  <2> SUFFICES ASSUME NEW x PROVE /\ WithE2e(item[t], x).endToEndId = x
                                  /\ WithE2e(item[t], x).effectiveDate = item[t].effectiveDate
    BY DEF TakesE2e
  <2> DEFINE id == ItemId(run, 1, order[t])
  <2>1. item[t] = fromTransaction(t, id)
    BY <1>3
  <2> HIDE DEF id
  <2>2. QED
    BY <2>1 DEF fromTransaction, WithE2e
<1>7. IsFiniteSet(C)
  <2>1. IsFiniteSet({item[t] : t \in S})
    BY <1>1, ImageIsFinite
  <2>2. QED
    BY <1>1, <2>1
<1>8. IsItems(C)
  <2>1. \A i \in C : i.id \in Int /\ i.postedAt \in Int /\ i # None /\ TakesE2e(i)
    <3>1. \A t \in S : item[t].id \in Int /\ item[t].postedAt \in Int
      BY <1>2, <1>4
    <3>2. QED
      BY <1>1, <1>5, <1>6, <3>1
  <2>2. \A t, u \in S : item[t].id = item[u].id => t = u
    BY <1>2, <1>4
  <2>3. \A i, j \in C : i.id = j.id => i = j
    BY <1>1, <2>2
  <2>4. QED
    BY <1>7, <2>1, <2>3 DEF IsItems
<1>9. QED
  BY <1>1, <1>4, <1>8 DEF OfTxn

-----------------------------------------------------------------------------
(* The steps that write the books.                                         *)

\* The transactions of T keep their ids and days in U.
DaysStay(T, U) == \A t \in T : \E u \in U : u.id = t.id /\ u.day = t.day

\* An imported credit is the transaction of an entry of the statement.
ImportOf(i) ==
  [id |-> <<"import", i.externalId>>, pay |-> i.pay, e2e |-> i.endToEndId,
   ptx |-> i.externalId, at |-> i.postedAt, day |-> i.effectiveDate,
   direction |-> "CREDIT", cents |-> i.amountCents, type |-> "PIX_IN",
   status |-> "SETTLED", party |-> None, ltx |-> <<"pix-in", i.externalId>>]

\* An import adds a transaction with the day of its entry.
LEMMA ImportsKeepBooks ==
  ASSUME NEW E, NEW T, Booked(E, T), NEW P, IsItems(P), \A i \in P : OfEntry(i, E),
         NEW done \in SUBSET P
  PROVE  LET U == T \cup {ImportOf(i) : i \in done} IN Booked(E, U) /\ DaysStay(T, U)
<1> DEFINE f == [i \in done |-> ImportOf(i)]
           N == {f[i] : i \in done}
           U == T \cup N
<1>1. N = {ImportOf(i) : i \in done} /\ DOMAIN f = done
  OBVIOUS
<1>2. ASSUME NEW n \in N
      PROVE  /\ IsTransaction(n) /\ n.at \in Int
             /\ \E e \in E : n.id = <<"import", e.id>> /\ n.day = e.day
  <2>1. PICK i \in done : n = ImportOf(i)
    OBVIOUS
  <2>2. i.postedAt \in Int
    BY DEF IsItems
  <2>3. PICK e \in E : i.externalId = e.id /\ i.effectiveDate = e.day
    BY DEF OfEntry
  <2> HIDE DEF N
  <2>4. IsTransaction(n)
    BY <2>1 DEF ImportOf, IsTransaction
  <2>5. n.at = i.postedAt /\ n.id = <<"import", i.externalId>> /\ n.day = i.effectiveDate
    BY <2>1 DEF ImportOf
  <2>6. QED
    BY <2>2, <2>3, <2>4, <2>5
<1>3. IsFiniteSet(N)
  <2>1. IsFiniteSet(done)
    BY FS_Subset DEF IsItems
  <2> HIDE DEF f
  <2>2. QED
    BY <1>1, <2>1, ImageIsFinite
<1>4. IsFiniteSet(U)
  <2> HIDE DEF N
  <2> QED BY <1>3, FS_Union DEF Booked
<1> HIDE DEF N
<1>5. ASSUME NEW n \in N, NEW e \in E, n.id = <<"import", e.id>> PROVE n.day = e.day
  <2>1. PICK d \in E : n.id = <<"import", d.id>> /\ n.day = d.day
    BY <1>2
  <2>2. d.id = e.id
    BY <1>5, <2>1
  <2>3. QED
    BY <2>1, <2>2 DEF Booked
<1>6. ASSUME NEW n \in N PROVE n.id # None
  <2>1. PICK e \in E : n.id = <<"import", e.id>>
    BY <1>2
  <2>2. <<"import", e.id>> # None
    BY DEF Booked
  <2>3. QED
    BY <2>1, <2>2
<1>7. ASSUME NEW t \in U, NEW u \in U, t.id = u.id PROVE t.day = u.day
  <2>1. CASE t \in N
    <3>1. PICK e \in E : t.id = <<"import", e.id>> /\ t.day = e.day
      BY <1>2, <2>1
    <3>2. u.id = <<"import", e.id>>
      BY <1>7, <3>1
    <3>3. u.day = e.day
      BY <1>5, <3>2 DEF Booked
    <3>4. QED
      BY <3>1, <3>3
  <2>2. CASE u \in N
    <3>1. PICK e \in E : u.id = <<"import", e.id>> /\ u.day = e.day
      BY <1>2, <2>2
    <3>2. t.id = <<"import", e.id>>
      BY <1>7, <3>1
    <3>3. t.day = e.day
      BY <1>5, <3>2 DEF Booked
    <3>4. QED
      BY <3>1, <3>3
  <2>3. CASE t \in T /\ u \in T
    BY <1>7, <2>3 DEF Booked
  <2>4. QED
    BY <2>1, <2>2, <2>3
<1>8. Booked(E, U)
  <2>1. \A t \in U : IsTransaction(t) /\ t.at \in Int /\ t.id # None
    BY <1>2, <1>6 DEF Booked
  <2>2. \A t \in U, e \in E : t.id = <<"import", e.id>> => t.day = e.day
    BY <1>5 DEF Booked
  <2> HIDE DEF U
  <2>3. QED
    BY <1>4, <1>7, <2>1, <2>2 DEF Booked
<1>9. DaysStay(T, U)
  BY DEF DaysStay
<1>10. QED
  BY <1>1, <1>8, <1>9

Cancelled(t) == [t EXCEPT !.status = "CANCELLED"]

\* A cancelled transaction keeps its id and its day.
LEMMA CancelKeepsBooks ==
  ASSUME NEW E, NEW T, Booked(E, T), NEW hit \in SUBSET T
  PROVE  LET U == (T \ hit) \cup {Cancelled(t) : t \in hit} IN Booked(E, U) /\ DaysStay(T, U)
<1> DEFINE f == [t \in hit |-> Cancelled(t)]
           N == {f[t] : t \in hit}
           U == (T \ hit) \cup N
<1>1. N = {Cancelled(t) : t \in hit} /\ DOMAIN f = hit
  OBVIOUS
<1>2. ASSUME NEW t \in hit
      PROVE  IsTransaction(f[t]) /\ f[t].at = t.at /\ f[t].id = t.id /\ f[t].day = t.day
  <2>1. f[t] = [t EXCEPT !.status = "CANCELLED"]
    BY DEF Cancelled
  <2> HIDE DEF f
  <2>2. t = [id |-> t.id, pay |-> t.pay, e2e |-> t.e2e, ptx |-> t.ptx, at |-> t.at, day |-> t.day,
             direction |-> t.direction, cents |-> t.cents, type |-> t.type, status |-> t.status,
             party |-> t.party, ltx |-> t.ltx]
    BY DEF Booked, IsTransaction
  <2>3. f[t] = [id |-> t.id, pay |-> t.pay, e2e |-> t.e2e, ptx |-> t.ptx, at |-> t.at, day |-> t.day,
             direction |-> t.direction, cents |-> t.cents, type |-> t.type, status |-> "CANCELLED",
             party |-> t.party, ltx |-> t.ltx]
    BY <2>1, <2>2
  <2>4. QED
    BY <2>3 DEF IsTransaction
<1>3. IsFiniteSet(U)
  <2>1. IsFiniteSet(hit) /\ IsFiniteSet(T \ hit)
    BY FS_Subset DEF Booked
  <2>2. IsFiniteSet(N)
    <3> HIDE DEF f
    <3> QED BY <1>1, <2>1, ImageIsFinite
  <2> HIDE DEF N
  <2>3. QED
    BY <2>1, <2>2, FS_Union
<1> HIDE DEF f
<1>4. \A u \in U : \E t \in T : u.at = t.at /\ u.id = t.id /\ u.day = t.day
  BY <1>2
<1>5. \A u \in U : IsTransaction(u)
  BY <1>2 DEF Booked
<1>6. DaysStay(T, U)
  BY <1>2 DEF DaysStay
<1> HIDE DEF N, U
<1>7. Booked(E, U)
  BY <1>3, <1>4, <1>5 DEF Booked
<1>8. QED
  BY <1>1, <1>6, <1>7 DEF U

-----------------------------------------------------------------------------
(* The steps of the machine.                                               *)

\* The records that give an item its day stay.
BooksStay == Entries' = Entries /\ DaysStay(txns, txns')

\* What a worker holds is still of the books when they grow.
LEMMA HeldStays ==
  ASSUME NEW E, NEW T, NEW U, DaysStay(T, U), NEW x, Held(x, E, T) PROVE Held(x, E, U)
<1>1. \A i \in x.local : OfTxn(i, U)
  BY DEF Held, OfTxn, DaysStay
<1>2. QED
  BY <1>1 DEF Held

\* One worker takes a step, or none.
LEMMA OneWorkerSteps ==
  ASSUME WorkersInv, BooksStay, DOMAIN runs' = DOMAIN runs, NEW w, DOMAIN worker' = Workers,
         \A v \in Workers \ {w} : worker'[v] = worker[v],
         w \in Workers => Held(worker'[w], Entries', txns')
  PROVE  WorkersInv'
<1>1. ASSUME NEW v \in Workers, v # w PROVE Held(worker'[v], Entries', txns')
  BY <1>1, HeldStays DEF WorkersInv, BooksStay
<1>2. QED
  BY <1>1 DEF WorkersInv

\* No worker takes a step.
LEMMA NoWorkerSteps ==
  ASSUME WorkersInv, BooksStay, DOMAIN runs' = DOMAIN runs, worker' = worker PROVE WorkersInv'
<1>1. \A v \in Workers : Held(worker'[v], Entries', txns')
  BY HeldStays DEF WorkersInv, BooksStay
<1>2. QED
  BY <1>1 DEF WorkersInv

\* The books are finite and traced in every state, and what gives an item its day stays.
LEMMA BooksStep == BooksInv /\ WorkersInv /\ [Next]_vars => BooksInv' /\ BooksStay
<1> SUFFICES ASSUME BooksInv, WorkersInv, [Next]_vars PROVE BooksInv' /\ BooksStay
  OBVIOUS
<1>1. ASSUME Entries' = Entries, txns' = txns PROVE BooksInv' /\ BooksStay
  BY <1>1 DEF BooksInv, BooksStay, DaysStay
<1>2. ASSUME Entries' = Entries, Booked(Entries, txns'), DaysStay(txns, txns') PROVE BooksInv' /\ BooksStay
  BY <1>2 DEF BooksInv, BooksStay
<1>3. ASSUME NEW e \in late, Post(e) PROVE BooksInv' /\ BooksStay
  BY <1>1, <1>3 DEF Post, Entries
<1>4. ASSUME NEW w \in Workers, AutoResolve(w) PROVE BooksInv' /\ BooksStay
  <2> DEFINE x == worker[w]
             wanted == {d.provider : d \in {b \in x.plan.breaks :
                                              b.autoResolution = "IMPORT_FROM_PROVIDER"}}
  <2>1. PICK done \in SUBSET Imported(wanted) : txns' = txns \cup {ImportOf(i) : i \in done}
    BY <1>4 DEF AutoResolve, ImportOf
  <2>2. x.at = "resolve" /\ Entries' = Entries
    BY <1>4 DEF AutoResolve, Entries
  <2>3. Held(x, Entries, txns)
    BY DEF WorkersInv
  <2> HIDE DEF x
  <2>4. \A d \in x.plan.breaks : Grounded(d, x.provider, x.local)
    BY <2>2, <2>3 DEF Held, Concluded, Accounted
  <2>5. wanted \in SUBSET x.provider
    BY <2>4 DEF Grounded
  <2> HIDE DEF wanted
  <2>6. done \in SUBSET x.provider
    BY <2>1, <2>5 DEF Imported
  <2>7. LET U == txns \cup {ImportOf(i) : i \in done} IN Booked(Entries, U) /\ DaysStay(txns, U)
    BY <2>3, <2>6, ImportsKeepBooks DEF BooksInv, Held
  <2>8. QED
    BY <1>2, <2>1, <2>2, <2>7
<1>5. ASSUME NEW o \in Operators, CancelLocalRecord(o) PROVE BooksInv' /\ BooksStay
  <2>1. PICK hit \in SUBSET txns : txns' = (txns \ hit) \cup {Cancelled(t) : t \in hit}
    <3> DEFINE item == operator[o].key.draft.local
               hit == {t \in txns : item # None /\ t.id = item.externalId
                                    /\ t.status \in {"PENDING", "UNKNOWN"}}
    <3>1. txns' = (txns \ hit) \cup {[t EXCEPT !.status = "CANCELLED"] : t \in hit}
      BY <1>5 DEF CancelLocalRecord
    <3>2. hit \in SUBSET txns
      OBVIOUS
    <3> HIDE DEF hit
    <3>3. QED
      BY <3>1, <3>2 DEF Cancelled
  <2>2. Entries' = Entries
    BY <1>5 DEF CancelLocalRecord, Entries
  <2>3. LET U == (txns \ hit) \cup {Cancelled(t) : t \in hit} IN Booked(Entries, U) /\ DaysStay(txns, U)
    BY CancelKeepsBooks DEF BooksInv
  <2>4. QED
    BY <1>2, <2>1, <2>2, <2>3
<1>6. ASSUME NEW w \in Workers,
             \/ \E r \in DOMAIN runs : TakeJob(w, r)
             \/ MarkRunning(w) \/ FetchProvider(w) \/ FetchLocal(w) \/ FetchLedger(w)
             \/ UpsertBreaks(w) \/ EmitOpened(w) \/ CloseNotRecurring(w) \/ Complete(w)
             \/ Stall(w) \/ \E dies \in BOOLEAN : Fail(w, dies)
      PROVE  Entries' = Entries /\ txns' = txns
  BY <1>6 DEF TakeJob, MarkRunning, FetchProvider, FetchLocal, FetchLedger, UpsertBreaks, EmitOpened,
     CloseNotRecurring, Complete, Stall, Fail, books, Entries
<1>7. ASSUME NEW o \in Operators,
             \/ \E row \in breaks, action \in Actions : OpenBreak(o, row, action)
             \/ PostAdjustment(o) \/ NoEffect(o) \/ ResolveManually(o)
      PROVE  Entries' = Entries /\ txns' = txns
  BY <1>7 DEF OpenBreak, PostAdjustment, NoEffect, ResolveManually, books, Entries
<1>8. ASSUME \/ Pass
             \/ \E r \in DOMAIN runs, lost \in BOOLEAN : Sweep(r, lost)
             \/ UNCHANGED vars
      PROVE  Entries' = Entries /\ txns' = txns
  BY <1>8 DEF Pass, Sweep, vars, books, Entries
<1>9. QED
  BY <1>1, <1>3, <1>4, <1>5, <1>6, <1>7, <1>8 DEF Next, RunStep

\* Worker w holds x, and no other worker has moved.
Moved(w, x) ==
  /\ DOMAIN worker' = Workers
  /\ \A v \in Workers \ {w} : worker'[v] = worker[v]
  /\ worker'[w] = x

\* A worker with another place, and other fields.
Worker(at, run, provider, local, ledger, plan, unwritten, inserted) ==
  [at |-> at, run |-> run, provider |-> provider, local |-> local, ledger |-> ledger,
   plan |-> plan, unwritten |-> unwritten, inserted |-> inserted]

\* What a worker holds does not depend on what it inserted; the plan matters from
\* "persist" on.
HeldAs(at, run, provider, local, ledger, plan, unwritten, E, T) ==
  /\ run \in Int
  /\ IsItems(provider) /\ IsItems(local)
  /\ \A i \in provider : OfEntry(i, E)
  /\ \A i \in local : OfTxn(i, T)
  /\ at \in {"persist", "complete", "resolve"} => Concluded(plan, provider, local, ledger)
  /\ at = "persist" => unwritten \in SUBSET plan.breaks

\* A worker made of such fields holds them.
LEMMA HeldWorker ==
  ASSUME NEW at, NEW run, NEW provider, NEW local, NEW ledger, NEW plan, NEW unwritten, NEW inserted,
         NEW E, NEW T, HeldAs(at, run, provider, local, ledger, plan, unwritten, E, T)
  PROVE  Held(Worker(at, run, provider, local, ledger, plan, unwritten, inserted), E, T)
<1> DEFINE x == Worker(at, run, provider, local, ledger, plan, unwritten, inserted)
<1>1. /\ x.at = at /\ x.run = run /\ x.provider = provider /\ x.local = local /\ x.ledger = ledger
      /\ x.plan = plan /\ x.unwritten = unwritten /\ x.inserted = inserted
  BY DEF Worker
<1>2. x = [at |-> x.at, run |-> x.run, provider |-> x.provider, local |-> x.local,
           ledger |-> x.ledger, plan |-> x.plan, unwritten |-> x.unwritten,
           inserted |-> x.inserted]
  BY DEF Worker
<1> HIDE DEF x
<1>3. Held(x, E, T)
  BY <1>1, <1>2 DEF Held, HeldAs
<1>4. QED
  BY <1>3 DEF x

\* A worker that has read nothing has no items.
LEMMA NoItems == IsItems({})
  BY FS_EmptySet DEF IsItems

\* An idle worker holds nothing.
LEMMA IdleHolds == ASSUME NEW E, NEW T PROVE Held(IdleWorker, E, T)
<1>1. HeldAs("idle", 0, {}, {}, {}, {}, {}, E, T)
  BY NoItems DEF HeldAs
<1>2. Held(Worker("idle", 0, {}, {}, {}, {}, {}, {}), E, T)
  BY <1>1, HeldWorker
<1>3. QED
  BY <1>2 DEF Worker, IdleWorker

\* The writes of a worker's record.
LEMMA WorkerWrites ==
  ASSUME WorkersInv, NEW w \in Workers, NEW at, NEW y
  PROVE  LET x == worker[w]
         IN  /\ worker' = At(w, at) =>
                  Moved(w, Worker(at, x.run, x.provider, x.local, x.ledger, x.plan, x.unwritten, x.inserted))
             /\ worker' = [worker EXCEPT ![w].at = at, ![w].run = y] =>
                  Moved(w, Worker(at, y, x.provider, x.local, x.ledger, x.plan, x.unwritten, x.inserted))
             /\ worker' = [worker EXCEPT ![w].at = at, ![w].provider = y] =>
                  Moved(w, Worker(at, x.run, y, x.local, x.ledger, x.plan, x.unwritten, x.inserted))
             /\ worker' = [worker EXCEPT ![w].at = at, ![w].local = y] =>
                  Moved(w, Worker(at, x.run, x.provider, y, x.ledger, x.plan, x.unwritten, x.inserted))
             /\ worker' = [worker EXCEPT ![w].inserted = y] =>
                  Moved(w, Worker(x.at, x.run, x.provider, x.local, x.ledger, x.plan, x.unwritten, y))
             /\ \A z : worker' = [worker EXCEPT ![w].unwritten = y, ![w].inserted = z] =>
                  Moved(w, Worker(x.at, x.run, x.provider, x.local, x.ledger, x.plan, y, z))
             /\ \A z, u : worker' = [worker EXCEPT ![w].at = at, ![w].ledger = y, ![w].plan = z,
                                                   ![w].unwritten = u] =>
                  Moved(w, Worker(at, x.run, x.provider, x.local, y, z, u, x.inserted))
             /\ worker' = [worker EXCEPT ![w] = y] => Moved(w, y)
<1> DEFINE x == worker[w]
<1>1. /\ DOMAIN worker = Workers
      /\ x = [at |-> x.at, run |-> x.run, provider |-> x.provider, local |-> x.local,
              ledger |-> x.ledger, plan |-> x.plan, unwritten |-> x.unwritten,
              inserted |-> x.inserted]
  BY DEF WorkersInv, Held
<1>2. worker' = At(w, at) =>
         Moved(w, Worker(at, x.run, x.provider, x.local, x.ledger, x.plan, x.unwritten, x.inserted))
  BY <1>1 DEF Moved, Worker, At
<1>3. worker' = [worker EXCEPT ![w].at = at, ![w].run = y] =>
         Moved(w, Worker(at, y, x.provider, x.local, x.ledger, x.plan, x.unwritten, x.inserted))
  BY <1>1 DEF Moved, Worker
<1>4. worker' = [worker EXCEPT ![w].at = at, ![w].provider = y] =>
         Moved(w, Worker(at, x.run, y, x.local, x.ledger, x.plan, x.unwritten, x.inserted))
  BY <1>1 DEF Moved, Worker
<1>5. worker' = [worker EXCEPT ![w].at = at, ![w].local = y] =>
         Moved(w, Worker(at, x.run, x.provider, y, x.ledger, x.plan, x.unwritten, x.inserted))
  BY <1>1 DEF Moved, Worker
<1>6. worker' = [worker EXCEPT ![w].inserted = y] =>
         Moved(w, Worker(x.at, x.run, x.provider, x.local, x.ledger, x.plan, x.unwritten, y))
  BY <1>1 DEF Moved, Worker
<1>7. ASSUME NEW z, worker' = [worker EXCEPT ![w].unwritten = y, ![w].inserted = z]
      PROVE  Moved(w, Worker(x.at, x.run, x.provider, x.local, x.ledger, x.plan, y, z))
  BY <1>1, <1>7 DEF Moved, Worker
<1>8. ASSUME NEW z, NEW u, worker' = [worker EXCEPT ![w].at = at, ![w].ledger = y, ![w].plan = z,
                                                    ![w].unwritten = u]
      PROVE  Moved(w, Worker(at, x.run, x.provider, x.local, y, z, u, x.inserted))
  BY <1>1, <1>8 DEF Moved, Worker
<1>9. worker' = [worker EXCEPT ![w] = y] => Moved(w, y)
  BY <1>1 DEF Moved
<1>10. QED
  BY <1>2, <1>3, <1>4, <1>5, <1>6, <1>7, <1>8, <1>9

\* A worker moves on with what it may hold.
LEMMA MovedWorker ==
  ASSUME WorkersInv, BooksStay, DOMAIN runs' = DOMAIN runs, NEW w \in Workers, NEW x, Moved(w, x),
         Held(x, Entries, txns)
  PROVE  WorkersInv'
<1>1. Held(x, Entries', txns')
  BY HeldStays DEF BooksStay
<1>2. QED
  BY <1>1, OneWorkerSteps DEF Moved

\* Every step leaves the workers with items of the books, and plans that conclude about them.
LEMMA WorkersStep == NoneIsNoItem /\ BooksInv /\ WorkersInv /\ [Next]_vars => WorkersInv'
<1> SUFFICES ASSUME NoneIsNoItem, BooksInv, WorkersInv, [Next]_vars PROVE WorkersInv'
  OBVIOUS
<1>0. BooksStay
  BY BooksStep
<1>1. ASSUME NEW w \in Workers PROVE Held(worker[w], Entries, txns)
  BY DEF WorkersInv
<1>2. DOMAIN runs' = DOMAIN runs
  <2>1. ASSUME NEW w \in Workers, RunStep(w) \/ Stall(w) \/ \E dies \in BOOLEAN : Fail(w, dies)
        PROVE  DOMAIN runs' = DOMAIN runs
    <3>1. CASE \/ MarkRunning(w) \/ Complete(w) \/ \E dies \in BOOLEAN : Fail(w, dies)
      BY <3>1 DEF MarkRunning, Complete, Fail
    <3>2. CASE \/ \E r \in DOMAIN runs : TakeJob(w, r)
               \/ FetchProvider(w) \/ FetchLocal(w) \/ FetchLedger(w) \/ UpsertBreaks(w)
               \/ EmitOpened(w) \/ CloseNotRecurring(w) \/ AutoResolve(w) \/ Stall(w)
      BY <3>2 DEF TakeJob, FetchProvider, FetchLocal, FetchLedger, UpsertBreaks, EmitOpened,
         CloseNotRecurring, AutoResolve, Stall
    <3>3. QED
      BY <2>1, <3>1, <3>2 DEF RunStep
  <2>2. ASSUME NEW o \in Operators,
               \/ \E row \in breaks, action \in Actions : OpenBreak(o, row, action)
               \/ PostAdjustment(o) \/ CancelLocalRecord(o) \/ NoEffect(o) \/ ResolveManually(o)
        PROVE  DOMAIN runs' = DOMAIN runs
    BY <2>2 DEF OpenBreak, PostAdjustment, CancelLocalRecord, NoEffect, ResolveManually
  <2>3. ASSUME \/ \E e \in late : Post(e)
               \/ Pass
               \/ \E r \in DOMAIN runs, lost \in BOOLEAN : Sweep(r, lost)
               \/ UNCHANGED vars
        PROVE  DOMAIN runs' = DOMAIN runs
    BY <2>3 DEF Post, Pass, Sweep, startRun, vars
  <2>4. QED
    BY <2>1, <2>2, <2>3 DEF Next
<1>3. ASSUME NEW w \in Workers, NEW at, worker' = At(w, at),
             at \in {"complete", "resolve"} =>
               worker[w].at \in {"persist", "complete", "resolve"},
             at # "persist"
      PROVE  WorkersInv'
  <2> DEFINE x == worker[w]
  <2>1. Moved(w, Worker(at, x.run, x.provider, x.local, x.ledger, x.plan, x.unwritten, x.inserted))
    BY <1>3, WorkerWrites
  <2>2. HeldAs(at, x.run, x.provider, x.local, x.ledger, x.plan, x.unwritten, Entries, txns)
    BY <1>1, <1>3 DEF HeldAs, Held
  <2>3. QED
    BY <1>0, <1>2, <2>1, <2>2, HeldWorker, MovedWorker
<1>4. ASSUME NEW w \in Workers, worker' = [worker EXCEPT ![w] = IdleWorker] PROVE WorkersInv'
  BY <1>0, <1>2, <1>4, WorkerWrites, IdleHolds, MovedWorker
<1>5. ASSUME worker' = worker PROVE WorkersInv'
  BY <1>0, <1>2, <1>5, NoWorkerSteps
<1>6. ASSUME NEW w \in Workers, NEW r \in DOMAIN runs, TakeJob(w, r) PROVE WorkersInv'
  <2> DEFINE x == worker[w]
  <2>1. CASE worker' = worker
    BY <1>5, <2>1
  <2>2. CASE worker' = [worker EXCEPT ![w].at = "taken", ![w].run = r]
    <3>1. Moved(w, Worker("taken", r, x.provider, x.local, x.ledger, x.plan, x.unwritten, x.inserted))
      BY <2>2, WorkerWrites
    <3>2. r \in Int
      BY DEF WorkersInv
    <3>3. HeldAs("taken", r, x.provider, x.local, x.ledger, x.plan, x.unwritten, Entries, txns)
      BY <1>1, <3>2 DEF HeldAs, Held
    <3>4. QED
      BY <1>0, <1>2, <3>1, <3>3, HeldWorker, MovedWorker
  <2>3. QED
    BY <1>6, <2>1, <2>2 DEF TakeJob
<1>7. ASSUME NEW w \in Workers, MarkRunning(w) PROVE WorkersInv'
  BY <1>3, <1>7 DEF MarkRunning
<1>8. ASSUME NEW w \in Workers, FetchProvider(w) PROVE WorkersInv'
  <2> DEFINE x == worker[w]
  <2>1. PICK order \in Orders(statement) :
          worker' = [worker EXCEPT ![w].at = "local",
            ![w].provider = {fromStatementEntry(e, ItemId(x.run, 0, order[e])) : e \in statement}]
    BY <1>8 DEF FetchProvider
  <2> DEFINE P == {fromStatementEntry(e, ItemId(x.run, 0, order[e])) : e \in statement}
  <2>2. Moved(w, Worker("local", x.run, P, x.local, x.ledger, x.plan, x.unwritten, x.inserted))
    BY <2>1, WorkerWrites
  <2>3. Held(x, Entries, txns)
    BY <1>1
  <2>4. statement \in SUBSET Entries /\ IsFiniteSet(statement) /\ \A e \in statement : e.at \in Int
    <3>1. statement \in SUBSET Entries
      BY DEF Entries
    <3>2. QED
      BY <3>1, FS_Subset DEF BooksInv, Booked
  <2>5. IsItems(P) /\ \A i \in P : OfEntry(i, Entries)
    <3>1. x.run \in Int
      BY <2>3 DEF Held
    <3> HIDE DEF x
    <3>2. QED
      BY <2>4, <3>1, MintedEntries
  <2> HIDE DEF P, x
  <2>6. HeldAs("local", x.run, P, x.local, x.ledger, x.plan, x.unwritten, Entries, txns)
    BY <2>3, <2>5 DEF HeldAs, Held
  <2>7. QED
    BY <1>0, <1>2, <2>2, <2>6, HeldWorker, MovedWorker
<1>9. ASSUME NEW w \in Workers, FetchLocal(w) PROVE WorkersInv'
  <2> DEFINE x == worker[w]
             shown == {t \in txns : t.status \in RECONCILIATION_STATUSES}
  <2>1. PICK order \in Orders(shown) :
          worker' = [worker EXCEPT ![w].at = "ledger",
            ![w].local = {fromTransaction(t, ItemId(x.run, 1, order[t])) : t \in shown}]
    BY <1>9 DEF FetchLocal
  <2> DEFINE C == {fromTransaction(t, ItemId(x.run, 1, order[t])) : t \in shown}
  <2>2. Moved(w, Worker("ledger", x.run, x.provider, C, x.ledger, x.plan, x.unwritten, x.inserted))
    <3> HIDE DEF shown
    <3> QED BY <2>1, WorkerWrites
  <2>3. Held(x, Entries, txns)
    BY <1>1
  <2>4. shown \in SUBSET txns /\ IsFiniteSet(shown) /\ \A t \in shown : t.at \in Int
    <3>1. shown \in SUBSET txns
      OBVIOUS
    <3> HIDE DEF shown
    <3>2. QED
      BY <3>1, FS_Subset DEF BooksInv, Booked
  <2>5. IsItems(C) /\ \A i \in C : OfTxn(i, txns)
    <3>1. x.run \in Int
      BY <2>3 DEF Held
    <3> HIDE DEF x, shown
    <3>2. QED
      BY <2>4, <3>1, MintedTransactions
  <2> HIDE DEF C, x
  <2>6. HeldAs("ledger", x.run, x.provider, C, x.ledger, x.plan, x.unwritten, Entries, txns)
    BY <2>3, <2>5 DEF HeldAs, Held
  <2>7. QED
    BY <1>0, <1>2, <2>2, <2>6, HeldWorker, MovedWorker
<1>10. ASSUME NEW w \in Workers, FetchLedger(w) PROVE WorkersInv'
  <2> DEFINE x == worker[w]
             closing == FoldSet(LAMBDA p, sum : sum + Signed(p), 0, x.provider)
             ledger(order) == fetchLedger(x.run, order)
             plan(order) == reconcile(x.provider, x.local, ledger(order), 0, closing, LastDay, now)
  <2>1. \E order \in Orders(moves) :
          worker' = [worker EXCEPT ![w].at = "persist", ![w].ledger = ledger(order),
                                   ![w].plan = plan(order), ![w].unwritten = plan(order).breaks]
    BY <1>10 DEF FetchLedger
  <2> HIDE DEF ledger, plan, closing
  <2>2. PICK order : worker' = [worker EXCEPT ![w].at = "persist", ![w].ledger = ledger(order),
                                  ![w].plan = plan(order), ![w].unwritten = plan(order).breaks]
    BY <2>1
  <2>3. Moved(w, Worker("persist", x.run, x.provider, x.local, ledger(order), plan(order),
                        plan(order).breaks, x.inserted))
    BY <2>2, WorkerWrites
  <2>4. Held(x, Entries, txns)
    BY <1>1
  <2> HIDE DEF x
  <2>5. IsLedger(ledger(order))
    BY DEF IsLedger, ledger, fetchLedger, fromLedgerMovement
  <2>6. Concluded(plan(order), x.provider, x.local, ledger(order))
    BY <2>4, <2>5, NoneAssumption, ReconcileConcludes DEF Held, plan, NoneIsNoIntent
  <2>7. HeldAs("persist", x.run, x.provider, x.local, ledger(order), plan(order),
               plan(order).breaks, Entries, txns)
    BY <2>4, <2>6 DEF HeldAs, Held
  <2>8. QED
    BY <1>0, <1>2, <2>3, <2>7, HeldWorker, MovedWorker
<1>11. ASSUME NEW w \in Workers, UpsertBreaks(w) \/ EmitOpened(w) PROVE WorkersInv'
  <2> DEFINE x == worker[w]
  <2>1. \E left, ins : /\ left \in SUBSET x.unwritten
                       /\ Moved(w, Worker(x.at, x.run, x.provider, x.local, x.ledger, x.plan, left, ins))
    <3>1. CASE UpsertBreaks(w)
      <4>1. PICK d : worker' = [worker EXCEPT ![w].unwritten = x.unwritten \ {d},
                                 ![w].inserted = x.inserted \cup Inserted(breaks, breaks')]
        BY <3>1 DEF UpsertBreaks
      <4> DEFINE left == x.unwritten \ {d}
                 ins == x.inserted \cup Inserted(breaks, breaks')
      <4>2. left \in SUBSET x.unwritten
        OBVIOUS
      <4> HIDE DEF left, ins
      <4>3. Moved(w, Worker(x.at, x.run, x.provider, x.local, x.ledger, x.plan, left, ins))
        BY <4>1, WorkerWrites DEF left, ins
      <4>4. QED
        BY <4>2, <4>3
    <3>2. CASE EmitOpened(w)
      <4>1. PICK row : worker' = [worker EXCEPT ![w].inserted = x.inserted \ {row}]
        BY <3>2 DEF EmitOpened
      <4> DEFINE ins == x.inserted \ {row}
      <4> HIDE DEF ins
      <4>2. Moved(w, Worker(x.at, x.run, x.provider, x.local, x.ledger, x.plan, x.unwritten, ins))
        BY <4>1, WorkerWrites DEF ins
      <4>3. QED
        BY <4>2
    <3>3. QED
      BY <1>11, <3>1, <3>2
  <2>2. PICK left, ins : /\ left \in SUBSET x.unwritten
                         /\ Moved(w, Worker(x.at, x.run, x.provider, x.local, x.ledger, x.plan, left, ins))
    BY <2>1
  <2>3. HeldAs(x.at, x.run, x.provider, x.local, x.ledger, x.plan, left, Entries, txns)
    BY <1>1, <2>2 DEF HeldAs, Held
  <2> HIDE DEF x
  <2>4. QED
    BY <1>0, <1>2, <2>2, <2>3, HeldWorker, MovedWorker
<1>12. ASSUME NEW w \in Workers, CloseNotRecurring(w) \/ Complete(w) PROVE WorkersInv'
  BY <1>3, <1>12 DEF CloseNotRecurring, Complete
<1>13. ASSUME NEW w \in Workers, AutoResolve(w) \/ \E dies \in BOOLEAN : Fail(w, dies) PROVE WorkersInv'
  BY <1>4, <1>13 DEF AutoResolve, Fail
<1>14. ASSUME \/ \E e \in late : Post(e)
              \/ Pass
              \/ \E r \in DOMAIN runs, lost \in BOOLEAN : Sweep(r, lost)
              \/ \E w \in Workers : Stall(w)
              \/ \E o \in Operators :
                   \/ \E row \in breaks, action \in Actions : OpenBreak(o, row, action)
                   \/ PostAdjustment(o) \/ CancelLocalRecord(o) \/ NoEffect(o) \/ ResolveManually(o)
              \/ UNCHANGED vars
       PROVE  WorkersInv'
  BY <1>5, <1>14 DEF Post, Pass, Sweep, Stall, OpenBreak, PostAdjustment, CancelLocalRecord, NoEffect,
     ResolveManually, vars
<1>15. QED
  BY <1>6, <1>7, <1>8, <1>9, <1>10, <1>11, <1>12, <1>13, <1>14 DEF Next, RunStep

\* At the start the books are as assumed and the workers idle.
LEMMA WorkersStart == Init => BooksInv /\ WorkersInv
<1> SUFFICES ASSUME Init PROVE BooksInv /\ WorkersInv
  OBVIOUS
<1>1. PICK world \in Worlds : /\ statement = world.statement /\ late = world.late /\ txns = world.txns
                              /\ runs = [r \in 1..world.runs |-> "none"]
  BY DEF Init
<1>2. BooksInv /\ world.runs \in Nat
  BY <1>1, WorldsAssumption DEF BooksInv, Booked, Entries
<1>3. DOMAIN runs \in SUBSET Nat
  BY <1>1, <1>2
<1>4. DOMAIN worker = Workers /\ \A w \in Workers : worker[w] = IdleWorker
  BY DEF Init
<1>5. QED
  BY <1>2, <1>3, <1>4, IdleHolds DEF WorkersInv

\* Every item that a run reads is concluded about exactly once, whatever the sides show
\* and in whatever order ids were minted: no movement of the provider and none of our
\* transactions is paired twice, reported twice or dropped, and a posting is tied to a
\* transaction or reported (engine.ts and its passes).
THEOREM EveryItemIsAccounted ==
  ASSUME NoneIsNoItem PROVE Spec => []EveryItemAccounted
<1>1. BooksInv /\ WorkersInv /\ [Next]_vars => BooksInv' /\ WorkersInv'
  BY BooksStep, WorkersStep
<1>2. BooksInv /\ WorkersInv => EveryItemAccounted
  <2> SUFFICES ASSUME WorkersInv, NEW w \in Workers, worker[w].at = "persist"
               PROVE  LET plan == worker[w].plan IN
                      /\ \A i \in worker[w].provider : ProviderUses(plan, i) = 1
                      /\ \A i \in worker[w].local : LocalUses(plan, i) = 1
                      /\ Tied(plan.breaks, worker[w].local, worker[w].ledger)
    BY DEF EveryItemAccounted, Planned, Tied
  <2>1. Concluded(worker[w].plan, worker[w].provider, worker[w].local, worker[w].ledger)
    BY DEF WorkersInv, Held
  <2>2. QED
    BY <2>1, ConcludedUses DEF Concluded
<1>3. QED
  BY <1>1, <1>2, WorkersStart, PTL DEF Spec

-----------------------------------------------------------------------------
(* The decision to write a break off.                                      *)

\* A break as its row has it: a key, a status and the draft it was last made of.
IsBreak(b) == b \in [key : {b.key}, status : {b.status}, draft : {b.draft}]

BreaksInv == \A b \in breaks : IsBreak(b)

\* A row with another status, and another draft, is a row and keeps its key.
WithStatus(b, status) == [b EXCEPT !.status = status]
WithDraft(b, status, draft) == [b EXCEPT !.status = status, !.draft = draft]

LEMMA RowsStayRows ==
  ASSUME NEW b, IsBreak(b), NEW status, NEW draft
  PROVE  /\ IsBreak(WithStatus(b, status)) /\ WithStatus(b, status).key = b.key
         /\ IsBreak(WithDraft(b, status, draft)) /\ WithDraft(b, status, draft).key = b.key
         /\ WithDraft(b, status, draft).status = status
<1> DEFINE c == [b EXCEPT !.status = status]
           d == [b EXCEPT !.status = status, !.draft = draft]
<1>1. /\ c \in [key : {b.key}, status : {status}, draft : {b.draft}]
      /\ d \in [key : {b.key}, status : {status}, draft : {draft}]
  BY DEF IsBreak
<1> HIDE DEF c, d
<1>2. /\ c.key = b.key /\ c.status = status /\ c.draft = b.draft
      /\ d.key = b.key /\ d.status = status /\ d.draft = draft
  BY <1>1
<1>3. IsBreak(c) /\ IsBreak(d)
  BY <1>1, <1>2 DEF IsBreak
<1>4. QED
  BY <1>2, <1>3 DEF c, d, WithStatus, WithDraft

\* One step leaves every break that is written off as it is, except where an operator
\* decides, and writes rows only.
Respects(old, new, decided) ==
  /\ \A b \in new : IsBreak(b)
  /\ \A b \in old : b.status = "WRITTEN_OFF" =>
       (\E n \in new : n.key = b.key /\ n.status = "WRITTEN_OFF") \/ b.key \in decided

KeysOf(rows) == {row.key : row \in rows}

\* What the statement of one draft makes of the rows.
LEMMA UpsertedRows ==
  ASSUME NEW rows, \A b \in rows : IsBreak(b), NEW d
  PROVE  /\ \A b \in Upserted(rows, d) :
              IsBreak(b) /\ (b.key \notin KeysOf(rows) => b.key = RowKey(d) /\ b.draft = d)
         /\ \A b \in rows : \E n \in Upserted(rows, d) :
              n.key = b.key /\ (b.status = "WRITTEN_OFF" => n.status = "WRITTEN_OFF")
         /\ \A b, c \in Upserted(rows, d) :
              b.key \notin KeysOf(rows) /\ c.key \notin KeysOf(rows) => b = c
<1> DEFINE known == {b \in rows : b.key = RowKey(d)}
           again(b) == [b EXCEPT !.status = StatusOnConflict(b.status), !.draft = d]
           first == [key |-> RowKey(d), status |-> "OPEN", draft |-> d]
           new == Upserted(rows, d)
<1>1. new = (rows \ known) \cup (IF known = {} THEN {first} ELSE {again(b) : b \in known})
  BY DEF Upserted
<1>2. ASSUME NEW b \in rows
      PROVE  IsBreak(again(b)) /\ again(b).key = b.key /\ again(b).status = StatusOnConflict(b.status)
  <2> DEFINE status == StatusOnConflict(b.status)
  <2>1. again(b) = WithDraft(b, status, d)
    BY DEF WithDraft
  <2> HIDE DEF again, status
  <2>2. IsBreak(b)
    OBVIOUS
  <2>3. IsBreak(again(b)) /\ again(b).key = b.key /\ again(b).status = status
    BY <2>1, <2>2, RowsStayRows
  <2>4. QED
    BY <2>3 DEF status
<1>3. IsBreak(first) /\ first.key = RowKey(d) /\ first.draft = d
  BY DEF IsBreak
<1>4. StatusOnConflict("WRITTEN_OFF") = "WRITTEN_OFF"
  BY DEF StatusOnConflict
<1> HIDE DEF again, first, new
<1>5. ASSUME NEW b \in new
      PROVE  IsBreak(b) /\ (b.key \notin KeysOf(rows) => b = first)
  BY <1>1, <1>2, <1>3 DEF KeysOf
<1>6. ASSUME NEW b \in rows
      PROVE  \E n \in new : n.key = b.key /\ (b.status = "WRITTEN_OFF" => n.status = "WRITTEN_OFF")
  <2>1. CASE b \in known
    <3>1. again(b) \in new
      BY <1>1, <2>1
    <3>2. QED
      BY <1>2, <1>4, <3>1
  <2>2. CASE b \notin known
    BY <1>1, <2>2
  <2>3. QED
    BY <2>1, <2>2
<1>7. QED
  BY <1>3, <1>5, <1>6 DEF new

\* upsertBreaks: a break that comes back keeps its status when it was written off.
LEMMA UpsertRespects ==
  ASSUME NEW rows, \A b \in rows : IsBreak(b), NEW d PROVE Respects(rows, Upserted(rows, d), {})
  BY UpsertedRows DEF Respects

\* closeNotRecurring: only a break that is open or under investigation is closed.
LEMMA CloseRespects ==
  ASSUME NEW rows, \A b \in rows : IsBreak(b), NEW keep
  PROVE  Respects(rows, closeNotRecurring(rows, keep), {})
<1> DEFINE new(b) == IF /\ b.status \in {"OPEN", "INVESTIGATING"}
                        /\ b.key[2] \in FirstDay..LastDay /\ b.key[3] \notin keep
                     THEN [b EXCEPT !.status = "AUTO_RESOLVED"] ELSE b
<1>1. closeNotRecurring(rows, keep) = {new(b) : b \in rows}
  BY DEF closeNotRecurring
<1>2. ASSUME NEW b \in rows PROVE IsBreak(new(b)) /\ (b.status = "WRITTEN_OFF" => new(b) = b)
  <2>1. IsBreak(b) /\ new(b) \in {b, WithStatus(b, "AUTO_RESOLVED")}
    BY DEF WithStatus
  <2>2. b.status = "WRITTEN_OFF" => new(b) = b
    OBVIOUS
  <2> HIDE DEF new
  <2>3. QED
    BY <2>1, <2>2, RowsStayRows
<1> HIDE DEF new
<1>3. QED
  BY <1>1, <1>2 DEF Respects

\* resolveManually: the row of the operator's break, and no other.
LEMMA ResolveRespects ==
  ASSUME NEW rows, \A b \in rows : IsBreak(b), NEW key, NEW status, NEW new,
         new = {IF b.key = key THEN [b EXCEPT !.status = status] ELSE b : b \in rows}
  PROVE  Respects(rows, new, {key})
<1> DEFINE after(b) == IF b.key = key THEN [b EXCEPT !.status = status] ELSE b
<1>1. new = {after(b) : b \in rows}
  OBVIOUS
<1>2. ASSUME NEW b \in rows PROVE IsBreak(after(b)) /\ (b.key # key => after(b) = b)
  <2>1. IsBreak(b) /\ after(b) \in {b, WithStatus(b, status)}
    BY DEF WithStatus
  <2>2. b.key # key => after(b) = b
    OBVIOUS
  <2> HIDE DEF after
  <2>3. QED
    BY <2>1, <2>2, RowsStayRows
<1> HIDE DEF after
<1>3. QED
  BY <1>1, <1>2 DEF Respects

\* What a step may do to a break that is written off.
WriteOffStands ==
  \A row \in breaks : row.status = "WRITTEN_OFF" =>
    \/ \E new \in breaks' : new.key = row.key /\ new.status = "WRITTEN_OFF"
    \/ \E o \in Operators : operator[o].at = "write" /\ operator[o].key.key = row.key

\* Every step writes rows only and leaves a break that is written off alone.
LEMMA BreaksStep == BreaksInv /\ [Next]_vars => BreaksInv' /\ WriteOffStands
<1> SUFFICES ASSUME BreaksInv, [Next]_vars PROVE BreaksInv' /\ WriteOffStands
  OBVIOUS
<1>1. ASSUME UNCHANGED breaks PROVE BreaksInv' /\ WriteOffStands
  BY <1>1 DEF BreaksInv, WriteOffStands
<1>2. ASSUME Respects(breaks, breaks', {}) PROVE BreaksInv' /\ WriteOffStands
  BY <1>2 DEF BreaksInv, WriteOffStands, Respects
<1>3. ASSUME NEW w \in Workers, UpsertBreaks(w) PROVE BreaksInv' /\ WriteOffStands
  BY <1>2, <1>3, UpsertRespects DEF UpsertBreaks, BreaksInv
<1>4. ASSUME NEW w \in Workers, CloseNotRecurring(w) PROVE BreaksInv' /\ WriteOffStands
  BY <1>2, <1>4, CloseRespects DEF CloseNotRecurring, BreaksInv
<1>5. ASSUME NEW o \in Operators, ResolveManually(o) PROVE BreaksInv' /\ WriteOffStands
  <2>1. Respects(breaks, breaks', {operator[o].key.key}) /\ operator[o].at = "write"
    BY <1>5, ResolveRespects DEF ResolveManually, BreaksInv
  <2>2. QED
    BY <2>1 DEF Respects, BreaksInv, WriteOffStands
<1>6. ASSUME NEW w \in Workers,
             \/ \E r \in DOMAIN runs : TakeJob(w, r)
             \/ MarkRunning(w) \/ FetchProvider(w) \/ FetchLocal(w) \/ FetchLedger(w)
             \/ EmitOpened(w) \/ Complete(w) \/ AutoResolve(w) \/ Stall(w)
             \/ \E dies \in BOOLEAN : Fail(w, dies)
      PROVE  UNCHANGED breaks
  BY <1>6 DEF TakeJob, MarkRunning, FetchProvider, FetchLocal, FetchLedger, EmitOpened, Complete,
     AutoResolve, Stall, Fail
<1>7. ASSUME NEW o \in Operators,
             \/ \E row \in breaks, action \in Actions : OpenBreak(o, row, action)
             \/ PostAdjustment(o) \/ CancelLocalRecord(o) \/ NoEffect(o)
      PROVE  UNCHANGED breaks
  BY <1>7 DEF OpenBreak, PostAdjustment, CancelLocalRecord, NoEffect
<1>8. ASSUME \/ \E e \in late : Post(e)
             \/ Pass
             \/ \E r \in DOMAIN runs, lost \in BOOLEAN : Sweep(r, lost)
             \/ UNCHANGED vars
      PROVE  UNCHANGED breaks
  BY <1>8 DEF Post, Pass, Sweep, vars
<1>9. QED
  BY <1>1, <1>3, <1>4, <1>5, <1>6, <1>7, <1>8 DEF Next, RunStep

\* No run takes back what an operator wrote off, whatever the engine finds again and
\* however many workers and operators there are: only an operator who had read the
\* break before may still do so (upsertBreaks, closeNotRecurring, resolveManually).
THEOREM WriteOffIsRespected == Spec => RunsRespectWriteOff
<1>1. Init => BreaksInv
  BY DEF Init, BreaksInv
<1>2. BreaksInv /\ [Next]_vars => [WriteOffStands]_vars
  BY BreaksStep
<1>3. QED
  BY <1>1, <1>2, BreaksStep, PTL DEF Spec, RunsRespectWriteOff, WriteOffStands

-----------------------------------------------------------------------------
(* The events of the breaks.                                               *)

\* The key of the row that stands for problem p, an event with an end-to-end id: the
\* records of the books tell its day.
KeyFor(p, k, E, T) ==
  /\ p.e2e # None
  /\ IF p.local # None THEN \E t \in T : t.id = p.local /\ k = <<p.type, t.day, <<"e2e", p.e2e>>>>
     ELSE \E e \in E : e.id = p.provider /\ k = <<p.type, e.day, <<"e2e", p.e2e>>>>

\* A problem has one key.
LEMMA KeyIsOne ==
  ASSUME NEW E, NEW T, Booked(E, T), NEW p, NEW k, NEW j, KeyFor(p, k, E, T), KeyFor(p, j, E, T)
  PROVE  k = j
<1>1. CASE p.local # None
  <2>1. PICK t \in T : t.id = p.local /\ k = <<p.type, t.day, <<"e2e", p.e2e>>>>
    BY <1>1 DEF KeyFor
  <2>2. PICK u \in T : u.id = p.local /\ j = <<p.type, u.day, <<"e2e", p.e2e>>>>
    BY <1>1 DEF KeyFor
  <2>3. t.day = u.day
    BY <2>1, <2>2 DEF Booked
  <2>4. QED
    BY <2>1, <2>2, <2>3
<1>2. CASE p.local = None
  <2>1. PICK e \in E : e.id = p.provider /\ k = <<p.type, e.day, <<"e2e", p.e2e>>>>
    BY <1>2 DEF KeyFor
  <2>2. PICK f \in E : f.id = p.provider /\ j = <<p.type, f.day, <<"e2e", p.e2e>>>>
    BY <1>2 DEF KeyFor
  <2>3. e.day = f.day
    BY <2>1, <2>2 DEF Booked
  <2>4. QED
    BY <2>1, <2>2, <2>3
<1>3. QED
  BY <1>1, <1>2

\* It keeps its key when the books grow.
LEMMA KeyStays ==
  ASSUME NEW E, NEW T, NEW U, DaysStay(T, U), NEW p, NEW k, KeyFor(p, k, E, T)
  PROVE  KeyFor(p, k, E, U)
<1>1. CASE p.local # None
  <2>1. PICK t \in T : t.id = p.local /\ k = <<p.type, t.day, <<"e2e", p.e2e>>>>
    BY <1>1 DEF KeyFor
  <2>2. PICK u \in U : u.id = t.id /\ u.day = t.day
    BY DEF DaysStay
  <2>3. u.id = p.local /\ k = <<p.type, u.day, <<"e2e", p.e2e>>>>
    BY <2>1, <2>2
  <2>4. QED
    BY <1>1, <2>3 DEF KeyFor
<1>2. CASE p.local = None
  BY <1>2 DEF KeyFor
<1>3. QED
  BY <1>1, <1>2

\* A draft with an end-to-end id is the problem of the key of its row.
LEMMA DraftHasKey ==
  ASSUME NEW E, NEW T, Booked(E, T), NEW P, NEW C, IsItems(P), IsItems(C),
         \A i \in P : OfEntry(i, E), \A i \in C : OfTxn(i, T),
         NEW d, Grounded(d, P, C), d.endToEndId # None
  PROVE  KeyFor(Problem(d), RowKey(d), E, T)
<1> DEFINE p == Problem(d)
<1>1. /\ p.type = d.type /\ p.e2e = d.endToEndId /\ p.provider = External(d.provider)
      /\ p.local = External(d.local)
  BY DEF Problem
<1>2. d.dedupeKey = <<"e2e", d.endToEndId>>
  BY DEF Grounded
<1> HIDE DEF p
<1>3. CASE d.local # None
  <2>1. d.local \in C /\ d.effectiveDate = d.local.effectiveDate
    BY <1>3 DEF Grounded
  <2>2. PICK t \in T : d.local.externalId = t.id /\ d.local.effectiveDate = t.day
    BY <2>1 DEF OfTxn
  <2>3. p.local = t.id /\ p.local # None
    BY <1>1, <1>3, <2>2 DEF External, Booked
  <2>4. RowKey(d) = <<p.type, t.day, <<"e2e", p.e2e>>>>
    BY <1>1, <1>2, <2>1, <2>2 DEF RowKey
  <2>5. QED
    BY <1>1, <2>3, <2>4 DEF KeyFor, p
<1>4. CASE d.local = None
  <2>1. d.provider \in P /\ d.effectiveDate = d.provider.effectiveDate
    BY <1>4 DEF Grounded
  <2>2. PICK e \in E : d.provider.externalId = e.id /\ d.provider.effectiveDate = e.day
    BY <2>1 DEF OfEntry
  <2>3. p.local = None /\ p.provider = e.id
    BY <1>1, <1>4, <2>1, <2>2 DEF External, IsItems
  <2>4. RowKey(d) = <<p.type, e.day, <<"e2e", p.e2e>>>>
    BY <1>1, <1>2, <2>1, <2>2 DEF RowKey
  <2>5. QED
    BY <1>1, <2>3, <2>4 DEF KeyFor, p
<1>5. QED
  BY <1>3, <1>4

\* Rows are added, never taken away.
LEMMA UpsertKeys ==
  ASSUME NEW rows, \A b \in rows : IsBreak(b), NEW d
  PROVE  KeysOf(rows) \in SUBSET KeysOf(Upserted(rows, d))
  BY UpsertedRows DEF KeysOf

\* closeNotRecurring keeps every key.
LEMMA CloseKeys ==
  ASSUME NEW rows, \A b \in rows : IsBreak(b), NEW keep
  PROVE  KeysOf(rows) \in SUBSET KeysOf(closeNotRecurring(rows, keep))
<1> DEFINE new(b) == IF /\ b.status \in {"OPEN", "INVESTIGATING"}
                        /\ b.key[2] \in FirstDay..LastDay /\ b.key[3] \notin keep
                     THEN [b EXCEPT !.status = "AUTO_RESOLVED"] ELSE b
<1>1. closeNotRecurring(rows, keep) = {new(b) : b \in rows}
  BY DEF closeNotRecurring
<1>2. ASSUME NEW b \in rows PROVE new(b).key = b.key
  <2>1. IsBreak(b) /\ new(b) \in {b, WithStatus(b, "AUTO_RESOLVED")}
    BY DEF WithStatus
  <2> HIDE DEF new
  <2>2. QED
    BY <2>1, RowsStayRows
<1> HIDE DEF new
<1>3. QED
  BY <1>1, <1>2 DEF KeysOf

\* The rows after an operator wrote the status of the one with the key.
Decided(rows, key, status) ==
  {IF b.key = key THEN [b EXCEPT !.status = status] ELSE b : b \in rows}

\* resolveManually keeps every key.
LEMMA ResolveKeys ==
  ASSUME NEW rows, \A b \in rows : IsBreak(b), NEW key, NEW status
  PROVE  KeysOf(rows) \in SUBSET KeysOf(Decided(rows, key, status))
<1> DEFINE after(b) == IF b.key = key THEN [b EXCEPT !.status = status] ELSE b
<1>1. Decided(rows, key, status) = {after(b) : b \in rows}
  BY DEF Decided
<1>2. ASSUME NEW b \in rows PROVE after(b).key = b.key
  <2>1. IsBreak(b) /\ after(b) \in {b, WithStatus(b, status)}
    BY DEF WithStatus
  <2> HIDE DEF after
  <2>2. QED
    BY <2>1, RowsStayRows
<1> HIDE DEF after
<1>3. QED
  BY <1>1, <1>2 DEF KeysOf

\* What was said: of a problem with an end-to-end id once, and its row is there.
Said(B, rows, E, T) ==
  \A p \in DOMAIN B : p.e2e # None => B[p] = 1 /\ \E k \in KeysOf(rows) : KeyFor(p, k, E, T)

\* Rows with an end-to-end id.
Named(rows) == {row \in rows : row.draft.endToEndId # None}

\* What is still to be said: rows that are there, of problems not spoken of.
ToSay(new, B, rows, E, T) ==
  \A row \in Named(new) :
    /\ row.key \in KeysOf(rows) /\ KeyFor(Problem(row.draft), row.key, E, T)
    /\ \A p \in DOMAIN B : ~KeyFor(p, row.key, E, T)
    /\ \A other \in Named(new) : other.key = row.key => other = row

Apart(new, other) == \A r \in Named(new), s \in Named(other) : r.key # s.key

OpenedInv ==
  /\ Said(opened, breaks, Entries, txns)
  /\ \A w \in Workers : ToSay(worker[w].inserted, opened, breaks, Entries, txns)
  /\ \A v, w \in Workers : v # w => Apart(worker[v].inserted, worker[w].inserted)

\* Rows and books grow.
Grow(rows, new, T, U) == KeysOf(rows) \in SUBSET KeysOf(new) /\ DaysStay(T, U)

\* What was said still has its row when rows and books grow.
LEMMA SaidStays ==
  ASSUME NEW E, NEW T, NEW U, NEW rows, NEW new, Grow(rows, new, T, U), NEW B, Said(B, rows, E, T)
  PROVE  Said(B, new, E, U)
  BY KeyStays DEF Said, Grow

\* What is still to be said is still unsaid when rows and books grow.
LEMMA ToSayStays ==
  ASSUME NEW E, NEW T, NEW U, Booked(E, U), NEW rows, NEW new, Grow(rows, new, T, U),
         NEW B, Said(B, rows, E, T), NEW all, ToSay(all, B, rows, E, T), NEW ins \in SUBSET all
  PROVE  ToSay(ins, B, new, E, U)
<1>0. Named(ins) \in SUBSET Named(all)
  BY DEF Named
<1> SUFFICES ASSUME NEW row \in Named(ins)
             PROVE  /\ row.key \in KeysOf(new) /\ KeyFor(Problem(row.draft), row.key, E, U)
                    /\ \A p \in DOMAIN B : ~KeyFor(p, row.key, E, U)
  BY <1>0 DEF ToSay
<1>1. row.key \in KeysOf(new) /\ KeyFor(Problem(row.draft), row.key, E, U)
  BY <1>0, KeyStays DEF ToSay, Grow
<1>2. ASSUME NEW p \in DOMAIN B, KeyFor(p, row.key, E, U) PROVE FALSE
  <2>1. p.e2e # None
    BY <1>2 DEF KeyFor
  <2>2. PICK k : KeyFor(p, k, E, T)
    BY <2>1 DEF Said
  <2>3. KeyFor(p, k, E, U)
    BY <2>2, KeyStays DEF Grow
  <2>4. k = row.key
    BY <1>2, <2>3, KeyIsOne
  <2>5. QED
    BY <1>0, <2>2, <2>4 DEF ToSay
<1>3. QED
  BY <1>1, <1>2

\* A step that says nothing and inserts no row.
LEMMA QuietStep ==
  ASSUME OpenedInv, BooksInv', BooksStay, KeysOf(breaks) \in SUBSET KeysOf(breaks'), opened' = opened,
         \A w \in Workers : worker'[w].inserted \in SUBSET worker[w].inserted
  PROVE  OpenedInv'
<1>1. Grow(breaks, breaks', txns, txns') /\ Entries' = Entries /\ Booked(Entries, txns')
  BY DEF Grow, BooksStay, BooksInv
<1>2. Said(opened, breaks, Entries, txns)
  BY DEF OpenedInv
<1>3. Said(opened, breaks', Entries, txns')
  BY <1>1, <1>2, SaidStays
<1>4. ASSUME NEW w \in Workers
      PROVE  ToSay(worker'[w].inserted, opened, breaks', Entries, txns')
  <2> DEFINE all == worker[w].inserted
             ins == worker'[w].inserted
  <2>1. ToSay(all, opened, breaks, Entries, txns) /\ ins \in SUBSET all
    BY DEF OpenedInv
  <2> HIDE DEF all, ins
  <2>2. ToSay(ins, opened, breaks', Entries, txns')
    BY <1>1, <1>2, <2>1, ToSayStays
  <2>3. QED
    BY <2>2 DEF ins
<1>5. ASSUME NEW v \in Workers, NEW w \in Workers, v # w
      PROVE  Apart(worker'[v].inserted, worker'[w].inserted)
  <2>1. Apart(worker[v].inserted, worker[w].inserted)
    BY <1>5 DEF OpenedInv
  <2>2. QED
    BY <2>1 DEF Apart, Named
<1>6. QED
  BY <1>1, <1>3, <1>4, <1>5 DEF OpenedInv

\* upsertBreaks: the row a worker inserts is new to all.
LEMMA UpsertStep ==
  ASSUME OpenedInv, BooksInv, BooksInv', BooksStay, WorkersInv, BreaksInv,
         NEW w \in Workers, UpsertBreaks(w)
  PROVE  OpenedInv'
<1> DEFINE x == worker[w]
           new == Inserted(breaks, breaks')
<1>1. PICK d \in x.unwritten :
        /\ breaks' = Upserted(breaks, d)
        /\ worker' = [worker EXCEPT ![w].unwritten = x.unwritten \ {d},
                                    ![w].inserted = x.inserted \cup new]
  BY DEF UpsertBreaks
<1>2. x.at = "persist" /\ opened' = opened /\ Entries' = Entries /\ txns' = txns
  BY DEF UpsertBreaks, books, Entries
<1>3. new = {row \in breaks' : row.key \notin KeysOf(breaks)}
  BY DEF KeysOf, Inserted
<1> HIDE DEF new
<1>4. Moved(w, Worker(x.at, x.run, x.provider, x.local, x.ledger, x.plan, x.unwritten \ {d},
                      x.inserted \cup new))
  BY <1>1, WorkerWrites
<1>5. worker'[w].inserted = x.inserted \cup new /\ \A v \in Workers \ {w} : worker'[v] = worker[v]
  BY <1>4 DEF Moved, Worker
<1>6. Held(x, Entries, txns)
  BY DEF WorkersInv
<1>7. ToSay(x.inserted, opened, breaks, Entries, txns)
  BY DEF OpenedInv
<1> HIDE DEF x
<1>8. /\ KeysOf(breaks) \in SUBSET KeysOf(breaks')
      /\ d \in x.plan.breaks
      /\ \A row \in new : row.draft = d /\ RowKey(d) = row.key
      /\ \A row, other \in new : row = other
  <2>1. d \in x.plan.breaks
    BY <1>2, <1>6 DEF Held
  <2>2. QED
    BY <1>1, <1>3, <2>1, UpsertKeys, UpsertedRows DEF BreaksInv
<1>9. Said(opened, breaks, Entries, txns)
  BY DEF OpenedInv
<1>10. DaysStay(txns, txns') /\ Grow(breaks, breaks', txns, txns') /\ Booked(Entries, txns)
  BY <1>8 DEF BooksStay, BooksInv, Grow
<1>11. Said(opened', breaks', Entries', txns')
  BY <1>2, <1>9, <1>10, SaidStays
<1>12. ASSUME NEW row \in Named(new)
       PROVE  /\ row.key \in KeysOf(breaks') /\ row.key \notin KeysOf(breaks)
              /\ KeyFor(Problem(row.draft), row.key, Entries, txns)
              /\ \A p \in DOMAIN opened : ~KeyFor(p, row.key, Entries, txns)
  <2>1. row \in new /\ row.draft.endToEndId # None
    BY DEF Named
  <2>2. row.key \in KeysOf(breaks') /\ row.key \notin KeysOf(breaks)
    BY <1>3, <2>1 DEF KeysOf
  <2>3. Grounded(row.draft, x.provider, x.local)
    BY <1>2, <1>6, <1>8, <2>1 DEF Held, Concluded, Accounted
  <2>4. KeyFor(Problem(row.draft), RowKey(row.draft), Entries, txns)
    BY <1>6, <1>10, <2>1, <2>3, DraftHasKey DEF Held
  <2>5. ASSUME NEW p \in DOMAIN opened, KeyFor(p, row.key, Entries, txns) PROVE FALSE
    <3>1. PICK k \in KeysOf(breaks) : KeyFor(p, k, Entries, txns)
      BY <1>9, <2>5 DEF Said, KeyFor
    <3>2. k = row.key
      BY <1>10, <2>5, <3>1, KeyIsOne
    <3>3. QED
      BY <2>2, <3>1, <3>2
  <2>6. QED
    BY <1>8, <2>1, <2>2, <2>4, <2>5
<1>13. ASSUME NEW v \in Workers
       PROVE  /\ ToSay(worker[v].inserted, opened, breaks', Entries, txns)
              /\ \A s \in Named(worker[v].inserted) : s.key \in KeysOf(breaks)
              /\ Apart(new, worker[v].inserted) /\ Apart(worker[v].inserted, new)
  <2>1. ToSay(worker[v].inserted, opened, breaks, Entries, txns)
    BY DEF OpenedInv
  <2>2. ToSay(worker[v].inserted, opened, breaks', Entries, txns)
    BY <1>2, <1>9, <1>10, <2>1, ToSayStays
  <2>3. \A s \in Named(worker[v].inserted) : s.key \in KeysOf(breaks)
    BY <2>1 DEF ToSay
  <2>4. QED
    BY <1>12, <2>2, <2>3 DEF Apart
<1>14. ToSay(x.inserted \cup new, opened, breaks', Entries, txns)
  <2>1. Named(x.inserted \cup new) = Named(x.inserted) \cup Named(new)
    BY DEF Named
  <2>2. ToSay(x.inserted, opened, breaks', Entries, txns) /\ Apart(new, x.inserted)
    BY <1>13 DEF x
  <2>3. \A row, other \in Named(new) : row = other
    BY <1>8 DEF Named
  <2>4. QED
    BY <1>12, <2>1, <2>2, <2>3 DEF ToSay, Apart
<1>15. ASSUME NEW v \in Workers PROVE ToSay(worker'[v].inserted, opened', breaks', Entries', txns')
  BY <1>2, <1>5, <1>13, <1>14
<1>16. ASSUME NEW u \in Workers, NEW v \in Workers, u # v
       PROVE  Apart(worker'[u].inserted, worker'[v].inserted)
  <2>1. Apart(worker[u].inserted, worker[v].inserted) /\ Apart(worker[v].inserted, worker[u].inserted)
    BY <1>16 DEF OpenedInv
  <2>2. CASE u = w
    <3>1. worker'[v] = worker[v] /\ worker'[u].inserted = worker[u].inserted \cup new
      BY <1>5, <1>16, <2>2 DEF x
    <3>2. QED
      BY <1>13, <2>1, <3>1 DEF Apart, Named
  <2>3. CASE v = w
    <3>1. worker'[u] = worker[u] /\ worker'[v].inserted = worker[v].inserted \cup new
      BY <1>5, <1>16, <2>3 DEF x
    <3>2. QED
      BY <1>13, <2>1, <3>1 DEF Apart, Named
  <2>4. CASE u # w /\ v # w
    BY <1>5, <2>1, <2>4
  <2>5. QED
    BY <2>2, <2>3, <2>4
<1>17. QED
  BY <1>11, <1>15, <1>16 DEF OpenedInv

\* The event of one row that was inserted: it was not spoken of before.
LEMMA EmitStep ==
  ASSUME OpenedInv, BooksInv, WorkersInv, NEW w \in Workers, EmitOpened(w)
  PROVE  OpenedInv'
<1> DEFINE x == worker[w]
<1>1. PICK row \in x.inserted :
        /\ opened' = opened (+) SetToBag({Problem(row.draft)})
        /\ worker' = [worker EXCEPT ![w].inserted = x.inserted \ {row}]
  BY DEF EmitOpened
<1>2. breaks' = breaks /\ Entries' = Entries /\ txns' = txns
  BY DEF EmitOpened, books, Entries
<1>3. Moved(w, Worker(x.at, x.run, x.provider, x.local, x.ledger, x.plan, x.unwritten,
                      x.inserted \ {row}))
  BY <1>1, WorkerWrites
<1>4. worker'[w].inserted = x.inserted \ {row} /\ \A v \in Workers \ {w} : worker'[v] = worker[v]
  BY <1>3 DEF Moved, Worker
<1>5. ToSay(x.inserted, opened, breaks, Entries, txns)
  BY DEF OpenedInv
<1> DEFINE p == Problem(row.draft)
<1>6. /\ DOMAIN opened' = DOMAIN opened \cup {p}
      /\ \A q \in DOMAIN opened : q # p /\ opened[q] = 1 => opened'[q] = 1
      /\ p \notin DOMAIN opened => opened'[p] = 1
  <2> HIDE DEF p
  <2>1. opened' = opened (+) SetToBag({p})
    BY <1>1 DEF p
  <2>2. QED
    BY <2>1 DEF (+), SetToBag
<1>7. ASSUME p.e2e # None
      PROVE  /\ row \in Named(x.inserted) /\ p \notin DOMAIN opened
             /\ row.key \in KeysOf(breaks) /\ KeyFor(p, row.key, Entries, txns)
  <2>1. row \in Named(x.inserted)
    BY <1>7 DEF Named, Problem
  <2>2. QED
    BY <1>5, <2>1 DEF ToSay
<1> HIDE DEF p
<1>8. Said(opened', breaks', Entries', txns')
  <2> SUFFICES ASSUME NEW q \in DOMAIN opened', q.e2e # None
               PROVE  opened'[q] = 1 /\ \E k \in KeysOf(breaks) : KeyFor(q, k, Entries, txns)
    BY <1>2 DEF Said
  <2>1. CASE q = p
    BY <1>6, <1>7, <2>1
  <2>2. CASE q # p
    BY <1>6, <2>2 DEF OpenedInv, Said
  <2>3. QED
    BY <2>1, <2>2
<1>9. ASSUME NEW v \in Workers PROVE ToSay(worker'[v].inserted, opened', breaks', Entries', txns')
  <2>1. worker'[v].inserted \in SUBSET worker[v].inserted /\ (v = w => row \notin worker'[v].inserted)
    BY <1>4 DEF x
  <2>2. ToSay(worker[v].inserted, opened, breaks, Entries, txns)
        /\ (v # w => Apart(x.inserted, worker[v].inserted))
    BY DEF OpenedInv, x
  <2>3. Named(worker'[v].inserted) \in SUBSET Named(worker[v].inserted)
    BY <2>1 DEF Named
  <2>4. ASSUME NEW s \in Named(worker'[v].inserted), KeyFor(p, s.key, Entries, txns) PROVE FALSE
    <3>1. row \in Named(x.inserted) /\ KeyFor(p, row.key, Entries, txns)
      BY <1>7, <2>4 DEF KeyFor
    <3>2. row.key = s.key
      BY <2>4, <3>1, KeyIsOne DEF BooksInv
    <3>3. CASE v = w
      BY <1>5, <2>1, <2>3, <3>1, <3>2, <3>3 DEF ToSay, x, Named
    <3>4. CASE v # w
      BY <2>2, <2>3, <3>1, <3>2, <3>4 DEF Apart
    <3>5. QED
      BY <3>3, <3>4
  <2>5. QED
    BY <1>2, <1>6, <2>2, <2>3, <2>4 DEF ToSay
<1>10. ASSUME NEW u \in Workers, NEW v \in Workers, u # v
       PROVE  Apart(worker'[u].inserted, worker'[v].inserted)
  <2>1. Apart(worker[u].inserted, worker[v].inserted)
    BY <1>10 DEF OpenedInv
  <2>2. /\ worker'[u].inserted \in SUBSET worker[u].inserted
        /\ worker'[v].inserted \in SUBSET worker[v].inserted
    BY <1>4 DEF x
  <2>3. QED
    BY <2>1, <2>2 DEF Apart, Named
<1>11. QED
  BY <1>8, <1>9, <1>10 DEF OpenedInv

\* Every step keeps the account of the events.
LEMMA OpenedStep ==
  ASSUME NoneIsNoItem, OpenedInv, BooksInv, WorkersInv, BreaksInv, [Next]_vars PROVE OpenedInv'
<1>1. BooksInv' /\ BooksStay
  BY BooksStep
<1>2. ASSUME KeysOf(breaks) \in SUBSET KeysOf(breaks'), opened' = opened,
             \A w \in Workers : worker'[w].inserted \in SUBSET worker[w].inserted
      PROVE  OpenedInv'
  BY <1>1, <1>2, QuietStep
<1>3. ASSUME NEW w \in Workers, NEW x, Moved(w, x), x.inserted \in SUBSET worker[w].inserted
      PROVE  \A v \in Workers : worker'[v].inserted \in SUBSET worker[v].inserted
  BY <1>3 DEF Moved
<1>4. ASSUME NEW w \in Workers, NEW at, worker' = At(w, at)
      PROVE  \A v \in Workers : worker'[v].inserted \in SUBSET worker[v].inserted
  <2> DEFINE y == worker[w]
             x == Worker(at, y.run, y.provider, y.local, y.ledger, y.plan, y.unwritten, y.inserted)
  <2>1. Moved(w, x)
    BY <1>4, WorkerWrites
  <2>2. x.inserted = y.inserted
    BY DEF Worker
  <2> HIDE DEF x
  <2>3. QED
    BY <1>3, <2>1, <2>2
<1>5. ASSUME NEW w \in Workers, UpsertBreaks(w) PROVE OpenedInv'
  BY <1>1, <1>5, UpsertStep
<1>6. ASSUME NEW w \in Workers, EmitOpened(w) PROVE OpenedInv'
  BY <1>6, EmitStep
<1>7. ASSUME NEW w \in Workers, CloseNotRecurring(w) PROVE OpenedInv'
  <2>1. opened' = opened /\ worker' = At(w, "complete")
        /\ breaks' = closeNotRecurring(breaks, {d.dedupeKey : d \in worker[w].plan.breaks})
    BY <1>7 DEF CloseNotRecurring
  <2>2. KeysOf(breaks) \in SUBSET KeysOf(breaks')
    BY <2>1, CloseKeys DEF BreaksInv
  <2>3. QED
    BY <1>2, <1>4, <2>1, <2>2
<1>8. ASSUME NEW o \in Operators, ResolveManually(o) PROVE OpenedInv'
  <2>1. KeysOf(breaks) \in SUBSET KeysOf(breaks')
    <3> DEFINE key == operator[o].key.key
               status == StatusOf(operator[o].action)
    <3>1. breaks' = {IF b.key = key THEN [b EXCEPT !.status = status] ELSE b : b \in breaks}
      BY <1>8 DEF ResolveManually
    <3> HIDE DEF key, status
    <3>2. breaks' = Decided(breaks, key, status)
      BY <3>1 DEF Decided
    <3>3. QED
      BY <3>2, ResolveKeys DEF BreaksInv
  <2>2. QED
    BY <1>2, <1>8, <2>1 DEF ResolveManually
<1>9. ASSUME NEW w \in Workers, NEW r, TakeJob(w, r) PROVE OpenedInv'
  <2>1. breaks' = breaks /\ opened' = opened
    BY <1>9 DEF TakeJob
  <2>2. CASE worker' = worker
    BY <1>2, <2>1, <2>2
  <2>3. CASE worker' = [worker EXCEPT ![w].at = "taken", ![w].run = r]
    <3> DEFINE y == worker[w]
               x == Worker("taken", r, y.provider, y.local, y.ledger, y.plan, y.unwritten, y.inserted)
    <3>1. Moved(w, x)
      BY <2>3, WorkerWrites
    <3>2. x.inserted = y.inserted
      BY DEF Worker
    <3> HIDE DEF x
    <3>3. QED
      BY <1>2, <1>3, <2>1, <3>1, <3>2
  <2>4. QED
    BY <1>9, <2>2, <2>3 DEF TakeJob
<1>10. ASSUME NEW w \in Workers, FetchProvider(w) \/ FetchLocal(w) \/ FetchLedger(w) PROVE OpenedInv'
  <2>1. breaks' = breaks /\ opened' = opened
    BY <1>10 DEF FetchProvider, FetchLocal, FetchLedger
  <2> DEFINE y == worker[w]
  <2>2. \E x : Moved(w, x) /\ x.inserted = y.inserted
    <3>1. CASE FetchProvider(w)
      <4>1. PICK P : worker' = [worker EXCEPT ![w].at = "local", ![w].provider = P]
        BY <3>1 DEF FetchProvider
      <4> DEFINE x == Worker("local", y.run, P, y.local, y.ledger, y.plan, y.unwritten, y.inserted)
      <4>2. Moved(w, x) /\ x.inserted = y.inserted
        <5>1. Moved(w, x)
          BY <4>1, WorkerWrites
        <5>2. QED
          BY <5>1 DEF Worker
      <4>3. QED
        BY <4>2
    <3>2. CASE FetchLocal(w)
      <4>1. PICK C : worker' = [worker EXCEPT ![w].at = "ledger", ![w].local = C]
        BY <3>2 DEF FetchLocal
      <4> DEFINE x == Worker("ledger", y.run, y.provider, C, y.ledger, y.plan, y.unwritten, y.inserted)
      <4>2. Moved(w, x) /\ x.inserted = y.inserted
        <5>1. Moved(w, x)
          BY <4>1, WorkerWrites
        <5>2. QED
          BY <5>1 DEF Worker
      <4>3. QED
        BY <4>2
    <3>3. CASE FetchLedger(w)
      <4> DEFINE closing == FoldSet(LAMBDA p, sum : sum + Signed(p), 0, y.provider)
                 ledger(order) == fetchLedger(y.run, order)
                 concluded(order) == reconcile(y.provider, y.local, ledger(order), 0, closing,
                                               LastDay, now)
      <4>0. \E order : worker' = [worker EXCEPT ![w].at = "persist", ![w].ledger = ledger(order),
                       ![w].plan = concluded(order), ![w].unwritten = concluded(order).breaks]
        BY <3>3 DEF FetchLedger
      <4> HIDE DEF closing, ledger, concluded
      <4>1. PICK L, plan, left : worker' = [worker EXCEPT ![w].at = "persist", ![w].ledger = L,
                                              ![w].plan = plan, ![w].unwritten = left]
        BY <4>0
      <4> DEFINE x == Worker("persist", y.run, y.provider, y.local, L, plan, left, y.inserted)
      <4>2. Moved(w, x) /\ x.inserted = y.inserted
        <5>1. Moved(w, x)
          BY <4>1, WorkerWrites
        <5>2. QED
          BY <5>1 DEF Worker
      <4>3. QED
        BY <4>2
    <3>4. QED
      BY <1>10, <3>1, <3>2, <3>3
  <2>3. QED
    BY <1>2, <1>3, <2>1, <2>2
<1>11. ASSUME NEW w \in Workers, MarkRunning(w) \/ Complete(w) PROVE OpenedInv'
  <2>1. breaks' = breaks /\ opened' = opened /\ \E at \in {"provider", "resolve"} : worker' = At(w, at)
    BY <1>11 DEF MarkRunning, Complete
  <2>2. QED
    BY <1>2, <1>4, <2>1
<1>12. ASSUME NEW w \in Workers, AutoResolve(w) \/ \E dies \in BOOLEAN : Fail(w, dies) PROVE OpenedInv'
  <2>1. breaks' = breaks /\ opened' = opened /\ worker' = [worker EXCEPT ![w] = IdleWorker]
    BY <1>12 DEF AutoResolve, Fail
  <2>2. Moved(w, IdleWorker) /\ IdleWorker.inserted = {}
    <3>1. Moved(w, IdleWorker)
      BY <2>1, WorkerWrites
    <3>2. QED
      BY <3>1 DEF IdleWorker
  <2>3. QED
    BY <1>2, <1>3, <2>1, <2>2
<1>13. ASSUME \/ \E e \in late : Post(e)
              \/ Pass
              \/ \E r \in DOMAIN runs, lost \in BOOLEAN : Sweep(r, lost)
              \/ \E w \in Workers : Stall(w)
              \/ \E o \in Operators :
                   \/ \E row \in breaks, action \in Actions : OpenBreak(o, row, action)
                   \/ PostAdjustment(o) \/ CancelLocalRecord(o) \/ NoEffect(o)
              \/ UNCHANGED vars
       PROVE  OpenedInv'
  <2>1. breaks' = breaks /\ opened' = opened /\ worker' = worker
    BY <1>13 DEF Post, Pass, Sweep, Stall, OpenBreak, PostAdjustment, CancelLocalRecord, NoEffect, vars
  <2>2. QED
    BY <1>2, <2>1
<1>14. QED
  BY <1>5, <1>6, <1>7, <1>8, <1>9, <1>10, <1>11, <1>12, <1>13 DEF Next, RunStep

\* At the start nothing was said.
LEMMA OpenedStart == Init => OpenedInv
<1> SUFFICES ASSUME Init PROVE OpenedInv
  OBVIOUS
<1>1. \A w \in Workers : worker[w].inserted = {}
  BY DEF Init, IdleWorker
<1>2. DOMAIN opened = {}
  BY DEF Init, EmptyBag, SetToBag
<1>3. QED
  BY <1>1, <1>2 DEF OpenedInv, Said, ToSay, Apart, Named

\* The client hears once of a problem with an end-to-end id, however many runs, workers
\* on one run, failures, stalls and imports there are (upsertBreaks returns the rows it
\* inserted, and the key of a row is that of the problem in every run).
THEOREM ProblemIsOpenedOnce ==
  ASSUME NoneIsNoItem PROVE Spec => []OpenedOnce
<1> DEFINE Inv == BooksInv /\ WorkersInv /\ BreaksInv /\ OpenedInv
<1>1. Init => Inv
  <2>1. Init => BreaksInv
    BY DEF Init, BreaksInv
  <2>2. QED
    BY <2>1, WorkersStart, OpenedStart
<1>2. Inv /\ [Next]_vars => Inv'
  BY BooksStep, WorkersStep, BreaksStep, OpenedStep
<1>3. Inv => OpenedOnce
  BY DEF OpenedInv, Said, OpenedOnce, BagToSet
<1>4. QED
  BY <1>1, <1>2, <1>3, PTL DEF Spec
=============================================================================
