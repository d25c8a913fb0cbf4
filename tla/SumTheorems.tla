---------------------------- MODULE SumTheorems ----------------------------
(***************************************************************************)
(* Facts about sums over finite sets, SumFunctionOnSet of the community    *)
(* modules, that the proofs about ledgers rest on.                         *)
(*                                                                         *)
(* A sum is defined by recursion over the subsets of its index set.  Each  *)
(* fact is proved from a least counterexample: among the subsets for which *)
(* it fails, one that has no smaller one.                                  *)
(***************************************************************************)
EXTENDS Integers, FiniteSets, FiniteSetsExt, FiniteSetTheorems, TLAPS

\* A set of natural numbers has a least member.
LEMMA LeastNatural ==
  ASSUME NEW T, T \subseteq Nat, T # {}
  PROVE  \E n \in T : \A m \in T : n <= m
<1> DEFINE R == OpToRel(<, Nat)
<1>1. IsWellFoundedOn(R, Nat)
  BY NatLessThanWellFounded
<1>2. \A x, y \in Nat : y < x => <<y, x>> \in R
  BY DEF OpToRel
<1> HIDE DEF R
<1>3. \E x \in T : \A y \in T : ~(<<y, x>> \in R)
  BY <1>1, WFMin
<1>4. PICK n \in T : \A y \in T : ~(<<y, n>> \in R)
  BY <1>3
<1>5. \A m \in T : m \in Nat /\ n \in Nat /\ ~(m < n)
  BY <1>2, <1>4
<1>6. \A m \in T : n <= m
  BY <1>5
<1>7. QED
  BY <1>6

\* What fails for some subset of a finite set fails for a least one.
LEMMA LeastSubset ==
  ASSUME NEW S, IsFiniteSet(S), NEW B \in SUBSET SUBSET S, B # {}
  PROVE  \E s \in B : \A t \in B : t \subseteq s => t = s
<1> DEFINE Sizes == {Cardinality(s) : s \in B}
<1>1. \A s \in B : IsFiniteSet(s) /\ Cardinality(s) \in Nat
  BY FS_Subset, FS_CardinalityType
<1>2. Sizes \subseteq Nat /\ Sizes # {}
  BY <1>1
<1>3. PICK n \in Sizes : \A m \in Sizes : n <= m
  <2> HIDE DEF Sizes
  <2> QED
    BY <1>2, LeastNatural
<1>4. PICK s \in B : n = Cardinality(s)
  BY <1>3
<1>5. ASSUME NEW t \in B, t \subseteq s PROVE t = s
  <2>1. Cardinality(s) <= Cardinality(t)
    BY <1>3, <1>4
  <2>2. Cardinality(t) <= Cardinality(s) /\ (Cardinality(s) = Cardinality(t) => s = t)
    BY <1>1, <1>5, FS_Subset
  <2>3. QED
    BY <1>1, <2>1, <2>2
<1>6. QED
  BY <1>4, <1>5

-----------------------------------------------------------------------------
(* The recursion.                                                          *)

\* The member that the fold takes next.
First(s) == CHOOSE x \in s : TRUE

\* g is the function that MapThenFoldSet defines by recursion over the subsets of S.
IsFold(f, S, g) ==
  g = [s \in SUBSET S |-> IF s = {} THEN 0 ELSE f[First(s)] + g[s \ {First(s)}]]

\* A sum is the value at S of the function so defined.
LEMMA SumIsAFold ==
  ASSUME NEW f, NEW S PROVE SumFunctionOnSet(f, S) = (CHOOSE g : IsFold(f, S, g))[S]
  BY DEF SumFunctionOnSet, FoldFunctionOnSet, MapThenFoldSet, IsFold, First

\* A set that is not empty has a next member.
LEMMA FirstIsMember == ASSUME NEW s, s # {} PROVE First(s) \in s
  BY DEF First

\* No two functions satisfy the recursive equation.
LEMMA FoldIsUnique ==
  ASSUME NEW f, NEW S, IsFiniteSet(S), NEW g, IsFold(f, S, g), NEW h, IsFold(f, S, h)
  PROVE  \A s \in SUBSET S : g[s] = h[s]
<1> DEFINE B == {s \in SUBSET S : g[s] # h[s]}
<1> SUFFICES ASSUME B # {} PROVE FALSE
  OBVIOUS
<1>1. PICK s \in B : \A t \in B : t \subseteq s => t = s
  <2>1. B \in SUBSET SUBSET S
    OBVIOUS
  <2> HIDE DEF B
  <2>2. QED
    BY <2>1, LeastSubset
<1>2. s # {}
  BY DEF IsFold
<1>3. First(s) \in s
  BY <1>2, FirstIsMember
<1>4. s \ {First(s)} \in SUBSET S /\ s \ {First(s)} \notin B
  BY <1>1, <1>3
<1>5. g[s] = f[First(s)] + g[s \ {First(s)}] /\ h[s] = f[First(s)] + h[s \ {First(s)}]
  BY <1>2 DEF IsFold
<1>6. QED
  BY <1>4, <1>5

\* The recursive equation, for sums.
Unfolds(f, s) ==
  SumFunctionOnSet(f, s) = IF s = {} THEN 0 ELSE f[First(s)] + SumFunctionOnSet(f, s \ {First(s)})

\* Sums satisfy it, and so the function of the definition exists.
LEMMA SumUnfolds == ASSUME NEW f, NEW S, IsFiniteSet(S) PROVE Unfolds(f, S)
<1> DEFINE B == {s \in SUBSET S : ~Unfolds(f, s)}
<1> SUFFICES ASSUME B # {} PROVE FALSE
  OBVIOUS
<1>1. PICK s \in B : \A t \in B : t \subseteq s => t = s
  <2>1. B \in SUBSET SUBSET S
    OBVIOUS
  <2> HIDE DEF B
  <2>2. QED
    BY <2>1, LeastSubset
<1>2. \A t \in SUBSET s : t # s => Unfolds(f, t)
  BY <1>1
<1> DEFINE rest == s \ {First(s)}
           whole == IF s = {} THEN 0 ELSE f[First(s)] + SumFunctionOnSet(f, rest)
           h == [t \in SUBSET s |-> IF t = s THEN whole ELSE SumFunctionOnSet(f, t)]
<1>3. IsFold(f, s, h)
  <2>1. ASSUME NEW t \in SUBSET s
        PROVE  h[t] = IF t = {} THEN 0 ELSE f[First(t)] + h[t \ {First(t)}]
    <3>1. CASE t = {}
      BY <3>1, <1>2 DEF Unfolds
    <3>2. CASE t # {}
      <4>1. First(t) \in t
        BY <3>2, FirstIsMember
      <4>2. t \ {First(t)} \in SUBSET s /\ t \ {First(t)} # s
        BY <4>1
      <4>3. h[t \ {First(t)}] = SumFunctionOnSet(f, t \ {First(t)})
        BY <4>2
      <4>4. h[t] = f[First(t)] + SumFunctionOnSet(f, t \ {First(t)})
        BY <3>2, <1>2 DEF Unfolds
      <4>5. QED
        BY <3>2, <4>3, <4>4
    <3>3. QED
      BY <3>1, <3>2
  <2> HIDE DEF whole, rest
  <2>2. h = [t \in SUBSET s |-> h[t]]
    OBVIOUS
  <2> HIDE DEF h
  <2>3. QED
    BY <2>1, <2>2 DEF IsFold
<1>4. h[s] = whole
  OBVIOUS
<1> DEFINE G == CHOOSE g : IsFold(f, s, g)
<1>5. IsFold(f, s, G)
  <2> HIDE DEF h
  <2> QED BY <1>3
<1>6. G[s] = h[s]
  <2>1. IsFiniteSet(s)
    BY <1>1, FS_Subset
  <2> HIDE DEF G, h
  <2>2. QED
    BY <1>3, <1>5, <2>1, FoldIsUnique
<1>7. SumFunctionOnSet(f, s) = G[s]
  BY SumIsAFold
<1>8. QED
  BY <1>1, <1>4, <1>6, <1>7 DEF Unfolds

\* The sum over no member.
LEMMA SumOfNothing == ASSUME NEW f PROVE SumFunctionOnSet(f, {}) = 0
  BY SumUnfolds, FS_EmptySet DEF Unfolds

\* The sum does not depend on the order in which members are taken.
LEMMA SumTakeOut ==
  ASSUME NEW S, IsFiniteSet(S), NEW f, \A x \in S : f[x] \in Int
  PROVE  /\ SumFunctionOnSet(f, S) \in Int
         /\ \A x \in S : SumFunctionOnSet(f, S) = f[x] + SumFunctionOnSet(f, S \ {x})
<1> DEFINE Good(s) == /\ SumFunctionOnSet(f, s) \in Int
                      /\ \A x \in s : SumFunctionOnSet(f, s) = f[x] + SumFunctionOnSet(f, s \ {x})
           B == {s \in SUBSET S : ~Good(s)}
<1> SUFFICES ASSUME B # {} PROVE FALSE
  OBVIOUS
<1>1. PICK s \in B : \A t \in B : t \subseteq s => t = s
  <2>1. B \in SUBSET SUBSET S
    OBVIOUS
  <2> HIDE DEF B
  <2>2. QED
    BY <2>1, LeastSubset
<1>2. \A t \in SUBSET s : t # s => Good(t)
  BY <1>1
<1>3. s # {}
  <2>1. Good({})
    BY SumOfNothing
  <2>2. QED
    BY <1>1, <2>1
<1> DEFINE c == First(s)
<1>4. c \in s
  BY <1>3, FirstIsMember
<1>5. SumFunctionOnSet(f, s) = f[c] + SumFunctionOnSet(f, s \ {c})
  BY <1>1, <1>3, FS_Subset, SumUnfolds DEF Unfolds
<1> HIDE DEF c
<1>6. Good(s \ {c})
  BY <1>2, <1>4
<1>7. SumFunctionOnSet(f, s) \in Int
  BY <1>1, <1>4, <1>5, <1>6
<1>8. ASSUME NEW x \in s, x # c PROVE SumFunctionOnSet(f, s) = f[x] + SumFunctionOnSet(f, s \ {x})
  <2>1. Good(s \ {x})
    BY <1>2
  <2>2. SumFunctionOnSet(f, s \ {c}) = f[x] + SumFunctionOnSet(f, (s \ {c}) \ {x})
    BY <1>6, <1>8
  <2>3. SumFunctionOnSet(f, s \ {x}) = f[c] + SumFunctionOnSet(f, (s \ {x}) \ {c})
    BY <2>1, <1>4, <1>8
  <2>4. (s \ {x}) \ {c} = (s \ {c}) \ {x}
    OBVIOUS
  <2>5. SumFunctionOnSet(f, (s \ {c}) \ {x}) \in Int
    BY <1>2
  <2>6. f[x] \in Int /\ f[c] \in Int
    BY <1>1, <1>4
  <2> DEFINE rest == SumFunctionOnSet(f, (s \ {c}) \ {x})
  <2>7. SumFunctionOnSet(f, s \ {x}) = f[c] + rest
    BY <2>3, <2>4
  <2> HIDE DEF rest
  <2>8. f[c] + (f[x] + rest) = f[x] + (f[c] + rest)
    BY <2>5, <2>6 DEF rest
  <2>9. QED
    BY <1>5, <2>2, <2>7, <2>8 DEF rest
<1>9. QED
  BY <1>1, <1>5, <1>7, <1>8
-----------------------------------------------------------------------------
(* What the ledger needs of sums.                                          *)

\* One more member.
LEMMA SumAdd ==
  ASSUME NEW S, IsFiniteSet(S), NEW x, x \notin S, NEW f, \A y \in S \cup {x} : f[y] \in Int
  PROVE  SumFunctionOnSet(f, S \cup {x}) = f[x] + SumFunctionOnSet(f, S)
<1>1. IsFiniteSet(S \cup {x})
  BY FS_AddElement
<1>2. (S \cup {x}) \ {x} = S
  OBVIOUS
<1>3. QED
  BY <1>1, <1>2, SumTakeOut

\* A sum is additive in the function.
LEMMA SumPlus ==
  ASSUME NEW S, IsFiniteSet(S), NEW f, NEW g, NEW h,
         \A x \in S : f[x] \in Int /\ g[x] \in Int /\ h[x] = f[x] + g[x]
  PROVE  SumFunctionOnSet(h, S) = SumFunctionOnSet(f, S) + SumFunctionOnSet(g, S)
<1> DEFINE Good(s) == SumFunctionOnSet(h, s) = SumFunctionOnSet(f, s) + SumFunctionOnSet(g, s)
           B == {s \in SUBSET S : ~Good(s)}
<1> SUFFICES ASSUME B # {} PROVE FALSE
  OBVIOUS
<1>1. PICK s \in B : \A t \in B : t \subseteq s => t = s
  <2>1. B \in SUBSET SUBSET S
    OBVIOUS
  <2> HIDE DEF B
  <2>2. QED
    BY <2>1, LeastSubset
<1>2. PICK x : x \in s
  <2>1. Good({})
    BY SumOfNothing
  <2>2. s # {}
    BY <1>1, <2>1
  <2>3. QED
    BY <2>2
<1> DEFINE rest == s \ {x}
<1>3. Good(rest)
  BY <1>1, <1>2
<1>4. s \in SUBSET S /\ IsFiniteSet(s) /\ IsFiniteSet(rest)
  BY <1>1, FS_Subset
<1>5. SumFunctionOnSet(f, rest) \in Int /\ SumFunctionOnSet(g, rest) \in Int
  BY <1>4, SumTakeOut
<1>6. /\ SumFunctionOnSet(f, s) = f[x] + SumFunctionOnSet(f, rest)
      /\ SumFunctionOnSet(g, s) = g[x] + SumFunctionOnSet(g, rest)
      /\ SumFunctionOnSet(h, s) = h[x] + SumFunctionOnSet(h, rest)
  <2>1. \A y \in s : f[y] \in Int /\ g[y] \in Int /\ h[y] \in Int
    BY <1>4
  <2>2. QED
    BY <1>2, <1>4, <2>1, SumTakeOut
<1> HIDE DEF rest
<1>7. h[x] = f[x] + g[x] /\ f[x] \in Int /\ g[x] \in Int
  BY <1>2, <1>4
<1>8. Good(s)
  BY <1>3, <1>5, <1>6, <1>7
<1>9. QED
  BY <1>1, <1>8

\* Members that add nothing may be left out.
LEMMA SumSupport ==
  ASSUME NEW S, IsFiniteSet(S), NEW D \in SUBSET S, NEW f, NEW g,
         \A x \in D : g[x] \in Int /\ f[x] = g[x],
         \A x \in S \ D : f[x] = 0
  PROVE  SumFunctionOnSet(f, S) = SumFunctionOnSet(g, D)
<1> DEFINE Good(s) == SumFunctionOnSet(f, s) = SumFunctionOnSet(g, s \cap D)
           B == {s \in SUBSET S : ~Good(s)}
<1>0. SUFFICES ASSUME B # {} PROVE FALSE
  <2>1. Good(S)
    BY <1>0
  <2>2. S \cap D = D
    OBVIOUS
  <2>3. QED
    BY <2>1, <2>2
<1>1. PICK s \in B : \A t \in B : t \subseteq s => t = s
  <2>1. B \in SUBSET SUBSET S
    OBVIOUS
  <2> HIDE DEF B
  <2>2. QED
    BY <1>0, <2>1, LeastSubset
<1>2. PICK x : x \in s
  <2>1. {} \cap D = {}
    OBVIOUS
  <2>2. Good({})
    BY <2>1, SumOfNothing
  <2>3. s # {}
    BY <1>1, <2>2
  <2>4. QED
    BY <2>3
<1>3. Good(s \ {x})
  BY <1>1, <1>2
<1>4. s \in SUBSET S /\ IsFiniteSet(s) /\ IsFiniteSet(s \cap D)
  BY <1>1, FS_Subset
<1>5. \A y \in s : f[y] \in Int
  BY <1>4
<1>6. SumFunctionOnSet(f, s) = f[x] + SumFunctionOnSet(f, s \ {x})
  BY <1>2, <1>4, <1>5, SumTakeOut
<1>7. SumFunctionOnSet(f, s \ {x}) \in Int
  <2>1. IsFiniteSet(s \ {x}) /\ \A y \in s \ {x} : f[y] \in Int
    BY <1>4, <1>5, FS_Subset
  <2>2. QED
    BY <2>1, SumTakeOut
<1>8. CASE x \in D
  <2>1. SumFunctionOnSet(g, s \cap D) = g[x] + SumFunctionOnSet(g, (s \cap D) \ {x})
    BY <1>2, <1>4, <1>8, SumTakeOut
  <2>2. (s \cap D) \ {x} = (s \ {x}) \cap D
    OBVIOUS
  <2>3. Good(s)
    BY <1>3, <1>6, <1>8, <2>1, <2>2
  <2>4. QED
    BY <1>1, <2>3
<1>9. CASE x \notin D
  <2>1. s \cap D = (s \ {x}) \cap D
    BY <1>9
  <2>2. f[x] = 0
    BY <1>2, <1>4, <1>9
  <2>3. SumFunctionOnSet(f, s) = SumFunctionOnSet(f, s \ {x})
    BY <1>6, <1>7, <2>2
  <2>4. Good(s)
    BY <1>3, <2>1, <2>3
  <2>5. QED
    BY <1>1, <2>4
<1>10. QED
  BY <1>8, <1>9

\* A sum depends only on the values it adds.
LEMMA SumSame ==
  ASSUME NEW S, IsFiniteSet(S), NEW f, NEW g, \A x \in S : g[x] \in Int /\ f[x] = g[x]
  PROVE  SumFunctionOnSet(f, S) = SumFunctionOnSet(g, S)
  BY SumSupport

\* What is added on part of the index set is added to the sum.
LEMMA SumMoves ==
  ASSUME NEW S, IsFiniteSet(S), NEW D \in SUBSET S, NEW f, NEW d, NEW h,
         \A x \in S : f[x] \in Int,
         \A x \in D : d[x] \in Int /\ h[x] = f[x] + d[x],
         \A x \in S \ D : h[x] = f[x]
  PROVE  SumFunctionOnSet(h, S) = SumFunctionOnSet(f, S) + SumFunctionOnSet(d, D)
<1> DEFINE e == [x \in S |-> IF x \in D THEN d[x] ELSE 0]
<1>1. \A x \in S : e[x] \in Int /\ h[x] = f[x] + e[x]
  OBVIOUS
<1>2. (\A x \in D : d[x] \in Int /\ e[x] = d[x]) /\ (\A x \in S \ D : e[x] = 0)
  OBVIOUS
<1> HIDE DEF e
<1>3. SumFunctionOnSet(h, S) = SumFunctionOnSet(f, S) + SumFunctionOnSet(e, S)
  BY <1>1, SumPlus
<1>4. SumFunctionOnSet(e, S) = SumFunctionOnSet(d, D)
  BY <1>2, SumSupport
<1>5. QED
  BY <1>3, <1>4

\* A function that is another one and one more value.
LEMMA SumGrows ==
  ASSUME NEW f, NEW g, NEW x, IsFiniteSet(DOMAIN f), x \notin DOMAIN f,
         DOMAIN g = DOMAIN f \cup {x},
         \A y \in DOMAIN f : f[y] \in Int /\ g[y] = f[y], g[x] \in Int
  PROVE  SumFunction(g) = SumFunction(f) + g[x]
<1> DEFINE S == DOMAIN f
<1>2. SumFunctionOnSet(g, S \cup {x}) = g[x] + SumFunctionOnSet(g, S)
  BY SumAdd
<1>3. SumFunctionOnSet(g, S) = SumFunctionOnSet(f, S)
  BY SumSame
<1>4. SumFunctionOnSet(f, S) \in Int /\ g[x] \in Int
  BY SumTakeOut
<1>5. g[x] + SumFunctionOnSet(f, S) = SumFunctionOnSet(f, S) + g[x]
  BY <1>4
<1>6. QED
  BY <1>2, <1>3, <1>5 DEF SumFunction
=============================================================================
