------------------------------ MODULE YieldProofs ------------------------------
(***************************************************************************)
(* What is proved of the yield indexer and the airdrop: their types, and   *)
(* every property the runs check of them.  First, induction and sums over  *)
(* finite sets, which other proofs use too.                                *)
(***************************************************************************)
EXTENDS YieldAirdrop, FiniteSetTheorems, WellFoundedInduction, TLAPS
-----------------------------------------------------------------------------
(* Induction.  The library's induction theorems take a predicate; here the  *)
(* cases already proved are a set, which the provers can instantiate.       *)

LEMMA LeastNat ==
    ASSUME NEW N \in SUBSET Nat, N # {}
    PROVE  \E n \in N : \A m \in N : n <= m
<1> DEFINE R == {p \in Nat \X Nat : p[1] < p[2]}
<1>1. IsWellFoundedOn(R, Nat)
  BY NatLessThanWellFounded, Zenon DEF OpToRel
<1>2. PICK n \in N : \A m \in N : ~(<<m, n>> \in R)
  BY <1>1, WFMin, Zenon
<1>3. \A m \in N : ~(m < n)
  BY <1>2
<1> QED BY <1>3

LEMMA NatSetInduction ==
    ASSUME NEW P, 0 \in P, \A n \in Nat : n \in P => n + 1 \in P
    PROVE  Nat \subseteq P
<1> SUFFICES ASSUME Nat \ P # {} PROVE FALSE
  OBVIOUS
<1>1. PICK n \in Nat \ P : \A m \in Nat \ P : n <= m
  BY LeastNat
<1>2. n # 0 /\ n - 1 \in Nat
  BY <1>1
<1>3. n - 1 \in P
  BY <1>1, <1>2
<1> QED BY <1>1, <1>2, <1>3

LEMMA FiniteSetInduction ==
    ASSUME NEW S, IsFiniteSet(S), NEW P, {} \in P,
           \A s \in SUBSET S : \A x \in S \ s : s \in P => s \union {x} \in P
    PROVE  SUBSET S \subseteq P
<1> DEFINE Q == {n \in Nat : \A s \in SUBSET S : Cardinality(s) = n => s \in P}
<1>1. \A s \in SUBSET S : IsFiniteSet(s) /\ Cardinality(s) \in Nat
  BY FS_Subset, FS_CardinalityType
<1>2. 0 \in Q
  BY <1>1, FS_EmptySet
<1>3. ASSUME NEW n \in Nat, n \in Q PROVE n + 1 \in Q
  <2> SUFFICES ASSUME NEW s \in SUBSET S, Cardinality(s) = n + 1 PROVE s \in P
    OBVIOUS
  <2>1. PICK x : x \in s
    BY <1>1, FS_EmptySet
  <2>2. Cardinality(s \ {x}) = n
    <3>1. Cardinality(s \ {x}) = Cardinality(s) - 1
      BY <1>1, <2>1, FS_RemoveElement
    <3> QED BY <3>1
  <2>3. s \ {x} \in P
    BY <1>3, <2>2
  <2>4. s = (s \ {x}) \union {x} /\ x \in S \ (s \ {x})
    BY <2>1
  <2> QED BY <2>3, <2>4
<1>4. Nat \subseteq Q
  <2> HIDE DEF Q
  <2> QED BY <1>2, <1>3, NatSetInduction
<1> QED BY <1>1, <1>4
-----------------------------------------------------------------------------
(* Sums over finite sets: what SumFunctionOnSet of the library computes.    *)

Element(s) == CHOOSE x \in s : TRUE

\* iter adds up the values of f over the sets of D.
Adds(iter, f, D) ==
    iter = [s \in D |-> IF s = {} THEN 0 ELSE f[Element(s)] + iter[s \ {Element(s)}]]

LEMMA ElementIn == \A s : s # {} => Element(s) \in s
BY DEF Element

LEMMA SumIsIterated ==
    ASSUME NEW f, NEW S
    PROVE  SumFunctionOnSet(f, S) = (CHOOSE iter : Adds(iter, f, SUBSET S))[S]
BY DEF SumFunctionOnSet, FoldFunctionOnSet, MapThenFoldSet, Adds, Element

LEMMA IterationExists ==
    ASSUME NEW f, NEW S, IsFiniteSet(S)
    PROVE  \E iter : Adds(iter, f, SUBSET S)
<1> DEFINE D(n) == {s \in SUBSET S : Cardinality(s) <= n}
           P == {n \in Nat : \E iter : Adds(iter, f, D(n))}
<1>1. \A s \in SUBSET S : IsFiniteSet(s) /\ Cardinality(s) \in Nat
  BY FS_Subset, FS_CardinalityType
<1>2. 0 \in P
  <2>1. D(0) = {{}}
    BY <1>1, FS_EmptySet
  <2>2. Adds([s \in D(0) |-> 0], f, D(0))
    BY <2>1 DEF Adds
  <2> QED BY <2>2
<1>3. ASSUME NEW n \in Nat, n \in P PROVE n + 1 \in P
  <2>1. PICK g : Adds(g, f, D(n))
    BY <1>3
  <2> DEFINE h == [s \in D(n + 1) |->
                      IF s = {} THEN 0 ELSE f[Element(s)] + g[s \ {Element(s)}]]
  <2>2. \A s \in D(n + 1) : s # {} => s \ {Element(s)} \in D(n)
    <3> TAKE s \in D(n + 1)
    <3> HAVE s # {}
    <3>1. Cardinality(s \ {Element(s)}) = Cardinality(s) - 1
      BY <1>1, ElementIn, FS_RemoveElement
    <3> QED BY <1>1, <3>1
  <2>3. \A s \in D(n) : s \in D(n + 1) /\ h[s] = g[s]
    <3> TAKE s \in D(n)
    <3>1. s \in D(n + 1)
      BY <1>1
    <3>2. g[s] = IF s = {} THEN 0 ELSE f[Element(s)] + g[s \ {Element(s)}]
      <4> HIDE DEF D
      <4> QED BY <2>1 DEF Adds
    <3> QED BY <3>1, <3>2
  <2>4. Adds(h, f, D(n + 1))
    BY <2>2, <2>3 DEF Adds
  <2> QED BY <2>4
<1>4. Cardinality(S) \in P
  <2> HIDE DEF P
  <2>1. Nat \subseteq P
    BY <1>2, <1>3, NatSetInduction
  <2> QED BY <1>1, <2>1
<1>5. \A s \in SUBSET S : Cardinality(s) <= Cardinality(S)
  BY FS_Subset
<1>6. D(Cardinality(S)) = SUBSET S
  BY <1>5
<1> QED BY <1>4, <1>6


\* S is finite, and f has an integer for each of its members.
Summable(f, S) == IsFiniteSet(S) /\ \A x \in S : f[x] \in Int

\* iter adds up f over the subsets of S, whichever member is taken first.
AddsInAnyOrder(iter, f, S) ==
    /\ iter[{}] = 0
    /\ \A s \in SUBSET S : iter[s] \in Int
    /\ \A s \in SUBSET S : \A x \in s : iter[s] = f[x] + iter[s \ {x}]

Iterates(iter, f, S) == Summable(f, S) /\ Adds(iter, f, SUBSET S)

LEMMA IterationAdds ==
    ASSUME NEW S, NEW f, NEW iter, Iterates(iter, f, S)
    PROVE  AddsInAnyOrder(iter, f, S)
<1> USE DEF Iterates
<1>1. \A s \in SUBSET S : IsFiniteSet(s) /\ Cardinality(s) \in Nat
  BY FS_Subset, FS_CardinalityType DEF Summable
<1>2. \A s \in SUBSET S : s # {} => /\ Element(s) \in s
                                    /\ iter[s] = f[Element(s)] + iter[s \ {Element(s)}]
  BY ElementIn DEF Adds
<1>3. iter[{}] = 0
  BY DEF Adds
<1>4. \A s \in SUBSET S : \A x \in s : Cardinality(s \ {x}) = Cardinality(s) - 1
  BY <1>1, FS_RemoveElement
<1>5. \A s \in SUBSET S : Cardinality(s) = 0 => s = {}
  BY <1>1, FS_EmptySet
<1>6. \A s \in SUBSET S : iter[s] \in Int
  <2> DEFINE P == {n \in Nat : \A s \in SUBSET S : Cardinality(s) = n => iter[s] \in Int}
  <2>1. 0 \in P
    <3>1. \A s \in SUBSET S : Cardinality(s) = 0 => iter[s] = 0
      BY <1>3, <1>5
    <3> QED BY <3>1
  <2>2. ASSUME NEW n \in Nat, n \in P PROVE n + 1 \in P
    <3> SUFFICES ASSUME NEW s \in SUBSET S, Cardinality(s) = n + 1 PROVE iter[s] \in Int
      OBVIOUS
    <3> DEFINE e == Element(s)
    <3>1. s # {}
      BY FS_EmptySet
    <3>2. e \in s /\ iter[s] = f[e] + iter[s \ {e}]
      BY <1>2, <3>1
    <3> HIDE DEF e
    <3>3. Cardinality(s \ {e}) = n /\ s \ {e} \in SUBSET S
      BY <1>4, <3>2
    <3>4. iter[s \ {e}] \in Int /\ f[e] \in Int
      BY <2>2, <3>2, <3>3 DEF Summable
    <3> QED BY <3>2, <3>4
  <2> HIDE DEF P
  <2>3. Nat \subseteq P
    BY <2>1, <2>2, NatSetInduction
  <2> QED BY <1>1, <2>3 DEF P
<1> DEFINE P == {n \in Nat : \A s \in SUBSET S : Cardinality(s) = n =>
                                \A x \in s : iter[s] = f[x] + iter[s \ {x}]}
<1>7. 0 \in P
  BY <1>5
<1>8. ASSUME NEW n \in Nat, n \in P PROVE n + 1 \in P
  <2> SUFFICES ASSUME NEW s \in SUBSET S, Cardinality(s) = n + 1, NEW x \in s
               PROVE  iter[s] = f[x] + iter[s \ {x}]
    OBVIOUS
  <2> DEFINE e == Element(s)
             rest == s \ {x, e}
  <2>1. e \in s /\ iter[s] = f[e] + iter[s \ {e}]
    BY <1>2
  <2> HIDE DEF e
  <2>2. Cardinality(s \ {x}) = n /\ Cardinality(s \ {e}) = n
    BY <1>4, <2>1
  <2>3. CASE x # e
    <3>1. (s \ {e}) \ {x} = rest /\ (s \ {x}) \ {e} = rest
      OBVIOUS
    <3>2. iter[s \ {e}] = f[x] + iter[rest]
      BY <1>8, <2>2, <2>3, <3>1
    <3>3. iter[s \ {x}] = f[e] + iter[rest]
      BY <1>8, <2>1, <2>2, <2>3, <3>1
    <3>4. f[x] \in Int /\ f[e] \in Int /\ iter[rest] \in Int
      BY <1>6, <2>1 DEF Summable
    <3> QED BY <2>1, <3>2, <3>3, <3>4
  <2> QED BY <2>1, <2>3
<1>9. \A s \in SUBSET S : \A x \in s : iter[s] = f[x] + iter[s \ {x}]
  <2> HIDE DEF P
  <2>1. Nat \subseteq P
    BY <1>7, <1>8, NatSetInduction
  <2> QED BY <1>1, <2>1 DEF P
<1> QED BY <1>3, <1>6, <1>9 DEF AddsInAnyOrder

SameOn(f, g, S) == \A x \in S : g[x] = f[x]

\* Two iterations agree wherever both add up the same values.
LEMMA IterationsAgree ==
    ASSUME NEW S, NEW T, T \subseteq S, NEW f, NEW g, SameOn(f, g, T),
           NEW i, Iterates(i, f, S), NEW k, Adds(k, g, SUBSET T)
    PROVE  i[T] = k[T]
<1> DEFINE P == {s \in SUBSET T : i[s] = k[s]}
<1>1. IsFiniteSet(T) /\ Iterates(k, g, T)
  BY FS_Subset DEF Iterates, Summable, SameOn
<1>2. AddsInAnyOrder(i, f, S)
  BY IterationAdds
<1>3. AddsInAnyOrder(k, g, T)
  BY <1>1, IterationAdds
<1>4. {} \in P
  BY <1>2, <1>3 DEF AddsInAnyOrder
<1>5. \A s \in SUBSET T : \A x \in T \ s : s \in P => s \union {x} \in P
  <2> SUFFICES ASSUME NEW s \in SUBSET T, NEW x \in T \ s, s \in P PROVE s \union {x} \in P
    OBVIOUS
  <2> DEFINE more == s \union {x}
  <2>1. more \ {x} = s /\ more \in SUBSET T /\ more \in SUBSET S /\ x \in more
    OBVIOUS
  <2> HIDE DEF more
  <2>2. i[more] = f[x] + i[s]
    BY <1>2, <2>1 DEF AddsInAnyOrder
  <2>3. k[more] = g[x] + k[s]
    BY <1>3, <2>1 DEF AddsInAnyOrder
  <2> QED BY <2>1, <2>2, <2>3 DEF more, SameOn
<1>6. SUBSET T \subseteq P
  <2> HIDE DEF P
  <2> QED BY <1>1, <1>4, <1>5, FiniteSetInduction
<1> QED BY <1>6

LEMMA SumAdds ==
    ASSUME NEW f, NEW S, IsFiniteSet(S)
    PROVE  \E iter : Adds(iter, f, SUBSET S) /\ SumFunctionOnSet(f, S) = iter[S]
BY IterationExists, SumIsIterated

\* The sum of nothing, of the same values, and of one member more.
LEMMA SumOfNothing == \A f : SumFunctionOnSet(f, {}) = 0
<1> TAKE f
<1>1. PICK iter : Adds(iter, f, SUBSET {}) /\ SumFunctionOnSet(f, {}) = iter[{}]
  BY SumAdds, FS_EmptySet
<1> QED BY <1>1 DEF Adds

LEMMA SumOfSame ==
    ASSUME NEW S, NEW f, Summable(f, S), NEW g, SameOn(f, g, S)
    PROVE  SumFunctionOnSet(g, S) = SumFunctionOnSet(f, S)
<1>1. PICK i : Adds(i, f, SUBSET S) /\ SumFunctionOnSet(f, S) = i[S]
  BY SumAdds DEF Summable
<1>2. PICK k : Adds(k, g, SUBSET S) /\ SumFunctionOnSet(g, S) = k[S]
  BY SumAdds DEF Summable
<1>3. i[S] = k[S]
  <2>1. S \subseteq S
    OBVIOUS
  <2>2. Iterates(i, f, S) /\ Adds(k, g, SUBSET S)
    BY <1>1, <1>2 DEF Iterates
  <2> QED BY <2>1, <2>2, IterationsAgree
<1> QED BY <1>1, <1>2, <1>3

LEMMA SumWithout ==
    ASSUME NEW S, NEW f, Summable(f, S), NEW x \in S
    PROVE  /\ SumFunctionOnSet(f, S) \in Int
           /\ SumFunctionOnSet(f, S) = f[x] + SumFunctionOnSet(f, S \ {x})
<1>1. PICK i : Adds(i, f, SUBSET S) /\ SumFunctionOnSet(f, S) = i[S]
  BY SumAdds DEF Summable
<1>2. PICK k : Adds(k, f, SUBSET (S \ {x})) /\ SumFunctionOnSet(f, S \ {x}) = k[S \ {x}]
  BY SumAdds, FS_RemoveElement DEF Summable
<1>3. i[S] \in Int /\ i[S] = f[x] + i[S \ {x}]
  <2>1. AddsInAnyOrder(i, f, S)
    BY <1>1, IterationAdds DEF Iterates
  <2> QED BY <2>1 DEF AddsInAnyOrder
<1>4. i[S \ {x}] = k[S \ {x}]
  <2>1. SameOn(f, f, S \ {x}) /\ S \ {x} \subseteq S
    BY DEF SameOn
  <2>2. Iterates(i, f, S) /\ Adds(k, f, SUBSET (S \ {x}))
    BY <1>1, <1>2 DEF Iterates
  <2> QED BY <2>1, <2>2, IterationsAgree
<1> QED BY <1>1, <1>2, <1>3, <1>4

LEMMA SumIsInt ==
    ASSUME NEW S, NEW f, Summable(f, S)
    PROVE  SumFunctionOnSet(f, S) \in Int
<1>1. CASE S = {}
  BY <1>1, SumOfNothing
<1>2. CASE S # {}
  BY <1>2, SumWithout
<1> QED BY <1>1, <1>2

Naturals(f, S) == IsFiniteSet(S) /\ \A x \in S : f[x] \in Nat

LEMMA SumOfNaturals ==
    ASSUME NEW S, NEW f, Naturals(f, S)
    PROVE  SumFunctionOnSet(f, S) \in Nat /\ \A x \in S : f[x] <= SumFunctionOnSet(f, S)
<1> DEFINE P == {s \in SUBSET S : SumFunctionOnSet(f, s) \in Nat}
<1>1. {} \in P
  BY SumOfNothing
<1>2. \A s \in SUBSET S : Summable(f, s)
  BY FS_Subset DEF Naturals, Summable
<1>3. ASSUME NEW s \in SUBSET S, NEW x \in S \ s, s \in P PROVE s \union {x} \in P
  <2> DEFINE more == s \union {x}
  <2>1. more \ {x} = s /\ more \in SUBSET S /\ x \in more
    OBVIOUS
  <2> HIDE DEF more
  <2>2. SumFunctionOnSet(f, more) = f[x] + SumFunctionOnSet(f, s)
    BY <1>2, <2>1, SumWithout
  <2>3. f[x] \in Nat
    BY DEF Naturals
  <2> QED BY <1>3, <2>1, <2>2, <2>3 DEF more
<1>4. SUBSET S \subseteq P
  <2> HIDE DEF P
  <2> QED BY <1>1, <1>3, FiniteSetInduction DEF Naturals
<1>5. ASSUME NEW x \in S PROVE f[x] <= SumFunctionOnSet(f, S)
  <2>1. SumFunctionOnSet(f, S) = f[x] + SumFunctionOnSet(f, S \ {x})
    BY <1>2, SumWithout
  <2>2. S \ {x} \in SUBSET S
    OBVIOUS
  <2>3. SumFunctionOnSet(f, S \ {x}) \in Nat
    BY <1>4, <2>2
  <2>4. f[x] \in Nat
    BY DEF Naturals
  <2> QED BY <2>1, <2>3, <2>4
<1> QED BY <1>4, <1>5

\* Values that are zero outside T add nothing.
ZeroOutside(f, S, T) == T \subseteq S /\ \A x \in S \ T : f[x] = 0

LEMMA SumWithin ==
    ASSUME NEW S, NEW f, Summable(f, S), NEW T, ZeroOutside(f, S, T)
    PROVE  SumFunctionOnSet(f, S) = SumFunctionOnSet(f, T)
<1> DEFINE R == S \ T
           P == {s \in SUBSET R : SumFunctionOnSet(f, T \union s) = SumFunctionOnSet(f, T)}
<1>1. {} \in P
  <2>1. T \union {} = T
    OBVIOUS
  <2> QED BY <2>1
<1>2. \A s \in SUBSET S : Summable(f, s)
  BY FS_Subset DEF Summable
<1>3. ASSUME NEW s \in SUBSET R, NEW x \in R \ s, s \in P PROVE s \union {x} \in P
  <2> DEFINE more == T \union (s \union {x})
  <2>1. more \ {x} = T \union s /\ more \in SUBSET S /\ x \in more
    BY DEF ZeroOutside
  <2> HIDE DEF more
  <2>2. SumFunctionOnSet(f, more) = f[x] + SumFunctionOnSet(f, T \union s)
    BY <1>2, <2>1, SumWithout
  <2>3. SumFunctionOnSet(f, T \union s) \in Int
    <3>1. T \union s \in SUBSET S
      BY DEF ZeroOutside
    <3> QED BY <1>2, <3>1, SumIsInt
  <2>4. f[x] = 0
    BY DEF ZeroOutside
  <2> QED BY <1>3, <2>2, <2>3, <2>4 DEF more
<1>4. SUBSET R \subseteq P
  <2>1. IsFiniteSet(R)
    BY FS_Subset DEF Summable
  <2> HIDE DEF P, R
  <2> QED BY <1>1, <1>3, <2>1, FiniteSetInduction
<1>5. R \in P
  BY <1>4
<1>6. T \union (S \ T) = S
  BY DEF ZeroOutside
<1> QED BY <1>5, <1>6

\* f is g, but d more at x.
Raised(f, g, S, x, d) ==
    x \in S /\ d \in Int /\ f[x] = g[x] + d /\ SameOn(f, g, S \ {x})

LEMMA SumRaised ==
    ASSUME NEW S, NEW f, NEW g, Summable(f, S) /\ Summable(g, S), NEW x, NEW d, Raised(f, g, S, x, d)
    PROVE  SumFunctionOnSet(f, S) = SumFunctionOnSet(g, S) + d
<1>1. Summable(f, S) /\ Summable(g, S) /\ Summable(f, S \ {x}) /\ x \in S
  BY FS_Subset DEF Summable, Raised
<1>2. SumFunctionOnSet(f, S) = f[x] + SumFunctionOnSet(f, S \ {x})
  BY <1>1, SumWithout
<1>3. SumFunctionOnSet(g, S) \in Int /\ SumFunctionOnSet(g, S) = g[x] + SumFunctionOnSet(g, S \ {x})
  BY <1>1, SumWithout
<1>4. SumFunctionOnSet(g, S \ {x}) = SumFunctionOnSet(f, S \ {x})
  BY <1>1, SumOfSame DEF Raised
<1>5. SumFunctionOnSet(f, S \ {x}) \in Int
  BY <1>1, SumIsInt
<1>6. f[x] = g[x] + d /\ g[x] \in Int /\ d \in Int
  BY <1>1 DEF Summable, Raised
<1> QED BY <1>2, <1>3, <1>4, <1>5, <1>6

\* Every value of g is at most a/w of that of f.
Within(g, f, S, a, w) == \A x \in S : w * g[x] <= a * f[x]

LEMMA SumScaled ==
    ASSUME NEW S, NEW f, NEW g, Naturals(f, S) /\ Naturals(g, S), NEW a \in Nat, NEW w \in Nat,
           Within(g, f, S, a, w)
    PROVE  w * SumFunctionOnSet(g, S) <= a * SumFunctionOnSet(f, S)
<1> DEFINE P == {s \in SUBSET S : w * SumFunctionOnSet(g, s) <= a * SumFunctionOnSet(f, s)}
<1>1. {} \in P
  BY SumOfNothing
<1>2. \A s \in SUBSET S : /\ Summable(f, s) /\ Summable(g, s)
                          /\ Naturals(f, s) /\ Naturals(g, s)
  BY FS_Subset DEF Summable, Naturals
<1>3. ASSUME NEW s \in SUBSET S, NEW x \in S \ s, s \in P PROVE s \union {x} \in P
  <2> DEFINE more == s \union {x}
  <2>1. more \ {x} = s /\ more \in SUBSET S /\ x \in more
    OBVIOUS
  <2> HIDE DEF more
  <2>2. SumFunctionOnSet(f, more) = f[x] + SumFunctionOnSet(f, s)
    BY <1>2, <2>1, SumWithout
  <2>3. SumFunctionOnSet(g, more) = g[x] + SumFunctionOnSet(g, s)
    BY <1>2, <2>1, SumWithout
  <2>4. f[x] \in Nat /\ g[x] \in Nat /\ w * g[x] <= a * f[x]
    BY DEF Naturals, Within
  <2>5. SumFunctionOnSet(f, s) \in Nat /\ SumFunctionOnSet(g, s) \in Nat
    BY <1>2, SumOfNaturals
  <2>6. w * SumFunctionOnSet(g, s) <= a * SumFunctionOnSet(f, s)
    BY <1>3
  <2>7. w * SumFunctionOnSet(g, more) <= a * SumFunctionOnSet(f, more)
    <3> DEFINE G == SumFunctionOnSet(g, s)
               F == SumFunctionOnSet(f, s)
    <3> HIDE DEF F, G
    <3>1. w * (g[x] + G) = w * g[x] + w * G /\ a * (f[x] + F) = a * f[x] + a * F
      BY <2>4, <2>5 DEF F, G
    <3>2. w * g[x] \in Int /\ w * G \in Int /\ a * f[x] \in Int /\ a * F \in Int
      BY <2>4, <2>5 DEF F, G
    <3>3. w * g[x] + w * G <= a * f[x] + a * F
      BY <2>4, <2>6, <3>2 DEF F, G
    <3> QED BY <2>2, <2>3, <3>1, <3>3 DEF F, G
  <2> QED BY <2>1, <2>7 DEF more
<1>4. SUBSET S \subseteq P
  <2> HIDE DEF P
  <2> QED BY <1>1, <1>3, FiniteSetInduction DEF Naturals
<1> QED BY <1>4

LEMMA SumOfFunction == \A f : SumFunction(f) = SumFunctionOnSet(f, DOMAIN f)
BY DEF SumFunction, SumFunctionOnSet, FoldFunction
-----------------------------------------------------------------------------
(* Numbers. *)

LEMMA Division ==
    ASSUME NEW a \in Nat, NEW b \in Nat \ {0}
    PROVE  a \div b \in Nat /\ b * (a \div b) <= a
OBVIOUS

\* Max chooses the greatest.
LEMMA MaxOfTimes ==
    ASSUME NEW n \in Nat, NEW S \in SUBSET (0..n), S # {}
    PROVE  Max(S) \in S /\ \A y \in S : y <= Max(S)
<1> DEFINE N == {m \in Nat : n - m \in S}
<1>1. N # {}
  <2>1. PICK x : x \in S
    OBVIOUS
  <2>2. n - x \in N
    BY <2>1
  <2> QED BY <2>2
<1>2. PICK m \in N : \A k \in N : m <= k
  BY <1>1, LeastNat
<1>3. \A y \in S : n - y \in N
  OBVIOUS
<1>4. n - m \in S /\ \A y \in S : n - m >= y
  BY <1>2, <1>3
<1> QED BY <1>4 DEF Max

LEMMA MaxOfTwo ==
    ASSUME NEW a \in Int, NEW b \in Int
    PROVE  Max({a, b}) \in {a, b} /\ Max({a, b}) >= a /\ Max({a, b}) >= b
<1>1. \E x \in {a, b} : \A y \in {a, b} : x >= y
  <2>1. CASE a >= b
    BY <2>1
  <2>2. CASE b >= a
    BY <2>2
  <2> QED BY <2>1, <2>2
<1> QED BY <1>1 DEF Max

LEMMA MinOfTwo ==
    ASSUME NEW a \in Int, NEW b \in Int
    PROVE  Min({a, b}) \in {a, b} /\ Min({a, b}) <= a /\ Min({a, b}) <= b
<1>1. \E x \in {a, b} : \A y \in {a, b} : x <= y
  <2>1. CASE a >= b
    BY <2>1
  <2>2. CASE b >= a
    BY <2>2
  <2> QED BY <2>1, <2>2
<1> QED BY <1>1 DEF Min
-----------------------------------------------------------------------------
(* Types. *)

IndexTypes ==
    /\ YieldTypeOK
    /\ Lifecycle(blocks)
    /\ watch = "catchup" => next >= 1

DropTypes ==
    /\ drop.to <= Height
    /\ drop.at \in {"idle", "harvest"} => drop.block = 0
    /\ drop.at \in {"insert", "allocate", "pay", "mark"} =>
           /\ drop.block \in 1..Height /\ blocks[drop.block][1] = "harvested"
           /\ shares[drop.block] # None
    /\ drop.at = "mark" => drop.payee \in Vaults

RunTypes ==
    /\ drop \in DropState /\ airdrops \in 0..MaxAirdrops
    /\ allocations \in [Harvests -> [Vaults -> Nat]]
    /\ delivered \subseteq Harvests \X Vaults
    /\ transfers \in [Harvests -> [Vaults -> Nat]]
    /\ shares \in [Harvests -> Share \union {None}]
    /\ ProcessTypeOK

YieldTypeInv == RunTypes /\ IndexTypes /\ DropTypes

\* Blocks are only added.
Grown == Height' >= Height /\ \A b \in 1..Height : blocks'[b] = blocks[b]

\* A block that keeps the order of a vault's events.
Legal(e) ==
    /\ e \in Events
    /\ \A v \in Vaults : e = <<"deposited", v>> => ~Happened(e)
    /\ \A v \in Vaults : e = <<"closed", v>> => ~Happened(e) /\ Happened(<<"deposited", v>>)

LEMMA Numbers ==
    /\ MaxEvents \in Nat /\ YieldRange \in Nat \ {0} /\ YieldRescan \in Nat
    /\ YieldConfirmations \in Nat /\ None \notin Nat /\ IsFiniteSet(Vaults)
    /\ MaxFaults \in Nat /\ MaxRestarts \in Nat
BY YieldAssumption, ProcessAssumption

LEMMA HeightBounds == YieldTypeInv => Height \in Nat /\ Height <= MaxEvents
BY Numbers DEF YieldTypeInv, IndexTypes, YieldTypeOK, Times

LEMMA MineTypes ==
    ASSUME YieldTypeInv, NEW e, Legal(e), Mine(e)
    PROVE  /\ IndexTypes' /\ Grown /\ Height' = Height + 1
           /\ blocks'[Height + 1] = e /\ DOMAIN blocks' = 1..(Height + 1)
<1>1. /\ blocks \in Seq(Events) /\ e \in Events /\ Height < MaxEvents
      /\ blocks' = Append(blocks, e) /\ Height \in Nat
  BY HeightBounds DEF YieldTypeInv, IndexTypes, YieldTypeOK, Legal, Mine
<1>2. /\ blocks' \in Seq(Events) /\ Height' = Height + 1 /\ Height' \in Times
      /\ blocks'[Height + 1] = e /\ \A b \in 1..Height : blocks'[b] = blocks[b]
      /\ DOMAIN blocks' = 1..(Height + 1) /\ DOMAIN blocks = 1..Height
  BY <1>1, Numbers DEF Height, Times
<1>3. Lifecycle(blocks')
  <2>1. Lifecycle(blocks)
    BY DEF YieldTypeInv, IndexTypes
  <2>2. ASSUME NEW b \in 1..(Height + 1), NEW c \in 1..(Height + 1), blocks'[b] = blocks'[c],
               blocks'[b][1] # "harvested"
        PROVE  b = c
    <3>1. CASE b \in 1..Height /\ c \in 1..Height
      BY <1>2, <2>1, <2>2, <3>1 DEF Lifecycle
    <3>2. \A d \in 1..Height : e[1] # "harvested" => blocks[d] # e
      <4>1. e[1] # "harvested" => \E v \in Vaults : e = <<"deposited", v>> \/ e = <<"closed", v>>
        BY <1>1 DEF Events
      <4> QED BY <4>1 DEF Legal, Happened
    <3>3. b \in 1..Height \/ b = Height + 1
      BY <1>1
    <3>4. c \in 1..Height \/ c = Height + 1
      BY <1>1
    <3> QED BY <1>2, <2>2, <3>1, <3>2, <3>3, <3>4
  <2>3. ASSUME NEW c \in 1..(Height + 1), NEW v \in Vaults, blocks'[c] = <<"closed", v>>
        PROVE  \E b \in 1..(c - 1) : blocks'[b] = <<"deposited", v>>
    <3>1. CASE c \in 1..Height
      <4>1. \E b \in 1..(c - 1) : blocks[b] = <<"deposited", v>>
        BY <1>2, <2>1, <2>3, <3>1 DEF Lifecycle
      <4> QED BY <1>1, <1>2, <3>1, <4>1
    <3>2. CASE c = Height + 1
      <4>1. PICK b \in 1..Height : blocks[b] = <<"deposited", v>>
        BY <1>2, <2>3, <3>2 DEF Legal, Happened
      <4> QED BY <1>1, <1>2, <3>2, <4>1
    <3>3. c \in 1..Height \/ c = Height + 1
      BY <1>1
    <3> QED BY <3>1, <3>2, <3>3
  <2> QED BY <1>2, <2>2, <2>3 DEF Lifecycle
<1>4. pushed' \in Seq(1..Height')
  <2>1. pushed \in Seq(1..(Height + 1)) /\ Height + 1 \in 1..(Height + 1)
    <3>1. pushed \in Seq(1..Height) /\ 1..Height \subseteq 1..(Height + 1)
      BY <1>1 DEF YieldTypeInv, IndexTypes, YieldTypeOK
    <3> QED BY <1>1, <3>1
  <2>2. Append(pushed, Height + 1) \in Seq(1..(Height + 1))
    BY <2>1
  <2>3. pushed' = pushed \/ pushed' = Append(pushed, Height + 1)
    BY DEF Mine
  <2> QED BY <1>2, <2>1, <2>2, <2>3
<1>5. lost' \subseteq 1..Height'
  <2>1. lost \subseteq 1..Height
    BY DEF YieldTypeInv, IndexTypes, YieldTypeOK
  <2>2. lost' \subseteq lost \union {Height + 1}
    BY DEF Mine
  <2> QED BY <1>1, <1>2, <2>1, <2>2
<1>6. /\ vaultRows' \in [Vaults -> VaultRow \union {None}]
      /\ distributions' \in [1..MaxEvents -> Distribution \union {None}]
      /\ watch' \in {"off", "catchup", "live", "broken", "polling", "dead"}
      /\ watch' = "catchup" => next' >= 1
  BY DEF Mine, YieldTypeInv, IndexTypes, YieldTypeOK
<1>7. indexed' \in 0..Height' /\ upto' \in 0..Height' /\ next' \in 0..(Height' + 1)
  <2>1. indexed \in 0..Height /\ upto \in 0..Height /\ next \in 0..(Height + 1)
    BY DEF YieldTypeInv, IndexTypes, YieldTypeOK
  <2>2. indexed' = indexed /\ upto' = upto /\ next' = next
    BY DEF Mine
  <2> QED BY <1>1, <1>2, <2>1, <2>2
<1> QED BY <1>1, <1>2, <1>3, <1>4, <1>5, <1>6, <1>7 DEF IndexTypes, YieldTypeOK, Grown

LEMMA MineVaultTypes ==
    ASSUME YieldTypeInv, NEW v \in Vaults, MineVault(v)
    PROVE  \E e : Legal(e) /\ Mine(e) /\ e[1] # "harvested"
<1>1. CASE Happened(<<"deposited", v>>)
  <2>1. Legal(<<"closed", v>>) /\ Mine(<<"closed", v>>)
    BY <1>1 DEF MineVault, Legal, Events
  <2> QED BY <2>1
<1>2. CASE ~Happened(<<"deposited", v>>)
  <2>1. Legal(<<"deposited", v>>) /\ Mine(<<"deposited", v>>)
    BY <1>2 DEF MineVault, Legal, Events
  <2> QED BY <2>1
<1> QED BY <1>1, <1>2

LEMMA VaultRowTypes ==
    ASSUME YieldTypeInv, NEW logs \in SUBSET (1..Height), NEW v \in Vaults
    PROVE  RowAfter(v, logs) \in VaultRow \union {None}
<1> DEFINE seen(kind) == {b \in logs : blocks[b] = <<kind, v>>}
           row == IF seen("deposited") = {} \/ vaultRows[v] # None THEN vaultRows[v]
                  ELSE [deposited |-> Max(seen("deposited")), closed |-> None]
<1>1. Height \in Nat /\ 1..Height \subseteq Times /\ vaultRows[v] \in VaultRow \union {None}
  BY HeightBounds, Numbers DEF Times, YieldTypeInv, IndexTypes, YieldTypeOK
<1>2. ASSUME NEW kind, seen(kind) # {} PROVE Max(seen(kind)) \in Times
  <2>1. seen(kind) \in SUBSET (0..Height)
    <3>1. seen(kind) \in SUBSET logs /\ logs \subseteq 0..Height
      OBVIOUS
    <3> QED BY <3>1
  <2> HIDE DEF seen
  <2>2. Max(seen(kind)) \in seen(kind)
    BY <1>1, <1>2, <2>1, MaxOfTimes
  <2> QED BY <1>1, <2>2 DEF seen
<1>3. row \in VaultRow \union {None}
  <2> HIDE DEF seen
  <2> QED BY <1>1, <1>2 DEF VaultRow
<1>4. RowAfter(v, logs) =
        IF row # None /\ seen("closed") # {} THEN [row EXCEPT !.closed = Max(seen("closed"))]
        ELSE row
  BY DEF RowAfter
<1> HIDE DEF row, seen
<1> QED BY <1>2, <1>3, <1>4 DEF VaultRow

LEMMA RecordTypes ==
    ASSUME YieldTypeInv, NEW logs \in SUBSET (1..Height), RecordLogs(logs)
    PROVE  /\ vaultRows' \in [Vaults -> VaultRow \union {None}]
           /\ distributions' \in [1..MaxEvents -> Distribution \union {None}]
<1>1. vaultRows' \in [Vaults -> VaultRow \union {None}]
  BY VaultRowTypes DEF RecordLogs
<1>2. ASSUME NEW b \in logs, blocks[b][1] = "harvested" PROVE Harvested(b) \in Distribution
  <2>1. blocks[b] \in Events
    BY DEF YieldTypeInv, IndexTypes, YieldTypeOK, Height
  <2>2. blocks[b][2] \in YieldAssets
    BY <1>2, <2>1 DEF Events
  <2>3. b \in Times
    BY HeightBounds, Numbers DEF Times
  <2> QED BY <2>2, <2>3 DEF Harvested, Distribution
<1>3. distributions' \in [1..MaxEvents -> Distribution \union {None}]
  BY <1>2 DEF RecordLogs, YieldTypeInv, IndexTypes, YieldTypeOK
<1> QED BY <1>1, <1>3

LEMMA ProcessTypes ==
    ASSUME YieldTypeInv, NEW logs \in SUBSET (1..Height), ProcessAll(logs), UNCHANGED restarts
    PROVE  /\ vaultRows' \in [Vaults -> VaultRow \union {None}]
           /\ distributions' \in [1..MaxEvents -> Distribution \union {None}]
           /\ lost' \subseteq 1..Height
           /\ ProcessTypeOK'
<1>1. PICK failed \in SUBSET logs :
        /\ RecordLogs(logs \ failed) /\ lost' = (lost \ logs) \union failed
        /\ faults' = faults \/ (faults < MaxFaults /\ faults' = faults + 1)
  BY DEF ProcessAll, Fault, NoFault
<1>2. logs \ failed \in SUBSET (1..Height)
  OBVIOUS
<1>3. /\ vaultRows' \in [Vaults -> VaultRow \union {None}]
      /\ distributions' \in [1..MaxEvents -> Distribution \union {None}]
  BY <1>1, <1>2, RecordTypes
<1>4. lost' \subseteq 1..Height
  BY <1>1 DEF YieldTypeInv, IndexTypes, YieldTypeOK
<1>5. ProcessTypeOK'
  <2>1. faults \in 0..MaxFaults /\ restarts \in 0..MaxRestarts
    BY DEF YieldTypeInv, RunTypes, ProcessTypeOK
  <2> QED BY <1>1, <2>1, Numbers DEF ProcessTypeOK
<1> QED BY <1>3, <1>4, <1>5

LEMMA RangeOfSeq ==
    \A S : \A s \in Seq(S) :
        /\ Range(s) \subseteq S
        /\ s # <<>> => Head(s) \in S /\ Tail(s) \in Seq(S) /\ Head(s) \in Range(s)
<1> TAKE S
<1> TAKE s \in Seq(S)
<1>1. \A i \in DOMAIN s : s[i] \in S
  OBVIOUS
<1>2. s # <<>> => Head(s) = s[1] /\ 1 \in DOMAIN s /\ Tail(s) \in Seq(S)
  OBVIOUS
<1> QED BY <1>1, <1>2 DEF Range

LEMMA YieldIndexerTypes ==
    ASSUME YieldTypeInv, YieldIndex
    PROVE  IndexTypes' /\ ProcessTypeOK' /\ UNCHANGED blocks
<1> DEFINE CH == ConfirmedHead
<1>1. /\ Height \in Nat /\ CH \in 0..Height
      /\ indexed \in 0..Height /\ upto \in 0..Height /\ next \in 0..(Height + 1)
  <2>1. Height \in Nat
    BY HeightBounds
  <2>2. CH \in 0..Height
    BY <2>1, Numbers DEF ConfirmedHead
  <2> QED BY <2>1, <2>2 DEF YieldTypeInv, IndexTypes, YieldTypeOK
<1>2. /\ faults \in 0..MaxFaults /\ restarts \in 0..MaxRestarts
      /\ MaxFaults \in Nat /\ MaxRestarts \in Nat
  BY Numbers DEF YieldTypeInv, RunTypes, ProcessTypeOK
<1>3. YieldTypeOK /\ Lifecycle(blocks) /\ (watch = "catchup" => next >= 1)
  BY DEF YieldTypeInv, IndexTypes
<1>4. Fault => faults' \in 0..MaxFaults
  BY <1>2 DEF Fault
<1>5. Restart => restarts' \in 0..MaxRestarts
  BY <1>2 DEF Restart
\* What is left of the types when the blocks stay.
<1> DEFINE Rest == /\ watch' \in {"off", "catchup", "live", "broken", "polling", "dead"}
                   /\ indexed' \in 0..Height /\ upto' \in 0..Height
                   /\ next' \in 0..(Height + 1) /\ (watch' = "catchup" => next' >= 1)
                   /\ pushed' \in Seq(1..Height) /\ lost' \subseteq 1..Height
           Rows == /\ vaultRows' \in [Vaults -> VaultRow \union {None}]
                   /\ distributions' \in [1..MaxEvents -> Distribution \union {None}]
<1>6. ASSUME Rest, Rows, UNCHANGED blocks PROVE IndexTypes'
  <2>1. Height' = Height
    BY <1>6 DEF Height
  <2> QED BY <1>3, <1>6, <2>1 DEF IndexTypes, YieldTypeOK, Lifecycle
<1>7. UNCHANGED <<vaultRows, distributions>> => Rows
  BY <1>3 DEF YieldTypeOK
<1>8. /\ pushed \in Seq(1..Height) /\ lost \subseteq 1..Height
      /\ watch \in {"off", "catchup", "live", "broken", "polling", "dead"}
  BY <1>3 DEF YieldTypeOK
<1>9. ASSUME UNCHANGED <<faults, restarts>> PROVE ProcessTypeOK'
  BY <1>2, <1>9 DEF ProcessTypeOK
<1>10. CASE YieldStart
  <2> DEFINE from == (IF indexed > 0 THEN indexed ELSE CH) - YieldRescan
  <2>1. /\ watch' = "catchup" /\ upto' = CH /\ UNCHANGED <<indexed, pushed>>
        /\ next' = (IF from > 1 THEN from ELSE 1)
        /\ lost' = (IF indexed > 0 THEN lost ELSE 1..(from - 1))
    BY <1>10 DEF YieldStart
  <2>2. from \in Int /\ from <= Height
    BY <1>1, Numbers
  <2> HIDE DEF from, CH
  <2>3. next' \in 0..(Height + 1) /\ next' >= 1
    BY <1>1, <2>1, <2>2
  <2>4. lost' \subseteq 1..Height
    BY <1>1, <1>8, <2>1, <2>2
  <2>5. Rest
    BY <1>1, <1>8, <2>1, <2>3, <2>4
  <2> QED BY <1>6, <1>7, <1>9, <1>10, <2>5 DEF YieldStart
<1>11. CASE CatchUp
  <2> DEFINE end == IF next + YieldRange - 1 < upto THEN next + YieldRange - 1 ELSE upto
  <2>1. /\ watch = "catchup" /\ next <= upto /\ ProcessAll(next..end)
        /\ indexed' = end /\ next' = end + 1
        /\ UNCHANGED <<blocks, watch, upto, pushed, restarts>>
    BY <1>11 DEF CatchUp
  <2>2. end \in 0..Height /\ end >= next /\ next >= 1
    BY <1>1, <1>3, <2>1, Numbers
  <2> HIDE DEF end
  <2>3. next..end \in SUBSET (1..Height)
    BY <1>1, <2>2
  <2>4. Rows /\ lost' \subseteq 1..Height /\ ProcessTypeOK'
    BY <2>1, <2>3, ProcessTypes
  <2>5. next' \in 0..(Height + 1) /\ next' >= 1 /\ indexed' \in 0..Height
    BY <1>1, <2>1, <2>2
  <2>6. Rest
    BY <1>1, <1>8, <2>1, <2>4, <2>5
  <2> QED BY <1>6, <2>1, <2>4, <2>6
<1>12. CASE YieldRunRaises
  <2>1. Rest /\ UNCHANGED blocks
    BY <1>1, <1>8, <1>12 DEF YieldRunRaises
  <2>2. Rows /\ ProcessTypeOK'
    BY <1>2, <1>4, <1>7, <1>12 DEF YieldRunRaises, ProcessTypeOK
  <2> QED BY <1>6, <2>1, <2>2
<1>13. CASE Subscribe
  <2>1. lost' \subseteq 1..Height
    <3>1. (upto + 1)..Height \subseteq 1..Height
      BY <1>1
    <3> QED BY <1>8, <1>13, <3>1 DEF Subscribe
  <2>3. watch' \in {"live", "polling"} /\ next' = 0 /\ upto' \in {0, upto}
        /\ UNCHANGED <<blocks, indexed, pushed>>
    BY <1>13 DEF Subscribe
  <2>4. Rest /\ UNCHANGED blocks
    BY <1>1, <1>8, <2>1, <2>3
  <2>2. Rows /\ ProcessTypeOK'
    BY <1>7, <1>9, <1>13 DEF Subscribe
  <2> QED BY <1>6, <2>2, <2>4
<1>14. CASE TakePushed
  <2>1. Head(pushed) \in 1..Height /\ Tail(pushed) \in Seq(1..Height)
    BY <1>8, <1>14, RangeOfSeq DEF TakePushed
  <2>2. Rows /\ lost' \subseteq 1..Height /\ ProcessTypeOK'
    <3>1. {Head(pushed)} \in SUBSET (1..Height)
      BY <2>1
    <3> QED BY <1>14, <3>1, ProcessTypes DEF TakePushed
  <2>3. indexed' \in 0..Height
    BY <1>1, <1>14, <2>1 DEF TakePushed
  <2>4. Rest /\ UNCHANGED blocks
    BY <1>1, <1>8, <1>14, <2>1, <2>2, <2>3 DEF TakePushed
  <2> QED BY <1>6, <2>2, <2>4
<1>15. CASE Disconnect
  <2>1. Range(pushed) \subseteq 1..Height
    BY <1>8, RangeOfSeq
  <2>2. Rest /\ UNCHANGED blocks
    <3>1. lost' \subseteq 1..Height
      BY <1>8, <1>15, <2>1 DEF Disconnect
    <3>2. pushed' = <<>> /\ <<>> \in Seq(1..Height)
      BY <1>15 DEF Disconnect
    <3>3. /\ watch' = "broken" /\ next' \in {0, next} /\ upto' \in {0, upto}
          /\ UNCHANGED <<blocks, indexed>>
      BY <1>15 DEF Disconnect
    <3> QED BY <1>1, <3>1, <3>2, <3>3
  <2>3. Rows /\ ProcessTypeOK'
    BY <1>2, <1>4, <1>7, <1>15 DEF Disconnect, ProcessTypeOK
  <2> QED BY <1>6, <2>2, <2>3
<1>16. CASE Reconnect
  <2>1. Rest /\ UNCHANGED blocks
    BY <1>1, <1>8, <1>16 DEF Reconnect
  <2>2. Rows /\ ProcessTypeOK'
    BY <1>7, <1>9, <1>16 DEF Reconnect
  <2> QED BY <1>6, <2>1, <2>2
<1>17. CASE PollYield
  <2>1. (upto + 1)..CH \in SUBSET (1..Height)
    BY <1>1
  <2>2. Rows /\ lost' \subseteq 1..Height /\ ProcessTypeOK'
    BY <1>17, <2>1, ProcessTypes DEF PollYield
  <2>3. Rest /\ UNCHANGED blocks
    BY <1>1, <1>8, <1>17, <2>2 DEF PollYield
  <2> QED BY <1>6, <2>2, <2>3
<1>18. CASE YieldIndexerCrash
  <2>1. Range(pushed) \subseteq 1..Height
    BY <1>8, RangeOfSeq
  <2>2. Rest /\ UNCHANGED blocks
    <3>1. lost' \subseteq 1..Height
      BY <1>8, <1>18, <2>1 DEF YieldIndexerCrash
    <3>2. pushed' = <<>> /\ <<>> \in Seq(1..Height)
      BY <1>18 DEF YieldIndexerCrash
    <3>3. /\ watch' = "off" /\ next' \in {0, next} /\ upto' \in {0, upto}
          /\ UNCHANGED <<blocks, indexed>>
      BY <1>18 DEF YieldIndexerCrash
    <3> QED BY <1>1, <3>1, <3>2, <3>3
  <2>3. Rows /\ ProcessTypeOK'
    BY <1>2, <1>5, <1>7, <1>18 DEF YieldIndexerCrash, ProcessTypeOK
  <2> QED BY <1>6, <2>2, <2>3
<1> QED BY <1>10, <1>11, <1>12, <1>13, <1>14, <1>15, <1>16, <1>17, <1>18 DEF YieldIndex
-----------------------------------------------------------------------------
(* What is allocated of a harvest is what there is of it. *)

LEMMA Cancel ==
    ASSUME NEW w \in Nat \ {0}, NEW s \in Nat, NEW a \in Nat, w * s <= a * w
    PROVE  s <= a
<1> SUFFICES ASSUME s >= a + 1 PROVE FALSE
  OBVIOUS
<1>1. PICK d \in Nat : s = a + 1 + d
  <2>1. s - (a + 1) \in Nat /\ s = a + 1 + (s - (a + 1))
    OBVIOUS
  <2> QED BY <2>1
<1>2. w * s = w * a + w + w * d
  BY <1>1
<1>3. w * a \in Nat /\ w * d \in Nat /\ a * w = w * a
  BY <1>1
<1> QED BY <1>2, <1>3

LEMMA WeightTypes ==
    ASSUME YieldTypeInv, NEW v \in Vaults, vaultRows[v] # None
    PROVE  Weight(v) \in Nat
<1> DEFINE row == vaultRows[v]
           start == Max({row.deposited, drop.from})
           end == IF row.closed = None THEN drop.to ELSE Min({row.closed, drop.to})
           span == Max({end - start, 0})
<1>1. /\ row.deposited \in Int /\ (row.closed # None => row.closed \in Int)
      /\ drop.from \in Int /\ drop.to \in Int
  BY Numbers DEF YieldTypeInv, RunTypes, IndexTypes, YieldTypeOK, VaultRow, DropState, Times
<1> HIDE DEF row
<1>2. start \in Int
  BY <1>1, MaxOfTwo
<1>3. end \in Int
  BY <1>1, MinOfTwo
<1> HIDE DEF start, end
<1>4. span \in Nat
  <2> DEFINE gap == end - start
  <2>1. gap \in Int /\ 0 \in Int
    BY <1>2, <1>3
  <2>2. span = Max({gap, 0})
    OBVIOUS
  <2> HIDE DEF gap, span
  <2>3. span \in {gap, 0} /\ span >= 0
    BY <2>1, <2>2, MaxOfTwo
  <2> QED BY <2>1, <2>3
<1> HIDE DEF span
<1>5. Weight(v) = Collateral[v] * span
  BY DEF Weight, span, start, end, row
<1>6. Collateral[v] \in Nat
  BY AirdropAssumption
<1> QED BY <1>4, <1>5, <1>6

\* An allocation gives every vault its rounded share, and the first the rest.
LEMMA AllocationAdds ==
    ASSUME YieldTypeInv, NEW a, NEW first \in Vaults, Portion(first, a) > 0
    PROVE  /\ Allocation(a, first) \in [Vaults -> Nat]
           /\ SumFunction(Allocation(a, first)) = drop.amount
<1> DEFINE A == Active(a)
           W == TotalWeight(a)
           N == drop.amount
           wt == [v \in A |-> Weight(v)]
           pf == [v \in Vaults |-> Portion(v, a)]
           dust == N - SumFunction(pf)
           all == Allocation(a, first)
<1>1. A \subseteq Vaults /\ \A v \in A : vaultRows[v] # None
  BY DEF Active
<1>2. Naturals(wt, A)
  <2>1. \A v \in A : wt[v] \in Nat
    BY <1>1, WeightTypes
  <2>2. IsFiniteSet(A)
    BY <1>1, Numbers, FS_Subset
  <2> QED BY <2>1, <2>2 DEF Naturals
<1>3. W = SumFunctionOnSet(wt, A)
  BY SumOfFunction DEF TotalWeight
<1>4. W \in Nat /\ W > 0
  <2>1. W \in Nat
    BY <1>2, <1>3, SumOfNaturals
  <2>2. CASE ~(W > 0)
    <3>1. Portion(first, a) = 0
      BY <2>2 DEF Portion
    <3> QED BY <3>1
  <2> QED BY <2>1, <2>2
<1>5. N \in Nat
  BY DEF YieldTypeInv, RunTypes, DropState
<1>6. \A v \in A : pf[v] \in Nat /\ W * pf[v] <= N * wt[v]
  <2> SUFFICES ASSUME NEW v \in A PROVE pf[v] \in Nat /\ W * pf[v] <= N * wt[v]
    OBVIOUS
  <2>1. pf[v] = (N * Weight(v)) \div W /\ wt[v] = Weight(v)
    BY <1>1, <1>4 DEF Portion
  <2>2. Weight(v) \in Nat
    BY <1>1, WeightTypes
  <2>3. N * Weight(v) \in Nat
    BY <1>5, <2>2
  <2> HIDE DEF W, N, wt, pf
  <2> QED BY <1>4, <2>1, <2>3, Division
<1>7. \A v \in Vaults \ A : pf[v] = 0
  BY DEF Portion
<1>8. all = [v \in Vaults |-> IF v = first THEN pf[v] + dust ELSE pf[v]]
  BY DEF Allocation
<1>9. DOMAIN pf = Vaults
  OBVIOUS
<1> HIDE DEF A, W, N, wt, pf, all
<1>10. Naturals(pf, Vaults) /\ Naturals(pf, A) /\ ZeroOutside(pf, Vaults, A)
  BY <1>1, <1>2, <1>6, <1>7, Numbers DEF Naturals, ZeroOutside
<1>11. Summable(pf, Vaults)
  BY <1>10 DEF Summable, Naturals
<1>12. /\ SumFunction(pf) = SumFunctionOnSet(pf, Vaults)
       /\ SumFunctionOnSet(pf, Vaults) = SumFunctionOnSet(pf, A)
  BY <1>9, <1>10, <1>11, SumOfFunction, SumWithin
<1>13. W * SumFunctionOnSet(pf, A) <= N * W
  <2>1. Within(pf, wt, A, N, W)
    BY <1>6 DEF Within
  <2> QED BY <1>2, <1>3, <1>4, <1>5, <1>10, <2>1, SumScaled
<1>14. dust \in Nat
  <2>1. SumFunctionOnSet(pf, A) \in Nat
    BY <1>10, SumOfNaturals
  <2>2. SumFunctionOnSet(pf, A) <= N
    BY <1>4, <1>5, <1>13, <2>1, Cancel
  <2> QED BY <1>5, <1>12, <2>1, <2>2
<1>15. SumFunction(pf) \in Int /\ dust = N - SumFunction(pf)
  BY <1>10, <1>12, SumOfNaturals
<1> HIDE DEF dust
<1>16. all \in [Vaults -> Nat]
  <2>1. \A v \in Vaults : pf[v] \in Nat
    BY <1>10 DEF Naturals
  <2> QED BY <1>8, <1>14, <2>1
<1>17. Raised(all, pf, Vaults, first, dust)
  BY <1>8, <1>14 DEF Raised, SameOn
<1>18. Summable(all, Vaults) /\ DOMAIN all = Vaults
  BY <1>16, Numbers DEF Summable
<1>19. SumFunction(all) = SumFunctionOnSet(pf, Vaults) + dust
  BY <1>11, <1>17, <1>18, SumRaised, SumOfFunction
<1>20. SumFunction(all) = N
  BY <1>5, <1>12, <1>15, <1>19
<1> QED BY <1>16, <1>20 DEF all, N
-----------------------------------------------------------------------------

\* A run starts no earlier than any recorded period ends.
LEMMA PeriodStartBounds ==
    ASSUME YieldTypeInv
    PROVE  /\ PeriodStart \in Times
           /\ \A b \in Harvests : distributions[b] # None => distributions[b].end <= PeriodStart
<1> DEFINE ends == {distributions[b].end : b \in {c \in Harvests : distributions[c] # None}}
<1>1. \A b \in Harvests : distributions[b] # None => distributions[b].end \in 0..MaxEvents
  BY DEF YieldTypeInv, IndexTypes, YieldTypeOK, Distribution, Harvests, Times
<1>2. {0} \union ends \in SUBSET (0..MaxEvents) /\ {0} \union ends # {}
  BY <1>1, Numbers
<1>3. \A b \in Harvests : distributions[b] # None => distributions[b].end \in {0} \union ends
  OBVIOUS
<1> HIDE DEF ends
<1>4. PeriodStart = Max({0} \union ends)
  BY DEF PeriodStart, ends
<1> HIDE <1>4
<1>5. Max({0} \union ends) \in {0} \union ends /\ \A y \in {0} \union ends : y <= Max({0} \union ends)
  BY <1>2, Numbers, MaxOfTimes
<1> QED BY <1>2, <1>3, <1>4, <1>5 DEF Times

LEMMA Untouched ==
    ASSUME YieldTypeInv, UNCHANGED yieldVars
    PROVE  IndexTypes' /\ Grown /\ Height' = Height
<1>1. /\ UNCHANGED <<blocks, vaultRows, distributions, indexed, watch, next, upto, pushed, lost>>
      /\ Height' = Height /\ Height \in Nat
  BY HeightBounds DEF yieldVars, Height
<1>2. YieldTypeOK'
  BY <1>1 DEF YieldTypeInv, IndexTypes, YieldTypeOK
<1>3. Lifecycle(blocks')
  BY <1>1 DEF YieldTypeInv, IndexTypes
<1>4. watch' = "catchup" => next' >= 1
  BY <1>1 DEF YieldTypeInv, IndexTypes
<1> QED BY <1>1, <1>2, <1>3, <1>4 DEF IndexTypes, Grown

LEMMA YieldFaultTypes ==
    ASSUME YieldTypeInv, NoFault \/ Fault, UNCHANGED restarts
    PROVE  ProcessTypeOK'
<1>1. faults \in 0..MaxFaults /\ restarts \in 0..MaxRestarts
  BY DEF YieldTypeInv, RunTypes, ProcessTypeOK
<1> QED BY <1>1, Numbers DEF NoFault, Fault, ProcessTypeOK

\* The asset's run is over: what NextAsset leaves.
LEMMA NextAssetTypes ==
    ASSUME YieldTypeInv, drop' = NextAsset, Height' = Height
    PROVE  drop' \in DropState /\ DropTypes'
<1>1. drop \in DropState /\ drop.to <= Height
  BY DEF YieldTypeInv, RunTypes, DropTypes
<1>2. 0 \in Times /\ {} \in SUBSET Vaults
  BY Numbers DEF Times
<1>3. drop' \in DropState /\ drop'.to = drop.to /\ drop'.at = "harvest" /\ drop'.block = 0
  BY <1>1, <1>2 DEF NextAsset, DropState
<1> QED BY <1>1, <1>3 DEF DropTypes

LEMMA IdleTypes ==
    ASSUME YieldTypeInv, drop' = Idle, Height' = Height
    PROVE  drop' \in DropState /\ DropTypes'
<1>1. Height \in Nat
  BY HeightBounds
<1> QED BY <1>1, Numbers DEF Idle, DropState, Times, DropTypes

LEMMA TransferTypes ==
    ASSUME YieldTypeInv, NEW b \in Harvests, NEW v \in Vaults, Sent(b, v)
    PROVE  transfers' \in [Harvests -> [Vaults -> Nat]]
BY DEF YieldTypeInv, RunTypes, Sent

LEMMA BlockAtHand ==
    ASSUME YieldTypeInv, drop.at \in {"insert", "allocate", "pay", "mark"}
    PROVE  /\ drop.block \in 1..Height /\ drop.block \in Harvests /\ drop.block # 0
           /\ blocks[drop.block][1] = "harvested" /\ blocks[drop.block][2] \in YieldAssets
<1>1. drop.block \in 1..Height /\ blocks[drop.block][1] = "harvested"
  BY DEF YieldTypeInv, DropTypes
<1>2. blocks[drop.block] \in Events
  BY <1>1 DEF YieldTypeInv, IndexTypes, YieldTypeOK, Height
<1>3. blocks[drop.block][2] \in YieldAssets
  BY <1>1, <1>2 DEF Events
<1> QED BY <1>1, <1>3, HeightBounds, Numbers DEF Harvests

LEMMA HarvestTypes ==
    ASSUME YieldTypeInv, NEW a \in YieldAssets, Harvest(a)
    PROVE  YieldTypeInv' /\ Grown
<1>1. /\ drop \in DropState /\ drop.at = "harvest" /\ drop.block = 0 /\ drop.to <= Height
      /\ Height \in Nat
  BY HeightBounds DEF YieldTypeInv, RunTypes, DropTypes, Harvest
<1>2. Legal(<<"harvested", a>>)
  BY DEF Legal, Events
<1>3. ProcessTypeOK'
  BY YieldFaultTypes DEF Harvest, NoFault
<1>4. IndexTypes' /\ Grown /\ Height' >= Height
  <2>1. Mine(<<"harvested", a>>) \/ UNCHANGED yieldVars
    BY DEF Harvest
  <2> QED BY <1>1, <1>2, <2>1, MineTypes, Untouched
<1>5. CASE /\ drop' = [drop EXCEPT !.assets = @ \ {a}] /\ UNCHANGED shares
  <2>1. drop' \in DropState /\ drop'.to = drop.to /\ drop'.at = "harvest" /\ drop'.block = 0
    BY <1>1, <1>5 DEF DropState
  <2>2. DropTypes'
    <3>1. drop.to \in Int /\ Height' \in Int
      BY <1>1, <1>4, Numbers DEF DropState, IndexTypes, YieldTypeOK, Times
    <3> QED BY <1>1, <1>4, <2>1, <3>1 DEF DropTypes
  <2>3. RunTypes'
    BY <1>3, <1>5, <2>1 DEF YieldTypeInv, RunTypes, Harvest
  <2> QED BY <1>4, <2>2, <2>3 DEF YieldTypeInv
<1>6. ASSUME NEW total \in Yields, Mine(<<"harvested", a>>),
             drop' = [drop EXCEPT !.at = "insert", !.assets = @ \ {a}, !.block = Height + 1,
                                  !.amount = Distributable(total)],
             shares' = [shares EXCEPT ![Height + 1] =
                              [outcome |-> "open", amount |-> Distributable(total),
                               asset |-> a, from |-> drop.from, to |-> drop.to]]
      PROVE  YieldTypeInv'
  <2>1. IndexTypes' /\ Height' = Height + 1 /\ blocks'[Height + 1] = <<"harvested", a>>
    BY <1>2, <1>6, MineTypes
  <2>2. Height + 1 \in Times /\ Height + 1 \in Harvests
    BY <1>1, <1>6, Numbers DEF Mine, Times, Harvests
  <2>3. Distributable(total) \in Nat
    <3>1. total \in Nat /\ FeeBps \in 0..10000
      BY AirdropAssumption
    <3>2. total * FeeBps \in Nat /\ total * FeeBps <= 10000 * total
      <4>1. PICK rest \in Nat : FeeBps + rest = 10000
        <5>1. 10000 - FeeBps \in Nat
          BY <3>1
        <5> QED BY <3>1, <5>1
      <4>2. total * FeeBps \in Nat /\ total * rest \in Nat
        BY <3>1, <4>1
      <4>3. total * FeeBps + total * rest = 10000 * total
        BY <3>1, <4>1
      <4> QED BY <4>2, <4>3
    <3> DEFINE fee == (total * FeeBps) \div 10000
    <3>3. fee \in Nat /\ 10000 * fee <= total * FeeBps
      BY <3>2, Division
    <3> HIDE DEF fee
    <3>4. fee <= total
      <4> DEFINE p == total * FeeBps
      <4>1. p \in Nat /\ p <= 10000 * total /\ 10000 * fee <= p
        BY <3>2, <3>3
      <4> HIDE DEF p
      <4> QED BY <3>1, <3>3, <4>1
    <3> QED BY <3>1, <3>3, <3>4 DEF Distributable, fee
  <2>4. /\ drop' \in DropState /\ drop'.at = "insert" /\ drop'.block = Height + 1
        /\ drop'.to = drop.to
    BY <1>1, <1>6, <2>2, <2>3 DEF DropState
  <2>5. shares' \in [Harvests -> Share \union {None}] /\ shares'[Height + 1] # None
    <3>1. [outcome |-> "open", amount |-> Distributable(total),
           asset |-> a, from |-> drop.from, to |-> drop.to] \in Share
      BY <1>1, <2>3 DEF Share, DropState
    <3>2. shares \in [Harvests -> Share \union {None}]
      BY DEF YieldTypeInv, RunTypes
    <3> QED BY <1>6, <2>2, <3>1, <3>2, NoShareAssumption
  <2>6. DropTypes'
    <3>1. drop.to \in Int /\ drop'.at # "mark" /\ Height + 1 \in 1..Height'
      BY <1>1, <2>1, <2>4, Numbers DEF DropState, Times
    <3> QED BY <1>1, <2>1, <2>4, <2>5, <3>1 DEF DropTypes
  <2>7. RunTypes'
    BY <1>3, <2>4, <2>5 DEF YieldTypeInv, RunTypes, Harvest
  <2> QED BY <2>1, <2>6, <2>7 DEF YieldTypeInv
<1> QED BY <1>4, <1>5, <1>6 DEF Harvest

LEMMA InsertTypes ==
    ASSUME YieldTypeInv, InsertDistribution
    PROVE  YieldTypeInv' /\ Grown
<1> DEFINE b == drop.block
<1>1. /\ drop \in DropState /\ drop.at = "insert" /\ drop.to <= Height
      /\ b \in 1..Height /\ blocks[b][1] = "harvested" /\ blocks[b][2] \in YieldAssets
      /\ b \in Harvests /\ shares[b] # None
  BY BlockAtHand DEF YieldTypeInv, RunTypes, DropTypes, InsertDistribution
<1>2. ProcessTypeOK'
  BY YieldFaultTypes DEF InsertDistribution, NoFault, AssetFails
<1>3. blocks' = blocks /\ Height' = Height /\ Grown
  BY HeightBounds DEF InsertDistribution, Height, Grown
<1>4. distributions' \in [1..MaxEvents -> Distribution \union {None}]
  <2>1. [asset |-> blocks[b][2], start |-> drop.from, end |-> drop.to] \in Distribution
    BY <1>1 DEF Distribution, DropState
  <2> QED BY <2>1 DEF InsertDistribution, YieldTypeInv, IndexTypes, YieldTypeOK
<1>5. IndexTypes'
  BY <1>3, <1>4 DEF InsertDistribution, YieldTypeInv, IndexTypes, YieldTypeOK, Lifecycle
<1>6. shares' \in [Harvests -> Share \union {None}]
  <2>1. shares \in [Harvests -> Share \union {None}]
    BY DEF YieldTypeInv, RunTypes
  <2>2. [shares[b] EXCEPT !.outcome = "raced"] \in Share
    BY <1>1, <2>1 DEF Share
  <2> QED BY <2>1, <2>2 DEF InsertDistribution
<1>7. CASE drop' = NextAsset
  <2>1. drop' \in DropState /\ DropTypes'
    BY <1>3, <1>7, NextAssetTypes
  <2>2. RunTypes'
    BY <1>2, <1>6, <2>1 DEF YieldTypeInv, RunTypes, InsertDistribution
  <2> QED BY <1>3, <1>5, <2>1, <2>2 DEF YieldTypeInv
<1>8. CASE drop' = [drop EXCEPT !.at = "allocate"]
  <2>1. drop' \in DropState /\ drop'.at = "allocate" /\ drop'.to = drop.to /\ drop'.block = b
    BY <1>1, <1>8 DEF DropState
  <2>2. DropTypes'
    <3>1. NextAsset.at = "harvest"
      BY <1>1 DEF NextAsset, DropState
    <3>2. shares' = shares
      BY <2>1, <3>1 DEF InsertDistribution
    <3> QED BY <1>1, <1>3, <2>1, <3>2 DEF DropTypes
  <2>3. RunTypes'
    BY <1>2, <1>6, <2>1 DEF YieldTypeInv, RunTypes, InsertDistribution
  <2> QED BY <1>3, <1>5, <2>2, <2>3 DEF YieldTypeInv
<1> QED BY <1>7, <1>8 DEF InsertDistribution, AssetFails

LEMMA StartTypes ==
    ASSUME YieldTypeInv, StartAirdrop
    PROVE  YieldTypeInv' /\ Grown
<1>1. IndexTypes' /\ Grown /\ Height' = Height
  BY Untouched DEF StartAirdrop
<1>2. Height \in Times /\ 0 \in Times /\ {} \in SUBSET Vaults
  BY HeightBounds, Numbers DEF Times
<1>3. /\ drop' \in DropState /\ drop'.to = Height /\ drop'.at = "harvest" /\ drop'.block = 0
  BY <1>2, PeriodStartBounds DEF StartAirdrop, Idle, DropState
<1>4. DropTypes'
  BY <1>1, <1>3, HeightBounds DEF DropTypes
<1>5. airdrops' \in 0..MaxAirdrops /\ ProcessTypeOK'
  BY AirdropAssumption DEF StartAirdrop, YieldTypeInv, RunTypes, ProcessTypeOK
<1> QED BY <1>1, <1>3, <1>4, <1>5 DEF StartAirdrop, YieldTypeInv, RunTypes

LEMMA AllocateTypes ==
    ASSUME YieldTypeInv, Allocate
    PROVE  YieldTypeInv' /\ Grown
<1> DEFINE b == drop.block
           a == blocks[b][2]
           parts == {v \in Vaults : Portion(v, a) > 0}
<1>1. /\ drop \in DropState /\ drop.at = "allocate" /\ drop.to <= Height
      /\ b \in 1..Height /\ blocks[b][1] = "harvested"
      /\ b \in Harvests /\ shares[b] # None
  BY BlockAtHand DEF YieldTypeInv, RunTypes, DropTypes, Allocate
<1>2. ProcessTypeOK'
  BY YieldFaultTypes DEF Allocate, NoFault, AssetFails
<1>3. IndexTypes' /\ Grown /\ Height' = Height /\ blocks' = blocks
  BY Untouched DEF Allocate, yieldVars
<1>4. /\ shares' \in [Harvests -> Share \union {None}]
      /\ shares' = shares \/ \E o \in {"shared", "nobody"} : shares' = [shares EXCEPT ![b].outcome = o]
  <2>1. shares \in [Harvests -> Share \union {None}]
    BY DEF YieldTypeInv, RunTypes
  <2>2. \A o \in {"shared", "nobody"} : [shares[b] EXCEPT !.outcome = o] \in Share
    BY <1>1, <2>1 DEF Share
  <2> QED BY <2>1, <2>2 DEF Allocate
<1>5. shares'[b] # None
  <2>1. shares \in [Harvests -> Share \union {None}]
    BY DEF YieldTypeInv, RunTypes
  <2>2. \A o \in {"shared", "nobody"} : [shares[b] EXCEPT !.outcome = o] \in Share
    BY <1>1, <2>1 DEF Share
  <2> QED BY <1>1, <1>4, <2>1, <2>2, NoShareAssumption
<1>6. allocations' \in [Harvests -> [Vaults -> Nat]]
  <2>1. allocations \in [Harvests -> [Vaults -> Nat]]
    BY DEF YieldTypeInv, RunTypes
  <2>2. \A first \in parts : Allocation(a, first) \in [Vaults -> Nat]
    BY AllocationAdds
  <2>3. \/ allocations' = allocations
        \/ \E first \in parts : allocations' = [allocations EXCEPT ![b] = Allocation(a, first)]
    BY DEF Allocate
  <2> HIDE DEF parts, a
  <2> QED BY <1>1, <2>1, <2>2, <2>3
<1>7. CASE drop' = NextAsset
  <2>1. drop' \in DropState /\ DropTypes'
    BY <1>3, <1>7, NextAssetTypes
  <2>2. RunTypes'
    BY <1>2, <1>4, <1>6, <2>1 DEF YieldTypeInv, RunTypes, Allocate
  <2> QED BY <1>3, <2>1, <2>2 DEF YieldTypeInv
<1>8. CASE drop' = [drop EXCEPT !.at = "pay", !.pending = parts]
  <2>1. parts \in SUBSET Vaults
    OBVIOUS
  <2> HIDE DEF parts
  <2>2. drop' \in DropState /\ drop'.at = "pay" /\ drop'.to = drop.to /\ drop'.block = b
    BY <1>1, <1>8, <2>1 DEF DropState
  <2>3. DropTypes'
    BY <1>1, <1>3, <1>5, <2>2 DEF DropTypes
  <2>4. RunTypes'
    BY <1>2, <1>4, <1>6, <2>2 DEF YieldTypeInv, RunTypes, Allocate
  <2> QED BY <1>3, <2>3, <2>4 DEF YieldTypeInv
<1> QED BY <1>7, <1>8 DEF Allocate, AssetFails

LEMMA PayTypes ==
    ASSUME YieldTypeInv, NEW v \in Vaults, Pay(v)
    PROVE  YieldTypeInv' /\ Grown
<1>1. /\ drop \in DropState /\ drop.at = "pay" /\ drop.to <= Height
      /\ drop.block \in 1..Height /\ blocks[drop.block][1] = "harvested"
      /\ drop.block \in Harvests /\ shares[drop.block] # None
  BY BlockAtHand DEF YieldTypeInv, RunTypes, DropTypes, Pay
<1>2. ProcessTypeOK'
  BY YieldFaultTypes DEF Pay, NoFault
<1>3. IndexTypes' /\ Grown /\ Height' = Height /\ blocks' = blocks /\ shares' = shares
  BY Untouched DEF Pay, yieldVars
<1>4. transfers' \in [Harvests -> [Vaults -> Nat]]
  BY <1>1, TransferTypes DEF Pay, YieldTypeInv, RunTypes
<1>5. /\ drop' \in DropState /\ drop'.to = drop.to /\ drop'.block = drop.block
      /\ drop'.at = "pay" \/ (drop'.at = "mark" /\ drop'.payee = v)
  BY <1>1 DEF Pay, DropState
<1>6. DropTypes'
  BY <1>1, <1>3, <1>5 DEF DropTypes
<1>7. RunTypes'
  BY <1>2, <1>4, <1>5 DEF YieldTypeInv, RunTypes, Pay
<1> QED BY <1>3, <1>6, <1>7 DEF YieldTypeInv

LEMMA MarkTypes ==
    ASSUME YieldTypeInv, MarkDelivered
    PROVE  YieldTypeInv' /\ Grown
<1>1. /\ drop \in DropState /\ drop.at = "mark" /\ drop.to <= Height
      /\ drop.block \in 1..Height /\ blocks[drop.block][1] = "harvested"
      /\ drop.block \in Harvests /\ shares[drop.block] # None /\ drop.payee \in Vaults
  BY BlockAtHand DEF YieldTypeInv, RunTypes, DropTypes, MarkDelivered
<1>2. ProcessTypeOK'
  BY YieldFaultTypes DEF MarkDelivered, NoFault, AssetFails
<1>3. IndexTypes' /\ Grown /\ Height' = Height /\ blocks' = blocks /\ shares' = shares
  BY Untouched DEF MarkDelivered, yieldVars
<1>4. delivered' \subseteq Harvests \X Vaults
  BY <1>1 DEF MarkDelivered, YieldTypeInv, RunTypes
<1>5. CASE drop' = NextAsset
  <2>1. drop' \in DropState /\ DropTypes'
    BY <1>3, <1>5, NextAssetTypes
  <2>2. RunTypes'
    BY <1>2, <1>4, <2>1 DEF YieldTypeInv, RunTypes, MarkDelivered
  <2> QED BY <1>3, <2>1, <2>2 DEF YieldTypeInv
<1>6. CASE drop' = [drop EXCEPT !.at = "pay", !.payee = None]
  <2>1. drop' \in DropState /\ drop'.at = "pay" /\ drop'.to = drop.to /\ drop'.block = drop.block
    BY <1>1, <1>6 DEF DropState
  <2>2. DropTypes'
    BY <1>1, <1>3, <2>1 DEF DropTypes
  <2>3. RunTypes'
    BY <1>2, <1>4, <2>1 DEF YieldTypeInv, RunTypes, MarkDelivered
  <2> QED BY <1>3, <2>2, <2>3 DEF YieldTypeInv
<1> QED BY <1>5, <1>6 DEF MarkDelivered, AssetFails

LEMMA EndTypes ==
    ASSUME YieldTypeInv, EndAsset \/ EndAirdrop \/ AirdropCrash
    PROVE  YieldTypeInv' /\ Grown
<1>1. IndexTypes' /\ Grown /\ Height' = Height
  BY Untouched DEF EndAsset, EndAirdrop, AirdropCrash
<1>2. drop' \in DropState /\ DropTypes'
  BY <1>1, NextAssetTypes, IdleTypes DEF EndAsset, EndAirdrop, AirdropCrash
<1>3. ProcessTypeOK'
  <2>1. faults \in 0..MaxFaults /\ restarts \in 0..MaxRestarts
    BY DEF YieldTypeInv, RunTypes, ProcessTypeOK
  <2> QED BY <2>1, Numbers DEF EndAsset, EndAirdrop, AirdropCrash, Restart, ProcessTypeOK
<1>4. transfers' \in [Harvests -> [Vaults -> Nat]]
  <2>1. ASSUME drop.at = "pay", NEW v \in drop.pending, Sent(drop.block, v)
        PROVE  transfers' \in [Harvests -> [Vaults -> Nat]]
    <3>1. v \in Vaults /\ drop.block \in Harvests
      BY <2>1, BlockAtHand DEF YieldTypeInv, RunTypes, DropState
    <3> QED BY <2>1, <3>1, TransferTypes
  <2>2. transfers \in [Harvests -> [Vaults -> Nat]]
    BY DEF YieldTypeInv, RunTypes
  <2> QED BY <2>1, <2>2 DEF EndAsset, EndAirdrop, AirdropCrash
<1>5. RunTypes'
  BY <1>2, <1>3, <1>4 DEF YieldTypeInv, RunTypes, EndAsset, EndAirdrop, AirdropCrash
<1> QED BY <1>1, <1>2, <1>5 DEF YieldTypeInv

LEMMA AirdropStepTypes ==
    ASSUME YieldTypeInv, Airdrop
    PROVE  YieldTypeInv' /\ Grown
BY HarvestTypes, InsertTypes, StartTypes, AllocateTypes, PayTypes, MarkTypes, EndTypes DEF Airdrop

\* The drop is left alone while the indexer works and blocks are mined.
LEMMA ChainStepTypes ==
    ASSUME YieldTypeInv, YieldIndex \/ \E v \in Vaults : MineVault(v), UNCHANGED airdropVars
    PROVE  YieldTypeInv' /\ Grown
<1>1. IndexTypes' /\ Grown /\ ProcessTypeOK'
  <2>1. CASE YieldIndex
    <3>1. IndexTypes' /\ ProcessTypeOK' /\ blocks' = blocks
      BY <2>1, YieldIndexerTypes
    <3> QED BY <3>1, HeightBounds DEF Grown, Height
  <2>2. ASSUME NEW v \in Vaults, MineVault(v) PROVE IndexTypes' /\ Grown /\ ProcessTypeOK'
    <3>1. UNCHANGED <<faults, restarts>>
      BY <2>2 DEF MineVault
    <3>2. ProcessTypeOK'
      BY <3>1 DEF ProcessTypeOK, YieldTypeInv, RunTypes
    <3> QED BY <2>2, <3>2, MineVaultTypes, MineTypes
  <2> QED BY <2>1, <2>2
<1>2. UNCHANGED <<drop, airdrops, allocations, delivered, transfers, shares>>
  BY DEF airdropVars
<1>3. RunTypes'
  BY <1>1, <1>2 DEF YieldTypeInv, RunTypes
<1>4. DropTypes'
  <2>1. drop.to \in Int /\ Height \in Int /\ Height' \in Int
    BY <1>1, HeightBounds, Numbers DEF YieldTypeInv, RunTypes, DropState, Times, IndexTypes, YieldTypeOK
  <2>2. drop.block \in 1..Height => drop.block \in 1..Height' /\ blocks'[drop.block] = blocks[drop.block]
    BY <1>1, <2>1 DEF Grown
  <2>3. drop.to <= Height => drop.to <= Height'
    BY <1>1, <2>1 DEF Grown
  <2> QED BY <1>2, <2>2, <2>3 DEF YieldTypeInv, DropTypes
<1> QED BY <1>1, <1>3, <1>4 DEF YieldTypeInv

LEMMA NextYieldTypes ==
    YieldTypeInv /\ [YieldNext]_<<yieldPartVars, faults, restarts>> => YieldTypeInv' /\ Grown
<1> SUFFICES ASSUME YieldTypeInv, [YieldNext]_<<yieldPartVars, faults, restarts>>
             PROVE  YieldTypeInv' /\ Grown
  OBVIOUS
<1>1. CASE UNCHANGED <<yieldPartVars, faults, restarts>>
  <2>1. UNCHANGED <<yieldVars, drop, airdrops, allocations, delivered, transfers, shares,
                    faults, restarts>>
    BY <1>1 DEF yieldPartVars, airdropVars
  <2>2. IndexTypes' /\ Grown /\ Height' = Height /\ blocks' = blocks
    BY <2>1, Untouched DEF yieldVars
  <2>3. RunTypes' /\ DropTypes'
    BY <2>1, <2>2 DEF YieldTypeInv, RunTypes, ProcessTypeOK, DropTypes
  <2> QED BY <2>2, <2>3 DEF YieldTypeInv
<1>2. CASE Airdrop
  BY <1>2, AirdropStepTypes
<1>3. CASE (YieldIndex \/ \E v \in Vaults : MineVault(v)) /\ UNCHANGED airdropVars
  BY <1>3, ChainStepTypes
<1> QED BY <1>1, <1>2, <1>3 DEF YieldNext

LEMMA InitYieldTypes == YieldInit /\ AirdropInit /\ ProcessInit => YieldTypeInv
<1> SUFFICES ASSUME YieldInit, AirdropInit, ProcessInit PROVE YieldTypeInv
  OBVIOUS
<1>1. Past \in Seq(Events) /\ Len(Past) \in Times /\ Lifecycle(Past)
  BY PastAssumption, Numbers DEF Times
<1>2. blocks = Past /\ Height = Len(Past) /\ Height \in Nat
  BY <1>1 DEF YieldInit, Height
<1>3. IndexTypes
  <2>1. /\ vaultRows = [v \in Vaults |-> None] /\ distributions = [b \in 1..MaxEvents |-> None]
        /\ indexed = 0 /\ watch = "off" /\ next = 0 /\ upto = 0 /\ pushed = <<>> /\ lost = {}
    BY DEF YieldInit
  <2>2. pushed \in Seq(1..Height)
    BY <2>1
  <2>3. 0 \in 0..Height /\ 0 \in 0..(Height + 1)
    BY <1>2
  <2>4. YieldTypeOK
    BY <1>1, <1>2, <2>1, <2>2, <2>3 DEF YieldTypeOK
  <2> QED BY <1>1, <1>2, <2>1, <2>4 DEF IndexTypes
<1>4. drop = Idle /\ 0 \in Times /\ {} \in SUBSET Vaults
  BY Numbers DEF AirdropInit, Times
<1>5. drop \in DropState
  BY <1>4 DEF Idle, DropState
<1>6. DropTypes
  BY <1>2, <1>4 DEF Idle, DropTypes
<1>7. RunTypes
  BY <1>5, Numbers, AirdropAssumption DEF AirdropInit, ProcessInit, ProcessTypeOK, RunTypes
<1> QED BY <1>3, <1>6, <1>7 DEF YieldTypeInv

\* The state of the yield indexer and of the airdrop is as declared: the cursor
\* and the blocks to fetch never pass the chain's head, and what is allocated of
\* a harvest is never negative.
THEOREM YieldTypeCorrect == YieldSpec => []AirdropTypeOK
<1>1. YieldTypeInv => AirdropTypeOK
  BY DEF YieldTypeInv, RunTypes, IndexTypes, AirdropTypeOK
<1> QED BY <1>1, InitYieldTypes, NextYieldTypes, PTL DEF YieldSpec
-----------------------------------------------------------------------------
(* No transfer is made twice. *)

Unpaid(b, some) == \A v \in some : transfers[b][v] = 0

PaidInv ==
    /\ PaidOnce
    /\ \A b \in Harvests : b > Height => Unpaid(b, Vaults)
    /\ drop.at \in {"insert", "allocate"} => Unpaid(drop.block, Vaults)
    /\ drop.at \in {"pay", "mark"} => Unpaid(drop.block, drop.pending)
    /\ drop.at = "mark" => transfers[drop.block][drop.payee] = 1

\* What of it holds whatever the run does, when nothing is paid or marked.
LEMMA NothingPaid ==
    ASSUME YieldTypeInv, PaidInv, YieldTypeInv', Grown, UNCHANGED <<transfers, delivered>>
    PROVE  PaidOnce' /\ \A b \in Harvests : b > Height' => Unpaid(b, Vaults)'
<1>1. \A b \in Harvests : b > Height' => b > Height
  <2>1. Height \in Nat /\ Height' \in Int
    BY HeightBounds, Numbers DEF YieldTypeInv, IndexTypes, YieldTypeOK, Times
  <2> QED BY <2>1 DEF Grown, Harvests
<1> QED BY <1>1 DEF PaidInv, PaidOnce, Unpaid

\* A transfer for a share that has none yet.
LEMMA FirstPayment ==
    ASSUME YieldTypeInv, PaidInv, NEW b \in 1..Height, b \in Harvests, NEW v \in Vaults,
           transfers[b][v] = 0, Sent(b, v)
    PROVE  /\ \A c \in Harvests : \A w \in Vaults :
                  transfers'[c][w] = IF c = b /\ w = v THEN 1 ELSE transfers[c][w]
           /\ \A c \in Harvests : \A w \in Vaults :
                  /\ transfers'[c][w] <= 1
                  /\ <<c, w>> \in delivered => transfers'[c][w] = 1
           /\ \A c \in Harvests : c > Height => \A w \in Vaults : transfers'[c][w] = 0
<1>1. transfers \in [Harvests -> [Vaults -> Nat]]
  BY DEF YieldTypeInv, RunTypes
<1>2. \A c \in Harvests : \A w \in Vaults :
          transfers'[c][w] = IF c = b /\ w = v THEN 1 ELSE transfers[c][w]
  BY <1>1 DEF Sent
<1>3. ASSUME NEW c \in Harvests, c > Height, NEW w \in Vaults PROVE transfers'[c][w] = 0
  <2>1. c # b
    BY <1>3, HeightBounds DEF Harvests
  <2> QED BY <1>2, <1>3, <2>1 DEF PaidInv, Unpaid
<1> QED BY <1>2, <1>3 DEF PaidInv, PaidOnce

LEMMA InitPaid == YieldInit /\ AirdropInit => PaidInv
BY DEF AirdropInit, Idle, PaidInv, PaidOnce, Unpaid

LEMMA PayPaid ==
    ASSUME YieldTypeInv, PaidInv, YieldTypeInv', NEW v \in Vaults, Pay(v)
    PROVE  PaidInv'
<1> DEFINE b == drop.block
<1>1. /\ drop \in DropState /\ drop.at = "pay" /\ b \in 1..Height /\ b \in Harvests
      /\ v \in drop.pending /\ Unpaid(b, drop.pending) /\ drop.pending \subseteq Vaults
  BY BlockAtHand DEF YieldTypeInv, RunTypes, PaidInv, Pay, DropState
<1>2. /\ Height' = Height /\ UNCHANGED delivered
  BY Untouched DEF Pay
<1>3. /\ drop'.block = b /\ drop'.pending = drop.pending \ {v}
      /\ drop'.at = "pay" \/ (drop'.at = "mark" /\ drop'.payee = v /\ Sent(b, v))
  BY <1>1 DEF Pay, DropState
<1>4. CASE Sent(b, v)
  <2>1. transfers[b][v] = 0
    BY <1>1 DEF Unpaid
  <2>2. /\ \A c \in Harvests : \A w \in Vaults :
              transfers'[c][w] = IF c = b /\ w = v THEN 1 ELSE transfers[c][w]
        /\ \A c \in Harvests : \A w \in Vaults :
              /\ transfers'[c][w] <= 1
              /\ <<c, w>> \in delivered => transfers'[c][w] = 1
        /\ \A c \in Harvests : c > Height => \A w \in Vaults : transfers'[c][w] = 0
    BY <1>1, <1>4, <2>1, FirstPayment
  <2>3. PaidOnce' /\ \A c \in Harvests : c > Height' => Unpaid(c, Vaults)'
    BY <1>2, <2>2 DEF PaidOnce, Unpaid
  <2>4. Unpaid(b, drop.pending \ {v})'
    BY <1>1, <1>3, <2>2 DEF Unpaid
  <2>5. transfers'[b][v] = 1
    BY <1>1, <2>2
  <2> QED BY <1>3, <2>3, <2>4, <2>5 DEF PaidInv, Unpaid
<1>5. CASE UNCHANGED transfers
  <2>1. PaidOnce' /\ \A c \in Harvests : c > Height' => Unpaid(c, Vaults)'
    BY <1>2, <1>5 DEF PaidInv, PaidOnce, Unpaid
  <2>2. CASE drop'.at = "pay"
    BY <1>1, <1>3, <1>5, <2>1, <2>2 DEF PaidInv, Unpaid
  <2>3. CASE Sent(b, v)
    BY <1>4, <2>3
  <2> QED BY <1>3, <2>2, <2>3
<1> QED BY <1>4, <1>5 DEF Pay

LEMMA MarkPaid ==
    ASSUME YieldTypeInv, PaidInv, YieldTypeInv', MarkDelivered
    PROVE  PaidInv'
<1>1. /\ drop \in DropState /\ drop.at = "mark" /\ drop.block \in Harvests
      /\ drop.payee \in Vaults /\ transfers[drop.block][drop.payee] = 1
      /\ Unpaid(drop.block, drop.pending)
  BY BlockAtHand DEF YieldTypeInv, RunTypes, DropTypes, PaidInv, MarkDelivered
<1>2. Height' = Height /\ UNCHANGED transfers
  BY Untouched DEF MarkDelivered
<1>3. delivered' = delivered \/ delivered' = delivered \union {<<drop.block, drop.payee>>}
  BY DEF MarkDelivered
<1>4. PaidOnce' /\ \A c \in Harvests : c > Height' => Unpaid(c, Vaults)'
  BY <1>1, <1>2, <1>3 DEF PaidInv, PaidOnce, Unpaid
<1>5. \/ drop'.at = "harvest"
      \/ drop'.at = "pay" /\ drop'.block = drop.block /\ drop'.pending = drop.pending
  BY <1>1 DEF MarkDelivered, AssetFails, NextAsset, DropState
<1> QED BY <1>1, <1>2, <1>4, <1>5 DEF PaidInv, Unpaid

LEMMA CrashPaid ==
    ASSUME YieldTypeInv, PaidInv, YieldTypeInv', AirdropCrash
    PROVE  PaidInv'
<1>1. Height' = Height /\ drop'.at = "idle" /\ UNCHANGED delivered
  BY Untouched DEF AirdropCrash, Idle
<1>2. PaidOnce' /\ \A c \in Harvests : c > Height' => Unpaid(c, Vaults)'
  <2>1. ASSUME drop.at = "pay", NEW v \in drop.pending, Sent(drop.block, v)
        PROVE  PaidOnce' /\ \A c \in Harvests : c > Height' => Unpaid(c, Vaults)'
    <3>1. /\ v \in Vaults /\ drop.block \in 1..Height /\ drop.block \in Harvests
          /\ transfers[drop.block][v] = 0
      BY <2>1, BlockAtHand DEF YieldTypeInv, RunTypes, DropState, PaidInv, Unpaid
    <3>2. /\ \A c \in Harvests : \A w \in Vaults :
                /\ transfers'[c][w] <= 1
                /\ <<c, w>> \in delivered => transfers'[c][w] = 1
          /\ \A c \in Harvests : c > Height => \A w \in Vaults : transfers'[c][w] = 0
      BY <2>1, <3>1, FirstPayment
    <3> QED BY <1>1, <3>2 DEF PaidOnce, Unpaid
  <2>2. CASE UNCHANGED transfers
    BY <1>1, <2>2 DEF PaidInv, PaidOnce, Unpaid
  <2> QED BY <2>1, <2>2 DEF AirdropCrash
<1> QED BY <1>1, <1>2 DEF PaidInv

\* The other steps of the airdrop pay nothing; a harvest's block has no transfers.
LEMMA OtherPaid ==
    ASSUME YieldTypeInv, PaidInv, YieldTypeInv', Grown,
           \/ StartAirdrop \/ (\E a \in YieldAssets : Harvest(a)) \/ InsertDistribution
           \/ Allocate \/ EndAsset \/ EndAirdrop
    PROVE  PaidInv'
<1>1. UNCHANGED <<transfers, delivered>>
  BY DEF StartAirdrop, Harvest, InsertDistribution, Allocate, EndAsset, EndAirdrop
<1>2. PaidOnce' /\ \A c \in Harvests : c > Height' => Unpaid(c, Vaults)'
  BY <1>1, NothingPaid
<1>3. drop \in DropState
  BY DEF YieldTypeInv, RunTypes
<1>4. CASE drop'.at \in {"idle", "harvest"}
  BY <1>2, <1>4 DEF PaidInv
<1>5. CASE StartAirdrop \/ EndAsset \/ EndAirdrop
  <2>1. drop'.at \in {"idle", "harvest"}
    <3>1. CASE StartAirdrop
      BY <3>1 DEF StartAirdrop, Idle
    <3>2. CASE EndAsset
      BY <1>3, <3>2 DEF EndAsset, NextAsset, DropState
    <3>3. CASE EndAirdrop
      BY <3>3 DEF EndAirdrop, Idle
    <3> QED BY <1>5, <3>1, <3>2, <3>3
  <2> QED BY <1>4, <2>1
<1>6. ASSUME NEW a \in YieldAssets, Harvest(a) PROVE PaidInv'
  <2>1. drop'.at = "harvest" \/ (drop'.at = "insert" /\ drop'.block = Height + 1)
    BY <1>3, <1>6 DEF Harvest, DropState
  <2>2. CASE drop'.at = "insert" /\ drop'.block = Height + 1
    <3>1. Height + 1 \in Harvests /\ Height + 1 > Height
      <4>1. DropTypes' /\ Height' \in 0..MaxEvents
        BY DEF YieldTypeInv, IndexTypes, YieldTypeOK, Times
      <4>2. Height + 1 \in 1..Height'
        BY <2>2, <4>1 DEF DropTypes
      <4> QED BY <4>1, <4>2, HeightBounds, Numbers DEF Harvests
    <3>2. Unpaid(Height + 1, Vaults)
      BY <3>1 DEF PaidInv
    <3> QED BY <1>1, <1>2, <2>2, <3>2 DEF PaidInv, Unpaid
  <2> QED BY <1>4, <2>1, <2>2
<1>7. CASE InsertDistribution
  <2>1. Unpaid(drop.block, Vaults)
    BY <1>7 DEF PaidInv, InsertDistribution
  <2>2. drop'.at = "harvest" \/ (drop'.at = "allocate" /\ drop'.block = drop.block)
    BY <1>3, <1>7 DEF InsertDistribution, AssetFails, NextAsset, DropState
  <2> QED BY <1>1, <1>2, <1>4, <2>1, <2>2 DEF PaidInv, Unpaid
<1>8. CASE Allocate
  <2>1. Unpaid(drop.block, Vaults)
    BY <1>8 DEF PaidInv, Allocate
  <2>2. \/ drop'.at = "harvest"
        \/ drop'.at = "pay" /\ drop'.block = drop.block
    BY <1>3, <1>8 DEF Allocate, AssetFails, NextAsset, DropState
  <2>3. drop'.pending \subseteq Vaults
    BY DEF YieldTypeInv, RunTypes, DropState
  <2> QED BY <1>1, <1>2, <1>4, <2>1, <2>2, <2>3 DEF PaidInv, Unpaid
<1> QED BY <1>5, <1>6, <1>7, <1>8

LEMMA NextPaid ==
    YieldTypeInv /\ PaidInv /\ [YieldNext]_<<yieldPartVars, faults, restarts>> => PaidInv'
<1> SUFFICES ASSUME YieldTypeInv, PaidInv, [YieldNext]_<<yieldPartVars, faults, restarts>>
             PROVE  PaidInv'
  OBVIOUS
<1>1. YieldTypeInv' /\ Grown
  BY NextYieldTypes
<1>2. CASE Airdrop
  BY <1>1, <1>2, PayPaid, MarkPaid, CrashPaid, OtherPaid DEF Airdrop
<1>3. CASE UNCHANGED airdropVars
  <2>1. UNCHANGED <<drop, transfers, delivered>>
    BY <1>3 DEF airdropVars
  <2>2. PaidOnce' /\ \A c \in Harvests : c > Height' => Unpaid(c, Vaults)'
    BY <1>1, <2>1, NothingPaid
  <2> QED BY <2>1, <2>2 DEF PaidInv, Unpaid
<1> QED BY <1>2, <1>3 DEF YieldNext, yieldPartVars

\* No transfer of a share is made twice, whatever call fails and wherever the
\* process stops; and what is marked as delivered was paid.
THEOREM SharesPaidOnce == YieldSpec => []PaidOnce
<1>1. PaidInv => PaidOnce
  BY DEF PaidInv
<1> QED BY <1>1, InitYieldTypes, NextYieldTypes, InitPaid, NextPaid, PTL DEF YieldSpec
-----------------------------------------------------------------------------
(* No stretch of time counts twice. *)

Shared(b) == shares[b] # None /\ shares[b].outcome = "shared"

\* Of the run under way: assets whose turn has not come, and the one at hand.
InTurn(a) == a \in drop.assets \/ (drop.block # 0 /\ shares[drop.block].asset = a)

\* The harvest at hand is the last, of the period of the run.
AtHand ==
    /\ shares[drop.block] # None
    /\ shares[drop.block].asset \notin drop.assets
    /\ shares[drop.block].from = drop.from /\ shares[drop.block].to = drop.to
    /\ shares[drop.block].amount = drop.amount
    /\ \A b \in Harvests : b > drop.block => shares[b] = None

\* A harvest is of a period before it.
HarvestsLater == \A b \in Harvests : shares[b] # None => shares[b].to < b /\ b <= Height

\* The periods that were shared, or are about to be, are recorded to their end.
PeriodsRecorded ==
    \A b \in Harvests : Shared(b) \/ (b = drop.block /\ drop.at = "allocate") =>
        distributions[b] # None /\ distributions[b].end >= shares[b].to

\* What is still to come in this run is after all that was shared of its asset.
TurnsLater ==
    \A b \in Harvests : Shared(b) /\ b # drop.block /\ InTurn(shares[b].asset) =>
        shares[b].to <= drop.from

PeriodInv ==
    /\ PeriodsDoNotOverlap
    /\ HarvestsLater
    /\ PeriodsRecorded
    /\ drop.block # 0 => AtHand
    /\ TurnsLater

LEMMA InitPeriods == YieldInit /\ AirdropInit => PeriodInv
BY DEF AirdropInit, Idle, PeriodInv, PeriodsDoNotOverlap, HarvestsLater, PeriodsRecorded, Shared,
       TurnsLater

\* What the state of a share has to do with the types.
LEMMA ShareTypes ==
    ASSUME YieldTypeInv, NEW b \in Harvests, shares[b] # None
    PROVE  /\ shares[b] \in Share /\ shares[b].to \in Int /\ shares[b].from \in Int
           /\ b \in Int /\ b # 0
<1>1. shares[b] \in Share
  BY DEF YieldTypeInv, RunTypes
<1> QED BY <1>1, Numbers DEF Share, Times, Harvests

\* Rows of distributions are only written over with a later period.
RowsOnlyLater ==
    \A b \in Harvests : distributions[b] # None =>
        \/ distributions'[b] = distributions[b]
        \/ distributions'[b] # None /\ distributions'[b].end = b

LEMMA SharesStay ==
    ASSUME YieldTypeInv, PeriodInv, YieldTypeInv', Grown, UNCHANGED shares, RowsOnlyLater
    PROVE  /\ PeriodsDoNotOverlap' /\ HarvestsLater'
           /\ \A b \in Harvests : Shared(b)' \/ (b = drop.block /\ drop.at = "allocate") =>
                  distributions'[b] # None /\ distributions'[b].end >= shares'[b].to
<1>1. Height \in Int /\ Height' \in Int /\ Height' >= Height
  BY HeightBounds, Numbers DEF YieldTypeInv, IndexTypes, YieldTypeOK, Times, Grown
<1>2. HarvestsLater'
  <2> SUFFICES ASSUME NEW b \in Harvests, shares[b] # None PROVE shares[b].to < b /\ b <= Height'
    BY DEF HarvestsLater
  <2> QED BY <1>1, ShareTypes DEF PeriodInv, HarvestsLater
<1>3. PeriodsDoNotOverlap'
  BY DEF PeriodInv, PeriodsDoNotOverlap
<1>4. ASSUME NEW b \in Harvests, Shared(b)' \/ (b = drop.block /\ drop.at = "allocate")
      PROVE  distributions'[b] # None /\ distributions'[b].end >= shares'[b].to
  <2>1. /\ distributions[b] # None /\ distributions[b].end >= shares[b].to
        /\ shares[b] # None /\ shares[b].to < b
    <3>1. shares[b] # None
      BY <1>4 DEF Shared, PeriodInv, AtHand, YieldTypeInv, DropTypes
    <3> QED BY <1>4, <3>1 DEF PeriodInv, PeriodsRecorded, HarvestsLater, Shared
  <2>2. shares[b].to \in Int /\ b \in Int
    BY <2>1, ShareTypes
  <2> QED BY <2>1, <2>2 DEF RowsOnlyLater
<1> QED BY <1>2, <1>3, <1>4

\* The run stays where it is, or leaves the harvest at hand.
RunGoesOn ==
    \/ /\ drop'.block = 0 /\ drop'.assets \subseteq drop.assets
       /\ drop'.from = drop.from \/ drop'.assets = {}
    \/ /\ drop'.block = drop.block /\ drop'.assets = drop.assets
       /\ drop'.from = drop.from /\ drop'.to = drop.to /\ drop'.amount = drop.amount

LEMMA RunGoingOn ==
    ASSUME PeriodInv, RunGoesOn, UNCHANGED shares
    PROVE  (drop'.block # 0 => AtHand') /\ TurnsLater'
<1>1. CASE /\ drop'.block = 0 /\ drop'.assets \subseteq drop.assets
           /\ drop'.from = drop.from \/ drop'.assets = {}
  <2>1. ASSUME NEW b \in Harvests, Shared(b), shares[b].asset \in drop'.assets
        PROVE  shares[b].to <= drop'.from
    <3>1. drop'.from = drop.from /\ shares[b].asset \in drop.assets
      BY <1>1, <2>1
    <3>2. b # drop.block
      <4>1. CASE drop.block = 0
        BY <4>1 DEF Harvests
      <4>2. CASE drop.block # 0
        BY <3>1, <4>2 DEF PeriodInv, AtHand
      <4> QED BY <4>1, <4>2
    <3> QED BY <2>1, <3>1, <3>2 DEF PeriodInv, TurnsLater, InTurn
  <2> QED BY <1>1, <2>1 DEF TurnsLater, InTurn, Shared
<1>2. CASE /\ drop'.block = drop.block /\ drop'.assets = drop.assets
           /\ drop'.from = drop.from /\ drop'.to = drop.to /\ drop'.amount = drop.amount
  BY <1>2 DEF PeriodInv, AtHand, TurnsLater, InTurn, Shared
<1> QED BY <1>1, <1>2 DEF RunGoesOn

\* A step after which the shares are as they were.
LEMMA PeriodsStay ==
    ASSUME YieldTypeInv /\ PeriodInv, YieldTypeInv' /\ Grown, UNCHANGED shares, RowsOnlyLater,
           RunGoesOn /\ (drop'.at = "allocate" => drop.at = "allocate" /\ drop'.block = drop.block)
    PROVE  PeriodInv'
<1>1. /\ PeriodsDoNotOverlap' /\ HarvestsLater'
      /\ \A b \in Harvests : Shared(b)' \/ (b = drop.block /\ drop.at = "allocate") =>
             distributions'[b] # None /\ distributions'[b].end >= shares'[b].to
  BY SharesStay
<1>2. (drop'.block # 0 => AtHand') /\ TurnsLater'
  BY RunGoingOn
<1>3. PeriodsRecorded'
  BY <1>1 DEF PeriodsRecorded, Shared
<1> QED BY <1>1, <1>2, <1>3 DEF PeriodInv

LEMMA HarvestedRow ==
    ASSUME YieldTypeInv, NEW b \in 1..Height, blocks[b][1] = "harvested"
    PROVE  Harvested(b) # None /\ Harvested(b).end = b
<1>1. blocks[b] \in Events
  BY DEF YieldTypeInv, IndexTypes, YieldTypeOK, Height
<1>2. blocks[b][2] \in YieldAssets /\ b \in Times
  BY <1>1, HeightBounds, Numbers DEF Events, Times
<1>3. Harvested(b) \in Distribution
  BY <1>2 DEF Harvested, Distribution
<1> QED BY <1>3, YieldRowAssumption DEF Harvested

LEMMA RecordedRows ==
    ASSUME YieldTypeInv, NEW logs \in SUBSET (1..Height), RecordLogs(logs)
    PROVE  RowsOnlyLater
<1> SUFFICES ASSUME NEW b \in Harvests
             PROVE  \/ distributions'[b] = distributions[b]
                    \/ distributions'[b] # None /\ distributions'[b].end = b
  BY DEF RowsOnlyLater
<1>1. CASE b \in logs /\ blocks[b][1] = "harvested"
  <2>1. distributions'[b] = Harvested(b)
    BY <1>1 DEF RecordLogs, Harvests
  <2> QED BY <1>1, <2>1, HarvestedRow
<1>2. CASE ~(b \in logs /\ blocks[b][1] = "harvested")
  BY <1>2 DEF RecordLogs, Harvests
<1> QED BY <1>1, <1>2

LEMMA ChainRows ==
    ASSUME YieldTypeInv, YieldIndex \/ \E v \in Vaults : MineVault(v)
    PROVE  RowsOnlyLater
<1>1. ASSUME NEW logs \in SUBSET (1..Height), ProcessAll(logs) PROVE RowsOnlyLater
  <2>1. PICK failed \in SUBSET logs : RecordLogs(logs \ failed)
    BY <1>1 DEF ProcessAll
  <2>2. logs \ failed \in SUBSET (1..Height)
    OBVIOUS
  <2> QED BY <2>1, <2>2, RecordedRows
<1>2. UNCHANGED distributions => RowsOnlyLater
  BY DEF RowsOnlyLater
<1>3. /\ Height \in Nat /\ upto \in 0..Height /\ next \in 0..(Height + 1)
      /\ (watch = "catchup" => next >= 1) /\ pushed \in Seq(1..Height) /\ ConfirmedHead <= Height
  BY HeightBounds, Numbers DEF YieldTypeInv, IndexTypes, YieldTypeOK, ConfirmedHead
<1>4. CASE CatchUp
  <2> DEFINE end == IF next + YieldRange - 1 < upto THEN next + YieldRange - 1 ELSE upto
  <2>1. end <= Height /\ next >= 1 /\ ProcessAll(next..end)
    BY <1>3, <1>4, Numbers DEF CatchUp
  <2>2. end \in Int
    BY <1>3, Numbers
  <2> HIDE DEF end
  <2>3. next..end \in SUBSET (1..Height)
    BY <1>3, <2>1, <2>2
  <2> QED BY <1>1, <2>1, <2>3
<1>5. CASE TakePushed
  <2>1. {Head(pushed)} \in SUBSET (1..Height)
    BY <1>3, <1>5, RangeOfSeq DEF TakePushed
  <2> QED BY <1>1, <1>5, <2>1 DEF TakePushed
<1>6. CASE PollYield
  <2>1. ConfirmedHead \in Int
    BY <1>3, Numbers DEF ConfirmedHead
  <2>2. (upto + 1)..ConfirmedHead \in SUBSET (1..Height)
    BY <1>3, <2>1
  <2> QED BY <1>1, <1>6, <2>2 DEF PollYield
<1>7. CASE YieldStart \/ YieldRunRaises \/ Subscribe \/ Disconnect \/ Reconnect \/ YieldIndexerCrash
  BY <1>2, <1>7 DEF YieldStart, YieldRunRaises, Subscribe, Disconnect, Reconnect, YieldIndexerCrash
<1>8. ASSUME NEW v \in Vaults, MineVault(v) PROVE RowsOnlyLater
  BY <1>2, <1>8 DEF MineVault, Mine
<1> QED BY <1>4, <1>5, <1>6, <1>7, <1>8 DEF YieldIndex

LEMMA StartPeriods ==
    ASSUME YieldTypeInv, PeriodInv, YieldTypeInv', Grown, StartAirdrop
    PROVE  PeriodInv'
<1>1. /\ drop'.at = "harvest" /\ drop'.block = 0 /\ drop'.from = PeriodStart
      /\ UNCHANGED <<shares, yieldVars>>
  BY DEF StartAirdrop, Idle
<1>2. UNCHANGED distributions /\ RowsOnlyLater
  BY <1>1 DEF yieldVars, RowsOnlyLater
<1>3. /\ PeriodsDoNotOverlap' /\ HarvestsLater'
      /\ \A b \in Harvests : Shared(b)' \/ (b = drop.block /\ drop.at = "allocate") =>
             distributions'[b] # None /\ distributions'[b].end >= shares'[b].to
  BY <1>1, <1>2, SharesStay
<1>4. PeriodsRecorded'
  BY <1>1, <1>3 DEF PeriodsRecorded, Shared
<1>5. ASSUME NEW b \in Harvests, Shared(b) PROVE shares[b].to <= PeriodStart
  <2>1. /\ distributions[b] # None /\ distributions[b].end >= shares[b].to
    BY <1>5 DEF PeriodInv, PeriodsRecorded
  <2>2. distributions[b].end <= PeriodStart /\ PeriodStart \in Times
    BY <2>1, PeriodStartBounds
  <2>3. shares[b].to \in Int
    BY <1>5, ShareTypes DEF Shared
  <2>4. distributions[b].end \in Int
    BY <2>1, Numbers DEF YieldTypeInv, IndexTypes, YieldTypeOK, Distribution, Harvests, Times
  <2> QED BY <2>1, <2>2, <2>3, <2>4, Numbers DEF Times
<1>6. TurnsLater'
  BY <1>1, <1>5 DEF TurnsLater, Shared
<1> QED BY <1>1, <1>3, <1>4, <1>6 DEF PeriodInv

\* A harvest that is mined is the last, and of the asset whose turn it is.
LEMMA MinedPeriods ==
    ASSUME YieldTypeInv /\ PeriodInv, YieldTypeInv' /\ Grown, NEW a \in YieldAssets,
           Harvest(a) /\ drop'.at = "insert"
    PROVE  PeriodInv'
<1> DEFINE b == Height + 1
<1>1. drop \in DropState /\ drop.at = "harvest" /\ a \in drop.assets /\ drop.block = 0
  BY DEF YieldTypeInv, RunTypes, DropTypes, Harvest
<1>2. PICK total \in Yields :
        /\ Mine(<<"harvested", a>>)
        /\ drop' = [drop EXCEPT !.at = "insert", !.assets = @ \ {a}, !.block = b,
                                !.amount = Distributable(total)]
        /\ shares' = [shares EXCEPT ![b] =
                              [outcome |-> "open", amount |-> Distributable(total),
                               asset |-> a, from |-> drop.from, to |-> drop.to]]
  BY <1>1 DEF Harvest, DropState
<1>3. /\ drop'.block = b /\ drop'.assets = drop.assets \ {a} /\ drop'.from = drop.from
      /\ drop'.to = drop.to /\ drop'.amount = Distributable(total) /\ drop'.at = "insert"
  BY <1>1, <1>2 DEF DropState
<1>4. Height \in Nat /\ Height' = b /\ b \in Harvests /\ UNCHANGED distributions
  <2>1. Height \in Nat /\ Height < MaxEvents /\ UNCHANGED distributions
    BY <1>2, HeightBounds DEF Mine
  <2>2. Legal(<<"harvested", a>>)
    BY DEF Legal, Events
  <2> QED BY <1>2, <2>1, <2>2, MineTypes, Numbers DEF Harvests
<1>5. /\ shares'[b].outcome = "open" /\ shares'[b].amount = Distributable(total)
      /\ shares'[b].asset = a /\ shares'[b].from = drop.from /\ shares'[b].to = drop.to
      /\ \A c \in Harvests : c # b => shares'[c] = shares[c]
  BY <1>2, <1>4 DEF YieldTypeInv, RunTypes
<1>6. shares'[b] # None
  BY <1>3, <1>4 DEF YieldTypeInv, DropTypes
<1>7. \A c \in Harvests : Shared(c)' <=> c # b /\ Shared(c)
  <2>1. \A c \in Harvests : c = b => ~Shared(c)'
    BY <1>5 DEF Shared
  <2>2. ~Shared(b)
    BY <1>4 DEF Shared, PeriodInv, HarvestsLater
  <2> QED BY <1>5, <2>1, <2>2 DEF Shared
<1> HIDE DEF b
<1>8. PeriodsDoNotOverlap'
  BY <1>5, <1>7 DEF PeriodInv, PeriodsDoNotOverlap, Shared
<1>9. HarvestsLater'
  <2>1. drop.to < b
    <3>1. drop.to \in Int /\ drop.to <= Height
      BY <1>1, Numbers DEF YieldTypeInv, DropTypes, DropState, Times
    <3> QED BY <1>4, <3>1 DEF b
  <2>2. \A c \in Harvests : c <= Height => c <= Height'
    BY <1>4 DEF b, Harvests
  <2> QED BY <1>4, <1>5, <2>1, <2>2 DEF PeriodInv, HarvestsLater, b
<1>10. PeriodsRecorded'
  BY <1>3, <1>4, <1>5, <1>7 DEF PeriodInv, PeriodsRecorded, Shared
<1>11. AtHand'
  <2>1. ASSUME NEW c \in Harvests, c > b PROVE shares'[c] = None
    BY <1>4, <1>5, <2>1 DEF PeriodInv, HarvestsLater, Harvests, b
  <2> QED BY <1>3, <1>5, <1>6, <2>1 DEF AtHand
<1>12. TurnsLater'
  BY <1>1, <1>3, <1>5, <1>7 DEF PeriodInv, TurnsLater, InTurn, Harvests
<1> QED BY <1>8, <1>9, <1>10, <1>11, <1>12 DEF PeriodInv

LEMMA HarvestPeriods ==
    ASSUME YieldTypeInv /\ PeriodInv, YieldTypeInv' /\ Grown, NEW a \in YieldAssets, Harvest(a)
    PROVE  PeriodInv'
<1>1. CASE drop'.at = "insert"
  BY <1>1, MinedPeriods
<1>2. CASE drop'.at # "insert"
  <2>1. drop \in DropState /\ drop.at = "harvest"
    BY DEF YieldTypeInv, RunTypes, Harvest
  <2>2. drop' = [drop EXCEPT !.assets = @ \ {a}] /\ UNCHANGED shares
    BY <1>2, <2>1 DEF Harvest, DropState
  <2>3. UNCHANGED distributions
    BY DEF Harvest, Mine, yieldVars
  <2>4. RunGoesOn /\ drop'.at = "harvest"
    <3>1. /\ drop'.at = "harvest" /\ drop'.block = drop.block /\ drop'.assets = drop.assets \ {a}
          /\ drop'.from = drop.from
      BY <2>1, <2>2 DEF DropState
    <3>2. drop.block = 0
      BY <2>1 DEF YieldTypeInv, DropTypes
    <3> QED BY <3>1, <3>2 DEF RunGoesOn
  <2>5. RowsOnlyLater
    BY <2>3 DEF RowsOnlyLater
  <2> QED BY <2>2, <2>4, <2>5, PeriodsStay
<1> QED BY <1>1, <1>2

\* One outcome changes, and not to "shared".
LEMMA OtherOutcome ==
    ASSUME YieldTypeInv /\ PeriodInv, YieldTypeInv' /\ Grown, RowsOnlyLater,
           drop' = NextAsset /\ drop.block # 0,
           \E o \in {"raced", "nobody"} : shares' = [shares EXCEPT ![drop.block].outcome = o]
    PROVE  PeriodInv'
<1> DEFINE b == drop.block
<1>1. drop \in DropState /\ shares \in [Harvests -> Share \union {None}]
  BY DEF YieldTypeInv, RunTypes
<1>2. /\ drop'.at = "harvest" /\ drop'.block = 0 /\ drop'.assets = drop.assets
      /\ drop'.from = drop.from
  BY <1>1 DEF NextAsset, DropState
<1>3. AtHand /\ shares[b] # None
  BY DEF PeriodInv, AtHand
<1>4. \A c \in Harvests :
        /\ Shared(c)' => Shared(c) /\ c # b
        /\ c # b => shares'[c] = shares[c]
        /\ shares'[c] # None => shares[c] # None
        /\ shares'[c] # None => shares'[c].to = shares[c].to
  <2>1. PICK o \in {"raced", "nobody"} : shares' = [shares EXCEPT ![b].outcome = o]
    OBVIOUS
  <2>2. ASSUME b \in Harvests
        PROVE /\ shares'[b].outcome = o /\ shares'[b].to = shares[b].to
    BY <1>1, <1>3, <2>1, <2>2 DEF Share
  <2>3. \A c \in Harvests : c # b => shares'[c] = shares[c]
    BY <1>1, <2>1
  <2> QED BY <1>3, <2>2, <2>3 DEF Shared
<1>5. PeriodsDoNotOverlap'
  BY <1>4 DEF PeriodInv, PeriodsDoNotOverlap, Shared
<1>6. Height \in Int /\ Height' \in Int /\ Height' >= Height
  BY HeightBounds, Numbers DEF YieldTypeInv, IndexTypes, YieldTypeOK, Times, Grown
<1>7. HarvestsLater'
  <2> SUFFICES ASSUME NEW c \in Harvests, shares'[c] # None
               PROVE  shares'[c].to < c /\ c <= Height'
    BY DEF HarvestsLater
  <2>1. shares[c] # None /\ shares'[c].to = shares[c].to
    BY <1>4
  <2>2. shares[c].to < c /\ c <= Height
    BY <2>1 DEF PeriodInv, HarvestsLater
  <2> QED BY <1>6, <2>1, <2>2, ShareTypes
<1>8. PeriodsRecorded'
  <2> SUFFICES ASSUME NEW c \in Harvests, Shared(c)'
               PROVE  distributions'[c] # None /\ distributions'[c].end >= shares'[c].to
    BY <1>2 DEF PeriodsRecorded
  <2>1. /\ Shared(c) /\ distributions[c] # None /\ distributions[c].end >= shares[c].to
        /\ shares'[c] = shares[c] /\ shares[c].to < c
    BY <1>4 DEF PeriodInv, PeriodsRecorded, HarvestsLater, Shared
  <2>2. shares[c].to \in Int /\ c \in Int
    BY <2>1, ShareTypes DEF Shared
  <2> QED BY <2>1, <2>2 DEF RowsOnlyLater
<1>9. TurnsLater'
  <2>1. \A c \in Harvests : Shared(c)' => Shared(c) /\ c # b /\ shares'[c] = shares[c]
    BY <1>4 DEF Shared
  <2> QED BY <1>2, <2>1 DEF PeriodInv, TurnsLater, InTurn
<1> QED BY <1>2, <1>5, <1>7, <1>8, <1>9 DEF PeriodInv

LEMMA InsertPeriods ==
    ASSUME YieldTypeInv /\ PeriodInv, YieldTypeInv' /\ Grown, InsertDistribution
    PROVE  PeriodInv'
<1> DEFINE b == drop.block
<1>1. /\ drop \in DropState /\ b \in Harvests /\ b # 0 /\ AtHand
      /\ distributions \in [Harvests -> Distribution \union {None}]
  BY BlockAtHand DEF YieldTypeInv, RunTypes, IndexTypes, YieldTypeOK, InsertDistribution, PeriodInv,
                     Harvests
<1>2. RowsOnlyLater
  BY <1>1 DEF InsertDistribution, RowsOnlyLater
<1>3. CASE /\ distributions[b] = None /\ drop' = [drop EXCEPT !.at = "allocate"]
           /\ distributions' = [distributions EXCEPT ![b] =
                [asset |-> blocks[b][2], start |-> drop.from, end |-> drop.to]]
           /\ UNCHANGED shares
  <2>1. /\ PeriodsDoNotOverlap' /\ HarvestsLater'
        /\ \A c \in Harvests : Shared(c)' =>
               distributions'[c] # None /\ distributions'[c].end >= shares'[c].to
    BY <1>2, <1>3, SharesStay
  <2>2. RunGoesOn
    BY <1>1, <1>3 DEF RunGoesOn, DropState
  <2>3. (drop'.block # 0 => AtHand') /\ TurnsLater'
    BY <1>3, <2>2, RunGoingOn
  <2>4. drop'.block = b
    BY <1>1, <1>3 DEF DropState
  <2>5. distributions'[b] # None /\ distributions'[b].end >= shares'[b].to
    <3>1. distributions'[b] \in Distribution /\ distributions'[b].end = drop.to
      <4>1. blocks[b][2] \in YieldAssets
        BY BlockAtHand DEF InsertDistribution
      <4>2. [asset |-> blocks[b][2], start |-> drop.from, end |-> drop.to] \in Distribution
        BY <1>1, <4>1 DEF Distribution, DropState
      <4> QED BY <1>1, <1>3, <4>2
    <3>2. shares'[b].to = drop.to /\ drop.to \in Int
      BY <1>1, <1>3, Numbers DEF AtHand, DropState, Times
    <3> QED BY <3>1, <3>2, YieldRowAssumption
  <2>6. PeriodsRecorded'
    BY <2>1, <2>4, <2>5 DEF PeriodsRecorded
  <2> QED BY <2>1, <2>3, <2>6 DEF PeriodInv
<1>4. CASE shares' = [shares EXCEPT ![b].outcome = "raced"] /\ drop' = NextAsset
  BY <1>1, <1>2, <1>4, OtherOutcome
<1>5. CASE AssetFails /\ UNCHANGED shares
  <2>1. RunGoesOn /\ drop'.at = "harvest"
    BY <1>1, <1>5 DEF RunGoesOn, AssetFails, NextAsset, DropState
  <2> QED BY <1>2, <1>5, <2>1, PeriodsStay
<1> QED BY <1>3, <1>4, <1>5 DEF InsertDistribution

LEMMA AllocatePeriods ==
    ASSUME YieldTypeInv /\ PeriodInv, YieldTypeInv' /\ Grown, Allocate
    PROVE  PeriodInv'
<1> DEFINE b == drop.block
<1>1. /\ drop \in DropState /\ b \in Harvests /\ b # 0 /\ AtHand /\ drop.at = "allocate"
      /\ shares \in [Harvests -> Share \union {None}]
  BY BlockAtHand DEF YieldTypeInv, RunTypes, Allocate, PeriodInv
<1>2. UNCHANGED distributions /\ RowsOnlyLater
  BY DEF Allocate, yieldVars, RowsOnlyLater
<1>3. CASE /\ drop'.at = "pay" /\ shares' = [shares EXCEPT ![b].outcome = "shared"]
           /\ \E p : drop' = [drop EXCEPT !.at = "pay", !.pending = p]
  <2>1. /\ drop'.block = b /\ drop'.assets = drop.assets /\ drop'.from = drop.from
        /\ drop'.to = drop.to /\ drop'.amount = drop.amount
    BY <1>1, <1>3 DEF DropState
  <2>2. /\ shares'[b] # None
        /\ shares'[b].asset = shares[b].asset /\ shares'[b].from = shares[b].from
        /\ shares'[b].to = shares[b].to /\ shares'[b].amount = shares[b].amount
        /\ \A c \in Harvests : c # b => shares'[c] = shares[c]
    <3>1. shares[b] \in Share
      BY <1>1 DEF AtHand
    <3>2. shares'[b] = [shares[b] EXCEPT !.outcome = "shared"]
      BY <1>1, <1>3
    <3>3. shares'[b] \in Share
      BY <3>1, <3>2 DEF Share
    <3> QED BY <1>1, <1>3, <3>1, <3>2, <3>3, NoShareAssumption DEF Share
  <2>3. \A c \in Harvests : c # b => (Shared(c)' <=> Shared(c))
    BY <2>2 DEF Shared
  <2> HIDE DEF b
  <2>4. Height \in Int /\ Height' \in Int /\ Height' >= Height
    BY HeightBounds, Numbers DEF YieldTypeInv, IndexTypes, YieldTypeOK, Times, Grown
  <2>5. HarvestsLater'
    <3> SUFFICES ASSUME NEW c \in Harvests, shares'[c] # None
                 PROVE  shares'[c].to < c /\ c <= Height'
      BY DEF HarvestsLater
    <3>1. shares[c] # None /\ shares'[c].to = shares[c].to
      BY <1>1, <2>2 DEF AtHand, b
    <3>2. shares[c].to < c /\ c <= Height
      BY <3>1 DEF PeriodInv, HarvestsLater
    <3> QED BY <2>4, <3>1, <3>2, ShareTypes
  <2>6. AtHand'
    BY <1>1, <2>1, <2>2 DEF AtHand, b, Harvests
  <2>7. PeriodsRecorded'
    BY <1>1, <1>2, <1>3, <2>2, <2>3 DEF PeriodInv, PeriodsRecorded, b
  <2>8. TurnsLater'
    BY <2>1, <2>2, <2>3 DEF PeriodInv, TurnsLater, InTurn, b
  <2>9. PeriodsDoNotOverlap'
    <3> SUFFICES ASSUME NEW c \in Harvests, NEW d \in Harvests, c < d, Shared(c)', Shared(d)',
                        shares'[c].asset = shares'[d].asset
                 PROVE  shares'[c].to <= shares'[d].from
      BY DEF PeriodsDoNotOverlap, Shared
    <3>1. CASE d = b
      <4>1. c # b /\ Shared(c) /\ shares'[c] = shares[c] /\ shares[c].asset = shares[b].asset
        BY <2>2, <2>3, <3>1 DEF Harvests
      <4>2. shares[c].to <= drop.from
        BY <1>1, <4>1 DEF PeriodInv, TurnsLater, InTurn, b
      <4>3. shares[b].from = drop.from
        BY <1>1 DEF AtHand, b
      <4> QED BY <2>2, <3>1, <4>1, <4>2, <4>3
    <3>2. CASE c = b
      <4>1. d > b /\ shares'[d] = shares[d] /\ shares'[d] # None
        BY <2>2, <3>2 DEF Shared, Harvests
      <4>2. shares[d] = None
        BY <1>1, <4>1 DEF AtHand, b
      <4> QED BY <4>1, <4>2
    <3>3. CASE c # b /\ d # b
      BY <2>2, <3>3 DEF PeriodInv, PeriodsDoNotOverlap, Shared
    <3> QED BY <3>1, <3>2, <3>3
  <2> QED BY <2>5, <2>6, <2>7, <2>8, <2>9 DEF PeriodInv
<1>4. CASE shares' = [shares EXCEPT ![b].outcome = "nobody"] /\ drop' = NextAsset
  BY <1>1, <1>2, <1>4, OtherOutcome
<1>5. CASE AssetFails /\ UNCHANGED shares
  <2>1. RunGoesOn /\ drop'.at = "harvest"
    BY <1>1, <1>5 DEF RunGoesOn, AssetFails, NextAsset, DropState
  <2> QED BY <1>2, <1>5, <2>1, PeriodsStay
<1>6. \A p : drop' = [drop EXCEPT !.at = "pay", !.pending = p] => drop'.at = "pay"
  BY <1>1 DEF DropState
<1> QED BY <1>3, <1>4, <1>5, <1>6 DEF Allocate

\* The steps that pay, mark and end.
LEMMA PayingPeriods ==
    ASSUME YieldTypeInv /\ PeriodInv, YieldTypeInv' /\ Grown,
           \/ (\E v \in Vaults : Pay(v)) \/ MarkDelivered \/ EndAsset \/ EndAirdrop \/ AirdropCrash
    PROVE  PeriodInv'
<1>1. drop \in DropState
  BY DEF YieldTypeInv, RunTypes
<1>2. UNCHANGED <<shares, distributions>> /\ RowsOnlyLater
  BY DEF Pay, MarkDelivered, EndAsset, EndAirdrop, AirdropCrash, yieldVars, RowsOnlyLater
<1>3. RunGoesOn /\ drop'.at # "allocate"
  <2>1. ASSUME NEW v \in Vaults, Pay(v) PROVE RunGoesOn /\ drop'.at # "allocate"
    BY <1>1, <2>1 DEF RunGoesOn, Pay, DropState
  <2>2. CASE MarkDelivered
    BY <1>1, <2>2 DEF RunGoesOn, MarkDelivered, AssetFails, NextAsset, DropState
  <2>3. CASE EndAsset
    BY <1>1, <2>3 DEF RunGoesOn, EndAsset, NextAsset, DropState
  <2>4. CASE EndAirdrop \/ AirdropCrash
    BY <1>1, <2>4 DEF RunGoesOn, EndAirdrop, AirdropCrash, Idle, DropState
  <2> QED BY <2>1, <2>2, <2>3, <2>4
<1> QED BY <1>2, <1>3, PeriodsStay

LEMMA NextPeriods ==
    YieldTypeInv /\ PeriodInv /\ [YieldNext]_<<yieldPartVars, faults, restarts>> => PeriodInv'
<1> SUFFICES ASSUME YieldTypeInv, PeriodInv, [YieldNext]_<<yieldPartVars, faults, restarts>>
             PROVE  PeriodInv'
  OBVIOUS
<1>1. YieldTypeInv' /\ Grown
  BY NextYieldTypes
<1>2. CASE Airdrop
  BY <1>1, <1>2, StartPeriods, HarvestPeriods, InsertPeriods, AllocatePeriods, PayingPeriods
     DEF Airdrop
<1>3. CASE UNCHANGED airdropVars /\ RowsOnlyLater
  <2>1. UNCHANGED <<drop, shares>> /\ RunGoesOn
    BY <1>3 DEF airdropVars, RunGoesOn
  <2> QED BY <1>1, <1>3, <2>1, PeriodsStay
<1>4. CASE UNCHANGED <<yieldPartVars, faults, restarts>>
  <2>1. UNCHANGED airdropVars /\ RowsOnlyLater
    BY <1>4 DEF yieldPartVars, yieldVars, RowsOnlyLater
  <2> QED BY <1>3, <2>1
<1>5. CASE (YieldIndex \/ \E v \in Vaults : MineVault(v)) /\ UNCHANGED airdropVars
  BY <1>3, <1>5, ChainRows
<1> QED BY <1>2, <1>4, <1>5 DEF YieldNext

\* The yield of no stretch of time is shared twice: of the harvests of an asset
\* that were shared, each is of a period after those before it, although runs
\* fail half-way and the indexer writes over the periods they recorded.
THEOREM PeriodsApart == YieldSpec => []PeriodsDoNotOverlap
<1>1. PeriodInv => PeriodsDoNotOverlap
  BY DEF PeriodInv
<1> QED BY <1>1, InitYieldTypes, NextYieldTypes, InitPeriods, NextPeriods, PTL DEF YieldSpec
-----------------------------------------------------------------------------
(* What is shared of a harvest adds up. *)

ShareInv ==
    /\ HarvestsShared
    /\ drop.at \in {"insert", "allocate"} => shares[drop.block].outcome = "open"
    /\ drop.at \in {"pay", "mark"} => shares[drop.block].outcome = "shared"

NothingFailed == faults = 0 /\ restarts = 0

LEMMA InitShares == YieldInit /\ AirdropInit => ShareInv
BY DEF AirdropInit, Idle, ShareInv, HarvestsShared

\* Once there is a failure there is always one.
LEMMA FailuresStay ==
    ASSUME YieldTypeInv, YieldTypeInv'
    PROVE  /\ NoFault \/ UNCHANGED faults => (faults' = 0 => faults = 0)
           /\ Fault => ~(faults' = 0)
           /\ Restart => ~(restarts' = 0)
<1>1. faults \in Nat /\ restarts \in Nat
  BY Numbers DEF YieldTypeInv, RunTypes, ProcessTypeOK
<1> QED BY <1>1 DEF NoFault, Fault, Restart

\* The shares and allocations stay, and the harvest at hand is not left open
\* unless something failed.
LEMMA OutcomesStay ==
    ASSUME YieldTypeInv /\ ShareInv, UNCHANGED <<shares, allocations>>,
           NothingFailed' =>
               /\ NothingFailed
               /\ drop'.block = drop.block \/ drop.at \in {"idle", "harvest", "pay", "mark"}
    PROVE  HarvestsShared'
<1>1. ASSUME NEW b \in Harvests, shares[b] # None, shares[b].outcome = "open", NothingFailed'
      PROVE  drop'.block = b
  <2>1. drop.block = b
    BY <1>1 DEF ShareInv, HarvestsShared, NothingFailed
  <2>2. drop.at \notin {"idle", "harvest", "pay", "mark"}
    <3>1. b # 0
      BY <1>1, ShareTypes
    <3> QED BY <1>1, <2>1, <3>1 DEF ShareInv, YieldTypeInv, DropTypes
  <2> QED BY <1>1, <2>1, <2>2
<1> QED BY <1>1 DEF ShareInv, HarvestsShared, NothingFailed

LEMMA HarvestShares ==
    ASSUME YieldTypeInv /\ ShareInv, YieldTypeInv', NEW a \in YieldAssets, Harvest(a)
    PROVE  ShareInv'
<1>1. drop \in DropState /\ drop.at = "harvest" /\ drop.block = 0 /\ UNCHANGED <<allocations, restarts>>
  BY DEF YieldTypeInv, RunTypes, DropTypes, Harvest
<1>2. CASE drop' = [drop EXCEPT !.assets = @ \ {a}] /\ UNCHANGED shares
  <2>1. drop'.at = "harvest" /\ drop'.block = drop.block
    BY <1>1, <1>2 DEF DropState
  <2>2. NothingFailed' => NothingFailed
    BY <1>1, FailuresStay DEF NothingFailed, Harvest
  <2>3. HarvestsShared'
    BY <1>1, <1>2, <2>1, <2>2, OutcomesStay
  <2> QED BY <2>1, <2>3 DEF ShareInv
<1>3. ASSUME NEW total \in Yields, NoFault, Mine(<<"harvested", a>>),
             drop' = [drop EXCEPT !.at = "insert", !.assets = @ \ {a}, !.block = Height + 1,
                                  !.amount = Distributable(total)],
             shares' = [shares EXCEPT ![Height + 1] =
                              [outcome |-> "open", amount |-> Distributable(total),
                               asset |-> a, from |-> drop.from, to |-> drop.to]]
      PROVE  ShareInv'
  <2>1. drop'.at = "insert" /\ drop'.block = Height + 1
    BY <1>1, <1>3 DEF DropState
  <2>2. Height + 1 \in Harvests
    BY <1>3, HeightBounds, Numbers DEF Mine, Harvests
  <2>3. /\ shares'[Height + 1].outcome = "open"
        /\ \A b \in Harvests : b # Height + 1 => shares'[b] = shares[b]
    BY <1>3, <2>2 DEF YieldTypeInv, RunTypes
  <2>4. ASSUME NEW b \in Harvests, shares'[b] # None
        PROVE  /\ shares'[b].outcome = "shared" => SumFunction(allocations'[b]) = shares'[b].amount
               /\ (shares'[b].outcome = "open" /\ faults' = 0 /\ restarts' = 0) => drop'.block = b
    <3>1. CASE b = Height + 1
      BY <2>1, <2>3, <3>1
    <3>2. CASE b # Height + 1
      <4>1. shares[b] # None /\ shares'[b] = shares[b]
        BY <2>3, <2>4, <3>2
      <4>2. (shares[b].outcome = "open" /\ faults = 0 /\ restarts = 0) => drop.block = b
        BY <4>1 DEF ShareInv, HarvestsShared
      <4>3. b # 0
        BY <4>1, ShareTypes
      <4>4. shares[b].outcome = "shared" => SumFunction(allocations[b]) = shares[b].amount
        BY <4>1 DEF ShareInv, HarvestsShared
      <4> QED BY <1>1, <1>3, <4>1, <4>2, <4>3, <4>4 DEF NoFault
    <3> QED BY <3>1, <3>2
  <2> QED BY <2>1, <2>3, <2>4 DEF ShareInv, HarvestsShared
<1> QED BY <1>2, <1>3 DEF Harvest

\* The outcome of the harvest at hand is known.
LEMMA OutcomeKnown ==
    ASSUME YieldTypeInv /\ ShareInv /\ PeriodInv, drop.block \in Harvests,
           NEW o \in {"raced", "nobody", "shared"}, shares' = [shares EXCEPT ![drop.block].outcome = o],
           UNCHANGED <<faults, restarts>>,
           \A b \in Harvests : b # drop.block => allocations'[b] = allocations[b],
           o = "shared" => SumFunction(allocations'[drop.block]) = drop.amount
    PROVE  HarvestsShared' /\ shares'[drop.block].outcome = o
<1>1. shares[drop.block] \in Share /\ shares[drop.block].amount = drop.amount
  <2>1. drop.block # 0
    BY DEF Harvests
  <2> QED BY <2>1 DEF YieldTypeInv, RunTypes, PeriodInv, AtHand
<1>2. /\ shares'[drop.block].outcome = o /\ shares'[drop.block].amount = drop.amount
      /\ \A b \in Harvests : b # drop.block => shares'[b] = shares[b]
  BY <1>1 DEF YieldTypeInv, RunTypes, Share
<1> QED BY <1>2 DEF ShareInv, HarvestsShared

LEMMA InsertShares ==
    ASSUME YieldTypeInv /\ ShareInv /\ PeriodInv, YieldTypeInv', InsertDistribution
    PROVE  ShareInv'
<1>1. /\ drop \in DropState /\ drop.at = "insert" /\ shares[drop.block].outcome = "open"
      /\ UNCHANGED <<allocations, restarts>> /\ drop.block \in Harvests
  BY BlockAtHand DEF YieldTypeInv, RunTypes, ShareInv, InsertDistribution
<1>2. CASE drop' = [drop EXCEPT !.at = "allocate"] /\ NoFault /\ UNCHANGED shares
  <2>1. drop'.at = "allocate" /\ drop'.block = drop.block
    BY <1>1, <1>2 DEF DropState
  <2>2. HarvestsShared'
    BY <1>1, <1>2, <2>1, OutcomesStay DEF NothingFailed, NoFault
  <2> QED BY <1>1, <1>2, <2>1, <2>2 DEF ShareInv
<1>3. CASE drop' = NextAsset /\ NoFault /\ shares' = [shares EXCEPT ![drop.block].outcome = "raced"]
  <2>1. drop'.at = "harvest"
    BY <1>1, <1>3 DEF NextAsset, DropState
  <2>2. HarvestsShared'
    BY <1>1, <1>3, OutcomeKnown DEF NoFault
  <2> QED BY <2>1, <2>2 DEF ShareInv
<1>4. CASE AssetFails /\ UNCHANGED shares
  <2>1. drop'.at = "harvest"
    BY <1>1, <1>4 DEF AssetFails, NextAsset, DropState
  <2>2. HarvestsShared'
    BY <1>1, <1>4, FailuresStay, OutcomesStay DEF NothingFailed, AssetFails
  <2> QED BY <2>1, <2>2 DEF ShareInv
<1> QED BY <1>2, <1>3, <1>4 DEF InsertDistribution

LEMMA AllocateShares ==
    ASSUME YieldTypeInv /\ ShareInv /\ PeriodInv, YieldTypeInv', Allocate
    PROVE  ShareInv'
<1> DEFINE b == drop.block
           a == blocks[b][2]
           parts == {v \in Vaults : Portion(v, a) > 0}
<1>1. /\ drop \in DropState /\ drop.at = "allocate" /\ shares[b].outcome = "open"
      /\ UNCHANGED restarts /\ b \in Harvests
      /\ allocations \in [Harvests -> [Vaults -> Nat]]
  BY BlockAtHand DEF YieldTypeInv, RunTypes, ShareInv, Allocate
<1>2. ASSUME NEW first \in parts, allocations' = [allocations EXCEPT ![b] = Allocation(a, first)],
             drop' = [drop EXCEPT !.at = "pay", !.pending = parts],
             shares' = [shares EXCEPT ![b].outcome = "shared"], NoFault
      PROVE  ShareInv'
  <2>1. drop'.at = "pay" /\ drop'.block = b
    BY <1>1, <1>2 DEF DropState
  <2>2. SumFunction(Allocation(a, first)) = drop.amount
    BY <1>2, AllocationAdds
  <2>3. /\ allocations'[b] = Allocation(a, first)
        /\ \A c \in Harvests : c # b => allocations'[c] = allocations[c]
    BY <1>1, <1>2
  <2>4. HarvestsShared' /\ shares'[b].outcome = "shared"
    BY <1>1, <1>2, <2>2, <2>3, OutcomeKnown DEF NoFault
  <2> QED BY <2>1, <2>4 DEF ShareInv
<1>3. CASE /\ drop' = NextAsset /\ NoFault /\ UNCHANGED allocations
           /\ shares' = [shares EXCEPT ![drop.block].outcome = "nobody"]
  <2>1. drop'.at = "harvest"
    BY <1>1, <1>3 DEF NextAsset, DropState
  <2>2. HarvestsShared'
    BY <1>1, <1>3, OutcomeKnown DEF NoFault
  <2> QED BY <2>1, <2>2 DEF ShareInv
<1>4. CASE AssetFails /\ UNCHANGED <<allocations, shares>>
  <2>1. drop'.at = "harvest"
    BY <1>1, <1>4 DEF AssetFails, NextAsset, DropState
  <2>2. HarvestsShared'
    BY <1>1, <1>4, FailuresStay, OutcomesStay DEF NothingFailed, AssetFails
  <2> QED BY <2>1, <2>2 DEF ShareInv
<1> QED BY <1>2, <1>3, <1>4 DEF Allocate

\* The other steps of the airdrop leave no harvest open, unless the process dies.
LEMMA OtherShares ==
    ASSUME YieldTypeInv /\ ShareInv, YieldTypeInv',
           \/ StartAirdrop \/ (\E v \in Vaults : Pay(v)) \/ MarkDelivered \/ EndAsset
           \/ EndAirdrop \/ AirdropCrash
    PROVE  ShareInv'
<1>1. drop \in DropState
  BY DEF YieldTypeInv, RunTypes
<1>2. UNCHANGED <<shares, allocations>>
  BY DEF StartAirdrop, Pay, MarkDelivered, EndAsset, EndAirdrop, AirdropCrash
<1>3. NothingFailed' => NothingFailed /\ drop.at \in {"idle", "harvest", "pay", "mark"}
  <2>1. CASE StartAirdrop \/ EndAsset \/ EndAirdrop
    BY <2>1 DEF NothingFailed, StartAirdrop, EndAsset, EndAirdrop
  <2>2. ASSUME NEW v \in Vaults, Pay(v) PROVE NothingFailed' => NothingFailed /\ drop.at = "pay"
    BY <2>2, FailuresStay DEF NothingFailed, Pay
  <2>3. CASE MarkDelivered
    BY <2>3, FailuresStay DEF NothingFailed, MarkDelivered, AssetFails
  <2>4. CASE AirdropCrash
    BY <2>4, FailuresStay DEF NothingFailed, AirdropCrash
  <2> QED BY <2>1, <2>2, <2>3, <2>4
<1>4. HarvestsShared'
  BY <1>2, <1>3, OutcomesStay
<1>5. \/ drop'.at \in {"idle", "harvest"}
      \/ drop'.at \in {"pay", "mark"} /\ drop.at \in {"pay", "mark"} /\ drop'.block = drop.block
  <2>1. CASE StartAirdrop
    BY <2>1 DEF StartAirdrop, Idle
  <2>2. ASSUME NEW v \in Vaults, Pay(v)
        PROVE  drop'.at \in {"pay", "mark"} /\ drop.at \in {"pay", "mark"} /\ drop'.block = drop.block
    BY <1>1, <2>2 DEF Pay, DropState
  <2>3. CASE MarkDelivered
    BY <1>1, <2>3 DEF MarkDelivered, AssetFails, NextAsset, DropState
  <2>4. CASE EndAsset
    BY <1>1, <2>4 DEF EndAsset, NextAsset, DropState
  <2>5. CASE EndAirdrop \/ AirdropCrash
    BY <2>5 DEF EndAirdrop, AirdropCrash, Idle
  <2> QED BY <2>1, <2>2, <2>3, <2>4, <2>5
<1> QED BY <1>2, <1>4, <1>5 DEF ShareInv

LEMMA NextShares ==
    YieldTypeInv /\ PeriodInv /\ ShareInv /\ [YieldNext]_<<yieldPartVars, faults, restarts>> => ShareInv'
<1> SUFFICES ASSUME YieldTypeInv, PeriodInv, ShareInv, [YieldNext]_<<yieldPartVars, faults, restarts>>
             PROVE  ShareInv'
  OBVIOUS
<1>1. YieldTypeInv'
  BY NextYieldTypes
<1>2. CASE Airdrop
  BY <1>1, <1>2, HarvestShares, InsertShares, AllocateShares, OtherShares DEF Airdrop
<1>3. ASSUME UNCHANGED airdropVars, NothingFailed' => NothingFailed PROVE ShareInv'
  <2>1. UNCHANGED <<drop, shares, allocations>>
    BY <1>3 DEF airdropVars
  <2>2. HarvestsShared'
    BY <1>3, <2>1, OutcomesStay
  <2> QED BY <2>1, <2>2 DEF ShareInv
<1>4. CASE UNCHANGED <<yieldPartVars, faults, restarts>>
  BY <1>3, <1>4 DEF yieldPartVars, NothingFailed
<1>5. CASE (YieldIndex \/ \E v \in Vaults : MineVault(v)) /\ UNCHANGED airdropVars
  <2>1. faults \in Nat /\ restarts \in Nat
    BY Numbers DEF YieldTypeInv, RunTypes, ProcessTypeOK
  <2>2. faults' \in {faults, faults + 1} /\ restarts' \in {restarts, restarts + 1}
    <3>1. CASE YieldIndex
      BY <3>1 DEF YieldIndex, YieldStart, CatchUp, YieldRunRaises, Subscribe, TakePushed,
             Disconnect, Reconnect, PollYield, YieldIndexerCrash, ProcessAll, Fault, NoFault, Restart
    <3>2. CASE \E v \in Vaults : MineVault(v)
      BY <3>2 DEF MineVault
    <3> QED BY <1>5, <3>1, <3>2
  <2>3. NothingFailed' => NothingFailed
    BY <2>1, <2>2 DEF NothingFailed
  <2> QED BY <1>3, <1>5, <2>3
<1> QED BY <1>2, <1>4, <1>5 DEF YieldNext

\* Of every harvest that was shared, the allocations add up to what it left after
\* the fee, for any collateral and any times; and as long as nothing failed no
\* harvest of a run that is over is left open.
THEOREM HarvestsAddUp == YieldSpec => []HarvestsShared
<1>1. ShareInv => HarvestsShared
  BY DEF ShareInv
<1> QED BY <1>1, InitYieldTypes, NextYieldTypes, InitPeriods, NextPeriods, InitShares, NextShares, PTL
    DEF YieldSpec
-----------------------------------------------------------------------------
(* Behind the cursor everything is recorded. *)

\* Of the blocks up to n, all but the lost ones.
Behind(n) == \A b \in (1..n) \ lost : Recorded(b)

\* A row has the blocks of its vault's events.
RowsFollow ==
    \A v \in Vaults : vaultRows[v] # None =>
        /\ vaultRows[v].deposited \in 1..Height
        /\ blocks[vaultRows[v].deposited] = <<"deposited", v>>
        /\ vaultRows[v].closed # None =>
               vaultRows[v].closed \in 1..Height /\ blocks[vaultRows[v].closed] = <<"closed", v>>

\* The blocks whose messages have been taken.
Taken == Height - Len(pushed)

\* A subscription brings every block after these, in order.
Following ==
    /\ Taken >= 0 /\ indexed <= Taken /\ Behind(Taken)
    /\ \A i \in 1..Len(pushed) : pushed[i] = Taken + i

CursorInv ==
    /\ RowsFollow
    /\ Behind(indexed)
    /\ watch = "catchup" => Behind(next - 1)
    /\ watch = "polling" => Behind(upto)
    /\ watch = "broken" => Behind(Height)
    /\ watch = "live" => Following
    /\ watch # "live" => pushed = <<>>

LEMMA InitCursor == YieldInit => CursorInv
<1> SUFFICES ASSUME YieldInit PROVE CursorInv
  OBVIOUS
<1>1. RowsFollow /\ indexed = 0 /\ watch = "off" /\ pushed = <<>>
  BY DEF YieldInit, RowsFollow
<1>2. Behind(indexed)
  BY <1>1 DEF Behind
<1> QED BY <1>1, <1>2 DEF CursorInv

\* The kinds of a block's event.
LEMMA EventKinds ==
    ASSUME YieldTypeInv, NEW b \in 1..Height
    PROVE  \/ \E v \in Vaults : blocks[b] = <<"deposited", v>>
           \/ \E v \in Vaults : blocks[b] = <<"closed", v>>
           \/ \E a \in YieldAssets : blocks[b] = <<"harvested", a>>
<1>1. blocks[b] \in Events
  BY DEF YieldTypeInv, IndexTypes, YieldTypeOK, Height
<1> QED BY <1>1 DEF Events

\* What is recorded of each kind.
LEMMA RecordedKinds ==
    ASSUME NEW b
    PROVE  /\ \A v : blocks[b] = <<"deposited", v>> =>
                  (Recorded(b) <=> vaultRows[v] # None /\ vaultRows[v].deposited = b)
           /\ \A v : blocks[b] = <<"closed", v>> =>
                  (Recorded(b) <=> (vaultRows[v] # None => vaultRows[v].closed = b))
           /\ \A a : blocks[b] = <<"harvested", a>> => (Recorded(b) <=> distributions[b] # None)
<1>1. ASSUME NEW v, blocks[b] = <<"deposited", v>>
      PROVE  Recorded(b) <=> vaultRows[v] # None /\ vaultRows[v].deposited = b
  <2>1. blocks[b][1] = "deposited" /\ blocks[b][2] = v
    BY <1>1
  <2> QED BY <2>1 DEF Recorded
<1>2. ASSUME NEW v, blocks[b] = <<"closed", v>>
      PROVE  Recorded(b) <=> (vaultRows[v] # None => vaultRows[v].closed = b)
  <2>1. blocks[b][1] = "closed" /\ blocks[b][2] = v
    BY <1>2
  <2> QED BY <2>1 DEF Recorded
<1>3. ASSUME NEW a, blocks[b] = <<"harvested", a>>
      PROVE  Recorded(b) <=> distributions[b] # None
  <2>1. blocks[b][1] = "harvested"
    BY <1>3
  <2> QED BY <2>1 DEF Recorded
<1> QED BY <1>1, <1>2, <1>3

LEMMA RecordedKindsAfter ==
    ASSUME NEW b
    PROVE  /\ \A v : blocks'[b] = <<"deposited", v>> =>
                  (Recorded(b)' <=> vaultRows'[v] # None /\ vaultRows'[v].deposited = b)
           /\ \A v : blocks'[b] = <<"closed", v>> =>
                  (Recorded(b)' <=> (vaultRows'[v] # None => vaultRows'[v].closed = b))
           /\ \A a : blocks'[b] = <<"harvested", a>> => (Recorded(b)' <=> distributions'[b] # None)
<1>1. ASSUME NEW v, blocks'[b] = <<"deposited", v>>
      PROVE  Recorded(b)' <=> vaultRows'[v] # None /\ vaultRows'[v].deposited = b
  <2>1. blocks'[b][1] = "deposited" /\ blocks'[b][2] = v
    BY <1>1
  <2> QED BY <2>1 DEF Recorded
<1>2. ASSUME NEW v, blocks'[b] = <<"closed", v>>
      PROVE  Recorded(b)' <=> (vaultRows'[v] # None => vaultRows'[v].closed = b)
  <2>1. blocks'[b][1] = "closed" /\ blocks'[b][2] = v
    BY <1>2
  <2> QED BY <2>1 DEF Recorded
<1>3. ASSUME NEW a, blocks'[b] = <<"harvested", a>>
      PROVE  Recorded(b)' <=> distributions'[b] # None
  <2>1. blocks'[b][1] = "harvested"
    BY <1>3
  <2> QED BY <2>1 DEF Recorded
<1> QED BY <1>1, <1>2, <1>3

\* new is what becomes of a vault's row once these logs are recorded: it keeps
\* its deposit and its close, and gets those there are.
RowFollows(v, logs, new) ==
    LET old == vaultRows[v] IN
    /\ old # None => new # None /\ new.deposited = old.deposited
    /\ new # None => old # None \/ new.deposited \in logs
    /\ new # None => blocks[new.deposited] = <<"deposited", v>>
    /\ \A b \in logs : blocks[b] = <<"deposited", v>> => new # None /\ new.deposited = b
    /\ \A b \in logs : blocks[b] = <<"closed", v>> /\ new # None => new.closed = b
    /\ new # None /\ new.closed # None =>
           new.closed \in 1..Height /\ blocks[new.closed] = <<"closed", v>>
    /\ new # None /\ old # None /\ old.closed # None => new.closed = old.closed

LEMMA RowsAfter ==
    ASSUME YieldTypeInv, RowsFollow, NEW logs \in SUBSET (1..Height), NEW v \in Vaults
    PROVE  RowFollows(v, logs, RowAfter(v, logs))
<1> DEFINE seen(kind) == {b \in logs : blocks[b] = <<kind, v>>}
           old == vaultRows[v]
           row == IF seen("deposited") = {} \/ old # None THEN old
                  ELSE [deposited |-> Max(seen("deposited")), closed |-> None]
           new == RowAfter(v, logs)
<1>1. Height \in Nat /\ DOMAIN blocks = 1..Height
  BY HeightBounds DEF YieldTypeInv, IndexTypes, YieldTypeOK, Height
<1>2. ASSUME NEW kind \in {"deposited", "closed"}, seen(kind) # {}
      PROVE  /\ Max(seen(kind)) \in logs /\ blocks[Max(seen(kind))] = <<kind, v>>
             /\ \A b \in 1..Height : blocks[b] = <<kind, v>> => b = Max(seen(kind))
  <2>1. seen(kind) \in SUBSET logs /\ seen(kind) \in SUBSET (0..Height)
    <3>1. seen(kind) \in SUBSET logs
      OBVIOUS
    <3>2. logs \in SUBSET (0..Height)
      BY <1>1
    <3> HIDE DEF seen
    <3> QED BY <3>1, <3>2
  <2>2. \A b \in seen(kind) : blocks[b] = <<kind, v>>
    OBVIOUS
  <2> HIDE DEF seen
  <2>3. Max(seen(kind)) \in seen(kind)
    BY <1>1, <1>2, <2>1, MaxOfTimes
  <2>4. blocks[Max(seen(kind))][1] # "harvested"
    BY <2>2, <2>3
  <2>5. ASSUME NEW b \in 1..Height, blocks[b] = <<kind, v>> PROVE b = Max(seen(kind))
    BY <1>1, <2>1, <2>2, <2>3, <2>4, <2>5 DEF YieldTypeInv, IndexTypes, Lifecycle
  <2> QED BY <2>1, <2>2, <2>3, <2>5
<1>3. \A kind : \A b \in logs : blocks[b] = <<kind, v>> => seen(kind) # {}
  OBVIOUS
<1>4. new = IF row # None /\ seen("closed") # {} THEN [row EXCEPT !.closed = Max(seen("closed"))]
            ELSE row
  BY DEF RowAfter
<1>5. old \in VaultRow \union {None} /\ new \in VaultRow \union {None}
  BY VaultRowTypes DEF YieldTypeInv, IndexTypes, YieldTypeOK
<1>6. old # None =>
        /\ old.deposited \in 1..Height /\ blocks[old.deposited] = <<"deposited", v>>
        /\ old.closed # None => old.closed \in 1..Height /\ blocks[old.closed] = <<"closed", v>>
  BY DEF RowsFollow
<1>7. row \in VaultRow \union {None}
  <2>1. seen("deposited") # {} => Max(seen("deposited")) \in Times
    <3>1. 1..Height \subseteq Times
      BY HeightBounds, Numbers DEF Times
    <3> HIDE DEF seen
    <3> QED BY <1>2, <3>1
  <2> HIDE DEF seen
  <2> QED BY <1>5, <2>1 DEF VaultRow
<1> HIDE DEF seen, old, new
<1>8. /\ row # None <=> old # None \/ seen("deposited") # {}
      /\ old # None => row = old
      /\ old = None /\ seen("deposited") # {} =>
            row.deposited = Max(seen("deposited")) /\ row.closed = None
  <2>1. old = None /\ seen("deposited") # {} =>
            row \in VaultRow
    <3>1. seen("deposited") # {} => Max(seen("deposited")) \in Times
      <4>1. 1..Height \subseteq Times
        BY HeightBounds, Numbers DEF Times
      <4> QED BY <1>2, <4>1
    <3> QED BY <3>1 DEF VaultRow
  <2> QED BY <2>1, YieldRowAssumption
<1> HIDE DEF row
<1>9. /\ new # None <=> row # None
      /\ row # None => new.deposited = row.deposited
      /\ row # None /\ seen("closed") = {} => new.closed = row.closed
      /\ row # None /\ seen("closed") # {} => new.closed = Max(seen("closed"))
  <2>1. CASE row # None /\ seen("closed") # {}
    <3>1. row \in VaultRow
      BY <1>7, <2>1
    <3>2. new.deposited = row.deposited /\ new.closed = Max(seen("closed"))
      BY <1>4, <2>1, <3>1 DEF VaultRow
    <3>3. Max(seen("closed")) \in Times
      <4>1. 1..Height \subseteq Times
        BY HeightBounds, Numbers DEF Times
      <4> QED BY <1>2, <2>1, <4>1
    <3>4. new \in VaultRow
      BY <1>4, <2>1, <3>1, <3>3 DEF VaultRow
    <3> QED BY <2>1, <3>2, <3>4, YieldRowAssumption
  <2>2. CASE ~(row # None /\ seen("closed") # {})
    BY <1>4, <2>2
  <2> QED BY <2>1, <2>2
<1>10. old # None => new # None /\ new.deposited = old.deposited
  BY <1>8, <1>9
<1>11. new # None => /\ old # None \/ new.deposited \in logs
                     /\ blocks[new.deposited] = <<"deposited", v>>
  BY <1>2, <1>6, <1>8, <1>9
<1>12. ASSUME NEW b \in logs, blocks[b] = <<"deposited", v>> PROVE new # None /\ new.deposited = b
  <2>1. seen("deposited") # {}
    BY <1>3, <1>12
  <2>2. b = Max(seen("deposited")) /\ \A c \in 1..Height : blocks[c] = <<"deposited", v>> => c = b
    BY <1>2, <1>12, <2>1
  <2> QED BY <1>6, <1>8, <1>9, <2>1, <2>2
<1>13. ASSUME NEW b \in logs, blocks[b] = <<"closed", v>>, new # None PROVE new.closed = b
  <2>1. seen("closed") # {}
    BY <1>3, <1>13
  <2> QED BY <1>2, <1>9, <1>13, <2>1
<1>14. new # None /\ new.closed # None =>
         new.closed \in 1..Height /\ blocks[new.closed] = <<"closed", v>>
  BY <1>2, <1>6, <1>8, <1>9
<1>15. new # None /\ old # None /\ old.closed # None => new.closed = old.closed
  <2>1. CASE old # None /\ old.closed # None /\ seen("closed") # {}
    BY <1>2, <1>6, <1>8, <1>9, <2>1
  <2>2. CASE old # None /\ seen("closed") = {}
    BY <1>8, <1>9, <2>2
  <2> QED BY <2>1, <2>2
<1> QED BY <1>10, <1>11, <1>12, <1>13, <1>14, <1>15 DEF old, new, RowFollows

\* Up to n, what was recorded still is.
LEMMA StillBehind ==
    ASSUME YieldTypeInv, UNCHANGED vaultRows, Grown, lost \subseteq lost',
           \A b \in Harvests : distributions[b] # None => distributions'[b] # None,
           NEW n, Behind(n), n <= Height, n \in Int
    PROVE  \A b \in (1..n) \ lost' : Recorded(b)'
<1> SUFFICES ASSUME NEW b \in (1..n) \ lost' PROVE Recorded(b)'
  OBVIOUS
<1>1. b \in 1..Height /\ b \in Harvests /\ Recorded(b)
  BY HeightBounds, Numbers DEF Behind, Harvests
<1>2. blocks'[b] = blocks[b]
  BY <1>1 DEF Grown
<1>3. ASSUME NEW v, blocks[b] = <<"deposited", v>> PROVE Recorded(b)'
  BY <1>1, <1>2, <1>3, RecordedKinds, RecordedKindsAfter
<1>4. ASSUME NEW v, blocks[b] = <<"closed", v>> PROVE Recorded(b)'
  BY <1>1, <1>2, <1>4, RecordedKinds, RecordedKindsAfter
<1>5. ASSUME NEW a, blocks[b] = <<"harvested", a>> PROVE Recorded(b)'
  BY <1>1, <1>2, <1>5, RecordedKinds, RecordedKindsAfter
<1> QED BY <1>1, <1>3, <1>4, <1>5, EventKinds

\* The range [s, e] of blocks has been processed, after the ones before it.
LEMMA RangeProcessed ==
    ASSUME YieldTypeInv /\ RowsFollow, UNCHANGED blocks, NEW s \in Nat \ {0}, NEW e \in Int,
           e <= Height /\ Behind(s - 1) /\ ProcessAll(s..e)
    PROVE  RowsFollow' /\ \A b \in (1..e) \ lost' : Recorded(b)'
<1>1. PICK failed \in SUBSET (s..e) :
        RecordLogs((s..e) \ failed) /\ lost' = (lost \ (s..e)) \union failed
  BY DEF ProcessAll
<1> DEFINE logs == (s..e) \ failed
<1>2. logs \in SUBSET (1..Height) /\ Height \in Nat
  BY HeightBounds
<1>3. RowsOnlyLater
  BY <1>1, <1>2, RecordedRows
<1>4. \A v \in Vaults : RowFollows(v, logs, vaultRows'[v])
  <2>1. \A v \in Vaults : vaultRows'[v] = RowAfter(v, logs)
    BY <1>1 DEF RecordLogs
  <2> HIDE DEF logs
  <2> QED BY <1>2, <2>1, RowsAfter
<1>5. \A b \in logs : blocks[b][1] = "harvested" => distributions'[b] # None
  <2> TAKE b \in logs
  <2> HAVE blocks[b][1] = "harvested"
  <2>1. b \in 1..MaxEvents /\ b \in 1..Height
    BY <1>2, HeightBounds, Numbers
  <2>2. distributions'[b] = Harvested(b)
    BY <1>1, <2>1 DEF RecordLogs
  <2> QED BY <2>1, <2>2, HarvestedRow
<1>6. \A b \in logs : b \in s..e
  OBVIOUS
<1>7. \A b \in s..e : b \notin failed => b \in logs
  OBVIOUS
<1> HIDE DEF logs
<1>8. RowsFollow'
  <2> SUFFICES ASSUME NEW v \in Vaults, vaultRows'[v] # None
               PROVE  /\ vaultRows'[v].deposited \in 1..Height
                      /\ blocks[vaultRows'[v].deposited] = <<"deposited", v>>
                      /\ vaultRows'[v].closed # None =>
                           /\ vaultRows'[v].closed \in 1..Height
                           /\ blocks[vaultRows'[v].closed] = <<"closed", v>>
    BY DEF RowsFollow, Height
  <2> QED BY <1>2, <1>4 DEF RowsFollow, RowFollows
<1>9. ASSUME NEW b \in (1..e) \ lost' PROVE Recorded(b)'
  <2>1. b \in 1..Height /\ b \in Harvests /\ b \in Nat
    BY <1>2, HeightBounds, Numbers DEF Harvests
  <2>2. CASE b \in s..e
    <3>1. b \in logs
      BY <1>1, <1>7, <1>9, <2>2
    <3>2. ASSUME NEW v \in Vaults, blocks[b] = <<"deposited", v>> PROVE Recorded(b)'
      <4>1. vaultRows'[v] # None /\ vaultRows'[v].deposited = b
        BY <1>4, <3>1, <3>2 DEF RowFollows
      <4> QED BY <3>2, <4>1, RecordedKindsAfter
    <3>3. ASSUME NEW v \in Vaults, blocks[b] = <<"closed", v>> PROVE Recorded(b)'
      <4>1. vaultRows'[v] # None => vaultRows'[v].closed = b
        BY <1>4, <3>1, <3>3 DEF RowFollows
      <4> QED BY <3>3, <4>1, RecordedKindsAfter
    <3>4. ASSUME NEW a, blocks[b] = <<"harvested", a>> PROVE Recorded(b)'
      <4>1. distributions'[b] # None
        BY <1>5, <3>1, <3>4
      <4> QED BY <3>4, <4>1, RecordedKindsAfter
    <3> QED BY <2>1, <3>2, <3>3, <3>4, EventKinds
  <2>3. CASE b \notin s..e
    <3>1. b < s /\ b \in (1..(s - 1)) \ lost
      BY <1>1, <1>9, <2>1, <2>3
    <3>2. Recorded(b)
      BY <3>1 DEF Behind
    <3>3. ASSUME NEW v \in Vaults, blocks[b] = <<"deposited", v>> PROVE Recorded(b)'
      <4>1. vaultRows[v] # None /\ vaultRows[v].deposited = b
        BY <3>2, <3>3, RecordedKinds
      <4>2. vaultRows'[v] # None /\ vaultRows'[v].deposited = b
        BY <1>4, <4>1 DEF RowFollows
      <4> QED BY <3>3, <4>2, RecordedKindsAfter
    <3>4. ASSUME NEW v \in Vaults, blocks[b] = <<"closed", v>> PROVE Recorded(b)'
      <4> DEFINE new == vaultRows'[v]
      <4> SUFFICES ASSUME new # None PROVE new.closed = b
        BY <3>4, RecordedKindsAfter
      <4>1. CASE vaultRows[v] # None
        <5>1. vaultRows[v].closed = b
          BY <3>2, <3>4, <4>1, RecordedKinds
        <5>2. b # None
          BY <2>1, Numbers
        <5> QED BY <1>4, <4>1, <5>1, <5>2 DEF RowFollows
      <4>2. CASE vaultRows[v] = None
        <5>1. new.deposited \in logs /\ blocks[new.deposited] = <<"deposited", v>>
          BY <1>4, <4>2 DEF RowFollows
        <5>2. DOMAIN blocks = 1..Height
          BY <1>2 DEF YieldTypeInv, IndexTypes, YieldTypeOK, Height
        <5>3. PICK d \in 1..(b - 1) : blocks[d] = <<"deposited", v>>
          BY <2>1, <3>4, <5>2 DEF YieldTypeInv, IndexTypes, Lifecycle
        <5>4. d \in 1..Height /\ new.deposited \in 1..Height /\ blocks[d][1] # "harvested"
          <6>1. d \in 1..Height
            BY <1>2, <2>1
          <6>2. new.deposited \in 1..Height
            BY <1>2, <5>1
          <6>3. blocks[d][1] # "harvested"
            BY <5>3
          <6> QED BY <6>1, <6>2, <6>3
        <5>5. d = new.deposited
          BY <5>1, <5>2, <5>3, <5>4 DEF YieldTypeInv, IndexTypes, Lifecycle
        <5>6. new.deposited \in s..e
          BY <1>6, <5>1
        <5> QED BY <2>1, <3>1, <5>3, <5>5, <5>6
      <4> QED BY <4>1, <4>2
    <3>5. ASSUME NEW a, blocks[b] = <<"harvested", a>> PROVE Recorded(b)'
      <4>1. distributions[b] # None
        BY <3>2, <3>5, RecordedKinds
      <4>2. distributions'[b] # None
        BY <1>3, <2>1, <4>1 DEF RowsOnlyLater
      <4> QED BY <3>5, <4>2, RecordedKindsAfter
    <3> QED BY <2>1, <3>3, <3>4, <3>5, EventKinds
  <2> QED BY <2>2, <2>3
<1> QED BY <1>8, <1>9

\* The rows follow the chain as it grows.
LEMMA RowsStillFollow ==
    ASSUME YieldTypeInv /\ RowsFollow, Grown, UNCHANGED vaultRows
    PROVE  RowsFollow'
<1>1. Height \in Nat /\ Height' >= Height
  BY HeightBounds DEF Grown
<1> SUFFICES ASSUME NEW v \in Vaults, vaultRows[v] # None
             PROVE  /\ vaultRows[v].deposited \in 1..Height'
                    /\ blocks'[vaultRows[v].deposited] = <<"deposited", v>>
                    /\ vaultRows[v].closed # None =>
                         /\ vaultRows[v].closed \in 1..Height'
                         /\ blocks'[vaultRows[v].closed] = <<"closed", v>>
  BY DEF RowsFollow
<1>2. \A b \in 1..Height : blocks'[b] = blocks[b] /\ (Height' \in Int => b \in 1..Height')
  BY <1>1 DEF Grown
<1>3. Height' \in Int
  <2>1. Len(blocks') = Height'
    BY DEF Height
  <2> QED BY <1>1, <2>1 DEF Grown, Height
<1> QED BY <1>2, <1>3 DEF RowsFollow

\* A block is mined: a subscription brings it, and while the connection is
\* broken it is passed over.
LEMMA MineCursor ==
    ASSUME YieldTypeInv, CursorInv, YieldTypeInv', NEW e, Legal(e), Mine(e)
    PROVE  CursorInv'
<1>1. Grown /\ Height' = Height + 1 /\ Height \in Nat
  BY MineTypes, HeightBounds
<1>2. UNCHANGED <<vaultRows, distributions, indexed, watch, next, upto>>
  BY DEF Mine
<1>3. lost \subseteq lost' /\ (watch = "broken" => lost' = lost \union {Height + 1})
      /\ pushed' = (IF watch = "live" THEN Append(pushed, Height + 1) ELSE pushed)
  BY DEF Mine
<1>4. /\ indexed \in 0..Height /\ upto \in 0..Height /\ next \in 0..(Height + 1)
      /\ pushed \in Seq(1..Height)
  BY DEF YieldTypeInv, IndexTypes, YieldTypeOK
<1>5. RowsFollow'
  BY <1>1, <1>2, RowsStillFollow DEF CursorInv
<1>6. \A n \in Int : n <= Height /\ Behind(n) => \A b \in (1..n) \ lost' : Recorded(b)'
  BY <1>1, <1>2, <1>3, StillBehind
<1>7. Behind(indexed)'
  BY <1>2, <1>4, <1>6 DEF CursorInv, Behind
<1>8. watch' = "catchup" => Behind(next - 1)'
  BY <1>1, <1>2, <1>4, <1>6 DEF CursorInv, Behind
<1>9. watch' = "polling" => Behind(upto)'
  BY <1>2, <1>4, <1>6 DEF CursorInv, Behind
<1>10. watch' = "broken" => Behind(Height)'
  <2> SUFFICES ASSUME watch = "broken", NEW b \in (1..(Height + 1)) \ lost' PROVE Recorded(b)'
    BY <1>1, <1>2 DEF Behind
  <2>1. b \in (1..Height) \ lost'
    BY <1>1, <1>3
  <2> QED BY <1>1, <1>6, <2>1 DEF CursorInv
<1>11. watch' = "live" => Following'
  <2> SUFFICES ASSUME watch = "live" PROVE Following'
    BY <1>2
  <2>1. /\ Len(pushed') = Len(pushed) + 1 /\ pushed'[Len(pushed) + 1] = Height + 1
        /\ \A i \in 1..Len(pushed) : pushed'[i] = pushed[i]
        /\ Len(pushed) \in Nat
    BY <1>3, <1>4
  <2>2. Taken' = Taken /\ Taken \in Int /\ Taken + Len(pushed) = Height
    BY <1>1, <2>1 DEF Taken
  <2>3. Following
    BY DEF CursorInv
  <2>4. \A i \in 1..(Len(pushed) + 1) : pushed'[i] = Taken + i
    <3> TAKE i \in 1..(Len(pushed) + 1)
    <3>1. CASE i \in 1..Len(pushed)
      BY <2>1, <2>3, <3>1 DEF Following
    <3>2. CASE i = Len(pushed) + 1
      BY <2>1, <2>2, <3>2
    <3> QED BY <2>1, <3>1, <3>2
  <2>5. \A b \in (1..Taken) \ lost' : Recorded(b)'
    BY <1>1, <1>6, <2>1, <2>2, <2>3 DEF Following
  <2> QED BY <1>2, <2>1, <2>2, <2>3, <2>4, <2>5 DEF Following, Behind
<1>12. watch' # "live" => pushed' = <<>>
  BY <1>2, <1>3 DEF CursorInv
<1> QED BY <1>5, <1>7, <1>8, <1>9, <1>10, <1>11, <1>12 DEF CursorInv

\* A step of the airdrop that does not mine: the cursor is not touched, and no
\* row of a distribution goes away.
LEMMA SameCursor ==
    ASSUME YieldTypeInv, CursorInv,
           UNCHANGED <<blocks, vaultRows, indexed, watch, next, upto, pushed, lost>>,
           \A b \in Harvests : distributions[b] # None => distributions'[b] # None
    PROVE  CursorInv'
<1>1. Height' = Height /\ Grown /\ Height \in Nat
  BY HeightBounds DEF Height, Grown
<1>2. /\ indexed \in 0..Height /\ upto \in 0..Height /\ next \in 0..(Height + 1)
      /\ pushed \in Seq(1..Height)
  BY DEF YieldTypeInv, IndexTypes, YieldTypeOK
<1>3. RowsFollow'
  BY <1>1, RowsStillFollow DEF CursorInv
<1>4. \A n \in Int : n <= Height /\ Behind(n) => \A b \in (1..n) \ lost' : Recorded(b)'
  BY <1>1, StillBehind
<1>5. Behind(indexed)'
  BY <1>2, <1>4 DEF CursorInv, Behind
<1>6. watch' = "catchup" => Behind(next - 1)'
  BY <1>1, <1>2, <1>4 DEF CursorInv, Behind
<1>7. watch' = "polling" => Behind(upto)'
  BY <1>2, <1>4 DEF CursorInv, Behind
<1>8. watch' = "broken" => Behind(Height)'
  BY <1>1, <1>4 DEF CursorInv, Behind
<1>9. watch' = "live" => Following'
  <2> SUFFICES ASSUME watch = "live" PROVE Following'
    OBVIOUS
  <2>1. Taken' = Taken /\ Taken \in Int /\ Taken <= Height /\ Following
    BY <1>1, <1>2 DEF Taken, CursorInv
  <2>2. \A b \in (1..Taken) \ lost' : Recorded(b)'
    BY <1>4, <2>1 DEF Following
  <2> QED BY <2>1, <2>2 DEF Following, Behind
<1>10. watch' # "live" => pushed' = <<>>
  BY DEF CursorInv
<1> QED BY <1>3, <1>5, <1>6, <1>7, <1>8, <1>9, <1>10 DEF CursorInv

LEMMA IndexCursor ==
    ASSUME YieldTypeInv, CursorInv, YieldIndex
    PROVE  CursorInv'
<1> DEFINE CH == ConfirmedHead
<1>1. /\ Height \in Nat /\ CH \in 0..Height
      /\ indexed \in 0..Height /\ upto \in 0..Height /\ next \in 0..(Height + 1)
      /\ pushed \in Seq(1..Height) /\ (watch = "catchup" => next >= 1)
  <2>1. Height \in Nat
    BY HeightBounds
  <2>2. CH \in 0..Height
    BY <2>1, Numbers DEF ConfirmedHead
  <2> QED BY <2>1, <2>2 DEF YieldTypeInv, IndexTypes, YieldTypeOK
<1>2. blocks' = blocks /\ Height' = Height /\ Grown
  <2>1. blocks' = blocks
    BY YieldIndexerTypes
  <2> QED BY <1>1, <2>1 DEF Height, Grown
<1>3. RowsFollow /\ Behind(indexed)
  BY DEF CursorInv
\* The steps that record nothing.
<1>4. ASSUME UNCHANGED <<vaultRows, distributions>>, lost \subseteq lost'
      PROVE  /\ RowsFollow'
             /\ \A n \in Int : n <= Height /\ Behind(n) => \A b \in (1..n) \ lost' : Recorded(b)'
  BY <1>2, <1>3, <1>4, RowsStillFollow, StillBehind
<1> HIDE DEF CH
<1>5. CASE YieldStart
  <2> DEFINE from == (IF indexed > 0 THEN indexed ELSE CH) - YieldRescan
  <2>1. /\ watch = "off" /\ watch' = "catchup" /\ UNCHANGED <<indexed, pushed, vaultRows, distributions>>
        /\ next' = (IF from > 1 THEN from ELSE 1)
        /\ lost' = (IF indexed > 0 THEN lost ELSE 1..(from - 1))
    BY <1>5 DEF YieldStart, CH
  <2>2. from \in Int /\ (indexed > 0 => from <= indexed)
    BY <1>1, Numbers
  <2> HIDE DEF from
  <2>3. pushed' = <<>>
    BY <2>1 DEF CursorInv
  <2>4. CASE indexed > 0
    <3>1. /\ RowsFollow'
          /\ \A b \in (1..indexed) \ lost' : Recorded(b)'
      BY <1>1, <1>3, <1>4, <2>1, <2>4
    <3>2. Behind(next - 1)' /\ Behind(indexed)'
      BY <1>1, <2>1, <2>2, <2>4, <3>1 DEF Behind
    <3> QED BY <2>1, <2>3, <3>1, <3>2 DEF CursorInv
  <2>5. CASE indexed = 0
    <3>1. Behind(indexed)' /\ Behind(next - 1)'
      BY <1>1, <2>1, <2>2, <2>5 DEF Behind
    <3>2. RowsFollow'
      BY <1>2, <1>3, <2>1, RowsStillFollow
    <3> QED BY <2>1, <2>3, <3>1, <3>2 DEF CursorInv
  <2> QED BY <1>1, <2>4, <2>5
<1>6. CASE CatchUp
  <2> DEFINE end == IF next + YieldRange - 1 < upto THEN next + YieldRange - 1 ELSE upto
  <2>1. /\ watch = "catchup" /\ next <= upto /\ ProcessAll(next..end)
        /\ indexed' = end /\ next' = end + 1 /\ UNCHANGED <<watch, pushed>>
    BY <1>6 DEF CatchUp
  <2>2. end \in 0..Height /\ next \in Nat \ {0}
    BY <1>1, <2>1, Numbers
  <2> HIDE DEF end
  <2>3. Behind(next - 1)
    BY <2>1 DEF CursorInv
  <2>4. RowsFollow' /\ \A b \in (1..end) \ lost' : Recorded(b)'
    BY <1>1, <1>2, <1>3, <2>1, <2>2, <2>3, RangeProcessed
  <2>5. Behind(indexed)' /\ Behind(next - 1)'
    BY <2>1, <2>2, <2>4 DEF Behind
  <2>6. pushed' = <<>>
    BY <2>1 DEF CursorInv
  <2> QED BY <2>1, <2>4, <2>5, <2>6 DEF CursorInv
<1>7. CASE YieldRunRaises
  <2>1. /\ watch' = "dead" /\ UNCHANGED <<vaultRows, distributions, indexed, lost, pushed>>
        /\ watch \in {"off", "catchup"}
    BY <1>7 DEF YieldRunRaises
  <2>2. RowsFollow' /\ Behind(indexed)'
    BY <1>1, <1>3, <1>4, <2>1 DEF Behind
  <2> QED BY <2>1, <2>2 DEF CursorInv
<1>8. CASE Subscribe
  <2>1. /\ watch = "catchup" /\ next > upto
        /\ UNCHANGED <<vaultRows, distributions, indexed, pushed>> /\ lost \subseteq lost'
        /\ \/ watch' = "live" /\ lost' = lost \union ((upto + 1)..Height)
           \/ watch' = "polling" /\ upto' = upto
    BY <1>8 DEF Subscribe
  <2>2. pushed = <<>> /\ Behind(next - 1)
    BY <2>1 DEF CursorInv
  <2>3. RowsFollow' /\ Behind(indexed)'
    BY <1>1, <1>3, <1>4, <2>1 DEF Behind
  <2>4. \A b \in (1..upto) \ lost' : Recorded(b)'
    <3>1. Behind(upto)
      BY <1>1, <2>1, <2>2 DEF Behind
    <3> QED BY <1>1, <1>4, <2>1, <3>1
  <2>5. CASE watch' = "live" /\ lost' = lost \union ((upto + 1)..Height)
    <3>1. Taken' = Height
      BY <1>1, <1>2, <2>1, <2>2 DEF Taken
    <3>2. \A b \in (1..Height) \ lost' : Recorded(b)'
      BY <1>1, <2>4, <2>5
    <3>3. Following'
      BY <1>1, <2>1, <2>2, <3>1, <3>2 DEF Following, Behind
    <3> QED BY <2>3, <2>5, <3>3 DEF CursorInv
  <2>6. CASE watch' = "polling" /\ upto' = upto
    <3>1. Behind(upto)'
      BY <2>4, <2>6 DEF Behind
    <3> QED BY <2>1, <2>2, <2>3, <2>6, <3>1 DEF CursorInv
  <2> QED BY <2>1, <2>5, <2>6
<1>9. CASE TakePushed
  <2>1. /\ watch = "live" /\ pushed # <<>> /\ ProcessAll({Head(pushed)}) /\ watch' = "live"
        /\ indexed' = (IF Head(pushed) \in lost' THEN indexed ELSE Head(pushed))
        /\ pushed' = Tail(pushed)
    BY <1>9 DEF TakePushed
  <2>2. Following /\ Taken \in Nat /\ Taken = Height - Len(pushed) /\ Len(pushed) \in Nat \ {0}
    BY <1>1, <2>1 DEF CursorInv, Following, Taken
  <2> DEFINE h == Taken + 1
  <2>3. Head(pushed) = h /\ h <= Height /\ h \in Nat \ {0}
    BY <1>1, <2>1, <2>2 DEF Following
  <2>4. Len(pushed') = Len(pushed) - 1 /\ \A i \in 1..(Len(pushed) - 1) : pushed'[i] = pushed[i + 1]
    BY <1>1, <2>1
  <2>5. Taken' = h
    <3>1. Height' = Height /\ Len(pushed') = Len(pushed) - 1 /\ Height \in Int
          /\ Taken = Height - Len(pushed) /\ Len(pushed) \in Int
      BY <1>1, <1>2, <2>2, <2>4
    <3>2. Taken' = Height' - Len(pushed')
      BY DEF Taken
    <3> QED BY <3>1, <3>2
  <2> HIDE DEF h
  <2>6. h..h = {h} /\ h - 1 = Taken /\ h \in Int
    BY <2>2, <2>3 DEF h
  <2>7. ProcessAll(h..h) /\ Behind(h - 1)
    BY <2>1, <2>2, <2>3, <2>6 DEF Following
  <2>8. RowsFollow' /\ \A b \in (1..h) \ lost' : Recorded(b)'
    BY <1>2, <1>3, <2>3, <2>6, <2>7, RangeProcessed
  <2>9. indexed' \in 0..h
    BY <1>1, <2>1, <2>2, <2>3, <2>6 DEF Following
  <2>10. Behind(indexed)' /\ Behind(Taken)'
    BY <2>3, <2>5, <2>8, <2>9 DEF Behind
  <2>11. \A i \in 1..Len(pushed') : pushed'[i] = h + i
    BY <2>2, <2>4 DEF Following, h
  <2>12. Following'
    BY <2>3, <2>5, <2>9, <2>10, <2>11 DEF Following
  <2> QED BY <2>1, <2>8, <2>10, <2>12 DEF CursorInv
<1>10. CASE Disconnect
  <2>1. /\ watch = "live" /\ watch' = "broken" /\ pushed' = <<>> /\ lost' = lost \union Range(pushed)
        /\ UNCHANGED <<vaultRows, distributions, indexed>>
    BY <1>10 DEF Disconnect
  <2>2. Following /\ Taken = Height - Len(pushed) /\ Len(pushed) \in Nat
    BY <1>1, <2>1 DEF CursorInv, Taken
  <2>3. RowsFollow' /\ Behind(indexed)'
    BY <1>1, <1>3, <1>4, <2>1 DEF Behind
  <2>4. \A b \in (1..Taken) \ lost' : Recorded(b)'
    BY <1>1, <1>4, <2>1, <2>2 DEF Following
  <2>5. ASSUME NEW b \in (1..Height) \ lost' PROVE Recorded(b)'
    <3>1. CASE b <= Taken
      BY <1>1, <2>2, <2>4, <2>5, <3>1
    <3>2. CASE b > Taken
      <4>1. b - Taken \in 1..Len(pushed) /\ pushed[b - Taken] = b
        BY <1>1, <2>2, <2>5, <3>2 DEF Following
      <4>2. b \in Range(pushed)
        BY <1>1, <4>1 DEF Range
      <4> QED BY <2>1, <2>5, <4>2
    <3> QED BY <1>1, <2>2, <3>1, <3>2
  <2>6. Behind(Height)'
    BY <1>2, <2>5 DEF Behind
  <2> QED BY <2>1, <2>3, <2>6 DEF CursorInv
<1>11. CASE Reconnect
  <2>1. /\ watch = "broken" /\ watch' = "live"
        /\ UNCHANGED <<vaultRows, distributions, indexed, lost, pushed>>
    BY <1>11 DEF Reconnect
  <2>2. pushed = <<>> /\ Behind(Height)
    BY <2>1 DEF CursorInv
  <2>3. RowsFollow' /\ Behind(indexed)'
    BY <1>1, <1>3, <1>4, <2>1 DEF Behind
  <2>4. Taken' = Height
    BY <1>1, <1>2, <2>1, <2>2 DEF Taken
  <2>5. \A b \in (1..Height) \ lost' : Recorded(b)'
    BY <1>1, <1>4, <2>1, <2>2
  <2>6. Following'
    BY <1>1, <2>1, <2>2, <2>4, <2>5 DEF Following, Behind
  <2> QED BY <2>1, <2>3, <2>6 DEF CursorInv
<1>12. CASE PollYield
  <2>1. /\ watch = "polling" /\ watch' = "polling" /\ ProcessAll((upto + 1)..CH)
        /\ indexed' = CH /\ upto' = CH /\ UNCHANGED pushed
    BY <1>12 DEF PollYield, CH
  <2>2. Behind((upto + 1) - 1) /\ pushed = <<>>
    <3>1. (upto + 1) - 1 = upto
      BY <1>1
    <3> QED BY <2>1, <3>1 DEF CursorInv
  <2>3. upto + 1 \in Nat \ {0} /\ CH \in Int /\ CH <= Height
    BY <1>1
  <2>4. RowsFollow' /\ \A b \in (1..CH) \ lost' : Recorded(b)'
    BY <1>2, <1>3, <2>1, <2>2, <2>3, RangeProcessed
  <2>5. Behind(indexed)' /\ Behind(upto)'
    BY <2>1, <2>4 DEF Behind
  <2> QED BY <2>1, <2>2, <2>4, <2>5 DEF CursorInv
<1>13. CASE YieldIndexerCrash
  <2>1. /\ watch' = "off" /\ pushed' = <<>> /\ lost \subseteq lost'
        /\ UNCHANGED <<vaultRows, distributions, indexed>>
    BY <1>13 DEF YieldIndexerCrash
  <2>2. RowsFollow' /\ Behind(indexed)'
    BY <1>1, <1>3, <1>4, <2>1 DEF Behind
  <2> QED BY <2>1, <2>2 DEF CursorInv
<1> QED BY <1>5, <1>6, <1>7, <1>8, <1>9, <1>10, <1>11, <1>12, <1>13 DEF YieldIndex

LEMMA NextCursor ==
    YieldTypeInv /\ CursorInv /\ [YieldNext]_<<yieldPartVars, faults, restarts>> => CursorInv'
<1> SUFFICES ASSUME YieldTypeInv, CursorInv, [YieldNext]_<<yieldPartVars, faults, restarts>>
             PROVE  CursorInv'
  OBVIOUS
<1>1. YieldTypeInv'
  BY NextYieldTypes
<1>2. ASSUME UNCHANGED yieldVars PROVE CursorInv'
  BY <1>2, SameCursor DEF yieldVars
<1>3. ASSUME NEW a \in YieldAssets, Harvest(a) PROVE CursorInv'
  <2>1. Legal(<<"harvested", a>>)
    BY DEF Legal, Events
  <2>2. Mine(<<"harvested", a>>) \/ UNCHANGED yieldVars
    BY <1>3 DEF Harvest
  <2> QED BY <1>1, <1>2, <2>1, <2>2, MineCursor
<1>4. CASE InsertDistribution
  <2>1. \A b \in Harvests : distributions[b] # None => distributions'[b] # None
    BY <1>4 DEF InsertDistribution, YieldTypeInv, IndexTypes, YieldTypeOK, Harvests
  <2> QED BY <1>4, <2>1, SameCursor DEF InsertDistribution
<1>5. CASE /\ Airdrop /\ ~InsertDistribution
           /\ ~\E a \in YieldAssets : Harvest(a)
  <2>1. UNCHANGED yieldVars
    BY <1>5 DEF Airdrop, StartAirdrop, Allocate, Pay, MarkDelivered, EndAsset, EndAirdrop, AirdropCrash
  <2> QED BY <1>2, <2>1
<1>6. ASSUME NEW v \in Vaults, MineVault(v) PROVE CursorInv'
  BY <1>1, <1>6, MineVaultTypes, MineCursor
<1> QED BY <1>2, <1>3, <1>4, <1>5, <1>6, IndexCursor DEF YieldNext, yieldPartVars

\* Behind the cursor every block is recorded but the lost ones, however ranges
\* are processed again, messages are lost and the indexer is started again: no
\* deposit that comes late undoes what was recorded of a close.
THEOREM NothingSkipped == YieldSpec => []YieldBehindCursor
<1>1. CursorInv => YieldBehindCursor
  BY DEF CursorInv, Behind, YieldBehindCursor
<1>2. YieldInit /\ AirdropInit /\ ProcessInit => CursorInv
  BY InitCursor
<1> QED BY <1>1, <1>2, InitYieldTypes, NextYieldTypes, NextCursor, PTL DEF YieldSpec
=============================================================================
