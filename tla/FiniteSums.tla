----------------------------- MODULE FiniteSums -----------------------------
(***************************************************************************)
(* Facts about finite sets and about sums over them that the proofs about  *)
(* positions, ledgers and bars rest on.  The library states induction for  *)
(* a predicate, which cannot be instantiated; here it is stated for a set  *)
(* of sets, and follows from the well-foundedness of the natural numbers.  *)
(***************************************************************************)
EXTENDS Integers, FiniteSetsExt, FiniteSetTheorems, WellFoundedInduction, TLAPS

\* A set of natural numbers has a least element.
LEMMA LeastNumber ==
    ASSUME NEW T \in SUBSET Nat, T # {}
    PROVE  \E n \in T : \A m \in T : n <= m
<1> DEFINE R == {pair \in Nat \X Nat : pair[1] < pair[2]}
<1>1. IsWellFoundedOn(R, Nat)
  BY NatLessThanWellFounded DEF OpToRel
<1>2. \A m \in Nat, n \in Nat : <<m, n>> \in R <=> m < n
  OBVIOUS
<1> HIDE DEF R
<1>3. PICK n \in T : \A m \in T : ~ (<<m, n>> \in R)
  BY <1>1, WFMin
<1>4. ASSUME NEW m \in T PROVE n <= m
  <2>1. m \in Nat /\ n \in Nat /\ ~ (<<m, n>> \in R)
    BY <1>3
  <2> QED
    BY <1>2, <2>1
<1> QED
  BY <1>4

\* A property of the subsets of a finite set, given as the set of those that have it,
\* holds of the whole if it holds of {} and stays when an element is added.
LEMMA InductionOnSubsets ==
    ASSUME NEW S, IsFiniteSet(S), NEW Good \in SUBSET SUBSET S, {} \in Good,
           \A s \in Good : \A x \in S \ s : s \cup {x} \in Good
    PROVE  S \in Good
<1> DEFINE Bad == {s \in SUBSET S : s \notin Good}
           T == {Cardinality(s) : s \in Bad}
<1> SUFFICES ASSUME S \notin Good PROVE FALSE
  OBVIOUS
<1>1. \A s \in SUBSET S : IsFiniteSet(s) /\ Cardinality(s) \in Nat
  BY FS_Subset, FS_CardinalityType
<1>2. T \in SUBSET Nat /\ T # {}
  BY <1>1
<1>3. PICK n \in T : \A m \in T : n <= m
  BY <1>2, LeastNumber
<1>4. PICK s \in Bad : n = Cardinality(s)
  BY <1>3
<1>5. PICK x \in s : TRUE
  BY <1>4
<1>6. s \ {x} \in SUBSET S /\ Cardinality(s \ {x}) = Cardinality(s) - 1
  BY <1>1, <1>4, <1>5, FS_RemoveElement
<1>7. s \ {x} \in Good
  <2> SUFFICES ASSUME s \ {x} \notin Good PROVE FALSE
    OBVIOUS
  <2>1. Cardinality(s \ {x}) \in T /\ Cardinality(s) \in Nat
    BY <1>1, <1>6
  <2>2. Cardinality(s) <= Cardinality(s \ {x})
    BY <1>3, <1>4, <2>1
  <2> HIDE DEF T, Bad
  <2> QED
    BY <1>6, <2>1, <2>2
<1>8. (s \ {x}) \cup {x} = s
  BY <1>5
<1> QED
  BY <1>4, <1>5, <1>7, <1>8

-----------------------------------------------------------------------------
(* The recursion of a sum.                                                 *)

Pick(s) == CHOOSE x \in s : TRUE

\* g[s] is the sum of f over s, for all subsets s of S.
Sums(g, f, S) ==
    g = [s \in SUBSET S |-> IF s = {} THEN 0 ELSE f[Pick(s)] + g[s \ {Pick(s)}]]

LEMMA PickIsIn ==
    ASSUME NEW s, s # {}
    PROVE  Pick(s) \in s
BY DEF Pick

\* SumFunctionOnSet is the value of such a function.
LEMMA SumIsIterated ==
    ASSUME NEW f, NEW S
    PROVE  SumFunctionOnSet(f, S) = (CHOOSE g : Sums(g, f, S))[S]
BY DEF SumFunctionOnSet, FoldFunctionOnSet, MapThenFoldSet, Sums, Pick

LEMMA InductionOnNumbers ==
    ASSUME NEW Good \in SUBSET Nat, 0 \in Good, \A n \in Good : n + 1 \in Good
    PROVE  Good = Nat
<1> SUFFICES ASSUME Nat \ Good # {} PROVE FALSE
  OBVIOUS
<1>1. PICK n \in Nat \ Good : \A m \in Nat \ Good : n <= m
  BY LeastNumber
<1>2. n - 1 \in Nat /\ n - 1 \in Good
  BY <1>1
<1> QED
  BY <1>1, <1>2

LEMMA SmallerSubsets ==
    ASSUME NEW S, IsFiniteSet(S), NEW s \in SUBSET S
    PROVE  /\ IsFiniteSet(s) /\ Cardinality(s) \in Nat
           /\ Cardinality(s) <= Cardinality(S)
           /\ Cardinality(s) = 0 <=> s = {}
           /\ \A x \in s : s \ {x} \in SUBSET S /\ Cardinality(s \ {x}) = Cardinality(s) - 1
<1>1. IsFiniteSet(s) /\ Cardinality(s) \in Nat /\ Cardinality(s) <= Cardinality(S)
  BY FS_Subset, FS_CardinalityType
<1>2. Cardinality(s) = 0 <=> s = {}
  BY <1>1, FS_EmptySet
<1>3. \A x \in s : Cardinality(s \ {x}) = Cardinality(s) - 1
  BY <1>1, FS_RemoveElement
<1> QED
  BY <1>1, <1>2, <1>3

Summed(g, f, s) == IF s = {} THEN 0 ELSE f[Pick(s)] + g[s \ {Pick(s)}]

LEMMA SumsExist ==
    ASSUME NEW f, NEW S, IsFiniteSet(S)
    PROVE  \E g : Sums(g, f, S)
<1> DEFINE UpTo(g, n) == /\ g = [s \in SUBSET S |-> g[s]]
                         /\ \A s \in SUBSET S : Cardinality(s) <= n => g[s] = Summed(g, f, s)
           Good == {n \in Nat : \E g : UpTo(g, n)}
<1>1. 0 \in Good
  <2> DEFINE g == [s \in SUBSET S |-> 0]
  <2>1. \A s \in SUBSET S : Cardinality(s) <= 0 => s = {}
    BY SmallerSubsets
  <2>2. UpTo(g, 0)
    BY <2>1 DEF Summed
  <2> QED
    BY <2>2
<1>2. ASSUME NEW n \in Good PROVE n + 1 \in Good
  <2>1. PICK g : UpTo(g, n)
    BY <1>2
  <2> DEFINE h == [s \in SUBSET S |-> Summed(g, f, s)]
  <2>2. \A s \in SUBSET S : Cardinality(s) <= n => h[s] = g[s]
    BY <2>1
  <2>3. ASSUME NEW s \in SUBSET S, Cardinality(s) <= n + 1
        PROVE  h[s] = Summed(h, f, s)
    <3>1. CASE s = {}
      BY <3>1 DEF Summed
    <3>2. CASE s # {}
      <4>1. Pick(s) \in s
        BY <3>2, PickIsIn
      <4>2. s \ {Pick(s)} \in SUBSET S /\ Cardinality(s \ {Pick(s)}) <= n
        <5>1. Cardinality(s \ {Pick(s)}) = Cardinality(s) - 1 /\ Cardinality(s) \in Nat
          BY <4>1, SmallerSubsets
        <5> QED
          BY <1>2, <2>3, <5>1
      <4>3. h[s \ {Pick(s)}] = g[s \ {Pick(s)}]
        BY <2>2, <4>2
      <4>4. h[s] = Summed(g, f, s)
        OBVIOUS
      <4> HIDE DEF h
      <4> QED
        BY <4>3, <4>4 DEF Summed
    <3> QED
      BY <3>1, <3>2
  <2>4. h = [s \in SUBSET S |-> h[s]]
    OBVIOUS
  <2> HIDE DEF h
  <2>5. UpTo(h, n + 1)
    BY <2>3, <2>4
  <2> HIDE DEF UpTo
  <2>6. n \in Nat /\ \E e : UpTo(e, n + 1)
    BY <1>2, <2>5
  <2> QED
    BY <2>6
<1>3. Good = Nat
  <2> HIDE DEF Good
  <2>1. Good \in SUBSET Nat
    BY DEF Good
  <2> QED
    BY <1>1, <1>2, <2>1, InductionOnNumbers
<1>4. Cardinality(S) \in Nat
  BY FS_CardinalityType
<1>5. PICK g : UpTo(g, Cardinality(S))
  BY <1>3, <1>4
<1>6. \A s \in SUBSET S : g[s] = Summed(g, f, s)
  BY <1>5, SmallerSubsets
<1>7. g = [s \in SUBSET S |-> Summed(g, f, s)]
  BY <1>5, <1>6
<1> QED
  BY <1>7 DEF Sums, Summed

\* The sum of a set depends on nothing outside it.
LEMMA SumsAgree ==
    ASSUME NEW f, NEW g, NEW S, Sums(g, f, S), NEW d, NEW h, NEW T, Sums(h, d, T),
           NEW U, IsFiniteSet(U), U \subseteq S, U \subseteq T, \A x \in U : f[x] = d[x]
    PROVE  g[U] = h[U]
<1> DEFINE Good == {n \in Nat : \A s \in SUBSET U : Cardinality(s) <= n => g[s] = h[s]}
<1>1. \A s \in SUBSET U : g[s] = Summed(g, f, s) /\ h[s] = Summed(h, d, s)
  BY DEF Sums, Summed
<1>2. 0 \in Good
  <2>1. \A s \in SUBSET U : Cardinality(s) <= 0 => s = {}
    BY SmallerSubsets
  <2>2. g[{}] = 0 /\ h[{}] = 0
    BY <1>1 DEF Summed
  <2> QED
    BY <2>1, <2>2
<1>3. ASSUME NEW n \in Good PROVE n + 1 \in Good
  <2> SUFFICES ASSUME NEW s \in SUBSET U, Cardinality(s) <= n + 1, s # {} PROVE g[s] = h[s]
    BY <1>1 DEF Summed
  <2>1. Pick(s) \in s
    BY PickIsIn
  <2>2. Cardinality(s \ {Pick(s)}) = Cardinality(s) - 1 /\ Cardinality(s) \in Nat
    BY <2>1, SmallerSubsets
  <2>3. g[s \ {Pick(s)}] = h[s \ {Pick(s)}]
    BY <1>3, <2>2
  <2> QED
    BY <1>1, <2>1, <2>3 DEF Summed
<1>4. Good = Nat
  <2> HIDE DEF Good
  <2>1. Good \in SUBSET Nat
    BY DEF Good
  <2> QED
    BY <1>2, <1>3, <2>1, InductionOnNumbers
<1>5. Cardinality(U) \in Nat
  BY FS_CardinalityType
<1> QED
  BY <1>4, <1>5

LEMMA SumIsSummed ==
    ASSUME NEW f, NEW S, IsFiniteSet(S), NEW g, Sums(g, f, S), NEW s \in SUBSET S
    PROVE  SumFunctionOnSet(f, s) = g[s]
<1>1. IsFiniteSet(s)
  BY FS_Subset
<1> DEFINE h == CHOOSE e : Sums(e, f, s)
<1>2. Sums(h, f, s)
  BY <1>1, SumsExist
<1>3. SumFunctionOnSet(f, s) = h[s]
  BY SumIsIterated
<1> HIDE DEF h
<1> QED
  BY <1>1, <1>2, <1>3, SumsAgree

\* A sum is that of one element and of the rest.
LEMMA SumUnfolds ==
    ASSUME NEW f, NEW S, IsFiniteSet(S)
    PROVE  SumFunctionOnSet(f, S) =
              IF S = {} THEN 0
              ELSE f[Pick(S)] + SumFunctionOnSet(f, S \ {Pick(S)})
<1>1. PICK g : Sums(g, f, S)
  BY SumsExist
<1>2. g[S] = Summed(g, f, S)
  BY <1>1 DEF Sums, Summed
<1>3. SumFunctionOnSet(f, S) = g[S]
  BY <1>1, SumIsSummed
<1>4. SumFunctionOnSet(f, S \ {Pick(S)}) = g[S \ {Pick(S)}]
  BY <1>1, SumIsSummed
<1> QED
  BY <1>2, <1>3, <1>4 DEF Summed

LEMMA SumOfEmpty == ASSUME NEW f PROVE SumFunctionOnSet(f, {}) = 0
BY SumUnfolds, FS_EmptySet

\* Functions that agree on a set have one sum over it.
LEMMA SumIsLocal ==
    ASSUME NEW S, IsFiniteSet(S), NEW f, NEW d, \A x \in S : f[x] = d[x]
    PROVE  SumFunctionOnSet(f, S) = SumFunctionOnSet(d, S)
<1>1. PICK g : Sums(g, f, S)
  BY SumsExist
<1>2. PICK h : Sums(h, d, S)
  BY SumsExist
<1>3. g[S] = h[S]
  BY <1>1, <1>2, SumsAgree
<1> QED
  BY <1>1, <1>2, <1>3, SumIsSummed

-----------------------------------------------------------------------------
(* Sums of integers.                                                       *)

\* A sum of numbers of V is one of V, if V is closed under addition.
LEMMA SumIsTyped ==
    ASSUME NEW V, 0 \in V, \A a, b \in V : a + b \in V,
           NEW S, IsFiniteSet(S), NEW f, \A x \in S : f[x] \in V
    PROVE  SumFunctionOnSet(f, S) \in V
<1> DEFINE Good == {n \in Nat : \A s \in SUBSET S : Cardinality(s) = n =>
                                   SumFunctionOnSet(f, s) \in V}
<1>1. 0 \in Good
  BY SumOfEmpty, SmallerSubsets
<1>2. ASSUME NEW n \in Good PROVE n + 1 \in Good
  <2> SUFFICES ASSUME NEW s \in SUBSET S, Cardinality(s) = n + 1
               PROVE  SumFunctionOnSet(f, s) \in V
    BY <1>2
  <2>1. n \in Nat /\ s # {} /\ IsFiniteSet(s)
    BY <1>2, SmallerSubsets
  <2>2. Pick(s) \in s
    BY <2>1, PickIsIn
  <2>3. Cardinality(s \ {Pick(s)}) = n
    BY <2>1, <2>2, SmallerSubsets
  <2>4. SumFunctionOnSet(f, s \ {Pick(s)}) \in V
    BY <1>2, <2>3
  <2> QED
    BY <2>1, <2>2, <2>4, SumUnfolds
<1>3. Good = Nat
  <2> HIDE DEF Good
  <2>1. Good \in SUBSET Nat
    BY DEF Good
  <2> QED
    BY <1>1, <1>2, <2>1, InductionOnNumbers
<1>4. Cardinality(S) \in Nat
  BY FS_CardinalityType
<1> QED
  BY <1>3, <1>4

\* The order in which the elements are added does not matter.
LEMMA SumTakesAny ==
    ASSUME NEW S, IsFiniteSet(S), NEW f, \A x \in S : f[x] \in Int, NEW y \in S
    PROVE  SumFunctionOnSet(f, S) = f[y] + SumFunctionOnSet(f, S \ {y})
<1> DEFINE Sum(s) == SumFunctionOnSet(f, s)
           Good == {n \in Nat : \A s \in SUBSET S : Cardinality(s) = n =>
                                   \A x \in s : Sum(s) = f[x] + Sum(s \ {x})}
<1>1. \A s \in SUBSET S : Sum(s) \in Int
  BY SumIsTyped, FS_Subset
<1> HIDE DEF Sum
<1>2. 0 \in Good
  BY SmallerSubsets
<1>3. ASSUME NEW n \in Good PROVE n + 1 \in Good
  <2> SUFFICES ASSUME NEW s \in SUBSET S, Cardinality(s) = n + 1, NEW x \in s
               PROVE  Sum(s) = f[x] + Sum(s \ {x})
    BY <1>3
  <2>1. n \in Nat /\ IsFiniteSet(s)
    BY <1>3, SmallerSubsets
  <2> DEFINE p == Pick(s)
  <2>2. p \in s
    BY PickIsIn
  <2>3. Sum(s) = f[p] + Sum(s \ {p})
    BY <2>1, SumUnfolds DEF Sum
  <2> HIDE DEF p
  <2>4. ASSUME x # p PROVE Sum(s) = f[x] + Sum(s \ {x})
    <3>1. /\ s \ {p} \in SUBSET S /\ Cardinality(s \ {p}) = n
          /\ s \ {x} \in SUBSET S /\ Cardinality(s \ {x}) = n
      BY <2>1, <2>2, SmallerSubsets
    <3>2. Sum(s \ {p}) = f[x] + Sum((s \ {p}) \ {x})
      BY <1>3, <2>4, <3>1
    <3>3. Sum(s \ {x}) = f[p] + Sum((s \ {x}) \ {p})
      BY <1>3, <2>2, <2>4, <3>1
    <3> DEFINE rest == Sum((s \ {x}) \ {p})
    <3>4. (s \ {p}) \ {x} = (s \ {x}) \ {p}
      OBVIOUS
    <3>5. f[x] \in Int /\ f[p] \in Int /\ rest \in Int
      BY <1>1, <2>2
    <3>6. Sum(s \ {p}) = f[x] + rest /\ Sum(s \ {x}) = f[p] + rest
      BY <3>2, <3>3, <3>4
    <3> HIDE DEF rest
    <3>7. Sum(s) = f[p] + (f[x] + rest) /\ f[x] + Sum(s \ {x}) = f[x] + (f[p] + rest)
      BY <2>3, <3>6
    <3>8. f[p] + (f[x] + rest) = f[x] + (f[p] + rest)
      BY <3>5
    <3> QED
      BY <3>7, <3>8
  <2> QED
    BY <2>3, <2>4
<1>4. Good = Nat
  <2> HIDE DEF Good
  <2>1. Good \in SUBSET Nat
    BY DEF Good
  <2> QED
    BY <1>2, <1>3, <2>1, InductionOnNumbers
<1>5. Cardinality(S) \in Nat
  BY FS_CardinalityType
<1>6. Sum(S) = f[y] + Sum(S \ {y})
  BY <1>4, <1>5
<1> QED
  BY <1>6 DEF Sum

LEMMA SumAddsOne ==
    ASSUME NEW S, IsFiniteSet(S), NEW y, y \notin S,
           NEW f, \A x \in S \cup {y} : f[x] \in Int
    PROVE  SumFunctionOnSet(f, S \cup {y}) = f[y] + SumFunctionOnSet(f, S)
<1>1. IsFiniteSet(S \cup {y})
  BY FS_AddElement
<1>2. (S \cup {y}) \ {y} = S
  OBVIOUS
<1> QED
  BY <1>1, <1>2, SumTakesAny

\* A set that is taken apart.
LEMMA SumOfParts ==
    ASSUME NEW S, IsFiniteSet(S), NEW T, IsFiniteSet(T), S \cap T = {},
           NEW f, \A x \in S \cup T : f[x] \in Int
    PROVE  SumFunctionOnSet(f, S \cup T) = SumFunctionOnSet(f, S) + SumFunctionOnSet(f, T)
<1> DEFINE Sum(s) == SumFunctionOnSet(f, s)
           Good == {s \in SUBSET T : Sum(S \cup s) = Sum(S) + Sum(s)}
<1>1. \A s \in SUBSET T : /\ IsFiniteSet(s) /\ IsFiniteSet(S \cup s)
                          /\ Sum(s) \in Int /\ Sum(S \cup s) \in Int
  <2>1. \A s \in SUBSET T : IsFiniteSet(s) /\ IsFiniteSet(S \cup s)
    BY FS_Subset, FS_Union
  <2>2. 0 \in Int /\ \A a, b \in Int : a + b \in Int
    OBVIOUS
  <2>3. ASSUME NEW s \in SUBSET T PROVE Sum(s) \in Int
    BY <2>1, <2>2, SumIsTyped
  <2>4. ASSUME NEW s \in SUBSET T PROVE Sum(S \cup s) \in Int
    <3>1. \A x \in S \cup s : f[x] \in Int
      OBVIOUS
    <3> QED
      BY <2>1, <2>2, <3>1, SumIsTyped
  <2> QED
    BY <2>1, <2>3, <2>4
<1>2. Sum(S) \in Int
  <2>1. S \cup {} = S
    OBVIOUS
  <2> QED
    BY <1>1, <2>1
<1>3. {} \in Good
  <2>1. S \cup {} = S /\ Sum({}) = 0
    BY SumOfEmpty
  <2> QED
    BY <1>2, <2>1
<1>4. ASSUME NEW s \in Good, NEW x \in T \ s PROVE s \cup {x} \in Good
  <2>1. Sum(s \cup {x}) = f[x] + Sum(s)
    BY <1>1, <1>4, SumAddsOne
  <2>2. Sum((S \cup s) \cup {x}) = f[x] + Sum(S \cup s)
    BY <1>1, <1>4, SumAddsOne
  <2>3. S \cup (s \cup {x}) = (S \cup s) \cup {x}
    OBVIOUS
  <2>4. f[x] \in Int /\ Sum(s) \in Int
    BY <1>1
  <2>5. Sum(S \cup s) = Sum(S) + Sum(s)
    BY <1>4
  <2> HIDE DEF Sum
  <2>6. Sum(S \cup (s \cup {x})) = f[x] + (Sum(S) + Sum(s))
    BY <2>2, <2>3, <2>5
  <2>7. f[x] + (Sum(S) + Sum(s)) = Sum(S) + (f[x] + Sum(s))
    BY <1>2, <2>4
  <2>8. Sum(S \cup (s \cup {x})) = Sum(S) + Sum(s \cup {x})
    BY <2>1, <2>6, <2>7
  <2> QED
    BY <1>4, <2>8
<1> HIDE DEF Sum
<1>5. T \in Good
  <2> HIDE DEF Good
  <2>1. Good \in SUBSET SUBSET T
    BY DEF Good
  <2> QED
    BY <1>3, <1>4, <2>1, InductionOnSubsets
<1> QED
  BY <1>5 DEF Sum

\* A sum over the images of a set, each of which is the image of one element.
LEMMA ImageIsFinite ==
    ASSUME NEW S, IsFiniteSet(S), NEW h
    PROVE  /\ IsFiniteSet({h[x] : x \in S})
           /\ (\A x, y \in S : h[x] = h[y] => x = y)
                 => Cardinality({h[x] : x \in S}) = Cardinality(S)
<1> DEFINE T == {h[x] : x \in S}
           m == [x \in S |-> h[x]]
<1>1. m \in Surjection(S, T)
  BY DEF Surjection
<1>2. (\A x, y \in S : h[x] = h[y] => x = y) => m \in Injection(S, T)
  BY DEF Injection, IsInjective
<1> HIDE DEF m
<1> QED
  BY <1>1, <1>2, FS_Surjection

LEMMA SumOfImage ==
    ASSUME NEW S, IsFiniteSet(S), NEW h, \A x, y \in S : h[x] = h[y] => x = y,
           NEW f, NEW g, \A x \in S : f[x] \in Int /\ g[h[x]] = f[x]
    PROVE  SumFunctionOnSet(g, {h[x] : x \in S}) = SumFunctionOnSet(f, S)
<1> DEFINE Image(s) == {h[x] : x \in s}
           Good == {s \in SUBSET S : SumFunctionOnSet(g, Image(s)) = SumFunctionOnSet(f, s)}
<1>1. {} \in Good
  <2>1. Image({}) = {}
    OBVIOUS
  <2> QED
    BY <2>1, SumOfEmpty
<1>2. ASSUME NEW s \in Good, NEW x \in S \ s PROVE s \cup {x} \in Good
  <2>1. IsFiniteSet(s) /\ IsFiniteSet(Image(s))
    BY FS_Subset, ImageIsFinite
  <2>2. Image(s \cup {x}) = Image(s) \cup {h[x]} /\ h[x] \notin Image(s)
    OBVIOUS
  <2>3. SumFunctionOnSet(f, s \cup {x}) = f[x] + SumFunctionOnSet(f, s)
    BY <2>1, SumAddsOne
  <2>4. \A t \in Image(s) \cup {h[x]} : g[t] \in Int
    OBVIOUS
  <2> HIDE DEF Image
  <2>5. SumFunctionOnSet(g, Image(s) \cup {h[x]}) = g[h[x]] + SumFunctionOnSet(g, Image(s))
    BY <2>1, <2>2, <2>4, SumAddsOne
  <2>6. g[h[x]] = f[x] /\ SumFunctionOnSet(g, Image(s)) = SumFunctionOnSet(f, s)
    OBVIOUS
  <2>7. SumFunctionOnSet(g, Image(s \cup {x})) = SumFunctionOnSet(f, s \cup {x})
    BY <2>2, <2>3, <2>5, <2>6
  <2> QED
    BY <2>7
<1>3. S \in Good
  <2> HIDE DEF Good
  <2>1. Good \in SUBSET SUBSET S
    BY DEF Good
  <2> QED
    BY <1>1, <1>2, <2>1, InductionOnSubsets
<1> QED
  BY <1>3

\* A sum by groups: those of the elements x with one key k[x].
OfKey(S, k, v) == {x \in S : k[x] = v}

LEMMA SumByKey ==
    ASSUME NEW S, IsFiniteSet(S), NEW k, NEW f, \A x \in S : f[x] \in Int, NEW g,
           \A v \in {k[x] : x \in S} : g[v] = SumFunctionOnSet(f, OfKey(S, k, v))
    PROVE  SumFunctionOnSet(g, {k[x] : x \in S}) = SumFunctionOnSet(f, S)
<1> DEFINE K == {k[x] : x \in S}
           Of(s) == {x \in S : k[x] \in s}
           Good == {s \in SUBSET K : SumFunctionOnSet(g, s) = SumFunctionOnSet(f, Of(s))}
<1>1. IsFiniteSet(K)
  BY ImageIsFinite
<1>2. {} \in Good
  <2>1. Of({}) = {}
    OBVIOUS
  <2> QED
    BY <2>1, SumOfEmpty
<1>3. ASSUME NEW s \in Good, NEW v \in K \ s PROVE s \cup {v} \in Good
  <2> DEFINE group == OfKey(S, k, v)
  <2>1. IsFiniteSet(s) /\ IsFiniteSet(Of(s)) /\ IsFiniteSet(group)
    BY <1>1, FS_Subset DEF OfKey
  <2>2. Of(s \cup {v}) = group \cup Of(s) /\ group \cap Of(s) = {}
    BY DEF OfKey
  <2>3. \A x \in group \cup Of(s) : f[x] \in Int
    BY DEF OfKey
  <2>4. \A w \in s \cup {v} : g[w] \in Int
    <3> TAKE w \in s \cup {v}
    <3>1. IsFiniteSet(OfKey(S, k, w)) /\ \A x \in OfKey(S, k, w) : f[x] \in Int
      BY FS_Subset DEF OfKey
    <3>2. 0 \in Int /\ \A a, b \in Int : a + b \in Int
      OBVIOUS
    <3>3. SumFunctionOnSet(f, OfKey(S, k, w)) \in Int
      BY <3>1, <3>2, SumIsTyped
    <3>4. w \in K
      OBVIOUS
    <3> QED
      BY <3>3, <3>4
  <2>5. g[v] = SumFunctionOnSet(f, group)
    OBVIOUS
  <2> HIDE DEF Of, group
  <2>6. SumFunctionOnSet(f, group \cup Of(s))
          = SumFunctionOnSet(f, group) + SumFunctionOnSet(f, Of(s))
    BY <2>1, <2>2, <2>3, SumOfParts
  <2>7. SumFunctionOnSet(g, s \cup {v}) = g[v] + SumFunctionOnSet(g, s)
    BY <2>1, <2>4, SumAddsOne
  <2>8. SumFunctionOnSet(g, s) = SumFunctionOnSet(f, Of(s))
    OBVIOUS
  <2>9. SumFunctionOnSet(g, s \cup {v}) = SumFunctionOnSet(f, Of(s \cup {v}))
    BY <2>2, <2>5, <2>6, <2>7, <2>8
  <2> QED
    BY <2>9
<1>4. K \in Good
  <2> HIDE DEF Good
  <2>1. Good \in SUBSET SUBSET K
    BY DEF Good
  <2> QED
    BY <1>1, <1>2, <1>3, <2>1, InductionOnSubsets
<1>5. Of(K) = S
  OBVIOUS
<1> QED
  BY <1>4, <1>5

LEMMA SumIsMonotone ==
    ASSUME NEW S, IsFiniteSet(S), NEW f, NEW d,
           \A x \in S : f[x] \in Int /\ d[x] \in Int /\ f[x] <= d[x]
    PROVE  SumFunctionOnSet(f, S) <= SumFunctionOnSet(d, S)
<1> DEFINE Good == {s \in SUBSET S : SumFunctionOnSet(f, s) <= SumFunctionOnSet(d, s)}
<1>1. {} \in Good
  BY SumOfEmpty
<1>2. ASSUME NEW s \in Good, NEW x \in S \ s PROVE s \cup {x} \in Good
  <2>1. IsFiniteSet(s)
    BY FS_Subset
  <2>2. /\ SumFunctionOnSet(f, s \cup {x}) = f[x] + SumFunctionOnSet(f, s)
        /\ SumFunctionOnSet(d, s \cup {x}) = d[x] + SumFunctionOnSet(d, s)
    BY <2>1, SumAddsOne
  <2>3. 0 \in Int /\ \A a, b \in Int : a + b \in Int
    OBVIOUS
  <2>4. SumFunctionOnSet(f, s) \in Int /\ SumFunctionOnSet(d, s) \in Int
    BY <2>1, <2>3, SumIsTyped
  <2>5. SumFunctionOnSet(f, s) <= SumFunctionOnSet(d, s) /\ f[x] <= d[x]
    OBVIOUS
  <2>6. SumFunctionOnSet(f, s \cup {x}) <= SumFunctionOnSet(d, s \cup {x})
    BY <2>2, <2>4, <2>5
  <2> QED
    BY <2>6
<1>3. S \in Good
  <2> HIDE DEF Good
  <2>1. Good \in SUBSET SUBSET S
    BY DEF Good
  <2> QED
    BY <1>1, <1>2, <2>1, InductionOnSubsets
<1> QED
  BY <1>3

LEMMA SumIsScaled ==
    ASSUME NEW S, IsFiniteSet(S), NEW c \in Int, NEW f, NEW d,
           \A x \in S : f[x] \in Int /\ d[x] = c * f[x]
    PROVE  SumFunctionOnSet(d, S) = c * SumFunctionOnSet(f, S)
<1> DEFINE Good == {s \in SUBSET S : SumFunctionOnSet(d, s) = c * SumFunctionOnSet(f, s)}
<1>1. {} \in Good
  BY SumOfEmpty
<1>2. ASSUME NEW s \in Good, NEW x \in S \ s PROVE s \cup {x} \in Good
  <2>1. IsFiniteSet(s)
    BY FS_Subset
  <2>2. 0 \in Int /\ \A a, b \in Int : a + b \in Int
    OBVIOUS
  <2>3. SumFunctionOnSet(f, s) \in Int
    BY <2>1, <2>2, SumIsTyped
  <2>4. \A y \in s \cup {x} : d[y] \in Int
    OBVIOUS
  <2>5. /\ SumFunctionOnSet(f, s \cup {x}) = f[x] + SumFunctionOnSet(f, s)
        /\ SumFunctionOnSet(d, s \cup {x}) = d[x] + SumFunctionOnSet(d, s)
    BY <2>1, <2>4, SumAddsOne
  <2>6. c * (f[x] + SumFunctionOnSet(f, s)) = c * f[x] + c * SumFunctionOnSet(f, s)
    BY <2>3
  <2>7. SumFunctionOnSet(d, s \cup {x}) = c * SumFunctionOnSet(f, s \cup {x})
    BY <2>5, <2>6
  <2> QED
    BY <2>7
<1>3. S \in Good
  <2> HIDE DEF Good
  <2>1. Good \in SUBSET SUBSET S
    BY DEF Good
  <2> QED
    BY <1>1, <1>2, <2>1, InductionOnSubsets
<1> QED
  BY <1>3

-----------------------------------------------------------------------------
(* Ends of finite ordered sets.                                            *)

\* A finite set in a total order has a first element.
LEMMA OrderHasFirst ==
    ASSUME NEW S, IsFiniteSet(S), S # {}, NEW R,
           \A x, y \in S : x = y \/ <<x, y>> \in R \/ <<y, x>> \in R,
           \A x, y, z \in S : <<x, y>> \in R /\ <<y, z>> \in R => <<x, z>> \in R
    PROVE  \E x \in S : \A y \in S : y = x \/ <<x, y>> \in R
<1> DEFINE Leads(x, s) == \A y \in s : y = x \/ <<x, y>> \in R
           Good == {s \in SUBSET S : s = {} \/ \E x \in s : Leads(x, s)}
<1>1. {} \in Good
  OBVIOUS
<1>2. ASSUME NEW s \in Good, NEW z \in S \ s PROVE s \cup {z} \in Good
  <2>1. CASE s = {}
    BY <2>1
  <2>2. CASE s # {}
    <3>1. PICK x \in s : Leads(x, s)
      BY <2>2
    <3>2. CASE <<x, z>> \in R
      BY <3>1, <3>2
    <3>3. CASE <<z, x>> \in R
      <4>1. \A y \in s : <<z, y>> \in R
        BY <3>1, <3>3
      <4> QED
        BY <4>1
    <3> QED
      BY <3>2, <3>3
  <2> QED
    BY <2>1, <2>2
<1>3. S \in Good
  <2> HIDE DEF Good
  <2>1. Good \in SUBSET SUBSET S
    BY DEF Good
  <2> QED
    BY <1>1, <1>2, <2>1, InductionOnSubsets
<1> QED
  BY <1>3

LEMMA MaxAndMin ==
    ASSUME NEW S \in SUBSET Int, IsFiniteSet(S), S # {}
    PROVE  /\ Max(S) \in S /\ \A x \in S : x <= Max(S)
           /\ Min(S) \in S /\ \A x \in S : Min(S) <= x
<1> DEFINE Up == {pair \in S \X S : pair[1] < pair[2]}
           Down == {pair \in S \X S : pair[1] > pair[2]}
<1>1. \A x, y \in S : (<<x, y>> \in Up <=> x < y) /\ (<<x, y>> \in Down <=> x > y)
  OBVIOUS
<1>0. \A x \in S : x \in Int
  OBVIOUS
<1> HIDE DEF Up, Down
<1>2. \E x \in S : \A y \in S : y = x \/ <<x, y>> \in Up
  <2>1. ASSUME NEW x \in S, NEW y \in S PROVE x = y \/ <<x, y>> \in Up \/ <<y, x>> \in Up
    <3>1. x = y \/ x < y \/ y < x
      BY <1>0
    <3> QED
      BY <1>1, <3>1
  <2>2. \A x, y, z \in S : <<x, y>> \in Up /\ <<y, z>> \in Up => <<x, z>> \in Up
    BY <1>0, <1>1
  <2> QED
    BY <2>1, <2>2, OrderHasFirst
<1>3. \E x \in S : \A y \in S : y = x \/ <<x, y>> \in Down
  <2>1. ASSUME NEW x \in S, NEW y \in S PROVE x = y \/ <<x, y>> \in Down \/ <<y, x>> \in Down
    <3>1. x = y \/ x > y \/ y > x
      BY <1>0
    <3> QED
      BY <1>1, <3>1
  <2>2. \A x, y, z \in S : <<x, y>> \in Down /\ <<y, z>> \in Down => <<x, z>> \in Down
    BY <1>0, <1>1
  <2> QED
    BY <2>1, <2>2, OrderHasFirst
<1>4. \E x \in S : \A y \in S : x <= y
  <2>1. PICK x \in S : \A y \in S : y = x \/ <<x, y>> \in Up
    BY <1>2
  <2>2. ASSUME NEW y \in S PROVE x <= y
    <3>1. y = x \/ x < y
      BY <1>1, <2>1
    <3> QED
      BY <1>0, <3>1
  <2> QED
    BY <2>2
<1>5. \E x \in S : \A y \in S : x >= y
  <2>1. PICK x \in S : \A y \in S : y = x \/ <<x, y>> \in Down
    BY <1>3
  <2>2. ASSUME NEW y \in S PROVE x >= y
    <3>1. y = x \/ x > y
      BY <1>1, <2>1
    <3> QED
      BY <1>0, <3>1
  <2> QED
    BY <2>2
<1> QED
  BY <1>4, <1>5 DEF Max, Min
=============================================================================
