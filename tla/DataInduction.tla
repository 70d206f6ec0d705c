--------------------------- MODULE DataInduction ---------------------------
(***************************************************************************)
(* Induction, recursion and sums over finite sets, as lemmas whose         *)
(* parameters are sets and functions: induction over a set of numbers and  *)
(* over the subsets of a finite set, existence of a function defined by    *)
(* recursion over subsets, and what SumFunctionOnSet of the community      *)
(* module Functions computes.                                              *)
(***************************************************************************)
EXTENDS FiniteSetsExt, FiniteSetTheorems, WellFoundedInduction, TLAPS

\* A nonempty set of natural numbers has a least element.
LEMMA LeastNumber ==
  ASSUME NEW T \in SUBSET Nat, T # {}
  PROVE  \E x \in T : \A y \in T : x <= y
<1> DEFINE R == {ss \in Nat \X Nat : ss[1] < ss[2]}
<1>1. IsWellFoundedOn(R, Nat)
  BY NatLessThanWellFounded DEF OpToRel
<1>2. \E x \in T : \A y \in T : ~(<<y, x>> \in R)
  <2> HIDE DEF R
  <2> QED BY <1>1, WFMin
<1>3. PICK x \in T : \A y \in T : ~(<<y, x>> \in R)
  BY <1>2
<1>4. ASSUME NEW y \in T PROVE x <= y
  BY <1>3, x \in Nat, y \in Nat, <<y, x>> \in Nat \X Nat
<1> QED BY <1>4

\* Induction: a set with zero and with every successor holds every number.
LEMMA NatSetInduction ==
  ASSUME NEW S, 0 \in S, \A n \in Nat : n \in S => n + 1 \in S
  PROVE  Nat \subseteq S
<1> SUFFICES ASSUME Nat \ S # {} PROVE FALSE
  OBVIOUS
<1>1. PICK m \in Nat \ S : \A y \in Nat \ S : m <= y
  BY LeastNumber
<1>2. m # 0 /\ m - 1 \in Nat /\ m - 1 \in S
  BY <1>1
<1> QED BY <1>1, <1>2

\* A nonempty set of natural numbers below a bound has a greatest element.
LEMMA GreatestNumber ==
  ASSUME NEW n \in Nat, NEW s \in SUBSET (0 .. n), s # {}
  PROVE  Max(s) \in s /\ \A y \in s : y <= Max(s)
<1> DEFINE U == {k \in Nat : \A y \in s : y <= k}
<1>1. PICK m \in U : \A k \in U : m <= k
  <2>1. n \in U
    OBVIOUS
  <2> QED BY <2>1, LeastNumber
<1>2. m \in s
  <2> SUFFICES ASSUME m \notin s PROVE FALSE
    OBVIOUS
  <2>1. \A y \in s : y \in Nat /\ y < m
    BY <1>1
  <2>2. m - 1 \in U
    <3>1. PICK x \in s : TRUE
      OBVIOUS
    <3>2. m - 1 \in Nat
      BY <1>1, <2>1, <3>1
    <3> QED BY <1>1, <2>1, <3>2
  <2> QED BY <1>1, <2>2
<1>3. \E x \in s : \A y \in s : x >= y
  BY <1>1, <1>2
<1>4. Max(s) \in s /\ \A y \in s : Max(s) >= y
  BY <1>3 DEF Max
<1> QED BY <1>4

\* Induction over a finite set, from what is left when one element is removed.
LEMMA SubsetInduction ==
  ASSUME NEW D, IsFiniteSet(D), NEW C,
         \A s \in SUBSET D : (\A x \in s : s \ {x} \in C) => s \in C
  PROVE  SUBSET D \subseteq C
<1> DEFINE L(n) == {s \in SUBSET D : Cardinality(s) <= n}
           N == {n \in Nat : L(n) \subseteq C}
<1>1. \A s \in SUBSET D : IsFiniteSet(s) /\ Cardinality(s) \in Nat
  BY FS_Subset, FS_CardinalityType
<1>2. 0 \in N
  <2>1. ASSUME NEW s \in L(0) PROVE s \in C
    <3>1. s = {}
      BY <1>1, FS_EmptySet
    <3> QED BY <3>1
  <2> QED BY <2>1
<1>3. ASSUME NEW n \in Nat, n \in N PROVE n + 1 \in N
  <2>1. ASSUME NEW s \in L(n + 1) PROVE s \in C
    <3>1. ASSUME NEW x \in s PROVE s \ {x} \in C
      <4>1. Cardinality(s \ {x}) = Cardinality(s) - 1
        BY <1>1, FS_RemoveElement
      <4> QED BY <1>1, <1>3, <4>1
    <3> QED BY <3>1
  <2> QED BY <2>1
<1>4. Nat \subseteq N
  <2> HIDE DEF N
  <2> QED BY <1>2, <1>3, NatSetInduction
<1>5. ASSUME NEW s \in SUBSET D PROVE s \in C
  <2>1. Cardinality(s) \in N
    BY <1>1, <1>4
  <2> QED BY <1>1, <2>1
<1> QED BY <1>5

\* A recursion over the subsets of D that takes one element away at a time.
FoldArguments(D, V, base, pick, g) ==
  /\ base \in V
  /\ \A s \in SUBSET D : s # {} => pick[s] \in s
  /\ \A s \in SUBSET D : \A v \in V : s # {} => g[s][v] \in V
FoldSpec(it, D, base, pick, g) ==
  \A s \in SUBSET D : it[s] = IF s = {} THEN base ELSE g[s][it[s \ {pick[s]}]]

\* The recursion has a solution.
LEMMA FoldExists ==
  ASSUME NEW D, IsFiniteSet(D), NEW V, NEW base, NEW pick, NEW g,
         FoldArguments(D, V, base, pick, g)
  PROVE  \E it \in [SUBSET D -> V] : FoldSpec(it, D, base, pick, g)
<1> USE DEF FoldArguments, FoldSpec
<1> DEFINE L(n) == {s \in SUBSET D : Cardinality(s) <= n}
           Val(it, s) == IF s = {} THEN base ELSE g[s][it[s \ {pick[s]}]]
           Sol(it, n) == \A s \in L(n) : it[s] = Val(it, s)
           N == {n \in Nat : \E it \in [L(n) -> V] : Sol(it, n)}
<1>1. \A s \in SUBSET D : IsFiniteSet(s) /\ Cardinality(s) \in Nat
  BY FS_Subset, FS_CardinalityType
<1>1a. \A s \in SUBSET D : s # {} => Cardinality(s \ {pick[s]}) = Cardinality(s) - 1
  BY <1>1, FS_RemoveElement
<1>1b. \A s \in SUBSET D : Cardinality(s) = 0 <=> s = {}
  BY <1>1, FS_EmptySet
<1>2. 0 \in N
  <2> DEFINE it == [s \in L(0) |-> base]
  <2>1. it \in [L(0) -> V]
    OBVIOUS
  <2>2. Sol(it, 0)
    BY <1>1, <1>1b
  <2> QED BY <2>1, <2>2
<1>3. ASSUME NEW n \in Nat, n \in N PROVE n + 1 \in N
  <2>1. PICK it \in [L(n) -> V] : Sol(it, n)
    BY <1>3
  <2> DEFINE jt == [s \in L(n + 1) |-> IF s \in L(n) THEN it[s] ELSE Val(it, s)]
  <2>2. \A s \in L(n + 1) : s = {} \/ s \ {pick[s]} \in L(n)
    BY <1>1, <1>1a
  <2>3. jt \in [L(n + 1) -> V]
    <3>1. ASSUME NEW s \in L(n + 1) PROVE jt[s] \in V
      <4>1. CASE s \in L(n)
        BY <4>1
      <4>2. CASE s \notin L(n) /\ s = {}
        BY <4>2
      <4>3. CASE s \notin L(n) /\ s # {}
        <5>1. it[s \ {pick[s]}] \in V
          BY <2>2, <4>3
        <5> QED BY <4>3, <5>1
      <4> QED BY <4>1, <4>2, <4>3
    <3> QED BY <3>1
  <2>4. Sol(jt, n + 1)
    <3>1. ASSUME NEW s \in L(n + 1) PROVE jt[s] = Val(jt, s)
      <4>1. CASE s = {}
        <5>1. s \in L(n)
          BY <1>1b, <4>1
        <5> QED BY <2>1, <4>1, <5>1
      <4>2. CASE s # {}
        <5>1. s \ {pick[s]} \in L(n) /\ s \ {pick[s]} \in L(n + 1)
          BY <1>1, <2>2, <4>2
        <5>2. jt[s \ {pick[s]}] = it[s \ {pick[s]}]
          BY <5>1
        <5>3. jt[s] = Val(it, s)
          BY <2>1
        <5> QED BY <4>2, <5>2, <5>3
      <4> QED BY <4>1, <4>2
    <3> QED BY <3>1
  <2> HIDE DEF jt, L, Sol
  <2> QED BY <2>3, <2>4
<1>4. Cardinality(D) \in N
  <2>1. Nat \subseteq N
    <3> HIDE DEF N
    <3> QED BY <1>2, <1>3, NatSetInduction
  <2> QED BY <1>1, <2>1
<1>5. L(Cardinality(D)) = SUBSET D
  BY <1>1, FS_Subset
<1> QED BY <1>4, <1>5

\* A recursion along the numbers up to n has a solution.
PrefixArguments(n, V, base, g) ==
  n \in Nat /\ base \in V /\ \A i \in 1 .. n : \A v \in V : g[i][v] \in V
PrefixSpec(f, n, base, g) == f[0] = base /\ \A i \in 1 .. n : f[i] = g[i][f[i - 1]]
LEMMA PrefixFold ==
  ASSUME NEW n, NEW V, NEW base, NEW g, PrefixArguments(n, V, base, g)
  PROVE  \E f \in [0 .. n -> V] : PrefixSpec(f, n, base, g)
<1> USE DEF PrefixArguments, PrefixSpec
<1> DEFINE Sol(f, m) == f[0] = base /\ \A i \in 1 .. m : f[i] = g[i][f[i - 1]]
           N == {m \in Nat : m <= n => \E f \in [0 .. m -> V] : Sol(f, m)}
<1>1. 0 \in N
  <2> DEFINE f == [i \in 0 .. 0 |-> base]
  <2>1. f \in [0 .. 0 -> V] /\ Sol(f, 0)
    OBVIOUS
  <2> QED BY <2>1
<1>2. ASSUME NEW m \in Nat, m \in N PROVE m + 1 \in N
  <2>1. SUFFICES ASSUME m + 1 <= n PROVE \E f \in [0 .. (m + 1) -> V] : Sol(f, m + 1)
    OBVIOUS
  <2>2. PICK f \in [0 .. m -> V] : Sol(f, m)
    BY <1>2, <2>1
  <2> DEFINE h == [i \in 0 .. (m + 1) |-> IF i <= m THEN f[i] ELSE g[m + 1][f[m]]]
  <2>3. g[m + 1][f[m]] \in V
    BY <2>1, <2>2
  <2>4. h \in [0 .. (m + 1) -> V]
    BY <2>2, <2>3
  <2>5. Sol(h, m + 1)
    <3>1. h[0] = base
      BY <2>2
    <3>2. ASSUME NEW i \in 1 .. (m + 1) PROVE h[i] = g[i][h[i - 1]]
      <4>1. CASE i <= m
        BY <2>2, <4>1
      <4>2. CASE i = m + 1
        BY <4>2
      <4> QED BY <4>1, <4>2
    <3> QED BY <3>1, <3>2
  <2> QED BY <2>4, <2>5
<1>3. n \in N
  <2> HIDE DEF N
  <2> QED BY <1>1, <1>2, NatSetInduction
<1> QED BY <1>3

\* Functions that agree everywhere are equal.
LEMMA SameFunction ==
  ASSUME NEW D, NEW f, NEW g, f = [x \in D |-> f[x]], g = [x \in D |-> g[x]],
         \A x \in D : f[x] = g[x]
  PROVE  f = g
OBVIOUS

-----------------------------------------------------------------------------
(* Sums *)

\* The element the library's definition takes out first.
Chosen(s) == CHOOSE x \in s : TRUE

IsSum(it, f, D) ==
  it = [s \in SUBSET D |-> IF s = {} THEN 0 ELSE f[Chosen(s)] + it[s \ {Chosen(s)}]]

\* The recursion behind a sum has a solution, and only integers in it.
LEMMA SumExists ==
  ASSUME NEW D, IsFiniteSet(D), NEW f, \A x \in D : f[x] \in Int
  PROVE  /\ \E it : IsSum(it, f, D)
         /\ \A it : IsSum(it, f, D) => \A s \in SUBSET D : it[s] \in Int
<1> DEFINE pick == [s \in SUBSET D |-> Chosen(s)]
           g == [s \in SUBSET D |-> [v \in Int |-> f[Chosen(s)] + v]]
<1>1. \A s \in SUBSET D : s # {} => pick[s] \in s
  BY DEF Chosen
<1>2. \A s \in SUBSET D : s # {} => f[Chosen(s)] \in Int
  BY DEF Chosen
<1>3. \A s \in SUBSET D : \A v \in Int : s # {} => g[s][v] \in Int
  BY <1>2
<1>4. ASSUME NEW it, IsSum(it, f, D), NEW s \in SUBSET D PROVE it[s] \in Int
  <2> DEFINE C == {t \in SUBSET D : it[t] \in Int}
  <2>1. ASSUME NEW t \in SUBSET D, \A x \in t : t \ {x} \in C PROVE t \in C
    <3>1. it[t] = IF t = {} THEN 0 ELSE f[Chosen(t)] + it[t \ {Chosen(t)}]
      BY <1>4 DEF IsSum
    <3>2. t # {} => Chosen(t) \in t
      BY DEF Chosen
    <3>3. CASE t = {}
      BY <3>1, <3>3
    <3>4. CASE t # {}
      <4>1. it[t \ {Chosen(t)}] \in Int /\ f[Chosen(t)] \in Int
        BY <1>2, <2>1, <3>2, <3>4
      <4> QED BY <3>1, <3>4, <4>1
    <3> QED BY <3>3, <3>4
  <2>2. SUBSET D \subseteq C
    <3> HIDE DEF C
    <3> QED BY <2>1, SubsetInduction
  <2> QED BY <2>2
<1>5. PICK it \in [SUBSET D -> Int] : FoldSpec(it, D, 0, pick, g)
  <2> HIDE DEF g, pick
  <2>1. FoldArguments(D, Int, 0, pick, g)
    BY <1>1, <1>3 DEF FoldArguments
  <2> QED BY <2>1, FoldExists
<1>6. IsSum(it, f, D)
  <2> DEFINE jt == [s \in SUBSET D |-> IF s = {} THEN 0 ELSE f[Chosen(s)] + it[s \ {Chosen(s)}]]
  <2>1. \A s \in SUBSET D : it[s] = jt[s]
    BY <1>5 DEF FoldSpec
  <2>2. it = [s \in SUBSET D |-> it[s]] /\ jt = [s \in SUBSET D |-> jt[s]]
    OBVIOUS
  <2>3. it = jt
    <3> HIDE DEF jt
    <3> QED BY <2>1, <2>2, SameFunction
  <2> QED BY <2>3 DEF IsSum
<1> QED BY <1>4, <1>6

SumOf(f, D) == CHOOSE it : IsSum(it, f, D)

\* What the library's sum of the values of a function on a finite set is.
LEMMA SumEquation ==
  ASSUME NEW D, IsFiniteSet(D), NEW f, \A x \in D : f[x] \in Int
  PROVE  /\ SumFunctionOnSet(f, D) = SumOf(f, D)[D]
         /\ \A s \in SUBSET D :
              /\ SumOf(f, D)[s] \in Int
              /\ SumOf(f, D)[s] = IF s = {} THEN 0
                   ELSE f[Chosen(s)] + SumOf(f, D)[s \ {Chosen(s)}]
<1>1. SumFunctionOnSet(f, D) = SumOf(f, D)[D]
  BY DEF SumFunctionOnSet, FoldFunctionOnSet, MapThenFoldSet, IsSum, Chosen, SumOf
<1>2. IsSum(SumOf(f, D), f, D)
  BY SumExists DEF SumOf
<1>3. \A s \in SUBSET D : SumOf(f, D)[s] \in Int
  BY <1>2, SumExists
<1>4. \A s \in SUBSET D : SumOf(f, D)[s] = IF s = {} THEN 0
                   ELSE f[Chosen(s)] + SumOf(f, D)[s \ {Chosen(s)}]
  BY <1>2 DEF IsSum
<1> QED BY <1>1, <1>3, <1>4

\* A part of the recursion is the recursion over the part.
LEMMA SumRestrict ==
  ASSUME NEW D, IsFiniteSet(D), NEW f, \A x \in D : f[x] \in Int, NEW T \in SUBSET D
  PROVE  SumOf(f, D)[T] = SumFunctionOnSet(f, T)
<1>1. IsFiniteSet(T)
  BY FS_Subset
<1> DEFINE C == {s \in SUBSET T : SumOf(f, D)[s] = SumOf(f, T)[s]}
<1>2. ASSUME NEW s \in SUBSET T, \A x \in s : s \ {x} \in C PROVE s \in C
  <2>1. /\ SumOf(f, D)[s] = IF s = {} THEN 0
               ELSE f[Chosen(s)] + SumOf(f, D)[s \ {Chosen(s)}]
        /\ SumOf(f, T)[s] = IF s = {} THEN 0
               ELSE f[Chosen(s)] + SumOf(f, T)[s \ {Chosen(s)}]
    <3>1. s \in SUBSET D /\ \A x \in T : f[x] \in Int
      OBVIOUS
    <3>2. SumOf(f, D)[s] = IF s = {} THEN 0
               ELSE f[Chosen(s)] + SumOf(f, D)[s \ {Chosen(s)}]
      BY <3>1, SumEquation
    <3>3. SumOf(f, T)[s] = IF s = {} THEN 0
               ELSE f[Chosen(s)] + SumOf(f, T)[s \ {Chosen(s)}]
      BY <1>1, <3>1, SumEquation
    <3> QED BY <3>2, <3>3
  <2>2. s # {} => Chosen(s) \in s
    BY DEF Chosen
  <2>3. s # {} => SumOf(f, D)[s \ {Chosen(s)}] = SumOf(f, T)[s \ {Chosen(s)}]
    BY <1>2, <2>2
  <2> QED BY <2>1, <2>3
<1>3. T \in C
  <2> HIDE DEF C
  <2> QED BY <1>1, <1>2, SubsetInduction
<1> QED BY <1>1, <1>3, SumEquation

\* The recursion, for the library's operator.
LEMMA SumStep ==
  ASSUME NEW D, IsFiniteSet(D), NEW f, \A x \in D : f[x] \in Int
  PROVE  /\ SumFunctionOnSet(f, D) \in Int
         /\ D = {} => SumFunctionOnSet(f, D) = 0
         /\ D # {} => /\ Chosen(D) \in D
                      /\ SumFunctionOnSet(f, D) =
                           f[Chosen(D)] + SumFunctionOnSet(f, D \ {Chosen(D)})
<1>1. D # {} => Chosen(D) \in D
  BY DEF Chosen
<1>2. SumOf(f, D)[D \ {Chosen(D)}] = SumFunctionOnSet(f, D \ {Chosen(D)})
  BY SumRestrict
<1>3. D \in SUBSET D
  OBVIOUS
<1>4. SumFunctionOnSet(f, D) = SumOf(f, D)[D] /\ SumOf(f, D)[D] \in Int
  BY <1>3, SumEquation
<1>5. SumOf(f, D)[D] = IF D = {} THEN 0 ELSE f[Chosen(D)] + SumOf(f, D)[D \ {Chosen(D)}]
  BY <1>3, SumEquation
<1> QED BY <1>1, <1>2, <1>4, <1>5

\* Any element may be taken out first.
LEMMA SumRemove ==
  ASSUME NEW D, IsFiniteSet(D), NEW f, \A x \in D : f[x] \in Int, NEW x \in D
  PROVE  SumFunctionOnSet(f, D) = f[x] + SumFunctionOnSet(f, D \ {x})
<1> DEFINE S(s) == SumFunctionOnSet(f, s)
           C == {s \in SUBSET D : \A y \in s : S(s) = f[y] + S(s \ {y})}
<1>1. ASSUME NEW s \in SUBSET D, \A y \in s : s \ {y} \in C PROVE s \in C
  <2>1. ASSUME NEW y \in s PROVE S(s) = f[y] + S(s \ {y})
    <3> DEFINE c == Chosen(s)
    <3>0. \A t \in SUBSET D : IsFiniteSet(t) /\ S(t) \in Int
      BY FS_Subset, SumStep
    <3>1. c \in s /\ S(s) = f[c] + S(s \ {c})
      BY <3>0, SumStep
    <3>2. CASE y = c
      BY <3>1, <3>2
    <3>3. CASE y # c
      <4>1. S(s \ {c}) = f[y] + S((s \ {c}) \ {y})
        BY <1>1, <3>1, <3>3
      <4>2. S(s \ {y}) = f[c] + S((s \ {y}) \ {c})
        BY <1>1, <3>1, <3>3
      <4>3. (s \ {c}) \ {y} = (s \ {y}) \ {c}
        OBVIOUS
      <4> DEFINE z == S((s \ {y}) \ {c})
      <4>4. f[c] \in Int /\ f[y] \in Int /\ z \in Int
        BY <3>0, <3>1
      <4>5. S(s) = f[c] + (f[y] + z) /\ f[y] + S(s \ {y}) = f[y] + (f[c] + z)
        BY <3>1, <4>1, <4>2, <4>3
      <4> HIDE DEF z
      <4>6. f[c] + (f[y] + z) = f[y] + (f[c] + z)
        BY <4>4
      <4> QED BY <4>5, <4>6
    <3> QED BY <3>2, <3>3
  <2> QED BY <2>1
<1>2. D \in C
  <2> HIDE DEF C
  <2> QED BY <1>1, SubsetInduction
<1> QED BY <1>2

\* Functions that agree on a set have the same sum over it.
LEMMA SumSame ==
  ASSUME NEW D, IsFiniteSet(D), NEW f, NEW g,
         \A x \in D : f[x] \in Int /\ g[x] = f[x]
  PROVE  SumFunctionOnSet(g, D) = SumFunctionOnSet(f, D)
<1> DEFINE S(h, s) == SumFunctionOnSet(h, s)
           C == {s \in SUBSET D : S(g, s) = S(f, s)}
<1>1. ASSUME NEW s \in SUBSET D, \A y \in s : s \ {y} \in C PROVE s \in C
  <2>1. IsFiniteSet(s)
    BY FS_Subset
  <2>2. CASE s = {}
    BY <2>1, <2>2, SumStep
  <2>3. CASE s # {}
    <3>1. S(f, s) = f[Chosen(s)] + S(f, s \ {Chosen(s)}) /\ Chosen(s) \in s
      BY <2>1, <2>3, SumStep
    <3>2. S(g, s) = g[Chosen(s)] + S(g, s \ {Chosen(s)})
      BY <2>1, <2>3, SumStep
    <3>3. S(g, s \ {Chosen(s)}) = S(f, s \ {Chosen(s)})
      BY <1>1, <3>1
    <3> QED BY <3>1, <3>2, <3>3
  <2> QED BY <2>2, <2>3
<1>2. D \in C
  <2> HIDE DEF C
  <2> QED BY <1>1, SubsetInduction
<1> QED BY <1>2

\* Changing one value changes the sum by as much.
LEMMA SumUpdate ==
  ASSUME NEW D, IsFiniteSet(D), NEW f, NEW g, NEW x \in D,
         \A y \in D : f[y] \in Int, g[x] \in Int, \A y \in D \ {x} : g[y] = f[y]
  PROVE  SumFunctionOnSet(g, D) = SumFunctionOnSet(f, D) + g[x] - f[x]
<1>1. IsFiniteSet(D \ {x})
  BY FS_Subset
<1>2. SumFunctionOnSet(g, D \ {x}) = SumFunctionOnSet(f, D \ {x})
  BY <1>1, SumSame
<1>3. SumFunctionOnSet(f, D) = f[x] + SumFunctionOnSet(f, D \ {x})
  BY SumRemove
<1>4. SumFunctionOnSet(g, D) = g[x] + SumFunctionOnSet(g, D \ {x})
  BY SumRemove
<1>5. SumFunctionOnSet(f, D \ {x}) \in Int /\ f[x] \in Int
  BY <1>1, SumStep
<1> QED BY <1>2, <1>3, <1>4, <1>5

\* Elements of value zero do not count.
LEMMA SumSupport ==
  ASSUME NEW D, IsFiniteSet(D), NEW E \in SUBSET D, NEW f, \A x \in D : f[x] \in Int,
         \A x \in D \ E : f[x] = 0
  PROVE  SumFunctionOnSet(f, D) = SumFunctionOnSet(f, E)
<1> DEFINE S(s) == SumFunctionOnSet(f, s)
           C == {s \in SUBSET D : S(s) = S(s \cap E)}
<1>1. ASSUME NEW s \in SUBSET D, \A y \in s : s \ {y} \in C PROVE s \in C
  <2>1. \A t \in SUBSET D : IsFiniteSet(t) /\ S(t) \in Int
    BY FS_Subset, SumStep
  <2>2. CASE s = {}
    BY <2>2
  <2>3. CASE s # {}
    <3>1. PICK y \in s : TRUE
      BY <2>3
    <3>2. S(s) = f[y] + S(s \ {y})
      BY <2>1, SumRemove
    <3>3. S(s \ {y}) = S((s \ {y}) \cap E)
      BY <1>1
    <3>4. CASE y \in E
      <4>1. S(s \cap E) = f[y] + S((s \cap E) \ {y})
        <5>1. IsFiniteSet(s \cap E) /\ y \in s \cap E
          BY <2>1, <3>4
        <5> QED BY <5>1, SumRemove
      <4>2. (s \cap E) \ {y} = (s \ {y}) \cap E
        OBVIOUS
      <4>3. S(s) = S(s \cap E)
        BY <3>2, <3>3, <4>1, <4>2
      <4> QED BY <4>3
    <3>5. CASE y \notin E
      <4>1. (s \ {y}) \cap E = s \cap E /\ f[y] = 0
        BY <3>5
      <4>2. S(s \ {y}) \in Int
        BY <2>1
      <4>3. S(s) = S(s \ {y})
        BY <3>2, <4>1, <4>2
      <4>4. S(s) = S(s \cap E)
        BY <3>3, <4>1, <4>3
      <4> QED BY <4>4
    <3> QED BY <3>4, <3>5
  <2> QED BY <2>2, <2>3
<1>2. D \in C
  <2> HIDE DEF C
  <2> QED BY <1>1, SubsetInduction
<1>3. D \cap E = E
  OBVIOUS
<1> QED BY <1>2, <1>3
============================================================================
