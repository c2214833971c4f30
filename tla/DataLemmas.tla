----------------------------- MODULE DataLemmas -----------------------------
(***************************************************************************)
(* What the proofs need of the data the models are built from. Induction   *)
(* is stated for sets, of numbers and of the subsets of a finite set, so   *)
(* that no operator has to be instantiated; from it, that a recursive      *)
(* function is one, and how a sum over a finite set changes.               *)
(***************************************************************************)
EXTENDS Integers, FiniteSetsExt, FiniteSetTheorems, WellFoundedInduction, TLAPS

\* A set of natural numbers has a least one.
LEMMA LeastNat ==
    ASSUME NEW S \in SUBSET Nat, S # {}
    PROVE  \E n \in S : \A m \in S : n <= m
<1>1. PICK n \in S : \A m \in S : ~ (<<m, n>> \in OpToRel(<, Nat))
  BY NatLessThanWellFounded, WFMin
<1>2. ASSUME NEW m \in S PROVE n <= m
  <2>1. n \in Nat /\ m \in Nat
    OBVIOUS
  <2>2. ~(m < n)
    BY <1>1, <2>1 DEF OpToRel
  <2> QED BY <2>1, <2>2
<1> QED BY <1>2

\* Induction, for a set: it has no operator to instantiate.
LEMMA NatSet ==
    ASSUME NEW P \in SUBSET Nat, 0 \in P, \A n \in P : n + 1 \in P
    PROVE  P = Nat
<1> SUFFICES ASSUME Nat \ P # {} PROVE FALSE
  OBVIOUS
<1>1. PICK n \in Nat \ P : \A m \in Nat \ P : n <= m
  BY LeastNat
<1>2. n - 1 \in Nat /\ n - 1 < n /\ n = (n - 1) + 1
  OBVIOUS
<1>3. n - 1 \in P
  BY <1>1, <1>2
<1> QED BY <1>2, <1>3

\* And for a set of the subsets of a finite set.
LEMMA FiniteSubsets ==
    ASSUME NEW S, IsFiniteSet(S), NEW P \in SUBSET (SUBSET S), {} \in P,
           \A T \in SUBSET S : T # {} /\ (\A x \in T : T \ {x} \in P) => T \in P
    PROVE  P = SUBSET S
<1> DEFINE Sizes == {n \in Nat : \A T \in SUBSET S : Cardinality(T) = n => T \in P}
<1>1. \A T \in SUBSET S : IsFiniteSet(T) /\ Cardinality(T) \in Nat /\ (Cardinality(T) = 0 => T = {})
  BY FS_Subset, FS_CardinalityType, FS_EmptySet
<1>2. 0 \in Sizes
  BY <1>1
<1>3. ASSUME NEW n \in Sizes PROVE n + 1 \in Sizes
  <2> SUFFICES ASSUME NEW T \in SUBSET S, Cardinality(T) = n + 1 PROVE T \in P
    OBVIOUS
  <2>1. T # {}
    BY FS_EmptySet
  <2>2. ASSUME NEW x \in T PROVE T \ {x} \in P
    <3>1. Cardinality(T \ {x}) = Cardinality(T) - 1
      BY <1>1, <2>2, FS_RemoveElement
    <3>2. Cardinality(T \ {x}) = n
      BY <3>1
    <3> QED BY <3>2
  <2> QED BY <2>1, <2>2
<1>4. Sizes = Nat
  <2> HIDE DEF Sizes
  <2>1. Sizes \in SUBSET Nat
    BY DEF Sizes
  <2> QED BY <1>2, <1>3, <2>1, NatSet
<1> QED BY <1>1, <1>4

-----------------------------------------------------------------------------
\* The sum of f over S; Sums is the recursive function that computes it.
SumOf(f, S) == MapThenSumSet(LAMBDA b : f[b], S)

OneOf(s) == CHOOSE x \in s : TRUE

SumStep(f, S, g) == [s \in SUBSET S |-> IF s = {} THEN 0 ELSE f[OneOf(s)] + g[s \ {OneOf(s)}]]

Sums(f, S) == CHOOSE g : g = SumStep(f, S, g)

\* The community module's sum is that function's value.
LEMMA SumIs == ASSUME NEW f, NEW S PROVE SumOf(f, S) = Sums(f, S)[S]
BY Zenon DEF SumOf, MapThenSumSet, MapThenFoldSet, Sums, SumStep, OneOf

\* The recursion defines a function.
LEMMA SumsExist ==
    ASSUME NEW f, NEW S, IsFiniteSet(S)
    PROVE  Sums(f, S) = SumStep(f, S, Sums(f, S))
<1> DEFINE Dom(n) == {T \in SUBSET S : Cardinality(T) <= n}
<1> DEFINE Step(n, g) == [s \in Dom(n) |-> IF s = {} THEN 0 ELSE f[OneOf(s)] + g[s \ {OneOf(s)}]]
<1> DEFINE Upto == {n \in Nat : \E g : g = Step(n, g)}
<1>1. \A T \in SUBSET S : /\ IsFiniteSet(T) /\ Cardinality(T) \in Nat /\ (Cardinality(T) = 0 => T = {})
                          /\ Cardinality(T) <= Cardinality(S)
  BY FS_Subset, FS_CardinalityType, FS_EmptySet
<1>2. \A T \in SUBSET S : T # {} =>
         /\ OneOf(T) \in T /\ T \ {OneOf(T)} \in SUBSET S
         /\ Cardinality(T \ {OneOf(T)}) = Cardinality(T) - 1
  <2> SUFFICES ASSUME NEW T \in SUBSET S, T # {}
               PROVE  OneOf(T) \in T /\ Cardinality(T \ {OneOf(T)}) = Cardinality(T) - 1
    OBVIOUS
  <2>1. OneOf(T) \in T
    BY DEF OneOf
  <2> QED BY <1>1, <2>1, FS_RemoveElement
<1>3. 0 \in Upto
  <2> DEFINE g == [s \in Dom(0) |-> 0]
  <2>1. \A s \in Dom(0) : s = {}
    BY <1>1
  <2>2. g = Step(0, g)
    BY <2>1
  <2> QED BY <2>2
<1>4. ASSUME NEW n \in Upto PROVE n + 1 \in Upto
  <2>1. PICK g : g = Step(n, g)
    OBVIOUS
  <2> DEFINE h == [s \in Dom(n + 1) |-> IF s = {} THEN 0 ELSE f[OneOf(s)] + g[s \ {OneOf(s)}]]
  <2>2. ASSUME NEW s \in Dom(n + 1), s # {} PROVE h[s \ {OneOf(s)}] = g[s \ {OneOf(s)}]
    <3> DEFINE t == s \ {OneOf(s)}
    <3>1. t \in Dom(n) /\ t \in Dom(n + 1)
      <4>1. t \in SUBSET S /\ Cardinality(t) = Cardinality(s) - 1 /\ Cardinality(t) \in Nat
        BY <1>1, <1>2, <2>2
      <4>2. Cardinality(s) \in Nat /\ Cardinality(s) <= n + 1
        BY <1>1, <2>2
      <4> HIDE DEF t
      <4> QED BY <4>1, <4>2
    <3>2. h[t] = IF t = {} THEN 0 ELSE f[OneOf(t)] + g[t \ {OneOf(t)}]
      BY <3>1
    <3>3. g[t] = IF t = {} THEN 0 ELSE f[OneOf(t)] + g[t \ {OneOf(t)}]
      BY <2>1, <3>1
    <3> QED BY <3>2, <3>3
  <2>3. h = Step(n + 1, h)
    BY <2>2
  <2>4. n + 1 \in Nat
    OBVIOUS
  <2>5. \E q : q = Step(n + 1, q)
    BY <2>3
  <2> HIDE DEF Step
  <2> QED BY <2>4, <2>5
<1>5. Cardinality(S) \in Upto
  <2>1. Upto \in SUBSET Nat /\ Cardinality(S) \in Nat
    BY <1>1
  <2> HIDE DEF Upto
  <2> QED BY <1>3, <1>4, <2>1, NatSet
<1>6. Dom(Cardinality(S)) = SUBSET S
  BY <1>1
<1>7. \E g : g = SumStep(f, S, g)
  BY <1>5, <1>6 DEF SumStep
<1> QED BY <1>7 DEF Sums

LEMMA SumsOf ==
    ASSUME NEW S, IsFiniteSet(S), NEW f
    PROVE  /\ Sums(f, S)[{}] = 0
           /\ \A T \in SUBSET S : T # {} =>
                 OneOf(T) \in T /\ Sums(f, S)[T] = f[OneOf(T)] + Sums(f, S)[T \ {OneOf(T)}]
<1> DEFINE g == Sums(f, S)
<1>1. g = SumStep(f, S, g)
  BY SumsExist
<1> HIDE DEF g
<1>2. \A T \in SUBSET S : g[T] = IF T = {} THEN 0 ELSE f[OneOf(T)] + g[T \ {OneOf(T)}]
  BY <1>1 DEF SumStep
<1>3. \A T \in SUBSET S : T # {} => OneOf(T) \in T
  BY DEF OneOf
<1> QED BY <1>2, <1>3 DEF g


LEMMA SumsAreNat ==
    ASSUME NEW S, IsFiniteSet(S), NEW f \in [S -> Nat]
    PROVE  \A T \in SUBSET S : Sums(f, S)[T] \in Nat
<1> DEFINE g == Sums(f, S)
<1> DEFINE P == {T \in SUBSET S : g[T] \in Nat}
<1>1. /\ g[{}] = 0
      /\ \A T \in SUBSET S : T # {} => OneOf(T) \in T /\ g[T] = f[OneOf(T)] + g[T \ {OneOf(T)}]
  BY SumsOf
<1> HIDE DEF g
<1>2. ASSUME NEW T \in SUBSET S, T # {}, \A x \in T : T \ {x} \in P PROVE T \in P
  <2>1. OneOf(T) \in T /\ g[T] = f[OneOf(T)] + g[T \ {OneOf(T)}]
    BY <1>1, <1>2
  <2>2. T \ {OneOf(T)} \in P /\ OneOf(T) \in S
    BY <1>2, <2>1
  <2>3. f[OneOf(T)] \in Nat /\ g[T \ {OneOf(T)}] \in Nat
    BY <2>2
  <2>4. g[T] \in Nat
    BY <2>1, <2>3
  <2> QED BY <2>4
<1>3. {} \in P
  BY <1>1
<1>4. P = SUBSET S
  <2>1. P \in SUBSET (SUBSET S)
    OBVIOUS
  <2> HIDE DEF P
  <2> QED BY <1>2, <1>3, <2>1, FiniteSubsets
<1> QED BY <1>4 DEF g

LEMMA SumIsNat ==
    ASSUME NEW S, IsFiniteSet(S), NEW f \in [S -> Nat]
    PROVE  SumOf(f, S) \in Nat
BY SumsAreNat, SumIs

\* One value of a sum changes.
LEMMA SumChanges ==
    ASSUME NEW S, IsFiniteSet(S), NEW f \in [S -> Nat], NEW h \in [S -> Nat], NEW b \in S,
           \A x \in S \ {b} : h[x] = f[x]
    PROVE  SumOf(h, S) = SumOf(f, S) - f[b] + h[b]
<1> DEFINE g == Sums(f, S)
<1> DEFINE k == Sums(h, S)
<1> DEFINE P == {T \in SUBSET S : /\ g[T] \in Int
                                  /\ k[T] = IF b \in T THEN g[T] - f[b] + h[b] ELSE g[T]}
<1>1. /\ g[{}] = 0
      /\ \A T \in SUBSET S : T # {} => OneOf(T) \in T /\ g[T] = f[OneOf(T)] + g[T \ {OneOf(T)}]
  BY SumsOf
<1>2. /\ k[{}] = 0
      /\ \A T \in SUBSET S : T # {} => OneOf(T) \in T /\ k[T] = h[OneOf(T)] + k[T \ {OneOf(T)}]
  BY SumsOf
<1>3. SumOf(f, S) = g[S] /\ SumOf(h, S) = k[S]
  BY SumIs
<1> HIDE DEF g, k
<1>4. ASSUME NEW T \in SUBSET S, T # {}, \A x \in T : T \ {x} \in P PROVE T \in P
  <2> DEFINE x == OneOf(T)
  <2> DEFINE U == T \ {x}
  <2>1. /\ x \in T /\ g[T] = f[x] + g[U] /\ k[T] = h[x] + k[U] /\ U \in P
        /\ f[x] \in Nat /\ f[b] \in Nat /\ h[b] \in Nat
    BY <1>1, <1>2, <1>4
  <2>2. (b \in T <=> b \in U \/ b = x) /\ (x = b => b \notin U)
    BY <2>1
  <2>3. x # b => h[x] = f[x]
    BY <2>1
  <2> HIDE DEF x, U
  <2> QED BY <2>1, <2>2, <2>3
<1>5. {} \in P
  BY <1>1, <1>2
<1>6. P = SUBSET S
  <2>1. P \in SUBSET (SUBSET S)
    OBVIOUS
  <2> HIDE DEF P
  <2> QED BY <1>4, <1>5, <2>1, FiniteSubsets
<1>7. S \in P
  BY <1>6
<1> QED BY <1>3, <1>7

LEMMA SumOfNothing ==
    ASSUME NEW S, IsFiniteSet(S), NEW f, \A x \in S : f[x] = 0
    PROVE  SumOf(f, S) = 0
<1> DEFINE g == Sums(f, S)
<1> DEFINE P == {T \in SUBSET S : g[T] = 0}
<1>1. /\ g[{}] = 0
      /\ \A T \in SUBSET S : T # {} => OneOf(T) \in T /\ g[T] = f[OneOf(T)] + g[T \ {OneOf(T)}]
  BY SumsOf
<1> HIDE DEF g
<1>2. ASSUME NEW T \in SUBSET S, T # {}, \A x \in T : T \ {x} \in P PROVE T \in P
  <2>1. OneOf(T) \in T /\ g[T] = f[OneOf(T)] + g[T \ {OneOf(T)}]
    BY <1>1, <1>2
  <2>2. g[T \ {OneOf(T)}] = 0 /\ f[OneOf(T)] = 0
    BY <1>2, <2>1
  <2> QED BY <2>1, <2>2
<1>3. {} \in P
  BY <1>1
<1>4. P = SUBSET S
  <2>1. P \in SUBSET (SUBSET S)
    OBVIOUS
  <2> HIDE DEF P
  <2> QED BY <1>2, <1>3, <2>1, FiniteSubsets
<1>5. S \in P
  BY <1>4
<1> QED BY <1>5, SumIs DEF g

\* Whatever the order, an element of the set adds its value.
LEMMA AnyElementAdds ==
    ASSUME NEW S, IsFiniteSet(S), NEW f \in [S -> Nat]
    PROVE  \A T \in SUBSET S : \A x \in T : Sums(f, S)[T] = f[x] + Sums(f, S)[T \ {x}]
<1> DEFINE g == Sums(f, S)
<1> DEFINE P == {T \in SUBSET S : g[T] \in Nat /\ \A x \in T : g[T] = f[x] + g[T \ {x}]}
<1>1. /\ g[{}] = 0
      /\ \A T \in SUBSET S : T # {} => OneOf(T) \in T /\ g[T] = f[OneOf(T)] + g[T \ {OneOf(T)}]
  BY SumsOf
<1> HIDE DEF g
<1>2. ASSUME NEW T \in SUBSET S, T # {}, \A x \in T : T \ {x} \in P PROVE T \in P
  <2> DEFINE o == OneOf(T)
  <2>1. o \in T /\ g[T] = f[o] + g[T \ {o}]
    BY <1>1, <1>2
  <2> HIDE DEF o
  <2>2. \A x \in T : f[x] \in Nat /\ g[T \ {x}] \in Nat
    BY <1>2
  <2>3. g[T] \in Nat
    BY <2>1, <2>2
  <2>4. ASSUME NEW x \in T PROVE g[T] = f[x] + g[T \ {x}]
    <3>1. CASE x = o
      BY <2>1, <3>1
    <3>2. CASE x # o
      <4> DEFINE R == T \ {o, x}
      <4>1. (T \ {o}) \ {x} = R /\ (T \ {x}) \ {o} = R
        BY <3>2
      <4>2. g[T \ {o}] = f[x] + g[R] /\ g[T \ {x}] = f[o] + g[R]
        BY <1>2, <2>1, <3>2, <4>1
      <4>3. g[R] \in Nat
        BY SumsAreNat DEF g
      <4> HIDE DEF R
      <4> QED BY <2>1, <2>2, <4>2, <4>3
    <3> QED BY <3>1, <3>2
  <2> QED BY <2>3, <2>4
<1>3. {} \in P
  BY <1>1
<1>4. P = SUBSET S
  <2>1. P \in SUBSET (SUBSET S)
    OBVIOUS
  <2> HIDE DEF P
  <2> QED BY <1>2, <1>3, <2>1, FiniteSubsets
<1> QED BY <1>4 DEF g

\* A sum does not depend on the set it is a part of.
LEMMA SumOfPart ==
    ASSUME NEW S, IsFiniteSet(S), NEW f \in [S -> Nat], NEW R \in SUBSET S
    PROVE  SumOf(f, R) = Sums(f, S)[R]
<1> DEFINE g == Sums(f, S)
<1> DEFINE k == Sums(f, R)
<1> DEFINE P == {T \in SUBSET R : g[T] = k[T]}
<1>1. /\ g[{}] = 0
      /\ \A T \in SUBSET S : T # {} => OneOf(T) \in T /\ g[T] = f[OneOf(T)] + g[T \ {OneOf(T)}]
  BY SumsOf
<1>2. IsFiniteSet(R)
  BY FS_Subset
<1>3. /\ k[{}] = 0
      /\ \A T \in SUBSET R : T # {} => OneOf(T) \in T /\ k[T] = f[OneOf(T)] + k[T \ {OneOf(T)}]
  BY <1>2, SumsOf
<1> HIDE DEF g, k
<1>4. ASSUME NEW T \in SUBSET R, T # {}, \A x \in T : T \ {x} \in P PROVE T \in P
  <2>1. g[T \ {OneOf(T)}] = k[T \ {OneOf(T)}] /\ T \in SUBSET S
    BY <1>3, <1>4
  <2> QED BY <1>1, <1>3, <1>4, <2>1
<1>5. {} \in P
  BY <1>1, <1>3
<1>6. P = SUBSET R
  <2>1. P \in SUBSET (SUBSET R)
    OBVIOUS
  <2> HIDE DEF P
  <2> QED BY <1>2, <1>4, <1>5, <2>1, FiniteSubsets
<1>7. R \in P
  BY <1>6
<1> QED BY <1>7, SumIs DEF g, k

\* One more element.
LEMMA SumAdds ==
    ASSUME NEW S, IsFiniteSet(S), NEW f \in [S -> Nat], NEW R \in SUBSET S, NEW x \in S \ R
    PROVE  SumOf(f, R \cup {x}) = SumOf(f, R) + f[x]
<1>1. R \cup {x} \in SUBSET S /\ (R \cup {x}) \ {x} = R
  OBVIOUS
<1>2. Sums(f, S)[R \cup {x}] = f[x] + Sums(f, S)[R]
  BY <1>1, AnyElementAdds
<1>3. SumOf(f, R \cup {x}) = Sums(f, S)[R \cup {x}] /\ SumOf(f, R) = Sums(f, S)[R]
  BY <1>1, SumOfPart
<1>4. f[x] \in Nat /\ Sums(f, S)[R] \in Nat
  BY SumsAreNat
<1> QED BY <1>2, <1>3, <1>4

\* A sum of sums.
LEMMA SumOfSums ==
    ASSUME NEW S, IsFiniteSet(S), NEW f \in [S -> Nat], NEW h \in [S -> Nat], NEW k \in [S -> Nat],
           \A x \in S : k[x] = f[x] + h[x]
    PROVE  SumOf(k, S) = SumOf(f, S) + SumOf(h, S)
<1> DEFINE P == {T \in SUBSET S : Sums(k, S)[T] = Sums(f, S)[T] + Sums(h, S)[T]}
<1>1. Sums(k, S)[{}] = 0 /\ Sums(f, S)[{}] = 0 /\ Sums(h, S)[{}] = 0
  BY SumsOf
<1>2. \A T \in SUBSET S : \A x \in T :
         /\ Sums(k, S)[T] = k[x] + Sums(k, S)[T \ {x}]
         /\ Sums(f, S)[T] = f[x] + Sums(f, S)[T \ {x}]
         /\ Sums(h, S)[T] = h[x] + Sums(h, S)[T \ {x}]
  <2>1. \A T \in SUBSET S : \A x \in T : Sums(k, S)[T] = k[x] + Sums(k, S)[T \ {x}]
    BY AnyElementAdds
  <2>2. \A T \in SUBSET S : \A x \in T : Sums(f, S)[T] = f[x] + Sums(f, S)[T \ {x}]
    BY AnyElementAdds
  <2>3. \A T \in SUBSET S : \A x \in T : Sums(h, S)[T] = h[x] + Sums(h, S)[T \ {x}]
    BY AnyElementAdds
  <2> QED BY <2>1, <2>2, <2>3
<1>3. \A T \in SUBSET S : Sums(f, S)[T] \in Nat /\ Sums(h, S)[T] \in Nat
  BY SumsAreNat
<1>4. ASSUME NEW T \in SUBSET S, T # {}, \A x \in T : T \ {x} \in P PROVE T \in P
  <2>1. PICK x \in T : TRUE
    BY <1>4
  <2>2. /\ Sums(k, S)[T \ {x}] = Sums(f, S)[T \ {x}] + Sums(h, S)[T \ {x}]
        /\ k[x] = f[x] + h[x] /\ f[x] \in Nat /\ h[x] \in Nat
        /\ Sums(f, S)[T \ {x}] \in Nat /\ Sums(h, S)[T \ {x}] \in Nat
    BY <1>3, <1>4
  <2>3. /\ Sums(k, S)[T] = k[x] + Sums(k, S)[T \ {x}]
        /\ Sums(f, S)[T] = f[x] + Sums(f, S)[T \ {x}]
        /\ Sums(h, S)[T] = h[x] + Sums(h, S)[T \ {x}]
    BY <1>2
  <2>4. Sums(k, S)[T] = Sums(f, S)[T] + Sums(h, S)[T]
    BY <2>2, <2>3
  <2> QED BY <2>4
<1>5. {} \in P
  BY <1>1
<1>6. P = SUBSET S
  <2>1. P \in SUBSET (SUBSET S)
    OBVIOUS
  <2> HIDE DEF P
  <2> QED BY <1>4, <1>5, <2>1, FiniteSubsets
<1>7. S \in P
  BY <1>6
<1> QED BY <1>7, SumIs

\* One value that is not zero.
LEMMA SumOfOne ==
    ASSUME NEW S, IsFiniteSet(S), NEW f \in [S -> Nat], NEW b \in S, \A x \in S \ {b} : f[x] = 0
    PROVE  SumOf(f, S) = f[b]
<1> DEFINE z == [x \in S |-> 0]
<1>1. z \in [S -> Nat] /\ (\A x \in S : z[x] = 0) /\ (\A x \in S \ {b} : f[x] = z[x]) /\ z[b] = 0
  OBVIOUS
<1> HIDE DEF z
<1>2. SumOf(z, S) = 0
  BY <1>1, SumOfNothing
<1>3. SumOf(f, S) = SumOf(z, S) - z[b] + f[b]
  BY <1>1, SumChanges
<1>4. f[b] \in Nat
  OBVIOUS
<1> QED BY <1>1, <1>2, <1>3, <1>4

\* Smaller values, smaller sum.
LEMMA SumGrows ==
    ASSUME NEW S, IsFiniteSet(S), NEW f \in [S -> Nat], NEW k \in [S -> Nat],
           \A x \in S : f[x] <= k[x]
    PROVE  SumOf(f, S) <= SumOf(k, S)
<1> DEFINE h == [x \in S |-> k[x] - f[x]]
<1>1. h \in [S -> Nat] /\ \A x \in S : k[x] = f[x] + h[x]
  <2>1. \A x \in S : f[x] \in Nat /\ k[x] \in Nat /\ f[x] <= k[x]
    OBVIOUS
  <2> QED BY <2>1
<1> HIDE DEF h
<1>2. SumOf(k, S) = SumOf(f, S) + SumOf(h, S)
  BY <1>1, SumOfSums
<1>3. SumOf(f, S) \in Nat /\ SumOf(h, S) \in Nat
  BY <1>1, SumIsNat
<1> QED BY <1>2, <1>3

\* Values that move up by one place, the last one off the end.
LEMMA SumShifts ==
    ASSUME NEW m \in Nat, NEW f \in [0..m -> Nat], NEW h \in [0..m -> Nat],
           \A k \in 1..m : h[k] = f[k - 1]
    PROVE  SumOf(h, 0..m) + f[m] = SumOf(f, 0..m) + h[0]
<1>1. IsFiniteSet(0..m)
  BY FS_Interval
<1>a. \A R \in SUBSET (0..m) : \A x \in (0..m) \ R :
         /\ SumOf(h, R \cup {x}) = SumOf(h, R) + h[x]
         /\ SumOf(f, R \cup {x}) = SumOf(f, R) + f[x]
  <2> DEFINE S == 0..m
  <2>1. IsFiniteSet(S) /\ f \in [S -> Nat] /\ h \in [S -> Nat]
    BY <1>1
  <2> HIDE DEF S
  <2>2. \A R \in SUBSET S : \A x \in S \ R : SumOf(h, R \cup {x}) = SumOf(h, R) + h[x]
    BY <2>1, SumAdds
  <2>3. \A R \in SUBSET S : \A x \in S \ R : SumOf(f, R \cup {x}) = SumOf(f, R) + f[x]
    BY <2>1, SumAdds
  <2> QED BY <2>2, <2>3 DEF S
<1> DEFINE P == {n \in Nat : n <= m => SumOf(h, 0..n) + f[n] = SumOf(f, 0..n) + h[0]}
<1>2. \A n \in 0..m : SumOf(h, 0..n) \in Nat /\ SumOf(f, 0..n) \in Nat /\ f[n] \in Nat /\ h[n] \in Nat
  <2> SUFFICES ASSUME NEW n \in 0..m PROVE SumOf(h, 0..n) \in Nat /\ SumOf(f, 0..n) \in Nat
    OBVIOUS
  <2>1. 0..n \in SUBSET (0..m)
    OBVIOUS
  <2>2. SumOf(h, 0..n) = Sums(h, 0..m)[0..n] /\ SumOf(f, 0..n) = Sums(f, 0..m)[0..n]
    <3>1. SumOf(h, 0..n) = Sums(h, 0..m)[0..n]
      BY <1>1, <2>1, SumOfPart
    <3>2. SumOf(f, 0..n) = Sums(f, 0..m)[0..n]
      BY <1>1, <2>1, SumOfPart
    <3> QED BY <3>1, <3>2
  <2>3. Sums(h, 0..m)[0..n] \in Nat
    BY <1>1, <2>1, SumsAreNat
  <2>4. Sums(f, 0..m)[0..n] \in Nat
    BY <1>1, <2>1, SumsAreNat
  <2> QED BY <2>2, <2>3, <2>4
<1>3. \A n \in 0..m - 1 : /\ SumOf(h, 0..n + 1) = SumOf(h, 0..n) + h[n + 1]
                          /\ SumOf(f, 0..n + 1) = SumOf(f, 0..n) + f[n + 1]
  <2> SUFFICES ASSUME NEW n \in 0..m - 1
               PROVE  /\ SumOf(h, 0..n + 1) = SumOf(h, 0..n) + h[n + 1]
                      /\ SumOf(f, 0..n + 1) = SumOf(f, 0..n) + f[n + 1]
    OBVIOUS
  <2>1. 0..n \in SUBSET (0..m) /\ n + 1 \in (0..m) \ (0..n) /\ 0..n + 1 = (0..n) \cup {n + 1}
    OBVIOUS
  <2>2. SumOf(h, (0..n) \cup {n + 1}) = SumOf(h, 0..n) + h[n + 1]
    BY <1>a, <2>1
  <2>3. SumOf(f, (0..n) \cup {n + 1}) = SumOf(f, 0..n) + f[n + 1]
    BY <1>a, <2>1
  <2> QED BY <2>1, <2>2, <2>3
<1>4. 0 \in P
  <2>1. 0..0 = {} \cup {0} /\ {} \in SUBSET (0..m) /\ 0 \in (0..m) \ {}
    OBVIOUS
  <2>2. SumOf(h, {}) = 0 /\ SumOf(f, {}) = 0
    BY SumOfNothing, FS_EmptySet
  <2>3. SumOf(h, 0..0) = 0 + h[0] /\ SumOf(f, 0..0) = 0 + f[0]
    <3>1. SumOf(h, {} \cup {0}) = SumOf(h, {}) + h[0]
      BY <1>a, <2>1
    <3>2. SumOf(f, {} \cup {0}) = SumOf(f, {}) + f[0]
      BY <1>a, <2>1
    <3> QED BY <2>1, <2>2, <3>1, <3>2
  <2>4. h[0] \in Nat /\ f[0] \in Nat
    BY <2>1
  <2> QED BY <2>3, <2>4
<1>5. ASSUME NEW n \in P PROVE n + 1 \in P
  <2> SUFFICES ASSUME n + 1 <= m PROVE SumOf(h, 0..n + 1) + f[n + 1] = SumOf(f, 0..n + 1) + h[0]
    OBVIOUS
  <2>1. n \in 0..m - 1 /\ n \in 0..m /\ n + 1 \in 1..m /\ n + 1 \in 0..m /\ (n + 1) - 1 = n /\ 0 \in 0..m
    OBVIOUS
  <2>2. SumOf(h, 0..n) + f[n] = SumOf(f, 0..n) + h[0] /\ h[n + 1] = f[n]
    BY <2>1
  <2>3. /\ SumOf(h, 0..n + 1) = SumOf(h, 0..n) + h[n + 1]
        /\ SumOf(f, 0..n + 1) = SumOf(f, 0..n) + f[n + 1]
    BY <1>3, <2>1
  <2>4. /\ SumOf(h, 0..n) \in Nat /\ SumOf(f, 0..n) \in Nat /\ h[0] \in Nat
        /\ f[n] \in Nat /\ f[n + 1] \in Nat /\ h[n + 1] \in Nat
    BY <1>2, <2>1
  <2> QED BY <2>2, <2>3, <2>4
<1>6. P = Nat
  <2>1. P \in SUBSET Nat
    OBVIOUS
  <2> HIDE DEF P
  <2> QED BY <1>4, <1>5, <2>1, NatSet
<1>7. m \in P
  BY <1>6
<1> QED BY <1>7
=============================================================================
