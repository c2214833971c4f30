----------------------------- MODULE ChainProofs -----------------------------
(***************************************************************************)
(* Proofs about the bus that ledger events travel on and its gap detector, *)
(* for any consumers, entries and ledgers.                                 *)
(***************************************************************************)
EXTENDS LedgerEventBus, DataLemmas

-----------------------------------------------------------------------------
(***************************************************************************)
(* Ledger event bus. A consumer's detector has seen a prefix of what the   *)
(* stream gave it, in stream order; what it reports missing lies between   *)
(* two numbers it saw, and numbers grow along the stream, so nothing that  *)
(* is still to come is reported.                                           *)
(***************************************************************************)
\* The place of a number among those of a set.
Rank(T, i) == Cardinality({j \in T : j <= i})

\* The places of a finite set's numbers are 1 to its size, in their order.
LEMMA Ranks ==
    ASSUME NEW T \in SUBSET Nat, IsFiniteSet(T)
    PROVE  /\ Cardinality(T) \in Nat
           /\ \A i \in T : Rank(T, i) \in 1..Cardinality(T)
           /\ \A i, j \in T : i < j => Rank(T, i) < Rank(T, j)
           /\ \A k \in 1..Cardinality(T) : \E i \in T : Rank(T, i) = k
<1> DEFINE R(i) == {j \in T : j <= i}
<1>1. \A i \in T : R(i) \in SUBSET T /\ R(i) # {} /\ IsFiniteSet(R(i))
  <2> SUFFICES ASSUME NEW i \in T PROVE R(i) \in SUBSET T /\ i \in R(i) /\ IsFiniteSet(R(i))
    OBVIOUS
  <2>1. R(i) \in SUBSET T /\ i \in R(i)
    OBVIOUS
  <2> QED BY <2>1, FS_Subset
<1>2. Cardinality(T) \in Nat
  BY FS_CardinalityType
<1>3. \A i \in T : Cardinality(R(i)) \in 1..Cardinality(T)
  <2> SUFFICES ASSUME NEW i \in T PROVE Cardinality(R(i)) \in 1..Cardinality(T)
    OBVIOUS
  <2>1. R(i) \in SUBSET T /\ R(i) # {} /\ IsFiniteSet(R(i))
    BY <1>1
  <2> HIDE DEF R
  <2>2. Cardinality(R(i)) \in Nat /\ Cardinality(R(i)) <= Cardinality(T) /\ Cardinality(R(i)) # 0
    BY <2>1, FS_Subset, FS_CardinalityType, FS_EmptySet
  <2> QED BY <1>2, <2>2
<1>4. \A i, j \in T : i < j => Cardinality(R(i)) < Cardinality(R(j))
  <2> SUFFICES ASSUME NEW i \in T, NEW j \in T, i < j PROVE Cardinality(R(i)) < Cardinality(R(j))
    OBVIOUS
  <2>1. R(i) \in SUBSET R(j) /\ j \in R(j) /\ j \notin R(i)
    <3>1. i \in Nat /\ j \in Nat /\ \A x \in T : x \in Nat
      OBVIOUS
    <3>2. \A x \in T : x <= i => x <= j
      BY <3>1
    <3>3. j <= j /\ ~(j <= i)
      BY <3>1
    <3>4. \A x \in R(i) : x \in R(j)
      BY <3>2
    <3>5. j \in R(j) /\ j \notin R(i)
      BY <3>3
    <3> QED BY <3>4, <3>5
  <2>2. IsFiniteSet(R(i)) /\ IsFiniteSet(R(j))
    BY <1>1
  <2> HIDE DEF R
  <2>3. Cardinality(R(i)) <= Cardinality(R(j)) /\ Cardinality(R(i)) # Cardinality(R(j))
    BY <2>1, <2>2, FS_Subset
  <2>4. Cardinality(R(i)) \in Nat /\ Cardinality(R(j)) \in Nat
    BY <2>2, FS_CardinalityType
  <2> QED BY <2>3, <2>4
<1> DEFINE f == [i \in T |-> Rank(T, i)]
<1>5. \A i \in T : f[i] = Cardinality(R(i))
  BY DEF Rank
<1>6. f \in [T -> 1..Cardinality(T)]
  BY <1>3 DEF Rank
<1> HIDE DEF f, R
<1>7. f \in Injection(T, 1..Cardinality(T))
  <2>1. \A i, j \in T : f[i] = f[j] => i = j
    <3> SUFFICES ASSUME NEW i \in T, NEW j \in T, f[i] = f[j], i # j PROVE FALSE
      OBVIOUS
    <3>1. i < j \/ j < i
      OBVIOUS
    <3>2. Cardinality(R(i)) \in Nat /\ Cardinality(R(j)) \in Nat /\ Cardinality(R(i)) = Cardinality(R(j))
      BY <1>3, <1>5
    <3> QED BY <1>4, <3>1, <3>2
  <2> QED BY <1>6, <2>1 DEF Injection, IsInjective
<1>8. IsFiniteSet(1..Cardinality(T)) /\ Cardinality(1..Cardinality(T)) = Cardinality(T)
  BY <1>2, FS_Interval
<1>9. f \in Surjection(T, 1..Cardinality(T))
  BY <1>7, <1>8, FS_Injection
<1>10. \A k \in 1..Cardinality(T) : \E i \in T : f[i] = k
  BY <1>9 DEF Surjection
<1> QED BY <1>2, <1>3, <1>4, <1>5, <1>10 DEF Rank, R

\* A finite set of numbers has a largest one.
LEMMA LargestNat ==
    ASSUME NEW T \in SUBSET Nat, IsFiniteSet(T), T # {}
    PROVE  \E i \in T : \A j \in T : j <= i
<1>1. Cardinality(T) \in Nat /\ Cardinality(T) # 0
  BY FS_CardinalityType, FS_EmptySet
<1>2. PICK i \in T : Rank(T, i) = Cardinality(T)
  BY <1>1, Ranks
<1>3. \A j \in T : ~(i < j)
  BY <1>1, <1>2, Ranks
<1> QED BY <1>2, <1>3

-----------------------------------------------------------------------------
LEMMA InOrderIs ==
    ASSUME NEW T
    PROVE  InOrder(T) = [k \in 1..Cardinality(T) |-> CHOOSE i \in T : Rank(T, i) = k]
BY DEF InOrder, Rank

\* InOrder lists a set, each number once, from the least on.
LEMMA Ordered ==
    ASSUME NEW T \in SUBSET Nat, IsFiniteSet(T)
    PROVE  /\ InOrder(T) \in [1..Cardinality(T) -> T]
           /\ \A i \in T : Rank(T, i) \in 1..Cardinality(T) /\ InOrder(T)[Rank(T, i)] = i
           /\ \A k, m \in 1..Cardinality(T) : k < m => InOrder(T)[k] < InOrder(T)[m]
<1>1. \A k \in 1..Cardinality(T) : InOrder(T)[k] \in T /\ Rank(T, InOrder(T)[k]) = k
  BY Ranks, InOrderIs
<1>2. InOrder(T) \in [1..Cardinality(T) -> T]
  BY <1>1, InOrderIs
<1>3. Cardinality(T) \in Nat /\ \A i \in T : Rank(T, i) \in Nat
  BY Ranks
<1>4. \A i, j \in T : Rank(T, i) = Rank(T, j) => i = j
  <2> SUFFICES ASSUME NEW i \in T, NEW j \in T, Rank(T, i) = Rank(T, j), i # j PROVE FALSE
    OBVIOUS
  <2>1. i < j \/ j < i
    OBVIOUS
  <2> QED BY <1>3, <2>1, Ranks
<1>5. \A i \in T : Rank(T, i) \in 1..Cardinality(T) /\ InOrder(T)[Rank(T, i)] = i
  BY <1>1, <1>4, Ranks
<1>6. \A k, m \in 1..Cardinality(T) : k < m => InOrder(T)[k] < InOrder(T)[m]
  <2> SUFFICES ASSUME NEW k \in 1..Cardinality(T), NEW m \in 1..Cardinality(T), k < m,
                      ~(InOrder(T)[k] < InOrder(T)[m])
               PROVE  FALSE
    OBVIOUS
  <2>1. InOrder(T)[k] \in T /\ InOrder(T)[m] \in T
    BY <1>1
  <2> DEFINE i == InOrder(T)[k]
             j == InOrder(T)[m]
  <2>2. Rank(T, i) = k /\ Rank(T, j) = m /\ k \in Nat /\ m \in Nat
    BY <1>1
  <2>3. i \in T /\ j \in T /\ ~(i < j)
    BY <2>1
  <2> HIDE DEF i, j
  <2>4. i \in Nat /\ j \in Nat
    BY <2>3
  <2>5. j < i \/ j = i
    BY <2>3, <2>4
  <2>6. j < i => m < k
    BY <2>2, <2>3, Ranks
  <2> QED BY <2>2, <2>5, <2>6
<1> QED BY <1>2, <1>5, <1>6

-----------------------------------------------------------------------------
\* The recursive function of After, unfolded once.
AfterStep(p, ns, g) == [i \in 0..Len(ns) |-> IF i = 0 THEN p ELSE Greater(g[i - 1], ns[i])]

LEMMA AfterUnfolds == ASSUME NEW p, NEW ns PROVE After(p, ns) = CHOOSE g : g = AfterStep(p, ns, g)
BY Zenon DEF After, AfterStep

\* It is a function: the latest of the first numbers, one number at a time.
LEMMA AfterIs ==
    ASSUME NEW p \in Nat, NEW ns, Len(ns) \in Nat, ns \in [1..Len(ns) -> Nat]
    PROVE  /\ After(p, ns) \in [0..Len(ns) -> Nat] /\ After(p, ns)[0] = p
           /\ \A k \in 1..Len(ns) : After(p, ns)[k] = Greater(After(p, ns)[k - 1], ns[k])
<1> DEFINE N == Len(ns)
           Does(m, g) == /\ g \in [0..m -> Nat] /\ g[0] = p
                         /\ \A i \in 1..m : g[i] = Greater(g[i - 1], ns[i])
           P == {m \in Nat : m <= N => \E g : Does(m, g)}
<1>1. 0 \in P
  <2>1. Does(0, [i \in 0..0 |-> p])
    OBVIOUS
  <2> QED BY <2>1
<1>2. ASSUME NEW m \in P PROVE m + 1 \in P
  <2>0. m + 1 \in Nat
    <3>1. m \in Nat
      BY Zenon
    <3> HIDE DEF P
    <3> QED BY <3>1
  <2> SUFFICES ASSUME m + 1 <= N PROVE \E g : Does(m + 1, g)
    BY <2>0, Zenon
  <2>1. m \in Nat /\ m <= N /\ m + 1 \in 1..N
    <3> HIDE DEF Does
    <3>1. m \in Nat
      OBVIOUS
    <3> HIDE DEF P
    <3> QED BY <3>1
  <2>2. PICK g : Does(m, g)
    <3> HIDE DEF Does
    <3> QED BY <2>1
  <2> DEFINE h == [i \in 0..m + 1 |-> IF i <= m THEN g[i] ELSE Greater(g[m], ns[m + 1])]
  <2>3. ns[m + 1] \in Nat /\ g[m] \in Nat
    <3>1. ns[m + 1] \in Nat
      BY <2>1
    <3>2. m \in 0..m
      BY <2>1
    <3> QED BY <2>2, <3>1, <3>2
  <2>4. h \in [0..m + 1 -> Nat]
    BY <2>1, <2>2, <2>3 DEF Greater
  <2>5. h[0] = p
    BY <2>1, <2>2
  <2>6. \A i \in 1..m + 1 : h[i] = Greater(h[i - 1], ns[i])
    <3> SUFFICES ASSUME NEW i \in 1..m + 1 PROVE h[i] = Greater(h[i - 1], ns[i])
      OBVIOUS
    <3>1. h[i - 1] = g[i - 1]
      BY <2>1
    <3>2. CASE i <= m
      <4>1. i \in 1..m /\ h[i] = g[i]
        BY <2>1, <3>2
      <4> QED BY <2>2, <3>1, <4>1
    <3>3. CASE i = m + 1
      BY <2>1, <3>1, <3>3
    <3> QED BY <2>1, <3>2, <3>3
  <2> HIDE DEF h
  <2> QED BY <2>4, <2>5, <2>6
<1>3. P = Nat
  <2>1. P \in SUBSET Nat
    OBVIOUS
  <2> HIDE DEF P
  <2> QED BY <1>1, <1>2, <2>1, NatSet
<1>4. PICK g : Does(N, g)
  <2>1. N \in P /\ N <= N
    BY <1>3
  <2> QED BY <2>1
<1>5. g = AfterStep(p, ns, g)
  <2>1. \A i \in 0..N : g[i] = IF i = 0 THEN p ELSE Greater(g[i - 1], ns[i])
    BY <1>4
  <2>2. g = [i \in 0..N |-> g[i]]
    BY <1>4
  <2> HIDE DEF Does
  <2> QED BY <2>1, <2>2 DEF AfterStep
<1> HIDE DEF P
<1>6. After(p, ns) = AfterStep(p, ns, After(p, ns))
  BY <1>5, AfterUnfolds
<1> DEFINE a == After(p, ns)
<1>7. \A i \in 0..N : a[i] = IF i = 0 THEN p ELSE Greater(a[i - 1], ns[i])
  <2> DEFINE b == a
  <2> HIDE DEF b
  <2>1. b = AfterStep(p, ns, b)
    BY <1>6 DEF b
  <2>2. \A i \in 0..N : AfterStep(p, ns, b)[i] = IF i = 0 THEN p ELSE Greater(b[i - 1], ns[i])
    BY DEF AfterStep
  <2> QED BY <2>1, <2>2 DEF b
<1>8. DOMAIN a = 0..N /\ a = [i \in DOMAIN a |-> a[i]]
  BY <1>6 DEF AfterStep
<1> HIDE DEF a
<1> DEFINE Q == {m \in Nat : m <= N => a[m] \in Nat}
<1>9. 0 \in Q
  BY <1>7
<1>10. ASSUME NEW m \in Q PROVE m + 1 \in Q
  <2> SUFFICES ASSUME m + 1 <= N PROVE a[m + 1] \in Nat
    OBVIOUS
  <2>1. m + 1 \in 0..N /\ m + 1 # 0 /\ (m + 1) - 1 = m /\ m <= N /\ m + 1 \in 1..N
    OBVIOUS
  <2>2. a[m] \in Nat /\ ns[m + 1] \in Nat
    BY <2>1
  <2>3. a[m + 1] = Greater(a[m], ns[m + 1])
    BY <1>7, <2>1
  <2> QED BY <2>2, <2>3 DEF Greater
<1>11. Q = Nat
  <2>1. Q \in SUBSET Nat
    OBVIOUS
  <2> HIDE DEF Q
  <2> QED BY <1>9, <1>10, <2>1, NatSet
<1>12. \A m \in 0..N : a[m] \in Nat
  BY <1>11
<1>13. a \in [0..N -> Nat]
  BY <1>8, <1>12
<1>14. a[0] = p /\ \A k \in 1..N : a[k] = Greater(a[k - 1], ns[k])
  BY <1>7
<1> QED BY <1>13, <1>14 DEF a

\* What is recorded of a reply's numbers, which only grow.
Growing(N, ns) == \A k, m \in 1..N : k <= m => ns[k] <= ns[m]

Records(N, p, ns, last) ==
    /\ N \in Nat /\ p \in Nat /\ ns \in [1..N -> Nat \ {0}] /\ last \in [0..N -> Nat]
    /\ last[0] = p /\ \A k \in 1..N : last[k] = Greater(last[k - 1], ns[k])

\* The latest number is no less than any before it, and is one of them.
LEMMA LatestIs ==
    ASSUME NEW N, NEW p, NEW ns, NEW last, Records(N, p, ns, last)
    PROVE  \A k \in 0..N : /\ p <= last[k]
                           /\ \A j \in 1..k : ns[j] <= last[k]
                           /\ last[k] = p \/ \E j \in 1..k : last[k] = ns[j]
<1> USE DEF Records
<1> DEFINE OK(k) == /\ p <= last[k] /\ \A j \in 1..k : ns[j] <= last[k]
                    /\ last[k] = p \/ \E j \in 1..k : last[k] = ns[j]
           P == {k \in Nat : k <= N => OK(k)}
<1>1. 0 \in P
  OBVIOUS
<1>2. ASSUME NEW k \in P PROVE k + 1 \in P
  <2> SUFFICES ASSUME k + 1 <= N PROVE OK(k + 1)
    OBVIOUS
  <2>0. k \in Nat /\ (k <= N => OK(k))
    <3> HIDE DEF OK
    <3> QED OBVIOUS
  <2>1. k + 1 \in 1..N /\ (k + 1) - 1 = k /\ k \in 0..N /\ OK(k)
    <3> HIDE DEF OK, P
    <3> QED BY <2>0
  <2>2. last[k] \in Nat /\ ns[k + 1] \in Nat /\ last[k + 1] = Greater(last[k], ns[k + 1])
    BY <2>1
  <2>3. last[k] <= last[k + 1] /\ ns[k + 1] <= last[k + 1] /\ last[k + 1] \in {last[k], ns[k + 1]} /\ last[k + 1] \in Nat
    <3> HIDE DEF OK, P
    <3> QED BY SMTT(20), <2>2 DEF Greater
  <2>4. \A j \in 1..k + 1 : ns[j] \in Nat /\ (j = k + 1 \/ j \in 1..k)
    BY SMTT(20), <2>1
  <2>5. p <= last[k + 1]
    BY <2>1, <2>2, <2>3
  <2>6. \A j \in 1..k + 1 : ns[j] <= last[k + 1]
    <3> SUFFICES ASSUME NEW j \in 1..k + 1 PROVE ns[j] <= last[k + 1]
      OBVIOUS
    <3>1. j \in 1..k => ns[j] <= last[k]
      BY <2>1
    <3> HIDE DEF OK, P
    <3> QED BY SMTT(20), <2>2, <2>3, <2>4, <3>1
  <2>7. last[k + 1] = p \/ \E j \in 1..k + 1 : last[k + 1] = ns[j]
    BY <2>1, <2>3
  <2> QED BY <2>5, <2>6, <2>7
<1>3. P = Nat
  <2>1. P \in SUBSET Nat
    OBVIOUS
  <2> HIDE DEF P
  <2> QED BY <1>1, <1>2, <2>1, NatSet
<1>4. \A k \in 0..N : k \in P /\ k <= N
  <2> HIDE DEF P
  <2> QED BY <1>3
<1>5. \A k \in 0..N : OK(k)
  <2> HIDE DEF OK
  <2> QED BY <1>4
<1> QED BY <1>5

\* Between the first number and the latest, each was recorded or reported.
LEMMA NoJumpIsSilent ==
    ASSUME NEW N, NEW p, NEW ns, NEW last, Records(N, p, ns, last), N # 0,
           NEW first \in Nat, NEW S,
           p # None => first..p \subseteq S,
           p = None => first = ns[1],
           \A k \in 1..N : ns[k] \in S /\ Gap(last[k - 1], ns[k]) \subseteq S
    PROVE  first..last[N] \subseteq S
<1> USE DEF Records
<1> DEFINE P == {k \in Nat : k <= N => (IF last[k] = None THEN k = 0 ELSE first..last[k] \subseteq S)}
<1>1. 0 \in P
  OBVIOUS
<1>2. ASSUME NEW k \in P PROVE k + 1 \in P
  <2> SUFFICES ASSUME k + 1 <= N PROVE IF last[k + 1] = None THEN k + 1 = 0 ELSE first..last[k + 1] \subseteq S
    OBVIOUS
  <2>1. /\ k + 1 \in 1..N /\ (k + 1) - 1 = k /\ k \in 0..N
        /\ (IF last[k] = None THEN k = 0 ELSE first..last[k] \subseteq S)
    OBVIOUS
  <2>2. /\ last[k] \in Nat /\ ns[k + 1] \in Nat \ {0} /\ last[k + 1] = Greater(last[k], ns[k + 1])
        /\ ns[k + 1] \in S /\ Gap(last[k], ns[k + 1]) \subseteq S
    BY <2>1
  <2>3. last[k + 1] # None
    BY <2>2 DEF Greater, None
  <2>4. CASE last[k] = None
    <3>1. k = 0 /\ p = None /\ first = ns[1]
      BY <2>1, <2>4
    <3>2. last[k + 1] = ns[1]
      BY <2>2, <2>4, <3>1 DEF Greater, None
    <3> QED BY <2>2, <2>3, <3>1, <3>2
  <2>5. CASE last[k] # None
    <3>1. \A x \in first..last[k + 1] : x \in first..last[k] \/ x = ns[k + 1] \/ x \in Gap(last[k], ns[k + 1])
      BY <2>2, <2>5 DEF Greater, Gap
    <3> QED BY <2>1, <2>2, <2>3, <2>5, <3>1
  <2> QED BY <2>4, <2>5
<1>3. P = Nat
  <2>1. P \in SUBSET Nat
    OBVIOUS
  <2> HIDE DEF P
  <2> QED BY <1>1, <1>2, <2>1, NatSet
<1>4. N \in P /\ N <= N
  <2> HIDE DEF P
  <2> QED BY <1>3
<1>5. IF last[N] = None THEN N = 0 ELSE first..last[N] \subseteq S
  BY <1>4
<1> QED BY <1>5

\* A number in a gap is none of the reply's, and less than one of them.
LEMMA GapsAreBetween ==
    ASSUME NEW N, NEW p, NEW ns, NEW last, Records(N, p, ns, last), Growing(N, ns),
           NEW k \in 1..N, NEW n \in Gap(last[k - 1], ns[k])
    PROVE  n \in Nat /\ n < ns[k] /\ \A j \in 1..N : n # ns[j]
<1>1. k - 1 \in 0..N /\ last[k - 1] \in Nat /\ ns[k] \in Nat
  BY DEF Records
<1>2. n \in Nat /\ n < ns[k] /\ last[k - 1] < n
  BY <1>1 DEF Gap
<1>3. \A j \in 1..N : ns[j] \in Nat /\ (j \in 1..k - 1 \/ k <= j)
  BY DEF Records
<1>4. \A j \in 1..k - 1 : ns[j] <= last[k - 1]
  BY <1>1, LatestIs
<1>5. \A j \in 1..N : k <= j => ns[k] <= ns[j]
  BY DEF Growing
<1> QED BY <1>1, <1>2, <1>3, <1>4, <1>5

-----------------------------------------------------------------------------
\* Entries carry sequence numbers that never decrease: the publisher goes on.
EntriesGrow ==
    /\ \A i, j \in DOMAIN added : i <= j => added[i] <= added[j]
    /\ \A i \in DOMAIN added : added[i] <= published

\* The numbers of a set of entries, in stream order.
Numbers(ids) == [k \in 1..Cardinality(ids) |-> added[InOrder(ids)[k]]]

LEMMA FunctionIsSeq ==
    ASSUME NEW N \in Nat, NEW S, NEW f \in [1..N -> S]
    PROVE  f \in Seq(S) /\ Len(f) = N /\ DOMAIN f = 1..N
OBVIOUS

LEMMA NumbersAre ==
    ASSUME added \in Seq(Sequences), EntriesGrow, NEW ids \in SUBSET DOMAIN added, ids # {}
    PROVE  LET N == Cardinality(ids)
           IN  /\ N \in Nat \ {0} /\ Numbers(ids) \in [1..N -> Sequences] /\ Len(Numbers(ids)) = N
               /\ Growing(N, Numbers(ids))
               /\ \A k \in 1..N : \E i \in ids : Numbers(ids)[k] = added[i]
               /\ \A i \in ids : \E k \in 1..N : Numbers(ids)[k] = added[i]
<1> DEFINE N == Cardinality(ids)
           ns == Numbers(ids)
           o == InOrder(ids)
<1>1. ids \in SUBSET Nat /\ IsFiniteSet(ids) /\ DOMAIN added = 1..Len(added) /\ Len(added) \in Nat
  <2>1. DOMAIN added = 1..Len(added) /\ Len(added) \in Nat
    OBVIOUS
  <2>2. IsFiniteSet(1..Len(added))
    BY <2>1, FS_Interval
  <2> QED BY <2>1, <2>2, FS_Subset
<1>2. N \in Nat \ {0}
  BY <1>1, FS_CardinalityType, FS_EmptySet
<1>3. /\ o \in [1..N -> ids]
      /\ \A i \in ids : \E k \in 1..N : o[k] = i
      /\ \A k, m \in 1..N : k < m => o[k] < o[m]
  BY <1>1, Ordered
<1>4. ns = [k \in 1..N |-> added[o[k]]]
  BY DEF Numbers
<1> HIDE DEF o, ns, N
<1>5. \A i \in ids : added[i] \in Sequences /\ i \in DOMAIN added /\ i \in Nat
  BY <1>1
<1>6. ns \in [1..N -> Sequences]
  BY <1>3, <1>4, <1>5
<1>7. Len(ns) = N
  BY <1>2, <1>6, FunctionIsSeq
<1>8. Growing(N, ns)
  <2> SUFFICES ASSUME NEW k \in 1..N, NEW m \in 1..N, k <= m PROVE ns[k] <= ns[m]
    BY DEF Growing
  <2>1. o[k] \in ids /\ o[m] \in ids /\ (k = m \/ o[k] < o[m]) /\ ns[k] = added[o[k]] /\ ns[m] = added[o[m]]
    BY <1>2, <1>3, <1>4
  <2>2. o[k] <= o[m]
    BY <1>5, <2>1
  <2> QED BY <1>5, <2>1, <2>2 DEF EntriesGrow
<1>9. \A k \in 1..N : \E i \in ids : ns[k] = added[i]
  BY <1>3, <1>4
<1>10. \A i \in ids : \E k \in 1..N : ns[k] = added[i]
  BY <1>3, <1>4
<1> QED BY <1>2, <1>6, <1>7, <1>8, <1>9, <1>10 DEF ns, N

\* What Deliver does, in terms of the reply's numbers and the latest of them.
LEMMA DeliverIs ==
    ASSUME TypeOK, EntriesGrow, NEW c \in Consumers,
           NEW ids \in SUBSET DOMAIN added, ids # {}, Deliver(c, ids),
           NEW N, N = Cardinality(ids), NEW ns, ns = Numbers(ids),
           NEW last, last = After(lastSeq[c], ns)
    PROVE  /\ N \in Nat \ {0} /\ ns \in [1..N -> Sequences]
           /\ Growing(N, ns) /\ Records(N, lastSeq[c], ns, last)
           /\ \A k \in 1..N : \E i \in ids : ns[k] = added[i]
           /\ \A i \in ids : \E k \in 1..N : ns[k] = added[i]
           /\ lastSeq' = [lastSeq EXCEPT ![c] = last[N]]
           /\ seen' = [seen EXCEPT ![c] = seen[c] \cup {ns[k] : k \in 1..N}]
           /\ reported' = [reported EXCEPT ![c] =
                 reported[c] \cup UNION {Gap(last[k - 1], ns[k]) : k \in 1..N}]
           /\ firstSeq' = [firstSeq EXCEPT ![c] = IF firstSeq[c] = None THEN ns[1] ELSE firstSeq[c]]
           /\ hand' = [hand EXCEPT ![c] = ids] /\ pc' = [pc EXCEPT ![c] = "handling"]
           /\ UNCHANGED <<groupReady, handled, failedOver>>
<1>1. /\ N \in Nat \ {0} /\ ns \in [1..N -> Sequences] /\ Len(ns) = N /\ Growing(N, ns)
      /\ \A k \in 1..N : \E i \in ids : ns[k] = added[i]
      /\ \A i \in ids : \E k \in 1..N : ns[k] = added[i]
  BY ZenonT(30), NumbersAre DEF TypeOK
<1>2. lastSeq[c] \in Nat /\ ns \in [1..N -> Nat \ {0}]
  <2>1. lastSeq[c] \in Sequences \cup {None} /\ Sequences \subseteq Nat \ {0} /\ None \in Nat
    BY DEF TypeOK, Sequences, None
  <2> QED BY <1>1, <2>1
<1>3. Records(N, lastSeq[c], ns, last)
  <2>1. Len(ns) \in Nat /\ ns \in [1..Len(ns) -> Nat]
    BY <1>1, <1>2
  <2>2. /\ last \in [0..Len(ns) -> Nat] /\ last[0] = lastSeq[c]
        /\ \A k \in 1..Len(ns) : last[k] = Greater(last[k - 1], ns[k])
    <3> DEFINE p == lastSeq[c]
               a == After(p, ns)
    <3>1. p \in Nat
      BY <1>2
    <3> HIDE DEF p
    <3>2. /\ a \in [0..Len(ns) -> Nat] /\ a[0] = p
          /\ \A k \in 1..Len(ns) : a[k] = Greater(a[k - 1], ns[k])
      BY SMTT(20), <2>1, <3>1, AfterIs
    <3>3. last = a
      BY DEF p
    <3> QED BY <3>2, <3>3 DEF p
  <2> QED BY <1>1, <1>2, <2>2 DEF Records
<1>4. DOMAIN InOrder(ids) = 1..N /\ ns = [k \in DOMAIN InOrder(ids) |-> added[InOrder(ids)[k]]]
  BY InOrderIs DEF Numbers
<1>5. /\ lastSeq' = [lastSeq EXCEPT ![c] = last[Len(ns)]]
      /\ seen' = [seen EXCEPT ![c] = @ \cup {ns[k] : k \in DOMAIN ns}]
      /\ reported' = [reported EXCEPT ![c] =
             @ \cup UNION {Gap(last[k - 1], ns[k]) : k \in DOMAIN ns}]
      /\ firstSeq' = [firstSeq EXCEPT ![c] = IF @ = None THEN ns[1] ELSE @]
      /\ hand' = [hand EXCEPT ![c] = ids]
      /\ pc' = [pc EXCEPT ![c] = "handling"]
      /\ UNCHANGED <<groupReady, handled, failedOver>>
  BY <1>4 DEF Deliver
<1>6. DOMAIN ns = 1..N
  BY <1>1
<1> QED BY <1>1, <1>3, <1>5, <1>6

-----------------------------------------------------------------------------
\* A process has a first number when it has a last one; between them no jump
\* is silent; and it reads new entries with none of its own pending.
BusInv ==
    /\ TypeOK /\ EntriesGrow /\ JumpsAreReported
    /\ \A c \in Consumers :
          /\ hand[c] \subseteq DOMAIN added
          /\ lastSeq[c] = None <=> firstSeq[c] = None
          /\ pc[c] = "fresh" /\ ~failedOver => redis.pending[c] = {}

BusRest ==
    \A c \in Consumers :
       /\ hand[c] \subseteq DOMAIN added
       /\ lastSeq[c] = None <=> firstSeq[c] = None
       /\ pc[c] = "fresh" /\ ~failedOver => redis.pending[c] = {}

LEMMA BusArith ==
    /\ Count \in Nat \ {0} /\ MaxLen \in Nat \ {0}
    /\ MaxSequence \in Nat /\ MaxEntries \in Nat /\ MaxFaults \in Nat
    /\ Sequences \subseteq Nat \ {0} /\ None \notin Sequences /\ None = 0
BY BusAssumption DEF Sequences, None

\* The type of a Redis, given the number of entries that were ever added.
RedisOK(r, n) ==
    /\ r \in RedisStates
    /\ r.stream \subseteq 1..n /\ r.cursor <= n
    /\ \A c \in Consumers : r.pending[c] \subseteq 1..r.cursor

LEMMA AddedIs ==
    ASSUME TypeOK
    PROVE  /\ added \in Seq(Sequences) /\ Len(added) \in Nat /\ DOMAIN added = 1..Len(added)
           /\ Len(added) <= MaxEntries /\ \A i \in DOMAIN added : added[i] \in Sequences
           /\ RedisOK(redis, Len(added)) /\ RedisOK(replica, Len(added))
           /\ IsFiniteSet(DOMAIN added)
<1>1. added \in Seq(Sequences) /\ Len(added) \in Nat /\ DOMAIN added = 1..Len(added) /\ Len(added) <= MaxEntries
  BY DEF TypeOK
<1>2. \A i \in DOMAIN added : added[i] \in Sequences
  BY <1>1
<1>3. RedisOK(redis, Len(added)) /\ RedisOK(replica, Len(added))
  BY <1>1 DEF TypeOK, RedisOK
<1>4. IsFiniteSet(1..Len(added))
  BY <1>1, FS_Interval
<1> QED BY <1>1, <1>2, <1>3, <1>4

\* A delivery keeps what is known of the detector.
LEMMA DeliverKeeps ==
    ASSUME BusInv, NEW c \in Consumers, NEW ids \in SUBSET DOMAIN added, ids # {}, Deliver(c, ids)
    PROVE  /\ pc' \in [Consumers -> {"idle", "group", "pending", "fresh", "handling"}]
           /\ groupReady' \in [Consumers -> BOOLEAN]
           /\ lastSeq' \in [Consumers -> Sequences \cup {None}]
           /\ hand' \in [Consumers -> SUBSET Ids]
           /\ firstSeq' \in [Consumers -> Sequences \cup {None}]
           /\ seen' \in [Consumers -> SUBSET Sequences]
           /\ \A d \in Consumers : \A n \in seen'[d] : n <= lastSeq'[d]
           /\ reported' \in [Consumers -> SUBSET Sequences]
           /\ handled' \subseteq Sequences
           /\ failedOver' \in BOOLEAN
           /\ JumpsAreReported'
           /\ \A d \in Consumers : /\ hand'[d] \subseteq DOMAIN added
                                   /\ lastSeq'[d] = None <=> firstSeq'[d] = None
                                   /\ pc'[d] = "fresh" => d # c /\ pc[d] = "fresh"
<1> DEFINE N == Cardinality(ids)
           ns == Numbers(ids)
           last == After(lastSeq[c], ns)
           S == seen[c] \cup {ns[k] : k \in 1..N}
           R == reported[c] \cup UNION {Gap(last[k - 1], ns[k]) : k \in 1..N}
           first == IF firstSeq[c] = None THEN ns[1] ELSE firstSeq[c]
<1>1. TypeOK /\ EntriesGrow /\ JumpsAreReported
  BY DEF BusInv
<1>2. /\ N \in Nat \ {0} /\ ns \in [1..N -> Sequences]
      /\ Growing(N, ns) /\ Records(N, lastSeq[c], ns, last)
      /\ lastSeq' = [lastSeq EXCEPT ![c] = last[N]]
      /\ seen' = [seen EXCEPT ![c] = S]
      /\ reported' = [reported EXCEPT ![c] = R]
      /\ firstSeq' = [firstSeq EXCEPT ![c] = first]
      /\ hand' = [hand EXCEPT ![c] = ids] /\ pc' = [pc EXCEPT ![c] = "handling"]
      /\ UNCHANGED <<groupReady, handled, failedOver>>
  BY <1>1, DeliverIs
<1> HIDE DEF N, ns, last, S, R, first
<1>3. /\ lastSeq \in [Consumers -> Sequences \cup {None}] /\ seen \in [Consumers -> SUBSET Sequences]
      /\ reported \in [Consumers -> SUBSET Sequences] /\ firstSeq \in [Consumers -> Sequences \cup {None}]
      /\ hand \in [Consumers -> SUBSET Ids]
      /\ pc \in [Consumers -> {"idle", "group", "pending", "fresh", "handling"}]
      /\ \A d \in Consumers : \A n \in seen[d] : n <= lastSeq[d]
  BY <1>1 DEF TypeOK
<1>4. /\ N \in 0..N /\ last[N] \in Nat /\ N \in 1..N /\ 1 \in 1..N /\ ns[1] \in Sequences
      /\ lastSeq[c] <= last[N] /\ (\A k \in 1..N : ns[k] <= last[N])
      /\ (last[N] = lastSeq[c] \/ \E k \in 1..N : last[N] = ns[k])
  <2>1. N \in 0..N /\ N \in 1..N /\ 1 \in 1..N
    BY <1>2
  <2>2. last[N] \in Nat /\ ns[1] \in Sequences
    BY <1>2, <2>1 DEF Records
  <2>3. \A k \in 0..N : /\ lastSeq[c] <= last[k]
                        /\ \A j \in 1..k : ns[j] <= last[k]
                        /\ last[k] = lastSeq[c] \/ \E j \in 1..k : last[k] = ns[j]
    <3> DEFINE p == lastSeq[c]
    <3>1. Records(N, p, ns, last)
      BY <1>2
    <3> HIDE DEF p
    <3>2. \A k \in 0..N : /\ p <= last[k]
                          /\ \A j \in 1..k : ns[j] <= last[k]
                          /\ last[k] = p \/ \E j \in 1..k : last[k] = ns[j]
      BY <3>1, LatestIs
    <3> QED BY <3>2 DEF p
  <2>4. /\ lastSeq[c] <= last[N]
        /\ \A j \in 1..N : ns[j] <= last[N]
        /\ last[N] = lastSeq[c] \/ \E j \in 1..N : last[N] = ns[j]
    BY <2>1, <2>3
  <2> QED BY <2>1, <2>2, <2>4
<1>5. last[N] \in Sequences
  <2>1. last[N] # None /\ lastSeq[c] \in Sequences \cup {None}
    <3>1. ns[1] <= last[N] /\ ns[1] \in Nat \ {0} /\ None = 0
      BY <1>4, BusArith
    <3> QED BY <1>3, <1>4, <3>1
  <2> QED BY <1>2, <1>4, <2>1
<1>6. lastSeq' \in [Consumers -> Sequences \cup {None}]
  BY <1>2, <1>3, <1>5
<1>7. first \in Sequences
  BY <1>3, <1>4 DEF first
<1>8. firstSeq' \in [Consumers -> Sequences \cup {None}]
  BY <1>2, <1>3, <1>7
<1>9. S \in SUBSET Sequences
  BY <1>2, <1>3 DEF S
<1>10. seen' \in [Consumers -> SUBSET Sequences]
  BY <1>2, <1>3, <1>9
<1>11. \A d \in Consumers : \A n \in seen'[d] : n <= lastSeq'[d]
  <2>1. \A n \in seen[c] : n \in Nat /\ n <= last[N]
    <3>1. \A n \in seen[c] : n \in Nat /\ n <= lastSeq[c]
      <4>1. seen[c] \in SUBSET Sequences
        BY <1>3
      <4> QED BY <1>3, <4>1, BusArith
    <3>2. lastSeq[c] \in Nat
      <4>1. lastSeq[c] \in Sequences \cup {None}
        BY <1>3
      <4> QED BY <4>1 DEF Sequences, None
    <3> QED BY <1>4, <3>1, <3>2
  <2>2. \A n \in S : n <= last[N]
    BY <1>4, <2>1 DEF S
  <2> QED BY <1>2, <1>3, <2>2
<1>12. R \in SUBSET Sequences
  <2> SUFFICES ASSUME NEW k \in 1..N, NEW n \in Gap(last[k - 1], ns[k]) PROVE n \in Sequences
    BY <1>3 DEF R
  <2>1. last[k - 1] \in Nat /\ ns[k] \in Sequences
    BY <1>2 DEF Records
  <2> QED BY <2>1, BusArith DEF Gap, Sequences
<1>13. reported' \in [Consumers -> SUBSET Sequences]
  BY <1>2, <1>3, <1>12
<1>14. JumpsAreReported'
  <2> SUFFICES ASSUME NEW d \in Consumers, lastSeq'[d] # None
               PROVE  firstSeq'[d]..lastSeq'[d] \subseteq seen'[d] \cup reported'[d]
    BY DEF JumpsAreReported
  <2>1. CASE d # c
    BY <1>1, <1>2, <1>3, <2>1 DEF JumpsAreReported
  <2>2. CASE d = c
    <3>1. lastSeq[c] # None => first..lastSeq[c] \subseteq S \cup R
      BY <1>1 DEF BusInv, JumpsAreReported, first, S, R
    <3>2. lastSeq[c] = None => first = ns[1]
      BY DEF BusInv, first
    <3>3. \A k \in 1..N : ns[k] \in S \cup R /\ Gap(last[k - 1], ns[k]) \subseteq S \cup R
      BY DEF S, R
    <3>4. first \in Nat /\ N # 0
      BY <1>2, <1>7, BusArith
    <3>5. first..last[N] \subseteq S \cup R
      <4> DEFINE U == S \cup R
                 p == lastSeq[c]
      <4>1. /\ Records(N, p, ns, last) /\ (p # None => first..p \subseteq U) /\ (p = None => first = ns[1])
            /\ \A k \in 1..N : ns[k] \in U /\ Gap(last[k - 1], ns[k]) \subseteq U
        BY <1>2, <3>1, <3>2, <3>3
      <4> HIDE DEF U, p
      <4>2. first..last[N] \subseteq U
        BY <3>4, <4>1, NoJumpIsSilent
      <4> QED BY <4>2 DEF U
    <3> QED BY <1>2, <1>3, <2>2, <3>5
  <2> QED BY <2>1, <2>2
<1>15. /\ hand' \in [Consumers -> SUBSET Ids]
       /\ \A d \in Consumers : hand'[d] \subseteq DOMAIN added
  <2>1. ids \in SUBSET Ids
    BY <1>1, AddedIs, BusArith DEF Ids
  <2> QED BY <1>2, <1>3, <2>1 DEF BusInv
<1>16. \A d \in Consumers : /\ lastSeq'[d] = None <=> firstSeq'[d] = None
                            /\ pc'[d] = "fresh" => d # c /\ pc[d] = "fresh"
  BY <1>2, <1>3, <1>5, <1>7, BusArith DEF BusInv
<1>17. pc' \in [Consumers -> {"idle", "group", "pending", "fresh", "handling"}]
  BY <1>2, <1>3
<1>18. groupReady' \in [Consumers -> BOOLEAN] /\ handled' \subseteq Sequences /\ failedOver' \in BOOLEAN
  BY <1>1, <1>2 DEF TypeOK
<1> QED BY <1>6, <1>8, <1>10, <1>11, <1>13, <1>14, <1>15, <1>16, <1>17, <1>18

-----------------------------------------------------------------------------
\* The oldest of a set: some of it, when there are any, and before the others.
LEMMA OldestAre ==
    ASSUME NEW T \in SUBSET Nat, IsFiniteSet(T)
    PROVE  /\ Oldest(T) \subseteq T /\ (T # {} => Oldest(T) # {})
           /\ \A i \in T \ Oldest(T) : \A j \in Oldest(T) : j < i
<1>1. Oldest(T) = {i \in T : Rank(T, i) <= Count}
  BY DEF Oldest, Rank
<1>2. /\ Cardinality(T) \in Nat /\ \A i \in T : Rank(T, i) \in Nat
      /\ \A i, j \in T : i < j => Rank(T, i) < Rank(T, j)
      /\ \A k \in 1..Cardinality(T) : \E i \in T : Rank(T, i) = k
  BY Ranks
<1>3. ASSUME T # {} PROVE Oldest(T) # {}
  <2>1. 1 \in 1..Cardinality(T)
    BY <1>2, <1>3, FS_EmptySet
  <2>2. PICK i \in T : Rank(T, i) = 1
    BY <1>2, <2>1
  <2> QED BY <1>1, <2>2, BusArith
<1>4. ASSUME NEW i \in T \ Oldest(T), NEW j \in Oldest(T) PROVE j < i
  <2>1. /\ i \in T /\ j \in T /\ Rank(T, j) <= Count /\ ~(Rank(T, i) <= Count)
        /\ Rank(T, i) \in Nat /\ Rank(T, j) \in Nat /\ Count \in Nat
    BY <1>1, <1>2, BusArith
  <2>2. ~(i < j) /\ i # j
    BY <1>2, <2>1
  <2>3. i \in Nat /\ j \in Nat
    BY <2>1
  <2> QED BY <2>2, <2>3
<1> QED BY <1>1, <1>3, <1>4

LEMMA UndeliveredAre ==
    ASSUME TypeOK
    PROVE  /\ Undelivered \subseteq DOMAIN added /\ DOMAIN added \subseteq Nat
           /\ IsFiniteSet(Undelivered) /\ \A c \in Consumers : /\ redis.pending[c] \subseteq DOMAIN added
                                                             /\ IsFiniteSet(redis.pending[c])
<1>1. /\ DOMAIN added = 1..Len(added) /\ Len(added) \in Nat /\ IsFiniteSet(DOMAIN added)
      /\ RedisOK(redis, Len(added))
  BY AddedIs
<1>2. Undelivered \subseteq DOMAIN added
  BY <1>1 DEF Undelivered, RedisOK
<1>3. \A c \in Consumers : redis.pending[c] \subseteq DOMAIN added
  <2>1. redis.cursor \in Nat /\ redis.cursor <= Len(added)
    BY <1>1, BusArith DEF RedisOK, RedisStates
  <2>2. 1..redis.cursor \subseteq 1..Len(added)
    BY <1>1, <2>1
  <2> QED BY <1>1, <2>2 DEF RedisOK
<1> QED BY <1>1, <1>2, <1>3, FS_Subset

\* Redis hands entries out: they are pending, and the cursor is at the last.
LEMMA HandOutIs ==
    ASSUME TypeOK, NEW c \in Consumers, Undelivered # {}, HandOut(c, Oldest(Undelivered))
    PROVE  /\ RedisOK(redis', Len(added))
           /\ redis'.stream = redis.stream /\ redis'.group = redis.group
           /\ redis'.cursor \in Nat /\ redis'.cursor \in Oldest(Undelivered)
           /\ \A j \in Oldest(Undelivered) : j <= redis'.cursor
           /\ redis'.pending = [redis.pending EXCEPT ![c] = redis.pending[c] \cup Oldest(Undelivered)]
<1> DEFINE ids == Oldest(Undelivered)
           m == CHOOSE i \in ids : \A j \in ids : j <= i
<1>1. /\ ids \subseteq Undelivered /\ ids # {} /\ Undelivered \subseteq DOMAIN added
      /\ DOMAIN added \subseteq Nat /\ IsFiniteSet(Undelivered)
  BY UndeliveredAre, OldestAre
<1>2. ids \in SUBSET Nat /\ IsFiniteSet(ids)
  BY <1>1, FS_Subset
<1> HIDE DEF ids
<1>3. m \in ids /\ \A j \in ids : j <= m
  BY <1>1, <1>2, LargestNat
<1>4. redis' = [redis EXCEPT !.cursor = m, !.pending[c] = @ \cup ids]
  BY DEF HandOut, ids
<1> HIDE DEF m
<1>5. /\ RedisOK(redis, Len(added)) /\ DOMAIN added = 1..Len(added) /\ Len(added) \in Nat
      /\ Len(added) <= MaxEntries
  BY AddedIs
<1>6. m \in 1..Len(added) /\ redis.cursor < m /\ redis.cursor \in Nat
  <2>1. m \in Undelivered
    BY <1>1, <1>3
  <2> QED BY <1>1, <1>5, <2>1, BusArith DEF Undelivered, RedisOK, RedisStates
<1>7. m \in 0..MaxEntries /\ ids \in SUBSET Ids
  <2>1. m \in 0..MaxEntries
    BY <1>5, <1>6, BusArith
  <2>2. 1..Len(added) \subseteq Ids
    BY <1>5, BusArith DEF Ids
  <2> QED BY <1>1, <1>5, <2>1, <2>2
<1>8. /\ redis'.stream = redis.stream /\ redis'.group = redis.group /\ redis'.cursor = m
      /\ redis'.pending = [redis.pending EXCEPT ![c] = redis.pending[c] \cup ids]
      /\ redis' = [stream |-> redis'.stream, group |-> redis'.group,
                   cursor |-> redis'.cursor, pending |-> redis'.pending]
  BY <1>4, <1>5 DEF RedisOK, RedisStates
<1>9. redis' \in RedisStates
  <2>1. redis.pending \in [Consumers -> SUBSET Ids] /\ redis.stream \in SUBSET Ids /\ redis.group \in BOOLEAN
    BY <1>5 DEF RedisOK, RedisStates
  <2>2. redis'.pending \in [Consumers -> SUBSET Ids]
    BY <1>7, <1>8, <2>1
  <2> QED BY <1>7, <1>8, <2>1, <2>2 DEF RedisStates
<1>10. \A d \in Consumers : redis'.pending[d] \subseteq 1..redis'.cursor
  <2> SUFFICES ASSUME NEW d \in Consumers PROVE redis'.pending[d] \subseteq 1..m
    BY <1>8
  <2>1. redis.pending[d] \subseteq 1..redis.cursor /\ 1..redis.cursor \subseteq 1..m
    BY <1>5, <1>6 DEF RedisOK
  <2>2. ids \subseteq 1..m
    <3>1. \A j \in ids : j \in 1..Len(added) /\ j <= m
      BY <1>1, <1>3, <1>5
    <3> QED BY <1>6, <3>1
  <2>3. redis'.pending[d] \subseteq redis.pending[d] \cup ids
    BY <1>5, <1>8 DEF RedisOK, RedisStates
  <2> QED BY <2>1, <2>2, <2>3
<1>11. redis'.stream \subseteq 1..Len(added) /\ redis'.cursor <= Len(added) /\ redis'.cursor \in Nat
  BY <1>5, <1>6, <1>8 DEF RedisOK
<1> QED BY <1>3, <1>8, <1>9, <1>10, <1>11 DEF RedisOK, ids

\* What a delivery reports missing is at none of the entries W that are in it
\* or behind it.
LEMMA NothingToComeIsReported ==
    ASSUME TypeOK, EntriesGrow, NEW c \in Consumers,
           NEW ids \in SUBSET DOMAIN added, ids # {}, Deliver(c, ids),
           NEW W \in SUBSET DOMAIN added, \A i \in W : i \in ids \/ \A j \in ids : j < i
    PROVE  (reported'[c] \ reported[c]) \cap {added[i] : i \in W} = {}
<1> DEFINE N == Cardinality(ids)
           ns == Numbers(ids)
           last == After(lastSeq[c], ns)
           p == lastSeq[c]
<1>1. /\ N \in Nat \ {0} /\ ns \in [1..N -> Sequences]
      /\ Growing(N, ns) /\ Records(N, p, ns, last)
      /\ \A k \in 1..N : \E i \in ids : ns[k] = added[i]
      /\ \A i \in ids : \E k \in 1..N : ns[k] = added[i]
      /\ reported' = [reported EXCEPT ![c] =
                 reported[c] \cup UNION {Gap(last[k - 1], ns[k]) : k \in 1..N}]
  BY DeliverIs
<1> HIDE DEF N, ns, last, p
<1> SUFFICES ASSUME NEW n \in reported'[c] \ reported[c], NEW i \in W, n = added[i] PROVE FALSE
  OBVIOUS
<1>2. PICK k \in 1..N : n \in Gap(last[k - 1], ns[k])
  <2>1. n \in UNION {Gap(last[k - 1], ns[k]) : k \in 1..N}
    BY <1>1 DEF TypeOK
  <2> QED BY <2>1
<1>3. n \in Nat /\ n < ns[k] /\ \A j \in 1..N : n # ns[j]
  <2>1. Growing(N, ns) /\ Records(N, p, ns, last)
    BY <1>1
  <2> QED BY <1>2, <2>1, GapsAreBetween
<1>4. PICK j \in ids : ns[k] = added[j]
  BY <1>1
<1>5. CASE i \in ids
  BY <1>1, <1>3, <1>5
<1>6. CASE j < i
  <2>1. i \in DOMAIN added /\ j \in DOMAIN added /\ j <= i
    BY <1>6, AddedIs
  <2>2. added[j] <= added[i]
    BY <2>1 DEF EntriesGrow
  <2>3. added[j] \in Nat
    BY <2>1, AddedIs, BusArith
  <2> QED BY <1>3, <1>4, <2>2, <2>3
<1> QED BY <1>4, <1>5, <1>6

-----------------------------------------------------------------------------
\* The type's parts, and how a step that keeps them keeps the type.
BusTypes ==
    /\ published \in 0..MaxSequence
    /\ pc \in [Consumers -> {"idle", "group", "pending", "fresh", "handling"}]
    /\ groupReady \in [Consumers -> BOOLEAN]
    /\ lastSeq \in [Consumers -> Sequences \cup {None}]
    /\ hand \in [Consumers -> SUBSET Ids]
    /\ faults \in 0..MaxFaults
    /\ firstSeq \in [Consumers -> Sequences \cup {None}]
    /\ seen \in [Consumers -> SUBSET Sequences]
    /\ \A c \in Consumers : \A n \in seen[c] : n <= lastSeq[c]
    /\ reported \in [Consumers -> SUBSET Sequences]
    /\ handled \subseteq Sequences
    /\ failedOver \in BOOLEAN

AddedOK == added \in Seq(Sequences) /\ Len(added) <= MaxEntries

LEMMA TypesAre == TypeOK <=> BusTypes /\ AddedOK /\ RedisOK(redis, Len(added)) /\ RedisOK(replica, Len(added))
<1>1. added \in Seq(Sequences) => DOMAIN added = 1..Len(added)
  OBVIOUS
<1> QED BY <1>1 DEF TypeOK, BusTypes, AddedOK, RedisOK

LEMMA TypesNext ==
    BusTypes' /\ AddedOK' /\ RedisOK(redis', Len(added')) /\ RedisOK(replica', Len(added')) => TypeOK'
<1>1. added' \in Seq(Sequences) => DOMAIN added' = 1..Len(added')
  OBVIOUS
<1> QED BY <1>1 DEF TypeOK, BusTypes, AddedOK, RedisOK

LEMMA InvIs == BusInv <=> TypeOK /\ EntriesGrow /\ JumpsAreReported /\ BusRest
BY DEF BusInv, BusRest

LEMMA EmptyOK == RedisOK(EmptyRedis, 0) /\ \A n \in Nat : RedisOK(EmptyRedis, n)
<1>1. EmptyRedis \in RedisStates
  BY BusArith DEF EmptyRedis, RedisStates
<1>2. EmptyRedis.stream = {} /\ EmptyRedis.cursor = 0 /\ \A c \in Consumers : EmptyRedis.pending[c] = {}
  BY DEF EmptyRedis
<1> QED BY <1>1, <1>2 DEF RedisOK

LEMMA BusInitInv == Init => BusInv
<1> SUFFICES ASSUME Init PROVE BusInv
  OBVIOUS
<1>1. AddedOK /\ Len(added) = 0 /\ DOMAIN added = {}
  BY BusArith DEF Init, AddedOK
<1>2. BusTypes
  <2>1. 0 \in 0..MaxSequence /\ 0 \in 0..MaxFaults
    BY BusArith
  <2> QED BY <2>1 DEF Init, BusTypes
<1>3. RedisOK(redis, Len(added)) /\ RedisOK(replica, Len(added))
  BY <1>1, EmptyOK DEF Init
<1>4. EntriesGrow /\ JumpsAreReported
  BY <1>1 DEF Init, EntriesGrow, JumpsAreReported
<1>5. BusRest
  BY <1>1 DEF Init, BusRest
<1> QED BY <1>1, <1>2, <1>3, <1>4, <1>5, TypesAre, InvIs

\* An entry is added, with the last number published.
LEMMA AddKeeps ==
    ASSUME BusInv, NEW n \in Sequences, Add(n), published <= published', published' = n,
           UNCHANGED <<replica, busVars, faults, history>>
    PROVE  BusInv'
<1>1. BusTypes /\ AddedOK /\ RedisOK(redis, Len(added)) /\ RedisOK(replica, Len(added))
  BY TypesAre DEF BusInv
<1>2. /\ added' \in Seq(Sequences) /\ Len(added') = Len(added) + 1 /\ Len(added) \in Nat
      /\ DOMAIN added' = 1..Len(added) + 1 /\ DOMAIN added = 1..Len(added)
      /\ added'[Len(added) + 1] = n /\ \A i \in DOMAIN added : added'[i] = added[i]
      /\ Len(added) < MaxEntries
  BY <1>1 DEF Add, AddedOK
<1>3. PICK dropped \in SUBSET redis.stream :
         redis' = [redis EXCEPT !.stream = (redis.stream \ dropped) \cup {Len(added')}]
  BY DEF Add
<1>4. AddedOK' /\ Len(added') \in Ids
  BY <1>2, BusArith DEF AddedOK, Ids
<1>5. RedisOK(redis', Len(added'))
  <2>1. /\ redis' = [stream |-> (redis.stream \ dropped) \cup {Len(added')}, group |-> redis.group,
                     cursor |-> redis.cursor, pending |-> redis.pending]
    BY <1>1, <1>3 DEF RedisOK, RedisStates
  <2>2. /\ redis'.stream = (redis.stream \ dropped) \cup {Len(added')}
        /\ redis'.cursor = redis.cursor /\ redis'.pending = redis.pending
    BY <2>1
  <2>3. redis' \in RedisStates
    BY <1>1, <1>4, <2>1 DEF RedisOK, RedisStates
  <2>4. redis'.stream \subseteq 1..Len(added')
    <3>1. redis.stream \subseteq 1..Len(added)
      BY <1>1 DEF RedisOK
    <3>2. 1..Len(added) \subseteq 1..Len(added') /\ Len(added') \in 1..Len(added')
      BY <1>2
    <3> QED BY <2>2, <3>1, <3>2
  <2>5. redis'.cursor <= Len(added')
    <3>1. redis.cursor \in Nat /\ redis.cursor <= Len(added)
      BY <1>1, BusArith DEF RedisOK, RedisStates
    <3> QED BY <1>2, <2>2, <3>1
  <2> QED BY <1>1, <2>2, <2>3, <2>4, <2>5 DEF RedisOK
<1>6. RedisOK(replica', Len(added'))
  <2>1. replica' = replica /\ 1..Len(added) \subseteq 1..Len(added')
    BY <1>2
  <2>2. replica.cursor \in Nat /\ replica.cursor <= Len(added)
    BY <1>1, BusArith DEF RedisOK, RedisStates
  <2> QED BY <1>1, <1>2, <2>1, <2>2 DEF RedisOK
<1>7. BusTypes'
  BY <1>1 DEF BusTypes, busVars, history, Sequences
<1>8. EntriesGrow'
  <2>1. \A i \in DOMAIN added : added[i] \in Nat /\ added[i] <= n
    <3>1. \A i \in DOMAIN added : added[i] \in Nat /\ added[i] <= published
      BY AddedIs, BusArith DEF BusInv, EntriesGrow
    <3>2. published \in Nat /\ n \in Nat
      BY <1>1, BusArith DEF BusTypes
    <3> QED BY <3>1, <3>2
  <2>2. \A i \in DOMAIN added' : i \in DOMAIN added \/ i = Len(added) + 1
    BY <1>2
  <2>3. n \in Nat
    BY BusArith
  <2>4. \A i \in DOMAIN added' : added'[i] <= n
    BY <1>2, <2>1, <2>2, <2>3
  <2>5. \A i, j \in DOMAIN added' : i <= j => added'[i] <= added'[j]
    <3> SUFFICES ASSUME NEW i \in DOMAIN added', NEW j \in DOMAIN added', i <= j
                 PROVE  added'[i] <= added'[j]
      OBVIOUS
    <3>1. CASE j = Len(added) + 1
      BY <1>2, <2>4, <3>1
    <3>2. CASE j \in DOMAIN added
      <4>1. i \in DOMAIN added
        BY <1>2, <2>2, <3>2
      <4> QED BY <1>2, <3>2, <4>1 DEF BusInv, EntriesGrow
    <3> QED BY <2>2, <3>1, <3>2
  <2> QED BY <2>4, <2>5 DEF EntriesGrow
<1>9. JumpsAreReported'
  BY DEF BusInv, JumpsAreReported, busVars, history
<1>10. BusRest'
  <2>1. redis'.pending = redis.pending
    BY <1>1, <1>3 DEF RedisOK, RedisStates
  <2>2. DOMAIN added \subseteq DOMAIN added'
    BY <1>2
  <2> QED BY <2>1, <2>2 DEF BusInv, BusRest, busVars, history
<1>11. TypeOK'
  BY <1>4, <1>5, <1>6, <1>7, TypesNext
<1> QED BY <1>8, <1>9, <1>10, <1>11 DEF BusInv, BusRest

\* A step of a Redis or of a consumer that is handed nothing.
LEMMA QuietKeeps ==
    ASSUME BusInv, BusTypes', UNCHANGED added, published <= published',
           RedisOK(redis', Len(added)), RedisOK(replica', Len(added)),
           \A c \in Consumers :
              /\ hand'[c] \subseteq hand[c]
              /\ \/ lastSeq'[c] = None /\ firstSeq'[c] = None
                 \/ /\ lastSeq'[c] = lastSeq[c] /\ firstSeq'[c] = firstSeq[c]
                    /\ seen'[c] = seen[c] /\ reported'[c] = reported[c]
              /\ pc'[c] = "fresh" /\ ~failedOver' => redis'.pending[c] = {}
    PROVE  BusInv'
<1>1. TypeOK /\ EntriesGrow /\ JumpsAreReported /\ BusRest
  BY DEF BusInv, BusRest
<1>2. TypeOK'
  <2>1. AddedOK' /\ Len(added') = Len(added)
    BY <1>1 DEF TypeOK, AddedOK
  <2> QED BY <2>1, TypesNext
<1>3. EntriesGrow'
  <2>1. \A i \in DOMAIN added : added[i] \in Nat /\ added[i] <= published
    BY <1>1, AddedIs, BusArith DEF EntriesGrow
  <2>2. published \in Nat /\ published' \in Nat
    BY <1>1, BusArith DEF TypeOK, BusTypes
  <2>3. \A i \in DOMAIN added : added[i] <= published'
    BY <2>1, <2>2
  <2> QED BY <1>1, <2>3 DEF EntriesGrow
<1>4. JumpsAreReported'
  BY <1>1 DEF JumpsAreReported
<1>5. BusRest'
  BY <1>1 DEF BusRest
<1> QED BY <1>2, <1>3, <1>4, <1>5 DEF BusInv, BusRest

\* The same, for the steps that leave all of the buses alone.
LEMMA RedisKeeps ==
    ASSUME BusInv, UNCHANGED <<added, busVars, firstSeq, seen, reported, handled>>,
           published <= published', published' \in 0..MaxSequence,
           faults' \in 0..MaxFaults, failedOver' \in BOOLEAN,
           redis' \in {redis, replica}, replica' \in {redis, replica, EmptyRedis},
           ~failedOver' => redis' = redis /\ ~failedOver
    PROVE  BusInv'
<1>1. BusTypes /\ RedisOK(redis, Len(added)) /\ RedisOK(replica, Len(added)) /\ Len(added) \in Nat
  BY TypesAre, AddedIs DEF BusInv
<1>2. BusTypes'
  BY <1>1 DEF BusTypes, busVars
<1>3. RedisOK(redis', Len(added)) /\ RedisOK(replica', Len(added))
  BY <1>1, EmptyOK
<1>4. \A c \in Consumers :
         /\ hand'[c] \subseteq hand[c]
         /\ lastSeq'[c] = lastSeq[c] /\ firstSeq'[c] = firstSeq[c]
         /\ seen'[c] = seen[c] /\ reported'[c] = reported[c]
         /\ pc'[c] = "fresh" /\ ~failedOver' => redis'.pending[c] = {}
  BY DEF BusInv, busVars
<1> QED BY <1>2, <1>3, <1>4, QuietKeeps

LEMMA PublisherKeeps == BusInv /\ (Publish \/ PublishAgain \/ PublishFails) => BusInv'
<1> SUFFICES ASSUME BusInv, Publish \/ PublishAgain \/ PublishFails PROVE BusInv'
  OBVIOUS
<1>1. published \in Nat /\ published <= MaxSequence /\ faults \in 0..MaxFaults /\ failedOver \in BOOLEAN
  BY BusArith DEF BusInv, TypeOK
<1>2. CASE Publish
  <2>1. published' \in Sequences /\ published <= published' /\ Add(published')
    BY <1>1, <1>2, BusArith DEF Publish, Sequences
  <2> QED BY <1>2, <2>1, AddKeeps DEF Publish
<1>3. CASE PublishAgain
  <2>1. published' = published /\ published' \in Sequences /\ published <= published' /\ Add(published')
    BY <1>1, <1>3, BusArith DEF PublishAgain, Sequences
  <2> QED BY <1>3, <2>1, AddKeeps DEF PublishAgain
<1>4. CASE PublishFails
  <2>1. published <= published' /\ published' \in 0..MaxSequence
    BY <1>1, <1>4, BusArith DEF PublishFails
  <2> QED BY <1>1, <1>4, <2>1, RedisKeeps DEF PublishFails, history
<1> QED BY <1>2, <1>3, <1>4

LEMMA ReplicaKeeps == BusInv /\ (Replicate \/ Failover) => BusInv'
<1> SUFFICES ASSUME BusInv, Replicate \/ Failover PROVE BusInv'
  OBVIOUS
<1>1. /\ published \in 0..MaxSequence /\ published <= published
      /\ faults \in 0..MaxFaults /\ failedOver \in BOOLEAN /\ faults \in Nat
  BY BusArith DEF BusInv, TypeOK
<1>2. CASE Replicate
  BY <1>1, <1>2, RedisKeeps DEF Replicate, history
<1>3. CASE Failover
  <2>1. faults' \in 0..MaxFaults
    BY <1>1, <1>3, BusArith DEF Failover
  <2>2. failedOver' = TRUE
    BY <1>3 DEF Failover
  <2> QED BY <1>1, <1>3, <2>1, <2>2, RedisKeeps DEF Failover
<1> QED BY <1>2, <1>3

-----------------------------------------------------------------------------
(* The consumers. *)
LEMMA InvParts ==
    ASSUME BusInv
    PROVE  /\ TypeOK /\ EntriesGrow /\ BusTypes /\ RedisOK(redis, Len(added)) /\ RedisOK(replica, Len(added))
           /\ Len(added) \in Nat /\ Len(added) <= MaxEntries /\ DOMAIN added = 1..Len(added)
           /\ published <= published
BY TypesAre, AddedIs, BusArith DEF BusInv, BusTypes

\* consume rejects, or takes a step that hands nothing over, but not to "fresh".
LEMMA PlaceKeeps ==
    ASSUME BusInv, NEW c \in Consumers, NEW at \in {"idle", "group", "pending", "fresh"},
           at = "fresh" => redis.pending[c] = {},
           pc' = [pc EXCEPT ![c] = at], groupReady' \in [Consumers -> BOOLEAN],
           faults' \in 0..MaxFaults, RedisOK(redis', Len(added)),
           \A d \in Consumers \ {c} : redis'.pending[d] = redis.pending[d],
           redis' = redis \/ at # "fresh",
           UNCHANGED <<added, replica, published, lastSeq, hand, history>>
    PROVE  BusInv'
<1>1. BusTypes'
  BY InvParts DEF BusTypes, history
<1>2. \A d \in Consumers :
         /\ hand'[d] \subseteq hand[d]
         /\ lastSeq'[d] = lastSeq[d] /\ firstSeq'[d] = firstSeq[d]
         /\ seen'[d] = seen[d] /\ reported'[d] = reported[d]
         /\ pc'[d] = "fresh" /\ ~failedOver' => redis'.pending[d] = {}
  BY DEF BusInv, TypeOK, history
<1> QED BY <1>1, <1>2, InvParts, QuietKeeps

LEMMA ConsumeKeeps == ASSUME BusInv, NEW c \in Consumers, Consume(c) PROVE BusInv'
<1>1. \E at \in {"group", "pending"} : pc' = [pc EXCEPT ![c] = at]
  BY DEF Consume
<1>2. /\ UNCHANGED <<added, redis, replica, published, groupReady, lastSeq, hand, faults, history>>
      /\ groupReady \in [Consumers -> BOOLEAN] /\ faults \in 0..MaxFaults /\ RedisOK(redis, Len(added))
  BY InvParts DEF Consume, BusTypes
<1> QED BY <1>1, <1>2, PlaceKeeps

LEMMA EnsureKeeps == ASSUME BusInv, NEW c \in Consumers, EnsureGroup(c) PROVE BusInv'
<1>1. /\ pc' = [pc EXCEPT ![c] = "pending"] /\ groupReady' \in [Consumers -> BOOLEAN]
      /\ UNCHANGED <<added, replica, published, lastSeq, hand, faults, history>>
      /\ faults \in 0..MaxFaults
  BY InvParts DEF EnsureGroup, BusTypes
<1>2. RedisOK(redis', Len(added)) /\ redis'.pending = redis.pending
  <2>1. CASE redis.group
    BY <2>1, InvParts DEF EnsureGroup
  <2>2. CASE ~redis.group
    <3>1. /\ RedisOK(redis, Len(added)) /\ Len(added) \in 0..MaxEntries /\ Len(added) \in Nat
          /\ redis.cursor \in Nat /\ redis.cursor <= Len(added)
      BY InvParts, BusArith DEF RedisOK, RedisStates
    <3>2. redis' = [stream |-> redis.stream, group |-> TRUE, cursor |-> Len(added), pending |-> redis.pending]
      BY <2>2, <3>1 DEF EnsureGroup, RedisOK, RedisStates
    <3>3. 1..redis.cursor \subseteq 1..Len(added)
      BY <3>1
    <3>4. redis' \in RedisStates
      BY <3>1, <3>2 DEF RedisOK, RedisStates
    <3> QED BY <3>1, <3>2, <3>3, <3>4 DEF RedisOK
  <2> QED BY <2>1, <2>2
<1> QED BY <1>1, <1>2, PlaceKeeps

\* The entries that are read: some of those there are.
LEMMA RepliesAre ==
    ASSUME TypeOK, NEW c \in Consumers
    PROVE  /\ PendingReply(c) \in SUBSET DOMAIN added /\ PendingReply(c) \subseteq redis.pending[c]
           /\ PendingReply(c) = {} => redis.pending[c] = {}
           /\ Oldest(Undelivered) \in SUBSET DOMAIN added /\ Oldest(Undelivered) \subseteq Undelivered
           /\ Undelivered # {} => Oldest(Undelivered) # {}
<1>1. /\ redis.pending[c] \in SUBSET Nat /\ IsFiniteSet(redis.pending[c]) /\ redis.pending[c] \subseteq DOMAIN added
      /\ Undelivered \in SUBSET Nat /\ IsFiniteSet(Undelivered) /\ Undelivered \subseteq DOMAIN added
  BY UndeliveredAre
<1>2. /\ Oldest(redis.pending[c]) \subseteq redis.pending[c]
      /\ redis.pending[c] # {} => Oldest(redis.pending[c]) # {}
  BY <1>1, OldestAre
<1>3. Oldest(Undelivered) \subseteq Undelivered /\ (Undelivered # {} => Oldest(Undelivered) # {})
  BY <1>1, OldestAre
<1> QED BY <1>1, <1>2, <1>3 DEF PendingReply

\* A delivery, of entries that Redis had pending or has now handed out.
LEMMA HandedKeeps ==
    ASSUME BusInv, NEW c \in Consumers, NEW ids \in SUBSET DOMAIN added, ids # {}, Deliver(c, ids),
           RedisOK(redis', Len(added)), \A d \in Consumers \ {c} : redis'.pending[d] = redis.pending[d],
           UNCHANGED <<added, replica, published, faults>>
    PROVE  BusInv'
<1>1. BusTypes' /\ JumpsAreReported' /\ UNCHANGED failedOver
  <2>1. published \in 0..MaxSequence /\ faults \in 0..MaxFaults
    BY InvParts DEF BusTypes
  <2> QED BY <2>1, DeliverKeeps DEF BusTypes, Deliver
<1>2. TypeOK'
  <2>1. AddedOK' /\ Len(added') = Len(added) /\ RedisOK(replica', Len(added'))
    BY InvParts DEF TypeOK, AddedOK
  <2> QED BY <1>1, <2>1, TypesNext
<1>3. EntriesGrow'
  BY InvParts DEF EntriesGrow
<1>4. BusRest'
  <2> SUFFICES ASSUME NEW d \in Consumers
               PROVE  /\ hand'[d] \subseteq DOMAIN added'
                      /\ lastSeq'[d] = None <=> firstSeq'[d] = None
                      /\ pc'[d] = "fresh" /\ ~failedOver' => redis'.pending[d] = {}
    BY DEF BusRest
  <2>1. /\ hand'[d] \subseteq DOMAIN added /\ (lastSeq'[d] = None <=> firstSeq'[d] = None)
        /\ pc'[d] = "fresh" => d # c /\ pc[d] = "fresh"
    BY DeliverKeeps
  <2>2. pc[d] = "fresh" /\ ~failedOver => redis.pending[d] = {}
    BY DEF BusInv
  <2> QED BY <1>1, <2>1, <2>2
<1> QED BY <1>1, <1>2, <1>3, <1>4 DEF BusInv, BusRest

LEMMA ReadPendingKeeps == ASSUME BusInv, NEW c \in Consumers, ReadPending(c) PROVE BusInv'
<1>1. /\ UNCHANGED <<added, redis, replica, published, faults>>
      /\ groupReady \in [Consumers -> BOOLEAN] /\ faults \in 0..MaxFaults /\ RedisOK(redis, Len(added))
  BY InvParts DEF ReadPending, BusTypes
<1>2. CASE Rejects(c)
  BY <1>1, <1>2, PlaceKeeps DEF Rejects
<1>3. CASE PendingReply(c) # {} /\ Deliver(c, PendingReply(c))
  BY <1>1, <1>3, RepliesAre, InvParts, HandedKeeps
<1>4. CASE PendingReply(c) = {} /\ pc' = [pc EXCEPT ![c] = "fresh"] /\ UNCHANGED <<groupReady, lastSeq, hand, history>>
  <2>1. redis.pending[c] = {}
    BY <1>4, RepliesAre, InvParts
  <2> QED BY <1>1, <1>4, <2>1, PlaceKeeps
<1> QED BY <1>2, <1>3, <1>4 DEF ReadPending

LEMMA ReadFreshKeeps == ASSUME BusInv, NEW c \in Consumers, ReadFresh(c) PROVE BusInv'
<1>1. /\ Undelivered # {} /\ HandOut(c, Oldest(Undelivered)) /\ Deliver(c, Oldest(Undelivered))
      /\ UNCHANGED <<added, replica, published, faults>> /\ TypeOK
  BY InvParts DEF ReadFresh
<1>2. Oldest(Undelivered) \in SUBSET DOMAIN added /\ Oldest(Undelivered) # {}
  BY <1>1, RepliesAre
<1>3. RedisOK(redis', Len(added)) /\ \A d \in Consumers \ {c} : redis'.pending[d] = redis.pending[d]
  BY <1>1, HandOutIs, InvParts DEF RedisOK, RedisStates
<1> QED BY <1>1, <1>2, <1>3, HandedKeeps

LEMMA ReadNothingKeeps == ASSUME BusInv, NEW c \in Consumers, ReadNothing(c) PROVE BusInv'
<1>1. /\ groupReady \in [Consumers -> BOOLEAN] /\ faults \in 0..MaxFaults /\ RedisOK(redis, Len(added))
  BY InvParts DEF BusTypes
<1> QED BY <1>1, PlaceKeeps DEF ReadNothing, Rejects

LEMMA ReplyLostKeeps == ASSUME BusInv, NEW c \in Consumers, ReplyLost(c) PROVE BusInv'
<1>1. /\ Undelivered # {} /\ HandOut(c, Oldest(Undelivered)) /\ Rejects(c)
      /\ UNCHANGED <<added, replica, published>> /\ TypeOK
  BY InvParts DEF ReplyLost
<1>2. RedisOK(redis', Len(added)) /\ \A d \in Consumers \ {c} : redis'.pending[d] = redis.pending[d]
  BY <1>1, HandOutIs, InvParts DEF RedisOK, RedisStates
<1>3. groupReady \in [Consumers -> BOOLEAN] /\ faults' \in 0..MaxFaults
  BY InvParts, BusArith DEF BusTypes, ReplyLost
<1> QED BY <1>1, <1>2, <1>3, PlaceKeeps DEF Rejects

LEMMA AckKeeps == ASSUME BusInv, NEW c \in Consumers, Ack(c) PROVE BusInv'
<1>1. PICK ids \in SUBSET hand[c] : /\ redis' = [redis EXCEPT !.pending[c] = @ \ ids]
                                    /\ handled' = handled \cup {added[i] : i \in ids}
  BY DEF Ack
<1>2. /\ hand' = [hand EXCEPT ![c] = {}] /\ pc' = [pc EXCEPT ![c] = "idle"]
      /\ UNCHANGED <<added, replica, published, groupReady, lastSeq, faults,
                     firstSeq, seen, reported, failedOver>>
  BY DEF Ack
<1>3. BusTypes /\ RedisOK(redis, Len(added)) /\ TypeOK
  BY InvParts
<1>4. handled' \subseteq Sequences
  <2>1. \A i \in ids : i \in DOMAIN added /\ added[i] \in Sequences
    BY <1>3, AddedIs DEF BusInv
  <2> QED BY <1>1, <1>3, <2>1 DEF BusTypes
<1>5. BusTypes'
  BY <1>2, <1>3, <1>4 DEF BusTypes
<1>6. /\ redis' = [stream |-> redis.stream, group |-> redis.group, cursor |-> redis.cursor,
                   pending |-> [redis.pending EXCEPT ![c] = redis.pending[c] \ ids]]
  BY <1>1, <1>3 DEF RedisOK, RedisStates
<1>7. \A d \in Consumers : redis'.pending[d] \subseteq redis.pending[d]
  BY <1>3, <1>6 DEF RedisOK, RedisStates
<1>8. RedisOK(redis', Len(added))
  <2>1. redis' \in RedisStates
    BY <1>3, <1>6 DEF RedisOK, RedisStates
  <2>2. redis'.stream = redis.stream /\ redis'.cursor = redis.cursor
    BY <1>6
  <2> QED BY <1>3, <1>7, <2>1, <2>2 DEF RedisOK
<1>9. \A d \in Consumers :
         /\ hand'[d] \subseteq hand[d]
         /\ lastSeq'[d] = lastSeq[d] /\ firstSeq'[d] = firstSeq[d]
         /\ seen'[d] = seen[d] /\ reported'[d] = reported[d]
         /\ pc'[d] = "fresh" /\ ~failedOver' => redis'.pending[d] = {}
  <2>1. \A d \in Consumers : pc'[d] = "fresh" => pc[d] = "fresh"
    BY <1>2, <1>3 DEF BusTypes
  <2> QED BY <1>2, <1>3, <1>7, <2>1 DEF BusInv, BusTypes
<1> QED BY <1>2, <1>3, <1>5, <1>8, <1>9, InvParts, QuietKeeps

LEMMA CrashKeeps == ASSUME BusInv, NEW c \in Consumers, Crash(c) PROVE BusInv'
<1>1. BusTypes /\ RedisOK(redis, Len(added)) /\ RedisOK(replica, Len(added))
  BY InvParts
<1>2. BusTypes'
  <2>1. faults' \in 0..MaxFaults
    BY <1>1, BusArith DEF BusTypes, Crash
  <2>2. \A d \in Consumers : \A n \in seen'[d] : n <= lastSeq'[d]
    BY <1>1 DEF BusTypes, Crash
  <2> QED BY <1>1, <2>1, <2>2 DEF BusTypes, Crash
<1>3. \A d \in Consumers :
         /\ hand'[d] \subseteq hand[d]
         /\ \/ lastSeq'[d] = None /\ firstSeq'[d] = None
            \/ /\ lastSeq'[d] = lastSeq[d] /\ firstSeq'[d] = firstSeq[d]
               /\ seen'[d] = seen[d] /\ reported'[d] = reported[d]
         /\ pc'[d] = "fresh" /\ ~failedOver' => redis'.pending[d] = {}
  BY <1>1 DEF BusInv, BusTypes, Crash
<1> QED BY <1>1, <1>2, <1>3, InvParts, QuietKeeps DEF Crash

LEMMA BusStutters == BusInv /\ UNCHANGED vars => BusInv'
<1> SUFFICES ASSUME BusInv, UNCHANGED vars PROVE BusInv'
  OBVIOUS
<1>1. /\ published \in 0..MaxSequence /\ published <= published /\ faults \in 0..MaxFaults /\ failedOver \in BOOLEAN
  BY InvParts DEF BusTypes
<1> QED BY <1>1, RedisKeeps DEF vars, history

\* Every reachable state satisfies the invariant.
THEOREM BusInductive == Spec => []BusInv
<1>1. BusInv /\ [Next]_vars => BusInv'
  <2> SUFFICES ASSUME BusInv, [Next]_vars PROVE BusInv'
    OBVIOUS
  <2>1. ASSUME NEW c \in Consumers,
               \/ Consume(c) \/ EnsureGroup(c)
               \/ ReadPending(c) \/ ReadFresh(c) \/ ReadNothing(c) \/ ReplyLost(c)
               \/ Ack(c) \/ Crash(c)
        PROVE  BusInv'
    BY <2>1, ConsumeKeeps, EnsureKeeps, ReadPendingKeeps, ReadFreshKeeps, ReadNothingKeeps,
       ReplyLostKeeps, AckKeeps, CrashKeeps
  <2> QED BY <2>1, PublisherKeeps, ReplicaKeeps, BusStutters DEF Next, Quiet
<1> QED BY <1>1, BusInitInv, PTL DEF Spec

\* ledger_event_bus.ts: every variable keeps its type; a group's cursor and pending
\* entries are of the stream, whatever is trimmed, lost or failed over.
THEOREM BusTypeCorrect == Spec => []TypeOK
<1>1. BusInv => TypeOK
  BY DEF BusInv
<1> QED BY <1>1, BusInductive, PTL

-----------------------------------------------------------------------------
\* A step's report is premature when the number is still to come to c.
Premature(c) == ~failedOver /\ (reported'[c] \ reported[c]) \cap Awaited(c)' # {}

LEMMA PendingReportsInTime ==
    ASSUME BusInv, NEW c \in Consumers, ReadPending(c), Deliver(c, PendingReply(c)), PendingReply(c) # {}
    PROVE  ~Premature(c)
<1> DEFINE W == (redis.pending[c] \cap redis.stream) \cup Undelivered
<1>1. /\ TypeOK /\ EntriesGrow /\ PendingReply(c) \in SUBSET DOMAIN added
      /\ redis.pending[c] \in SUBSET Nat /\ IsFiniteSet(redis.pending[c])
      /\ W \in SUBSET DOMAIN added /\ PendingReply(c) \subseteq redis.pending[c] /\ DOMAIN added \subseteq Nat
  BY UndeliveredAre, RepliesAre, InvParts
<1>2. \A i \in W : i \in PendingReply(c) \/ \A j \in PendingReply(c) : j < i
  <2> SUFFICES ASSUME NEW i \in W, i \notin PendingReply(c), NEW j \in PendingReply(c) PROVE j < i
    OBVIOUS
  <2>1. CASE i \in redis.pending[c]
    BY <1>1, <2>1, OldestAre DEF PendingReply
  <2>2. CASE i \in Undelivered
    <3>1. j \in 1..redis.cursor /\ i > redis.cursor /\ redis.cursor \in Nat /\ i \in Nat
      BY <1>1, <2>2, InvParts, BusArith DEF RedisOK, RedisStates, Undelivered
    <3> QED BY <3>1
  <2> QED BY <2>1, <2>2
<1>3. (reported'[c] \ reported[c]) \cap {added[i] : i \in W} = {}
  <2> HIDE DEF W
  <2> QED BY <1>1, <1>2, NothingToComeIsReported
<1>4. Awaited(c)' = {added[i] : i \in W}
  BY DEF Awaited, ReadPending, Undelivered
<1> QED BY <1>3, <1>4 DEF Premature

LEMMA FreshReportsInTime == ASSUME BusInv, NEW c \in Consumers, ReadFresh(c) PROVE ~Premature(c)
<1> SUFFICES ASSUME ~failedOver PROVE (reported'[c] \ reported[c]) \cap Awaited(c)' = {}
  BY DEF Premature
<1> DEFINE ids == Oldest(Undelivered)
           W == (redis'.pending[c] \cap redis'.stream) \cup {i \in redis'.stream : i > redis'.cursor}
<1>1. /\ Undelivered # {} /\ HandOut(c, Oldest(Undelivered)) /\ Deliver(c, Oldest(Undelivered))
      /\ added' = added /\ TypeOK /\ EntriesGrow /\ pc[c] = "fresh"
  BY InvParts DEF ReadFresh
<1>2. /\ RedisOK(redis', Len(added))
      /\ redis'.stream = redis.stream /\ redis'.cursor \in Nat
      /\ \A j \in ids : j <= redis'.cursor
      /\ redis'.pending = [redis.pending EXCEPT ![c] = redis.pending[c] \cup ids]
      /\ DOMAIN added = 1..Len(added)
  BY <1>1, HandOutIs, InvParts
<1>3. redis.pending[c] = {}
  BY <1>1 DEF BusInv
<1>4. redis'.pending[c] = ids
  BY <1>2, <1>3, InvParts DEF RedisOK, RedisStates
<1>5. ids \in SUBSET DOMAIN added /\ ids # {}
  BY <1>1, RepliesAre
<1>6. W \in SUBSET DOMAIN added
  BY <1>2 DEF RedisOK
<1>7. \A i \in W : i \in ids \/ \A j \in ids : j < i
  <2> SUFFICES ASSUME NEW i \in W, i \notin ids, NEW j \in ids PROVE j < i
    OBVIOUS
  <2>1. i > redis'.cursor /\ i \in DOMAIN added /\ j \in DOMAIN added /\ j <= redis'.cursor
    BY <1>2, <1>4, <1>5, <1>6
  <2>2. i \in Nat /\ j \in Nat
    BY <1>1, <2>1, AddedIs
  <2> QED BY <1>2, <2>1, <2>2
<1>8. (reported'[c] \ reported[c]) \cap {added[i] : i \in W} = {}
  <2> HIDE DEF W
  <2> QED BY <1>1, <1>5, <1>6, <1>7, NothingToComeIsReported
<1>9. Awaited(c)' = {added[i] : i \in W}
  BY <1>1 DEF Awaited, Undelivered
<1> QED BY <1>8, <1>9

\* No step of the system is a premature report.
LEMMA ReportsInTime == ASSUME BusInv, [Next]_vars, NEW c \in Consumers PROVE ~Premature(c)
<1>1. CASE reported'[c] \subseteq reported[c]
  BY <1>1 DEF Premature
<1>2. ASSUME NEW d \in Consumers, NEW ids \in SUBSET DOMAIN added, ids # {}, Deliver(d, ids), d # c
      PROVE  reported'[c] = reported[c]
  <2>1. \E R : reported' = [reported EXCEPT ![d] = R]
    BY <1>2 DEF Deliver
  <2> QED BY <1>2, <2>1, InvParts DEF BusTypes
<1>3. ASSUME NEW d \in Consumers, ReadPending(d) PROVE ~Premature(c)
  <2>1. CASE PendingReply(d) # {} /\ Deliver(d, PendingReply(d))
    <3>1. PendingReply(d) \in SUBSET DOMAIN added
      BY RepliesAre, InvParts
    <3> QED BY <1>1, <1>2, <1>3, <2>1, <3>1, PendingReportsInTime
  <2>2. CASE UNCHANGED reported
    BY <1>1, <2>2
  <2> QED BY <1>3, <2>1, <2>2 DEF ReadPending, Rejects, history
<1>4. ASSUME NEW d \in Consumers, ReadFresh(d) PROVE ~Premature(c)
  <2>1. Oldest(Undelivered) \in SUBSET DOMAIN added /\ Oldest(Undelivered) # {} /\ Deliver(d, Oldest(Undelivered))
    BY <1>4, RepliesAre, InvParts DEF ReadFresh
  <2> QED BY <1>1, <1>2, <1>4, <2>1, FreshReportsInTime
<1>5. ASSUME NEW d \in Consumers, Crash(d) PROVE ~Premature(c)
  <2>1. reported'[c] \subseteq reported[c]
    BY <1>5, InvParts DEF Crash, BusTypes
  <2> QED BY <1>1, <2>1
<1>6. ASSUME NEW d \in Consumers,
             \/ Consume(d) \/ EnsureGroup(d) \/ ReadNothing(d) \/ ReplyLost(d) \/ Ack(d)
      PROVE  UNCHANGED reported
  BY <1>6 DEF Consume, EnsureGroup, ReadNothing, ReplyLost, Ack, Rejects, history
<1>7. CASE Publish \/ PublishAgain \/ PublishFails \/ Replicate \/ Failover \/ UNCHANGED vars
  BY <1>1, <1>7 DEF Publish, PublishAgain, PublishFails, Replicate, Failover, vars, history
<1> QED BY <1>1, <1>3, <1>4, <1>5, <1>6, <1>7 DEF Next, Quiet

\* backpressure.ts record, ledger_event_bus.ts consume: no number is missed in
\* silence, and none is reported that is still to come.
THEOREM ReportsAreSound == Spec => ReportsHold
<1>1. BusInv => JumpsAreReported
  BY DEF BusInv
<1>2. BusInv /\ [Next]_vars
         => [\A c \in Consumers : failedOver \/ (reported'[c] \ reported[c]) \cap Awaited(c)' = {}]_vars
  BY ReportsInTime DEF Premature
<1> QED BY <1>1, <1>2, BusInductive, PTL DEF Spec, ReportsHold, NoReportIsPremature

-----------------------------------------------------------------------------
(* At least once. *)

\* What becomes of an entry in a step.
StaysAhead(i) ==
    \/ i \in Undelivered' \/ i \notin redis'.stream
    \/ \E c \in Consumers : i \in redis'.pending[c]

StaysPending(c, i) == i \in redis'.pending[c] \/ added[i] \in handled'

\* Once the group exists, a step other than a failover leaves an entry that was
\* not delivered in the stream, or trims it, or makes it pending for the consumer
\* it hands it to; and a pending entry leaves that state only when its number
\* is acknowledged.
EntriesAreCarried ==
    [][ redis.group /\ ~Failover =>
          /\ \A i \in Undelivered : StaysAhead(i)
          /\ \A c \in Consumers : \A i \in redis.pending[c] : StaysPending(c, i) ]_vars

LEMMA CarriedBySame ==
    ASSUME BusInv, redis'.cursor = redis.cursor, redis'.pending = redis.pending
    PROVE  /\ \A i \in Undelivered : StaysAhead(i)
           /\ \A c \in Consumers : \A i \in redis.pending[c] : StaysPending(c, i)
BY DEF StaysAhead, StaysPending, Undelivered

LEMMA CarriedByHandOut ==
    ASSUME BusInv, NEW d \in Consumers, Undelivered # {}, HandOut(d, Oldest(Undelivered))
    PROVE  /\ \A i \in Undelivered : StaysAhead(i)
           /\ \A c \in Consumers : \A i \in redis.pending[c] : StaysPending(c, i)
<1> DEFINE ids == Oldest(Undelivered)
<1>1. /\ redis'.stream = redis.stream /\ redis'.cursor \in ids
      /\ redis'.pending = [redis.pending EXCEPT ![d] = redis.pending[d] \cup ids]
      /\ TypeOK /\ RedisOK(redis, Len(added))
  BY HandOutIs, InvParts
<1>2. \A c \in Consumers : redis.pending[c] \subseteq redis'.pending[c]
  BY <1>1 DEF RedisOK, RedisStates
<1>3. ids \subseteq redis'.pending[d]
  BY <1>1 DEF RedisOK, RedisStates
<1>4. \A i \in Undelivered \ ids : redis'.cursor < i
  BY <1>1, UndeliveredAre, OldestAre
<1>5. \A i \in Undelivered \ ids : i \in Undelivered'
  BY <1>1, <1>4 DEF Undelivered
<1> HIDE DEF ids
<1> QED BY <1>2, <1>3, <1>5 DEF StaysAhead, StaysPending

LEMMA CarriedByAck ==
    ASSUME BusInv, NEW d \in Consumers, Ack(d)
    PROVE  /\ \A i \in Undelivered : StaysAhead(i)
           /\ \A c \in Consumers : \A i \in redis.pending[c] : StaysPending(c, i)
<1>1. PICK ids \in SUBSET hand[d] : /\ redis' = [redis EXCEPT !.pending[d] = @ \ ids]
                                    /\ handled' = handled \cup {added[i] : i \in ids}
  BY DEF Ack
<1>2. RedisOK(redis, Len(added))
  BY InvParts
<1>3. /\ redis'.stream = redis.stream /\ redis'.cursor = redis.cursor
      /\ \A c \in Consumers : redis.pending[c] \ ids \subseteq redis'.pending[c]
  BY <1>1, <1>2 DEF RedisOK, RedisStates
<1>4. \A i \in ids : added[i] \in handled'
  BY <1>1
<1> QED BY <1>3, <1>4 DEF StaysAhead, StaysPending, Undelivered

\* ledger_event_bus.ts consume, ack: entries are delivered at least once: one
\* that was added after the group was created is not lost between the consumers,
\* though they crash and replies are lost: the safety half of EventsAreHandled.
THEOREM NoEntryIsDropped == Spec => EntriesAreCarried
<1>1. ASSUME BusInv, [Next]_vars, redis.group, ~Failover
      PROVE  /\ \A i \in Undelivered : StaysAhead(i)
             /\ \A c \in Consumers : \A i \in redis.pending[c] : StaysPending(c, i)
  <2>1. CASE Publish \/ PublishAgain
    <3>1. PICK n : Add(n)
      BY <2>1 DEF Publish, PublishAgain
    <3>2. PICK stream : redis' = [redis EXCEPT !.stream = stream]
      BY <3>1 DEF Add
    <3>3. redis \in RedisStates
      BY <1>1, InvParts DEF RedisOK
    <3>4. redis'.cursor = redis.cursor /\ redis'.pending = redis.pending
      BY <3>2, <3>3 DEF RedisStates
    <3> QED BY <1>1, <3>4, CarriedBySame
  <2>2. ASSUME NEW d \in Consumers, ReadFresh(d) \/ ReplyLost(d)
        PROVE  /\ \A i \in Undelivered : StaysAhead(i)
               /\ \A c \in Consumers : \A i \in redis.pending[c] : StaysPending(c, i)
    BY <1>1, <2>2, CarriedByHandOut DEF ReadFresh, ReplyLost
  <2>3. ASSUME NEW d \in Consumers,
               Consume(d) \/ EnsureGroup(d) \/ ReadPending(d) \/ ReadNothing(d) \/ Crash(d)
        PROVE  redis' = redis
    BY <1>1, <2>3 DEF Consume, EnsureGroup, ReadPending, ReadNothing, Crash
  <2>4. CASE PublishFails \/ Replicate \/ UNCHANGED vars
    BY <1>1, <2>4, CarriedBySame DEF PublishFails, Replicate, vars
  <2> QED BY <1>1, <2>1, <2>2, <2>3, <2>4, CarriedBySame, CarriedByAck DEF Next, Quiet
<1>2. BusInv /\ [Next]_vars
        => [redis.group /\ ~Failover =>
              /\ \A i \in Undelivered : StaysAhead(i)
              /\ \A c \in Consumers : \A i \in redis.pending[c] : StaysPending(c, i)]_vars
  BY <1>1
<1> QED BY <1>2, BusInductive, PTL DEF Spec, EntriesAreCarried
=============================================================================
