------------------------------ MODULE SumLemmas ------------------------------
(***************************************************************************)
(* What the ledgers need to know of Sum: that it is an integer, that the   *)
(* order of the summands does not matter, and what one changed, added or   *)
(* removed summand does to it.  A sum is the fold of Sums, a CHOOSE of a   *)
(* function on the subsets of the set; the lemmas first show that this     *)
(* function exists and is unique (each by a least counterexample, in a     *)
(* well-founded order), and then never look at the fold again.             *)
(***************************************************************************)
EXTENDS Sums, FiniteSetTheorems, TLAPS

\* The summand the fold takes from s, what it makes of it, and the function
\* on the subsets of S it is the value of.
Pick(s) == CHOOSE x \in s : TRUE
Unfold(f, g, s) == IF s = {} THEN 0 ELSE f[Pick(s)] + g[s \ {Pick(s)}]
FoldOf(f, S) == CHOOSE g : g = [s \in SUBSET S |-> Unfold(f, g, s)]

\* What is taken from a non-empty set is in it.
LEMMA PickIn == ASSUME NEW S, S # {} PROVE Pick(S) \in S
  BY DEF Pick

\* A sum is the value of that function at the whole set: the definition of
\* Sum, with the community modules' fold unfolded.
LEMMA SumIsIter == ASSUME NEW f, NEW S PROVE Sum(f, S) = FoldOf(f, S)[S]
  BY Zenon DEF Sum, MapThenSumSet, MapThenFoldSet, FoldOf, Unfold, Pick

\* Of some subsets of a finite set, one has none of the others inside: the
\* least counterexample to what is claimed of every subset summed.
LEMMA LeastSubset ==
    ASSUME NEW S, IsFiniteSet(S), NEW T, T \subseteq SUBSET S, T # {}
    PROVE  \E x \in T : \A y \in T : ~ (y \subseteq x /\ y # x)
  <1>1. FiniteSubsetsOf(S) = SUBSET S
    BY FS_FiniteSubsetsOfFinite
  <1>2. IsWellFoundedOn(StrictSubsetOrdering(S), SUBSET S)
    BY <1>1, FS_StrictSubsetOrderingWellFounded
  <1>3. PICK x \in T : \A y \in T : ~ (<<y, x>> \in StrictSubsetOrdering(S))
    BY <1>2, WFMin, Zenon
  <1>4. ASSUME NEW y \in T, y \subseteq x, y # x PROVE FALSE
    <2>1. y \in SUBSET S /\ x \in SUBSET S
      OBVIOUS
    <2>2. <<y, x>> \in StrictSubsetOrdering(S)
      BY <2>1, <1>4 DEF StrictSubsetOrdering
    <2> QED
      BY <2>2, <1>3
  <1> QED
    BY <1>4

\* Of some natural numbers, one is the least.
LEMMA LeastNumber ==
    ASSUME NEW T, T \subseteq Nat, T # {}
    PROVE  \E n \in T : \A m \in T : n <= m
  <1> DEFINE Less == OpToRel(<, Nat)
  <1>1. \A m, n \in Nat : m < n => <<m, n>> \in Less
    BY DEF OpToRel
  <1>2. IsWellFoundedOn(Less, Nat)
    BY NatLessThanWellFounded
  <1> HIDE DEF Less
  <1>3. PICK n \in T : \A m \in T : ~ (<<m, n>> \in Less)
    BY <1>2, WFMin, Zenon
  <1>4. ASSUME NEW m \in T PROVE n <= m
    <2>1. m \in Nat /\ n \in Nat
      OBVIOUS
    <2>2. ~ (m < n)
      BY <1>1, <1>3, <2>1
    <2> QED
      BY <2>1, <2>2
  <1> QED
    BY <1>4

\* The subsets of at most n elements, and what it is to be such a function.
Small(S, n) == {s \in SUBSET S : Cardinality(s) <= n}
Solves(f, g, D) == g = [s \in D |-> Unfold(f, g, s)]

\* The function exists, by least number of elements for which it would not:
\* the wallets' balances of any finite set of agents have a sum.
LEMMA IterExists ==
    ASSUME NEW S, IsFiniteSet(S), NEW f, \A x \in S : f[x] \in Int
    PROVE  \E g \in [SUBSET S -> Int] : Solves(f, g, SUBSET S)
  <1> DEFINE T == {n \in Nat : ~ \E g \in [Small(S, n) -> Int] : Solves(f, g, Small(S, n))}
  <1>0. \A s \in SUBSET S : IsFiniteSet(s) /\ Cardinality(s) \in Nat /\ Cardinality(s) <= Cardinality(S)
    BY FS_Subset, FS_CardinalityType
  <1>1. T = {}
    <2> SUFFICES ASSUME T # {} PROVE FALSE
      OBVIOUS
    <2>1. T \subseteq Nat
      OBVIOUS
    <2> HIDE DEF T
    <2>2. PICK n \in T : \A m \in T : n <= m
      BY <2>1, LeastNumber
    <2>3. n \in Nat
      BY <2>1
    <2>4. n # 0
      <3> SUFFICES \E g \in [Small(S, 0) -> Int] : Solves(f, g, Small(S, 0))
        BY DEF T
      <3>1. Small(S, 0) = {{}}
        <4>1. \A s \in SUBSET S : Cardinality(s) <= 0 <=> s = {}
          BY <1>0, FS_EmptySet
        <4> QED
          BY <4>1 DEF Small
      <3> DEFINE g == [s \in Small(S, 0) |-> 0]
      <3>2. g \in [Small(S, 0) -> Int]
        OBVIOUS
      <3>3. Solves(f, g, Small(S, 0))
        BY <3>1 DEF Solves, Unfold
      <3> QED
        BY <3>2, <3>3
    <2>5. n - 1 \in Nat /\ n - 1 \notin T
      BY <2>2, <2>3, <2>4
    <2>6. PICK g \in [Small(S, n - 1) -> Int] : Solves(f, g, Small(S, n - 1))
      BY <2>5 DEF T
    <2> DEFINE h == [s \in Small(S, n) |-> Unfold(f, g, s)]
    <2>7. ASSUME NEW s \in Small(S, n), s # {}
          PROVE  s \ {Pick(s)} \in Small(S, n - 1) /\ f[Pick(s)] \in Int
      <3>1. Pick(s) \in s /\ s \in SUBSET S /\ Cardinality(s) <= n
        BY <2>7, PickIn DEF Small
      <3>2. Cardinality(s \ {Pick(s)}) = Cardinality(s) - 1
        BY <3>1, <1>0, FS_RemoveElement
      <3> QED
        BY <3>1, <3>2, <1>0, <2>3 DEF Small
    <2>8. h \in [Small(S, n) -> Int]
      <3> SUFFICES ASSUME NEW s \in Small(S, n) PROVE Unfold(f, g, s) \in Int
        OBVIOUS
      <3> QED
        BY <2>7 DEF Unfold
    <2>9. Solves(f, h, Small(S, n))
      <3>1. ASSUME NEW s \in Small(S, n) PROVE Unfold(f, g, s) = Unfold(f, h, s)
        <4>1. CASE s = {}
          BY <4>1 DEF Unfold
        <4>2. CASE s # {}
          <5> DEFINE u == s \ {Pick(s)}
          <5>1. u \in Small(S, n - 1) /\ u \in Small(S, n)
            BY <2>7, <4>2, <1>0, <2>3 DEF Small
          <5>2. g[u] = Unfold(f, g, u)
            BY <5>1, <2>6 DEF Solves
          <5>3. h[u] = Unfold(f, g, u)
            BY <5>1
          <5> QED
            BY <5>2, <5>3, <4>2 DEF Unfold
        <4> QED
          BY <4>1, <4>2
      <3> QED
        BY <3>1 DEF Solves
    <2> QED
      BY <2>8, <2>9, <2>2 DEF T
  <1>2. Cardinality(S) \in Nat /\ Small(S, Cardinality(S)) = SUBSET S
    BY <1>0, FS_CardinalityType DEF Small
  <1>3. \E g \in [Small(S, Cardinality(S)) -> Int] : Solves(f, g, Small(S, Cardinality(S)))
    BY <1>1, <1>2
  <1> HIDE DEF T
  <1> QED
    BY <1>2, <1>3

\* There is only one such function: whichever set it is computed for, a
\* subset has the same sum.
LEMMA SolutionUnique ==
    ASSUME NEW S, IsFiniteSet(S), NEW f, NEW g, NEW h, NEW T \in SUBSET S,
           Solves(f, g, SUBSET S), Solves(f, h, SUBSET T)
    PROVE  g[T] = h[T]
  <1> DEFINE Bad == {s \in SUBSET T : g[s] # h[s]}
  <1> SUFFICES ASSUME Bad # {} PROVE FALSE
    OBVIOUS
  <1>1. Bad \subseteq SUBSET S
    OBVIOUS
  <1>2. PICK s \in Bad : \A y \in Bad : ~ (y \subseteq s /\ y # s)
    <2> HIDE DEF Bad
    <2> QED
      BY <1>1, LeastSubset
  <1>3. g[s] = Unfold(f, g, s) /\ h[s] = Unfold(f, h, s)
    BY DEF Solves
  <1>4. s # {}
    BY <1>3 DEF Unfold
  <1>5. Pick(s) \in s
    BY <1>4, PickIn
  <1>6. s \ {Pick(s)} \notin Bad
    BY <1>2, <1>5
  <1>7. g[s \ {Pick(s)}] = h[s \ {Pick(s)}]
    BY <1>6
  <1>8. g[s] = h[s]
    BY <1>3, <1>7 DEF Unfold
  <1> QED
    BY <1>8

\* So the fold is that function, and its values are integers.
LEMMA IterSolves ==
    ASSUME NEW S, IsFiniteSet(S), NEW f, \A x \in S : f[x] \in Int
    PROVE  /\ Solves(f, FoldOf(f, S), SUBSET S)
           /\ FoldOf(f, S)[S] \in Int
  <1>1. PICK g \in [SUBSET S -> Int] : Solves(f, g, SUBSET S)
    BY IterExists
  <1>2. Solves(f, FoldOf(f, S), SUBSET S)
    BY <1>1, Zenon DEF FoldOf, Solves
  <1>3. FoldOf(f, S)[S] = g[S]
    <2> DEFINE h == FoldOf(f, S)
    <2>1. Solves(f, h, SUBSET S) /\ S \in SUBSET S
      BY <1>2
    <2> HIDE DEF h
    <2>2. h[S] = g[S]
      BY <1>1, <2>1, SolutionUnique
    <2> QED
      BY <2>2 DEF h
  <1> QED
    BY <1>2, <1>3

\* A sum of integers is an integer: the total of the wallets is a number of
\* credits.
LEMMA SumType ==
    ASSUME NEW S, IsFiniteSet(S), NEW f, \A x \in S : f[x] \in Int
    PROVE  Sum(f, S) \in Int
  BY SumIsIter, IterSolves

\* An empty sum is zero: no refund, no credit given back.
LEMMA SumEmpty == \A f : Sum(f, {}) = 0
  <1> SUFFICES ASSUME NEW f PROVE Sum(f, {}) = 0
    OBVIOUS
  <1>1. Solves(f, FoldOf(f, {}), SUBSET {})
    BY IterSolves, FS_EmptySet
  <1>2. FoldOf(f, {})[{}] = Unfold(f, FoldOf(f, {}), {})
    BY <1>1 DEF Solves
  <1> QED
    BY <1>2, SumIsIter DEF Unfold

\* The fold takes one summand after the other.
LEMMA SumPick ==
    ASSUME NEW S, IsFiniteSet(S), S # {}, NEW f, \A x \in S : f[x] \in Int
    PROVE  Sum(f, S) = f[Pick(S)] + Sum(f, S \ {Pick(S)})
  <1> DEFINE T == S \ {Pick(S)}
  <1>1. T \subseteq S /\ IsFiniteSet(T)
    BY FS_RemoveElement
  <1>2. /\ Solves(f, FoldOf(f, S), SUBSET S)
        /\ Solves(f, FoldOf(f, T), SUBSET T)
    BY <1>1, IterSolves
  <1>3. FoldOf(f, S)[T] = FoldOf(f, T)[T]
    <2> DEFINE g == FoldOf(f, S)
               h == FoldOf(f, T)
    <2>1. Solves(f, g, SUBSET S) /\ Solves(f, h, SUBSET T) /\ T \in SUBSET S
      BY <1>1, <1>2
    <2> HIDE DEF T, g, h
    <2>2. g[T] = h[T]
      BY <2>1, SolutionUnique
    <2> QED
      BY <2>2 DEF g, h
  <1>4. FoldOf(f, S)[S] = f[Pick(S)] + FoldOf(f, S)[T]
    BY <1>2 DEF Solves, Unfold
  <1> QED
    BY <1>3, <1>4, SumIsIter

\* The order of summation is irrelevant: any summand may be taken out first,
\* as a credit may be taken from any wallet.
LEMMA SumRemove ==
    ASSUME NEW S, IsFiniteSet(S), NEW f, \A x \in S : f[x] \in Int, NEW a \in S
    PROVE  Sum(f, S) = f[a] + Sum(f, S \ {a})
  <1> DEFINE Bad == {s \in SUBSET S : \E b \in s : Sum(f, s) # f[b] + Sum(f, s \ {b})}
  <1> SUFFICES ASSUME Bad # {} PROVE FALSE
    OBVIOUS
  <1>1. PICK s \in Bad : \A y \in Bad : ~ (y \subseteq s /\ y # s)
    <2>1. Bad \subseteq SUBSET S
      OBVIOUS
    <2> HIDE DEF Bad
    <2> QED
      BY <2>1, LeastSubset
  <1>2. PICK b \in s : Sum(f, s) # f[b] + Sum(f, s \ {b})
    OBVIOUS
  <1> DEFINE p == Pick(s)
  <1>3. s \subseteq S /\ IsFiniteSet(s) /\ p \in s
    BY FS_Subset, PickIn
  <1>4. Sum(f, s) = f[p] + Sum(f, s \ {p})
    BY <1>3, SumPick
  <1>5. p # b
    BY <1>2, <1>4
  <1>6. s \ {p} \in SUBSET S /\ s \ {b} \in SUBSET S /\ s \ {p} \notin Bad /\ s \ {b} \notin Bad
    BY <1>1, <1>3
  <1>7. Sum(f, s \ {p}) = f[b] + Sum(f, (s \ {p}) \ {b})
    BY <1>5, <1>6
  <1>8. Sum(f, s \ {b}) = f[p] + Sum(f, (s \ {p}) \ {b})
    <2>1. (s \ {p}) \ {b} = (s \ {b}) \ {p}
      OBVIOUS
    <2> QED
      BY <1>3, <1>5, <1>6, <2>1
  <1>9. f[p] \in Int /\ f[b] \in Int /\ Sum(f, (s \ {p}) \ {b}) \in Int
    <2>1. IsFiniteSet((s \ {p}) \ {b})
      BY <1>3, FS_RemoveElement
    <2> QED
      BY <2>1, <1>3, SumType
  <1> HIDE DEF Bad, p
  <1> QED
    BY <1>2, <1>4, <1>7, <1>8, <1>9

\* One more summand adds itself: a new escrow, or a new refund row.
LEMMA SumAdd ==
    ASSUME NEW S, IsFiniteSet(S), NEW a, a \notin S, NEW f, \A x \in S \cup {a} : f[x] \in Int
    PROVE  Sum(f, S \cup {a}) = Sum(f, S) + f[a]
  <1>1. IsFiniteSet(S \cup {a}) /\ (S \cup {a}) \ {a} = S
    BY FS_AddElement
  <1>2. Sum(f, S) \in Int /\ f[a] \in Int
    BY SumType
  <1>3. Sum(f, S \cup {a}) = f[a] + Sum(f, S)
    BY <1>1, SumRemove
  <1> QED
    BY <1>1, <1>2, <1>3

\* Equal summands have equal sums: an action that leaves every balance alone
\* leaves their total alone.
LEMMA SumSame ==
    ASSUME NEW S, IsFiniteSet(S), NEW f, NEW g, \A x \in S : f[x] \in Int /\ f[x] = g[x]
    PROVE  Sum(f, S) = Sum(g, S)
  <1> DEFINE Bad == {s \in SUBSET S : Sum(f, s) # Sum(g, s)}
  <1> SUFFICES ASSUME Bad # {} PROVE FALSE
    OBVIOUS
  <1>1. PICK s \in Bad : \A y \in Bad : ~ (y \subseteq s /\ y # s)
    <2>1. Bad \subseteq SUBSET S
      OBVIOUS
    <2> HIDE DEF Bad
    <2> QED
      BY <2>1, LeastSubset
  <1>2. s # {}
    BY SumEmpty
  <1> DEFINE p == Pick(s)
  <1>3. s \subseteq S /\ IsFiniteSet(s) /\ p \in s
    BY <1>2, FS_Subset, PickIn
  <1>4. Sum(f, s) = f[p] + Sum(f, s \ {p}) /\ Sum(g, s) = g[p] + Sum(g, s \ {p})
    BY <1>2, <1>3, SumPick
  <1>5. s \ {p} \in SUBSET S /\ s \ {p} \notin Bad
    BY <1>1, <1>3
  <1> QED
    BY <1>3, <1>4, <1>5

\* One changed summand changes the sum by as much: a deposit or a withdrawal
\* of one wallet changes the total by its amount.
LEMMA SumUpdate ==
    ASSUME NEW S, IsFiniteSet(S), NEW f, NEW g, NEW a \in S,
           \A x \in S : f[x] \in Int /\ g[x] \in Int,
           \A x \in S \ {a} : g[x] = f[x]
    PROVE  Sum(g, S) = Sum(f, S) + g[a] - f[a]
  <1>1. IsFiniteSet(S \ {a})
    BY FS_RemoveElement
  <1>2. Sum(f, S \ {a}) = Sum(g, S \ {a}) /\ Sum(f, S \ {a}) \in Int
    BY <1>1, SumSame, SumType
  <1>3. Sum(f, S) = f[a] + Sum(f, S \ {a}) /\ Sum(g, S) = g[a] + Sum(g, S \ {a})
    BY SumRemove
  <1> QED
    BY <1>2, <1>3

\* A sum of naturals is a natural.
LEMMA SumNat ==
    ASSUME NEW S, IsFiniteSet(S), NEW f, \A x \in S : f[x] \in Nat
    PROVE  Sum(f, S) \in Nat
  <1> DEFINE Bad == {s \in SUBSET S : Sum(f, s) \notin Nat}
  <1> SUFFICES ASSUME Bad # {} PROVE FALSE
    OBVIOUS
  <1>1. PICK s \in Bad : \A y \in Bad : ~ (y \subseteq s /\ y # s)
    <2>1. Bad \subseteq SUBSET S
      OBVIOUS
    <2> HIDE DEF Bad
    <2> QED
      BY <2>1, LeastSubset
  <1>2. s # {}
    BY SumEmpty
  <1> DEFINE p == Pick(s)
  <1>3. s \subseteq S /\ IsFiniteSet(s) /\ p \in s
    BY <1>2, FS_Subset, PickIn
  <1>4. Sum(f, s) = f[p] + Sum(f, s \ {p})
    <2>1. \A x \in s : f[x] \in Int
      BY <1>3
    <2> QED
      BY <1>2, <1>3, <2>1, SumPick
  <1>5. s \ {p} \in SUBSET S /\ s \ {p} \notin Bad
    BY <1>1, <1>3
  <1> QED
    BY <1>3, <1>4, <1>5

\* What is summed in two parts: the wallets of two groups of agents.
LEMMA SumUnion ==
    ASSUME NEW S, NEW T, IsFiniteSet(S), IsFiniteSet(T), S \cap T = {},
           NEW f, \A x \in S \cup T : f[x] \in Int
    PROVE  Sum(f, S \cup T) = Sum(f, S) + Sum(f, T)
  <1> DEFINE Bad == {t \in SUBSET T : Sum(f, S \cup t) # Sum(f, S) + Sum(f, t)}
  <1> SUFFICES ASSUME Bad # {} PROVE FALSE
    OBVIOUS
  <1>1. PICK t \in Bad : \A y \in Bad : ~ (y \subseteq t /\ y # t)
    <2>1. Bad \subseteq SUBSET T
      OBVIOUS
    <2> HIDE DEF Bad
    <2> QED
      BY <2>1, LeastSubset
  <1>2. Sum(f, S) \in Int
    BY SumType
  <1>3. t # {}
    <2>1. S \cup {} = S
      OBVIOUS
    <2> QED
      BY <1>2, <2>1, SumEmpty
  <1> DEFINE p == Pick(t)
             u == t \ {p}
  <1>4. t \subseteq T /\ p \in t /\ u \in SUBSET T /\ u \notin Bad
    BY <1>1, <1>3, PickIn
  <1>5. Sum(f, S \cup u) = Sum(f, S) + Sum(f, u)
    BY <1>4
  <1>6. IsFiniteSet(t) /\ IsFiniteSet(u) /\ IsFiniteSet(S \cup u)
    BY <1>4, FS_Subset, FS_Union
  <1>7. p \notin u /\ p \notin S \cup u /\ u \cup {p} = t /\ (S \cup u) \cup {p} = S \cup t
    BY <1>4
  <1>8. \A x \in (S \cup u) \cup {p} : f[x] \in Int
    BY <1>4
  <1> HIDE DEF p, u
  <1>9. Sum(f, t) = Sum(f, u) + f[p] /\ Sum(f, S \cup t) = Sum(f, S \cup u) + f[p]
    BY <1>6, <1>7, <1>8, SumAdd
  <1>10. Sum(f, u) \in Int /\ f[p] \in Int
    BY <1>6, <1>8, SumType
  <1> QED
    BY <1>2, <1>5, <1>9, <1>10

\* Zeros add nothing: the requests that moved no credits.
LEMMA SumZero ==
    ASSUME NEW S, IsFiniteSet(S), NEW f, \A x \in S : f[x] = 0
    PROVE  Sum(f, S) = 0
  <1> DEFINE Bad == {s \in SUBSET S : Sum(f, s) # 0}
  <1> SUFFICES ASSUME Bad # {} PROVE FALSE
    OBVIOUS
  <1>1. PICK s \in Bad : \A y \in Bad : ~ (y \subseteq s /\ y # s)
    <2>1. Bad \subseteq SUBSET S
      OBVIOUS
    <2> HIDE DEF Bad
    <2> QED
      BY <2>1, LeastSubset
  <1>2. s # {}
    BY SumEmpty
  <1> DEFINE p == Pick(s)
  <1>3. s \subseteq S /\ IsFiniteSet(s) /\ p \in s
    BY <1>2, FS_Subset, PickIn
  <1>4. Sum(f, s) = f[p] + Sum(f, s \ {p})
    <2>1. \A x \in s : f[x] \in Int
      BY <1>3
    <2> QED
      BY <1>2, <1>3, <2>1, SumPick
  <1>5. s \ {p} \in SUBSET S /\ s \ {p} \notin Bad
    BY <1>1, <1>3
  <1> QED
    BY <1>3, <1>4, <1>5

\* So only the summands that are not zero matter ...
LEMMA SumOnly ==
    ASSUME NEW T, IsFiniteSet(T), NEW S \in SUBSET T, NEW f, \A x \in S : f[x] \in Int,
           \A x \in T \ S : f[x] = 0
    PROVE  Sum(f, T) = Sum(f, S)
  <1>1. IsFiniteSet(S) /\ IsFiniteSet(T \ S) /\ S \cap (T \ S) = {} /\ S \cup (T \ S) = T
    BY FS_Subset
  <1>2. \A x \in S \cup (T \ S) : f[x] \in Int
    OBVIOUS
  <1>3. Sum(f, T) = Sum(f, S) + Sum(f, T \ S)
    <2> DEFINE U == T \ S
    <2>1. IsFiniteSet(U) /\ S \cap U = {} /\ S \cup U = T /\ \A x \in S \cup U : f[x] \in Int
      BY <1>1, <1>2
    <2> HIDE DEF U
    <2>2. Sum(f, S \cup U) = Sum(f, S) + Sum(f, U)
      BY <1>1, <2>1, SumUnion
    <2> QED
      BY <2>1, <2>2 DEF U
  <1>4. Sum(f, T \ S) = 0 /\ Sum(f, S) \in Int
    BY <1>1, SumZero, SumType
  <1> QED
    BY <1>3, <1>4

\* ... and a part of what is never negative is no more than the whole.
LEMMA SumPart ==
    ASSUME NEW T, IsFiniteSet(T), NEW S \in SUBSET T, NEW f, \A x \in T : f[x] \in Nat
    PROVE  Sum(f, S) \in Nat /\ Sum(f, T) \in Nat /\ Sum(f, S) <= Sum(f, T)
  <1> DEFINE U == T \ S
  <1>1. IsFiniteSet(S) /\ IsFiniteSet(U) /\ S \cap U = {} /\ S \cup U = T
    BY FS_Subset
  <1>2. \A x \in S \cup U : f[x] \in Int
    OBVIOUS
  <1>3. (\A x \in S : f[x] \in Nat) /\ (\A x \in U : f[x] \in Nat)
    OBVIOUS
  <1> HIDE DEF U
  <1>4. Sum(f, S \cup U) = Sum(f, S) + Sum(f, U)
    BY <1>1, <1>2, SumUnion
  <1>5. Sum(f, S) \in Nat /\ Sum(f, U) \in Nat
    BY <1>1, <1>3, SumNat
  <1>6. Sum(f, T) = Sum(f, S) + Sum(f, U)
    BY <1>1, <1>4
  <1> QED
    BY <1>5, <1>6

\* What is summed under other names is the same sum: the rows of a table, and
\* the requests that wrote them.
LEMMA SumRenamed ==
    ASSUME NEW S, IsFiniteSet(S), NEW f, NEW g, NEW h,
           \A x \in S : f[x] \in Int /\ f[x] = g[h[x]],
           \A x, y \in S : h[x] = h[y] => x = y
    PROVE  Sum(f, S) = Sum(g, {h[x] : x \in S})
  <1> DEFINE Image(s) == {h[x] : x \in s}
             Bad == {s \in SUBSET S : Sum(f, s) # Sum(g, Image(s))}
  <1> SUFFICES ASSUME Bad # {} PROVE FALSE
    OBVIOUS
  <1>1. PICK s \in Bad : \A y \in Bad : ~ (y \subseteq s /\ y # s)
    <2>1. Bad \subseteq SUBSET S
      OBVIOUS
    <2> HIDE DEF Bad
    <2> QED
      BY <2>1, LeastSubset
  <1>2. s # {}
    <2>1. Image({}) = {}
      OBVIOUS
    <2> QED
      BY <2>1, SumEmpty
  <1> DEFINE p == Pick(s)
             u == s \ {p}
  <1>3. s \subseteq S /\ IsFiniteSet(s) /\ p \in s /\ IsFiniteSet(u)
    BY <1>2, FS_Subset, PickIn
  <1>4. Sum(f, s) = f[p] + Sum(f, u)
    BY <1>2, <1>3, SumPick
  <1>5. u \in SUBSET S /\ u \notin Bad
    BY <1>1, <1>3
  <1>6. Sum(f, u) = Sum(g, Image(u))
    BY <1>5
  <1>7. /\ IsFiniteSet(Image(u)) /\ h[p] \notin Image(u) /\ Image(s) = Image(u) \cup {h[p]}
        /\ \A z \in Image(u) \cup {h[p]} : g[z] \in Int
    <2>1. IsFiniteSet(Image(u))
      <3> DEFINE m == [x \in u |-> h[x]]
      <3>1. m \in Surjection(u, Image(u))
        BY DEF Surjection
      <3> HIDE DEF m, u, Image
      <3> QED
        BY <1>3, <3>1, FS_Surjection
    <2>2. h[p] \notin Image(u) /\ Image(s) = Image(u) \cup {h[p]}
      BY <1>3
    <2> QED
      BY <2>1, <2>2, <1>3
  <1>8. Sum(g, Image(s)) = Sum(g, Image(u)) + g[h[p]]
    <2> DEFINE V == Image(u)
               a == h[p]
    <2>1. IsFiniteSet(V) /\ a \notin V /\ \A z \in V \cup {a} : g[z] \in Int
      BY <1>7
    <2> HIDE DEF V, a, Image, u, p
    <2>2. Sum(g, V \cup {a}) = Sum(g, V) + g[a]
      BY <2>1, SumAdd
    <2> QED
      BY <1>7, <2>2 DEF V, a
  <1>9. Sum(f, u) \in Int /\ f[p] \in Int /\ f[p] = g[h[p]]
    BY <1>3, SumType
  <1> HIDE DEF Bad, Image, p, u
  <1>10. Sum(f, s) = Sum(g, Image(s))
    BY <1>4, <1>6, <1>8, <1>9
  <1> QED
    BY <1>1, <1>10 DEF Bad

-----------------------------------------------------------------------------
\* Rows of one owner and one amount each.
IsRows(R, O) == IsFiniteSet(R) /\ R \subseteq O \X Nat

\* What a table's sum is, however its rows are looked at.
LEMMA AmountsAre ==
    ASSUME NEW O, NEW R, IsRows(R, O), NEW f, \A x \in R : f[x] = x[2]
    PROVE  Amounts(R) = Sum(f, R)
  <1> DEFINE g == [x \in R |-> x[2]]
  <1>1. \A x \in R : g[x] \in Int /\ g[x] = f[x]
    BY DEF IsRows
  <1> HIDE DEF g
  <1>2. Sum(g, R) = Sum(f, R)
    BY <1>1, SumSame DEF IsRows
  <1> QED
    BY <1>2 DEF Amounts, g

\* Some of the rows sum up to no more than all.
LEMMA AmountsPart ==
    ASSUME NEW O, NEW R, IsRows(R, O), NEW S \in SUBSET R
    PROVE  /\ IsRows(S, O)
           /\ Amounts(S) \in Nat /\ Amounts(R) \in Nat /\ Amounts(S) <= Amounts(R)
  <1> DEFINE f == [x \in R |-> x[2]]
  <1>1. IsFiniteSet(R) /\ (\A x \in R : f[x] = x[2]) /\ (\A x \in R : f[x] \in Nat)
    BY DEF IsRows
  <1> HIDE DEF f
  <1>2. IsRows(S, O)
    BY <1>1, FS_Subset DEF IsRows
  <1>3. Amounts(R) = Sum(f, R) /\ Amounts(S) = Sum(f, S)
    BY <1>1, <1>2, AmountsAre
  <1>4. Sum(f, S) \in Nat /\ Sum(f, R) \in Nat /\ Sum(f, S) <= Sum(f, R)
    BY <1>1, SumPart
  <1> QED
    BY <1>2, <1>3, <1>4

\* A new row adds its amount.
LEMMA AmountsAdd ==
    ASSUME NEW O, NEW R, IsRows(R, O), NEW r \in O, NEW n \in Nat, <<r, n>> \notin R
    PROVE  /\ IsRows(R \cup {<<r, n>>}, O)
           /\ Amounts(R \cup {<<r, n>>}) = Amounts(R) + n
  <1> DEFINE a == <<r, n>>
             f == [x \in R \cup {a} |-> x[2]]
  <1>1. /\ IsFiniteSet(R) /\ a \notin R /\ f[a] = n
        /\ (\A x \in R : f[x] = x[2]) /\ (\A x \in R \cup {a} : f[x] = x[2])
        /\ \A x \in R \cup {a} : f[x] \in Int
    BY DEF IsRows
  <1>2. IsRows(R \cup {a}, O)
    BY <1>1, FS_AddElement DEF IsRows
  <1> HIDE DEF a, f
  <1>3. Amounts(R) = Sum(f, R) /\ Amounts(R \cup {a}) = Sum(f, R \cup {a})
    BY <1>1, <1>2, AmountsAre
  <1>4. Sum(f, R \cup {a}) = Sum(f, R) + f[a]
    BY <1>1, SumAdd
  <1> QED
    BY <1>1, <1>2, <1>3, <1>4 DEF a

\* Rows that say what each owner has moved sum up to what the owners have.
LEMMA AmountsMoved ==
    ASSUME NEW O, NEW R, IsRows(R, O), NEW g, \A x \in R : x[2] = g[x[1]]
    PROVE  Amounts(R) = Sum(g, {x[1] : x \in R})
  <1> DEFINE f == [x \in R |-> x[2]]
             h == [x \in R |-> x[1]]
  <1>1. /\ \A x \in R : f[x] \in Int /\ f[x] = g[h[x]] /\ f[x] = x[2]
        /\ \A x, y \in R : h[x] = h[y] => x = y
        /\ {h[x] : x \in R} = {x[1] : x \in R}
    BY DEF IsRows
  <1>2. Sum(f, R) = Sum(g, {h[x] : x \in R})
    <2>1. /\ IsFiniteSet(R) /\ (\A x \in R : f[x] \in Int /\ f[x] = g[h[x]])
          /\ (\A x, y \in R : h[x] = h[y] => x = y)
      BY <1>1 DEF IsRows
    <2> HIDE DEF f, h
    <2> QED
      BY ONLY <2>1, SumRenamed
  <1> HIDE DEF f, h
  <1> QED
    BY <1>1, <1>2, AmountsAre
=============================================================================
