------------------------------ MODULE FiniteSums ------------------------------
(***************************************************************************)
(* Lemmas about sums over finite sets: a sum does not depend on the order  *)
(* in which its summands are taken.                                        *)
(***************************************************************************)
EXTENDS Integers, Functions, FiniteSetTheorems, WellFoundedInduction, TLAPS

\* A nonempty set of naturals has a least element.
LEMMA LeastNatural ==
  ASSUME NEW S, S \subseteq Nat, S # {}
  PROVE  \E m \in S : \A n \in S : m <= n
<1>1. PICK m \in S : \A n \in S : ~(<<n, m>> \in OpToRel(<, Nat))
  BY NatLessThanWellFounded, WFMin, Zenon
<1>2. ASSUME NEW n \in S PROVE m <= n
  <2>1. m \in Nat /\ n \in Nat
    OBVIOUS
  <2>2. n < m => <<n, m>> \in OpToRel(<, Nat)
    BY <2>1, Zenon DEF OpToRel
  <2>3. ~(n < m)
    BY <1>1, <2>2, Zenon
  <2> QED
    BY <2>1, <2>3
<1> QED
  BY <1>2

\* The element a fold takes next.
Some(T) == CHOOSE x \in T : TRUE

\* One unfolding of the sum over T, given the sums over smaller sets.
SumStep(f, sums, T) == IF T = {} THEN 0 ELSE f[Some(T)] + sums[T \ {Some(T)}]

\* The sums over the subsets in D.
IsSums(f, D, sums) == sums = [T \in D |-> SumStep(f, sums, T)]

Summing(f, S, sums) == \A T \in SUBSET S : sums[T] = SumStep(f, sums, T)

\* The subsets of at most n elements.
UpTo(S, n) == {T \in SUBSET S : Cardinality(T) <= n}

LEMMA SumsFold ==
  ASSUME NEW f, NEW S
  PROVE  SumFunctionOnSet(f, S) = (CHOOSE sums : IsSums(f, SUBSET S, sums))[S]
BY Zenon DEF SumFunctionOnSet, FoldFunctionOnSet, MapThenFoldSet, IsSums, SumStep, Some

\* A nonempty finite set without one of its elements.
LEMMA SmallerSet ==
  ASSUME NEW S, IsFiniteSet(S), NEW T \in SUBSET S, NEW x \in T
  PROVE  /\ IsFiniteSet(T) /\ IsFiniteSet(T \ {x})
         /\ Cardinality(T) \in Nat /\ Cardinality(T \ {x}) \in Nat
         /\ Cardinality(T \ {x}) < Cardinality(T)
<1>1. IsFiniteSet(T) /\ IsFiniteSet(T \ {x})
  BY FS_Subset
<1>2. Cardinality(T) \in Nat /\ Cardinality(T \ {x}) \in Nat
  BY <1>1, FS_CardinalityType
<1>3. Cardinality(T \ {x}) = Cardinality(T) - 1
  BY <1>1, FS_RemoveElement
<1> QED
  BY <1>1, <1>2, <1>3

\* Among the subsets of a finite set some are smallest: a proof by induction over
\* finite sets is a proof that the set of exceptions is empty.
LEMMA SmallestSet ==
  ASSUME NEW S, IsFiniteSet(S), NEW B, B \subseteq SUBSET S, B # {}
  PROVE  \E T \in B : \A x \in T : T \ {x} \notin B
<1> DEFINE sizes == {Cardinality(T) : T \in B}
<1>1. \A T \in B : Cardinality(T) \in Nat
  BY FS_Subset, FS_CardinalityType
<1>2. sizes \subseteq Nat /\ sizes # {}
  BY <1>1
<1>3. PICK least \in sizes : \A n \in sizes : least <= n
  <2> HIDE DEF sizes
  <2> QED
    BY <1>2, LeastNatural
<1>4. PICK T \in B : Cardinality(T) = least
  BY <1>3
<1>5. ASSUME NEW x \in T, T \ {x} \in B PROVE FALSE
  <2>1. /\ Cardinality(T) \in Nat /\ Cardinality(T \ {x}) \in Nat
        /\ Cardinality(T \ {x}) < Cardinality(T)
    BY SmallerSet
  <2>2. least <= Cardinality(T \ {x})
    BY <1>3, <1>5
  <2> QED
    BY <1>4, <2>1, <2>2
<1> QED
  BY <1>4, <1>5

\* The sums over the subsets of a finite set exist.
LEMMA SumsExist ==
  ASSUME NEW f, NEW S, IsFiniteSet(S)
  PROVE  \E sums : IsSums(f, SUBSET S, sums)
<1> DEFINE Bad == {n \in Nat : ~\E sums : IsSums(f, UpTo(S, n), sums)}
<1>1. ASSUME Bad # {} PROVE FALSE
  <2>0. Bad \subseteq Nat
    OBVIOUS
  <2>1. PICK n \in Bad : \A m \in Bad : n <= m
    <3> HIDE DEF Bad
    <3> QED
      BY <1>1, <2>0, LeastNatural
  <2>2. CASE n = 0
    <3> DEFINE sums == [T \in UpTo(S, 0) |-> 0]
    <3>1. ASSUME NEW T \in UpTo(S, 0) PROVE T = {}
      <4>0. T \in SUBSET S /\ Cardinality(T) <= 0
        BY DEF UpTo
      <4>1. ASSUME NEW x \in T PROVE FALSE
        <5>1. /\ Cardinality(T) \in Nat /\ Cardinality(T \ {x}) \in Nat
              /\ Cardinality(T \ {x}) < Cardinality(T)
          BY <4>0, SmallerSet
        <5> QED
          BY <4>0, <5>1
      <4> QED
        BY <4>1
    <3>2. IsSums(f, UpTo(S, 0), sums)
      BY <3>1 DEF IsSums, SumStep
    <3> QED
      BY <2>1, <2>2, <3>2
  <2>3. CASE n # 0
    <3>1. n \in Nat /\ n - 1 \in Nat /\ n - 1 \notin Bad
      <4> HIDE DEF Bad
      <4> QED
        BY <2>0, <2>1, <2>3
    <3>2. PICK sums : IsSums(f, UpTo(S, n - 1), sums)
      BY <3>1
    <3> DEFINE more == [T \in UpTo(S, n) |-> SumStep(f, sums, T)]
    <3> HIDE DEF Bad
    <3>3. ASSUME NEW T \in UpTo(S, n), T # {}
          PROVE  more[T \ {Some(T)}] = sums[T \ {Some(T)}]
      <4> DEFINE R == T \ {Some(T)}
      <4>1. Some(T) \in T
        BY <3>3 DEF Some
      <4>2. Cardinality(R) < Cardinality(T) /\ Cardinality(R) \in Nat /\ Cardinality(T) \in Nat
        BY <4>1, SmallerSet DEF UpTo
      <4>5. R \in SUBSET S /\ Cardinality(T) <= n
        BY DEF UpTo
      <4> HIDE DEF R
      <4>3. R \in UpTo(S, n) /\ R \in UpTo(S, n - 1)
        BY <3>1, <4>2, <4>5 DEF UpTo
      <4>4. sums[R] = SumStep(f, sums, R)
        BY <3>2, <4>3 DEF IsSums
      <4> QED
        BY <4>3, <4>4 DEF R
    <3>4. \A T \in UpTo(S, n) : SumStep(f, more, T) = SumStep(f, sums, T)
      <4> HIDE DEF more
      <4>1. ASSUME NEW T \in UpTo(S, n) PROVE SumStep(f, more, T) = SumStep(f, sums, T)
        BY <3>3, Zenon DEF SumStep
      <4> QED
        BY <4>1
    <3>5. IsSums(f, UpTo(S, n), more)
      BY <3>4 DEF IsSums
    <3> QED
      BY <2>1, <3>5 DEF Bad
  <2> QED
    BY <2>2, <2>3
<1>2. Cardinality(S) \in Nat
  BY FS_CardinalityType
<1>3. PICK sums : IsSums(f, UpTo(S, Cardinality(S)), sums)
  BY <1>1, <1>2
<1>4. \A T \in SUBSET S : Cardinality(T) <= Cardinality(S)
  BY FS_Subset
<1>5. UpTo(S, Cardinality(S)) = SUBSET S
  BY <1>4 DEF UpTo
<1> QED
  BY <1>3, <1>5

\* There is only one way to sum up.
LEMMA SumsAgree ==
  ASSUME NEW f, NEW S, IsFiniteSet(S),
         NEW sums, Summing(f, S, sums), NEW others, Summing(f, S, others)
  PROVE  sums[S] = others[S]
<1> DEFINE B == {T \in SUBSET S : sums[T] # others[T]}
<1>1. ASSUME B # {} PROVE FALSE
  <2>1. PICK T \in B : \A x \in T : T \ {x} \notin B
    BY <1>1, SmallestSet
  <2>2. sums[T] = SumStep(f, sums, T) /\ others[T] = SumStep(f, others, T)
    BY DEF Summing
  <2>3. T # {} /\ Some(T) \in T
    BY <2>2 DEF SumStep, Some
  <2>4. sums[T \ {Some(T)}] = others[T \ {Some(T)}]
    BY <2>1, <2>3
  <2> QED
    BY <2>2, <2>4 DEF SumStep
<1> QED
  BY <1>1

\* What the sum over an empty and over a nonempty set is.
LEMMA SumUnfolds ==
  ASSUME NEW f, NEW S, IsFiniteSet(S)
  PROVE  SumFunctionOnSet(f, S) =
           IF S = {} THEN 0 ELSE f[Some(S)] + SumFunctionOnSet(f, S \ {Some(S)})
<1> DEFINE sums(T) == CHOOSE s : IsSums(f, SUBSET T, s)
<1>1. \A T \in SUBSET S : IsFiniteSet(T) /\ IsSums(f, SUBSET T, sums(T))
  BY FS_Subset, SumsExist
<1>2. \A T : SumFunctionOnSet(f, T) = sums(T)[T]
  BY SumsFold
<1> HIDE DEF sums
<1>3. sums(S)[S] = SumStep(f, sums(S), S)
  BY <1>1 DEF IsSums
<1>4. ASSUME NEW R \in SUBSET S PROVE sums(S)[R] = sums(R)[R]
  <2>1. IsSums(f, SUBSET S, sums(S)) /\ IsSums(f, SUBSET R, sums(R)) /\ IsFiniteSet(R)
    BY <1>1
  <2>2. Summing(f, R, sums(S)) /\ Summing(f, R, sums(R))
    BY <2>1 DEF IsSums, Summing
  <2> QED
    BY <2>1, <2>2, SumsAgree
<1> QED
  BY <1>2, <1>3, <1>4 DEF SumStep

\* Equal summands have equal sums.
LEMMA SumSame ==
  ASSUME NEW f, NEW g, NEW S, IsFiniteSet(S), \A x \in S : f[x] = g[x]
  PROVE  SumFunctionOnSet(f, S) = SumFunctionOnSet(g, S)
<1> DEFINE B == {T \in SUBSET S : SumFunctionOnSet(f, T) # SumFunctionOnSet(g, T)}
<1>1. ASSUME B # {} PROVE FALSE
  <2>1. PICK T \in B : \A x \in T : T \ {x} \notin B
    BY <1>1, SmallestSet
  <2>2. IsFiniteSet(T)
    BY FS_Subset
  <2>3. T # {} /\ Some(T) \in T
    <3>1. T # {}
      BY <2>2, SumUnfolds
    <3> QED
      BY <3>1 DEF Some
  <2>4. /\ SumFunctionOnSet(f, T \ {Some(T)}) = SumFunctionOnSet(g, T \ {Some(T)})
        /\ f[Some(T)] = g[Some(T)]
    BY <2>1, <2>3
  <2> QED
    BY <2>2, <2>4, SumUnfolds
<1> QED
  BY <1>1

\* A sum of integers is one.
LEMMA SumType ==
  ASSUME NEW f, NEW S, IsFiniteSet(S), \A x \in S : f[x] \in Int
  PROVE  SumFunctionOnSet(f, S) \in Int
<1> DEFINE B == {T \in SUBSET S : SumFunctionOnSet(f, T) \notin Int}
<1>1. ASSUME B # {} PROVE FALSE
  <2>1. PICK T \in B : \A x \in T : T \ {x} \notin B
    BY <1>1, SmallestSet
  <2>2. IsFiniteSet(T)
    BY FS_Subset
  <2>3. T # {} /\ Some(T) \in T
    <3>1. T = {} => SumFunctionOnSet(f, T) = 0
      BY <2>2, SumUnfolds
    <3>2. T # {}
      BY <3>1
    <3> QED
      BY <3>2 DEF Some
  <2>4. SumFunctionOnSet(f, T \ {Some(T)}) \in Int /\ f[Some(T)] \in Int
    BY <2>1, <2>3
  <2> QED
    BY <2>2, <2>3, <2>4, SumUnfolds
<1> QED
  BY <1>1

\* Any element can be taken out of a sum first.
LEMMA SumSplit ==
  ASSUME NEW f, NEW S, IsFiniteSet(S), \A x \in S : f[x] \in Int, NEW x \in S
  PROVE  SumFunctionOnSet(f, S) = f[x] + SumFunctionOnSet(f, S \ {x})
<1> DEFINE Sum(T) == SumFunctionOnSet(f, T)
           B == {T \in SUBSET S : \E y \in T : Sum(T) # f[y] + Sum(T \ {y})}
<1>1. \A T \in SUBSET S :
        IsFiniteSet(T) /\ Sum(T) \in Int /\ (T # {} => Sum(T) = f[Some(T)] + Sum(T \ {Some(T)}))
  BY FS_Subset, SumType, SumUnfolds
<1> HIDE DEF Sum
<1>2. ASSUME B # {} PROVE FALSE
  <2>1. PICK T \in B : \A y \in T : T \ {y} \notin B
    BY <1>2, SmallestSet
  <2>2. PICK y \in T : Sum(T) # f[y] + Sum(T \ {y})
    OBVIOUS
  <2>3. PICK z \in T : Sum(T) = f[z] + Sum(T \ {z})
    BY <1>1, <2>2 DEF Some
  <2>4. y # z
    BY <2>2, <2>3
  <2>5. y \in T \ {z} /\ z \in T \ {y} /\ (T \ {z}) \ {y} = (T \ {y}) \ {z}
    BY <2>4
  <2>6. Sum(T \ {z}) = f[y] + Sum((T \ {z}) \ {y})
    BY <2>1, <2>5
  <2>7. Sum(T \ {y}) = f[z] + Sum((T \ {z}) \ {y})
    BY <2>1, <2>5
  <2>8. f[y] \in Int /\ f[z] \in Int /\ Sum((T \ {z}) \ {y}) \in Int
    BY <1>1
  <2> HIDE DEF B
  <2> QED
    BY <2>2, <2>3, <2>5, <2>6, <2>7, <2>8
<1> QED
  BY <1>2 DEF Sum

\* A sum in which one summand changes.
LEMMA SumChanged ==
  ASSUME NEW f, NEW g, NEW S, IsFiniteSet(S), \A y \in S : f[y] \in Int, NEW x \in S, NEW d \in Int,
         \A y \in S : g[y] = IF y = x THEN f[y] + d ELSE f[y]
  PROVE  SumFunctionOnSet(g, S) = SumFunctionOnSet(f, S) + d
<1>0. \A y \in S : g[y] \in Int
  OBVIOUS
<1>1. SumFunctionOnSet(f, S) = f[x] + SumFunctionOnSet(f, S \ {x})
  BY SumSplit
<1>2. SumFunctionOnSet(g, S) = g[x] + SumFunctionOnSet(g, S \ {x})
  BY <1>0, SumSplit
<1>3. IsFiniteSet(S \ {x}) /\ \A y \in S \ {x} : f[y] = g[y]
  BY FS_Subset
<1>4. SumFunctionOnSet(f, S \ {x}) = SumFunctionOnSet(g, S \ {x})
  BY <1>3, SumSame
<1>5. SumFunctionOnSet(f, S \ {x}) \in Int
  BY <1>3, SumType
<1> QED
  BY <1>1, <1>2, <1>4, <1>5

\* A sum of zeros.
LEMMA SumZero ==
  ASSUME NEW f, NEW S, IsFiniteSet(S), \A x \in S : f[x] = 0
  PROVE  SumFunctionOnSet(f, S) = 0
<1> DEFINE B == {T \in SUBSET S : SumFunctionOnSet(f, T) # 0}
<1>1. ASSUME B # {} PROVE FALSE
  <2>1. PICK T \in B : \A x \in T : T \ {x} \notin B
    BY <1>1, SmallestSet
  <2>2. IsFiniteSet(T)
    BY FS_Subset
  <2>3. T # {} /\ Some(T) \in T
    <3>1. T # {}
      BY <2>2, SumUnfolds
    <3> QED
      BY <3>1 DEF Some
  <2>4. SumFunctionOnSet(f, T \ {Some(T)}) = 0 /\ f[Some(T)] = 0
    BY <2>1, <2>3
  <2> QED
    BY <2>2, <2>3, <2>4, SumUnfolds
<1> QED
  BY <1>1
\* A sum over steps of a path: if no summand exceeds the step it stands for, the sum
\* does not exceed the way, and if none falls short of it, it is the way.
LEMMA SumTelescopes ==
  ASSUME NEW N \in Nat, NEW b, \A d \in 1..(N + 1) : b[d] \in Int,
         NEW f, \A d \in 1..N : f[d] \in Int /\ b[d] + f[d] <= b[d + 1]
  PROVE  /\ SumFunctionOnSet(f, 1..N) \in Int
         /\ b[1] + SumFunctionOnSet(f, 1..N) <= b[N + 1]
         /\ (\A d \in 1..N : b[d] + f[d] = b[d + 1]) => b[1] + SumFunctionOnSet(f, 1..N) = b[N + 1]
<1> DEFINE Sum(n) == SumFunctionOnSet(f, 1..n)
           exact == \A d \in 1..N : b[d] + f[d] = b[d + 1]
           Fine(n) == /\ Sum(n) \in Int /\ b[1] + Sum(n) <= b[n + 1]
                      /\ exact => b[1] + Sum(n) = b[n + 1]
           Bad == {n \in 0..N : ~Fine(n)}
<1>1. Fine(0)
  <2>1. 1..0 = {} /\ IsFiniteSet({})
    BY FS_EmptySet
  <2>2. Sum(0) = 0
    BY <2>1, SumUnfolds
  <2>3. b[1] \in Int
    OBVIOUS
  <2> QED
    BY <2>2, <2>3
<1>2. ASSUME Bad # {} PROVE FALSE
  <2>1. PICK n \in Bad : \A m \in Bad : n <= m
    <3>1. Bad \subseteq Nat
      OBVIOUS
    <3> HIDE DEF Bad
    <3> QED
      BY <1>2, <3>1, LeastNatural
  <2>2. n \in 1..N /\ n - 1 \in 0..N /\ n \in 1..n /\ (1..n) \ {n} = 1..(n - 1) /\ n - 1 + 1 = n
    <3>1. n # 0
      BY <1>1, <2>1
    <3> HIDE DEF Fine
    <3> QED
      BY <3>1
  <2>3. Fine(n - 1)
    <3> HIDE DEF Fine
    <3>1. n - 1 \notin Bad
      <4>1. n \in Int /\ ~(n <= n - 1)
        BY <2>2
      <4> HIDE DEF Bad
      <4> QED
        BY <2>1, <4>1
    <3> QED
      BY <2>2, <3>1
  <2>4. Sum(n) = f[n] + Sum(n - 1)
    <3>1. IsFiniteSet(1..n) /\ \A d \in 1..n : f[d] \in Int
      BY <2>2, FS_Interval
    <3>2. n \in 1..n
      BY <2>2
    <3>3. PICK S : S = 1..n
      OBVIOUS
    <3>4. SumFunctionOnSet(f, S) = f[n] + SumFunctionOnSet(f, S \ {n})
      <4> HIDE DEF Bad
      <4> QED
        BY <3>1, <3>2, <3>3, SumSplit
    <3> QED
      BY <2>2, <3>3, <3>4
  <2>5. b[1] \in Int /\ b[n] \in Int /\ b[n + 1] \in Int /\ f[n] \in Int /\ b[n] + f[n] <= b[n + 1]
    BY <2>2
  <2>6. exact => b[n] + f[n] = b[n + 1]
    BY <2>2
  <2>7. Sum(n - 1) \in Int /\ b[1] + Sum(n - 1) <= b[n] /\ (exact => b[1] + Sum(n - 1) = b[n])
    BY <2>2, <2>3
  <2> HIDE DEF Sum, exact
  <2>8. Fine(n)
    BY <2>4, <2>5, <2>6, <2>7
  <2> QED
    BY <2>8
<1>3. Fine(N)
  BY <1>2
<1> QED
  BY <1>3
=============================================================================
