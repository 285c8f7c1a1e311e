---------------------------- MODULE DataTheorems ----------------------------
(***************************************************************************)
(* Facts about orders, sums and sequences that the proofs about the        *)
(* components need and the library does not state.  Where one of them is   *)
(* about every finite set it is proved by looking at a smallest            *)
(* counterexample, as the order of inclusion is well founded.              *)
(***************************************************************************)
EXTENDS Integers, SequencesExt, FiniteSetTheorems, FunctionTheorems, SequenceTheorems, TLAPS

\* The interval of the first n numbers.
LEMMA FirstNumbers == \A n \in Nat : IsFiniteSet(1..n) /\ Cardinality(1..n) = n
<1>. SUFFICES ASSUME NEW n \in Nat
              PROVE  IsFiniteSet(1..n) /\ Cardinality(1..n) = n
  OBVIOUS
<1>1. /\ IsFiniteSet(1..n)
      /\ Cardinality(1..n) = IF 1 > n THEN 0 ELSE n - 1 + 1
  BY FS_Interval, SMTT(30)
<1>. QED
  BY <1>1

-----------------------------------------------------------------------------
(* Sorting: who counts those before it is at its place. *)

\* Counting predecessors in a total order is a bijection to an interval, and monotone.
THEOREM RankTheorem ==
    ASSUME NEW S, IsFiniteSet(S), NEW below \in [S -> SUBSET S],
           \A x \in S : x \notin below[x],
           \A x, y \in S : x \in below[y] => below[x] \subseteq below[y],
           \A x, y \in S : x # y => x \in below[y] \/ y \in below[x],
           NEW rank, rank = [x \in S |-> Cardinality(below[x]) + 1]
    PROVE  /\ Cardinality(S) \in Nat
           /\ rank \in Bijection(S, 1..Cardinality(S))
           /\ \A x, y \in S : x \in below[y] <=> rank[x] < rank[y]
<1>. DEFINE N == Cardinality(S)
<1>1. N \in Nat
  BY FS_CardinalityType
<1>2. ASSUME NEW x \in S
      PROVE  IsFiniteSet(below[x]) /\ Cardinality(below[x]) \in Nat /\ Cardinality(below[x]) < N
  <2>1. below[x] \in SUBSET S /\ below[x] # S
    OBVIOUS
  <2>2. IsFiniteSet(below[x]) /\ Cardinality(below[x]) <= N /\ Cardinality(below[x]) # N
    BY <2>1, FS_Subset
  <2>. QED
    BY <1>1, <2>2, FS_CardinalityType
<1>3. rank \in [S -> 1..N]
  BY <1>1, <1>2
<1>4. ASSUME NEW x \in S, NEW y \in S, x \in below[y]
      PROVE  rank[x] < rank[y]
  <2>1. below[x] \in SUBSET below[y] /\ below[x] # below[y]
    BY <1>4
  <2>2. Cardinality(below[x]) <= Cardinality(below[y]) /\ Cardinality(below[x]) # Cardinality(below[y])
    BY <1>2, <2>1, FS_Subset
  <2>. QED
    BY <1>2, <2>2
<1>5. ASSUME NEW x \in S, NEW y \in S, rank[x] < rank[y]
      PROVE  x \in below[y]
  <2>1. rank[x] \in Nat /\ rank[y] \in Nat /\ ~(rank[y] < rank[x]) /\ rank[x] # rank[y]
    BY <1>3, <1>5
  <2>2. x # y /\ y \notin below[x]
    BY <1>4, <2>1
  <2>. QED
    BY <2>2
<1>6. rank \in Injection(S, 1..N)
  <2>1. \A x, y \in S : rank[x] = rank[y] => x = y
    BY <1>3, <1>4
  <2>. QED
    BY <1>3, <2>1, Fun_IsInj
<1>7. IsFiniteSet(1..N) /\ Cardinality(1..N) = N
  BY <1>1, FS_Interval
<1>8. rank \in Surjection(S, 1..N)
  BY <1>6, <1>7, FS_Injection
<1>. QED
  BY <1>1, <1>4, <1>5, <1>6, <1>8, Fun_IsBij
-----------------------------------------------------------------------------
(* A smallest counterexample among the subsets of a finite set. *)

LEMMA SmallestSubset ==
    ASSUME NEW T, IsFiniteSet(T), NEW Bad \in SUBSET (SUBSET T), Bad # {}
    PROVE  \E s \in Bad : \A u \in SUBSET s : u # s => u \notin Bad
<1>1. IsWellFoundedOn(StrictSubsetOrdering(T), FiniteSubsetsOf(T))
  BY FS_StrictSubsetOrderingWellFounded
<1>2. Bad \subseteq FiniteSubsetsOf(T)
  BY FS_FiniteSubsetsOfFinite
<1>3. PICK s \in Bad : \A u \in Bad : <<u, s>> \notin StrictSubsetOrdering(T)
  BY <1>1, <1>2, WFMin
<1>. QED
  BY <1>3, Zenon DEF StrictSubsetOrdering

-----------------------------------------------------------------------------
(* Sums over a finite set: SumFunctionOnSet is recursion along a choice of  *)
(* elements.  That it is one, that the choice does not matter, and the laws *)
(* of sums.                                                                 *)

Chosen(s) == CHOOSE x \in s : TRUE

\* g is the sum of f over the subsets of T.
Sums(f, T, g) ==
    g = [s \in SUBSET T |-> IF s = {} THEN 0 ELSE f[Chosen(s)] + g[s \ {Chosen(s)}]]

LEMMA SumIsChosen ==
    ASSUME NEW f, NEW T
    PROVE  SumFunctionOnSet(f, T) = (CHOOSE g : Sums(f, T, g))[T]
BY Zenon DEF SumFunctionOnSet, FoldFunctionOnSet, MapThenFoldSet, Sums, Chosen

LEMMA ChosenIn == \A s : s # {} => Chosen(s) \in s
BY Zenon DEF Chosen

LEMMA SumsAgree ==
    ASSUME NEW f, NEW T, NEW U, NEW g, NEW h, IsFiniteSet(T),
           Sums(f, T, g), Sums(f, U, h)
    PROVE  \A s \in SUBSET T : s \subseteq U => g[s] = h[s]
<1>. DEFINE Bad == {s \in SUBSET T : s \subseteq U /\ g[s] # h[s]}
<1>. SUFFICES ASSUME Bad # {}
              PROVE  FALSE
  OBVIOUS
<1>1. PICK s \in Bad : \A u \in SUBSET s : u # s => u \notin Bad
  <2>. Bad \in SUBSET (SUBSET T)
    OBVIOUS
  <2>. HIDE DEF Bad
  <2>. QED
    BY SmallestSubset
<1>2. /\ g[s] = IF s = {} THEN 0 ELSE f[Chosen(s)] + g[s \ {Chosen(s)}]
      /\ h[s] = IF s = {} THEN 0 ELSE f[Chosen(s)] + h[s \ {Chosen(s)}]
  BY Zenon DEF Sums
<1>3. s # {}
  BY <1>2
<1>4. Chosen(s) \in s
  BY <1>3, ChosenIn
<1>5. g[s \ {Chosen(s)}] = h[s \ {Chosen(s)}]
  BY <1>1, <1>4
<1>. QED
  BY <1>2, <1>3, <1>5

LEMMA SumsExist ==
    ASSUME NEW f, NEW T, IsFiniteSet(T)
    PROVE  \E g : Sums(f, T, g)
<1>. DEFINE Bad == {s \in SUBSET T : ~ \E g : Sums(f, s, g)}
<1>. SUFFICES ASSUME Bad # {}
              PROVE  FALSE
  OBVIOUS
<1>1. PICK s \in Bad : \A u \in SUBSET s : u # s => u \notin Bad
  <2>. Bad \in SUBSET (SUBSET T)
    OBVIOUS
  <2>. HIDE DEF Bad
  <2>. QED
    BY SmallestSubset
<1>2. s \in SUBSET T /\ IsFiniteSet(s)
  BY FS_Subset
<1>. DEFINE sum(u) == CHOOSE g : Sums(f, u, g)
<1>3. \A u \in SUBSET s : u # s => Sums(f, u, sum(u))
  BY <1>1, <1>2
<1>. DEFINE whole == IF s = {} THEN 0 ELSE f[Chosen(s)] + sum(s \ {Chosen(s)})[s \ {Chosen(s)}]
            G == [u \in SUBSET s |-> IF u = s THEN whole ELSE sum(u)[u]]
<1>4. ASSUME NEW u \in SUBSET s
      PROVE  G[u] = IF u = {} THEN 0 ELSE f[Chosen(u)] + G[u \ {Chosen(u)}]
  <2>. DEFINE r == u \ {Chosen(u)}
  <2>1. CASE u = {}
    <3>1. u # s => Sums(f, u, sum(u))
      BY <1>3
    <3>2. u # s => sum(u)[u] = 0
      <4>. HIDE DEF sum
      <4>. QED
        BY <2>1, <3>1, Zenon DEF Sums
    <3>. QED
      BY <2>1, <3>2
  <2>2. CASE u # {}
    <3>1. Chosen(u) \in u /\ r \in SUBSET u /\ r # u
      BY <2>2, ChosenIn
    <3>2. r \in SUBSET s /\ r # s
      BY <3>1
    <3>3. G[r] = sum(r)[r]
      BY <3>2
    <3>4. CASE u = s
      BY <2>2, <3>3, <3>4
    <3>5. CASE u # s
      <4>1. Sums(f, u, sum(u)) /\ Sums(f, r, sum(r))
        BY <1>3, <3>2, <3>5
      <4>2. sum(u)[u] = f[Chosen(u)] + sum(u)[r]
        <5>. HIDE DEF sum
        <5>. QED
          BY <2>2, <4>1, Zenon DEF Sums
      <4>3. IsFiniteSet(r)
        BY <1>2, <3>2, FS_Subset
      <4>4. sum(r)[r] = sum(u)[r]
        <5>. HIDE DEF sum, r
        <5>. QED
          BY <3>1, <4>1, <4>3, SumsAgree
      <4>. QED
        BY <2>2, <3>3, <3>5, <4>2, <4>4
    <3>. QED
      BY <3>4, <3>5
  <2>. QED
    BY <2>1, <2>2
<1>5. Sums(f, s, G)
  <2>1. G = [u \in SUBSET s |-> G[u]]
    OBVIOUS
  <2>. HIDE DEF G
  <2>. QED
    BY <1>4, <2>1, Zenon DEF Sums
<1>. QED
  BY <1>5

LEMMA SumsChosen ==
    ASSUME NEW f, NEW T, IsFiniteSet(T)
    PROVE  \E g : Sums(f, T, g) /\ SumFunctionOnSet(f, T) = g[T]
BY SumsExist, SumIsChosen, Zenon

LEMMA SumOfNone == \A f : SumFunctionOnSet(f, {}) = 0
<1>. SUFFICES ASSUME NEW f
              PROVE  SumFunctionOnSet(f, {}) = 0
  OBVIOUS
<1>1. PICK g : Sums(f, {}, g) /\ SumFunctionOnSet(f, {}) = g[{}]
  BY FS_EmptySet, SumsChosen
<1>2. g[{}] = 0
  BY <1>1, Zenon DEF Sums
<1>. QED
  BY <1>1, <1>2

\* The step of the recursion.
LEMMA SumStep ==
    ASSUME NEW f, NEW T, IsFiniteSet(T), T # {}
    PROVE  SumFunctionOnSet(f, T) = f[Chosen(T)] + SumFunctionOnSet(f, T \ {Chosen(T)})
<1>. DEFINE r == T \ {Chosen(T)}
<1>1. IsFiniteSet(r) /\ r \in SUBSET T
  BY FS_Subset
<1>2. PICK g : Sums(f, T, g) /\ SumFunctionOnSet(f, T) = g[T]
  BY SumsChosen
<1>3. PICK h : Sums(f, r, h) /\ SumFunctionOnSet(f, r) = h[r]
  BY <1>1, SumsChosen
<1>4. g[T] = f[Chosen(T)] + g[r]
  BY <1>2, Zenon DEF Sums
<1>5. h[r] = g[r]
  <2>. HIDE DEF r
  <2>. QED
    BY <1>1, <1>2, <1>3, SumsAgree
<1>. QED
  BY <1>2, <1>3, <1>4, <1>5

\* The sum of integers is one.
THEOREM SumType ==
    ASSUME NEW f, NEW T, IsFiniteSet(T), \A x \in T : f[x] \in Int
    PROVE  SumFunctionOnSet(f, T) \in Int
<1>. DEFINE Bad == {s \in SUBSET T : SumFunctionOnSet(f, s) \notin Int}
<1>. SUFFICES ASSUME Bad # {}
              PROVE  FALSE
  BY Zenon
<1>1. PICK s \in Bad : \A u \in SUBSET s : u # s => u \notin Bad
  <2>. Bad \in SUBSET (SUBSET T)
    OBVIOUS
  <2>. HIDE DEF Bad
  <2>. QED
    BY SmallestSubset
<1>2. s \in SUBSET T /\ IsFiniteSet(s) /\ SumFunctionOnSet(f, s) \notin Int
  BY FS_Subset
<1>3. s # {}
  BY <1>2, SumOfNone
<1>. DEFINE r == s \ {Chosen(s)}
<1>4. Chosen(s) \in s
  BY <1>3, ChosenIn
<1>5. SumFunctionOnSet(f, r) \in Int
  BY <1>1, <1>2, <1>4
<1>6. SumFunctionOnSet(f, s) = f[Chosen(s)] + SumFunctionOnSet(f, r)
  BY <1>2, <1>3, SumStep
<1>. HIDE DEF r, Bad
<1>. QED
  BY <1>2, <1>4, <1>5, <1>6

\* Any element may be taken out first.
THEOREM SumWithout ==
    ASSUME NEW f, NEW T, IsFiniteSet(T), \A x \in T : f[x] \in Int
    PROVE  \A x \in T : SumFunctionOnSet(f, T) = f[x] + SumFunctionOnSet(f, T \ {x})
<1>. DEFINE Taken(s, x) == SumFunctionOnSet(f, s) = f[x] + SumFunctionOnSet(f, s \ {x})
            Bad == {s \in SUBSET T : \E x \in s : ~Taken(s, x)}
<1>. SUFFICES ASSUME Bad # {}
              PROVE  FALSE
  BY Zenon
<1>1. PICK s \in Bad : \A u \in SUBSET s : u # s => u \notin Bad
  <2>. Bad \in SUBSET (SUBSET T)
    OBVIOUS
  <2>. HIDE DEF Bad
  <2>. QED
    BY SmallestSubset
<1>2. PICK x \in s : ~Taken(s, x)
  OBVIOUS
<1>3. s \in SUBSET T /\ IsFiniteSet(s) /\ s # {}
  BY FS_Subset
<1>. DEFINE c == Chosen(s)
            both == s \ {c, x}
<1>4. c \in s
  BY <1>3, ChosenIn
<1>5. SumFunctionOnSet(f, s) = f[c] + SumFunctionOnSet(f, s \ {c})
  BY <1>3, SumStep
<1>6. c # x
  BY <1>2, <1>5
<1>7. \A u \in SUBSET s : u # s => \A y \in u : Taken(u, y)
  BY <1>1, <1>3
<1>8. /\ SumFunctionOnSet(f, s \ {c}) = f[x] + SumFunctionOnSet(f, both)
      /\ SumFunctionOnSet(f, s \ {x}) = f[c] + SumFunctionOnSet(f, both)
  <2>1. s \ {c} \in SUBSET s /\ s \ {c} # s /\ x \in s \ {c} /\ (s \ {c}) \ {x} = both
    BY <1>4, <1>6
  <2>2. s \ {x} \in SUBSET s /\ s \ {x} # s /\ c \in s \ {x} /\ (s \ {x}) \ {c} = both
    BY <1>4, <1>6
  <2>. HIDE DEF c, both
  <2>. QED
    BY <1>7, <2>1, <2>2
<1>9. f[c] \in Int /\ f[x] \in Int /\ SumFunctionOnSet(f, both) \in Int
  <2>1. both \in SUBSET T /\ IsFiniteSet(both)
    BY <1>3, FS_Subset
  <2>2. \A y \in both : f[y] \in Int
    BY <2>1
  <2>. HIDE DEF both
  <2>3. SumFunctionOnSet(f, both) \in Int
    BY <2>1, <2>2, SumType
  <2>. QED
    BY <1>3, <1>4, <2>3
<1>10. f[c] + (f[x] + SumFunctionOnSet(f, both)) = f[x] + (f[c] + SumFunctionOnSet(f, both))
  <2>. HIDE DEF both, c
  <2>. QED
    BY <1>9
<1>. QED
  BY <1>2, <1>5, <1>8, <1>10, Zenon

\* The sum depends only on the values.
THEOREM SumSame ==
    ASSUME NEW f, NEW g, NEW T, IsFiniteSet(T), \A x \in T : f[x] = g[x]
    PROVE  SumFunctionOnSet(f, T) = SumFunctionOnSet(g, T)
<1>. DEFINE Bad == {s \in SUBSET T : SumFunctionOnSet(f, s) # SumFunctionOnSet(g, s)}
<1>. SUFFICES ASSUME Bad # {}
              PROVE  FALSE
  BY Zenon
<1>1. PICK s \in Bad : \A u \in SUBSET s : u # s => u \notin Bad
  <2>. Bad \in SUBSET (SUBSET T)
    OBVIOUS
  <2>. HIDE DEF Bad
  <2>. QED
    BY SmallestSubset
<1>2. s \in SUBSET T /\ IsFiniteSet(s) /\ s # {}
  BY FS_Subset, SumOfNone
<1>3. Chosen(s) \in s
  BY <1>2, ChosenIn
<1>4. SumFunctionOnSet(f, s \ {Chosen(s)}) = SumFunctionOnSet(g, s \ {Chosen(s)})
  BY <1>1, <1>2, <1>3
<1>5. /\ SumFunctionOnSet(f, s) = f[Chosen(s)] + SumFunctionOnSet(f, s \ {Chosen(s)})
      /\ SumFunctionOnSet(g, s) = g[Chosen(s)] + SumFunctionOnSet(g, s \ {Chosen(s)})
  BY <1>2, SumStep
<1>6. f[Chosen(s)] = g[Chosen(s)]
  BY <1>2, <1>3
<1>. QED
  BY <1>4, <1>5, <1>6

\* Numbering the terms another way does not change a sum.
THEOREM SumAcross ==
    ASSUME NEW S, NEW T, IsFiniteSet(S), NEW b \in Bijection(S, T),
           NEW f, NEW g, \A y \in T : g[y] \in Int, \A x \in S : f[x] = g[b[x]]
    PROVE  SumFunctionOnSet(f, S) = SumFunctionOnSet(g, T)
<1>. DEFINE Image(s) == {b[x] : x \in s}
            Bad == {s \in SUBSET S : SumFunctionOnSet(f, s) # SumFunctionOnSet(g, Image(s))}
<1>1. b \in [S -> T] /\ (\A x, y \in S : b[x] = b[y] => x = y) /\ (\A y \in T : \E x \in S : b[x] = y)
  BY DEF Bijection, Injection, Surjection, IsInjective
<1>2. Image(S) = T
  BY <1>1
<1>. SUFFICES ASSUME Bad # {}
              PROVE  FALSE
  BY <1>2, Zenon
<1>3. PICK s \in Bad : \A u \in SUBSET s : u # s => u \notin Bad
  <2>. Bad \in SUBSET (SUBSET S)
    OBVIOUS
  <2>. HIDE DEF Bad
  <2>. QED
    BY SmallestSubset
<1>4. s \in SUBSET S /\ IsFiniteSet(s) /\ s # {}
  <2>1. Image({}) = {}
    OBVIOUS
  <2>. QED
    BY <2>1, FS_Subset, SumOfNone
<1>. DEFINE c == Chosen(s)
            r == s \ {c}
<1>5. c \in s
  BY <1>4, ChosenIn
<1>6. r \in SUBSET s /\ r # s
  BY <1>5
<1>7. SumFunctionOnSet(f, r) = SumFunctionOnSet(g, Image(r))
  BY <1>3, <1>4, <1>6
<1>8. SumFunctionOnSet(f, s) = f[c] + SumFunctionOnSet(f, r)
  BY <1>4, SumStep
<1>9. IsFiniteSet(Image(s)) /\ Image(s) \subseteq T
  <2>. DEFINE part == [x \in s |-> b[x]]
  <2>1. part \in Surjection(s, Image(s))
    BY DEF Surjection
  <2>2. Image(s) \subseteq T
    BY <1>1, <1>4
  <2>. HIDE DEF part, Image
  <2>. QED
    BY <1>4, <2>1, <2>2, FS_Surjection
<1>10. b[c] \in Image(s) /\ Image(s) \ {b[c]} = Image(r)
  BY <1>1, <1>4, <1>5
<1>11. SumFunctionOnSet(g, Image(s)) = g[b[c]] + SumFunctionOnSet(g, Image(s) \ {b[c]})
  <2>1. \A y \in Image(s) : g[y] \in Int
    BY <1>9
  <2>. HIDE DEF Image, c
  <2>. QED
    BY <1>9, <1>10, <2>1, SumWithout
<1>12. f[c] = g[b[c]]
  BY <1>4, <1>5
<1>. QED
  BY <1>7, <1>8, <1>10, <1>11, <1>12, Zenon

\* Figures taken one for one add up to the same.
OneForOne(S, T, f, g) ==
    /\ IsFiniteSet(S) /\ \A y \in T : g[y] \in Int
    /\ \E b \in Bijection(S, T) : \A x \in S : f[x] = g[b[x]]

LEMMA SumOneForOne ==
    \A S, T, f, g : OneForOne(S, T, f, g) => SumFunctionOnSet(f, S) = SumFunctionOnSet(g, T)
<1>. SUFFICES ASSUME NEW S, NEW T, NEW f, NEW g, OneForOne(S, T, f, g)
              PROVE  SumFunctionOnSet(f, S) = SumFunctionOnSet(g, T)
  OBVIOUS
<1>1. PICK b \in Bijection(S, T) : \A x \in S : f[x] = g[b[x]]
  BY DEF OneForOne
<1>2. IsFiniteSet(S) /\ \A y \in T : g[y] \in Int
  BY DEF OneForOne
<1>. QED
  BY <1>1, <1>2, SumAcross

\* A sum over two sets is taken over each.
THEOREM SumOfBoth ==
    ASSUME NEW f, NEW S, NEW T, IsFiniteSet(S), IsFiniteSet(T), S \cap T = {},
           \A x \in S \cup T : f[x] \in Int
    PROVE  SumFunctionOnSet(f, S \cup T) = SumFunctionOnSet(f, S) + SumFunctionOnSet(f, T)
<1>. DEFINE Bad == {s \in SUBSET S :
                       SumFunctionOnSet(f, s \cup T) # SumFunctionOnSet(f, s) + SumFunctionOnSet(f, T)}
<1>. SUFFICES ASSUME Bad # {}
              PROVE  FALSE
  BY Zenon
<1>1. PICK s \in Bad : \A u \in SUBSET s : u # s => u \notin Bad
  <2>. Bad \in SUBSET (SUBSET S)
    OBVIOUS
  <2>. HIDE DEF Bad
  <2>. QED
    BY SmallestSubset
<1>2. s \in SUBSET S /\ IsFiniteSet(s)
  BY FS_Subset
<1>3. SumFunctionOnSet(f, T) \in Int
  BY SumType
<1>4. s # {}
  <2>1. {} \cup T = T
    OBVIOUS
  <2>2. SumFunctionOnSet(f, {}) + SumFunctionOnSet(f, T) = SumFunctionOnSet(f, T)
    BY <1>3, SumOfNone
  <2>. QED
    BY <2>1, <2>2
<1>. DEFINE c == Chosen(s)
            r == s \ {c}
<1>5. c \in s /\ r \in SUBSET s /\ r # s /\ (s \cup T) \ {c} = r \cup T
  BY <1>2, <1>4, ChosenIn
<1>6. SumFunctionOnSet(f, r \cup T) = SumFunctionOnSet(f, r) + SumFunctionOnSet(f, T)
  BY <1>1, <1>2, <1>5
<1>7. SumFunctionOnSet(f, s) = f[c] + SumFunctionOnSet(f, r)
  BY <1>2, <1>4, SumStep
<1>8. SumFunctionOnSet(f, s \cup T) = f[c] + SumFunctionOnSet(f, (s \cup T) \ {c})
  <2>1. IsFiniteSet(s \cup T) /\ (\A x \in s \cup T : f[x] \in Int) /\ c \in s \cup T
    BY <1>2, <1>5, FS_Union
  <2>. HIDE DEF c
  <2>. QED
    BY <2>1, SumWithout
<1>9. f[c] \in Int /\ SumFunctionOnSet(f, r) \in Int
  <2>1. IsFiniteSet(r) /\ \A x \in r : f[x] \in Int
    BY <1>2, <1>5, FS_Subset
  <2>. HIDE DEF r
  <2>2. SumFunctionOnSet(f, r) \in Int
    BY <2>1, SumType
  <2>. QED
    BY <1>2, <1>5, <2>2
<1>10. SumFunctionOnSet(f, s \cup T) # SumFunctionOnSet(f, s) + SumFunctionOnSet(f, T)
  BY <1>1
<1>11. SumFunctionOnSet(f, s \cup T) = f[c] + (SumFunctionOnSet(f, r) + SumFunctionOnSet(f, T))
  BY <1>5, <1>6, <1>8
<1>. HIDE DEF c, r, Bad
<1>12. f[c] + (SumFunctionOnSet(f, r) + SumFunctionOnSet(f, T))
           = (f[c] + SumFunctionOnSet(f, r)) + SumFunctionOnSet(f, T)
  BY <1>3, <1>9
<1>. QED
  BY <1>7, <1>10, <1>11, <1>12

-----------------------------------------------------------------------------
(* Sequences put together. *)

LEMMA JoinTwo ==
    ASSUME NEW S, NEW a \in Seq(S), NEW b \in Seq(S)
    PROVE  /\ a \o b \in Seq(S)
           /\ Len(a \o b) = Len(a) + Len(b)
           /\ \A i \in 1..Len(a) : (a \o b)[i] = a[i]
           /\ \A i \in 1..Len(b) : (a \o b)[Len(a) + i] = b[i]
<1>1. Len(a) \in Nat /\ Len(b) \in Nat
  BY LenProperties
<1>2. /\ a \o b \in Seq(S) /\ Len(a \o b) = Len(a) + Len(b)
      /\ \A i \in 1 .. Len(a) + Len(b) : (a \o b)[i] = IF i <= Len(a) THEN a[i] ELSE b[i - Len(a)]
  BY ConcatProperties
<1>3. \A m, n \in Nat : /\ \A i \in 1..m : i \in 1..(m + n) /\ i <= m
                        /\ \A i \in 1..n : m + i \in 1..(m + n) /\ ~(m + i <= m) /\ (m + i) - m = i
  OBVIOUS
<1>. QED
  BY <1>1, <1>2, <1>3

\* Their length.
LEMMA LenOfJoin == \A S : \A a, b \in Seq(S) : Len(a \o b) = Len(a) + Len(b)
BY ConcatProperties

\* Three sequences one after the other.
LEMMA JoinThree ==
    ASSUME NEW S, NEW a \in Seq(S), NEW b \in Seq(S), NEW c \in Seq(S)
    PROVE  LET all == a \o b \o c
           IN  /\ all \in Seq(S) /\ Len(all) = Len(a) + Len(b) + Len(c)
               /\ \A i \in 1..Len(a) : all[i] = a[i]
               /\ \A i \in 1..Len(b) : all[Len(a) + i] = b[i]
               /\ \A i \in 1..Len(c) : all[Len(a) + Len(b) + i] = c[i]
<1>1. Len(a) \in Nat /\ Len(b) \in Nat
  BY LenProperties
<1>. DEFINE ab == a \o b
<1>2. /\ ab \in Seq(S) /\ Len(ab) = Len(a) + Len(b)
      /\ \A i \in 1..Len(a) : ab[i] = a[i]
      /\ \A i \in 1..Len(b) : ab[Len(a) + i] = b[i]
  BY JoinTwo
<1>3. \A m, n \in Nat : /\ \A i \in 1..m : i \in 1..(m + n)
                        /\ \A i \in 1..n : m + i \in 1..(m + n)
  OBVIOUS
<1>. HIDE DEF ab
<1>4. /\ ab \o c \in Seq(S)
      /\ Len(ab \o c) = Len(ab) + Len(c)
      /\ \A i \in 1..Len(ab) : (ab \o c)[i] = ab[i]
      /\ \A i \in 1..Len(c) : (ab \o c)[Len(ab) + i] = c[i]
  <2>1. ab \in Seq(S)
    BY <1>2
  <2>. QED
    BY <2>1, JoinTwo
<1>5. \A i \in 1..Len(a) : (ab \o c)[i] = a[i]
  BY <1>1, <1>2, <1>3, <1>4
<1>6. \A i \in 1..Len(b) : (ab \o c)[Len(a) + i] = b[i]
  BY <1>1, <1>2, <1>3, <1>4
<1>. QED
  BY <1>2, <1>4, <1>5, <1>6 DEF ab


\* Sequences of three and of four, put together from their parts.
LEMMA OneOneTwo ==
    ASSUME NEW a, NEW b, NEW c, NEW d, NEW s, s = <<a>> \o <<b>> \o <<c, d>>
    PROVE  Len(s) = 4 /\ s = [i \in 1..4 |-> s[i]] /\ s[1] = a /\ s[2] = b /\ s[3] = c /\ s[4] = d
<1>. DEFINE S == {a, b, c, d}
            A == <<a>>
            B == <<b>>
            C == <<c, d>>
<1>1. /\ A \in Seq(S) /\ Len(A) = 1 /\ A[1] = a
      /\ B \in Seq(S) /\ Len(B) = 1 /\ B[1] = b
      /\ C \in Seq(S) /\ Len(C) = 2 /\ C[1] = c /\ C[2] = d
  OBVIOUS
<1>2. s = A \o B \o C
  OBVIOUS
<1>. HIDE DEF S, A, B, C
<1>3. A \in Seq(S) /\ B \in Seq(S) /\ C \in Seq(S)
  BY <1>1
<1>4. /\ s \in Seq(S) /\ Len(s) = Len(A) + Len(B) + Len(C)
      /\ \A i \in 1..Len(A) : s[i] = A[i]
      /\ \A i \in 1..Len(B) : s[Len(A) + i] = B[i]
      /\ \A i \in 1..Len(C) : s[Len(A) + Len(B) + i] = C[i]
  <2>1. LET j == A \o B \o C
        IN  /\ j \in Seq(S) /\ Len(j) = Len(A) + Len(B) + Len(C)
            /\ \A i \in 1..Len(A) : j[i] = A[i]
            /\ \A i \in 1..Len(B) : j[Len(A) + i] = B[i]
            /\ \A i \in 1..Len(C) : j[Len(A) + Len(B) + i] = C[i]
    BY <1>3, JoinThree
  <2>. QED
    BY <1>2, <2>1, Zenon
<1>5. Len(s) = 4 /\ s[1] = a /\ s[2] = b /\ s[3] = c /\ s[4] = d
  BY <1>1, <1>4
<1>. QED
  BY <1>4, <1>5, LenProperties

LEMMA TwoOneOne ==
    ASSUME NEW a, NEW b, NEW c, NEW d, NEW s, s = <<a, b>> \o <<c>> \o <<d>>
    PROVE  Len(s) = 4 /\ s = [i \in 1..4 |-> s[i]] /\ s[1] = a /\ s[2] = b /\ s[3] = c /\ s[4] = d
<1>. DEFINE S == {a, b, c, d}
            A == <<a, b>>
            B == <<c>>
            C == <<d>>
<1>1. /\ A \in Seq(S) /\ Len(A) = 2 /\ A[1] = a /\ A[2] = b
      /\ B \in Seq(S) /\ Len(B) = 1 /\ B[1] = c
      /\ C \in Seq(S) /\ Len(C) = 1 /\ C[1] = d
  OBVIOUS
<1>2. s = A \o B \o C
  OBVIOUS
<1>. HIDE DEF S, A, B, C
<1>3. A \in Seq(S) /\ B \in Seq(S) /\ C \in Seq(S)
  BY <1>1
<1>4. /\ s \in Seq(S) /\ Len(s) = Len(A) + Len(B) + Len(C)
      /\ \A i \in 1..Len(A) : s[i] = A[i]
      /\ \A i \in 1..Len(B) : s[Len(A) + i] = B[i]
      /\ \A i \in 1..Len(C) : s[Len(A) + Len(B) + i] = C[i]
  <2>1. LET j == A \o B \o C
        IN  /\ j \in Seq(S) /\ Len(j) = Len(A) + Len(B) + Len(C)
            /\ \A i \in 1..Len(A) : j[i] = A[i]
            /\ \A i \in 1..Len(B) : j[Len(A) + i] = B[i]
            /\ \A i \in 1..Len(C) : j[Len(A) + Len(B) + i] = C[i]
    BY <1>3, JoinThree
  <2>. QED
    BY <1>2, <2>1, Zenon
<1>5. Len(s) = 4
  BY <1>1, <1>4
<1>6. s[1] = a /\ s[2] = b
  BY <1>1, <1>4
<1>7. s[3] = c /\ s[4] = d
  <2>1. 1 \in 1..Len(B) /\ 1 \in 1..Len(C) /\ Len(A) + 1 = 3 /\ Len(A) + Len(B) + 1 = 4
    BY <1>1
  <2>. QED
    BY <1>1, <1>4, <2>1, Zenon
<1>. QED
  BY <1>4, <1>5, <1>6, <1>7, LenProperties

LEMMA OneTwo ==
    ASSUME NEW a, NEW b, NEW c, NEW s, s = <<a>> \o <<>> \o <<b, c>>
    PROVE  Len(s) = 3 /\ s = [i \in 1..3 |-> s[i]] /\ s[1] = a /\ s[2] = b /\ s[3] = c
<1>. DEFINE S == {a, b, c}
            A == <<a>>
            B == <<b, c>>
<1>1. /\ A \in Seq(S) /\ Len(A) = 1 /\ A[1] = a
      /\ B \in Seq(S) /\ Len(B) = 2 /\ B[1] = b /\ B[2] = c
  OBVIOUS
<1>2. s = A \o <<>> \o B
  OBVIOUS
<1>. HIDE DEF S, A, B
<1>3. A \in Seq(S) /\ B \in Seq(S) /\ A \o <<>> = A
  BY <1>1, ConcatEmptySeq
<1>4. /\ s \in Seq(S) /\ Len(s) = Len(A) + Len(B)
      /\ \A i \in 1..Len(A) : s[i] = A[i]
      /\ \A i \in 1..Len(B) : s[Len(A) + i] = B[i]
  <2>1. s = A \o B
    BY <1>2, <1>3, Zenon
  <2>2. LET j == A \o B
        IN  /\ j \in Seq(S) /\ Len(j) = Len(A) + Len(B)
            /\ \A i \in 1..Len(A) : j[i] = A[i]
            /\ \A i \in 1..Len(B) : j[Len(A) + i] = B[i]
    BY <1>3, JoinTwo
  <2>. QED
    BY <2>1, <2>2, Zenon
<1>5. Len(s) = 3 /\ s[1] = a /\ s[2] = b /\ s[3] = c
  BY <1>1, <1>4
<1>. QED
  BY <1>4, <1>5, LenProperties

LEMMA TwoOne ==
    ASSUME NEW a, NEW b, NEW c, NEW s, s = <<a, b>> \o <<>> \o <<c>>
    PROVE  Len(s) = 3 /\ s = [i \in 1..3 |-> s[i]] /\ s[1] = a /\ s[2] = b /\ s[3] = c
<1>. DEFINE S == {a, b, c}
            A == <<a, b>>
            B == <<c>>
<1>1. /\ A \in Seq(S) /\ Len(A) = 2 /\ A[1] = a /\ A[2] = b
      /\ B \in Seq(S) /\ Len(B) = 1 /\ B[1] = c
  OBVIOUS
<1>2. s = A \o <<>> \o B
  OBVIOUS
<1>. HIDE DEF S, A, B
<1>3. A \in Seq(S) /\ B \in Seq(S) /\ A \o <<>> = A
  BY <1>1, ConcatEmptySeq
<1>4. /\ s \in Seq(S) /\ Len(s) = Len(A) + Len(B)
      /\ \A i \in 1..Len(A) : s[i] = A[i]
      /\ \A i \in 1..Len(B) : s[Len(A) + i] = B[i]
  <2>1. s = A \o B
    BY <1>2, <1>3, Zenon
  <2>2. LET j == A \o B
        IN  /\ j \in Seq(S) /\ Len(j) = Len(A) + Len(B)
            /\ \A i \in 1..Len(A) : j[i] = A[i]
            /\ \A i \in 1..Len(B) : j[Len(A) + i] = B[i]
    BY <1>3, JoinTwo
  <2>. QED
    BY <2>1, <2>2, Zenon
<1>5. Len(s) = 3 /\ s[1] = a /\ s[2] = b /\ s[3] = c
  BY <1>1, <1>4
<1>. QED
  BY <1>4, <1>5, LenProperties

-----------------------------------------------------------------------------
(* Quotients, multiples, maxima, and parts of a given size.                *)

\* Quotients, by a divisor that is not zero.
LEMMA Division ==
    \A a \in Nat, b \in Nat \ {0} :
        /\ a \div b \in Nat
        /\ \A k \in Nat : k * b <= a <=> k <= a \div b
<1>1. \A a \in Nat, b \in Nat \ {0} : a \div b \in Nat
  OBVIOUS
<1>2. \A a \in Nat, b \in Nat \ {0}, k \in Nat : k * b <= a => k <= a \div b
  OBVIOUS
<1>3. \A a \in Nat, b \in Nat \ {0}, k \in Nat : k <= a \div b => k * b <= a
  OBVIOUS
<1>. QED
  BY <1>1, <1>2, <1>3

LEMMA Multiples ==
    \A b \in Nat \ {0}, k \in Nat : (k * b) % b = 0 /\ (k * b) \div b = k
<1>1. \A b \in Nat \ {0}, k \in Nat : (k * b) % b = 0
  OBVIOUS
<1>2. \A b \in Nat \ {0}, k \in Nat : (k * b) \div b = k
  OBVIOUS
<1>. QED
  BY <1>1, <1>2

\* One more of the same is no less.
LEMMA MultiplesGrow ==
    \A b \in Nat, i, j \in Nat : i <= j => i * b <= j * b /\ i * b \in Nat /\ j * b \in Nat
OBVIOUS

LEMMA OneMore == \A b \in Nat, i \in Nat \ {0} : (i - 1) * b + b = i * b
OBVIOUS

LEMMA MultipleOf == \A b \in Nat \ {0}, s \in Nat : s % b = 0 => (s \div b) * b = s /\ s \div b \in Nat
OBVIOUS

LEMMA MultiplesAdd ==
    \A m \in Nat \ {0}, a, b \in Nat : a % m = 0 /\ b % m = 0 => (a + b) % m = 0
<1>. SUFFICES ASSUME NEW m \in Nat \ {0}, NEW a \in Nat, NEW b \in Nat, a % m = 0, b % m = 0
              PROVE  (a + b) % m = 0
  OBVIOUS
<1>. DEFINE j == a \div m
            k == b \div m
<1>1. j \in Nat /\ k \in Nat /\ j * m = a /\ k * m = b
  BY MultipleOf
<1>. HIDE DEF j, k
<1>2. j + k \in Nat /\ (j + k) * m = a + b
  BY <1>1
<1>3. ((j + k) * m) % m = 0
  <2>. DEFINE n == j + k
  <2>. HIDE DEF n
  <2>1. (n * m) % m = 0
    BY <1>2, Multiples DEF n
  <2>. QED
    BY <2>1 DEF n
<1>. QED
  BY <1>2, <1>3

\* The multiples of m that leave room for one more below M.
LEMMA MultiplesBelow ==
    ASSUME NEW m \in Nat \ {0}, NEW M \in Nat, m <= M
    PROVE  LET q == M \div m
           IN  /\ q \in Nat /\ q >= 1
               /\ \A k \in 0..(q - 1) :
                     k * m \in 0..(M - m) /\ (k * m) % m = 0 /\ (k * m) \div m = k
               /\ \A s \in 0..(M - m) :
                     s % m = 0 => s \div m \in 0..(q - 1) /\ (s \div m) * m = s
<1>. DEFINE q == M \div m
<1>1. q \in Nat /\ q >= 1
  <2>1. 1 \in Nat /\ 1 * m <= M
    OBVIOUS
  <2>2. q \in Nat /\ 1 <= q
    BY <2>1, Division, Zenon
  <2>. QED
    BY <2>2
<1>. HIDE DEF q
<1>2. ASSUME NEW k \in 0..(q - 1)
      PROVE  k * m \in 0..(M - m) /\ (k * m) % m = 0 /\ (k * m) \div m = k
  <2>1. k + 1 \in Nat /\ k + 1 <= q /\ k \in Nat
    BY <1>1
  <2>2. (k + 1) * m <= M
    BY <2>1, Division DEF q
  <2>3. (k + 1) * m = k * m + m /\ k * m \in Nat
    BY <2>1
  <2>4. k * m \in 0..(M - m)
    BY <2>2, <2>3
  <2>. QED
    BY <2>1, <2>4, Multiples
<1>3. ASSUME NEW s \in 0..(M - m), s % m = 0
      PROVE  s \div m \in 0..(q - 1) /\ (s \div m) * m = s
  <2>. DEFINE k == s \div m
  <2>1. k \in Nat /\ k * m = s
    BY <1>3, MultipleOf
  <2>. HIDE DEF k
  <2>2. (k + 1) * m = k * m + m /\ k + 1 \in Nat
    BY <2>1
  <2>3. (k + 1) * m <= M
    BY <2>1, <2>2
  <2>4. k + 1 <= q
    BY <2>2, <2>3, Division DEF q
  <2>5. k \in 0..(q - 1)
    BY <1>1, <2>1, <2>4
  <2>. QED
    BY <2>1, <2>5 DEF k
<1>. QED
  BY <1>1, <1>2, <1>3 DEF q

LEMMA MaxIs ==
    ASSUME NEW S \in SUBSET Int, NEW m \in S, \A x \in S : x <= m
    PROVE  Max(S) = m
<1>1. \A x \in S : m >= x
  OBVIOUS
<1>2. Max(S) \in S /\ \A y \in S : Max(S) >= y
  BY <1>1, Zenon DEF Max
<1>3. Max(S) >= m /\ m >= Max(S) /\ Max(S) \in Int /\ m \in Int
  BY <1>2
<1>. QED
  BY <1>3

\* A finite set of numbers has a greatest one: the one that is counted last.
LEMMA FiniteHasMax ==
    ASSUME NEW S \in SUBSET Int, IsFiniteSet(S), S # {}
    PROVE  Max(S) \in S
<1>. DEFINE below == [x \in S |-> {y \in S : y < x}]
            rank == [x \in S |-> Cardinality(below[x]) + 1]
            N == Cardinality(S)
<1>1. /\ below \in [S -> SUBSET S]
      /\ \A x \in S : x \notin below[x]
      /\ \A x, y \in S : x \in below[y] => below[x] \subseteq below[y]
      /\ \A x, y \in S : x # y => x \in below[y] \/ y \in below[x]
  <2>1. \A x, y \in S : x \in below[y] <=> x < y
    OBVIOUS
  <2>2. below \in [S -> SUBSET S]
    OBVIOUS
  <2>3. S \subseteq Int
    OBVIOUS
  <2>. HIDE DEF below
  <2>4. ASSUME NEW x \in S, NEW y \in S, x \in below[y], NEW z \in below[x]
        PROVE  z \in below[y]
    <3>1. z \in S /\ x \in Int /\ y \in Int
      BY <2>2, <2>3
    <3>2. z \in Int /\ x < y /\ z < x
      BY <2>1, <2>3, <2>4, <3>1
    <3>3. z < y
      BY <3>1, <3>2
    <3>. QED
      BY <2>1, <3>1, <3>3
  <2>5. \A x, y \in S : ~(x < x) /\ (x # y => x < y \/ y < x)
    BY <2>3
  <2>. QED
    BY <2>1, <2>2, <2>4, <2>5
<1>. HIDE DEF below
<1>2. /\ N \in Nat
      /\ rank \in Bijection(S, 1..N)
      /\ \A x, y \in S : x \in below[y] <=> rank[x] < rank[y]
  BY <1>1, RankTheorem
<1>3. N # 0
  BY FS_EmptySet
<1>. HIDE DEF rank, N
<1>4. PICK m \in S : rank[m] = N
  <2>1. N \in 1..N
    BY <1>2, <1>3
  <2>. QED
    BY <1>2, <2>1 DEF Bijection, Surjection
<1>5. \A x \in S : rank[x] \in 1..N
  BY <1>2 DEF Bijection, Injection
<1>6. ASSUME NEW x \in S
      PROVE  x <= m
  <2>1. ~(rank[m] < rank[x])
    BY <1>2, <1>4, <1>5
  <2>2. m \notin below[x]
    BY <1>2, <2>1
  <2>. QED
    BY <2>2 DEF below
<1>. QED
  BY <1>6, MaxIs

\* A finite set has subsets of every size up to its own.
LEMMA SubsetOfSize ==
    ASSUME NEW S, IsFiniteSet(S), NEW k \in Nat, k <= Cardinality(S)
    PROVE  \E T \in SUBSET S : Cardinality(T) = k
<1>. DEFINE n == Cardinality(S)
<1>1. n \in Nat
  BY FS_CardinalityType
<1>2. PICK f \in [1..n -> S] : f \in Bijection(1..n, S)
  <2>1. ExistsBijection(1..n, S)
    BY FS_CardinalityType
  <2>. QED
    BY <2>1 DEF ExistsBijection, Bijection, Injection
<1>. HIDE DEF n
<1>. DEFINE T == {f[i] : i \in 1..k}
            b == [i \in 1..k |-> f[i]]
<1>3. \A i \in 1..k : i \in 1..n
  BY <1>1 DEF n
<1>4. T \in SUBSET S
  BY <1>2, <1>3
<1>5. b \in Bijection(1..k, T)
  BY <1>2, <1>3 DEF Bijection, Injection, Surjection, IsInjective
<1>6. IsFiniteSet(1..k) /\ Cardinality(1..k) = k
  BY FS_Interval
<1>. HIDE DEF T, b
<1>7. Cardinality(T) = k
  BY <1>5, <1>6, FS_Bijection DEF ExistsBijection
<1>. QED
  BY <1>4, <1>7

-----------------------------------------------------------------------------
(* Sequences of sequences, one after the other.                             *)

\* Of some numbers there is a smallest.
LEMMA SmallestNumber ==
    ASSUME NEW n \in Nat, NEW Bad \in SUBSET (0..n), Bad # {}
    PROVE  \E k \in Bad : \A j \in 0..n : j < k => j \notin Bad
<1>. DEFINE Upto(k) == 0..k
            Bads == {Upto(k) : k \in Bad}
<1>1. IsFiniteSet(0..n)
  BY FS_Interval
<1>2. Bads \in SUBSET (SUBSET (0..n)) /\ Bads # {}
  <2>1. \A k \in Bad : Upto(k) \subseteq 0..n
    OBVIOUS
  <2>. HIDE DEF Upto
  <2>. QED
    BY <2>1
<1>3. PICK s \in Bads : \A u \in SUBSET s : u # s => u \notin Bads
  <2>. HIDE DEF Bads
  <2>. QED
    BY <1>1, <1>2, SmallestSubset
<1>4. PICK k \in Bad : s = Upto(k)
  OBVIOUS
<1>5. ASSUME NEW j \in 0..n, j < k, j \in Bad
      PROVE  FALSE
  <2>1. Upto(j) \in SUBSET s /\ Upto(j) # s
    BY <1>4, <1>5
  <2>. QED
    BY <1>3, <1>5, <2>1
<1>. QED
  BY <1>5

LEMMA JoinedSet ==
    ASSUME NEW S, NEW a \in Seq(S), NEW b \in Seq(S)
    PROVE  ToSet(a \o b) = ToSet(a) \cup ToSet(b)
<1>1. Len(a) \in Nat /\ Len(b) \in Nat /\ DOMAIN a = 1..Len(a) /\ DOMAIN b = 1..Len(b)
  BY LenProperties
<1>2. /\ a \o b \in Seq(S) /\ Len(a \o b) = Len(a) + Len(b)
      /\ \A i \in 1..Len(a) : (a \o b)[i] = a[i]
      /\ \A i \in 1..Len(b) : (a \o b)[Len(a) + i] = b[i]
  BY JoinTwo
<1>. DEFINE c == a \o b
<1>3. DOMAIN c = 1..(Len(a) + Len(b))
  BY <1>2, LenProperties
<1>4. \A m, n \in Nat : \A i \in 1..(m + n) : i \in 1..m \/ (i - m \in 1..n /\ i = m + (i - m))
  OBVIOUS
<1>5. \A m, n \in Nat : /\ \A i \in 1..m : i \in 1..(m + n)
                        /\ \A i \in 1..n : m + i \in 1..(m + n)
  OBVIOUS
<1>. HIDE DEF c
<1>6. ASSUME NEW x \in ToSet(c)
      PROVE  x \in ToSet(a) \cup ToSet(b)
  <2>1. PICK i \in 1..(Len(a) + Len(b)) : c[i] = x
    BY <1>3 DEF ToSet
  <2>2. CASE i \in 1..Len(a)
    BY <1>1, <1>2, <2>1, <2>2 DEF ToSet, c
  <2>3. CASE i - Len(a) \in 1..Len(b) /\ i = Len(a) + (i - Len(a))
    <3>1. c[i] = b[i - Len(a)]
      BY <1>2, <2>3 DEF c
    <3>. QED
      BY <1>1, <2>1, <2>3, <3>1 DEF ToSet
  <2>. QED
    BY <1>1, <1>4, <2>2, <2>3
<1>7. ASSUME NEW x \in ToSet(a)
      PROVE  x \in ToSet(c)
  <2>1. PICK i \in 1..Len(a) : a[i] = x
    BY <1>1 DEF ToSet
  <2>2. i \in DOMAIN c /\ c[i] = x
    BY <1>1, <1>2, <1>3, <1>5, <2>1 DEF c
  <2>. QED
    BY <2>2 DEF ToSet
<1>8. ASSUME NEW x \in ToSet(b)
      PROVE  x \in ToSet(c)
  <2>1. PICK i \in 1..Len(b) : b[i] = x
    BY <1>1 DEF ToSet
  <2>2. Len(a) + i \in DOMAIN c /\ c[Len(a) + i] = x
    BY <1>1, <1>2, <1>3, <1>5, <2>1 DEF c
  <2>. QED
    BY <2>2 DEF ToSet
<1>. QED
  BY <1>6, <1>7, <1>8 DEF c

\* f holds what the first i of ss give when they are put one after the other.
Flattens(f, ss, n) == f = [i \in 1..n |-> IF i = 1 THEN ss[i] ELSE f[i - 1] \o ss[i]]

LEMMA FlattenIsChosen ==
    \A ss : Len(ss) # 0 => FlattenSeq(ss) = (CHOOSE f : Flattens(f, ss, Len(ss)))[Len(ss)]
BY Zenon DEF FlattenSeq, Flattens

LEMMA FlattensExist ==
    ASSUME NEW ss, NEW n \in Nat
    PROVE  \E f : Flattens(f, ss, n)
<1>. DEFINE Bad == {k \in 0..n : ~ \E f : Flattens(f, ss, k)}
<1>. SUFFICES ASSUME Bad # {}
              PROVE  FALSE
  OBVIOUS
<1>1. PICK k \in Bad : \A j \in 0..n : j < k => j \notin Bad
  <2>. Bad \in SUBSET (0..n)
    OBVIOUS
  <2>. HIDE DEF Bad
  <2>. QED
    BY SmallestNumber
<1>2. k \in 0..n /\ ~ \E f : Flattens(f, ss, k)
  OBVIOUS
<1>3. CASE k = 0
  <2>1. <<>> = [i \in 1..0 |-> IF i = 1 THEN ss[i] ELSE <<>>[i - 1] \o ss[i]]
    OBVIOUS
  <2>. QED
    BY <1>2, <1>3, <2>1 DEF Flattens
<1>4. CASE k # 0
  <2>1. k - 1 \in 0..n /\ k - 1 < k
    BY <1>2, <1>4
  <2>2. PICK f : Flattens(f, ss, k - 1)
    BY <1>1, <2>1
  <2>. DEFINE g == [i \in 1..k |-> IF i < k THEN f[i] ELSE IF k = 1 THEN ss[k] ELSE f[k - 1] \o ss[k]]
  <2>3. ASSUME NEW i \in 1..k
        PROVE  g[i] = IF i = 1 THEN ss[i] ELSE g[i - 1] \o ss[i]
    <3>1. CASE i = k
      <4>1. k # 1 => k - 1 \in 1..k /\ k - 1 < k
        BY <1>2, <1>4
      <4>. QED
        BY <3>1, <4>1
    <3>2. CASE i # k
      <4>1. i < k /\ i \in 1..(k - 1)
        BY <1>2, <3>2
      <4>2. f[i] = IF i = 1 THEN ss[i] ELSE f[i - 1] \o ss[i]
        BY <2>2, <4>1, Zenon DEF Flattens
      <4>3. i # 1 => i - 1 \in 1..k /\ i - 1 < k
        BY <4>1, <1>2
      <4>. QED
        BY <4>1, <4>2, <4>3
    <3>. QED
      BY <3>1, <3>2
  <2>4. g = [i \in 1..k |-> g[i]]
    OBVIOUS
  <2>. HIDE DEF g
  <2>5. Flattens(g, ss, k)
    BY <2>3, <2>4, Zenon DEF Flattens
  <2>. QED
    BY <1>2, <2>5
<1>. QED
  BY <1>3, <1>4

LEMMA FlattenStep ==
    ASSUME NEW ss, NEW n \in Nat, NEW f, Flattens(f, ss, n), NEW i \in 1..n
    PROVE  /\ i = 1 => f[i] = ss[i]
           /\ i # 1 => f[i] = f[i - 1] \o ss[i]
BY Zenon DEF Flattens

\* What is put one after the other is what there was.
THEOREM Flattened ==
    ASSUME NEW S, NEW ss \in Seq(Seq(S))
    PROVE  /\ FlattenSeq(ss) \in Seq(S)
           /\ ToSet(FlattenSeq(ss)) = UNION {ToSet(ss[i]) : i \in DOMAIN ss}
<1>. DEFINE n == Len(ss)
            Upto(k) == UNION {ToSet(ss[i]) : i \in 1..k}
<1>1. n \in Nat /\ DOMAIN ss = 1..n /\ \A i \in 1..n : ss[i] \in Seq(S)
  BY LenProperties, ElementOfSeq
<1>2. CASE n = 0
  <2>1. FlattenSeq(ss) = ss /\ ss = <<>>
    BY <1>1, <1>2, EmptySeq, Zenon DEF FlattenSeq
  <2>2. <<>> \in Seq(S) /\ ToSet(<<>>) = {}
    BY DEF ToSet
  <2>. QED
    BY <1>1, <1>2, <2>1, <2>2
<1>3. CASE n # 0
  <2>1. PICK f : Flattens(f, ss, n) /\ FlattenSeq(ss) = f[n]
    <3>1. Flattens(CHOOSE f : Flattens(f, ss, n), ss, n)
      BY <1>1, FlattensExist
    <3>. QED
      BY <1>3, <3>1, FlattenIsChosen
  <2>0. \A i \in 1..n : (i = 1 => f[i] = ss[i]) /\ (i # 1 => f[i] = f[i - 1] \o ss[i])
    <3>. HIDE DEF n
    <3>. QED
      BY <1>1, <2>1, FlattenStep
  <2>. DEFINE Good(k) == f[k] \in Seq(S) /\ ToSet(f[k]) = Upto(k)
              Bad == {k \in 0..n : k # 0 /\ ~Good(k)}
  <2>. HIDE DEF n
  <2>2. ASSUME Bad # {}
        PROVE  FALSE
    <3>1. PICK k \in Bad : \A j \in 0..n : j < k => j \notin Bad
      <4>. Bad \in SUBSET (0..n)
        OBVIOUS
      <4>. HIDE DEF Bad
      <4>. QED
        BY <1>1, <2>2, SmallestNumber
    <3>2. k \in 1..n /\ ~Good(k)
      BY <1>1
    <3>3. CASE k = 1
      <4>1. f[k] = ss[k]
        BY <2>0, <3>2, <3>3
      <4>2. Upto(k) = ToSet(ss[k])
        BY <3>3
      <4>. QED
        BY <1>1, <3>2, <4>1, <4>2
    <3>4. CASE k # 1
      <4>1. f[k] = f[k - 1] \o ss[k]
        BY <2>0, <3>2, <3>4
      <4>2. k - 1 \in 0..n /\ k - 1 < k /\ k - 1 # 0
        BY <1>1, <3>2, <3>4
      <4>3. Good(k - 1)
        BY <3>1, <4>2
      <4>4. f[k] \in Seq(S) /\ ToSet(f[k]) = ToSet(f[k - 1]) \cup ToSet(ss[k])
        <5>1. f[k - 1] \in Seq(S) /\ ss[k] \in Seq(S)
          BY <1>1, <3>2, <4>3
        <5>. QED
          BY <4>1, <5>1, JoinedSet, JoinTwo
      <4>5. Upto(k) = Upto(k - 1) \cup ToSet(ss[k])
        <5>1. 1..k = (1..(k - 1)) \cup {k}
          BY <1>1, <3>2
        <5>. QED
          BY <5>1
      <4>. QED
        BY <3>2, <4>3, <4>4, <4>5
    <3>. QED
      BY <3>3, <3>4
  <2>3. Good(n)
    <3>1. n \in 0..n
      BY <1>1
    <3>. QED
      BY <1>3, <2>2, <3>1
  <2>. QED
    BY <1>1, <2>1, <2>3
<1>. QED
  BY <1>2, <1>3

LEMMA SetOfOne ==
    ASSUME NEW S, NEW x \in S
    PROVE  <<x>> \in Seq(S) /\ ToSet(<<x>>) = {x}
<1>1. <<x>> \in Seq(S) /\ DOMAIN <<x>> = {1} /\ <<x>>[1] = x
  OBVIOUS
<1>. HIDE <1>1
<1>. QED
  BY <1>1 DEF ToSet

LEMMA ElementsAreFinite ==
    ASSUME NEW S, NEW s \in Seq(S)
    PROVE  IsFiniteSet(ToSet(s))
<1>1. DOMAIN s = 1..Len(s) /\ Len(s) \in Nat
  BY LenProperties
<1>2. s \in Surjection(1..Len(s), ToSet(s))
  <2>1. s \in [1..Len(s) -> ToSet(s)]
    BY <1>1 DEF ToSet
  <2>2. \A x \in ToSet(s) : \E i \in 1..Len(s) : s[i] = x
    BY <1>1 DEF ToSet
  <2>. QED
    BY <2>1, <2>2 DEF Surjection
<1>3. IsFiniteSet(1..Len(s))
  BY <1>1, FS_Interval
<1>. QED
  BY <1>2, <1>3, FS_Surjection

\* Of some numbers there is a largest.
LEMMA MaxIsThere ==
    ASSUME NEW n \in Nat, NEW F \in SUBSET (1..n), F # {}
    PROVE  Max(F) \in F /\ \A i \in F : i <= Max(F)
<1>. DEFINE Mirror == {n - i : i \in F}
<1>1. Mirror \in SUBSET (0..n) /\ Mirror # {}
  <2>1. \A i \in F : n - i \in 0..n
    OBVIOUS
  <2>. QED
    BY <2>1
<1>2. PICK k \in Mirror : \A j \in 0..n : j < k => j \notin Mirror
  <2>. HIDE DEF Mirror
  <2>. QED
    BY <1>1, SmallestNumber
<1>3. PICK m \in F : k = n - m
  OBVIOUS
<1>4. \A i \in F : i <= m
  <2>. SUFFICES ASSUME NEW i \in F, ~(i <= m)
                PROVE  FALSE
    OBVIOUS
  <2>1. n - i \in Mirror /\ n - i \in 0..n /\ n - i < k
    BY <1>3
  <2>. QED
    BY <1>2, <2>1
<1>5. Max(F) = m
  <2>1. F \in SUBSET Int
    OBVIOUS
  <2>. QED
    BY <1>4, <2>1, MaxIs
<1>. QED
  BY <1>4, <1>5

\* The chunk that holds the k-th of so many.
LEMMA ChunkOf ==
    ASSUME NEW size \in Nat \ {0}, NEW len \in Nat, NEW k \in 1..len
    PROVE  LET i == ((k - 1) \div size) + 1
           IN  /\ i \in 1..((len + size - 1) \div size)
               /\ (i - 1) * size + 1 <= k /\ k <= i * size
<1>. DEFINE q == (k - 1) \div size
            n == (len + size - 1) \div size
<1>1. k - 1 \in Nat /\ len + size - 1 \in Nat /\ k \in Nat /\ k <= len
  OBVIOUS
<1>2. q \in Nat /\ n \in Nat
  BY <1>1, Division, Zenon
<1>3. q * size <= k - 1
  BY <1>1, <1>2, Division
<1>4. ~((q + 1) * size <= k - 1)
  <2>1. q + 1 \in Nat /\ ~(q + 1 <= q)
    BY <1>2
  <2>. QED
    BY <1>1, <2>1, Division
<1>. HIDE DEF q, n
<1>5. (q + 1) * size = q * size + size /\ q * size \in Nat
  BY <1>2
<1>6. (q + 1) * size <= len + size - 1
  BY <1>1, <1>3, <1>5
<1>7. q + 1 <= n
  <2>1. q + 1 \in Nat
    BY <1>2
  <2>. QED
    BY <1>1, <1>6, <2>1, Division DEF n
<1>8. q + 1 \in 1..n /\ (q + 1) - 1 = q
  BY <1>2, <1>7
<1>9. (q + 1) * size \in Nat /\ q * size + 1 <= k /\ k <= (q + 1) * size
  BY <1>1, <1>3, <1>4, <1>5
<1>. QED
  BY <1>8, <1>9 DEF q, n

-----------------------------------------------------------------------------
(* Sequences without repetition, and counting what is apart.                *)

\* A sequence without repetition is as long as it has elements.
LEMMA OnceIsCounted ==
    ASSUME NEW S, NEW s \in Seq(S), IsInjective(s)
    PROVE  IsFiniteSet(ToSet(s)) /\ Cardinality(ToSet(s)) = Len(s)
<1>1. DOMAIN s = 1..Len(s) /\ Len(s) \in Nat
  BY LenProperties
<1>2. s \in Bijection(1..Len(s), ToSet(s))
  <2>1. s \in [1..Len(s) -> ToSet(s)]
    BY <1>1 DEF ToSet
  <2>2. \A x \in ToSet(s) : \E i \in 1..Len(s) : s[i] = x
    BY <1>1 DEF ToSet
  <2>3. \A i, j \in 1..Len(s) : s[i] = s[j] => i = j
    BY <1>1 DEF IsInjective
  <2>. QED
    BY <2>1, <2>2, <2>3 DEF Bijection, Injection, Surjection, IsInjective
<1>3. IsFiniteSet(1..Len(s)) /\ Cardinality(1..Len(s)) = Len(s)
  BY <1>1, FS_Interval
<1>4. ExistsBijection(1..Len(s), ToSet(s))
  BY <1>2 DEF ExistsBijection
<1>. QED
  BY <1>3, <1>4, FS_Bijection

LEMMA JoinedOnce ==
    ASSUME NEW S, NEW a \in Seq(S), NEW b \in Seq(S), IsInjective(a), IsInjective(b),
           ToSet(a) \cap ToSet(b) = {}
    PROVE  IsInjective(a \o b)
<1>1. Len(a) \in Nat /\ Len(b) \in Nat /\ DOMAIN a = 1..Len(a) /\ DOMAIN b = 1..Len(b)
  BY LenProperties
<1>. DEFINE c == a \o b
            m == Len(a)
            n == Len(b)
<1>2. /\ c \in Seq(S) /\ Len(c) = m + n
      /\ \A i \in 1..m : c[i] = a[i]
      /\ \A i \in 1..n : c[m + i] = b[i]
  BY JoinTwo
<1>3. DOMAIN c = 1..(m + n)
  BY <1>2, LenProperties
<1>4. \A i \in 1..(m + n) : i \in 1..m \/ (i - m \in 1..n /\ i = m + (i - m))
  BY <1>1
<1>. HIDE DEF c, m, n
<1>5. \A i \in 1..m : c[i] = a[i] /\ a[i] \in ToSet(a)
  BY <1>1, <1>2 DEF ToSet, m
<1>6. \A i \in 1..(m + n) : i \notin 1..m => i - m \in 1..n /\ c[i] = b[i - m] /\ b[i - m] \in ToSet(b)
  <2>1. \A i \in 1..n : c[m + i] = b[i] /\ b[i] \in ToSet(b)
    BY <1>1, <1>2 DEF ToSet, n
  <2>. QED
    BY <1>4, <2>1
<1>7. \A i, j \in 1..m : a[i] = a[j] => i = j
  BY <1>1 DEF IsInjective, m
<1>8. \A i, j \in 1..n : b[i] = b[j] => i = j
  BY <1>1 DEF IsInjective, n
<1>9. ASSUME NEW i \in 1..(m + n), NEW j \in 1..(m + n), c[i] = c[j]
      PROVE  i = j
  <2>1. CASE i \in 1..m /\ j \in 1..m
    BY <1>5, <1>7, <1>9, <2>1
  <2>2. CASE i \notin 1..m /\ j \notin 1..m
    <3>1. i - m = j - m
      BY <1>6, <1>8, <1>9, <2>2
    <3>2. m \in Nat /\ n \in Nat
      BY <1>1 DEF m, n
    <3>. QED
      BY <3>1, <3>2
  <2>3. CASE i \in 1..m /\ j \notin 1..m
    BY <1>5, <1>6, <1>9, <2>3
  <2>4. CASE i \notin 1..m /\ j \in 1..m
    BY <1>5, <1>6, <1>9, <2>4
  <2>. QED
    BY <2>1, <2>2, <2>3, <2>4
<1>. QED
  BY <1>3, <1>9 DEF IsInjective, c

\* The parts of a sequence of sequences have nothing in common and repeat nothing.
Apart(ss) ==
    /\ \A i \in DOMAIN ss : IsInjective(ss[i])
    /\ \A i, j \in DOMAIN ss : i # j => ToSet(ss[i]) \cap ToSet(ss[j]) = {}

\* Put one after the other they repeat nothing either.
THEOREM FlattenedOnce ==
    ASSUME NEW S, NEW ss \in Seq(Seq(S)), Apart(ss)
    PROVE  IsInjective(FlattenSeq(ss))
<1>. DEFINE n == Len(ss)
            Upto(k) == UNION {ToSet(ss[i]) : i \in 1..k}
<1>1. n \in Nat /\ DOMAIN ss = 1..n /\ \A i \in 1..n : ss[i] \in Seq(S)
  BY LenProperties, ElementOfSeq
<1>2. CASE n = 0
  <2>1. FlattenSeq(ss) = ss
    BY <1>2, Zenon DEF FlattenSeq
  <2>. QED
    BY <1>1, <1>2, <2>1 DEF IsInjective
<1>3. CASE n # 0
  <2>1. PICK f : Flattens(f, ss, n) /\ FlattenSeq(ss) = f[n]
    <3>1. Flattens(CHOOSE f : Flattens(f, ss, n), ss, n)
      BY <1>1, FlattensExist
    <3>. QED
      BY <1>3, <3>1, FlattenIsChosen
  <2>0. \A i \in 1..n : (i = 1 => f[i] = ss[i]) /\ (i # 1 => f[i] = f[i - 1] \o ss[i])
    <3>. HIDE DEF n
    <3>. QED
      BY <1>1, <2>1, FlattenStep
  <2>. DEFINE Good(k) == f[k] \in Seq(S) /\ ToSet(f[k]) = Upto(k) /\ IsInjective(f[k])
              Bad == {k \in 0..n : k # 0 /\ ~Good(k)}
  <2>. HIDE DEF n
  <2>2. ASSUME Bad # {}
        PROVE  FALSE
    <3>1. PICK k \in Bad : \A j \in 0..n : j < k => j \notin Bad
      <4>. Bad \in SUBSET (0..n)
        OBVIOUS
      <4>. HIDE DEF Bad
      <4>. QED
        BY <1>1, <2>2, SmallestNumber
    <3>2. k \in 1..n /\ ~Good(k)
      BY <1>1
    <3>3. CASE k = 1
      <4>1. f[k] = ss[k]
        BY <2>0, <3>2, <3>3
      <4>2. Upto(k) = ToSet(ss[k])
        BY <3>3
      <4>. QED
        BY <1>1, <3>2, <4>1, <4>2 DEF Apart
    <3>4. CASE k # 1
      <4>1. f[k] = f[k - 1] \o ss[k]
        BY <2>0, <3>2, <3>4
      <4>2. k - 1 \in 0..n /\ k - 1 < k /\ k - 1 # 0
        BY <1>1, <3>2, <3>4
      <4>3. Good(k - 1)
        BY <3>1, <4>2
      <4>4. \A i \in 1..(k - 1) : i \in DOMAIN ss /\ i # k
        BY <1>1, <3>2
      <4>5. Upto(k - 1) \cap ToSet(ss[k]) = {}
        BY <1>1, <3>2, <4>4 DEF Apart
      <4>6. IsInjective(ss[k])
        BY <1>1, <3>2 DEF Apart
      <4>7. f[k] \in Seq(S) /\ ToSet(f[k]) = ToSet(f[k - 1]) \cup ToSet(ss[k]) /\ IsInjective(f[k])
        <5>1. /\ f[k - 1] \in Seq(S) /\ ss[k] \in Seq(S) /\ IsInjective(f[k - 1])
              /\ ToSet(f[k - 1]) \cap ToSet(ss[k]) = {}
          BY <1>1, <3>2, <4>3, <4>5
        <5>. HIDE DEF Good, Upto, Bad
        <5>2. IsInjective(f[k - 1] \o ss[k])
          BY <4>6, <5>1, JoinedOnce
        <5>3. f[k - 1] \o ss[k] \in Seq(S) /\ ToSet(f[k - 1] \o ss[k]) = ToSet(f[k - 1]) \cup ToSet(ss[k])
          BY <5>1, JoinedSet, JoinTwo
        <5>. QED
          BY <4>1, <5>2, <5>3
      <4>8. Upto(k) = Upto(k - 1) \cup ToSet(ss[k])
        <5>1. 1..k = (1..(k - 1)) \cup {k}
          BY <1>1, <3>2
        <5>. QED
          BY <5>1
      <4>. QED
        BY <3>2, <4>3, <4>7, <4>8
    <3>. QED
      BY <3>3, <3>4
  <2>3. Good(n)
    <3>1. n \in 0..n
      BY <1>1
    <3>. QED
      BY <1>3, <2>2, <3>1
  <2>. QED
    BY <2>1, <2>3
<1>. QED
  BY <1>2, <1>3

\* What sets that have nothing in common hold together is the sum of what each holds.
THEOREM CountedApart ==
    ASSUME NEW F, IsFiniteSet(F), NEW c, NEW f,
           \A x \in F : IsFiniteSet(c[x]) /\ f[x] = Cardinality(c[x]),
           \A x, y \in F : x # y => c[x] \cap c[y] = {}
    PROVE  /\ IsFiniteSet(UNION {c[x] : x \in F})
           /\ SumFunctionOnSet(f, F) = Cardinality(UNION {c[x] : x \in F})
<1>. DEFINE Every(s) == UNION {c[x] : x \in s}
            Good(s) == IsFiniteSet(Every(s)) /\ SumFunctionOnSet(f, s) = Cardinality(Every(s))
            Bad == {s \in SUBSET F : ~Good(s)}
<1>. SUFFICES ASSUME Bad # {}
              PROVE  FALSE
  OBVIOUS
<1>1. PICK s \in Bad : \A u \in SUBSET s : u # s => u \notin Bad
  <2>. Bad \in SUBSET (SUBSET F)
    OBVIOUS
  <2>. HIDE DEF Bad
  <2>. QED
    BY SmallestSubset
<1>2. s \in SUBSET F /\ IsFiniteSet(s) /\ ~Good(s)
  BY FS_Subset
<1>3. CASE s = {}
  <2>1. Every(s) = {}
    BY <1>3
  <2>. QED
    BY <1>2, <1>3, <2>1, SumOfNone, FS_EmptySet
<1>4. CASE s # {}
  <2>. DEFINE x == Chosen(s)
              r == s \ {x}
  <2>1. x \in s /\ r \in SUBSET s /\ r # s
    BY <1>4, ChosenIn
  <2>2. Good(r)
    BY <1>1, <1>2, <2>1
  <2>3. SumFunctionOnSet(f, s) = f[x] + SumFunctionOnSet(f, r)
    BY <1>2, <1>4, SumStep
  <2>. HIDE DEF x
  <2>4. x \in F /\ IsFiniteSet(c[x]) /\ f[x] = Cardinality(c[x])
    BY <1>2, <2>1
  <2>5. Every(s) = Every(r) \cup c[x]
    BY <2>1
  <2>6. Every(r) \cap c[x] = {}
    <3>1. \A y \in r : y \in F /\ y # x
      BY <1>2
    <3>. QED
      BY <2>4, <3>1
  <2>. HIDE DEF Every, r
  <2>7. /\ IsFiniteSet(Every(r) \cup c[x])
        /\ Cardinality(Every(r) \cup c[x]) = Cardinality(Every(r)) + Cardinality(c[x]) - Cardinality(Every(r) \cap c[x])
    BY <2>2, <2>4, FS_Union
  <2>8. Cardinality(Every(r)) \in Nat /\ Cardinality(c[x]) \in Nat /\ Cardinality(Every(r) \cap c[x]) = 0
    BY <2>2, <2>4, <2>6, FS_CardinalityType, FS_EmptySet
  <2>. QED
    BY <1>2, <2>2, <2>3, <2>4, <2>5, <2>7, <2>8
<1>. QED
  BY <1>3, <1>4

\* f counts what each of the sets c holds, and the sets have nothing in common.
CountsApart(F, c, f) ==
    /\ IsFiniteSet(F)
    /\ \A x \in F : IsFiniteSet(c[x]) /\ f[x] = Cardinality(c[x])
    /\ \A x, y \in F : x # y => c[x] \cap c[y] = {}

LEMMA CountsOfAll ==
    \A F, c, f : CountsApart(F, c, f) =>
        /\ IsFiniteSet(UNION {c[x] : x \in F})
        /\ SumFunctionOnSet(f, F) = Cardinality(UNION {c[x] : x \in F})
<1>. SUFFICES ASSUME NEW F, NEW c, NEW f, CountsApart(F, c, f)
              PROVE  /\ IsFiniteSet(UNION {c[x] : x \in F})
                     /\ SumFunctionOnSet(f, F) = Cardinality(UNION {c[x] : x \in F})
  OBVIOUS
<1>1. /\ IsFiniteSet(F)
      /\ \A x \in F : IsFiniteSet(c[x]) /\ f[x] = Cardinality(c[x])
      /\ \A x, y \in F : x # y => c[x] \cap c[y] = {}
  BY DEF CountsApart
<1>. QED
  BY <1>1, CountedApart

\* The sum of multiples of m is one.
THEOREM SumOfMultiples ==
    ASSUME NEW m \in Nat \ {0}, NEW f, NEW T, IsFiniteSet(T),
           \A x \in T : f[x] \in Nat /\ f[x] % m = 0
    PROVE  SumFunctionOnSet(f, T) \in Nat /\ SumFunctionOnSet(f, T) % m = 0
<1>. DEFINE Good(s) == SumFunctionOnSet(f, s) \in Nat /\ SumFunctionOnSet(f, s) % m = 0
            Bad == {s \in SUBSET T : ~Good(s)}
<1>. SUFFICES ASSUME Bad # {}
              PROVE  FALSE
  BY Zenon
<1>1. PICK s \in Bad : \A u \in SUBSET s : u # s => u \notin Bad
  <2>. Bad \in SUBSET (SUBSET T)
    OBVIOUS
  <2>. HIDE DEF Bad
  <2>. QED
    BY SmallestSubset
<1>2. s \in SUBSET T /\ IsFiniteSet(s) /\ ~Good(s)
  BY FS_Subset
<1>3. s # {}
  <2>1. SumFunctionOnSet(f, {}) = 0 /\ 0 % m = 0
    BY SumOfNone
  <2>. QED
    BY <1>2, <2>1
<1>. DEFINE r == s \ {Chosen(s)}
<1>4. Chosen(s) \in s
  BY <1>3, ChosenIn
<1>5. Good(r)
  BY <1>1, <1>2, <1>4
<1>6. SumFunctionOnSet(f, s) = f[Chosen(s)] + SumFunctionOnSet(f, r)
  BY <1>2, <1>3, SumStep
<1>7. f[Chosen(s)] \in Nat /\ f[Chosen(s)] % m = 0
  BY <1>2, <1>4
<1>. DEFINE a == f[Chosen(s)]
            b == SumFunctionOnSet(f, r)
<1>8. a \in Nat /\ b \in Nat /\ a % m = 0 /\ b % m = 0
  BY <1>5, <1>7
<1>. HIDE DEF a, b
<1>9. a + b \in Nat /\ (a + b) % m = 0
  <2>1. a + b \in Nat
    BY <1>8
  <2>2. (a + b) % m = 0
    BY <1>8, MultiplesAdd, Zenon
  <2>. QED
    BY <2>1, <2>2
<1>. QED
  BY <1>2, <1>6, <1>9 DEF a, b

\* A part of a sum is no more than the whole.
THEOREM SumOfPart ==
    ASSUME NEW f, NEW T, IsFiniteSet(T), \A x \in T : f[x] \in Nat, NEW S \in SUBSET T
    PROVE  /\ SumFunctionOnSet(f, S) \in Nat /\ SumFunctionOnSet(f, T) \in Nat
           /\ SumFunctionOnSet(f, S) <= SumFunctionOnSet(f, T)
<1>. DEFINE R == T \ S
<1>1. IsFiniteSet(S) /\ IsFiniteSet(R) /\ S \cap R = {} /\ S \cup R = T
  BY FS_Subset
<1>2. \A n \in Nat : n % 1 = 0
  OBVIOUS
<1>3. \A U \in SUBSET T : IsFiniteSet(U) => SumFunctionOnSet(f, U) \in Nat
  <2>. SUFFICES ASSUME NEW U \in SUBSET T, IsFiniteSet(U)
                PROVE  SumFunctionOnSet(f, U) \in Nat
    OBVIOUS
  <2>1. 1 \in Nat \ {0} /\ \A x \in U : f[x] \in Nat /\ f[x] % 1 = 0
    BY <1>2
  <2>. QED
    BY <2>1, SumOfMultiples
<1>4. \A x \in S \cup R : f[x] \in Int
  BY <1>1
<1>. DEFINE a == SumFunctionOnSet(f, S)
            b == SumFunctionOnSet(f, R)
            c == SumFunctionOnSet(f, T)
<1>5. a \in Nat /\ b \in Nat /\ c \in Nat
  BY <1>1, <1>3
<1>6. SumFunctionOnSet(f, S \cup R) = SumFunctionOnSet(f, S) + SumFunctionOnSet(f, R)
  <2>. HIDE DEF R
  <2>. QED
    BY <1>1, <1>4, SumOfBoth
<1>7. c = a + b
  BY <1>1, <1>6
<1>. HIDE DEF a, b, c
<1>8. a <= c
  BY <1>5, <1>7
<1>. QED
  BY <1>5, <1>8 DEF a, c

\* So many times the same.
THEOREM SumOfTheSame ==
    ASSUME NEW k \in Nat, NEW f, NEW T, IsFiniteSet(T), \A x \in T : f[x] = k
    PROVE  SumFunctionOnSet(f, T) = Cardinality(T) * k
<1>. DEFINE Good(s) == SumFunctionOnSet(f, s) = Cardinality(s) * k
            Bad == {s \in SUBSET T : ~Good(s)}
<1>. SUFFICES ASSUME Bad # {}
              PROVE  FALSE
  BY Zenon
<1>1. PICK s \in Bad : \A u \in SUBSET s : u # s => u \notin Bad
  <2>. Bad \in SUBSET (SUBSET T)
    OBVIOUS
  <2>. HIDE DEF Bad
  <2>. QED
    BY SmallestSubset
<1>2. s \in SUBSET T /\ IsFiniteSet(s) /\ ~Good(s)
  BY FS_Subset
<1>3. s # {}
  BY <1>2, SumOfNone, FS_EmptySet
<1>. DEFINE r == s \ {Chosen(s)}
            n == Cardinality(r)
<1>4. Chosen(s) \in s
  BY <1>3, ChosenIn
<1>5. SumFunctionOnSet(f, r) = n * k
  BY <1>1, <1>2, <1>4
<1>6. SumFunctionOnSet(f, s) = f[Chosen(s)] + SumFunctionOnSet(f, r)
  BY <1>2, <1>3, SumStep
<1>7. f[Chosen(s)] = k
  BY <1>2, <1>4
<1>8. n \in Nat /\ Cardinality(s) = n + 1
  <2>1. IsFiniteSet(r) /\ Cardinality(r) = Cardinality(s) - 1
    BY <1>2, <1>4, FS_RemoveElement
  <2>2. Cardinality(s) \in Nat /\ Cardinality(r) \in Nat
    BY <1>2, <2>1, FS_CardinalityType
  <2>. QED
    BY <2>1, <2>2
<1>. HIDE DEF n, r
<1>9. (n + 1) * k = k + n * k
  BY <1>8
<1>. QED
  BY <1>2, <1>5, <1>6, <1>7, <1>8, <1>9
=============================================================================
