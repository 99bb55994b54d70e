------------------------ MODULE ContextBuilderProofs ------------------------
(***************************************************************************)
(* Theorems about ContextBuilder for every store, every request and every  *)
(* score: the pack keeps to its budget, repeats no content and cannot be   *)
(* extended, and neither of the two cuts loses a better memory.  The       *)
(* lemmas about ByScore say that sorting neither loses nor repeats a       *)
(* candidate, those about sums that `total' is what the pack takes.        *)
(***************************************************************************)
EXTENDS ContextBuilder, FiniteSetTheorems, FunctionTheorems, SequenceTheorems,
        WellFoundedInduction, TLAPS

-----------------------------------------------------------------------------
(* Sums of functions over finite sets, by induction on the size of the set.  *)

\* Every nonempty set of natural numbers has a least element: induction.
LEMMA Least ==
  ASSUME NEW T \in SUBSET Nat, T # {}
  PROVE  \E n \in T : \A m \in T : ~ (m < n)
<1> DEFINE R == OpToRel(<, Nat)
<1>1. IsWellFoundedOn(R, Nat)
  BY NatLessThanWellFounded
<1>2. \A m, n \in Nat : <<m, n>> \in R <=> m < n
  BY DEF OpToRel
<1> HIDE DEF R
<1>3. \E n \in T : \A m \in T : <<m, n>> \notin R
  BY <1>1, WFMin
<1> QED BY <1>2, <1>3

\* The element that a fold takes from a set next.
Pick(s) == CHOOSE x \in s : TRUE

LEMMA PickIn == ASSUME NEW s, s # {} PROVE Pick(s) \in s
  BY DEF Pick

\* The partial sums of f over the subsets of D, as SumFunction computes them.
IsSums(sums, f, D) ==
  sums = [s \in SUBSET D |-> IF s = {} THEN 0 ELSE f[Pick(s)] + sums[s \ {Pick(s)}]]

LEMMA SumIsChosen ==
  ASSUME NEW f
  PROVE  SumFunction(f) = (CHOOSE sums : IsSums(sums, f, DOMAIN f))[DOMAIN f]
  BY DEF SumFunction, SumFunctionOnSet, FoldFunctionOnSet, MapThenFoldSet, IsSums, Pick

\* Finite sets have partial sums: layer by layer, by their size.
LEMMA SumsExist ==
  ASSUME NEW D, IsFiniteSet(D), NEW f \in [D -> Nat]
  PROVE  \E sums : IsSums(sums, f, D)
<1> DEFINE Layer(n) == {s \in SUBSET D : Cardinality(s) <= n}
           Sums(h, n) == h = [s \in Layer(n) |->
                                IF s = {} THEN 0 ELSE f[Pick(s)] + h[s \ {Pick(s)}]]
           Bad == {n \in Nat : ~ \E h : Sums(h, n)}
<1>0. \A s \in SUBSET D : IsFiniteSet(s) /\ Cardinality(s) \in Nat
  BY FS_Subset, FS_CardinalityType
<1>a. \A s \in SUBSET D : s # {} =>
        /\ Pick(s) \in D /\ s \ {Pick(s)} \in SUBSET D
        /\ Cardinality(s \ {Pick(s)}) = Cardinality(s) - 1
  BY <1>0, PickIn, FS_RemoveElement
<1>1. Sums([s \in Layer(0) |-> 0], 0)
  <2>1. \A s \in Layer(0) : s = {}
    BY <1>0, FS_EmptySet
  <2> QED BY <2>1
<1>2. ASSUME NEW n \in Nat, NEW h, Sums(h, n)
      PROVE  \E g : Sums(g, n + 1)
  <2> DEFINE g == [s \in Layer(n + 1) |->
                     IF s = {} THEN 0 ELSE f[Pick(s)] + h[s \ {Pick(s)}]]
  <2>1. \A s \in Layer(n) : s \in Layer(n + 1)
    BY <1>0
  <2>2. \A s \in Layer(n) : g[s] = h[s]
    BY <2>1, <1>2
  <2>3. \A s \in Layer(n + 1) : s # {} => s \ {Pick(s)} \in Layer(n)
    BY <1>0, <1>a
  <2>4. Sums(g, n + 1)
    BY <2>2, <2>3
  <2> QED BY <2>4
<1>3. Bad = {}
  <2> SUFFICES ASSUME Bad # {} PROVE FALSE
    OBVIOUS
  <2>1. PICK n \in Bad : \A m \in Bad : ~ (m < n)
    BY Least
  <2>2. CASE n = 0
    BY <1>1, <2>1, <2>2
  <2>3. CASE n # 0
    <3> DEFINE m == n - 1
    <3>1. m \in Nat /\ m < n /\ m + 1 = n
      BY <2>1, <2>3
    <3>2. \E h : Sums(h, m)
      BY <2>1, <3>1
    <3>3. \E h : Sums(h, m + 1)
      <4> HIDE DEF m, Sums
      <4> QED BY <1>2, <3>1, <3>2
    <3>4. \E h : Sums(h, n)
      <4> HIDE DEF m, Sums
      <4> QED BY <3>1, <3>3
    <3> QED BY <2>1, <3>4
  <2> QED BY <2>2, <2>3
<1>4. Cardinality(D) \in Nat /\ Layer(Cardinality(D)) = SUBSET D
  BY <1>0, FS_Subset
<1>5. PICK h : Sums(h, Cardinality(D))
  <2> HIDE DEF Sums
  <2> QED BY <1>3, <1>4
<1>6. IsSums(h, f, D)
  BY <1>4, <1>5 DEF IsSums
<1> QED BY <1>6

\* Partial sums are numbers, and the element taken out first does not matter.
LEMMA SumsFacts ==
  ASSUME NEW D, IsFiniteSet(D), NEW f \in [D -> Nat], NEW sums, IsSums(sums, f, D)
  PROVE  /\ \A s \in SUBSET D : sums[s] \in Nat
         /\ \A s \in SUBSET D : \A x \in s : sums[s] = f[x] + sums[s \ {x}]
<1> DEFINE OK(s) == /\ sums[s] \in Nat
                    /\ \A x \in s : sums[s] = f[x] + sums[s \ {x}]
           Bad == {Cardinality(s) : s \in {u \in SUBSET D : ~OK(u)}}
<1>0. \A s \in SUBSET D : IsFiniteSet(s) /\ Cardinality(s) \in Nat
  BY FS_Subset, FS_CardinalityType
<1>1. SUFFICES ASSUME Bad # {} PROVE FALSE
  OBVIOUS
<1>2. Bad \in SUBSET Nat
  BY <1>0
<1>3. PICK n \in Bad : \A m \in Bad : ~ (m < n)
  BY <1>1, <1>2, Least
<1>4. PICK s \in SUBSET D : ~OK(s) /\ n = Cardinality(s)
  BY <1>3
<1>5. ASSUME NEW u \in SUBSET D, NEW x \in s, u = s \ {x}
      PROVE  OK(u)
  <2>1. Cardinality(u) \in Nat /\ Cardinality(u) < n
    BY <1>0, <1>4, <1>5, FS_RemoveElement
  <2> HIDE DEF OK
  <2> QED BY <1>3, <2>1
<1>6. s # {}
  BY <1>4 DEF IsSums
<1> DEFINE p == Pick(s)
<1>7. p \in s
  BY <1>6, PickIn
<1>8. sums[s] = f[p] + sums[s \ {p}]
  BY <1>6 DEF IsSums
<1>9. f[p] \in Nat /\ sums[s \ {p}] \in Nat
  BY <1>5, <1>7
<1> HIDE DEF p
<1>10. ASSUME NEW x \in s, x # p PROVE sums[s] = f[x] + sums[s \ {x}]
  <2>1. sums[s \ {p}] = f[x] + sums[(s \ {p}) \ {x}]
    BY <1>5, <1>7, <1>10
  <2>2. sums[s \ {x}] = f[p] + sums[(s \ {x}) \ {p}]
    BY <1>5, <1>7, <1>10
  <2>3. (s \ {x}) \ {p} = (s \ {p}) \ {x}
    OBVIOUS
  <2>4. f[x] \in Nat /\ sums[(s \ {p}) \ {x}] \in Nat
    <3>1. OK(s \ {x}) /\ (s \ {x}) \in SUBSET D
      BY <1>5
    <3>2. sums[s \ {x}] \in Nat /\ f[x] \in Nat
      BY <3>1
    <3>3. \A u \in SUBSET D : u # {} => sums[u] = f[Pick(u)] + sums[u \ {Pick(u)}]
      BY DEF IsSums
    <3> DEFINE u == (s \ {p}) \ {x}
    <3>4. OK(u)
      <4>1. u \in SUBSET D /\ u \subseteq s \ {p} /\ u # s /\ IsFiniteSet(s \ {p})
        BY <1>0, <1>7
      <4>2. Cardinality(u) \in Nat /\ Cardinality(u) <= Cardinality(s \ {p})
        BY <1>0, <4>1, FS_Subset
      <4>3. Cardinality(s \ {p}) < n
        BY <1>0, <1>4, <1>7, FS_RemoveElement
      <4>4. Cardinality(u) < n /\ Cardinality(s \ {p}) \in Nat /\ n \in Nat
        BY <1>0, <1>4, <4>2, <4>3
      <4> HIDE DEF OK, u
      <4> QED BY <1>3, <4>1, <4>4
    <3> QED BY <3>2, <3>4
  <2> DEFINE rest == sums[(s \ {p}) \ {x}]
  <2>5. /\ sums[s] = f[p] + (f[x] + rest) /\ sums[s \ {x}] = f[p] + rest
        /\ f[x] \in Nat /\ rest \in Nat /\ f[p] \in Nat
    BY <1>8, <1>9, <2>1, <2>2, <2>3, <2>4
  <2> HIDE DEF rest
  <2> QED BY <2>5
<1>11. sums[s] \in Nat
  BY <1>8, <1>9
<1>12. \A x \in s : sums[s] = f[x] + sums[s \ {x}]
  BY <1>8, <1>10
<1> QED BY <1>4, <1>11, <1>12

\* The last fact for one set and one element.
LEMMA SumsTake ==
  ASSUME NEW D, IsFiniteSet(D), NEW f \in [D -> Nat], NEW sums, IsSums(sums, f, D),
         NEW s \in SUBSET D, NEW x \in s
  PROVE  sums[s] = f[x] + sums[s \ {x}]
  BY SumsFacts

\* Sums over a set depend on the values there only.
LEMMA SumsAgree ==
  ASSUME NEW D, NEW E, D \subseteq E, IsFiniteSet(E),
         NEW f \in [D -> Nat], NEW g \in [E -> Nat], \A x \in D : f[x] = g[x],
         NEW sf, IsSums(sf, f, D), NEW sg, IsSums(sg, g, E)
  PROVE  sf[D] = sg[D]
<1> DEFINE Bad == {Cardinality(s) : s \in {u \in SUBSET D : sf[u] # sg[u]}}
<1>0. \A s \in SUBSET D : IsFiniteSet(s) /\ Cardinality(s) \in Nat /\ s \in SUBSET E
  BY FS_Subset, FS_CardinalityType
<1>1. SUFFICES ASSUME Bad # {} PROVE FALSE
  OBVIOUS
<1>a. Bad \in SUBSET Nat
  BY <1>0
<1>2. PICK n \in Bad : \A m \in Bad : ~ (m < n)
  <2> HIDE DEF Bad
  <2> QED BY <1>1, <1>a, Least
<1>3. PICK s \in SUBSET D : sf[s] # sg[s] /\ n = Cardinality(s)
  BY <1>2
<1>4. s # {}
  BY <1>0, <1>3 DEF IsSums
<1> DEFINE p == Pick(s)
<1>5. p \in s /\ p \in D
  BY <1>4, PickIn
<1>6. sf[s] = f[p] + sf[s \ {p}] /\ sg[s] = g[p] + sg[s \ {p}]
  BY <1>0, <1>4 DEF IsSums
<1> HIDE DEF p
<1>7. sf[s \ {p}] = sg[s \ {p}]
  <2>1. Cardinality(s \ {p}) \in Nat /\ Cardinality(s \ {p}) < n
    BY <1>0, <1>3, <1>5, FS_RemoveElement
  <2> QED BY <1>2, <2>1
<1> QED BY <1>3, <1>5, <1>6, <1>7

\* The sum of no values, and of one value more.
LEMMA SumOfNone == ASSUME NEW f, DOMAIN f = {} PROVE SumFunction(f) = 0
<1>1. \E sums : IsSums(sums, f, {})
  <2>1. IsSums([s \in SUBSET {} |-> 0], f, {})
    BY DEF IsSums
  <2> QED BY <2>1
<1>2. IsSums(CHOOSE sums : IsSums(sums, f, {}), f, {})
  BY <1>1
<1> DEFINE h == CHOOSE sums : IsSums(sums, f, {})
<1>3. SumFunction(f) = h[{}]
  BY SumIsChosen
<1> HIDE DEF h
<1> QED BY <1>2, <1>3 DEF h, IsSums

LEMMA SumOfOneMore ==
  ASSUME NEW D, IsFiniteSet(D), NEW f \in [D -> Nat], NEW x, x \notin D,
         NEW g \in [D \cup {x} -> Nat], \A y \in D : g[y] = f[y]
  PROVE  SumFunction(g) = SumFunction(f) + g[x]
<1> DEFINE E == D \cup {x}
           sf == CHOOSE sums : IsSums(sums, f, D)
           sg == CHOOSE sums : IsSums(sums, g, E)
<1>1. IsFiniteSet(E)
  BY FS_AddElement
<1>2. SumFunction(f) = sf[D] /\ SumFunction(g) = sg[E]
  <2>1. DOMAIN f = D /\ DOMAIN g = E
    OBVIOUS
  <2> QED BY <2>1, SumIsChosen
<1>3. IsSums(sf, f, D)
  BY SumsExist
<1>4. IsSums(sg, g, E)
  <2> HIDE DEF E
  <2> QED BY <1>1, SumsExist DEF E
<1>5. PICK s : s = sg
  OBVIOUS
<1>6. IsSums(s, g, E) /\ SumFunction(g) = s[E]
  BY <1>2, <1>4, <1>5
<1>7. SumFunction(f) = s[D]
  <2> HIDE DEF sf, sg, E
  <2>1. sf[D] = sg[D]
    BY <1>1, <1>3, <1>4, SumsAgree DEF E
  <2> QED BY <1>2, <1>5, <2>1
<1>8. s[E] = g[x] + s[E \ {x}] /\ s[D] \in Nat /\ g[x] \in Nat
  <2>1. g \in [E -> Nat] /\ D \in SUBSET E /\ E \in SUBSET E /\ x \in E
    OBVIOUS
  <2> HIDE DEF E, sg, sf
  <2>2. \A u \in SUBSET E : s[u] \in Nat
    BY <1>1, <1>6, <2>1, SumsFacts
  <2>3. s[E] = g[x] + s[E \ {x}]
    BY <1>1, <1>6, <2>1, SumsTake
  <2> QED BY <2>1, <2>2, <2>3
<1>9. E \ {x} = D
  OBVIOUS
<1>10. s[E] = s[D] + g[x]
  <2> HIDE DEF E, sg, sf
  <2> QED BY <1>8, <1>9
<1> QED BY <1>6, <1>7, <1>10

-----------------------------------------------------------------------------
(* Sorting.                                                                 *)

\* Ranks are places in the sorted list.
LEMMA RankType ==
  ASSUME NEW D \in SUBSET Nat, IsFiniteSet(D), NEW score \in [D -> Nat], NEW i \in D
  PROVE  Rank(D, score, i) \in 1..Cardinality(D)
<1> DEFINE A == {j \in D : score[j] > score[i] \/ (score[j] = score[i] /\ j <= i)}
<1>1. IsFiniteSet(A) /\ Cardinality(A) <= Cardinality(D)
  BY FS_Subset
<1>2. Cardinality(A) \in Nat /\ Cardinality(D) \in Nat
  BY <1>1, FS_CardinalityType
<1>3. Cardinality(A) # 0
  <2>1. i \in A
    OBVIOUS
  <2> HIDE DEF A
  <2> QED BY <1>1, <2>1, FS_EmptySet
<1> QED
  BY <1>1, <1>2, <1>3 DEF Rank

\* Two candidates never share a place: the order is total, ties included.
LEMMA RankInjective ==
  ASSUME NEW D \in SUBSET Nat, IsFiniteSet(D), NEW score \in [D -> Nat],
         NEW i \in D, NEW k \in D, i # k
  PROVE  Rank(D, score, i) # Rank(D, score, k)
<1> DEFINE A(x) == {j \in D : score[j] > score[x] \/ (score[j] = score[x] /\ j <= x)}
<1>1. \A x \in D : IsFiniteSet(A(x)) /\ x \in A(x)
  BY FS_Subset
<1>2. \/ A(i) \subseteq A(k) /\ k \notin A(i)
      \/ A(k) \subseteq A(i) /\ i \notin A(k)
  <2>1. CASE score[i] > score[k] \/ (score[i] = score[k] /\ i <= k)
    <3>1. k \notin A(i)
      BY <2>1
    <3>2. ASSUME NEW j \in A(i) PROVE j \in A(k)
      <4>1. j \in D /\ score[j] \in Nat /\ score[i] \in Nat /\ score[k] \in Nat
        OBVIOUS
      <4> QED BY <2>1, <4>1
    <3> QED BY <3>1, <3>2
  <2>2. CASE score[k] > score[i] \/ (score[i] = score[k] /\ k <= i)
    <3>1. i \notin A(k)
      BY <2>2
    <3>2. ASSUME NEW j \in A(k) PROVE j \in A(i)
      <4>1. j \in D /\ score[j] \in Nat /\ score[i] \in Nat /\ score[k] \in Nat
        OBVIOUS
      <4> QED BY <2>2, <4>1
    <3> QED BY <3>1, <3>2
  <2> QED BY <2>1, <2>2
<1> HIDE DEF A
<1>3. Cardinality(A(i)) # Cardinality(A(k))
  BY <1>1, <1>2, FS_Subset
<1> QED
  BY <1>3 DEF Rank, A

\* Every place is taken, so the sorted list holds each candidate once.
LEMMA RankSurjective ==
  ASSUME NEW D \in SUBSET Nat, IsFiniteSet(D), NEW score \in [D -> Nat],
         NEW k \in 1..Cardinality(D)
  PROVE  \E i \in D : Rank(D, score, i) = k
<1> DEFINE n == Cardinality(D)
           f == [i \in D |-> Rank(D, score, i)]
<1>1. n \in Nat
  BY FS_CardinalityType
<1>2. IsFiniteSet(1..n) /\ Cardinality(1..n) = n
  BY <1>1, FS_Interval
<1>3. f \in [D -> 1..n]
  BY RankType
<1>4. \A i, j \in D : f[i] = f[j] => i = j
  BY RankInjective
<1>5. f \in Injection(D, 1..n)
  BY <1>3, <1>4, Fun_IsInj
<1>6. f \in Surjection(D, 1..n)
  BY <1>2, <1>5, FS_Injection
<1> HIDE DEF f, n
<1>7. \A t \in 1..n : \E i \in D : f[i] = t
  BY <1>6, Fun_SurjectionProperties
<1> QED
  BY <1>7 DEF f, n

\* The sorted list is a list of the candidates, as long as there are candidates.
LEMMA ByScoreType ==
  ASSUME NEW D \in SUBSET Nat, IsFiniteSet(D), NEW score \in [D -> Nat]
  PROVE  /\ ByScore(D, score) \in Seq(D)
         /\ Len(ByScore(D, score)) = Cardinality(D)
<1>1. Cardinality(D) \in Nat
  BY FS_CardinalityType
<1>2. \A k \in 1..Cardinality(D) : (CHOOSE i \in D : Rank(D, score, i) = k) \in D
  BY RankSurjective
<1>3. ByScore(D, score) \in [1..Cardinality(D) -> D]
  BY <1>2 DEF ByScore
<1> HIDE DEF ByScore
<1> QED
  BY <1>1, <1>3

\* A cut list is a list of the same elements.
LEMMA CutType ==
  ASSUME NEW S, NEW list \in Seq(S), NEW n \in Nat
  PROVE  Cut(list, n) \in Seq(S)
<1> DEFINE m == IF n < Len(list) THEN n ELSE Len(list)
<1>1. m \in Int /\ \A i \in 1..m : list[i] \in S
  OBVIOUS
<1> HIDE DEF m
<1>2. SubSeq(list, 1, m) \in Seq(S)
  BY <1>1, SubSeqProperties
<1> QED
  BY <1>2 DEF Cut, m

\* The memories are a finite set of numbers, so ByScore can rank them.
LEMMA MemoriesFinite == Memories \in SUBSET Nat /\ IsFiniteSet(Memories)
  BY SizeAssumption, FS_Interval DEF Memories

\* What a manager returns is a list of memories.
LEMMA RecalledType ==
  ASSUME items \in [Memories -> Item], request \in Request, NEW type
  PROVE  Recalled(type) \in Seq(Memories)
<1> DEFINE D == OfType(type)
<1>1. D \in SUBSET Memories /\ D \in SUBSET Nat /\ IsFiniteSet(D)
  BY MemoriesFinite, FS_Subset DEF OfType
<1>2. Score \in [Memories -> Nat] /\ request.candidates \in Nat
  BY ScoresAssumption DEF Score, Item, Request
<1>3. ByScore(D, Score) \in Seq(Memories)
  <2> DEFINE score == [m \in D |-> Score[m]]
  <2>1. score \in [D -> Nat]
    BY <1>1, <1>2
  <2>2. \A i \in D : Rank(D, Score, i) = Rank(D, score, i)
    BY DEF Rank
  <2>3. ByScore(D, Score) = ByScore(D, score)
    BY <2>2 DEF ByScore
  <2> HIDE DEF score, D
  <2>4. ByScore(D, score) \in Seq(D)
    BY <1>1, <2>1, ByScoreType
  <2> QED BY <1>1, <2>3, <2>4, SeqMonotonic
<1> QED
  BY <1>2, <1>3, CutType DEF Recalled

\* Sorting the merge gives a list of memories of the same length.
LEMMA SortedType ==
  ASSUME items \in [Memories -> Item], NEW list \in Seq(Memories)
  PROVE  Sorted(list) \in Seq(Memories) /\ Len(Sorted(list)) = Len(list)
<1> DEFINE D == DOMAIN list
           score == [i \in D |-> Score[list[i]]]
           order == ByScore(D, score)
<1>1. Score \in [Memories -> Nat]
  BY ScoresAssumption DEF Score, Item
<1>2. D = 1..Len(list) /\ Len(list) \in Nat /\ \A i \in D : list[i] \in Memories
  OBVIOUS
<1>3. D \in SUBSET Nat /\ IsFiniteSet(D) /\ Cardinality(D) = Len(list)
  <2>1. IsFiniteSet(1..Len(list)) /\ Cardinality(1..Len(list)) = Len(list)
    <3>1. PICK n \in Nat : n = Len(list)
      OBVIOUS
    <3>2. IsFiniteSet(1..n) /\ Cardinality(1..n) = n
      BY FS_Interval
    <3> QED BY <3>1, <3>2
  <2> QED BY <1>2, <2>1
<1>4. score \in [D -> Nat]
  BY <1>1, <1>2
<1>5. order \in Seq(D) /\ Len(order) = Len(list)
  <2> HIDE DEF score, D
  <2> QED BY <1>3, <1>4, ByScoreType
<1>6. Sorted(list) = [k \in DOMAIN order |-> list[order[k]]]
  BY DEF Sorted
<1> HIDE DEF order
<1>7. DOMAIN order = 1..Len(list) /\ \A k \in 1..Len(list) : order[k] \in D
  BY <1>5
<1>8. Sorted(list) \in [1..Len(list) -> Memories]
  BY <1>2, <1>6, <1>7
<1> QED
  BY <1>2, <1>8

-----------------------------------------------------------------------------
(* The greedy pass.                                                         *)

\* The invariant holds when build() is called.
LEMMA InitOK == Init => BuilderInv
<1> SUFFICES ASSUME Init PROVE BuilderInv
  OBVIOUS
<1>1. request \in Request /\ items \in [Memories -> Item]
  BY RequestsAssumption DEF Init
<1>2. TypeOK
  BY <1>1 DEF Init, TypeOK, Request
<1>3. WithinBudget
  BY <1>1 DEF Init, WithinBudget, Request
<1>4. NoRepeatedContent /\ SeenIsSelected /\ PassedOver
  BY DEF Init, NoRepeatedContent, SeenIsSelected, PassedOver
<1> QED
  BY <1>2, <1>3, <1>4 DEF BuilderInv

\* Every step of build() keeps the types.
LEMMA TypeNext == TypeOK /\ [Next]_vars => TypeOK'
<1> SUFFICES ASSUME TypeOK, [Next]_vars PROVE TypeOK'
  OBVIOUS
<1> USE DEF TypeOK, inputs
<1>1. CASE Recall
  BY <1>1, RecalledType DEF Recall
<1>2. CASE Merge
  <2>1. candidates' \in Seq(Memories)
    BY <1>2, SortedType, CutType DEF Merge, Request
  <2> QED BY <1>2, <2>1 DEF Merge
<1>3. CASE SkipRepeated
  BY <1>3 DEF SkipRepeated
<1>4. CASE SkipTooLarge
  BY <1>4 DEF SkipTooLarge
<1>5. CASE Take
  <2>1. candidates[next] \in Memories /\ Current \in Item
    BY <1>5 DEF Take, Selecting, Current
  <2>2. Current.key \in Keys /\ Current.tokens \in Nat
    BY <2>1, TokensAssumption DEF Item
  <2> QED BY <1>5, <2>1, <2>2 DEF Take
<1>6. CASE Return
  BY <1>6 DEF Return
<1>7. CASE UNCHANGED vars
  BY <1>7 DEF vars
<1> QED
  BY <1>1, <1>2, <1>3, <1>4, <1>5, <1>6, <1>7 DEF Next

\* Taking a candidate is the only step that changes the pack.
LEMMA TakeOK ==
  ASSUME BuilderInv, Take
  PROVE  /\ WithinBudget' /\ NoRepeatedContent' /\ SeenIsSelected'
         /\ candidates[next] \in Memories
         /\ seen' = seen \cup {items[candidates[next]].key}
<1> USE DEF BuilderInv, TypeOK, inputs
<1>1. /\ candidates[next] \in Memories /\ Current = items[candidates[next]]
      /\ Current.key \notin seen
  BY DEF Take, Selecting, Current
<1>2. /\ selected' = Append(selected, candidates[next])
      /\ seen' = seen \cup {items[candidates[next]].key}
      /\ items' = items /\ request' = request /\ total' = total + Current.tokens
  BY <1>1 DEF Take
<1>3. /\ DOMAIN selected' = 1..(Len(selected) + 1)
      /\ \A i \in DOMAIN selected : selected'[i] = selected[i]
      /\ selected'[Len(selected) + 1] = candidates[next]
      /\ DOMAIN selected = 1..Len(selected)
  BY <1>1, <1>2
<1>4. \A i \in DOMAIN selected : items[selected[i]].key \in seen
  BY DEF SeenIsSelected
<1>5. NoRepeatedContent'
  <2> SUFFICES ASSUME NEW i \in DOMAIN selected', NEW j \in DOMAIN selected',
                      items[selected'[i]].key = items[selected'[j]].key
               PROVE  i = j
    BY <1>2 DEF NoRepeatedContent
  <2>1. CASE i \in DOMAIN selected /\ j \in DOMAIN selected
    BY <1>3, <2>1 DEF NoRepeatedContent
  <2>2. CASE i = Len(selected) + 1 /\ j \in DOMAIN selected
    BY <1>1, <1>3, <1>4, <2>2
  <2>3. CASE j = Len(selected) + 1 /\ i \in DOMAIN selected
    BY <1>1, <1>3, <1>4, <2>3
  <2>4. CASE i = Len(selected) + 1 /\ j = Len(selected) + 1
    BY <2>4
  <2> QED BY <1>3, <2>1, <2>2, <2>3, <2>4
<1>6. SeenIsSelected'
  <2> DEFINE keys == {items[selected'[i]].key : i \in DOMAIN selected'}
  <2>1. ASSUME NEW k \in keys PROVE k \in seen'
    BY <1>2, <1>3, <1>4
  <2>2. ASSUME NEW k \in seen' PROVE k \in keys
    <3>1. CASE k \in seen
      <4>1. PICK i \in DOMAIN selected : k = items[selected[i]].key
        BY <3>1 DEF SeenIsSelected
      <4> QED BY <1>3, <4>1
    <3>2. CASE k = items[candidates[next]].key
      <4>1. Len(selected) + 1 \in DOMAIN selected'
        BY <1>3
      <4> QED BY <1>3, <3>2, <4>1
    <3> QED BY <1>2, <2>2, <3>1, <3>2
  <2>3. keys = seen'
    BY <2>1, <2>2
  <2> QED BY <1>2, <2>3 DEF SeenIsSelected
<1>7. WithinBudget'
  BY <1>2 DEF WithinBudget, Take, Fits
<1> QED
  BY <1>1, <1>2, <1>5, <1>6, <1>7

\* What was passed over stays passed over, as the total only grows.
LEMMA PassedOverNext == BuilderInv /\ [Next]_vars => PassedOver'
<1> SUFFICES ASSUME BuilderInv, [Next]_vars PROVE PassedOver'
  OBVIOUS
<1> USE DEF BuilderInv, TypeOK, inputs
<1>1. CASE Recall
  BY <1>1 DEF Recall, PassedOver
<1>2. CASE Merge
  <2>1. candidates = <<>> /\ next = 1
    BY <1>2 DEF Merge, PassedOver
  <2>2. candidates' \in Seq(Memories)
    BY TypeNext
  <2> QED BY <1>2, <2>1, <2>2 DEF Merge, PassedOver
<1>3. CASE SkipRepeated
  BY <1>3 DEF SkipRepeated, Selecting, Current, PassedOver, Fits
<1>4. CASE SkipTooLarge
  BY <1>4 DEF SkipTooLarge, Selecting, Current, PassedOver, Fits
<1>5. CASE Take
  <2>1. \A i \in 1..Len(candidates) : items[candidates[i]].tokens \in Nat
    <3> SUFFICES ASSUME NEW i \in 1..Len(candidates)
                 PROVE  items[candidates[i]].tokens \in Nat
      OBVIOUS
    <3>1. items[candidates[i]] \in Item
      OBVIOUS
    <3> QED BY <3>1, TokensAssumption DEF Item
  <2>2. /\ seen' = seen \cup {items[candidates[next]].key}
        /\ Current.tokens \in Nat /\ total' = total + Current.tokens
        /\ next' = next + 1 /\ next <= Len(candidates) /\ pc' = "select"
        /\ items' = items /\ request' = request /\ candidates' = candidates
    BY <1>5, <2>1, TakeOK DEF Take, Selecting, Current
  <2>3. request.tokens \in Nat
    BY DEF Request
  <2>4. ASSUME NEW i \in 1..(next' - 1)
        PROVE  items[candidates[i]].key \in seen' \/ ~Fits(items[candidates[i]])'
    <3>1. CASE i = next
      BY <2>2, <3>1
    <3>2. CASE i \in 1..(next - 1)
      <4>1. i \in 1..Len(candidates) /\ items[candidates[i]].tokens \in Nat
        BY <2>1, <2>2, <3>2
      <4>2. items[candidates[i]].key \in seen \/ ~Fits(items[candidates[i]])
        BY <3>2 DEF PassedOver
      <4>3. total \in Nat /\ total' \in Nat /\ total' >= total
        BY <2>2
      <4>4. CASE items[candidates[i]].key \in seen
        BY <2>2, <4>4
      <4>5. CASE ~(total + items[candidates[i]].tokens <= request.tokens)
        <5>1. ~(total' + items[candidates[i]].tokens <= request.tokens)
          BY <2>3, <4>1, <4>3, <4>5
        <5> QED BY <2>2, <5>1 DEF Fits
      <4> QED BY <4>2, <4>4, <4>5 DEF Fits
    <3> QED BY <2>2, <3>1, <3>2
  <2> QED BY <2>2, <2>4 DEF PassedOver
<1>6. CASE Return
  BY <1>6 DEF Return, PassedOver, Fits
<1>7. CASE UNCHANGED vars
  BY <1>7 DEF vars, PassedOver, Fits
<1> QED
  BY <1>1, <1>2, <1>3, <1>4, <1>5, <1>6, <1>7 DEF Next

\* The inductive invariant of the builder: what is selected fits the budget,
\* repeats nothing, and what was passed over still repeats or still does not fit.
THEOREM Invariance == Spec => []BuilderInv
<1>1. BuilderInv /\ [Next]_vars => BuilderInv'
  <2> SUFFICES ASSUME BuilderInv, [Next]_vars PROVE BuilderInv'
    OBVIOUS
  <2>1. TypeOK' /\ PassedOver'
    BY TypeNext, PassedOverNext DEF BuilderInv
  <2>2. WithinBudget' /\ NoRepeatedContent' /\ SeenIsSelected'
    <3>1. CASE Take
      BY <3>1, TakeOK
    <3>2. CASE ~Take
      BY <3>2 DEF BuilderInv, Next, Recall, Merge, SkipRepeated, SkipTooLarge,
                  Return, vars, inputs, WithinBudget, NoRepeatedContent,
                  SeenIsSelected
    <3> QED BY <3>1, <3>2
  <2> QED BY <2>1, <2>2 DEF BuilderInv
<1> QED
  BY InitOK, <1>1, PTL DEF Spec

\* The pack never exceeds max_tokens (builder.py, build).
THEOREM BudgetKept == Spec => []WithinBudget
  BY Invariance, PTL DEF BuilderInv

\* The pack never holds two memories of the same content.
THEOREM NoRepeats == Spec => []NoRepeatedContent
  BY Invariance, PTL DEF BuilderInv

\* A finished pack cannot be extended by any candidate.
THEOREM PackIsMaximal == Spec => []NothingElseFits
<1>1. BuilderInv => NothingElseFits
  <2> SUFFICES ASSUME BuilderInv, pc = "built", NEW i \in DOMAIN candidates
               PROVE  \/ \E j \in DOMAIN selected :
                           items[selected[j]].key = items[candidates[i]].key
                      \/ ~Fits(items[candidates[i]])
    BY DEF NothingElseFits
  <2>1. i \in 1..(next - 1)
    BY DEF BuilderInv, TypeOK, PassedOver
  <2>2. items[candidates[i]].key \in seen \/ ~Fits(items[candidates[i]])
    BY <2>1 DEF BuilderInv, PassedOver
  <2> QED BY <2>2 DEF BuilderInv, SeenIsSelected
<1> QED
  BY Invariance, <1>1, PTL

-----------------------------------------------------------------------------
(* The token count.                                                         *)

\* The counted total is the sum of the pack's tokens.
LEMMA SumNext ==
  ASSUME BuilderInv, BuilderInv', [Next]_vars, PackWithinBudget
  PROVE  PackWithinBudget'
<1> DEFINE f == [i \in DOMAIN selected |-> items[selected[i]].tokens]
<1> USE DEF BuilderInv, TypeOK, inputs
<1>1. CASE Take
  <2> DEFINE n == Len(selected) + 1
             D == 1..Len(selected)
  <2>1. /\ candidates[next] \in Memories /\ Current = items[candidates[next]]
        /\ Current.tokens \in Nat
    <3>1. candidates[next] \in Memories /\ Current \in Item
      BY <1>1 DEF Take, Selecting, Current
    <3> QED BY <3>1, TokensAssumption DEF Current, Item
  <2>2. /\ selected' = Append(selected, candidates[next]) /\ items' = items
        /\ total' = total + Current.tokens
    BY <1>1 DEF Take
  <2>3. /\ DOMAIN selected' = D \cup {n} /\ n \notin D /\ DOMAIN selected = D
        /\ \A i \in D : selected'[i] = selected[i] /\ items[selected[i]].tokens \in Nat
        /\ selected'[n] = candidates[next] /\ IsFiniteSet(D)
    <3>1. IsFiniteSet(D)
      BY FS_Interval
    <3>2. \A i \in D : items[selected[i]] \in Item
      OBVIOUS
    <3>3. \A i \in D : items[selected[i]].tokens \in Nat
      BY <3>2, TokensAssumption DEF Item
    <3>4. /\ DOMAIN selected' = D \cup {n} /\ n \notin D /\ DOMAIN selected = D
          /\ \A i \in D : selected'[i] = selected[i]
          /\ selected'[n] = candidates[next]
      BY <2>1, <2>2
    <3> QED BY <3>1, <3>3, <3>4
  <2> DEFINE g == [i \in D \cup {n} |-> items[selected'[i]].tokens]
  <2>4. f \in [D -> Nat] /\ g \in [D \cup {n} -> Nat]
    BY <2>1, <2>3
  <2>5. (\A i \in D : g[i] = f[i]) /\ g[n] = Current.tokens
    BY <2>1, <2>3
  <2>6. SumFunction(g) = SumFunction(f) + g[n]
    <3>1. IsFiniteSet(D) /\ n \notin D /\ \A i \in D : g[i] = f[i]
      BY <2>3, <2>5
    <3> HIDE DEF f, g, n, D, TypeOK, BuilderInv
    <3> QED BY <3>1, <2>4, SumOfOneMore
  <2>7. total' = SumFunction(g)
    BY <2>2, <2>5, <2>6 DEF PackWithinBudget
  <2>8. g = [i \in DOMAIN selected' |-> items'[selected'[i]].tokens]
    BY <2>2, <2>3
  <2> QED BY <2>7, <2>8 DEF PackWithinBudget, WithinBudget
<1>2. CASE ~Take
  BY <1>2 DEF Next, Recall, Merge, SkipRepeated, SkipTooLarge, Return, vars,
              PackWithinBudget
<1> QED BY <1>1, <1>2

\* total_tokens is what the memories of the pack take together, and it is
\* within max_tokens, at every moment of the pass (builder.py, build).
THEOREM TokensAreCounted == Spec => []PackWithinBudget
<1>1. Init => PackWithinBudget
  <2> SUFFICES ASSUME Init PROVE PackWithinBudget
    OBVIOUS
  <2>1. DOMAIN selected = {} /\ total = 0
    BY DEF Init
  <2>2. SumFunction([i \in DOMAIN selected |-> items[selected[i]].tokens]) = 0
    BY <2>1, SumOfNone
  <2> QED BY <2>1, <2>2, InitOK DEF PackWithinBudget, BuilderInv, WithinBudget
<1>2. BuilderInv /\ BuilderInv' /\ [Next]_vars /\ PackWithinBudget => PackWithinBudget'
  BY SumNext
<1> QED
  BY Invariance, <1>1, <1>2, PTL DEF Spec

-----------------------------------------------------------------------------
(* The two cuts.                                                            *)

\* All that score higher than an element come before it in a sorted list.
LEMMA RankCounts ==
  ASSUME NEW D \in SUBSET Nat, IsFiniteSet(D), NEW score \in [D -> Nat],
         NEW bar \in Nat, NEW j \in D, score[j] < bar,
         NEW S \in SUBSET D, \A p \in S : score[p] >= bar
  PROVE  Cardinality(S) < Rank(D, score, j)
<1> DEFINE A == {p \in D : score[p] > score[j] \/ (score[p] = score[j] /\ p <= j)}
<1>1. \A T \in SUBSET D : IsFiniteSet(T) /\ Cardinality(T) \in Nat
  BY FS_Subset, FS_CardinalityType
<1>2. \A p \in S : p \in A /\ p # j
  <2> SUFFICES ASSUME NEW p \in S PROVE p \in A /\ p # j
    OBVIOUS
  <2>1. score[p] \in Nat /\ score[j] \in Nat /\ p \in D
    OBVIOUS
  <2> QED BY <2>1
<1>3. j \in A /\ A \in SUBSET D
  OBVIOUS
<1>4. Rank(D, score, j) = Cardinality(A)
  BY DEF Rank
<1> HIDE DEF A
<1>5. S \subseteq A /\ S # A
  BY <1>2, <1>3
<1>6. Cardinality(S) <= Cardinality(A) /\ Cardinality(S) # Cardinality(A)
  BY <1>1, <1>3, <1>5, FS_Subset
<1> QED BY <1>1, <1>3, <1>4, <1>6

\* Who scores higher comes first.
LEMMA RankOrder ==
  ASSUME NEW D \in SUBSET Nat, IsFiniteSet(D), NEW score \in [D -> Nat],
         NEW i \in D, NEW j \in D, score[j] < score[i]
  PROVE  Rank(D, score, i) < Rank(D, score, j)
<1> DEFINE A == {p \in D : score[p] > score[i] \/ (score[p] = score[i] /\ p <= i)}
<1>1. \A p \in A : score[p] >= score[i]
  <2> SUFFICES ASSUME NEW p \in A PROVE score[p] >= score[i]
    OBVIOUS
  <2>1. score[p] \in Nat /\ score[i] \in Nat
    OBVIOUS
  <2> QED BY <2>1
<1>2. A \in SUBSET D /\ score[i] \in Nat
  OBVIOUS
<1>3. Rank(D, score, i) = Cardinality(A)
  BY DEF Rank
<1> HIDE DEF A
<1> QED BY <1>1, <1>2, <1>3, RankCounts

\* The place of a list's element is its rank.
LEMMA AtItsRank ==
  ASSUME NEW D \in SUBSET Nat, IsFiniteSet(D), NEW score \in [D -> Nat]
  PROVE  /\ \A i \in D : ByScore(D, score)[Rank(D, score, i)] = i
         /\ \A k \in 1..Cardinality(D) :
              /\ ByScore(D, score)[k] \in D
              /\ Rank(D, score, ByScore(D, score)[k]) = k
<1>1. \A k \in 1..Cardinality(D) :
        ByScore(D, score)[k] = CHOOSE i \in D : Rank(D, score, i) = k
  BY DEF ByScore
<1>2. ASSUME NEW k \in 1..Cardinality(D)
      PROVE  ByScore(D, score)[k] \in D /\ Rank(D, score, ByScore(D, score)[k]) = k
  BY <1>1, RankSurjective
<1>3. ASSUME NEW i \in D PROVE ByScore(D, score)[Rank(D, score, i)] = i
  <2> DEFINE k == Rank(D, score, i)
  <2>1. k \in 1..Cardinality(D)
    BY RankType
  <2>2. ByScore(D, score)[k] \in D /\ Rank(D, score, ByScore(D, score)[k]) = k
    BY <1>2, <2>1
  <2> QED BY <2>2, RankInjective
<1> QED BY <1>2, <1>3

\* Of a list that is sorted and cut the best remain: what is not in it scores
\* no higher than anything in it, and there is no room left.
LEMMA BestRemain ==
  ASSUME NEW D \in SUBSET Nat, IsFiniteSet(D), NEW score \in [D -> Nat],
         NEW n \in Nat, NEW i \in D
  PROVE  LET list == ByScore(D, score) IN
         \/ \E k \in 1..Cardinality(D) : k <= n /\ list[k] = i
         \/ /\ n <= Cardinality(D)
            /\ \A k \in 1..n : score[list[k]] >= score[i]
<1> DEFINE list == ByScore(D, score)
           r == Rank(D, score, i)
           c == Cardinality(D)
<1>1. r \in 1..c /\ c \in Nat /\ list[r] = i
  BY RankType, AtItsRank, FS_CardinalityType
<1>2. CASE r <= n
  BY <1>1, <1>2
<1>3. CASE ~ (r <= n)
  <2> SUFFICES ASSUME NEW k \in 1..n PROVE score[list[k]] >= score[i]
    BY <1>1, <1>3
  <2>1. k \in 1..c /\ k < r /\ list[k] \in D /\ Rank(D, score, list[k]) = k
    BY <1>1, <1>3, AtItsRank
  <2>2. score[list[k]] \in Nat /\ score[i] \in Nat
    BY <2>1
  <2>3. CASE score[list[k]] < score[i]
    <3>1. r < Rank(D, score, list[k])
      BY <2>1, <2>3, RankOrder
    <3> QED BY <1>1, <2>1, <3>1
  <2> QED BY <2>2, <2>3
<1> QED BY <1>1, <1>2, <1>3

\* What a cut leaves of a list.
LEMMA CutFacts ==
  ASSUME NEW S, NEW list \in Seq(S), NEW n \in Nat
  PROVE  /\ Len(Cut(list, n)) = IF n < Len(list) THEN n ELSE Len(list)
         /\ \A k \in 1..Len(Cut(list, n)) : Cut(list, n)[k] = list[k]
<1> DEFINE m == IF n < Len(list) THEN n ELSE Len(list)
<1>1. m \in 0..Len(list) /\ Len(list) \in Nat /\ \A i \in 1..m : list[i] \in S
  OBVIOUS
<1> HIDE DEF m
<1>2. /\ Len(SubSeq(list, 1, m)) = m
      /\ \A k \in 1..m : SubSeq(list, 1, m)[k] = list[k]
  BY <1>1, SubSeqProperties
<1> QED
  BY <1>2 DEF Cut, m

\* What a manager returns represents every memory of its type.
LEMMA RecalledRepresents ==
  ASSUME BuilderInv, NEW m \in Memories
  PROVE  Represented(Recalled(items[m].type), m)
<1> DEFINE D == OfType(items[m].type)
           score == [p \in D |-> Score[p]]
           n == request.candidates
           sorted == ByScore(D, score)
           list == Recalled(items[m].type)
<1>1. D \in SUBSET Memories /\ D \in SUBSET Nat /\ IsFiniteSet(D) /\ m \in D
  BY MemoriesFinite, FS_Subset DEF OfType
<1>2. Score \in [Memories -> Nat] /\ n \in Nat
  BY ScoresAssumption DEF BuilderInv, TypeOK, Score, Item, Request
<1>3. score \in [D -> Nat] /\ \A p \in D : score[p] = Score[p]
  BY <1>1, <1>2
<1>4. list = Cut(sorted, n)
  <2>1. \A i \in D : Rank(D, Score, i) = Rank(D, score, i)
    BY DEF Rank
  <2>2. ByScore(D, Score) = sorted
    BY <2>1 DEF ByScore
  <2> QED BY <2>2 DEF Recalled
<1> HIDE DEF D, score
<1>5. sorted \in Seq(D) /\ Len(sorted) = Cardinality(D) /\ Cardinality(D) \in Nat
  BY <1>1, <1>3, ByScoreType, FS_CardinalityType
<1> HIDE DEF sorted
<1>6. /\ Len(list) = IF n < Cardinality(D) THEN n ELSE Cardinality(D)
      /\ \A k \in 1..Len(list) : list[k] = sorted[k]
  BY <1>2, <1>4, <1>5, CutFacts
<1>7. list \in Seq(D)
  BY <1>2, <1>4, <1>5, CutType
<1> HIDE DEF list
<1>8. CASE \E k \in 1..Cardinality(D) : k <= n /\ sorted[k] = m
  <2>1. \E k \in 1..Len(list) : list[k] = m
    BY <1>2, <1>5, <1>6, <1>8
  <2> QED BY <1>7, <2>1 DEF Represented, list
<1>9. CASE n <= Cardinality(D) /\ \A k \in 1..n : score[sorted[k]] >= score[m]
  <2>1. Len(list) = n /\ DOMAIN list = 1..n
    BY <1>2, <1>5, <1>6, <1>7, <1>9
  <2>2. \A k \in 1..n : Score[list[k]] >= Score[m]
    <3>1. \A k \in 1..n : sorted[k] \in D
      BY <1>2, <1>5, <1>9
    <3> QED BY <1>1, <1>3, <1>6, <1>9, <2>1, <3>1
  <2>3. Above(list, m) = 1..n
    BY <2>1, <2>2 DEF Above
  <2>4. Cardinality(1..n) = n
    BY <1>2, FS_Interval
  <2> QED BY <1>2, <2>3, <2>4 DEF Represented, list
<1>10. \/ \E k \in 1..Cardinality(D) : k <= n /\ sorted[k] = m
       \/ n <= Cardinality(D) /\ \A k \in 1..n : score[sorted[k]] >= score[m]
  BY <1>1, <1>2, <1>3, BestRemain DEF sorted
<1> QED BY <1>8, <1>9, <1>10

\* The places of a list are a finite set of numbers.
LEMMA PlacesFinite ==
  ASSUME NEW S, NEW list \in Seq(S)
  PROVE  /\ DOMAIN list \in SUBSET Nat /\ DOMAIN list = 1..Len(list)
         /\ IsFiniteSet(DOMAIN list) /\ Cardinality(DOMAIN list) = Len(list)
<1>1. DOMAIN list = 1..Len(list) /\ Len(list) \in Nat
  OBVIOUS
<1>2. PICK n \in Nat : n = Len(list)
  BY <1>1
<1>3. IsFiniteSet(1..n) /\ Cardinality(1..n) = n
  BY FS_Interval
<1> QED BY <1>1, <1>2, <1>3

\* A longer list represents what its two parts do.
LEMMA LongerRepresents ==
  ASSUME BuilderInv, NEW a \in Seq(Memories), NEW b \in Seq(Memories),
         NEW m \in Memories, Represented(a, m) \/ Represented(b, m)
  PROVE  Represented(a \o b, m)
<1> DEFINE n == Len(a)
           list == a \o b
           shift == [i \in Above(b, m) |-> n + i]
<1>1. /\ n \in Nat /\ list \in Seq(Memories) /\ DOMAIN list = 1..(n + Len(b))
      /\ DOMAIN a = 1..n /\ DOMAIN b = 1..Len(b) /\ Len(b) \in Nat
      /\ \A i \in DOMAIN a : i \in DOMAIN list /\ list[i] = a[i]
      /\ \A i \in DOMAIN b : n + i \in DOMAIN list /\ list[n + i] = b[i]
  OBVIOUS
<1>2. IsFiniteSet(Above(list, m)) /\ IsFiniteSet(Above(a, m)) /\ IsFiniteSet(Above(b, m))
  BY <1>1, PlacesFinite, FS_Subset DEF Above
<1>3. Cardinality(Above(a, m)) <= Cardinality(Above(list, m))
  <2>1. Above(a, m) \in SUBSET Above(list, m)
    BY <1>1 DEF Above
  <2> QED BY <1>2, <2>1, FS_Subset
<1>4. Cardinality(Above(b, m)) <= Cardinality(Above(list, m))
  <2>1. shift \in [Above(b, m) -> Above(list, m)]
    BY <1>1 DEF Above
  <2>2. \A i, j \in Above(b, m) : shift[i] = shift[j] => i = j
    BY <1>1 DEF Above
  <2>3. shift \in Injection(Above(b, m), Above(list, m))
    <3> HIDE DEF shift
    <3> QED BY <2>1, <2>2, Fun_IsInj
  <2> QED BY <1>2, <2>3, FS_Injection
<1>5. /\ Cardinality(Above(list, m)) \in Nat /\ Cardinality(Above(a, m)) \in Nat
      /\ Cardinality(Above(b, m)) \in Nat /\ request.candidates \in Nat
  BY <1>2, FS_CardinalityType DEF BuilderInv, TypeOK, Request
<1> SUFFICES Represented(list, m)
  OBVIOUS
<1> HIDE DEF list
<1>6. CASE \E i \in DOMAIN a : a[i] = m
  BY <1>1, <1>6 DEF Represented
<1>7. CASE \E i \in DOMAIN b : b[i] = m
  BY <1>1, <1>7 DEF Represented
<1>8. CASE \/ Cardinality(Above(a, m)) >= request.candidates
           \/ Cardinality(Above(b, m)) >= request.candidates
  BY <1>3, <1>4, <1>5, <1>8 DEF Represented
<1> QED BY <1>6, <1>7, <1>8 DEF Represented

\* The merge, sorted and cut, holds what the merge represents or better.
LEMMA CutRepresents ==
  ASSUME BuilderInv, NEW list \in Seq(Memories), NEW m \in Memories,
         Represented(list, m), NEW best, best = Cut(Sorted(list), request.candidates)
  PROVE  \/ \E i \in DOMAIN best : best[i] = m
         \/ /\ Len(best) = request.candidates
            /\ \A i \in DOMAIN best : Score[best[i]] >= Score[m]
<1> DEFINE D == DOMAIN list
           score == [i \in D |-> Score[list[i]]]
           order == ByScore(D, score)
           n == request.candidates
<1>1. Score \in [Memories -> Nat] /\ n \in Nat
  BY ScoresAssumption DEF BuilderInv, TypeOK, Score, Item, Request
<1>2. /\ D \in SUBSET Nat /\ IsFiniteSet(D) /\ Cardinality(D) = Len(list)
      /\ Len(list) \in Nat /\ \A i \in D : list[i] \in Memories
  BY PlacesFinite
<1>3. score \in [D -> Nat] /\ \A i \in D : score[i] = Score[list[i]]
  BY <1>1, <1>2
<1>4. Sorted(list) = [k \in DOMAIN order |-> list[order[k]]]
  BY DEF Sorted
<1> HIDE DEF D, score
<1>5. order \in Seq(D) /\ Len(order) = Cardinality(D)
  BY <1>2, <1>3, ByScoreType
<1>6. \A k \in 1..Cardinality(D) : order[k] \in D /\ Rank(D, score, order[k]) = k
  BY <1>2, <1>3, AtItsRank
<1>7. /\ Sorted(list) \in Seq(Memories) /\ Len(Sorted(list)) = Len(list)
      /\ best \in Seq(Memories)
      /\ Len(best) = IF n < Len(list) THEN n ELSE Len(list)
      /\ \A k \in 1..Len(best) : best[k] = Sorted(list)[k]
  <2>1. Sorted(list) \in Seq(Memories) /\ Len(Sorted(list)) = Len(list)
    BY SortedType DEF BuilderInv, TypeOK
  <2> QED BY <1>1, <2>1, CutType, CutFacts
<1> HIDE DEF order, n
<1>8. \A k \in 1..Len(best) :
        k \in 1..Len(list) /\ best[k] = list[order[k]] /\ order[k] \in D
  <2>1. DOMAIN order = 1..Len(list)
    BY <1>2, <1>5
  <2>2. \A k \in 1..Len(list) : Sorted(list)[k] = list[order[k]]
    BY <1>4, <2>1
  <2>3. \A k \in 1..Len(best) : k \in 1..Len(list)
    BY <1>1, <1>2, <1>7
  <2> QED BY <1>2, <1>6, <1>7, <2>2, <2>3
<1>9. DOMAIN best = 1..Len(best) /\ Len(best) \in Nat
  BY <1>7
<1>10. ASSUME NEW i \in D, list[i] = m
       PROVE  \/ \E k \in DOMAIN best : best[k] = m
              \/ Len(best) = n /\ \A k \in DOMAIN best : Score[best[k]] >= Score[m]
  <2>1. CASE \E k \in 1..Cardinality(D) : k <= n /\ order[k] = i
    <3>1. PICK k \in 1..Cardinality(D) : k <= n /\ order[k] = i
      BY <2>1
    <3>2. k \in 1..Len(best)
      BY <1>1, <1>2, <1>7, <3>1
    <3> QED BY <1>8, <1>9, <1>10, <3>1, <3>2
  <2>2. CASE n <= Cardinality(D) /\ \A k \in 1..n : score[order[k]] >= score[i]
    <3>1. Len(best) = n
      BY <1>1, <1>2, <1>7, <2>2
    <3> QED BY <1>3, <1>8, <1>9, <1>10, <2>2, <3>1
  <2> QED BY <1>1, <1>2, <1>3, <2>1, <2>2, BestRemain DEF order
<1>11. ASSUME Cardinality(Above(list, m)) >= n
       PROVE  Len(best) = n /\ \A k \in DOMAIN best : Score[best[k]] >= Score[m]
  <2> DEFINE S == Above(list, m)
  <2>1. S \in SUBSET D /\ \A p \in S : score[p] >= Score[m]
    BY <1>3 DEF Above, D
  <2>2. IsFiniteSet(S) /\ Cardinality(S) \in Nat /\ Cardinality(S) <= Len(list)
    BY <1>2, <2>1, FS_Subset, FS_CardinalityType
  <2>3. Len(best) = n
    BY <1>1, <1>2, <1>7, <1>11, <2>2
  <2> HIDE DEF S
  <2>4. ASSUME NEW k \in 1..Len(best), Score[best[k]] < Score[m] PROVE FALSE
    <3>1. order[k] \in D /\ score[order[k]] < Score[m] /\ Score[m] \in Nat
      BY <1>1, <1>3, <1>8, <2>4
    <3>2. Cardinality(S) < Rank(D, score, order[k])
      BY <1>2, <1>3, <2>1, <3>1, RankCounts
    <3>3. Rank(D, score, order[k]) = k
      BY <1>2, <1>6, <1>8
    <3> QED BY <1>9, <1>11, <2>2, <2>3, <3>2, <3>3 DEF S
  <2>5. \A k \in 1..Len(best) : Score[best[k]] \in Nat /\ Score[m] \in Nat
    BY <1>1, <1>2, <1>8
  <2>6. \A k \in 1..Len(best) : Score[best[k]] >= Score[m]
    BY <2>4, <2>5
  <2> QED BY <1>9, <2>3, <2>6
<1> QED BY <1>10, <1>11 DEF Represented, D, n

\* A step keeps what the merge and the cut keep.
LEMMA CandidatesNext ==
  ASSUME CandidatesInv, BuilderInv', [Next]_vars
  PROVE  CandidatesInv'
<1>1. /\ BuilderInv /\ RecalledRepresented /\ BestAreCandidates
      /\ merged \in Seq(Memories) /\ left \in Seq(MemoryTypes)
      /\ items \in [Memories -> Item]
  BY DEF CandidatesInv, BuilderInv, TypeOK
<1>2. items' = items /\ request' = request
  BY DEF Next, Recall, Merge, SkipRepeated, SkipTooLarge, Take, Return, vars, inputs
<1>3. CASE Recall
  <2> DEFINE new == Recalled(Head(left))
  <2>1. merged' = merged \o new /\ left' = Tail(left) /\ left # <<>> /\ pc' = "recall"
    BY <1>3 DEF Recall
  <2>2. new \in Seq(Memories)
    BY <1>1, RecalledType DEF BuilderInv, TypeOK
  <2> HIDE DEF new
  <2>3. ASSUME NEW m \in Memories,
               ~ \A i \in DOMAIN request.types : request.types[i] # items[m].type
        PROVE  \/ \E j \in DOMAIN left' : left'[j] = items[m].type
               \/ Represented(merged \o new, m)
    <3>1. CASE \E j \in DOMAIN left : left[j] = items[m].type
      <4>1. PICK j \in DOMAIN left : left[j] = items[m].type
        BY <3>1
      <4>2. CASE j = 1
        <5>1. Represented(new, m)
          BY <1>1, <2>1, <4>1, <4>2, RecalledRepresents DEF new
        <5> QED BY <1>1, <2>2, <5>1, LongerRepresents
      <4>3. CASE j # 1
        <5>1. j - 1 \in DOMAIN Tail(left) /\ Tail(left)[j - 1] = left[j]
          BY <1>1, <2>1, <4>3
        <5> QED BY <2>1, <4>1, <5>1
      <4> QED BY <4>2, <4>3
    <3>2. CASE Represented(merged, m)
      BY <1>1, <2>2, <3>2, LongerRepresents
    <3> QED BY <1>1, <2>3, <3>1, <3>2 DEF RecalledRepresented
  <2>4. \A m : Represented(merged, m)' <=> Represented(merged \o new, m)
    BY <1>2, <2>1 DEF Represented, Above, Score
  <2>5. RecalledRepresented'
    BY <1>2, <2>3, <2>4 DEF RecalledRepresented
  <2> QED BY <2>1, <2>5 DEF CandidatesInv, BestAreCandidates
<1>4. CASE Merge
  <2>1. /\ left = <<>> /\ left' = left /\ merged' = merged
        /\ candidates' = Cut(Sorted(merged), request.candidates)
    BY <1>4 DEF Merge
  <2>2. RecalledRepresented'
    BY <1>1, <1>2, <2>1 DEF RecalledRepresented, Represented, Above, Score
  <2>3. ASSUME NEW m \in Memories,
               ~ \A i \in DOMAIN request.types : request.types[i] # items[m].type
        PROVE  \/ \E i \in DOMAIN candidates' : candidates'[i] = m
               \/ /\ Len(candidates') = request.candidates
                  /\ \A i \in DOMAIN candidates' :
                       items[candidates'[i]].score >= items[m].score
    <3>1. Represented(merged, m)
      BY <1>1, <2>1, <2>3 DEF RecalledRepresented
    <3>2. PICK best : best = candidates'
      OBVIOUS
    <3>3. \/ \E i \in DOMAIN best : best[i] = m
          \/ /\ Len(best) = request.candidates
             /\ \A i \in DOMAIN best : Score[best[i]] >= Score[m]
      BY <1>1, <2>1, <3>1, <3>2, CutRepresents
    <3>4. \A i \in DOMAIN best : best[i] \in Memories
      BY <1>2, <3>2 DEF BuilderInv, TypeOK
    <3> QED BY <3>2, <3>3, <3>4 DEF Score
  <2>4. BestAreCandidates'
    BY <1>2, <2>3 DEF BestAreCandidates
  <2> QED BY <2>2, <2>4 DEF CandidatesInv
<1>5. CASE ~Recall /\ ~Merge
  <2>1. /\ left' = left /\ merged' = merged /\ candidates' = candidates
        /\ pc' # "recall" => pc # "recall"
    BY <1>5 DEF Next, SkipRepeated, SkipTooLarge, Take, Return, Selecting, vars
  <2>2. RecalledRepresented'
    BY <1>1, <1>2, <2>1 DEF RecalledRepresented, Represented, Above, Score
  <2> QED
    BY <1>1, <1>2, <2>1, <2>2 DEF CandidatesInv, BestAreCandidates
<1> QED BY <1>3, <1>4, <1>5

\* Cutting twice loses nothing: a memory of a requested type is a candidate, or
\* max_candidates others that score at least as high are (each manager's recall
\* cuts its own list, build cuts the merge).
THEOREM BestAreKept == Spec => []BestAreCandidates
<1>1. Init => CandidatesInv
  <2> SUFFICES ASSUME Init PROVE CandidatesInv
    OBVIOUS
  <2>1. left = request.types /\ pc = "recall"
    BY DEF Init
  <2>2. RecalledRepresented /\ BestAreCandidates
    BY <2>1 DEF RecalledRepresented, BestAreCandidates
  <2> QED BY <2>2, InitOK DEF CandidatesInv
<1>2. CandidatesInv /\ BuilderInv' /\ [Next]_vars => CandidatesInv'
  BY CandidatesNext
<1>3. CandidatesInv => BestAreCandidates
  BY DEF CandidatesInv
<1> QED
  BY Invariance, <1>1, <1>2, <1>3, PTL DEF Spec
=============================================================================
