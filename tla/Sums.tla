-------------------------------- MODULE Sums ---------------------------------
(***************************************************************************)
(* Facts about SumFunctionOnSet(f, S), the sum of f[i] for all i in a      *)
(* finite set S, that the proofs about counts and windows need.            *)
(*                                                                         *)
(* The sum is a fold over the subsets of S.  The induction is on sets: a   *)
(* collection of subsets of S is shown to be all of them, because it would *)
(* otherwise miss a smallest one (WFMin of WellFoundedInduction).          *)
(***************************************************************************)
EXTENDS Integers, Functions, FiniteSetTheorems, WellFoundedInduction, TLAPS

\* A collection of subsets of a finite set that has every subset whose strict
\* subsets it has, has them all.
LEMMA SubsetInduction ==
    ASSUME NEW S, IsFiniteSet(S), NEW Good,
           \A T \in SUBSET S :
               (\A U \in SUBSET T : U # T => U \in Good) => T \in Good
    PROVE  SUBSET S \subseteq Good
  <1> DEFINE Bad == (SUBSET S) \ Good
             R   == StrictSubsetOrdering(S)
  <1> SUFFICES ASSUME Bad # {} PROVE FALSE
    OBVIOUS
  <1>1. IsWellFoundedOn(R, FiniteSubsetsOf(S)) /\ FiniteSubsetsOf(S) = SUBSET S
    BY FS_StrictSubsetOrderingWellFounded, FS_FiniteSubsetsOfFinite
  <1>2. IsWellFoundedOn(R, SUBSET S) /\ Bad \subseteq SUBSET S
    BY <1>1
  <1> HIDE DEF R
  <1>3. PICK T \in Bad : \A U \in Bad : ~(<<U, T>> \in R)
    <2> HIDE DEF Bad
    <2> QED BY <1>2, WFMin
  <1>4. ASSUME NEW U \in SUBSET T, U # T PROVE U \in Good
    <2>1. U \in SUBSET S /\ T \in SUBSET S
      BY <1>3
    <2>2. <<U, T>> \in R
      BY <1>4, <2>1 DEF R, StrictSubsetOrdering
    <2> QED BY <1>3, <2>1, <2>2
  <1>5. T \in SUBSET S /\ T \notin Good
    OBVIOUS
  <1>6. \A U \in SUBSET T : U # T => U \in Good
    BY <1>4
  <1> QED BY <1>5, <1>6, Zenon

------------------------------------------------------------------------------
(* The fold has the value that its recursion says *)

OneOf(s) == CHOOSE x \in s : TRUE

FoldStep(f, it, s) == IF s = {} THEN 0 ELSE f[OneOf(s)] + it[s \ {OneOf(s)}]

\* it is the function that the fold over the subsets of S is defined as
FoldsOver(f, S, it) == it = [s \in SUBSET S |-> FoldStep(f, it, s)]

LEMMA OneIn == ASSUME NEW s, s # {} PROVE OneOf(s) \in s
  BY DEF OneOf

LEMMA FoldsAt ==
    ASSUME NEW f, NEW S, NEW it, FoldsOver(f, S, it), NEW s \in SUBSET S
    PROVE  it[s] = FoldStep(f, it, s)
  BY Zenon DEF FoldsOver

\* There is at most one such function ...
LEMMA FoldUnique ==
    ASSUME NEW f, NEW S, IsFiniteSet(S), NEW g, NEW h, FoldsOver(f, S, g), FoldsOver(f, S, h)
    PROVE  g = h
  <1> DEFINE Good == {s \in SUBSET S : g[s] = h[s]}
  <1>1. ASSUME NEW T \in SUBSET S, \A U \in SUBSET T : U # T => U \in Good
        PROVE  T \in Good
    <2>1. CASE T = {}
      BY <2>1, FoldsAt DEF FoldStep
    <2>2. CASE T # {}
      <3>1. T \ {OneOf(T)} \in Good
        BY <1>1, <2>2, OneIn
      <3> QED BY <2>2, <3>1, FoldsAt DEF FoldStep
    <2> QED BY <2>1, <2>2
  <1>2. SUBSET S \subseteq Good
    <2> HIDE DEF Good
    <2> QED BY <1>1, SubsetInduction
  <1>3. \A s \in SUBSET S : g[s] = h[s]
    BY <1>2
  <1>4. g = [s \in SUBSET S |-> g[s]] /\ h = [s \in SUBSET S |-> h[s]]
    BY Zenon DEF FoldsOver
  <1> QED BY <1>3, <1>4

\* ... it is one for the subsets of each subset as well ...
LEMMA FoldRestrict ==
    ASSUME NEW f, NEW S, NEW it, FoldsOver(f, S, it), NEW T \in SUBSET S
    PROVE  FoldsOver(f, T, [s \in SUBSET T |-> it[s]])
  <1> DEFINE g == [s \in SUBSET T |-> it[s]]
  <1>1. ASSUME NEW s \in SUBSET T PROVE g[s] = FoldStep(f, g, s)
    <2>1. g[s] = FoldStep(f, it, s)
      BY FoldsAt
    <2>2. s # {} => g[s \ {OneOf(s)}] = it[s \ {OneOf(s)}]
      OBVIOUS
    <2> QED BY <2>1, <2>2 DEF FoldStep
  <1> QED BY <1>1 DEF FoldsOver

\* ... and there is one.
LEMMA FoldExists ==
    ASSUME NEW f, NEW S, IsFiniteSet(S)
    PROVE  \E it : FoldsOver(f, S, it)
  <1> DEFINE Good == {T \in SUBSET S : \E it : FoldsOver(f, T, it)}
  <1>1. ASSUME NEW T \in SUBSET S, \A U \in SUBSET T : U # T => U \in Good
        PROVE  \E it : FoldsOver(f, T, it)
    <2> DEFINE Val(U) == (CHOOSE it : FoldsOver(f, U, it))[U]
               g == [s \in SUBSET T |-> IF s = {} THEN 0
                                        ELSE f[OneOf(s)] + Val(s \ {OneOf(s)})]
    <2>1. ASSUME NEW u \in SUBSET T, u # T
          PROVE  /\ FoldsOver(f, u, CHOOSE it : FoldsOver(f, u, it))
                 /\ IsFiniteSet(u)
      <3>1. \E it : FoldsOver(f, u, it)
        BY <1>1, <2>1
      <3>2. IsFiniteSet(u)
        BY FS_Subset
      <3> QED BY <3>1, <3>2, Zenon
    <2>2. ASSUME NEW u \in SUBSET T, u # T PROVE Val(u) = g[u]
      <3> DEFINE k == CHOOSE it : FoldsOver(f, u, it)
      <3>1. FoldsOver(f, u, k) /\ IsFiniteSet(u) /\ Val(u) = k[u]
        BY <2>1, <2>2
      <3> HIDE DEF k
      <3>2. k[u] = FoldStep(f, k, u)
        BY <3>1, FoldsAt
      <3>3. ASSUME u # {} PROVE k[u \ {OneOf(u)}] = Val(u \ {OneOf(u)})
        <4> DEFINE v == u \ {OneOf(u)}
                   r == [s \in SUBSET v |-> k[s]]
                   m == CHOOSE it : FoldsOver(f, v, it)
        <4>1. v \in SUBSET u /\ v \in SUBSET T /\ v # T
          BY <2>2, <3>3, OneIn
        <4>2. FoldsOver(f, v, r)
          BY <3>1, <4>1, FoldRestrict
        <4>3. FoldsOver(f, v, m) /\ IsFiniteSet(v)
          BY <2>1, <4>1
        <4>4. r[v] = k[v] /\ Val(v) = m[v]
          OBVIOUS
        <4> HIDE DEF r, m, v, Val
        <4>5. r = m
          BY <4>2, <4>3, FoldUnique
        <4> QED BY <4>4, <4>5 DEF v
      <3> QED BY <2>2, <3>1, <3>2, <3>3 DEF FoldStep
    <2>3. ASSUME NEW s \in SUBSET T PROVE g[s] = FoldStep(f, g, s)
      <3>1. CASE s = {}
        BY <3>1 DEF FoldStep
      <3>2. CASE s # {}
        <4>1. g[s] = f[OneOf(s)] + Val(s \ {OneOf(s)})
          BY <3>2
        <4>2. s \ {OneOf(s)} \in SUBSET T /\ s \ {OneOf(s)} # T
          BY <3>2, OneIn
        <4>3. Val(s \ {OneOf(s)}) = g[s \ {OneOf(s)}]
          BY <2>2, <4>2
        <4> HIDE DEF g, Val
        <4> QED BY <3>2, <4>1, <4>3 DEF FoldStep
      <3> QED BY <3>1, <3>2
    <2>4. g = [s \in SUBSET T |-> g[s]]
      OBVIOUS
    <2> HIDE DEF g
    <2>5. FoldsOver(f, T, g)
      BY <2>3, <2>4 DEF FoldsOver
    <2> QED BY <2>5
  <1>2. SUBSET S \subseteq Good
    <2>1. ASSUME NEW T \in SUBSET S, \A U \in SUBSET T : U # T => U \in Good
          PROVE  T \in Good
      BY <1>1, <2>1
    <2> HIDE DEF Good
    <2> QED BY <2>1, SubsetInduction
  <1> QED BY <1>2

\* The sum over a set, and over its subsets, by the recursion of the fold.
LEMMA SumFold ==
    ASSUME NEW f, NEW S, IsFiniteSet(S)
    PROVE  \E it : FoldsOver(f, S, it) /\ \A T \in SUBSET S : SumFunctionOnSet(f, T) = it[T]
  <1>1. ASSUME NEW T PROVE SumFunctionOnSet(f, T) = (CHOOSE it : FoldsOver(f, T, it))[T]
    BY DEF SumFunctionOnSet, FoldFunctionOnSet, MapThenFoldSet, FoldsOver, FoldStep, OneOf
  <1>2. PICK g : FoldsOver(f, S, g)
    BY FoldExists
  <1>3. ASSUME NEW T \in SUBSET S PROVE SumFunctionOnSet(f, T) = g[T]
    <2> DEFINE m == CHOOSE it : FoldsOver(f, T, it)
               r == [s \in SUBSET T |-> g[s]]
    <2>1. IsFiniteSet(T)
      BY FS_Subset
    <2>2. FoldsOver(f, T, m)
      BY <2>1, FoldExists, Zenon
    <2>3. FoldsOver(f, T, r) /\ r[T] = g[T]
      BY <1>2, FoldRestrict
    <2>4. SumFunctionOnSet(f, T) = m[T]
      BY <1>1
    <2> HIDE DEF m, r
    <2>5. m = r
      BY <2>1, <2>2, <2>3, FoldUnique
    <2> QED BY <2>3, <2>4, <2>5
  <1> QED BY <1>2, <1>3

------------------------------------------------------------------------------
(* What follows of sums of natural numbers *)

NatOn(f, S) == IsFiniteSet(S) /\ \A i \in S : f[i] \in Nat

LEMMA SumEmpty == ASSUME NEW f PROVE SumFunctionOnSet(f, {}) = 0
  <1>1. PICK it : FoldsOver(f, {}, it) /\ SumFunctionOnSet(f, {}) = it[{}]
    BY SumFold, FS_EmptySet
  <1> QED BY <1>1, FoldsAt DEF FoldStep

LEMMA SumStep ==
    ASSUME NEW f, NEW S, IsFiniteSet(S), S # {}
    PROVE  SumFunctionOnSet(f, S) = f[OneOf(S)] + SumFunctionOnSet(f, S \ {OneOf(S)})
  <1>1. PICK it : FoldsOver(f, S, it) /\ \A T \in SUBSET S : SumFunctionOnSet(f, T) = it[T]
    BY SumFold
  <1>2. it[S] = FoldStep(f, it, S)
    BY <1>1, FoldsAt
  <1>3. S \ {OneOf(S)} \in SUBSET S /\ S \in SUBSET S
    OBVIOUS
  <1> QED BY <1>1, <1>2, <1>3 DEF FoldStep

LEMMA SumType ==
    ASSUME NEW f, NEW S, NatOn(f, S)
    PROVE  SumFunctionOnSet(f, S) \in Nat
  <1> DEFINE Good == {T \in SUBSET S : SumFunctionOnSet(f, T) \in Nat}
  <1>1. ASSUME NEW T \in SUBSET S, \A U \in SUBSET T : U # T => U \in Good
        PROVE  T \in Good
    <2>1. CASE T = {}
      BY <2>1, SumEmpty
    <2>2. CASE T # {}
      <3>1. OneOf(T) \in T /\ T \ {OneOf(T)} \in Good /\ f[OneOf(T)] \in Nat
        BY <1>1, <2>2, OneIn DEF NatOn
      <3>2. IsFiniteSet(T)
        BY FS_Subset DEF NatOn
      <3>3. SumFunctionOnSet(f, T) = f[OneOf(T)] + SumFunctionOnSet(f, T \ {OneOf(T)})
        BY <2>2, <3>2, SumStep
      <3> QED BY <3>1, <3>3
    <2> QED BY <2>1, <2>2
  <1>2. SUBSET S \subseteq Good
    <2> HIDE DEF Good
    <2> QED BY <1>1, SubsetInduction DEF NatOn
  <1> QED BY <1>2

\* Whichever element is taken out, the sum is that element and the rest.
LEMMA SumTakeOut ==
    ASSUME NEW f, NEW S, NatOn(f, S), NEW x \in S
    PROVE  SumFunctionOnSet(f, S) = f[x] + SumFunctionOnSet(f, S \ {x})
  <1> DEFINE Sum(T) == SumFunctionOnSet(f, T)
             Good == {T \in SUBSET S : \A y \in T : Sum(T) = f[y] + Sum(T \ {y})}
  <1>0. ASSUME NEW T \in SUBSET S PROVE IsFiniteSet(T) /\ Sum(T) \in Nat
    <2>1. IsFiniteSet(T) /\ NatOn(f, T)
      BY FS_Subset DEF NatOn
    <2> QED BY <2>1, SumType
  <1>1. ASSUME NEW T \in SUBSET S, \A U \in SUBSET T : U # T => U \in Good,
               NEW y \in T
        PROVE  Sum(T) = f[y] + Sum(T \ {y})
    <2> DEFINE c == OneOf(T)
    <2>1. c \in T /\ Sum(T) = f[c] + Sum(T \ {c})
      BY <1>0, OneIn, SumStep
    <2> HIDE DEF c, Sum
    <2>2. CASE y = c
      BY <2>1, <2>2
    <2>3. CASE y # c
      <3>1. T \ {c} \in Good /\ y \in T \ {c}
        BY <1>1, <2>1, <2>3
      <3>2. T \ {y} \in Good /\ c \in T \ {y}
        BY <1>1, <2>1, <2>3
      <3>3. Sum(T \ {c}) = f[y] + Sum((T \ {c}) \ {y})
        BY <3>1
      <3>4. Sum(T \ {y}) = f[c] + Sum((T \ {y}) \ {c})
        BY <3>2
      <3>5. (T \ {c}) \ {y} = (T \ {y}) \ {c}
        OBVIOUS
      <3> DEFINE rest == Sum((T \ {y}) \ {c})
      <3>6. f[y] \in Nat /\ f[c] \in Nat /\ rest \in Nat
        BY <1>0, <2>1 DEF NatOn
      <3>7. Sum(T \ {c}) = f[y] + rest /\ Sum(T \ {y}) = f[c] + rest
        BY <3>3, <3>4, <3>5, Zenon
      <3> HIDE DEF rest
      <3> QED BY <2>1, <3>6, <3>7
    <2> QED BY <2>2, <2>3
  <1>2. SUBSET S \subseteq Good
    <2>1. ASSUME NEW T \in SUBSET S, \A U \in SUBSET T : U # T => U \in Good
          PROVE  T \in Good
      <3>1. \A y \in T : Sum(T) = f[y] + Sum(T \ {y})
        BY <1>1, <2>1
      <3> QED BY <3>1
    <2> HIDE DEF Good
    <2> QED BY <2>1, SubsetInduction DEF NatOn
  <1> QED BY <1>2

\* The smaller the numbers, the smaller their sum.
LEMMA SumAtMost ==
    ASSUME NEW f, NEW g, NEW S, NatOn(f, S), NatOn(g, S),
           \A i \in S : f[i] <= g[i]
    PROVE  SumFunctionOnSet(f, S) <= SumFunctionOnSet(g, S)
  <1> DEFINE Good == {T \in SUBSET S : SumFunctionOnSet(f, T) <= SumFunctionOnSet(g, T)}
  <1>1. ASSUME NEW T \in SUBSET S, \A U \in SUBSET T : U # T => U \in Good
        PROVE  T \in Good
    <2>1. CASE T = {}
      BY <2>1, SumEmpty
    <2>2. CASE T # {}
      <3> DEFINE c == OneOf(T)
                 U == T \ {c}
      <3>1. c \in T /\ U \in Good
        BY <1>1, <2>2, OneIn
      <3>2. IsFiniteSet(T) /\ NatOn(f, U) /\ NatOn(g, U)
        BY FS_Subset DEF NatOn
      <3>3. SumFunctionOnSet(f, T) = f[c] + SumFunctionOnSet(f, U)
        BY <2>2, <3>2, SumStep
      <3>4. SumFunctionOnSet(g, T) = g[c] + SumFunctionOnSet(g, U)
        BY <2>2, <3>2, SumStep
      <3>5. SumFunctionOnSet(f, U) \in Nat /\ SumFunctionOnSet(g, U) \in Nat
        BY <3>2, SumType
      <3>6. f[c] \in Nat /\ g[c] \in Nat /\ f[c] <= g[c]
        BY <3>1 DEF NatOn
      <3> HIDE DEF c, U
      <3> QED BY <3>1, <3>3, <3>4, <3>5, <3>6
    <2> QED BY <2>1, <2>2
  <1>2. SUBSET S \subseteq Good
    <2> HIDE DEF Good
    <2> QED BY <1>1, SubsetInduction DEF NatOn
  <1> QED BY <1>2

\* Sums of the same numbers are the same.
LEMMA SumSame ==
    ASSUME NEW f, NEW g, NEW S, NatOn(f, S), \A i \in S : f[i] = g[i]
    PROVE  SumFunctionOnSet(f, S) = SumFunctionOnSet(g, S)
  <1>1. NatOn(g, S)
    BY DEF NatOn
  <1>2. \A i \in S : f[i] <= g[i] /\ g[i] <= f[i]
    BY DEF NatOn
  <1>3. /\ SumFunctionOnSet(f, S) <= SumFunctionOnSet(g, S)
        /\ SumFunctionOnSet(g, S) <= SumFunctionOnSet(f, S)
    BY <1>1, <1>2, SumAtMost
  <1> QED BY <1>1, <1>3, SumType

\* The sum over a set is the sum over a part and over the rest.
LEMMA SumParts ==
    ASSUME NEW f, NEW S, NatOn(f, S), NEW P \in SUBSET S
    PROVE  SumFunctionOnSet(f, S) = SumFunctionOnSet(f, P) + SumFunctionOnSet(f, S \ P)
  <1> DEFINE Sum(T) == SumFunctionOnSet(f, T)
             Good == {T \in SUBSET S : Sum(T) = Sum(T \cap P) + Sum(T \ P)}
  <1>0. ASSUME NEW T \in SUBSET S PROVE NatOn(f, T) /\ Sum(T) \in Nat
    <2>1. IsFiniteSet(T) /\ NatOn(f, T)
      BY FS_Subset DEF NatOn
    <2> QED BY <2>1, SumType
  <1>1. ASSUME NEW T \in SUBSET S, \A U \in SUBSET T : U # T => U \in Good
        PROVE  T \in Good
    <2>1. CASE T = {}
      <3>1. T \cap P = {} /\ T \ P = {} /\ Sum({}) = 0
        BY <2>1, SumEmpty
      <3> QED BY <2>1, <3>1
    <2>2. CASE T # {}
      <3> PICK x \in T : TRUE
        BY <2>2
      <3>1. T \ {x} \in Good
        BY <1>1
      <3>2. Sum(T) = f[x] + Sum(T \ {x})
        BY <1>0, SumTakeOut
      <3>3. /\ Sum((T \ {x}) \cap P) \in Nat /\ Sum((T \ {x}) \ P) \in Nat
            /\ f[x] \in Nat
        BY <1>0 DEF NatOn
      <3>4. CASE x \in P
        <4>1. x \in T \cap P /\ (T \cap P) \ {x} = (T \ {x}) \cap P /\ (T \ {x}) \ P = T \ P
          BY <3>4
        <4>2. NatOn(f, T \cap P)
          BY <1>0
        <4>3. Sum(T \cap P) = f[x] + Sum((T \ {x}) \cap P)
          BY <4>1, <4>2, SumTakeOut
        <4>4. Sum(T \ {x}) = Sum((T \ {x}) \cap P) + Sum(T \ P)
          BY <3>1, <4>1
        <4>5. Sum(T \ P) \in Nat
          BY <1>0
        <4>6. Sum(T) = Sum(T \cap P) + Sum(T \ P)
          <5> HIDE DEF Sum
          <5> QED BY <3>2, <3>3, <4>3, <4>4, <4>5
        <4> QED BY <4>6
      <3>5. CASE x \notin P
        <4>1. x \in T \ P /\ (T \ P) \ {x} = (T \ {x}) \ P /\ (T \ {x}) \cap P = T \cap P
          BY <3>5
        <4>2. NatOn(f, T \ P)
          BY <1>0
        <4>3. Sum(T \ P) = f[x] + Sum((T \ {x}) \ P)
          BY <4>1, <4>2, SumTakeOut
        <4>4. Sum(T \ {x}) = Sum(T \cap P) + Sum((T \ {x}) \ P)
          BY <3>1, <4>1
        <4>5. Sum(T \cap P) \in Nat
          BY <1>0
        <4>6. Sum(T) = Sum(T \cap P) + Sum(T \ P)
          <5> HIDE DEF Sum
          <5> QED BY <3>2, <3>3, <4>3, <4>4, <4>5
        <4> QED BY <4>6
      <3> QED BY <3>4, <3>5
    <2> QED BY <2>1, <2>2
  <1>2. SUBSET S \subseteq Good
    <2> HIDE DEF Good
    <2> QED BY <1>1, SubsetInduction DEF NatOn
  <1>3. Sum(S) = Sum(S \cap P) + Sum(S \ P) /\ S \cap P = P
    BY <1>2
  <1> QED BY <1>3

\* Renaming the indices does not change a sum.
LEMMA SumRenamed ==
    ASSUME NEW A, NEW B, NEW h \in [A -> B], NEW f, IsFiniteSet(A), NatOn(f, B),
           \A x, y \in A : h[x] = h[y] => x = y,
           \A b \in B : \E a \in A : h[a] = b,
           NEW g, \A a \in A : g[a] = f[h[a]]
    PROVE  SumFunctionOnSet(g, A) = SumFunctionOnSet(f, B)
  <1> DEFINE Image(T) == {h[a] : a \in T}
             Good == {T \in SUBSET A : SumFunctionOnSet(g, T) = SumFunctionOnSet(f, Image(T))}
  <1>0. ASSUME NEW T \in SUBSET A
        PROVE  /\ Image(T) \subseteq B
               /\ IsFiniteSet(T) /\ NatOn(g, T) /\ NatOn(f, Image(T))
    <2>1. Image(T) \in SUBSET B
      OBVIOUS
    <2>2. IsFiniteSet(T)
      BY FS_Subset
    <2>3. IsFiniteSet(Image(T))
      <3> HIDE DEF Image
      <3> QED BY <2>1, FS_Subset DEF NatOn
    <2>4. (\A a \in T : g[a] \in Nat) /\ (\A b \in Image(T) : f[b] \in Nat)
      BY <2>1 DEF NatOn
    <2> QED BY <2>1, <2>2, <2>3, <2>4 DEF NatOn
  <1>1. ASSUME NEW T \in SUBSET A, \A U \in SUBSET T : U # T => U \in Good
        PROVE  T \in Good
    <2>1. CASE T = {}
      <3>1. Image(T) = {}
        BY <2>1
      <3> QED BY <2>1, <3>1, SumEmpty
    <2>2. CASE T # {}
      <3> PICK x \in T : TRUE
        BY <2>2
      <3>1. T \ {x} \in Good
        BY <1>1
      <3>2. h[x] \in Image(T)
        OBVIOUS
      <3>3. Image(T \ {x}) = Image(T) \ {h[x]}
        OBVIOUS
      <3>4. SumFunctionOnSet(g, T) = g[x] + SumFunctionOnSet(g, T \ {x})
        <4>1. NatOn(g, T)
          BY <1>0
        <4>2. x \in T
          OBVIOUS
        <4> HIDE DEF Image, Good
        <4> QED BY <4>1, <4>2, SumTakeOut
      <3>5. SumFunctionOnSet(f, Image(T)) = f[h[x]] + SumFunctionOnSet(f, Image(T) \ {h[x]})
        <4>1. NatOn(f, Image(T))
          BY <1>0
        <4> HIDE DEF Image
        <4> QED BY <3>2, <4>1, SumTakeOut
      <3>6. g[x] = f[h[x]]
        OBVIOUS
      <3>7. SumFunctionOnSet(g, T \ {x}) = SumFunctionOnSet(f, Image(T \ {x}))
        BY <3>1
      <3>8. SumFunctionOnSet(g, T) = SumFunctionOnSet(f, Image(T))
        <4> HIDE DEF Image
        <4> QED BY <3>3, <3>4, <3>5, <3>6, <3>7
      <3> QED BY <3>8
    <2> QED BY <2>1, <2>2
  <1>2. SUBSET A \subseteq Good
    <2> HIDE DEF Good
    <2> QED BY <1>1, SubsetInduction
  <1>3. SumFunctionOnSet(g, A) = SumFunctionOnSet(f, Image(A))
    BY <1>2
  <1>4. Image(A) = B
    OBVIOUS
  <1> QED BY <1>3, <1>4

\* The sum of one number, and of none but one.
LEMMA SumOne ==
    ASSUME NEW f, NEW x, f[x] \in Nat
    PROVE  SumFunctionOnSet(f, {x}) = f[x]
  <1>1. NatOn(f, {x}) /\ {x} \ {x} = {}
    BY FS_Singleton DEF NatOn
  <1>2. SumFunctionOnSet(f, {x}) = f[x] + SumFunctionOnSet(f, {x} \ {x})
    BY <1>1, SumTakeOut
  <1> QED BY <1>1, <1>2, SumEmpty

\* A sum of zeros is zero.
LEMMA SumZero ==
    ASSUME NEW f, NEW S, IsFiniteSet(S), \A i \in S : f[i] = 0
    PROVE  SumFunctionOnSet(f, S) = 0
  <1> DEFINE Good == {T \in SUBSET S : SumFunctionOnSet(f, T) = 0}
  <1>1. ASSUME NEW T \in SUBSET S, \A U \in SUBSET T : U # T => U \in Good
        PROVE  T \in Good
    <2>1. CASE T = {}
      BY <2>1, SumEmpty
    <2>2. CASE T # {}
      <3>1. OneOf(T) \in T /\ T \ {OneOf(T)} \in Good /\ IsFiniteSet(T)
        BY <1>1, <2>2, OneIn, FS_Subset
      <3>2. SumFunctionOnSet(f, T) = f[OneOf(T)] + SumFunctionOnSet(f, T \ {OneOf(T)})
        BY <2>2, <3>1, SumStep
      <3> QED BY <3>1, <3>2
    <2> QED BY <2>1, <2>2
  <1>2. SUBSET S \subseteq Good
    <2> HIDE DEF Good
    <2> QED BY <1>1, SubsetInduction
  <1> QED BY <1>2

\* One more at one index is one more in the sum.
LEMMA SumBump ==
    ASSUME NEW f, NEW S, NatOn(f, S), NEW h, NEW x,
           x \in S => h[x] = f[x] + 1, \A i \in S \ {x} : h[i] = f[i]
    PROVE  /\ NatOn(h, S)
           /\ SumFunctionOnSet(h, S) = SumFunctionOnSet(f, S) + (IF x \in S THEN 1 ELSE 0)
  <1>1. \A i \in S : f[i] \in Nat /\ h[i] \in Nat
    BY DEF NatOn
  <1>2. NatOn(h, S) /\ SumFunctionOnSet(f, S) \in Nat
    BY <1>1, SumType DEF NatOn
  <1>3. CASE x \notin S
    <2>1. SumFunctionOnSet(f, S) = SumFunctionOnSet(h, S)
      BY <1>3, SumSame
    <2> QED BY <1>2, <1>3, <2>1
  <1>4. CASE x \in S
    <2>1. NatOn(f, S \ {x})
      BY FS_Subset DEF NatOn
    <2>2. /\ SumFunctionOnSet(f, S \ {x}) = SumFunctionOnSet(h, S \ {x})
          /\ SumFunctionOnSet(f, S \ {x}) \in Nat
      BY <2>1, SumSame, SumType
    <2>3. /\ SumFunctionOnSet(f, S) = f[x] + SumFunctionOnSet(f, S \ {x})
          /\ SumFunctionOnSet(h, S) = h[x] + SumFunctionOnSet(h, S \ {x})
      BY <1>2, <1>4, SumTakeOut
    <2>4. h[x] = f[x] + 1 /\ f[x] \in Nat
      BY <1>1, <1>4
    <2>5. SumFunctionOnSet(h, S) = SumFunctionOnSet(f, S) + 1
      BY <2>2, <2>3, <2>4
    <2> QED BY <1>2, <1>4, <2>5
  <1> QED BY <1>3, <1>4

\* The sum of sums, term by term.
LEMMA SumPlus ==
    ASSUME NEW f, NEW g, NEW h, NEW S, NatOn(f, S), NatOn(g, S),
           \A i \in S : h[i] = f[i] + g[i]
    PROVE  SumFunctionOnSet(h, S) = SumFunctionOnSet(f, S) + SumFunctionOnSet(g, S)
  <1> DEFINE Good == {T \in SUBSET S : SumFunctionOnSet(h, T)
                                          = SumFunctionOnSet(f, T) + SumFunctionOnSet(g, T)}
  <1>1. ASSUME NEW T \in SUBSET S, \A U \in SUBSET T : U # T => U \in Good
        PROVE  T \in Good
    <2>1. CASE T = {}
      BY <2>1, SumEmpty
    <2>2. CASE T # {}
      <3> DEFINE c == OneOf(T)
                 U == T \ {c}
      <3>1. c \in T /\ U \in Good
        BY <1>1, <2>2, OneIn
      <3>2. IsFiniteSet(T) /\ NatOn(f, U) /\ NatOn(g, U)
        BY FS_Subset DEF NatOn
      <3>3. /\ SumFunctionOnSet(f, T) = f[c] + SumFunctionOnSet(f, U)
            /\ SumFunctionOnSet(g, T) = g[c] + SumFunctionOnSet(g, U)
            /\ SumFunctionOnSet(h, T) = h[c] + SumFunctionOnSet(h, U)
        BY <2>2, <3>2, SumStep
      <3>4. SumFunctionOnSet(f, U) \in Nat /\ SumFunctionOnSet(g, U) \in Nat
        BY <3>2, SumType
      <3>5. f[c] \in Nat /\ g[c] \in Nat /\ h[c] = f[c] + g[c]
        BY <3>1 DEF NatOn
      <3>6. SumFunctionOnSet(h, U) = SumFunctionOnSet(f, U) + SumFunctionOnSet(g, U)
        BY <3>1
      <3> HIDE DEF c, U, Good
      <3>7. SumFunctionOnSet(h, T) = SumFunctionOnSet(f, T) + SumFunctionOnSet(g, T)
        BY <3>3, <3>4, <3>5, <3>6
      <3> QED BY <3>7 DEF Good
    <2> QED BY <2>1, <2>2
  <1>2. SUBSET S \subseteq Good
    <2> HIDE DEF Good
    <2> QED BY <1>1, SubsetInduction DEF NatOn
  <1> QED BY <1>2

\* A table by rows m and by columns c, its row sums r and its column sums k.
Table(A, B, m, c, r, k) ==
    /\ IsFiniteSet(A) /\ IsFiniteSet(B)
    /\ m \in [A -> [B -> Nat]] /\ c \in [B -> [A -> Nat]]
    /\ \A a \in A, b \in B : m[a][b] = c[b][a]
    /\ \A a \in A : r[a] = SumFunctionOnSet(m[a], B)
    /\ \A b \in B : k[b] = SumFunctionOnSet(c[b], A)

\* The sum of a table is that of its row sums and that of its column sums.
LEMMA SumTable ==
    ASSUME NEW A, NEW B, NEW m, NEW c, NEW r, NEW k, Table(A, B, m, c, r, k)
    PROVE  SumFunctionOnSet(r, A) = SumFunctionOnSet(k, B)
  <1> USE DEF Table
  <1> DEFINE Rows(P) == [a \in A |-> SumFunctionOnSet(m[a], P)]
             Good == {P \in SUBSET B : SumFunctionOnSet(Rows(P), A) = SumFunctionOnSet(k, P)}
  <1>0. ASSUME NEW P \in SUBSET B
        PROVE  /\ IsFiniteSet(P) /\ NatOn(Rows(P), A) /\ \A a \in A : NatOn(m[a], P)
    <2>1. IsFiniteSet(P)
      BY FS_Subset
    <2>2. ASSUME NEW a \in A PROVE NatOn(m[a], P) /\ SumFunctionOnSet(m[a], P) \in Nat
      <3>1. NatOn(m[a], P)
        BY <2>1 DEF NatOn
      <3> QED BY <3>1, SumType
    <2>3. NatOn(Rows(P), A)
      BY <2>2 DEF NatOn
    <2> QED BY <2>1, <2>2, <2>3
  <1>1. ASSUME NEW P \in SUBSET B, \A U \in SUBSET P : U # P => U \in Good
        PROVE  P \in Good
    <2>1. CASE P = {}
      <3>1. \A a \in A : Rows(P)[a] = 0
        BY <2>1, SumEmpty
      <3> HIDE DEF Rows
      <3>2. SumFunctionOnSet(Rows(P), A) = 0
        BY <3>1, SumZero
      <3>3. SumFunctionOnSet(k, P) = 0
        BY <2>1, SumEmpty
      <3> QED BY <3>2, <3>3
    <2>2. CASE P # {}
      <3> DEFINE x == OneOf(P)
                 U == P \ {x}
      <3>1. x \in P /\ U \in Good
        BY <1>1, <2>2, OneIn
      <3>2. x \in B /\ U \in SUBSET B /\ IsFiniteSet(P)
        BY <1>0, <3>1
      <3>3. ASSUME NEW a \in A PROVE Rows(P)[a] = c[x][a] + Rows(U)[a]
        <4>1. SumFunctionOnSet(m[a], P) = m[a][x] + SumFunctionOnSet(m[a], U)
          BY <2>2, <3>2, SumStep
        <4>2. m[a][x] = c[x][a] /\ Rows(P)[a] = SumFunctionOnSet(m[a], P)
              /\ Rows(U)[a] = SumFunctionOnSet(m[a], U)
          BY <3>2
        <4> QED BY <4>1, <4>2, Zenon
      <3>4. NatOn(c[x], A) /\ NatOn(Rows(U), A)
        <4>1. \A a \in A : c[x][a] \in Nat
          BY <3>2
        <4>2. NatOn(c[x], A)
          BY <4>1 DEF NatOn
        <4> HIDE DEF U
        <4> QED BY <1>0, <3>2, <4>2
      <3>5. k[x] = SumFunctionOnSet(c[x], A)
        BY <3>2
      <3>6. SumFunctionOnSet(k, P) = k[x] + SumFunctionOnSet(k, U)
        BY <2>2, <3>2, SumStep
      <3>7. SumFunctionOnSet(Rows(U), A) = SumFunctionOnSet(k, U)
        BY <3>1
      <3> HIDE DEF x, U, Rows, Good
      <3>8. SumFunctionOnSet(Rows(P), A)
                = SumFunctionOnSet(c[x], A) + SumFunctionOnSet(Rows(U), A)
        BY <3>3, <3>4, SumPlus
      <3>9. SumFunctionOnSet(Rows(P), A) = SumFunctionOnSet(k, P)
        BY <3>5, <3>6, <3>7, <3>8
      <3> QED BY <3>9 DEF Good
    <2> QED BY <2>1, <2>2
  <1>2. SUBSET B \subseteq Good
    <2> HIDE DEF Good
    <2> QED BY <1>1, SubsetInduction
  <1>3. SumFunctionOnSet(Rows(B), A) = SumFunctionOnSet(k, B)
    BY <1>2
  <1>4. \A a \in A : Rows(B)[a] = r[a]
    OBVIOUS
  <1>5. NatOn(Rows(B), A)
    BY <1>0
  <1> HIDE DEF Rows
  <1>6. SumFunctionOnSet(Rows(B), A) = SumFunctionOnSet(r, A)
    BY <1>4, <1>5, SumSame
  <1> QED BY <1>3, <1>6

------------------------------------------------------------------------------
(* The least number of a set *)

LEMMA LeastIn ==
    ASSUME NEW S, IsFiniteSet(S), S # {}, S \subseteq Nat
    PROVE  \E x \in S : \A y \in S : x <= y
  <1> DEFINE Good == {T \in SUBSET S : T # {} => \E x \in T : \A y \in T : x <= y}
  <1>1. ASSUME NEW T \in SUBSET S, \A U \in SUBSET T : U # T => U \in Good, T # {}
        PROVE  \E x \in T : \A y \in T : x <= y
    <2> PICK x \in T : TRUE
      BY <1>1
    <2>1. T \ {x} \in Good
      BY <1>1
    <2>2. CASE T \ {x} = {}
      <3>1. \A y \in T : y = x
        BY <2>2
      <3> QED BY <3>1
    <2>3. CASE T \ {x} # {}
      <3>1. PICK z \in T \ {x} : \A y \in T \ {x} : z <= y
        BY <2>1, <2>3
      <3>2. CASE z <= x
        BY <3>1, <3>2
      <3>3. CASE x < z
        BY <3>1, <3>3
      <3> QED BY <3>2, <3>3
    <2> QED BY <2>2, <2>3
  <1>2. SUBSET S \subseteq Good
    <2>1. ASSUME NEW T \in SUBSET S, \A U \in SUBSET T : U # T => U \in Good
          PROVE  T \in Good
      BY <1>1, <2>1
    <2> HIDE DEF Good
    <2> QED BY <2>1, SubsetInduction
  <1> QED BY <1>2

==============================================================================
