---------------------------- MODULE TxFlowProofs ----------------------------
(***************************************************************************)
(* Proofs about TxFlow, for any screens, requests, wallet and parameters:  *)
(* its invariant, that an error shown is true, that only the chain refuses *)
(* a transaction, and that it implements Books.                            *)
(*                                                                         *)
(* The sums they rest on come first.  The library folds a set by a         *)
(* recursive function on its subsets, which takes one element away at each *)
(* step.  That such a function exists, and what it computes, is shown on a *)
(* smallest subset for which it would fail.                                *)
(***************************************************************************)
EXTENDS TxFlow, SequencesExt, FiniteSetTheorems, SequenceTheorems, WellFoundedInduction,
        TLAPS

(***************************************************************************)
(* Folds.                                                                  *)
(***************************************************************************)

\* A set of subsets of a finite set has a smallest one.
LEMMA LeastSet ==
  ASSUME NEW S, IsFiniteSet(S), NEW Q \in SUBSET (SUBSET S), Q # {}
  PROVE  \E T \in Q : \A U \in Q : ~(U \subseteq T /\ U # T)
<1>1. IsWellFoundedOn(StrictSubsetOrdering(S), SUBSET S)
  BY FS_StrictSubsetOrderingWellFounded, FS_FiniteSubsetsOfFinite
<1>2. \E T \in Q : \A U \in Q : ~ (<<U, T>> \in StrictSubsetOrdering(S))
  BY <1>1, WFMin
<1> QED
  BY <1>2 DEF StrictSubsetOrdering

\* The value of a fold at a set, from its values at smaller ones, and the
\* function with those values at all subsets of a set.
Unfold(base, step, pick, g, s) ==
  IF s = {} THEN base ELSE step[<<pick[s], g[s \ {pick[s]}]>>]

IsFold(base, step, pick, S, g) == g = [s \in SUBSET S |-> Unfold(base, step, pick, g, s)]

\* The functions of two nested sets agree on the smaller one.
LEMMA FoldsAgree ==
  ASSUME NEW base, NEW step, NEW pick, NEW T, IsFiniteSet(T),
         \A s \in SUBSET T : s # {} => pick[s] \in s,
         NEW r, r \subseteq T,
         NEW g, IsFold(base, step, pick, T, g), NEW h, IsFold(base, step, pick, r, h)
  PROVE  g[r] = h[r]
<1> DEFINE Bad == {s \in SUBSET r : g[s] # h[s]}
<1>1. SUFFICES ASSUME Bad # {} PROVE FALSE
  OBVIOUS
<1>2. PICK s \in Bad : \A u \in Bad : ~(u \subseteq s /\ u # s)
  <2>1. Bad \in SUBSET (SUBSET T)
    OBVIOUS
  <2> HIDE DEF Bad
  <2> QED
    BY <1>1, <2>1, LeastSet
<1>3. g[s] = Unfold(base, step, pick, g, s) /\ h[s] = Unfold(base, step, pick, h, s)
  BY <1>2 DEF IsFold
<1>4. CASE s = {}
  BY <1>2, <1>3, <1>4 DEF Unfold
<1>5. CASE s # {}
  <2>1. s \ {pick[s]} \notin Bad
    BY <1>2, <1>5
  <2>2. g[s \ {pick[s]}] = h[s \ {pick[s]}]
    BY <1>2, <2>1
  <2> QED
    BY <1>2, <1>3, <2>2 DEF Unfold
<1> QED
  BY <1>4, <1>5

\* There is such a function: extend those of the strict subsets.
LEMMA FoldExists ==
  ASSUME NEW base, NEW step, NEW pick, NEW S, IsFiniteSet(S),
         \A s \in SUBSET S : s # {} => pick[s] \in s
  PROVE  \E g : IsFold(base, step, pick, S, g)
<1> DEFINE Is(T, g) == IsFold(base, step, pick, T, g)
           At(g, s) == Unfold(base, step, pick, g, s)
           Fold(T) == CHOOSE g : Is(T, g)
           Bad == {T \in SUBSET S : ~ \E g : Is(T, g)}
<1>1. SUFFICES ASSUME Bad # {} PROVE FALSE
  OBVIOUS
<1>2. PICK T \in Bad : \A u \in Bad : ~(u \subseteq T /\ u # T)
  <2>1. Bad \in SUBSET (SUBSET S)
    OBVIOUS
  <2> HIDE DEF Bad
  <2> QED
    BY <1>1, <2>1, LeastSet
<1>3. \A U \in SUBSET T : U # T => Is(U, Fold(U))
  <2> HIDE DEF Is
  <2> QED
    BY <1>2
<1> DEFINE low == [s \in SUBSET T |-> Fold(s)[s]]
           h == [s \in SUBSET T |-> IF s = T THEN At(low, T) ELSE Fold(s)[s]]
<1>4. ASSUME NEW s \in SUBSET T PROVE h[s] = At(h, s)
  <2>1. \A U \in SUBSET T : U # T => Fold(U)[U] = At(Fold(U), U)
    <3>1. ASSUME NEW U, NEW g, Is(U, g) PROVE g[U] = At(g, U)
      BY <3>1 DEF IsFold
    <3> HIDE DEF Is, At, Fold
    <3> QED
      BY <1>3, <3>1
  <2>2. h[s] = IF s = T THEN At(low, T) ELSE Fold(s)[s]
    OBVIOUS
  <2>3. CASE s = {}
    BY <2>1, <2>2, <2>3 DEF Unfold
  <2>4. CASE s # {}
    <3> DEFINE r == s \ {pick[s]}
    <3>1. r \in SUBSET T /\ r # T /\ r # s /\ r \subseteq s
      BY <2>4
    <3>2. h[r] = Fold(r)[r] /\ low[r] = Fold(r)[r]
      BY <3>1
    <3>3. CASE s = T
      BY <2>2, <2>4, <3>2, <3>3 DEF Unfold
    <3>4. CASE s # T
      <4>1. Is(s, Fold(s)) /\ Is(r, Fold(r))
        BY <1>3, <3>1, <3>4
      <4>2. Fold(s)[r] = Fold(r)[r]
        <5>1. IsFiniteSet(s) /\ r \subseteq s /\ \A u \in SUBSET s : u # {} => pick[u] \in u
          BY <1>2, <3>1, FS_Subset
        <5> HIDE DEF Fold, r, h, low
        <5> QED
          BY <4>1, <5>1, FoldsAgree
      <4>3. Fold(s)[s] = At(Fold(s), s) /\ h[s] = Fold(s)[s]
        BY <2>1, <2>2, <3>4
      <4> HIDE DEF h, Fold, low
      <4> QED
        BY <2>4, <3>2, <4>2, <4>3 DEF Unfold
    <3> QED
      BY <3>3, <3>4
  <2> QED
    BY <2>3, <2>4
<1>5. Is(T, h)
  <2>1. h = [s \in SUBSET T |-> h[s]]
    OBVIOUS
  <2>2. [s \in SUBSET T |-> h[s]] = [s \in SUBSET T |-> At(h, s)]
    <3> HIDE DEF h, At
    <3> QED
      BY <1>4
  <2> HIDE DEF h
  <2> QED
    BY <2>1, <2>2 DEF IsFold
<1> HIDE DEF h, Is
<1> QED
  BY <1>2, <1>5

\* Its values stay in a set that the steps do not leave.
LEMMA FoldType ==
  ASSUME NEW base, NEW step, NEW pick, NEW S, IsFiniteSet(S),
         \A s \in SUBSET S : s # {} => pick[s] \in s,
         NEW V, base \in V, \A x \in S, v \in V : step[<<x, v>>] \in V,
         NEW g, IsFold(base, step, pick, S, g)
  PROVE  \A s \in SUBSET S : g[s] \in V
<1> DEFINE Bad == {s \in SUBSET S : g[s] \notin V}
<1>1. SUFFICES ASSUME Bad # {} PROVE FALSE
  OBVIOUS
<1>2. PICK s \in Bad : \A u \in Bad : ~(u \subseteq s /\ u # s)
  <2>1. Bad \in SUBSET (SUBSET S)
    OBVIOUS
  <2> HIDE DEF Bad
  <2> QED
    BY <1>1, <2>1, LeastSet
<1>3. g[s] = Unfold(base, step, pick, g, s)
  BY <1>2 DEF IsFold
<1>4. CASE s = {}
  BY <1>2, <1>3, <1>4 DEF Unfold
<1>5. CASE s # {}
  <2>1. g[s \ {pick[s]}] \in V /\ pick[s] \in S
    BY <1>2, <1>5
  <2>2. g[s] = step[<<pick[s], g[s \ {pick[s]}]>>]
    BY <1>3, <1>5 DEF Unfold
  <2> QED
    BY <1>2, <2>1, <2>2
<1> QED
  BY <1>4, <1>5

(***************************************************************************)
(* Sums.                                                                   *)
(***************************************************************************)

Pick(s) == CHOOSE x \in s : TRUE

LEMMA PickIn == ASSUME NEW s, s # {} PROVE Pick(s) \in s
  BY DEF Pick

SumBody(f, g, s) == IF s = {} THEN 0 ELSE f[Pick(s)] + g[s \ {Pick(s)}]

IsSum(f, S, g) == g = [s \in SUBSET S |-> SumBody(f, g, s)]

SumTable(f, S) == CHOOSE g : g = [s \in SUBSET S |-> SumBody(f, g, s)]

\* The library's sum is the value of that function at the whole set.
LEMMA SumIsTable ==
  ASSUME NEW f, NEW S PROVE SumFunctionOnSet(f, S) = SumTable(f, S)[S]
  BY Zenon DEF SumFunctionOnSet, FoldFunctionOnSet, MapThenFoldSet, SumTable, SumBody, Pick

LEMMA SumTableIs ==
  ASSUME NEW f, NEW S, IsFiniteSet(S), \A e \in S : f[e] \in Int
  PROVE  IsSum(f, S, SumTable(f, S))
<1> DEFINE step == [xv \in S \X Int |-> f[xv[1]] + xv[2]]
           pick == [s \in SUBSET S |-> Pick(s)]
<1>1. \A x \in S, v \in Int : step[<<x, v>>] = f[x] + v /\ step[<<x, v>>] \in Int
  OBVIOUS
<1>2. \A s \in SUBSET S : pick[s] = Pick(s) /\ (s # {} => pick[s] \in s)
  BY PickIn
<1> HIDE DEF step, pick
<1>3. PICK g : IsFold(0, step, pick, S, g)
  BY <1>2, FoldExists
<1>4. \A s \in SUBSET S : g[s] \in Int
  <2> DEFINE V == Int
  <2>1. 0 \in V /\ \A x \in S, v \in V : step[<<x, v>>] \in V
    BY <1>1
  <2> HIDE DEF V
  <2>2. \A s \in SUBSET S : g[s] \in V
    BY <1>2, <1>3, <2>1, FoldType
  <2> QED
    BY <2>2 DEF V
<1>5. \A s \in SUBSET S : Unfold(0, step, pick, g, s) = SumBody(f, g, s)
  <2> TAKE s \in SUBSET S
  <2>1. CASE s = {}
    BY <2>1 DEF Unfold, SumBody
  <2>2. CASE s # {}
    <3>1. Pick(s) \in S /\ pick[s] = Pick(s) /\ g[s \ {Pick(s)}] \in Int
      BY <1>2, <1>4, <2>2
    <3> QED
      BY <1>1, <2>2, <3>1 DEF Unfold, SumBody
  <2> QED
    BY <2>1, <2>2
<1>6. IsSum(f, S, g)
  BY <1>3, <1>5 DEF IsFold, IsSum
<1> QED
  BY <1>6 DEF SumTable, IsSum

LEMMA SumsAgree ==
  ASSUME NEW f, NEW T, IsFiniteSet(T), NEW r, r \subseteq T,
         NEW g, IsSum(f, T, g), NEW h, IsSum(f, r, h)
  PROVE  g[r] = h[r]
<1> DEFINE Bad == {s \in SUBSET r : g[s] # h[s]}
<1>1. SUFFICES ASSUME Bad # {} PROVE FALSE
  OBVIOUS
<1>2. PICK s \in Bad : \A u \in Bad : ~(u \subseteq s /\ u # s)
  <2>1. Bad \in SUBSET (SUBSET T)
    OBVIOUS
  <2> HIDE DEF Bad
  <2> QED
    BY <1>1, <2>1, LeastSet
<1>3. g[s] = SumBody(f, g, s) /\ h[s] = SumBody(f, h, s)
  BY <1>2 DEF IsSum
<1>4. CASE s = {}
  BY <1>2, <1>3, <1>4 DEF SumBody
<1>5. CASE s # {}
  <2>1. s \ {Pick(s)} \notin Bad
    BY <1>2, <1>5, PickIn
  <2>2. g[s \ {Pick(s)}] = h[s \ {Pick(s)}]
    BY <1>2, <2>1
  <2> QED
    BY <1>2, <1>3, <2>2 DEF SumBody
<1> QED
  BY <1>4, <1>5

\* A sum is one of its elements and the sum of the others.
LEMMA SumEquation ==
  ASSUME NEW f, NEW S, IsFiniteSet(S), \A e \in S : f[e] \in Int
  PROVE  /\ SumFunctionOnSet(f, {}) = 0
         /\ S # {} => SumFunctionOnSet(f, S) = f[Pick(S)] + SumFunctionOnSet(f, S \ {Pick(S)})
<1>1. \A T \in SUBSET S : IsSum(f, T, SumTable(f, T))
  <2> TAKE T \in SUBSET S
  <2> QED
    BY SumTableIs, FS_Subset
<1>2. SumFunctionOnSet(f, {}) = 0
  <2>1. IsSum(f, {}, SumTable(f, {}))
    BY <1>1
  <2>2. SumTable(f, {})[{}] = SumBody(f, SumTable(f, {}), {})
    BY <2>1 DEF IsSum
  <2> QED
    BY <2>2, SumIsTable DEF SumBody
<1>3. ASSUME S # {} PROVE SumFunctionOnSet(f, S) = f[Pick(S)] + SumFunctionOnSet(f, S \ {Pick(S)})
  <2> DEFINE R == S \ {Pick(S)}
  <2>1. IsSum(f, S, SumTable(f, S)) /\ IsSum(f, R, SumTable(f, R))
    BY <1>1
  <2>2. SumTable(f, S)[S] = SumBody(f, SumTable(f, S), S)
    BY <2>1 DEF IsSum
  <2>3. SumTable(f, S)[R] = SumTable(f, R)[R]
    <3>1. R \subseteq S
      OBVIOUS
    <3> HIDE DEF R
    <3> QED
      BY <2>1, <3>1, SumsAgree
  <2> QED
    BY <1>3, <2>2, <2>3, SumIsTable DEF SumBody
<1> QED
  BY <1>2, <1>3

\* It does not matter which element is taken away.
LEMMA SumAdd ==
  ASSUME NEW f, NEW S, IsFiniteSet(S), \A e \in S : f[e] \in Int
  PROVE  /\ SumFunctionOnSet(f, S) \in Int
         /\ \A x \in S : SumFunctionOnSet(f, S) = f[x] + SumFunctionOnSet(f, S \ {x})
<1> DEFINE Sum(T) == SumFunctionOnSet(f, T)
           Good(T) == Sum(T) \in Int /\ \A x \in T : Sum(T) = f[x] + Sum(T \ {x})
           Bad == {T \in SUBSET S : ~Good(T)}
<1>1. SUFFICES ASSUME Bad # {} PROVE FALSE
  OBVIOUS
<1>2. PICK T \in Bad : \A u \in Bad : ~(u \subseteq T /\ u # T)
  <2>1. Bad \in SUBSET (SUBSET S)
    OBVIOUS
  <2> HIDE DEF Bad
  <2> QED
    BY <1>1, <2>1, LeastSet
<1> DEFINE p == Pick(T)
<1>3. \A U : U \subseteq T /\ U # T => Good(U)
  <2> HIDE DEF Good
  <2> QED
    BY <1>2
<1>4. Sum({}) = 0 /\ (T # {} => Sum(T) = f[p] + Sum(T \ {p}))
  <2>1. IsFiniteSet(T)
    BY <1>2, FS_Subset
  <2> QED
    BY <2>1, SumEquation
<1>5. CASE T = {}
  BY <1>2, <1>4, <1>5
<1>6. CASE T # {}
  <2>1. p \in T /\ f[p] \in Int /\ Good(T \ {p})
    BY <1>2, <1>3, <1>6, PickIn
  <2>2. Sum(T) \in Int
    BY <1>4, <1>6, <2>1
  <2>3. ASSUME NEW x \in T, x # p PROVE Sum(T) = f[x] + Sum(T \ {x})
    <3> DEFINE R == (T \ {p}) \ {x}
    <3>1. R = (T \ {x}) \ {p} /\ x \in T \ {p} /\ p \in T \ {x} /\ f[x] \in Int
      BY <1>2, <2>1, <2>3
    <3>2. Good(T \ {x}) /\ Good(R)
      BY <1>3, <2>3
    <3>3. Sum(T \ {p}) = f[x] + Sum(R) /\ Sum(T \ {x}) = f[p] + Sum(R) /\ Sum(R) \in Int
      BY <2>1, <3>1, <3>2
    <3> QED
      BY <1>4, <1>6, <2>1, <3>1, <3>3
  <2> QED
    BY <1>2, <1>4, <1>6, <2>2, <2>3
<1> QED
  BY <1>5, <1>6

\* One more element adds its value.
LEMMA SumInsert ==
  ASSUME NEW f, NEW S, IsFiniteSet(S), \A e \in S : f[e] \in Int, NEW x, x \notin S, f[x] \in Int
  PROVE  SumFunctionOnSet(f, S \cup {x}) = SumFunctionOnSet(f, S) + f[x]
<1>1. IsFiniteSet(S \cup {x}) /\ \A e \in S \cup {x} : f[e] \in Int
  BY FS_AddElement
<1>2. SumFunctionOnSet(f, S \cup {x}) = f[x] + SumFunctionOnSet(f, (S \cup {x}) \ {x})
  BY <1>1, SumAdd
<1>3. SumFunctionOnSet(f, (S \cup {x}) \ {x}) = SumFunctionOnSet(f, S)
  <2>1. (S \cup {x}) \ {x} = S
    OBVIOUS
  <2> QED
    BY <2>1, Zenon
<1>4. SumFunctionOnSet(f, S) \in Int
  BY SumAdd
<1> QED
  BY <1>2, <1>3, <1>4

\* Functions that agree on a set have the same sum over it.
LEMMA SumSame ==
  ASSUME NEW f, NEW g, NEW S, IsFiniteSet(S), \A e \in S : f[e] \in Int /\ g[e] = f[e]
  PROVE  SumFunctionOnSet(g, S) = SumFunctionOnSet(f, S)
<1> DEFINE Bad == {T \in SUBSET S : SumFunctionOnSet(g, T) # SumFunctionOnSet(f, T)}
<1>1. SUFFICES ASSUME Bad # {} PROVE FALSE
  OBVIOUS
<1>2. PICK T \in Bad : \A u \in Bad : ~(u \subseteq T /\ u # T)
  <2>1. Bad \in SUBSET (SUBSET S)
    OBVIOUS
  <2> HIDE DEF Bad
  <2> QED
    BY <1>1, <2>1, LeastSet
<1>3. IsFiniteSet(T) /\ \A e \in T : f[e] \in Int /\ g[e] = f[e]
  BY <1>2, FS_Subset
<1>4. /\ SumFunctionOnSet(f, {}) = 0
      /\ T # {} => SumFunctionOnSet(f, T) = f[Pick(T)] + SumFunctionOnSet(f, T \ {Pick(T)})
  BY <1>3, SumEquation
<1>5. /\ SumFunctionOnSet(g, {}) = 0
      /\ T # {} => SumFunctionOnSet(g, T) = g[Pick(T)] + SumFunctionOnSet(g, T \ {Pick(T)})
  <2>1. \A e \in T : g[e] \in Int
    BY <1>3
  <2> QED
    BY <1>3, <2>1, SumEquation
<1>6. T # {} => SumFunctionOnSet(g, T \ {Pick(T)}) = SumFunctionOnSet(f, T \ {Pick(T)})
  BY <1>2, PickIn
<1>7. T # {} => g[Pick(T)] = f[Pick(T)]
  BY <1>3, PickIn
<1> QED
  BY <1>2, <1>4, <1>5, <1>6, <1>7

\* A sum of natural numbers is one.
LEMMA SumNat ==
  ASSUME NEW f, NEW S, IsFiniteSet(S), \A e \in S : f[e] \in Nat
  PROVE  SumFunctionOnSet(f, S) \in Nat
<1> DEFINE Bad == {T \in SUBSET S : SumFunctionOnSet(f, T) \notin Nat}
<1>1. SUFFICES ASSUME Bad # {} PROVE FALSE
  OBVIOUS
<1>2. PICK T \in Bad : \A u \in Bad : ~(u \subseteq T /\ u # T)
  <2>1. Bad \in SUBSET (SUBSET S)
    OBVIOUS
  <2> HIDE DEF Bad
  <2> QED
    BY <1>1, <2>1, LeastSet
<1>3. IsFiniteSet(T) /\ \A e \in T : f[e] \in Int
  BY <1>2, FS_Subset
<1>4. /\ SumFunctionOnSet(f, {}) = 0
      /\ T # {} => SumFunctionOnSet(f, T) = f[Pick(T)] + SumFunctionOnSet(f, T \ {Pick(T)})
  BY <1>3, SumEquation
<1>5. T # {} => SumFunctionOnSet(f, T \ {Pick(T)}) \in Nat /\ f[Pick(T)] \in Nat
  BY <1>2, PickIn
<1> QED
  BY <1>2, <1>4, <1>5

\* Nothing sums up to nothing.
LEMMA SumZero ==
  ASSUME NEW f, NEW S, IsFiniteSet(S), \A e \in S : f[e] = 0
  PROVE  SumFunctionOnSet(f, S) = 0
<1> DEFINE Bad == {T \in SUBSET S : SumFunctionOnSet(f, T) # 0}
<1>1. SUFFICES ASSUME Bad # {} PROVE FALSE
  OBVIOUS
<1>2. PICK T \in Bad : \A u \in Bad : ~(u \subseteq T /\ u # T)
  <2>1. Bad \in SUBSET (SUBSET S)
    OBVIOUS
  <2> HIDE DEF Bad
  <2> QED
    BY <1>1, <2>1, LeastSet
<1>3. IsFiniteSet(T) /\ \A e \in T : f[e] \in Int
  BY <1>2, FS_Subset
<1>4. /\ SumFunctionOnSet(f, {}) = 0
      /\ T # {} => SumFunctionOnSet(f, T) = f[Pick(T)] + SumFunctionOnSet(f, T \ {Pick(T)})
  BY <1>3, SumEquation
<1>5. ASSUME T # {} PROVE SumFunctionOnSet(f, T \ {Pick(T)}) = 0 /\ f[Pick(T)] = 0
  <2>1. Pick(T) \in T /\ T \in SUBSET S
    BY <1>2, <1>5, PickIn
  <2>2. T \ {Pick(T)} \in SUBSET S /\ T \ {Pick(T)} \notin Bad
    BY <1>2, <2>1
  <2> QED
    BY <2>1, <2>2
<1>6. SumFunctionOnSet(f, T) # 0
  BY <1>2
<1>7. CASE T = {}
  <2>1. SumFunctionOnSet(f, T) = SumFunctionOnSet(f, {})
    BY <1>7, Zenon
  <2> QED
    BY <1>4, <1>6, <2>1
<1>8. CASE T # {}
  <2> HIDE DEF Bad
  <2> QED
    BY <1>4, <1>5, <1>6, <1>8
<1> QED
  BY <1>7, <1>8

\* A sum is the sum over a part and over the rest.
LEMMA SumSplit ==
  ASSUME NEW f, NEW S, IsFiniteSet(S), \A e \in S : f[e] \in Int, NEW P \in SUBSET S
  PROVE  SumFunctionOnSet(f, S) = SumFunctionOnSet(f, P) + SumFunctionOnSet(f, S \ P)
<1> DEFINE Sum(T) == SumFunctionOnSet(f, T)
           Bad == {T \in SUBSET P : Sum(S) # Sum(T) + Sum(S \ T)}
<1>1. SUFFICES ASSUME Bad # {} PROVE FALSE
  OBVIOUS
<1>2. PICK T \in Bad : \A u \in Bad : ~(u \subseteq T /\ u # T)
  <2>1. Bad \in SUBSET (SUBSET S)
    OBVIOUS
  <2> HIDE DEF Bad
  <2> QED
    BY <1>1, <2>1, LeastSet
<1>3. \A U \in SUBSET S : IsFiniteSet(U) /\ Sum(U) \in Int
  <2> TAKE U \in SUBSET S
  <2>1. IsFiniteSet(U) /\ \A e \in U : f[e] \in Int
    BY FS_Subset
  <2> QED
    BY <2>1, SumAdd
<1>4. Sum({}) = 0
  BY SumEquation
<1>5. CASE T = {}
  <2>1. S \ T = S
    BY <1>5
  <2> QED
    BY <1>2, <1>3, <1>4, <1>5, <2>1
<1>6. CASE T # {}
  <2> DEFINE x == Pick(T)
             R == T \ {x}
  <2>1. x \in T /\ R \subseteq T /\ R # T /\ R \in SUBSET P /\ T \in SUBSET S
    BY <1>2, <1>6, PickIn
  <2>2. Sum(S) = Sum(R) + Sum(S \ R)
    BY <1>2, <2>1
  <2>3. Sum(T) = f[x] + Sum(R)
    BY <1>3, <2>1, SumAdd
  <2>4. Sum(S \ R) = f[x] + Sum(S \ T)
    <3>1. (S \ R) \ {x} = S \ T /\ x \in S \ R /\ IsFiniteSet(S \ R) /\ \A e \in S \ R : f[e] \in Int
      BY <1>3, <2>1
    <3> DEFINE U == S \ R
    <3>2. SumFunctionOnSet(f, U) = f[x] + SumFunctionOnSet(f, U \ {x})
      <4>1. IsFiniteSet(U) /\ x \in U /\ \A e \in U : f[e] \in Int
        BY <3>1
      <4> HIDE DEF x, U
      <4> QED
        BY <4>1, SumAdd
    <3>3. SumFunctionOnSet(f, U \ {x}) = SumFunctionOnSet(f, S \ T)
      BY <3>1, Zenon
    <3> HIDE DEF x
    <3> QED
      BY <3>2, <3>3
  <2>5. f[x] \in Int /\ Sum(R) \in Int /\ Sum(S \ T) \in Int /\ S \ T \in SUBSET S
    BY <1>3, <2>1
  <2> HIDE DEF x, R, Sum
  <2>6. Sum(S) = Sum(T) + Sum(S \ T)
    BY <2>2, <2>3, <2>4, <2>5
  <2> QED
    BY <1>2, <2>6
<1> QED
  BY <1>5, <1>6

\* Fewer natural numbers do not sum up to more.
LEMMA SumMonotone ==
  ASSUME NEW f, NEW S, IsFiniteSet(S), \A e \in S : f[e] \in Nat, NEW P \in SUBSET S
  PROVE  SumFunctionOnSet(f, P) <= SumFunctionOnSet(f, S)
<1> DEFINE R == S \ P
<1>1. IsFiniteSet(P) /\ IsFiniteSet(R)
  BY FS_Subset
<1>2. SumFunctionOnSet(f, S) = SumFunctionOnSet(f, P) + SumFunctionOnSet(f, R)
  BY SumSplit
<1>3. SumFunctionOnSet(f, P) \in Nat
  BY <1>1, SumNat
<1>4. SumFunctionOnSet(f, R) \in Nat
  <2>1. \A e \in R : f[e] \in Nat
    OBVIOUS
  <2> HIDE DEF R
  <2> QED
    BY <1>1, <2>1, SumNat
<1> QED
  BY <1>2, <1>3, <1>4

\* A sum over one set is the sum over another whose elements rename its own.
LEMMA SumRenamed ==
  ASSUME NEW f, NEW S, IsFiniteSet(S), \A e \in S : f[e] \in Int,
         NEW r, \A x, y \in S : r[x] = r[y] => x = y,
         NEW g, \A e \in S : g[r[e]] = f[e]
  PROVE  SumFunctionOnSet(g, {r[e] : e \in S}) = SumFunctionOnSet(f, S)
<1> DEFINE Image(T) == {r[e] : e \in T}
           Bad == {T \in SUBSET S : SumFunctionOnSet(g, Image(T)) # SumFunctionOnSet(f, T)}
<1>1. SUFFICES ASSUME Bad # {} PROVE FALSE
  OBVIOUS
<1>2. PICK T \in Bad : \A u \in Bad : ~(u \subseteq T /\ u # T)
  <2>1. Bad \in SUBSET (SUBSET S)
    OBVIOUS
  <2> HIDE DEF Bad
  <2> QED
    BY <1>1, <2>1, LeastSet
<1>3. IsFiniteSet(T) /\ \A e \in T : f[e] \in Int /\ g[r[e]] = f[e]
  BY <1>2, FS_Subset
<1>4. \A e \in Image(T) : g[e] \in Int
  BY <1>3
<1>5. CASE T = {}
  <2>1. Image(T) = {}
    BY <1>5
  <2>2. SumFunctionOnSet(g, Image(T)) = SumFunctionOnSet(g, {}) /\ SumFunctionOnSet(f, T) = SumFunctionOnSet(f, {})
    BY <1>5, <2>1, Zenon
  <2>3. IsFiniteSet({}) /\ \A e \in {} : f[e] \in Int /\ g[e] \in Int
    BY FS_EmptySet
  <2>4. SumFunctionOnSet(g, {}) = 0 /\ SumFunctionOnSet(f, {}) = 0
    BY <2>3, SumEquation
  <2> QED
    BY <1>2, <2>2, <2>4
<1>6. CASE T # {}
  <2> DEFINE x == Pick(T)
             R == T \ {x}
             Q == Image(R)
  <2>1. x \in T /\ R \subseteq T /\ R # T /\ R \in SUBSET S
    BY <1>2, <1>6, PickIn
  <2>2. SumFunctionOnSet(f, T) = f[x] + SumFunctionOnSet(f, R)
    BY <1>3, <2>1, SumAdd
  <2>3. SumFunctionOnSet(g, Q) = SumFunctionOnSet(f, R)
    BY <1>2, <2>1
  <2>4. IsFiniteSet(Q) /\ r[x] \notin Q /\ Image(T) = Q \cup {r[x]}
    <3>1. IsFiniteSet(R)
      BY <1>3, <2>1, FS_Subset
    <3> DEFINE h == [e \in R |-> r[e]]
    <3>2. h \in Surjection(R, Q)
      BY DEF Surjection
    <3> HIDE DEF h, R, Q
    <3>3. IsFiniteSet(Q)
      BY <3>1, <3>2, FS_Surjection
    <3> USE DEF R, Q
    <3>4. r[x] \notin Q
      BY <1>2, <2>1
    <3>5. Image(T) = Q \cup {r[x]}
      BY <2>1
    <3> QED
      BY <3>3, <3>4, <3>5
  <2>5. g[r[x]] = f[x] /\ f[x] \in Int /\ \A e \in Q : g[e] \in Int
    BY <1>3, <2>1
  <2> HIDE DEF Q, x
  <2>6. SumFunctionOnSet(g, Q \cup {r[x]}) = SumFunctionOnSet(g, Q) + g[r[x]]
    BY <2>4, <2>5, SumInsert
  <2>7. SumFunctionOnSet(g, Image(T)) = SumFunctionOnSet(g, Q \cup {r[x]})
    BY <2>4, Zenon
  <2>8. SumFunctionOnSet(f, R) \in Int
    <3>1. IsFiniteSet(R) /\ \A e \in R : f[e] \in Int
      BY <1>3, FS_Subset
    <3> HIDE DEF R
    <3> QED
      BY <3>1, SumAdd
  <2> QED
    BY <1>2, <2>2, <2>3, <2>5, <2>6, <2>7, <2>8
<1> QED
  BY <1>5, <1>6

\* The sum over no element, and over one.
LEMMA SumEmpty == ASSUME NEW f PROVE SumFunctionOnSet(f, {}) = 0
<1>1. IsFiniteSet({}) /\ \A e \in {} : f[e] \in Int
  BY FS_EmptySet
<1> QED
  BY <1>1, SumEquation

LEMMA SumOne ==
  ASSUME NEW f, NEW x, f[x] \in Int
  PROVE  SumFunctionOnSet(f, {x}) = f[x]
<1>1. IsFiniteSet({}) /\ (\A e \in {} : f[e] \in Int) /\ x \notin {}
  BY FS_EmptySet
<1>2. SumFunctionOnSet(f, {} \cup {x}) = SumFunctionOnSet(f, {}) + f[x]
  BY <1>1, SumInsert
<1>3. {} \cup {x} = {x}
  OBVIOUS
<1>4. SumFunctionOnSet(f, {x}) = SumFunctionOnSet(f, {} \cup {x})
  BY <1>3, Zenon
<1> QED
  BY <1>2, <1>4, SumEmpty

\* One more at the end.
LEMMA SumLonger ==
  ASSUME NEW n \in Nat, NEW f, \A i \in 1 .. n : f[i] \in Int,
         NEW g, \A i \in 1 .. n : g[i] = f[i], g[n + 1] \in Int
  PROVE  SumFunctionOnSet(g, 1 .. (n + 1)) = SumFunctionOnSet(f, 1 .. n) + g[n + 1]
<1>1. IsFiniteSet(1 .. n)
  BY FS_Interval
<1>2. SumFunctionOnSet(g, 1 .. n) = SumFunctionOnSet(f, 1 .. n)
  BY <1>1, SumSame
<1>3. SumFunctionOnSet(g, (1 .. n) \cup {n + 1}) = SumFunctionOnSet(g, 1 .. n) + g[n + 1]
  <2> DEFINE D == 1 .. n
             x == n + 1
  <2>1. IsFiniteSet(D) /\ (\A e \in D : g[e] \in Int) /\ x \notin D /\ g[x] \in Int
    BY <1>1
  <2> HIDE DEF D, x
  <2>2. SumFunctionOnSet(g, D \cup {x}) = SumFunctionOnSet(g, D) + g[x]
    BY <2>1, SumInsert
  <2> QED
    BY <2>2 DEF D, x
<1>4. (1 .. n) \cup {n + 1} = 1 .. (n + 1)
  OBVIOUS
<1>5. SumFunctionOnSet(g, 1 .. (n + 1)) = SumFunctionOnSet(g, (1 .. n) \cup {n + 1})
  BY <1>4, Zenon
<1> QED
  BY <1>2, <1>3, <1>5

(***************************************************************************)
(* Checks in order.                                                        *)
(***************************************************************************)

LEMMA FirstOfNone ==
  ASSUME NEW checks, \A i \in DOMAIN checks : checks[i] = "None"
  PROVE  First(checks) = "None"
  BY DEF First

\* The error of the first check that fails.
LEMMA FirstAt ==
  ASSUME NEW checks, DOMAIN checks \subseteq Nat, NEW n \in DOMAIN checks, checks[n] # "None",
         \A i \in DOMAIN checks : i < n => checks[i] = "None"
  PROVE  First(checks) = checks[n]
<1> DEFINE bad == {i \in DOMAIN checks : checks[i] # "None"}
           least == CHOOSE i \in bad : \A j \in bad : i <= j
<1>1. n \in bad /\ bad \subseteq Nat
  OBVIOUS
<1>2. \A j \in bad : n <= j
  OBVIOUS
<1>3. First(checks) = IF bad = {} THEN "None" ELSE checks[least]
  BY DEF First
<1> HIDE DEF bad
<1>4. least \in bad /\ least <= n
  BY <1>1, <1>2
<1>5. least = n
  <2> HIDE DEF least
  <2> QED
    BY <1>1, <1>2, <1>4
<1> HIDE DEF least
<1> QED
  BY <1>1, <1>3, <1>5

\* No error means that no check fails, and an error is that of one of them.
LEMMA FirstOfSome ==
  ASSUME NEW checks, NEW n \in Nat, DOMAIN checks \subseteq 1 .. n
  PROVE  /\ First(checks) = "None" <=> \A i \in DOMAIN checks : checks[i] = "None"
         /\ First(checks) # "None" => \E i \in DOMAIN checks : First(checks) = checks[i]
<1> DEFINE bad == {i \in DOMAIN checks : checks[i] # "None"}
<1>1. CASE bad = {}
  BY <1>1, FirstOfNone
<1>2. CASE bad # {}
  <2>1. bad \subseteq 1 .. n
    OBVIOUS
  <2>2. \E i \in bad : \A j \in bad : i <= j
    <3> DEFINE Low == {{j \in 1 .. n : j <= i} : i \in bad}
    <3>1. Low \in SUBSET (SUBSET (1 .. n)) /\ Low # {}
      BY <1>2, <2>1
    <3>2. \E T \in Low : \A U \in Low : ~(U \subseteq T /\ U # T)
      <4> DEFINE D == 1 .. n
      <4> HIDE DEF Low
      <4>1. IsFiniteSet(D)
        BY FS_Interval
      <4>2. Low \in SUBSET (SUBSET D) /\ Low # {}
        BY <3>1
      <4> HIDE DEF D
      <4> QED
        BY <4>1, <4>2, LeastSet
    <3>3. PICK i \in bad : \A U \in Low : ~(U \subseteq {j \in 1 .. n : j <= i} /\ U # {j \in 1 .. n : j <= i})
      BY <3>2
    <3>4. ASSUME NEW k \in bad, ~(i <= k) PROVE FALSE
      <4> DEFINE U == {j \in 1 .. n : j <= k}
                 T == {j \in 1 .. n : j <= i}
      <4>1. U \in Low
        OBVIOUS
      <4>2. k \in Nat /\ i \in 1 .. n /\ k < i
        BY <2>1, <3>4
      <4>3. U \subseteq T /\ i \in T /\ i \notin U
        BY <4>2
      <4> HIDE DEF U, T, Low
      <4>4. ~(U \subseteq T /\ U # T)
        BY <3>3, <4>1 DEF T
      <4> QED
        BY <4>3, <4>4
    <3> QED
      BY <3>4
  <2>3. PICK i \in bad : \A j \in bad : i <= j
    BY <2>2
  <2>4. DOMAIN checks \subseteq Nat /\ i \in DOMAIN checks /\ checks[i] # "None"
    BY <2>1
  <2>5. \A j \in DOMAIN checks : j < i => checks[j] = "None"
    BY <2>1, <2>3
  <2>6. First(checks) = checks[i]
    BY <2>4, <2>5, FirstAt
  <2> QED
    BY <2>4, <2>6
<1> QED
  BY <1>1, <1>2

(***************************************************************************)
(* Sequences.                                                              *)
(***************************************************************************)

\* A set of numbers has a greatest one, and one below a bound a least one.
LEMMA Greatest ==
  ASSUME NEW S, IsFiniteSet(S), S \subseteq Int, S # {}
  PROVE  Max(S) \in S /\ \A y \in S : Max(S) >= y
<1> DEFINE Above(x) == {y \in S : y > x}
           Q == {Above(x) : x \in S}
<1>1. Q \in SUBSET (SUBSET S) /\ Q # {}
  OBVIOUS
<1> HIDE DEF Q
<1>2. PICK T \in Q : \A U \in Q : ~(U \subseteq T /\ U # T)
  <2>1. IsFiniteSet(S) /\ Q \in SUBSET (SUBSET S) /\ Q # {}
    BY <1>1
  <2> HIDE DEF Above
  <2> QED
    BY ONLY <2>1, LeastSet
<1>3. PICK x \in S : \A U \in Q : ~(U \subseteq Above(x) /\ U # Above(x))
  <2>1. PICK x \in S : T = Above(x)
    BY DEF Q
  <2> QED
    BY <1>2, <2>1
<1>4. ASSUME NEW y \in S, ~(x >= y) PROVE FALSE
  <2>1. x \in Int /\ y \in Int /\ y > x
    BY <1>4
  <2>2. Above(y) \subseteq Above(x) /\ y \in Above(x) /\ y \notin Above(y)
    <3>1. \A z \in S : z \in Int /\ (z > y => z > x)
      BY <2>1
    <3>2. ~(y > y)
      BY <2>1
    <3> QED
      BY <2>1, <3>1, <3>2
  <2>3. Above(y) \in Q
    BY DEF Q
  <2> HIDE DEF Above
  <2> QED
    BY <1>3, <2>2, <2>3
<1>5. \E z \in S : \A y \in S : z >= y
  BY <1>4
<1> QED
  BY <1>5, Zenon DEF Max

LEMMA LeastNumber ==
  ASSUME NEW n \in Nat, NEW B, B \subseteq 0 .. n, B # {}
  PROVE  \E k \in B : \A m \in B : k <= m
<1> DEFINE S == {-k : k \in B}
<1>1. IsFiniteSet(B) /\ \A k \in B : k \in Int
  <2> DEFINE D == 0 .. n
  <2>1. IsFiniteSet(D) /\ B \subseteq D
    BY FS_Interval
  <2>2. \A k \in B : k \in Int
    OBVIOUS
  <2> HIDE DEF D
  <2> QED
    BY <2>1, <2>2, FS_Subset
<1> DEFINE f == [k \in B |-> -k]
<1>2. IsFiniteSet(S)
  <2>1. f \in Surjection(B, S)
    BY DEF Surjection
  <2> HIDE DEF f, S
  <2> QED
    BY <1>1, <2>1, FS_Surjection
<1>3. S \subseteq Int /\ S # {}
  BY <1>1
<1>4. Max(S) \in S /\ \A y \in S : Max(S) >= y
  <2> HIDE DEF S
  <2> QED
    BY <1>2, <1>3, Greatest
<1>5. PICK k \in B : Max(S) = -k
  BY <1>4
<1>6. \A m \in B : -m \in S
  OBVIOUS
<1>7. \A m \in B : k <= m
  <2> TAKE m \in B
  <2>1. k \in Int /\ m \in Int
    BY <1>1
  <2>2. -k >= -m
    <3> HIDE DEF S
    <3> QED
      BY <1>4, <1>5, <1>6
  <2> QED
    BY <2>1, <2>2
<1> QED
  BY <1>7

\* A fold from the left: the greatest index is taken away first.
LastOf(D) == [s \in SUBSET D |-> Max(s)]

LEMMA LastOfIs ==
  ASSUME NEW n \in Nat
  PROVE  /\ \A s \in SUBSET (1 .. n) : s # {} => LastOf(1 .. n)[s] \in s
         /\ \A k \in 1 .. n : /\ LastOf(1 .. n)[1 .. k] = k /\ Max(1 .. k) = k
                              /\ (1 .. k) \ {k} = 1 .. (k - 1) /\ 1 .. k # {}
                              /\ 1 .. k \in SUBSET (1 .. n) /\ 1 .. (k - 1) \in SUBSET (1 .. n)
<1>1. ASSUME NEW s \in SUBSET (1 .. n), s # {} PROVE Max(s) \in s /\ \A y \in s : Max(s) >= y
  <2>1. IsFiniteSet(s) /\ s \subseteq Int
    <3> DEFINE D == 1 .. n
    <3>1. IsFiniteSet(D) /\ s \subseteq D
      BY FS_Interval
    <3>2. s \subseteq Int
      OBVIOUS
    <3> HIDE DEF D
    <3> QED
      BY <3>1, <3>2, FS_Subset
  <2> QED
    BY <1>1, <2>1, Greatest
<1>2. ASSUME NEW k \in 1 .. n
      PROVE  /\ Max(1 .. k) = k /\ (1 .. k) \ {k} = 1 .. (k - 1) /\ 1 .. k # {}
             /\ 1 .. k \in SUBSET (1 .. n) /\ 1 .. (k - 1) \in SUBSET (1 .. n)
  <2>1. 1 .. k \in SUBSET (1 .. n) /\ k \in 1 .. k /\ 1 .. (k - 1) \in SUBSET (1 .. n)
    OBVIOUS
  <2> DEFINE K == 1 .. k
  <2>2. Max(K) \in K /\ \A y \in K : Max(K) >= y
    <3>1. K \in SUBSET (1 .. n) /\ K # {}
      BY <2>1
    <3> HIDE DEF K
    <3> QED
      BY <1>1, <3>1
  <2> DEFINE x == Max(K)
  <2>3. x \in 1 .. k /\ x >= k
    BY <2>1, <2>2
  <2> HIDE DEF x
  <2>4. x = k
    BY <2>3
  <2>5. (1 .. k) \ {k} = 1 .. (k - 1)
    OBVIOUS
  <2> QED
    BY <2>1, <2>4, <2>5 DEF x
<1> QED
  BY <1>1, <1>2 DEF LastOf

\* Sequences one after the other.
Joined(l, f) == f = [i \in 1 .. Len(l) |-> IF i = 1 THEN l[i] ELSE f[i - 1] \o l[i]]

JoinTable(l) == CHOOSE f : Joined(l, f)

LEMMA FlattenIs ==
  ASSUME NEW l PROVE FlattenSeq(l) = IF Len(l) = 0 THEN l ELSE JoinTable(l)[Len(l)]
  BY Zenon DEF FlattenSeq, JoinTable, Joined

LEMMA JoinTableIs ==
  ASSUME NEW X, NEW l \in Seq(Seq(X))
  PROVE  Joined(l, JoinTable(l)) /\ \A i \in 1 .. Len(l) : JoinTable(l)[i] \in Seq(X)
<1> DEFINE n == Len(l)
           D == 1 .. n
           V == Seq(X)
           pick == LastOf(D)
           step == [xv \in D \X V |-> xv[2] \o l[xv[1]]]
<1>1. n \in Nat /\ IsFiniteSet(D) /\ \A i \in D : l[i] \in V
  BY FS_Interval
<1>2. <<>> \in V /\ \A x \in D, v \in V : step[<<x, v>>] = v \o l[x] /\ step[<<x, v>>] \in V
  <2>1. \A x \in D, v \in V : step[<<x, v>>] = v \o l[x]
    OBVIOUS
  <2>2. \A x \in D, v \in V : v \o l[x] \in V
    <3> TAKE x \in D, v \in V
    <3>1. l[x] \in Seq(X) /\ v \in Seq(X)
      BY <1>1
    <3> HIDE DEF D, step
    <3> QED
      BY <3>1
  <2>3. <<>> \in V
    OBVIOUS
  <2> HIDE DEF V, D, step
  <2> QED
    BY <2>1, <2>2, <2>3
<1>3. /\ \A s \in SUBSET D : s # {} => pick[s] \in s
      /\ \A k \in D : /\ pick[1 .. k] = k /\ (1 .. k) \ {k} = 1 .. (k - 1) /\ 1 .. k # {}
                      /\ 1 .. k \in SUBSET D /\ 1 .. (k - 1) \in SUBSET D
  BY <1>1, LastOfIs
<1> HIDE DEF pick, step, D, V
<1>4. PICK g : IsFold(<<>>, step, pick, D, g)
  BY <1>1, <1>3, FoldExists
<1>5. \A s \in SUBSET D : g[s] \in V
  BY <1>1, <1>2, <1>3, <1>4, FoldType
<1> DEFINE f == [i \in D |-> g[1 .. i]]
<1>6. ASSUME NEW k \in D PROVE g[1 .. k] = g[1 .. (k - 1)] \o l[k]
  <2>1. g[1 .. k] = Unfold(<<>>, step, pick, g, 1 .. k)
    BY <1>3, <1>4 DEF IsFold
  <2>2. g[1 .. k] = step[<<k, g[1 .. (k - 1)]>>]
    <3> DEFINE K == 1 .. k
               P == 1 .. (k - 1)
    <3>1. pick[K] = k /\ K \ {k} = P /\ K # {} /\ g[K] = Unfold(<<>>, step, pick, g, K)
      BY <1>3, <2>1
    <3> HIDE DEF K, P
    <3>2. g[K] = step[<<k, g[P]>>]
      BY <3>1 DEF Unfold
    <3> QED
      BY <3>2 DEF K, P
  <2>3. g[1 .. (k - 1)] \in V
    BY <1>3, <1>5
  <2> QED
    BY <1>2, <2>2, <2>3
<1>7. g[{}] = <<>>
  BY <1>4 DEF IsFold, Unfold
<1>8. ASSUME NEW i \in D PROVE f[i] = IF i = 1 THEN l[i] ELSE f[i - 1] \o l[i]
  <2>1. f[i] = g[1 .. (i - 1)] \o l[i]
    BY <1>6
  <2>2. CASE i = 1
    <3>1. 1 .. (i - 1) = {}
      BY <2>2
    <3>2. f[i] = <<>> \o l[i] /\ l[i] \in V
      BY <1>1, <1>7, <2>1, <3>1
    <3> QED
      BY <2>2, <3>2 DEF V
  <2>3. CASE i # 1
    <3>1. i - 1 \in D
      BY <1>1, <2>3 DEF D
    <3> QED
      BY <2>1, <2>3, <3>1
  <2> QED
    BY <2>2, <2>3
<1>9. Joined(l, f)
  <2>1. f = [i \in D |-> f[i]]
    OBVIOUS
  <2> HIDE DEF f
  <2>2. f = [i \in D |-> IF i = 1 THEN l[i] ELSE f[i - 1] \o l[i]]
    BY <1>8, <2>1
  <2> QED
    BY <2>2 DEF Joined, D
<1> DEFINE h == JoinTable(l)
<1>10. Joined(l, h)
  BY <1>9, Zenon DEF JoinTable
<1>11. ASSUME NEW i \in D PROVE h[i] = IF i = 1 THEN l[i] ELSE h[i - 1] \o l[i]
  <2> HIDE DEF h
  <2> QED
    BY <1>10 DEF Joined, D
<1>12. ASSUME {i \in D : h[i] \notin V} # {} PROVE FALSE
  <2> DEFINE B == {i \in D : h[i] \notin V}
  <2>1. B \subseteq 0 .. n
    BY <1>1 DEF D
  <2>2. PICK k \in B : \A m \in B : k <= m
    <3> HIDE DEF B, n
    <3> QED
      BY <1>1, <1>12, <2>1, LeastNumber DEF B
  <2>3. k # 1
    BY <1>1, <1>11
  <2>4. k - 1 \in D /\ ~(k <= k - 1)
    BY <1>1, <2>3 DEF D
  <2>5. h[k - 1] \in V /\ h[k] = h[k - 1] \o l[k] /\ l[k] \in V
    BY <1>1, <1>11, <2>2, <2>3, <2>4
  <2>6. h[k] \notin V
    OBVIOUS
  <2> HIDE DEF h, B
  <2>7. h[k - 1] \o l[k] \in V
    BY <2>5 DEF V
  <2> QED
    BY <2>5, <2>6, <2>7
<1> QED
  BY <1>10, <1>12 DEF D, V

\* One sequence more at the end.
LEMMA FlattenAppend ==
  ASSUME NEW X, NEW l \in Seq(Seq(X)), NEW c \in Seq(X)
  PROVE  FlattenSeq(Append(l, c)) = FlattenSeq(l) \o c /\ FlattenSeq(l) \in Seq(X)
<1> DEFINE n == Len(l)
           m == Append(l, c)
           f == JoinTable(l)
           g == JoinTable(m)
<1>1. n \in Nat /\ m \in Seq(Seq(X)) /\ Len(m) = n + 1 /\ m[n + 1] = c
      /\ \A i \in 1 .. n : m[i] = l[i]
  OBVIOUS
<1> HIDE DEF m, n
<1>2. Joined(l, f) /\ (\A i \in 1 .. n : f[i] \in Seq(X)) /\ Joined(m, g)
  BY <1>1, JoinTableIs DEF n
<1>3. \A i \in 1 .. n : f[i] = IF i = 1 THEN l[i] ELSE f[i - 1] \o l[i]
  <2> HIDE DEF f
  <2> QED
    BY <1>2 DEF Joined, n
<1>4. \A i \in 1 .. (n + 1) : g[i] = IF i = 1 THEN m[i] ELSE g[i - 1] \o m[i]
  <2> HIDE DEF g
  <2> QED
    BY <1>1, <1>2 DEF Joined
<1>5. ASSUME {i \in 1 .. n : g[i] # f[i]} # {} PROVE FALSE
  <2> DEFINE B == {i \in 1 .. n : g[i] # f[i]}
  <2>1. B \subseteq 0 .. n
    BY <1>1
  <2>2. PICK k \in B : \A j \in B : k <= j
    <3> HIDE DEF B
    <3> QED
      BY <1>1, <1>5, <2>1, LeastNumber DEF B
  <2> HIDE DEF f, g
  <2>3. k \in 1 .. n /\ k \in 1 .. (n + 1) /\ g[k] # f[k] /\ m[k] = l[k]
    BY <1>1
  <2>4. k # 1
    BY <1>3, <1>4, <2>3
  <2>5. k - 1 \in 1 .. n /\ ~(k <= k - 1)
    BY <1>1, <2>3, <2>4
  <2>6. g[k - 1] = f[k - 1]
    BY <2>2, <2>5
  <2> QED
    BY <1>3, <1>4, <2>3, <2>4, <2>6
<1>6. FlattenSeq(m) = g[n + 1]
  BY <1>1, FlattenIs
<1>7. CASE n = 0
  <2>1. l = <<>> /\ FlattenSeq(l) = l
    BY <1>7, FlattenIs DEF n
  <2>2. g[n + 1] = c
    BY <1>1, <1>4, <1>7
  <2>3. FlattenSeq(l) = <<>> /\ <<>> \o c = c /\ <<>> \in Seq(X)
    BY <2>1
  <2> HIDE DEF g
  <2> QED
    BY <1>6, <2>2, <2>3 DEF m
<1>8. CASE n # 0
  <2>1. FlattenSeq(l) = f[n]
    BY <1>8, FlattenIs DEF n
  <2>2. n \in 1 .. n /\ n + 1 \in 1 .. (n + 1) /\ n + 1 # 1 /\ (n + 1) - 1 = n
    BY <1>1, <1>8
  <2>3. g[n + 1] = g[n] \o c /\ g[n] = f[n] /\ f[n] \in Seq(X)
    <3> HIDE DEF f, g
    <3> QED
      BY <1>1, <1>2, <1>4, <1>5, <2>2
  <2> QED
    BY <1>6, <2>1, <2>3 DEF m
<1> QED
  BY <1>7, <1>8

LEMMA FlattenNone == FlattenSeq(<<>>) = <<>>
  BY FlattenIs

(***************************************************************************)
(* Values.                                                                 *)
(***************************************************************************)

LEMMA Parameters ==
  /\ KeyDeposit \in Nat /\ MinFee \in Nat /\ MinFee > 0 /\ ChangeFee \in Nat /\ MinAda \in Nat
  /\ TokenMinAda \in Nat /\ TokenMinAda >= MinAda /\ MaxCoin \in Nat /\ MaxText \in Nat
  /\ MinInt \in Int /\ LongName \notin Names /\ MaxTxSize \in Nat /\ MaxValSize \in Nat
  BY TxBuildAssumption

Tokens == [Policies -> [Names -> Nat]]

Listed(names) == [policy : Policies, name : names, quantity : Nat]

\* Rust values that fit the CSL ones.
Stock(f) ==
  /\ f = [c \in DOMAIN f |-> f[c]] /\ IsFiniteSet(DOMAIN f)
  /\ \A c \in DOMAIN f : f[c].coin \in Nat /\ f[c].assets \in SUBSET Listed(Names)

LEMMA QuantityType ==
  ASSUME NEW names, NEW assets \in SUBSET Listed(names), NEW p, NEW n
  PROVE  Quantity(assets, p, n) \in Nat
<1> DEFINE listed == {a \in assets : a.policy = p /\ a.name = n}
<1>1. CASE listed = {}
  BY <1>1 DEF Quantity
<1>2. CASE listed # {}
  <2> DEFINE a == CHOOSE a \in listed : TRUE
  <2>1. a \in listed
    BY <1>2
  <2>2. a \in Listed(names)
    BY <2>1
  <2>3. a.quantity \in Nat
    <3> HIDE DEF a
    <3> QED
      BY <2>2 DEF Listed
  <2> QED
    BY <1>2, <2>3 DEF Quantity
<1> QED
  BY <1>1, <1>2

AssetAt(t, x) == [policy |-> x[1], name |-> x[2], quantity |-> t[x[1]][x[2]]]

LEMMA AssetsAre ==
  ASSUME NEW t \in Tokens
  PROVE  \A a : a \in AssetsOf(t) <=>
           \E x \in Policies \X Names : t[x[1]][x[2]] # 0 /\ a = AssetAt(t, x)
  BY Zenon DEF AssetsOf, AssetAt

LEMMA AssetsListed ==
  ASSUME NEW t \in Tokens
  PROVE  AssetsOf(t) \in SUBSET Listed(Names)
<1> SUFFICES ASSUME NEW a \in AssetsOf(t) PROVE a \in Listed(Names)
  OBVIOUS
<1>1. PICK x \in Policies \X Names : a = AssetAt(t, x)
  BY AssetsAre
<1> QED
  BY <1>1 DEF AssetAt, Listed, Tokens

LEMMA QuantityOfAssets ==
  ASSUME NEW t \in Tokens, NEW p \in Policies, NEW n \in Names
  PROVE  Quantity(AssetsOf(t), p, n) = t[p][n]
<1> DEFINE listed == {a \in AssetsOf(t) : a.policy = p /\ a.name = n}
           chosen == CHOOSE a \in listed : TRUE
<1>1. ASSUME NEW a \in listed PROVE t[p][n] # 0 /\ a.quantity = t[p][n]
  <2>1. PICK x \in Policies \X Names : t[x[1]][x[2]] # 0 /\ a = AssetAt(t, x)
    BY AssetsAre
  <2>2. x[1] = p /\ x[2] = n
    BY <2>1 DEF AssetAt
  <2> QED
    BY <2>1, <2>2 DEF AssetAt
<1>2. t[p][n] # 0 => AssetAt(t, <<p, n>>) \in listed
  <2>1. t[p][n] # 0 => AssetAt(t, <<p, n>>) \in AssetsOf(t)
    BY AssetsAre
  <2> QED
    BY <2>1 DEF AssetAt
<1>3. Quantity(AssetsOf(t), p, n) = IF listed = {} THEN 0 ELSE chosen.quantity
  BY DEF Quantity
<1>4. listed # {} => chosen \in listed
  BY DEF Quantity
<1> HIDE DEF listed, chosen
<1> QED
  BY <1>1, <1>2, <1>3, <1>4

\* A UTxO of the ledger goes to a TxInput and from there to the CSL unharmed.
LEMMA RoundTrip ==
  ASSUME NEW u \in Outputs
  PROVE  /\ ToTxInput(u).coin = u.coin /\ u.coin \in Nat
         /\ ToTxInput(u).assets \in SUBSET Listed(Names)
         /\ ValueToCsl(ToTxInput(u)) = [coin |-> u.coin, tokens |-> u.tokens]
<1>1. u.tokens \in Tokens /\ u.coin \in Nat
  BY DEF Outputs, Tokens
<1>2. ToTxInput(u).coin = u.coin /\ ToTxInput(u).assets = AssetsOf(u.tokens)
  BY DEF ToTxInput
<1>3. [p \in Policies |-> [n \in Names |-> Quantity(AssetsOf(u.tokens), p, n)]] = u.tokens
  <2> DEFINE t == u.tokens
  <2>1. t \in Tokens
    BY <1>1
  <2> HIDE DEF t
  <2>2. \A p \in Policies, n \in Names : Quantity(AssetsOf(t), p, n) = t[p][n]
    BY <2>1, QuantityOfAssets
  <2>3. [p \in Policies |-> [n \in Names |-> Quantity(AssetsOf(t), p, n)]] = t
    BY <2>1, <2>2 DEF Tokens
  <2> QED
    BY <2>3 DEF t
<1>4. ValueToCsl(ToTxInput(u)) = [coin |-> u.coin, tokens |-> u.tokens]
  BY <1>2, <1>3, Zenon DEF ValueToCsl
<1> QED
  BY <1>1, <1>2, <1>4, AssetsListed

LEMMA NoLongName ==
  ASSUME NEW v, v.assets \in SUBSET Listed(Names)
  PROVE  ValueCheck(v) = "None"
<1>1. ~ \E a \in v.assets : a.name = LongName
  BY Parameters DEF Listed
<1> QED
  BY <1>1 DEF ValueCheck, Check

(***************************************************************************)
(* Totals.                                                                 *)
(***************************************************************************)

Coins(f) == [i \in DOMAIN f |-> f[i].coin]
TokensOf(f, p, n) == [i \in DOMAIN f |-> f[i].tokens[p][n]]

LEMMA TotalIs ==
  ASSUME NEW f
  PROVE  /\ TotalCoin(f) = SumFunctionOnSet(Coins(f), DOMAIN f)
         /\ \A p, n : TotalTokens(f, p, n) = SumFunctionOnSet(TokensOf(f, p, n), DOMAIN f)
<1>1. DOMAIN Coins(f) = DOMAIN f /\ \A p, n : DOMAIN TokensOf(f, p, n) = DOMAIN f
  BY DEF Coins, TokensOf
<1>2. ASSUME NEW g PROVE SumFunction(g) = SumFunctionOnSet(g, DOMAIN g)
  BY DEF SumFunction, SumFunctionOnSet, FoldFunction, FoldFunctionOnSet
<1> QED
  BY <1>1, <1>2, Zenon DEF TotalCoin, TotalTokens, Coins, TokensOf

\* CSL values.
Valued(f) ==
  /\ IsFiniteSet(DOMAIN f)
  /\ \A i \in DOMAIN f : f[i].coin \in Nat /\ f[i].tokens \in Tokens

LEMMA TotalNat ==
  ASSUME NEW f, Valued(f)
  PROVE  /\ TotalCoin(f) \in Nat
         /\ \A p \in Policies, n \in Names : TotalTokens(f, p, n) \in Nat
<1>1. TotalCoin(f) \in Nat
  <2>1. \A i \in DOMAIN f : Coins(f)[i] \in Nat
    BY DEF Coins, Valued
  <2>2. SumFunctionOnSet(Coins(f), DOMAIN f) \in Nat
    BY <2>1, SumNat DEF Valued
  <2> QED
    BY <2>2, TotalIs
<1>2. ASSUME NEW p \in Policies, NEW n \in Names PROVE TotalTokens(f, p, n) \in Nat
  <2>1. \A i \in DOMAIN f : TokensOf(f, p, n)[i] \in Nat
    BY DEF TokensOf, Valued, Tokens
  <2>2. SumFunctionOnSet(TokensOf(f, p, n), DOMAIN f) \in Nat
    BY <2>1, SumNat DEF Valued
  <2> QED
    BY <2>2, TotalIs
<1> QED
  BY <1>1, <1>2

LEMMA TotalEmpty ==
  ASSUME NEW f, DOMAIN f = {}
  PROVE  TotalCoin(f) = 0 /\ \A p, n : TotalTokens(f, p, n) = 0
  BY TotalIs, SumEmpty

LEMMA TotalOne ==
  ASSUME NEW f, NEW i, DOMAIN f = {i}, f[i].coin \in Int
  PROVE  /\ TotalCoin(f) = f[i].coin
         /\ \A p, n : f[i].tokens[p][n] \in Int => TotalTokens(f, p, n) = f[i].tokens[p][n]
<1>1. TotalCoin(f) = f[i].coin
  <2>1. Coins(f)[i] = f[i].coin
    BY DEF Coins
  <2>2. SumFunctionOnSet(Coins(f), {i}) = f[i].coin
    BY <2>1, SumOne
  <2> QED
    BY <2>2, TotalIs
<1>2. ASSUME NEW p, NEW n, f[i].tokens[p][n] \in Int PROVE TotalTokens(f, p, n) = f[i].tokens[p][n]
  <2>1. TokensOf(f, p, n)[i] = f[i].tokens[p][n]
    BY DEF TokensOf
  <2>2. SumFunctionOnSet(TokensOf(f, p, n), {i}) = f[i].tokens[p][n]
    BY <1>2, <2>1, SumOne
  <2> QED
    BY <2>2, TotalIs
<1> QED
  BY <1>1, <1>2

\* An output more at the end.
LEMMA TotalAppend ==
  ASSUME NEW V, NEW f \in Seq(V), NEW x \in V,
         \A v \in V : v.coin \in Int /\ \A p \in Policies, n \in Names : v.tokens[p][n] \in Int
  PROVE  /\ TotalCoin(Append(f, x)) = TotalCoin(f) + x.coin
         /\ \A p \in Policies, n \in Names :
              TotalTokens(Append(f, x), p, n) = TotalTokens(f, p, n) + x.tokens[p][n]
<1> DEFINE g == Append(f, x)
           len == Len(f)
<1>1. /\ len \in Nat /\ DOMAIN f = 1 .. len /\ DOMAIN g = 1 .. (len + 1)
      /\ (\A i \in 1 .. len : g[i] = f[i] /\ f[i] \in V) /\ g[len + 1] = x
  OBVIOUS
<1> HIDE DEF g, len
<1>2. TotalCoin(g) = TotalCoin(f) + x.coin
  <2>1. /\ \A i \in 1 .. len : Coins(f)[i] \in Int /\ Coins(g)[i] = Coins(f)[i]
        /\ Coins(g)[len + 1] = x.coin /\ x.coin \in Int
    BY <1>1 DEF Coins
  <2>2. SumFunctionOnSet(Coins(g), 1 .. (len + 1)) = SumFunctionOnSet(Coins(f), 1 .. len) + x.coin
    BY <1>1, <2>1, SumLonger
  <2> QED
    BY <1>1, <2>2, TotalIs
<1>3. ASSUME NEW p \in Policies, NEW n \in Names
      PROVE  TotalTokens(g, p, n) = TotalTokens(f, p, n) + x.tokens[p][n]
  <2>1. /\ \A i \in 1 .. len : TokensOf(f, p, n)[i] \in Int /\ TokensOf(g, p, n)[i] = TokensOf(f, p, n)[i]
        /\ TokensOf(g, p, n)[len + 1] = x.tokens[p][n] /\ x.tokens[p][n] \in Int
    BY <1>1 DEF TokensOf
  <2>2. SumFunctionOnSet(TokensOf(g, p, n), 1 .. (len + 1))
          = SumFunctionOnSet(TokensOf(f, p, n), 1 .. len) + x.tokens[p][n]
    BY <1>1, <2>1, SumLonger
  <2> QED
    BY <1>1, <2>2, TotalIs
<1> QED
  BY <1>2, <1>3 DEF g

\* What is read of some inputs is of values.
LEMMA StockValued ==
  ASSUME NEW f, Stock(f)
  PROVE  /\ Valued(InputsToCsl(f)) /\ DOMAIN InputsToCsl(f) = DOMAIN f
         /\ \A c \in DOMAIN f : InputsToCsl(f)[c] = ValueToCsl(f[c]) /\ InputsToCsl(f)[c].coin = f[c].coin
<1>1. DOMAIN InputsToCsl(f) = DOMAIN f /\ \A c \in DOMAIN f : InputsToCsl(f)[c] = ValueToCsl(f[c])
  BY DEF InputsToCsl
<1>2. ASSUME NEW c \in DOMAIN f
      PROVE  ValueToCsl(f[c]).coin = f[c].coin /\ ValueToCsl(f[c]).tokens \in Tokens
  <2>1. f[c].assets \in SUBSET Listed(Names)
    BY DEF Stock
  <2>2. \A p, n : Quantity(f[c].assets, p, n) \in Nat
    BY <2>1, QuantityType
  <2> QED
    BY <2>2 DEF ValueToCsl, Tokens
<1> QED
  BY <1>1, <1>2 DEF Stock, Valued

(***************************************************************************)
(* The end of every builder.                                               *)
(***************************************************************************)

LEMMA Finalised ==
  ASSUME NEW checked, NEW b, NEW dc, NEW ws
  PROVE  LET r == Finalise(checked, b, "mine", dc, ws) IN
         /\ r.err = "None" =>
              /\ checked = "None" /\ ~ChangeFails(b) /\ ~(TxSize(Body(b, "mine")) > MaxTxSize)
              /\ r.body = Body(b, "mine") /\ r.fee = Body(b, "mine").fee
              /\ r.deposit_change = dc /\ r.witness_set = ws
         /\ r.err # "None" =>
              \/ checked # "None" /\ r.err = checked
              \/ /\ checked = "None" /\ r.err = "panic"
                 /\ \E p \in Policies, n \in Names : b.mint[p][n] = MinInt
              \/ /\ checked = "None" /\ r.err = "TxBuild"
                 /\ Cancelled(b) \/ ChangeFails(b) \/ TxSize(Body(b, "mine")) > MaxTxSize
<1> DEFINE burns == \E p \in Policies, n \in Names : b.mint[p][n] = MinInt
           cancels == Cancelled(b)
           large == TxSize(Body(b, "mine")) > MaxTxSize
           fails == ChangeFails(b) \/ large
           c2 == Check("mine" = Malformed, "InvalidAddress")
           c3 == Check(cancels, "TxBuild")
           c4 == Check(burns, "panic")
           c5 == Check(fails, "TxBuild")
           cs == <<checked, c2, c3, c4, c5>>
           r == Finalise(checked, b, "mine", dc, ws)
<1>1. /\ c2 = "None"
      /\ (cancels /\ c3 = "TxBuild") \/ (~cancels /\ c3 = "None")
      /\ (burns /\ c4 = "panic") \/ (~burns /\ c4 = "None")
      /\ (fails /\ c5 = "TxBuild") \/ (~fails /\ c5 = "None")
  <2>1. c2 = "None"
    BY TxFlowAssumption DEF Check
  <2>2. (burns /\ c4 = "panic") \/ (~burns /\ c4 = "None")
    <3>1. burns => c4 = "panic"
      BY DEF Check
    <3>2. ~burns => c4 = "None"
      BY DEF Check
    <3> HIDE DEF burns, c4
    <3> QED
      BY <3>1, <3>2, Zenon
  <2>3. (fails /\ c5 = "TxBuild") \/ (~fails /\ c5 = "None")
    <3>1. fails => c5 = "TxBuild"
      BY DEF Check
    <3>2. ~fails => c5 = "None"
      BY DEF Check
    <3> HIDE DEF fails, c5
    <3> QED
      BY <3>1, <3>2, Zenon
  <2>4. (cancels /\ c3 = "TxBuild") \/ (~cancels /\ c3 = "None")
    <3>1. cancels => c3 = "TxBuild"
      BY DEF Check
    <3>2. ~cancels => c3 = "None"
      BY DEF Check
    <3> HIDE DEF cancels, c3
    <3> QED
      BY <3>1, <3>2, Zenon
  <2> QED
    BY <2>1, <2>2, <2>3, <2>4, Zenon
<1>2. r = IF First(cs) # "None" THEN Failed(First(cs))
          ELSE [err |-> "None", body |-> Body(b, "mine"), fee |-> Body(b, "mine").fee,
                deposit_change |-> dc, witness_set |-> ws]
  BY Zenon DEF Finalise
<1> HIDE DEF r
<1>3. /\ DOMAIN cs = 1 .. 5 /\ cs[1] = checked /\ cs[2] = c2 /\ cs[3] = c3
      /\ cs[4] = c4 /\ cs[5] = c5
  <2> HIDE DEF c2, c3, c4, c5
  <2> QED
    OBVIOUS
<1> HIDE DEF burns, cancels, fails, c2, c3, c4, c5, cs
<1>4. /\ First(cs) = "None" <=> \A i \in 1 .. 5 : cs[i] = "None"
      /\ First(cs) # "None" => \E i \in 1 .. 5 : First(cs) = cs[i]
  BY <1>3, FirstOfSome
<1>5. /\ First(cs) = "None" => checked = "None" /\ c5 = "None"
      /\ checked # "None" => First(cs) = checked
      /\ First(cs) # "None" => First(cs) \in {checked, c3, c4, c5}
  <2>1. checked # "None" => First(cs) = checked
    <3>1. DOMAIN cs \subseteq Nat /\ 1 \in DOMAIN cs /\ cs[1] = checked /\ \A i \in DOMAIN cs : ~(i < 1)
      BY <1>3
    <3> QED
      BY <3>1, FirstAt
  <2> QED
    BY <1>1, <1>3, <1>4, <2>1
<1>6. /\ First(cs) = "None" => checked = "None" /\ ~fails
      /\ First(cs) # "None" => \/ checked # "None" /\ First(cs) = checked
                               \/ checked = "None" /\ First(cs) = "panic" /\ burns
                               \/ checked = "None" /\ First(cs) = "TxBuild" /\ (cancels \/ fails)
  BY <1>1, <1>5, Zenon
<1>7. CASE First(cs) # "None"
  <2>1. r.err = First(cs)
    BY <1>2, <1>7 DEF Failed
  <2> QED
    BY <1>6, <1>7, <2>1, Zenon DEF r, burns, cancels, fails, large
<1>8. CASE First(cs) = "None"
  <2>1. /\ r.err = "None" /\ r.body = Body(b, "mine") /\ r.fee = Body(b, "mine").fee
        /\ r.deposit_change = dc /\ r.witness_set = ws
    BY <1>2, <1>8
  <2> QED
    BY <1>6, <1>8, <2>1, Zenon DEF r, burns, cancels, fails, large
<1> QED
  BY <1>7, <1>8

Certs == {"none", "register", "delegate", "deregister"}

\* A builder as the functions of the SDK fill it in.
Filled(b) ==
  /\ Stock(b.inputs) /\ b.outputs \in Seq(CslOutputs)
  /\ b.withdrawal \in Nat /\ b.mint \in [Policies -> [Names -> Int]]

LEMMA OutputsValued == CslOutputs = [address : {"mine", "them"}, coin : Nat, tokens : Tokens]
  BY DEF CslOutputs, Tokens

LEMMA SeqValued ==
  ASSUME NEW f \in Seq(CslOutputs)
  PROVE  Valued(f)
<1>1. DOMAIN f = 1 .. Len(f) /\ Len(f) \in Nat /\ \A i \in DOMAIN f : f[i] \in CslOutputs
  OBVIOUS
<1>2. IsFiniteSet(DOMAIN f)
  BY <1>1, FS_Interval
<1> QED
  BY <1>1, <1>2, OutputsValued DEF Valued

LEMMA AppendTotals ==
  ASSUME NEW f \in Seq(CslOutputs), NEW x \in CslOutputs
  PROVE  /\ TotalCoin(Append(f, x)) = TotalCoin(f) + x.coin
         /\ \A p \in Policies, n \in Names :
              TotalTokens(Append(f, x), p, n) = TotalTokens(f, p, n) + x.tokens[p][n]
<1> DEFINE V == CslOutputs
<1>1. \A v \in V : v.coin \in Int /\ \A p \in Policies, n \in Names : v.tokens[p][n] \in Int
  BY OutputsValued DEF Tokens
<1> HIDE DEF V
<1>2. f \in Seq(V) /\ x \in V
  BY DEF V
<1> QED
  BY <1>1, <1>2, TotalAppend

\* The tokens and the lovelace that are left are whole numbers.
LEMMA LeftTyped ==
  ASSUME NEW b, Filled(b)
  PROVE  /\ TotalCoin(InputsToCsl(b.inputs)) \in Nat /\ TotalCoin(b.outputs) \in Nat
         /\ Refund(b) \in Nat /\ Deposit(b) \in Nat
         /\ CoinIn(b) = TotalCoin(InputsToCsl(b.inputs)) + b.withdrawal + Refund(b)
         /\ CoinOut(b) = TotalCoin(b.outputs) + Deposit(b)
         /\ CoinLeft(b) \in Int /\ CoinLeft(b) = CoinIn(b) - CoinOut(b)
         /\ ChangeCoin(b) \in Int /\ ChangeCoin(b) = CoinLeft(b) - MinFee - ChangeFee
         /\ DOMAIN TokensLeft(b) = Policies
         /\ \A p \in Policies, n \in Names :
              /\ TotalTokens(InputsToCsl(b.inputs), p, n) \in Nat
              /\ TotalTokens(b.outputs, p, n) \in Nat
              /\ TokensLeft(b)[p][n] = TotalTokens(InputsToCsl(b.inputs), p, n) + b.mint[p][n]
                                         - TotalTokens(b.outputs, p, n)
<1>1. Valued(InputsToCsl(b.inputs)) /\ Valued(b.outputs)
  BY StockValued, SeqValued DEF Filled
<1>2. /\ TotalCoin(InputsToCsl(b.inputs)) \in Nat /\ TotalCoin(b.outputs) \in Nat
      /\ \A p \in Policies, n \in Names :
              /\ TotalTokens(InputsToCsl(b.inputs), p, n) \in Nat
              /\ TotalTokens(b.outputs, p, n) \in Nat
  BY <1>1, TotalNat
<1>3. Refund(b) \in Nat /\ Deposit(b) \in Nat
  BY Parameters DEF Refund, Deposit
<1>4. CoinIn(b) = TotalCoin(InputsToCsl(b.inputs)) + b.withdrawal + Refund(b)
  BY DEF CoinIn
<1>5. CoinOut(b) = TotalCoin(b.outputs) + Deposit(b)
  BY DEF CoinOut
<1>6. CoinLeft(b) = CoinIn(b) - CoinOut(b)
  BY DEF CoinLeft
<1>7. ChangeCoin(b) = CoinLeft(b) - MinFee - ChangeFee
  BY DEF ChangeCoin
<1>8. b.withdrawal \in Nat
  BY DEF Filled
<1>9. CoinLeft(b) \in Int
  BY <1>2, <1>3, <1>4, <1>5, <1>6, <1>8
<1>10. ChangeCoin(b) \in Int
  BY <1>7, <1>9, Parameters
<1>11. DOMAIN TokensLeft(b) = Policies /\ \A p \in Policies, n \in Names :
          TokensLeft(b)[p][n] = TotalTokens(InputsToCsl(b.inputs), p, n) + b.mint[p][n]
                                  - TotalTokens(b.outputs, p, n)
  BY DEF TokensLeft
<1> QED
  BY <1>2, <1>3, <1>4, <1>5, <1>6, <1>7, <1>9, <1>10, <1>11

LEMMA Covered ==
  ASSUME NEW b, Filled(b), ~ChangeFails(b)
  PROVE  /\ CoinLeft(b) >= MinFee /\ CoinIn(b) <= MaxCoin
         /\ TokensLeft(b) \in Tokens
         /\ HasTokens(TokensLeft(b)) => ChangeCoin(b) >= TokenMinAda
         /\ \A p \in Policies, n \in Names : TotalTokens(InputsToCsl(b.inputs), p, n) <= MaxCoin
<1>1. /\ ~(CoinLeft(b) < MinFee) /\ ~(CoinIn(b) > MaxCoin)
      /\ \A p \in Policies, n \in Names : ~(TokensLeft(b)[p][n] < 0)
      /\ HasTokens(TokensLeft(b)) => ~(ChangeCoin(b) < TokenMinAda)
      /\ \A p \in Policies, n \in Names : ~(TotalTokens(InputsToCsl(b.inputs), p, n) > MaxCoin)
  BY Zenon DEF ChangeFails
<1>2. CoinIn(b) <= MaxCoin
      /\ \A p \in Policies, n \in Names : TotalTokens(InputsToCsl(b.inputs), p, n) <= MaxCoin
  <2>1. CoinIn(b) \in Int /\ MaxCoin \in Int
    <3>1. TotalCoin(InputsToCsl(b.inputs)) \in Nat /\ Refund(b) \in Nat
          /\ CoinIn(b) = TotalCoin(InputsToCsl(b.inputs)) + b.withdrawal + Refund(b)
      BY LeftTyped
    <3>2. b.withdrawal \in Nat
      BY DEF Filled
    <3> QED
      BY <3>1, <3>2, Parameters
  <2>2. ASSUME NEW p \in Policies, NEW n \in Names
        PROVE  TotalTokens(InputsToCsl(b.inputs), p, n) <= MaxCoin
    <3>1. TotalTokens(InputsToCsl(b.inputs), p, n) \in Nat
      BY LeftTyped
    <3> QED
      BY <1>1, <2>1, <3>1
  <2>3. CoinIn(b) <= MaxCoin
    BY <1>1, <2>1
  <2> QED
    BY <2>2, <2>3
<1>3. CoinLeft(b) \in Int /\ ChangeCoin(b) \in Int /\ MinFee \in Nat /\ TokenMinAda \in Nat
  BY LeftTyped, Parameters
<1>4. TokensLeft(b) \in Tokens
  <2>1. \A p \in Policies, n \in Names : b.mint[p][n] \in Int
    BY DEF Filled
  <2>2. \A p \in Policies, n \in Names : TokensLeft(b)[p][n] \in Int
    BY <2>1, LeftTyped
  <2>3. \A p \in Policies, n \in Names : TokensLeft(b)[p][n] \in Nat
    BY <1>1, <2>2
  <2>4. TokensLeft(b) = [p \in Policies |-> [n \in Names |-> TokensLeft(b)[p][n]]]
    BY DEF TokensLeft
  <2> QED
    BY <2>3, <2>4 DEF Tokens
<1> QED
  BY <1>1, <1>2, <1>3, <1>4

\* The change: an output of its own, or none and no tokens left.
Change(b) == [address |-> "mine", coin |-> ChangeCoin(b), tokens |-> TokensLeft(b)]

LEMMA ChangeIs ==
  ASSUME NEW b, Filled(b), ~ChangeFails(b)
  PROVE  /\ HasChange(b) => /\ Change(b) \in CslOutputs
                            /\ ChangeCoin(b) >= MinAdaForOutput(Change(b))
         /\ ~HasChange(b) => \A p \in Policies, n \in Names : TokensLeft(b)[p][n] = 0
<1>1. TokensLeft(b) \in Tokens /\ ChangeCoin(b) \in Int
  BY Covered, LeftTyped
<1>2. ASSUME HasChange(b) PROVE ChangeCoin(b) >= MinAdaForOutput(Change(b)) /\ ChangeCoin(b) \in Nat
  <2>1. CASE HasTokens(TokensLeft(b))
    <3>1. MinAdaForOutput(Change(b)) = TokenMinAda
      BY <2>1 DEF MinAdaForOutput, Change
    <3> QED
      BY <1>1, <2>1, <3>1, Covered, Parameters
  <2>2. CASE ~HasTokens(TokensLeft(b))
    <3>1. MinAdaForOutput(Change(b)) = MinAda
      BY <2>2 DEF MinAdaForOutput, Change
    <3>2. ChangeCoin(b) >= MinAda
      BY <1>2, <2>2 DEF HasChange
    <3> QED
      BY <1>1, <3>1, <3>2, Parameters
  <2> QED
    BY <2>1, <2>2
<1>3. HasChange(b) => Change(b) \in CslOutputs
  BY <1>1, <1>2, OutputsValued DEF Change
<1>4. ~HasChange(b) => \A p \in Policies, n \in Names : TokensLeft(b)[p][n] = 0
  BY DEF HasChange, HasTokens
<1> QED
  BY <1>2, <1>3, <1>4

LEMMA BodyIs ==
  ASSUME NEW b
  PROVE  LET tx == Body(b, "mine") IN
         /\ tx.inputs = DOMAIN b.inputs /\ tx.cert = b.cert /\ tx.withdrawal = b.withdrawal
         /\ tx.mint = b.mint /\ tx.aux = b.aux
         /\ HasChange(b) => /\ tx.outputs = Append(b.outputs, Change(b)) /\ tx.change
                            /\ tx.fee = MinFee + ChangeFee
         /\ ~HasChange(b) => tx.outputs = b.outputs /\ ~tx.change /\ tx.fee = CoinLeft(b)
<1>1. Body(b, "mine") =
        [inputs |-> DOMAIN b.inputs,
         outputs |-> IF HasChange(b) THEN Append(b.outputs, Change(b)) ELSE b.outputs,
         change |-> HasChange(b),
         fee |-> IF HasChange(b) THEN MinFee + ChangeFee ELSE CoinLeft(b),
         cert |-> b.cert, withdrawal |-> b.withdrawal, mint |-> b.mint,
         aux |-> b.aux, collateral |-> b.collateral, ttl |-> b.ttl]
  BY Zenon DEF Body, Change
<1>2. Body(b, "mine").change = HasChange(b)
  BY <1>1
<1> QED
  BY <1>1, <1>2

LEMMA SizeIs ==
  ASSUME NEW b, Filled(b), Len(b.aux) \in Nat
  PROVE  /\ TxSize(Body(b, "mine")) \in Nat
         /\ TxSize(Body(b, "mine")) <= Cardinality(DOMAIN b.inputs) + Len(b.outputs) + 1 + Len(b.aux)
         /\ Cardinality(DOMAIN b.inputs) \in Nat
<1> DEFINE tx == Body(b, "mine")
           o == b.outputs
<1>1. /\ tx.inputs = DOMAIN b.inputs /\ tx.aux = b.aux
      /\ tx.outputs = Append(o, Change(b)) \/ tx.outputs = o
  BY BodyIs
<1>2. Cardinality(DOMAIN b.inputs) \in Nat
  <2>1. IsFiniteSet(DOMAIN b.inputs)
    BY DEF Filled, Stock
  <2> QED
    BY <2>1, FS_CardinalityType
<1>3. Len(o) \in Nat /\ Len(Append(o, Change(b))) = Len(o) + 1
  BY DEF Filled
<1>4. TxSize(tx) = Cardinality(tx.inputs) + Len(tx.outputs) + Len(tx.aux)
  <2> HIDE DEF tx
  <2> QED
    BY DEF TxSize
<1> HIDE DEF tx, o
<1>5. Len(tx.outputs) \in Nat /\ Len(tx.outputs) <= Len(o) + 1
  BY <1>1, <1>3
<1>6. /\ TxSize(tx) \in Nat
      /\ TxSize(tx) <= Cardinality(DOMAIN b.inputs) + Len(o) + 1 + Len(b.aux)
  BY <1>1, <1>2, <1>4, <1>5
<1> QED
  BY <1>2, <1>6 DEF tx, o

LEMMA BodyAddsUp ==
  ASSUME NEW b, Filled(b), ~ChangeFails(b), NEW tx, tx = Body(b, "mine")
  PROVE  /\ tx.outputs \in Seq(CslOutputs) /\ tx.fee \in Nat
         /\ tx.fee >= MinFee + (IF tx.change THEN ChangeFee ELSE 0)
         /\ (\A i \in DOMAIN b.outputs : b.outputs[i].coin >= MinAdaForOutput(b.outputs[i]))
              => \A i \in DOMAIN tx.outputs : tx.outputs[i].coin >= MinAdaForOutput(tx.outputs[i])
         /\ TotalCoin(InputsToCsl(b.inputs)) + tx.withdrawal + Refund(b)
              = TotalCoin(tx.outputs) + Deposit(b) + tx.fee
         /\ \A p \in Policies, n \in Names :
              TotalTokens(InputsToCsl(b.inputs), p, n) + tx.mint[p][n] = TotalTokens(tx.outputs, p, n)
<1> DEFINE in == TotalCoin(InputsToCsl(b.inputs))
           out == TotalCoin(b.outputs)
<1>1. /\ in \in Nat /\ out \in Nat /\ Refund(b) \in Nat /\ Deposit(b) \in Nat /\ b.withdrawal \in Nat
      /\ CoinLeft(b) = (in + b.withdrawal + Refund(b)) - (out + Deposit(b))
      /\ ChangeCoin(b) = CoinLeft(b) - MinFee - ChangeFee
      /\ CoinLeft(b) \in Int /\ CoinLeft(b) >= MinFee /\ ChangeCoin(b) \in Int
      /\ MinFee \in Nat /\ ChangeFee \in Nat
  BY LeftTyped, Covered, Parameters DEF Filled
<1>2. /\ tx.withdrawal = b.withdrawal /\ tx.mint = b.mint /\ b.outputs \in Seq(CslOutputs)
      /\ \A p \in Policies, n \in Names : b.mint[p][n] \in Int
  BY BodyIs DEF Filled
<1>3. CASE HasChange(b)
  <2>1. /\ tx.outputs = Append(b.outputs, Change(b)) /\ tx.change = TRUE /\ tx.fee = MinFee + ChangeFee
    <3>1. /\ tx.outputs = Append(b.outputs, Change(b)) /\ tx.fee = MinFee + ChangeFee /\ tx.change = HasChange(b)
      BY <1>3, BodyIs DEF Body
    <3> QED
      BY <1>3, <3>1 DEF HasChange
  <2>2. Change(b) \in CslOutputs /\ ChangeCoin(b) >= MinAdaForOutput(Change(b))
    BY <1>3, ChangeIs
  <2>3. Change(b).coin = ChangeCoin(b) /\ Change(b).tokens = TokensLeft(b)
    BY DEF Change
  <2>4. /\ TotalCoin(tx.outputs) = out + ChangeCoin(b)
        /\ \A p \in Policies, n \in Names :
             TotalTokens(tx.outputs, p, n) = TotalTokens(b.outputs, p, n) + TokensLeft(b)[p][n]
    <3> DEFINE f == b.outputs
               x == Change(b)
    <3>1. f \in Seq(CslOutputs) /\ x \in CslOutputs
      BY <1>2, <2>2
    <3> HIDE DEF f, x
    <3>2. /\ TotalCoin(Append(f, x)) = TotalCoin(f) + x.coin
          /\ \A p \in Policies, n \in Names :
               TotalTokens(Append(f, x), p, n) = TotalTokens(f, p, n) + x.tokens[p][n]
      BY <3>1, AppendTotals
    <3> QED
      BY <2>1, <2>3, <3>2 DEF f, x
  <2>5. in + tx.withdrawal + Refund(b) = TotalCoin(tx.outputs) + Deposit(b) + tx.fee
    <3>1. TotalCoin(tx.outputs) = out + ChangeCoin(b) /\ tx.withdrawal = b.withdrawal /\ tx.fee = MinFee + ChangeFee
      BY <1>2, <2>1, <2>4
    <3> HIDE DEF in, out
    <3> QED
      BY <1>1, <3>1
  <2>6. ASSUME NEW p \in Policies, NEW n \in Names
        PROVE TotalTokens(InputsToCsl(b.inputs), p, n) + tx.mint[p][n] = TotalTokens(tx.outputs, p, n)
    <3>1. /\ TotalTokens(InputsToCsl(b.inputs), p, n) \in Nat /\ TotalTokens(b.outputs, p, n) \in Nat
          /\ TokensLeft(b)[p][n] = TotalTokens(InputsToCsl(b.inputs), p, n) + b.mint[p][n]
                                         - TotalTokens(b.outputs, p, n)
      BY LeftTyped
    <3>2. TotalTokens(tx.outputs, p, n) = TotalTokens(b.outputs, p, n) + TokensLeft(b)[p][n]
      BY <2>4
    <3>3. tx.mint[p][n] = b.mint[p][n] /\ b.mint[p][n] \in Int
      BY <1>2
    <3> QED
      BY <3>1, <3>2, <3>3
  <2>7. tx.outputs \in Seq(CslOutputs)
    BY <1>2, <2>1, <2>2
  <2>8. ASSUME \A i \in DOMAIN b.outputs : b.outputs[i].coin >= MinAdaForOutput(b.outputs[i])
        PROVE  \A i \in DOMAIN tx.outputs : tx.outputs[i].coin >= MinAdaForOutput(tx.outputs[i])
    <3> TAKE i \in DOMAIN tx.outputs
    <3>1. \/ i \in DOMAIN b.outputs /\ tx.outputs[i] = b.outputs[i]
          \/ tx.outputs[i] = Change(b)
      BY <1>2, <2>1
    <3> QED
      BY <2>2, <2>3, <2>8, <3>1
  <2>9. tx.fee \in Nat /\ tx.fee >= MinFee + (IF tx.change THEN ChangeFee ELSE 0)
    <3>1. tx.fee = MinFee + ChangeFee /\ tx.change = TRUE /\ MinFee \in Nat /\ ChangeFee \in Nat
      BY <1>1, <2>1
    <3> QED
      BY <3>1
  <2> QED
    BY <2>5, <2>6, <2>7, <2>8, <2>9
<1>4. CASE ~HasChange(b)
  <2>1. tx.outputs = b.outputs /\ tx.change = FALSE /\ tx.fee = CoinLeft(b)
    <3>1. tx.outputs = b.outputs /\ tx.fee = CoinLeft(b) /\ tx.change = HasChange(b)
      BY <1>4, BodyIs DEF Body
    <3> QED
      BY <1>4, <3>1 DEF HasChange
  <2>2. in + tx.withdrawal + Refund(b) = TotalCoin(tx.outputs) + Deposit(b) + tx.fee
    <3>1. TotalCoin(tx.outputs) = out
      BY <2>1
    <3> HIDE DEF in, out
    <3> QED
      BY <1>1, <1>2, <2>1, <3>1
  <2>3. ASSUME NEW p \in Policies, NEW n \in Names
        PROVE TotalTokens(InputsToCsl(b.inputs), p, n) + tx.mint[p][n] = TotalTokens(tx.outputs, p, n)
    <3>1. /\ TotalTokens(InputsToCsl(b.inputs), p, n) \in Nat /\ TotalTokens(b.outputs, p, n) \in Nat
          /\ TokensLeft(b)[p][n] = TotalTokens(InputsToCsl(b.inputs), p, n) + b.mint[p][n]
                                         - TotalTokens(b.outputs, p, n)
      BY LeftTyped
    <3>2. TotalTokens(tx.outputs, p, n) = TotalTokens(b.outputs, p, n) /\ TokensLeft(b)[p][n] = 0
      BY <1>4, <2>1, ChangeIs
    <3>3. tx.mint[p][n] = b.mint[p][n] /\ b.mint[p][n] \in Int
      BY <1>2
    <3> QED
      BY <3>1, <3>2, <3>3
  <2>4. tx.fee \in Nat /\ tx.fee >= MinFee + (IF tx.change THEN ChangeFee ELSE 0)
    BY <1>1, <2>1
  <2> QED
    BY <1>2, <2>1, <2>2, <2>3, <2>4
<1> QED
  BY <1>3, <1>4

(***************************************************************************)
(* What a transaction pays and mints.                                      *)
(***************************************************************************)

Theirs(outputs) == [i \in {k \in DOMAIN outputs : outputs[k].address # "mine"} |-> outputs[i]]

\* A request is paid by no output, or by one that carries what it says.
Pays(outputs, a) ==
  \/ /\ Len(outputs) = 0 /\ a.coin = 0
     /\ \A p \in Policies, n \in Names : Quantity(a.assets, p, n) = 0
  \/ /\ Len(outputs) = 1 /\ outputs[1].address = "them" /\ outputs[1].coin = a.coin
     /\ \A p \in Policies, n \in Names : outputs[1].tokens[p][n] = Quantity(a.assets, p, n)

LEMMA TheirsAre ==
  ASSUME NEW f \in Seq(CslOutputs), NEW a, Pays(f, a), NEW g,
         g = f \/ \E x \in CslOutputs : x.address = "mine" /\ g = Append(f, x)
  PROVE  /\ TotalCoin(Theirs(g)) = a.coin
         /\ \A p \in Policies, n \in Names : TotalTokens(Theirs(g), p, n) = Quantity(a.assets, p, n)
<1>1. /\ Len(f) \in Nat /\ DOMAIN f = 1 .. Len(f)
      /\ \A i \in DOMAIN f : f[i] \in CslOutputs /\ i \in DOMAIN g /\ g[i] = f[i]
      /\ \A i \in DOMAIN g : i \in DOMAIN f \/ g[i].address = "mine"
  OBVIOUS
<1>2. /\ DOMAIN Theirs(g) = {k \in DOMAIN g : g[k].address # "mine"}
      /\ \A i \in DOMAIN Theirs(g) : Theirs(g)[i] = g[i]
  BY DEF Theirs
<1>3. CASE Len(f) = 0
  <2>1. DOMAIN Theirs(g) = {}
    BY <1>1, <1>2, <1>3
  <2>2. a.coin = 0 /\ \A p \in Policies, n \in Names : Quantity(a.assets, p, n) = 0
    BY <1>3 DEF Pays
  <2> QED
    BY <2>1, <2>2, TotalEmpty
<1>4. CASE Len(f) # 0
  <2>1. /\ Len(f) = 1 /\ f[1].address = "them" /\ f[1].coin = a.coin
        /\ \A p \in Policies, n \in Names : f[1].tokens[p][n] = Quantity(a.assets, p, n)
    BY <1>4 DEF Pays
  <2>2. 1 \in DOMAIN f /\ g[1] = f[1] /\ f[1] \in CslOutputs /\ DOMAIN f = {1}
    BY <1>1, <2>1
  <2>3. DOMAIN Theirs(g) = {1} /\ Theirs(g)[1] = f[1]
    BY <1>1, <1>2, <2>1, <2>2
  <2>4. f[1].coin \in Int /\ \A p \in Policies, n \in Names : f[1].tokens[p][n] \in Int
    BY <2>2, OutputsValued DEF Tokens
  <2> DEFINE h == Theirs(g)
  <2>5. /\ DOMAIN h = {1} /\ h[1].coin \in Int /\ h[1].coin = a.coin
        /\ \A p \in Policies, n \in Names : h[1].tokens[p][n] \in Int /\ h[1].tokens[p][n] = Quantity(a.assets, p, n)
    BY <2>1, <2>3, <2>4
  <2> HIDE DEF h
  <2>6. /\ TotalCoin(h) = a.coin
        /\ \A p \in Policies, n \in Names : TotalTokens(h, p, n) = Quantity(a.assets, p, n)
    BY <2>5, TotalOne
  <2> QED
    BY <2>6 DEF h
<1> QED
  BY <1>3, <1>4

MintAssets == [name : Names \cup {LongName}, quantity : Int]

Entries(spec, p, n) ==
  [i \in DOMAIN spec.assets |-> IF p = spec.policy /\ spec.assets[i].name = n
                                THEN spec.assets[i].quantity ELSE 0]

LEMMA MintedIs ==
  ASSUME NEW spec, spec.assets \in Seq(MintAssets), NEW p, NEW n
  PROVE  /\ Minted(spec, p, n) \in Int
         /\ p # spec.policy \/ spec.assets = <<>> => Minted(spec, p, n) = 0
<1> DEFINE e == Entries(spec, p, n)
           D == DOMAIN spec.assets
<1>1. Minted(spec, p, n) = SumFunctionOnSet(e, D)
  <2>1. ASSUME NEW g PROVE SumFunction(g) = SumFunctionOnSet(g, DOMAIN g)
    BY DEF SumFunction, SumFunctionOnSet, FoldFunction, FoldFunctionOnSet
  <2>2. Minted(spec, p, n) = SumFunction(e)
    BY Zenon DEF Minted, ComputePolicyId, Entries
  <2>3. DOMAIN e = D
    BY DEF Entries
  <2> QED
    BY <2>1, <2>2, <2>3
<1>2. IsFiniteSet(D) /\ \A i \in D : spec.assets[i].quantity \in Int
  <2>1. D = 1 .. Len(spec.assets) /\ Len(spec.assets) \in Nat /\ \A i \in D : spec.assets[i] \in MintAssets
    OBVIOUS
  <2>2. IsFiniteSet(D)
    BY <2>1, FS_Interval
  <2>3. \A i \in D : spec.assets[i].quantity \in Int
    BY <2>1 DEF MintAssets
  <2> QED
    BY <2>2, <2>3
<1>3. \A i \in D : e[i] \in Int /\ (p # spec.policy => e[i] = 0)
  BY <1>2 DEF Entries
<1>4. Minted(spec, p, n) \in Int
  <2> HIDE DEF e, D
  <2> QED
    BY <1>1, <1>2, <1>3, SumAdd
<1>5. p # spec.policy => Minted(spec, p, n) = 0
  <2> HIDE DEF e, D
  <2> QED
    BY <1>1, <1>2, <1>3, SumZero
<1>6. spec.assets = <<>> => Minted(spec, p, n) = 0
  <2>1. spec.assets = <<>> => D = {}
    OBVIOUS
  <2> HIDE DEF e, D
  <2> QED
    BY <1>1, <2>1, SumEmpty
<1> QED
  BY <1>4, <1>5, <1>6

(***************************************************************************)
(* What a built transaction has of its request.                            *)
(***************************************************************************)

\* A builder filled in for a request, from all it spends.
Meets(b, j) ==
  /\ Filled(b) /\ b.inputs = Spent(j) /\ DOMAIN b.inputs # {}
  /\ Pays(b.outputs, j.ask)
  /\ \A p \in Policies, n \in Names :
       b.mint[p][n] = Minted([policy |-> j.ask.policy, assets |-> j.ask.mint], p, n)

\* Its outcome, and what it is reported to be.
Reported(b, j) ==
  /\ ~ChangeFails(b) /\ j.built.body = Body(b, "mine") /\ j.built.fee = Body(b, "mine").fee
  /\ j.built.deposit_change = Refund(b) - Deposit(b)
  /\ \A i \in DOMAIN b.outputs : b.outputs[i].coin >= MinAdaForOutput(b.outputs[i])
  /\ \A i \in DOMAIN b.aux : Bytes(b.aux[i]) <= MaxText
  /\ \A p \in Policies, n \in Names : p \notin j.built.witness_set => b.mint[p][n] = 0
  /\ TxSize(Body(b, "mine")) <= MaxTxSize

LEMMA AskedAndBuilt ==
  ASSUME NEW j, NEW b, Meets(b, j), Reported(b, j)
  PROVE  AsAsked(j)
<1> DEFINE a == j.ask
           tx == j.built.body
           refund == IF tx.cert = "deregister" THEN KeyDeposit ELSE 0
           held == IF tx.cert = "register" THEN KeyDeposit ELSE 0
           spent == InputsToCsl(Spent(j))
<1>1. /\ Filled(b) /\ ~ChangeFails(b) /\ tx = Body(b, "mine") /\ b.inputs = Spent(j)
      /\ b.outputs \in Seq(CslOutputs) /\ Pays(b.outputs, a)
  BY DEF Meets, Reported, Filled
<1>2. /\ tx.inputs = DOMAIN b.inputs /\ tx.cert = b.cert /\ tx.withdrawal = b.withdrawal
      /\ tx.mint = b.mint /\ tx.aux = b.aux
      /\ HasChange(b) => tx.outputs = Append(b.outputs, Change(b))
      /\ ~HasChange(b) => tx.outputs = b.outputs
  BY <1>1, BodyIs
<1>3. /\ tx.outputs \in Seq(CslOutputs) /\ tx.fee \in Nat
      /\ tx.fee >= MinFee + (IF tx.change THEN ChangeFee ELSE 0)
      /\ \A i \in DOMAIN tx.outputs : tx.outputs[i].coin >= MinAdaForOutput(tx.outputs[i])
      /\ TotalCoin(InputsToCsl(b.inputs)) + tx.withdrawal + Refund(b)
              = TotalCoin(tx.outputs) + Deposit(b) + tx.fee
      /\ \A p \in Policies, n \in Names :
              TotalTokens(InputsToCsl(b.inputs), p, n) + tx.mint[p][n] = TotalTokens(tx.outputs, p, n)
  <2>1. \A i \in DOMAIN b.outputs : b.outputs[i].coin >= MinAdaForOutput(b.outputs[i])
    BY DEF Reported
  <2> HIDE DEF tx
  <2> QED
    BY <1>1, <2>1, BodyAddsUp
<1>4. refund = Refund(b) /\ held = Deposit(b)
  BY <1>2 DEF Refund, Deposit
<1>5. /\ TotalCoin(Theirs(tx.outputs)) = a.coin
      /\ \A p \in Policies, n \in Names : TotalTokens(Theirs(tx.outputs), p, n) = Quantity(a.assets, p, n)
  <2> DEFINE f == b.outputs
             g == tx.outputs
  <2>1. HasChange(b) => Change(b) \in CslOutputs /\ Change(b).address = "mine"
    BY <1>1, ChangeIs DEF Change
  <2>2. g = f \/ \E x \in CslOutputs : x.address = "mine" /\ g = Append(f, x)
    BY <1>2, <2>1
  <2> HIDE DEF f, g, a
  <2> QED
    BY <1>1, <2>2, TheirsAre DEF f, g
<1>6. WithinLimits(tx)
  <2>1. \A i \in DOMAIN tx.aux : Bytes(tx.aux[i]) <= MaxText
    BY <1>2 DEF Reported
  <2>2. TxSize(tx) <= MaxTxSize
    BY <1>1 DEF Reported
  <2> HIDE DEF tx
  <2> QED
    BY <1>3, <2>1, <2>2 DEF WithinLimits
<1>7. Minting(tx) \subseteq j.built.witness_set
  <2>1. \A p \in Policies, n \in Names : p \notin j.built.witness_set => tx.mint[p][n] = 0
    BY <1>2 DEF Reported
  <2> HIDE DEF tx
  <2> QED
    BY <2>1 DEF Minting
<1>8. /\ tx.inputs = DOMAIN Spent(j) /\ tx.inputs # {}
      /\ tx.withdrawal \in Nat
      /\ j.built.fee = tx.fee /\ j.built.deposit_change = refund - held
      /\ \A p \in Policies, n \in Names :
            tx.mint[p][n] = Minted([policy |-> a.policy, assets |-> a.mint], p, n)
  BY <1>1, <1>2, <1>4 DEF Meets, Reported, Filled
<1>9. TotalCoin(spent) + tx.withdrawal + refund = TotalCoin(tx.outputs) + held + tx.fee
  BY <1>1, <1>3, <1>4, Zenon
<1>10. \A p \in Policies, n \in Names :
         TotalTokens(spent, p, n) + tx.mint[p][n] = TotalTokens(tx.outputs, p, n)
  BY <1>1, <1>3, Zenon
<1> HIDE DEF a, tx, refund, held, spent
<1>11. AsAsked(j) <=>
         /\ tx.inputs = DOMAIN Spent(j) /\ tx.inputs # {}
         /\ tx.outputs \in Seq(CslOutputs) /\ tx.withdrawal \in Nat /\ tx.fee \in Nat
         /\ WithinLimits(tx) /\ Minting(tx) \subseteq j.built.witness_set
         /\ j.built.fee = tx.fee /\ j.built.deposit_change = refund - held
         /\ TotalCoin(Theirs(tx.outputs)) = a.coin
         /\ TotalCoin(spent) + tx.withdrawal + refund = TotalCoin(tx.outputs) + held + tx.fee
         /\ \A p \in Policies, n \in Names :
              /\ TotalTokens(Theirs(tx.outputs), p, n) = Quantity(a.assets, p, n)
              /\ tx.mint[p][n] = Minted([policy |-> a.policy, assets |-> a.mint], p, n)
              /\ TotalTokens(spent, p, n) + tx.mint[p][n] = TotalTokens(tx.outputs, p, n)
  BY Zenon DEF AsAsked, a, tx, refund, held, spent, Theirs
<1> QED
  BY <1>3, <1>5, <1>6, <1>7, <1>8, <1>9, <1>10, <1>11, Zenon

\* The sums of a part of what is spent are no larger.
LEMMA TotalsGrow ==
  ASSUME NEW f, NEW g, Valued(f), Valued(g), DOMAIN f \subseteq DOMAIN g,
         \A i \in DOMAIN f : g[i] = f[i]
  PROVE  /\ TotalCoin(f) <= TotalCoin(g)
         /\ \A p \in Policies, n \in Names : TotalTokens(f, p, n) <= TotalTokens(g, p, n)
<1> DEFINE S == DOMAIN f
           T == DOMAIN g
<1>1. IsFiniteSet(S) /\ IsFiniteSet(T) /\ S \in SUBSET T
  BY DEF Valued
<1>2. TotalCoin(f) <= TotalCoin(g)
  <2> DEFINE x == Coins(f)
             y == Coins(g)
  <2>1. /\ \A i \in T : y[i] \in Nat
        /\ \A i \in S : x[i] = y[i] /\ y[i] \in Int
    BY DEF Coins, Valued
  <2>2. TotalCoin(f) = SumFunctionOnSet(x, S) /\ TotalCoin(g) = SumFunctionOnSet(y, T)
    BY TotalIs
  <2> HIDE DEF x, y, S, T
  <2>3. SumFunctionOnSet(x, S) = SumFunctionOnSet(y, S)
    BY <1>1, <2>1, SumSame
  <2>4. SumFunctionOnSet(y, S) <= SumFunctionOnSet(y, T)
    BY <1>1, <2>1, SumMonotone
  <2> QED
    BY <2>2, <2>3, <2>4
<1>3. ASSUME NEW p \in Policies, NEW n \in Names PROVE TotalTokens(f, p, n) <= TotalTokens(g, p, n)
  <2> DEFINE x == TokensOf(f, p, n)
             y == TokensOf(g, p, n)
  <2>1. /\ \A i \in T : y[i] \in Nat
        /\ \A i \in S : x[i] = y[i] /\ y[i] \in Int
    BY DEF TokensOf, Valued, Tokens
  <2>2. TotalTokens(f, p, n) = SumFunctionOnSet(x, S) /\ TotalTokens(g, p, n) = SumFunctionOnSet(y, T)
    BY TotalIs
  <2> HIDE DEF x, y, S, T
  <2>3. SumFunctionOnSet(x, S) = SumFunctionOnSet(y, S)
    BY <1>1, <2>1, SumSame
  <2>4. SumFunctionOnSet(y, S) <= SumFunctionOnSet(y, T)
    BY <1>1, <2>1, SumMonotone
  <2> QED
    BY <2>2, <2>3, <2>4
<1> QED
  BY <1>2, <1>3

LEMMA FirstOfTwo == First(<<"None", "None">>) = "None"
<1> DEFINE cs == <<"None", "None">>
<1>1. \A i \in DOMAIN cs : cs[i] = "None"
  OBVIOUS
<1> HIDE DEF cs
<1>2. First(cs) = "None"
  BY <1>1, FirstOfNone
<1> QED
  BY <1>2 DEF cs

\* A dApp is told the sums of what a transaction was built from.
LEMMA ToldIs ==
  ASSUME NEW j, Stock(j.inputs), TotalCoin(InputsToCsl(j.inputs)) <= MaxCoin,
         \A p \in Policies, n \in Names : TotalTokens(InputsToCsl(j.inputs), p, n) <= MaxCoin
  PROVE  Told(j)
<1> DEFINE f == j.inputs
           csl == InputsToCsl(f)
           tokens == [p \in Policies |-> [n \in Names |-> TotalTokens(csl, p, n)]]
           sum == [coin |-> TotalCoin(csl), tokens |-> tokens]
           value == [coin |-> TotalCoin(csl), assets |-> AssetsOf(tokens)]
           long == \E i \in DOMAIN f : ValueCheck(f[i]) # "None"
           over == \/ sum.coin > MaxCoin
                   \/ \E p \in Policies, n \in Names : sum.tokens[p][n] > MaxCoin
<1>1. Valued(csl)
  BY StockValued
<1>2. TotalCoin(csl) \in Nat /\ \A p \in Policies, n \in Names : TotalTokens(csl, p, n) \in Nat
  BY <1>1, TotalNat
<1>3. tokens \in Tokens
  BY <1>2 DEF Tokens
<1>4. ~long
  BY NoLongName DEF Stock
<1>5. ~over
  <2>1. MaxCoin \in Nat
    BY Parameters
  <2>2. sum.coin = TotalCoin(csl) /\ \A p \in Policies, n \in Names : sum.tokens[p][n] = TotalTokens(csl, p, n)
    OBVIOUS
  <2>3. /\ TotalCoin(csl) <= MaxCoin
        /\ \A p \in Policies, n \in Names : TotalTokens(csl, p, n) <= MaxCoin
    OBVIOUS
  <2>4. ~(sum.coin > MaxCoin)
    BY <1>2, <2>1, <2>2, <2>3
  <2>5. \A p \in Policies, n \in Names : ~(sum.tokens[p][n] > MaxCoin)
    BY <1>2, <2>1, <2>2, <2>3
  <2> QED
    BY <2>4, <2>5, Zenon
<1>6. SumValues(f) = Ok(value)
  <2>1. SumValues(f) = Unless(First(<<Check(long, "CslError"), Check(over, "CslError")>>), CslValueToValue(sum))
    BY Zenon DEF SumValues, InputsToCsl
  <2>2. Check(long, "CslError") = "None"
    BY <1>4 DEF Check
  <2>3. Check(over, "CslError") = "None"
    BY <1>5 DEF Check
  <2>4. CslValueToValue(sum) = value
    BY DEF CslValueToValue
  <2> HIDE DEF long, over, sum, value
  <2>5. First(<<Check(long, "CslError"), Check(over, "CslError")>>) = "None"
    BY <2>2, <2>3, FirstOfTwo
  <2> QED
    BY <2>1, <2>4, <2>5 DEF Unless
<1>7. WireSumValues(<<f>>).ok = value
  <2>1. WireSumValues(<<f>>) = SumValues(f)
    BY DEF WireSumValues
  <2> HIDE DEF value
  <2> QED
    BY <1>6, <2>1 DEF Ok
<1>8. ValueToCborHex(value) = Ok([coin |-> TotalCoin(csl), tokens |-> tokens])
  <2>1. value.assets = AssetsOf(tokens) /\ value.coin = TotalCoin(csl)
    OBVIOUS
  <2>2. value.assets \in SUBSET Listed(Names)
    <3> HIDE DEF tokens
    <3> QED
      BY <1>3, <2>1, AssetsListed
  <2>3. ValueCheck(value) = "None"
    <3> HIDE DEF value
    <3> QED
      BY <2>2, NoLongName
  <2>4. \A p \in Policies, n \in Names : Quantity(AssetsOf(tokens), p, n) = tokens[p][n]
    <3> HIDE DEF tokens
    <3> QED
      BY <1>3, QuantityOfAssets
  <2>5. [p \in Policies |-> [n \in Names |-> Quantity(AssetsOf(tokens), p, n)]] = tokens
    <3> HIDE DEF tokens
    <3> QED
      BY <1>3, <2>4 DEF Tokens
  <2> HIDE DEF tokens, value
  <2>6. ValueToCsl(value) = [coin |-> TotalCoin(csl), tokens |-> tokens]
    BY <2>1, <2>5, Zenon DEF ValueToCsl
  <2> QED
    BY <2>3, <2>6 DEF ValueToCborHex, Unless
<1>9. TotalCoin(f) = TotalCoin(csl)
  <2>1. DOMAIN csl = DOMAIN f /\ \A c \in DOMAIN f : csl[c].coin = f[c].coin
    BY StockValued
  <2>2. Coins(csl) = Coins(f)
    <3> HIDE DEF csl, f
    <3> QED
      BY <2>1 DEF Coins
  <2> QED
    BY <2>1, <2>2, TotalIs
<1>10. WireValueToCborHex(<<WireSumValues(<<f>>).ok>>) = Ok([coin |-> TotalCoin(f), tokens |-> tokens])
  <2>1. WireValueToCborHex(<<value>>) = ValueToCborHex(value)
    <3> HIDE DEF value
    <3> QED
      BY DEF WireValueToCborHex
  <2> HIDE DEF value, tokens, csl, f
  <2> QED
    BY <1>7, <1>8, <1>9, <2>1
<1> QED
  BY <1>10, Zenon DEF Told

LEMMA PaysTotals ==
  ASSUME NEW f \in Seq(CslOutputs), NEW a, Pays(f, a)
  PROVE  /\ TotalCoin(f) = a.coin
         /\ \A p \in Policies, n \in Names : TotalTokens(f, p, n) = Quantity(a.assets, p, n)
<1>1. CASE Len(f) = 0
  <2>1. DOMAIN f = {}
    BY <1>1
  <2>2. a.coin = 0 /\ \A p \in Policies, n \in Names : Quantity(a.assets, p, n) = 0
    BY <1>1 DEF Pays
  <2> QED
    BY <2>1, <2>2, TotalEmpty
<1>2. CASE Len(f) # 0
  <2>1. /\ Len(f) = 1 /\ f[1].coin = a.coin
        /\ \A p \in Policies, n \in Names : f[1].tokens[p][n] = Quantity(a.assets, p, n)
    BY <1>2 DEF Pays
  <2>2. f[1] \in CslOutputs /\ DOMAIN f = {1}
    <3>1. DOMAIN f = 1 .. Len(f) /\ \A i \in DOMAIN f : f[i] \in CslOutputs
      OBVIOUS
    <3> QED
      BY <2>1, <3>1
  <2>3. f[1].coin \in Int /\ \A p \in Policies, n \in Names : f[1].tokens[p][n] \in Int
    BY <2>2, OutputsValued DEF Tokens
  <2>4. /\ TotalCoin(f) = f[1].coin
        /\ \A p \in Policies, n \in Names : TotalTokens(f, p, n) = f[1].tokens[p][n]
    BY <2>2, <2>3, TotalOne
  <2> QED
    BY <2>1, <2>4
<1> QED
  BY <1>1, <1>2

\* The reasons for which change cannot be paid.
Short(j) ==
  LET a == j.ask
      ins == InputsToCsl(Spent(j))
  IN \/ TotalCoin(ins) < a.coin + KeyDeposit + MinFee + ChangeFee + TokenMinAda
     \/ TotalCoin(ins) + j.reward + KeyDeposit > MaxCoin
     \/ \E p \in Policies, n \in Names :
          \/ TotalTokens(ins, p, n) + Minted([policy |-> a.policy, assets |-> a.mint], p, n)
               < Quantity(a.assets, p, n)
          \/ TotalTokens(ins, p, n) > MaxCoin

LEMMA ShortOfFunds ==
  ASSUME NEW j, NEW b, Meets(b, j), ChangeFails(b), j.ask.coin \in Nat, j.reward \in Nat,
         b.withdrawal \in {0, j.reward},
         b.outputs = <<>> \/ \A p \in Policies, n \in Names : b.mint[p][n] = 0
  PROVE  Short(j)
<1> DEFINE a == j.ask
           ins == InputsToCsl(Spent(j))
           minted(p, n) == Minted([policy |-> a.policy, assets |-> a.mint], p, n)
           asked(p, n) == Quantity(a.assets, p, n)
           coin == TotalCoin(ins)
<1>1. Filled(b) /\ b.inputs = Spent(j) /\ b.outputs \in Seq(CslOutputs) /\ Pays(b.outputs, a)
      /\ \A p \in Policies, n \in Names : b.mint[p][n] = minted(p, n) /\ b.mint[p][n] \in Int
  BY DEF Meets, Filled
<1>2. /\ TotalCoin(b.outputs) = a.coin
      /\ \A p \in Policies, n \in Names : TotalTokens(b.outputs, p, n) = asked(p, n)
  BY <1>1, PaysTotals
<1>3. /\ coin \in Nat /\ CoinIn(b) = coin + b.withdrawal + Refund(b) /\ CoinOut(b) = a.coin + Deposit(b)
      /\ CoinLeft(b) = CoinIn(b) - CoinOut(b) /\ ChangeCoin(b) = CoinLeft(b) - MinFee - ChangeFee
  BY <1>1, <1>2, LeftTyped
<1>4. /\ Refund(b) \in {0, KeyDeposit} /\ Deposit(b) \in {0, KeyDeposit} /\ b.withdrawal \in Nat
      /\ KeyDeposit \in Nat /\ MinFee \in Nat /\ ChangeFee \in Nat /\ TokenMinAda \in Nat /\ MaxCoin \in Nat
  BY Parameters DEF Refund, Deposit
<1>5. \A p \in Policies, n \in Names :
        /\ TotalTokens(ins, p, n) \in Nat /\ asked(p, n) \in Nat
        /\ TokensLeft(b)[p][n] = TotalTokens(ins, p, n) + minted(p, n) - asked(p, n)
  <2> TAKE p \in Policies, n \in Names
  <2>1. /\ TotalTokens(InputsToCsl(b.inputs), p, n) \in Nat
        /\ TotalTokens(b.outputs, p, n) \in Nat
        /\ TokensLeft(b)[p][n] = TotalTokens(InputsToCsl(b.inputs), p, n) + b.mint[p][n]
                                   - TotalTokens(b.outputs, p, n)
    BY <1>1, LeftTyped
  <2>2. b.mint[p][n] = minted(p, n) /\ TotalTokens(b.outputs, p, n) = asked(p, n)
    BY <1>1, <1>2
  <2>3. TotalTokens(InputsToCsl(b.inputs), p, n) = TotalTokens(ins, p, n)
    BY <1>1
  <2> HIDE DEF ins, minted, asked
  <2> QED
    BY <2>1, <2>2, <2>3
<1>6. \/ CoinIn(b) > MaxCoin \/ CoinOut(b) > MaxCoin
      \/ CoinLeft(b) < MinFee \/ ChangeCoin(b) < TokenMinAda
      \/ \E p \in Policies, n \in Names :
           TotalTokens(ins, p, n) > MaxCoin \/ asked(p, n) > MaxCoin \/ TokensLeft(b)[p][n] < 0
  <2>1. \/ CoinIn(b) > MaxCoin \/ CoinOut(b) > MaxCoin
        \/ \E p \in Policies, n \in Names :
             \/ TotalTokens(InputsToCsl(b.inputs), p, n) > MaxCoin
             \/ TotalTokens(b.outputs, p, n) > MaxCoin
        \/ CoinLeft(b) < MinFee
        \/ \E p \in Policies, n \in Names : TokensLeft(b)[p][n] < 0
        \/ HasTokens(TokensLeft(b)) /\ ChangeCoin(b) < TokenMinAda
    BY Zenon DEF ChangeFails
  <2>2. InputsToCsl(b.inputs) = ins
    BY <1>1
  <2> HIDE DEF ins, minted, asked, coin
  <2> QED
    BY <1>2, <2>1, <2>2
<1>7. Short(j) <=>
        \/ coin < a.coin + KeyDeposit + MinFee + ChangeFee + TokenMinAda
        \/ coin + j.reward + KeyDeposit > MaxCoin
        \/ \E p \in Policies, n \in Names :
             TotalTokens(ins, p, n) + minted(p, n) < asked(p, n) \/ TotalTokens(ins, p, n) > MaxCoin
  BY Zenon DEF Short
<1>8. a.coin \in Nat
  OBVIOUS
<1>9. \A p \in Policies, n \in Names : asked(p, n) = 0 \/ minted(p, n) = 0
  <2> TAKE p \in Policies, n \in Names
  <2>1. CASE b.outputs = <<>>
    <3>1. DOMAIN b.outputs = {}
      BY <1>1, <2>1
    <3>2. TotalTokens(b.outputs, p, n) = asked(p, n)
      BY <1>2
    <3> DEFINE f == b.outputs
    <3> HIDE DEF f, asked, minted
    <3>3. DOMAIN f = {}
      BY <3>1 DEF f
    <3>4. TotalTokens(f, p, n) = 0
      BY <3>3, TotalEmpty
    <3> QED
      BY <3>2, <3>4 DEF f
  <2>2. CASE \A q \in Policies, m \in Names : b.mint[q][m] = 0
    BY <1>1, <2>2
  <2> QED
    BY <2>1, <2>2
<1>10. \A p \in Policies, n \in Names : minted(p, n) \in Int
  BY <1>1
<1> HIDE DEF a, ins, minted, asked, coin
<1>11. CASE CoinIn(b) > MaxCoin \/ CoinOut(b) > MaxCoin \/ CoinLeft(b) < MinFee \/ ChangeCoin(b) < TokenMinAda
  <2> DEFINE w == b.withdrawal
             r == Refund(b)
             d == Deposit(b)
             c == a.coin
             m == j.reward
  <2>1. /\ w \in Nat /\ r \in Nat /\ d \in Nat /\ c \in Nat /\ m \in Nat /\ coin \in Nat
        /\ r <= KeyDeposit /\ d <= KeyDeposit /\ w <= m
        /\ KeyDeposit \in Nat /\ MinFee \in Nat /\ ChangeFee \in Nat /\ TokenMinAda \in Nat /\ MaxCoin \in Nat
    BY <1>3, <1>4, <1>8
  <2>2. \/ coin + w + r > MaxCoin \/ c + d > MaxCoin
        \/ (coin + w + r) - (c + d) < MinFee
        \/ (coin + w + r) - (c + d) - MinFee - ChangeFee < TokenMinAda
    BY <1>3, <1>11
  <2> HIDE DEF w, r, d, c, m
  <2>3. \/ coin < c + KeyDeposit + MinFee + ChangeFee + TokenMinAda
        \/ coin + m + KeyDeposit > MaxCoin
    BY <2>1, <2>2
  <2>4. \/ coin < a.coin + KeyDeposit + MinFee + ChangeFee + TokenMinAda
        \/ coin + j.reward + KeyDeposit > MaxCoin
    BY <2>3 DEF c, m
  <2> QED
    BY <1>7, <2>4
<1>12. CASE \E p \in Policies, n \in Names :
           TotalTokens(ins, p, n) > MaxCoin \/ asked(p, n) > MaxCoin \/ TokensLeft(b)[p][n] < 0
  <2>1. PICK p \in Policies, n \in Names :
           TotalTokens(ins, p, n) > MaxCoin \/ asked(p, n) > MaxCoin \/ TokensLeft(b)[p][n] < 0
    BY <1>12
  <2>2. TotalTokens(ins, p, n) + minted(p, n) < asked(p, n) \/ TotalTokens(ins, p, n) > MaxCoin
    BY <1>4, <1>5, <1>9, <1>10, <2>1
  <2> QED
    BY <1>7, <2>2
<1> QED
  BY <1>6, <1>11, <1>12

(***************************************************************************)
(* A call: what comes of a request.                                        *)
(***************************************************************************)

LEMMA RequestIs ==
  ASSUME NEW a \in Requests
  PROVE  /\ a.op \in Ops /\ a.to \in {"them", Malformed} /\ a.coin \in Nat
         /\ a.assets \in SUBSET Listed(Names \cup {LongName})
         /\ a.policy \in Policies /\ a.mint \in Seq(MintAssets) /\ a.image \in Seq(1 .. 4)
         /\ a.op # "pay" => a.coin = 0 /\ \A p, n : Quantity(a.assets, p, n) = 0
         /\ a.op # "mint" => a.mint = <<>> /\ a.image = <<>>
         /\ a.op = "mint" => a.mint # <<>>
         /\ a.data \in Seq({"data", Malformed, OtherHex})
         /\ a.items \in Seq({"data", Malformed, OtherHex})
<1>1. /\ a.op \in Ops /\ a.to \in {"them", Malformed} /\ a.coin \in Nat
      /\ a.assets \in SUBSET Listed(Names \cup {LongName})
      /\ a.policy \in Policies /\ a.mint \in Seq(MintAssets) /\ a.image \in Seq(1 .. 4)
      /\ a.op # "pay" => a.coin = 0 /\ a.assets = {}
      /\ a.op = "mint" <=> a.mint # <<>>
      /\ a.image # <<>> => a.op = "mint"
      /\ a.data \in Seq({"data", Malformed, OtherHex})
      /\ a.items \in Seq({"data", Malformed, OtherHex})
  BY DEF Requests, Listed, MintAssets
<1>2. a.assets = {} => \A p, n : Quantity(a.assets, p, n) = 0
  BY DEF Quantity
<1> QED
  BY <1>1, <1>2

LEMMA InputsStock ==
  ASSUME NEW C, C \subseteq DOMAIN unspent, IsFiniteSet(DOMAIN unspent),
         \A c \in DOMAIN unspent : unspent[c] \in Outputs
  PROVE  /\ Stock(TxInputs(C)) /\ DOMAIN TxInputs(C) = C
         /\ \A c \in C : TxInputs(C)[c] = ToTxInput(unspent[c])
<1>1. DOMAIN TxInputs(C) = C /\ \A c \in C : TxInputs(C)[c] = ToTxInput(unspent[c])
  BY DEF TxInputs
<1>2. TxInputs(C) = [c \in DOMAIN TxInputs(C) |-> TxInputs(C)[c]]
  BY DEF TxInputs
<1>3. IsFiniteSet(C)
  BY FS_Subset
<1>4. \A c \in C : ToTxInput(unspent[c]).coin \in Nat /\ ToTxInput(unspent[c]).assets \in SUBSET Listed(Names)
  <2> TAKE c \in C
  <2>1. unspent[c] \in Outputs
    OBVIOUS
  <2> QED
    BY <2>1, RoundTrip
<1> QED
  BY <1>1, <1>2, <1>3, <1>4 DEF Stock

LEMMA SpentIs ==
  ASSUME NEW j, NEW A, NEW B, j.inputs = TxInputs(A), j.locked = TxInputs(B)
  PROVE  Spent(j) = TxInputs(A \cup B)
<1>1. /\ DOMAIN TxInputs(A) = A /\ DOMAIN TxInputs(B) = B
      /\ \A c \in A : TxInputs(A)[c] = ToTxInput(unspent[c])
      /\ \A c \in B : TxInputs(B)[c] = ToTxInput(unspent[c])
  BY DEF TxInputs
<1>2. Spent(j) = [c \in A \cup B |-> IF c \in B THEN TxInputs(B)[c] ELSE TxInputs(A)[c]]
  BY <1>1 DEF Spent
<1>3. \A c \in A \cup B : (IF c \in B THEN TxInputs(B)[c] ELSE TxInputs(A)[c]) = ToTxInput(unspent[c])
  BY <1>1
<1>4. TxInputs(A \cup B) = [c \in A \cup B |-> ToTxInput(unspent[c])]
  BY DEF TxInputs
<1> QED
  BY <1>2, <1>3, <1>4

NamesOf(a) == {a.mint[i].name : i \in DOMAIN a.mint} \cup {x.name : x \in a.assets}
Least(a) == \E i \in DOMAIN a.mint : a.mint[i].quantity = MinInt
Zeros(a) == \E i \in DOMAIN a.mint : a.mint[i].quantity = 0
DataOf(a) == Range(a.data) \cup Range(a.items)
MetaParts(a) == IF a.image = <<>> THEN 0 ELSE Len(TextOrChunks(a.image))
TooLarge(j) ==
  Cardinality(DOMAIN Spent(j)) + (IF j.ask.op = "pay" THEN 2 ELSE 1) + MetaParts(j.ask) > MaxTxSize
CancelsOut(a) ==
  \E i \in DOMAIN a.mint :
    /\ a.mint[i].name \in Names
    /\ Minted([policy |-> a.policy, assets |-> a.mint], a.policy, a.mint[i].name) = 0
Unbuildable(j) ==
  LET a == j.ask
      ins == InputsToCsl(Spent(j))
      minted(p, n) == Minted([policy |-> a.policy, assets |-> a.mint], p, n)
      parts == Cardinality(DOMAIN Spent(j)) + (IF a.op = "pay" THEN 2 ELSE 1)
                 + (IF a.image = <<>> THEN 0 ELSE Len(TextOrChunks(a.image)))
  IN \/ TotalCoin(ins) < a.coin + KeyDeposit + MinFee + ChangeFee + TokenMinAda
     \/ TotalCoin(ins) + j.reward + KeyDeposit > MaxCoin
     \/ \E p \in Policies, n \in Names :
          \/ TotalTokens(ins, p, n) + minted(p, n) < Quantity(a.assets, p, n)
          \/ TotalTokens(ins, p, n) > MaxCoin
     \/ parts > MaxTxSize
     \/ \E i \in DOMAIN a.mint :
          a.mint[i].name \in Names /\ minted(a.policy, a.mint[i].name) = 0

LEMMA HonestIs ==
  ASSUME NEW j
  PROVE  LET a == j.ask IN
         /\ j.built.err = "InvalidAddress" => (Honest(j) <=> a.to = Malformed)
         /\ j.built.err = "InvalidCbor" => (Honest(j) <=> OtherHex \in DataOf(a))
         /\ j.built.err = "CslError" =>
              (Honest(j) <=> \/ LongName \in NamesOf(a) \/ a.pool = OtherHex
                             \/ a.op = "pay" /\ a.coin < TokenMinAda
                             \/ Cardinality(a.assets) > MaxValSize
                             \/ Zeros(a))
         /\ j.built.err = "InvalidParameter" =>
              (Honest(j) <=>
                 \/ DOMAIN j.inputs = {} \/ a.pool = Malformed \/ Malformed \in DataOf(a) \/ Least(a)
                 \/ a.image # <<>> /\ NamesOf(a) \cap NonUtf8 # {}
                 \/ a.op = "unlock" /\ DOMAIN j.locked = {}
                 \/ a.op = "unlock" /\ \A c \in DOMAIN j.inputs : j.inputs[c].assets # {})
         /\ j.built.err = "TxBuild" => (Honest(j) <=> Short(j) \/ TooLarge(j) \/ CancelsOut(a))
         /\ j.built.err = "panic" =>
              (Honest(j) <=> ~Least(a) /\ \E p \in Policies, n \in Names :
                               Minted([policy |-> a.policy, assets |-> a.mint], p, n) = MinInt)
<1> DEFINE e == j.built.err
           a == j.ask
           C1 == a.to = Malformed
           C2 == OtherHex \in DataOf(a)
           C3 == \/ LongName \in NamesOf(a) \/ a.pool = OtherHex
                 \/ a.op = "pay" /\ a.coin < TokenMinAda
                 \/ Cardinality(a.assets) > MaxValSize
                 \/ Zeros(a)
           C4 == \/ DOMAIN j.inputs = {} \/ a.pool = Malformed \/ Malformed \in DataOf(a) \/ Least(a)
                 \/ a.image # <<>> /\ NamesOf(a) \cap NonUtf8 # {}
                 \/ a.op = "unlock" /\ DOMAIN j.locked = {}
                 \/ a.op = "unlock" /\ \A c \in DOMAIN j.inputs : j.inputs[c].assets # {}
           C6 == ~Least(a) /\ \E p \in Policies, n \in Names :
                               Minted([policy |-> a.policy, assets |-> a.mint], p, n) = MinInt
<1>1. Honest(j) = CASE e = "InvalidAddress" -> C1 [] e = "InvalidCbor" -> C2 [] e = "CslError" -> C3
                    [] e = "InvalidParameter" -> C4 [] e = "TxBuild" -> Unbuildable(j)
                    [] e = "panic" -> C6 [] OTHER -> FALSE
  BY Zenon DEF Honest, Unbuildable, NamesOf, Least, Zeros, DataOf
<1>2. Unbuildable(j) <=> Short(j) \/ TooLarge(j) \/ CancelsOut(a)
  BY Zenon DEF Unbuildable, Short, TooLarge, MetaParts, CancelsOut
<1> HIDE DEF C1, C2, C3, C4, C6, e
<1>3. /\ e = "InvalidAddress" => Honest(j) = C1
      /\ e = "InvalidCbor" => Honest(j) = C2
      /\ e = "CslError" => Honest(j) = C3
      /\ e = "InvalidParameter" => Honest(j) = C4
      /\ e = "TxBuild" => Honest(j) = Unbuildable(j)
      /\ e = "panic" => Honest(j) = C6
  BY <1>1
<1> QED
  BY <1>2, <1>3, Zenon DEF C1, C2, C3, C4, C6, e

Outcome(j) ==
  /\ j.built.err = "None" => AsAsked(j) /\ Told(j) /\ TextWhole(j)
  /\ j.built.err # "None" => Honest(j)

\* What a builder is filled in with when no check failed before.
Checked(b, j, ws) ==
  /\ Meets(b, j)
  /\ \A i \in DOMAIN b.outputs : b.outputs[i].coin >= MinAdaForOutput(b.outputs[i])
  /\ \A i \in DOMAIN b.aux : Bytes(b.aux[i]) <= MaxText
  /\ \A p \in Policies, n \in Names : p \notin ws => b.mint[p][n] = 0
  /\ FlattenSeq(b.aux) = j.ask.image
  /\ b.outputs = <<>> \/ \A p \in Policies, n \in Names : b.mint[p][n] = 0
  /\ b.withdrawal \in {0, j.reward} /\ ~Least(j.ask)
  /\ Len(b.outputs) = (IF j.ask.op = "pay" THEN 1 ELSE 0)
  /\ Len(b.aux) = MetaParts(j.ask) /\ Len(b.aux) \in Nat
  /\ Cancelled(b) => CancelsOut(j.ask)

LEMMA OutcomeOf ==
  ASSUME NEW j, NEW checked, NEW b, NEW ws, NEW dc,
         j.built = Finalise(checked, b, "mine", dc, ws), dc = Refund(b) - Deposit(b),
         j.ask.coin \in Nat, j.reward \in Nat, Stock(j.inputs), DOMAIN j.inputs \subseteq DOMAIN Spent(j),
         \A c \in DOMAIN j.inputs : Spent(j)[c] = j.inputs[c],
         checked = "None" => Checked(b, j, ws),
         checked # "None" /\ j.built.err = checked => Honest(j)
  PROVE  Outcome(j)
<1> DEFINE r == j.built
<1>1. /\ r.err = "None" =>
              /\ checked = "None" /\ ~ChangeFails(b) /\ ~(TxSize(Body(b, "mine")) > MaxTxSize)
              /\ r.body = Body(b, "mine") /\ r.fee = Body(b, "mine").fee
              /\ r.deposit_change = dc /\ r.witness_set = ws
      /\ r.err # "None" =>
              \/ checked # "None" /\ r.err = checked
              \/ /\ checked = "None" /\ r.err = "panic"
                 /\ \E p \in Policies, n \in Names : b.mint[p][n] = MinInt
              \/ /\ checked = "None" /\ r.err = "TxBuild"
                 /\ Cancelled(b) \/ ChangeFails(b) \/ TxSize(Body(b, "mine")) > MaxTxSize
  BY Finalised
<1> HIDE DEF r
<1>2. ASSUME r.err = "None" PROVE AsAsked(j) /\ Told(j) /\ TextWhole(j)
  <2>1. Checked(b, j, ws) /\ Meets(b, j) /\ ~ChangeFails(b)
    BY <1>1, <1>2 DEF Checked
  <2>2. Reported(b, j)
    <3>1. TxSize(Body(b, "mine")) <= MaxTxSize
      <4>1. Filled(b) /\ Len(b.aux) \in Nat
        BY <2>1 DEF Checked, Meets
      <4>2. TxSize(Body(b, "mine")) \in Nat
        BY <4>1, SizeIs
      <4> QED
        BY <1>1, <1>2, <4>2, Parameters
    <3> QED
      BY <1>1, <1>2, <2>1, <3>1 DEF Checked, Reported, r
  <2>3. AsAsked(j)
    BY <2>1, <2>2, AskedAndBuilt
  <2>4. Told(j)
    <3> DEFINE f == InputsToCsl(j.inputs)
               g == InputsToCsl(Spent(j))
    <3>1. Filled(b) /\ b.inputs = Spent(j) /\ Stock(Spent(j))
      BY <2>1 DEF Meets, Filled
    <3>2. Valued(f) /\ Valued(g) /\ DOMAIN f \subseteq DOMAIN g /\ \A i \in DOMAIN f : g[i] = f[i]
      BY <3>1, StockValued
    <3>3. /\ TotalCoin(f) \in Nat /\ TotalCoin(g) \in Nat
          /\ \A p \in Policies, n \in Names : TotalTokens(f, p, n) \in Nat /\ TotalTokens(g, p, n) \in Nat
      <4> HIDE DEF f, g
      <4> QED
        BY <3>2, TotalNat
    <3>4. /\ TotalCoin(f) <= TotalCoin(g)
          /\ \A p \in Policies, n \in Names : TotalTokens(f, p, n) <= TotalTokens(g, p, n)
      <4> HIDE DEF f, g
      <4> QED
        BY <3>2, TotalsGrow
    <3>5. /\ CoinIn(b) <= MaxCoin
          /\ \A p \in Policies, n \in Names : TotalTokens(g, p, n) <= MaxCoin
      BY <2>1, <3>1, Covered
    <3>6. CoinIn(b) = TotalCoin(g) + b.withdrawal + Refund(b) /\ b.withdrawal \in Nat /\ Refund(b) \in Nat /\ MaxCoin \in Nat
      BY <3>1, LeftTyped, Parameters DEF Filled
    <3> HIDE DEF f, g
    <3>7. TotalCoin(f) <= MaxCoin /\ \A p \in Policies, n \in Names : TotalTokens(f, p, n) <= MaxCoin
      BY <3>3, <3>4, <3>5, <3>6
    <3> QED
      BY <3>7, ToldIs DEF f
  <2>5. TextWhole(j)
    <3>1. r.body.aux = b.aux
      BY <1>1, <1>2, BodyIs
    <3> QED
      BY <2>1, <3>1 DEF TextWhole, Checked, r
  <2> QED
    BY <2>3, <2>4, <2>5
<1>3. ASSUME r.err # "None" PROVE Honest(j)
  <2>1. CASE checked # "None" /\ r.err = checked
    BY <2>1 DEF r
  <2>2. CASE /\ checked = "None" /\ r.err = "panic"
             /\ \E p \in Policies, n \in Names : b.mint[p][n] = MinInt
    <3>1. Checked(b, j, ws) /\ Meets(b, j)
      BY <2>2 DEF Checked
    <3>2. /\ ~Least(j.ask)
          /\ \E p \in Policies, n \in Names :
               Minted([policy |-> j.ask.policy, assets |-> j.ask.mint], p, n) = MinInt
      BY <2>2, <3>1 DEF Checked, Meets
    <3> QED
      BY <2>2, <3>2, HonestIs, Zenon DEF r
  <2>3. CASE /\ checked = "None" /\ r.err = "TxBuild"
             /\ Cancelled(b) \/ ChangeFails(b) \/ TxSize(Body(b, "mine")) > MaxTxSize
    <3>1. Checked(b, j, ws) /\ Meets(b, j)
      BY <2>3 DEF Checked
    <3>2. /\ b.withdrawal \in {0, j.reward}
          /\ b.outputs = <<>> \/ \A p \in Policies, n \in Names : b.mint[p][n] = 0
      BY <3>1 DEF Checked
    <3>3. ChangeFails(b) => Short(j)
      BY <3>1, <3>2, ShortOfFunds
    <3>4. Cancelled(b) => CancelsOut(j.ask)
      BY <3>1 DEF Checked
    <3>5. TxSize(Body(b, "mine")) > MaxTxSize => TooLarge(j)
      <4> DEFINE size == TxSize(Body(b, "mine"))
                 card == Cardinality(DOMAIN b.inputs)
                 outs == IF j.ask.op = "pay" THEN 1 ELSE 0
                 most == IF j.ask.op = "pay" THEN 2 ELSE 1
                 meta == Len(b.aux)
      <4>1. Filled(b) /\ meta \in Nat /\ Len(b.outputs) = outs /\ meta = MetaParts(j.ask)
        BY <3>1 DEF Checked, Meets
      <4>2. size \in Nat /\ size <= card + outs + 1 + meta /\ card \in Nat
        BY <4>1, SizeIs
      <4>3. outs + 1 = most /\ outs \in Nat /\ most \in Nat
        OBVIOUS
      <4>4. TooLarge(j) <=> card + most + meta > MaxTxSize
        BY <3>1, <4>1, Zenon DEF TooLarge, Meets
      <4> HIDE DEF size, card, outs, most, meta
      <4>5. size > MaxTxSize => card + most + meta > MaxTxSize
        BY <4>1, <4>2, <4>3, Parameters
      <4> QED
        BY <4>4, <4>5 DEF size
    <3> QED
      BY <2>3, <3>3, <3>4, <3>5, HonestIs, Zenon DEF r
  <2> QED
    BY <1>1, <1>3, <2>1, <2>2, <2>3
<1> QED
  BY <1>2, <1>3 DEF Outcome, r

(***************************************************************************)
(* Texts and their chunks.                                                 *)
(***************************************************************************)

Texts == Seq(1 .. 4)

LEMMA BytesAre ==
  /\ Bytes(<<>>) = 0
  /\ \A t \in Texts, c \in 1 .. 4 :
       Bytes(t) \in Nat /\ Append(t, c) \in Texts /\ Bytes(Append(t, c)) = Bytes(t) + c
<1>1. ASSUME NEW t PROVE Bytes(t) = SumFunctionOnSet(t, DOMAIN t)
  BY DEF Bytes, SumFunction, SumFunctionOnSet, FoldFunction, FoldFunctionOnSet
<1>2. Bytes(<<>>) = 0
  <2> DEFINE t == <<>>
  <2>1. DOMAIN t = {}
    OBVIOUS
  <2> HIDE DEF t
  <2>2. Bytes(t) = 0
    BY <1>1, <2>1, SumEmpty
  <2> QED
    BY <2>2 DEF t
<1>3. ASSUME NEW t \in Texts, NEW c \in 1 .. 4
      PROVE  Bytes(t) \in Nat /\ Append(t, c) \in Texts /\ Bytes(Append(t, c)) = Bytes(t) + c
  <2> DEFINE n == Len(t)
             u == Append(t, c)
  <2>1. /\ n \in Nat /\ DOMAIN t = 1 .. n /\ DOMAIN u = 1 .. (n + 1) /\ u \in Texts
        /\ \A i \in 1 .. n : t[i] \in Nat /\ t[i] \in Int /\ u[i] = t[i]
        /\ u[n + 1] = c /\ c \in Int
    BY DEF Texts
  <2>2. IsFiniteSet(1 .. n)
    BY <2>1, FS_Interval
  <2> HIDE DEF n, u
  <2>3. SumFunctionOnSet(t, 1 .. n) \in Nat
    BY <2>1, <2>2, SumNat
  <2>4. SumFunctionOnSet(u, 1 .. (n + 1)) = SumFunctionOnSet(t, 1 .. n) + c
    BY <2>1, SumLonger
  <2>5. Bytes(t) = SumFunctionOnSet(t, 1 .. n) /\ Bytes(u) = SumFunctionOnSet(u, 1 .. (n + 1))
    BY <1>1, <2>1
  <2> QED
    BY <2>1, <2>3, <2>4, <2>5 DEF u
<1> QED
  BY <1>2, <1>3

\* A character more: the chunk is closed when it does not fit.
Cut(acc, ch) ==
  IF Bytes(acc.chunk) + ch > MaxText
  THEN [list |-> Append(acc.list, acc.chunk), chunk |-> <<ch>>]
  ELSE [acc EXCEPT !.chunk = Append(@, ch)]

Uncut == [list |-> <<>>, chunk |-> <<>>]

Cuts(text, g) ==
  g = [s \in SUBSET (DOMAIN text) |->
        IF s = {} THEN Uncut ELSE Cut(g[s \ {Max(s)}], text[Max(s)])]

CutTable(text) == CHOOSE g : Cuts(text, g)

LEMMA ChunksAre ==
  ASSUME NEW text
  PROVE  LET all == CutTable(text)[DOMAIN text] IN
         TextOrChunks(text) = IF Bytes(text) <= MaxText THEN <<text>>
                              ELSE IF all.chunk = <<>> THEN all.list ELSE Append(all.list, all.chunk)
  BY Zenon DEF TextOrChunks, FoldLeft, MapThenFoldSet, CutTable, Cuts, Cut, Uncut

\* What is cut is the text so far, in chunks that fit.
Chunked(acc, text) ==
  /\ acc \in [list : Seq(Texts), chunk : Texts]
  /\ FlattenSeq(acc.list) \o acc.chunk = text
  /\ Bytes(acc.chunk) <= MaxText /\ \A i \in DOMAIN acc.list : Bytes(acc.list[i]) <= MaxText

LEMMA CutChunked ==
  ASSUME NEW acc, NEW text \in Texts, Chunked(acc, text), NEW ch \in 1 .. 4
  PROVE  Chunked(Cut(acc, ch), Append(text, ch))
<1> DEFINE l == acc.list
           c == acc.chunk
           new == Cut(acc, ch)
<1>1. l \in Seq(Texts) /\ c \in Texts /\ ch \in Nat /\ ch <= 4 /\ MaxText \in Nat /\ MaxText >= 4
  BY Parameters, TxFlowAssumption DEF Chunked
<1>2. FlattenSeq(l) \in Texts /\ FlattenSeq(Append(l, c)) = FlattenSeq(l) \o c
  BY <1>1, FlattenAppend DEF Texts
<1>3. Bytes(c) \in Nat /\ Append(c, ch) \in Texts /\ Bytes(Append(c, ch)) = Bytes(c) + ch
  BY <1>1, BytesAre
<1>4. <<ch>> \in Texts /\ Bytes(<<ch>>) = ch
  <2> DEFINE e == <<>>
  <2>1. e \in Texts /\ Append(e, ch) = <<ch>>
    BY DEF Texts
  <2>2. Bytes(e) = 0
    BY BytesAre
  <2> HIDE DEF e
  <2>3. Bytes(Append(e, ch)) = Bytes(e) + ch /\ Append(e, ch) \in Texts
    BY <2>1, BytesAre
  <2> QED
    BY <1>1, <2>1, <2>2, <2>3
<1>5. FlattenSeq(l) \o c = text /\ Bytes(c) <= MaxText /\ \A i \in DOMAIN l : Bytes(l[i]) <= MaxText
  BY DEF Chunked
<1> DEFINE f == FlattenSeq(l)
<1>6. CASE Bytes(c) + ch > MaxText
  <2>1. new = [list |-> Append(l, c), chunk |-> <<ch>>]
    BY <1>6 DEF Cut
  <2>2. Append(l, c) \in Seq(Texts)
    BY <1>1
  <2>3. FlattenSeq(Append(l, c)) \o <<ch>> = Append(text, ch)
    <3>1. text \o <<ch>> = Append(text, ch)
      BY DEF Texts
    <3> QED
      BY <1>2, <1>5, <3>1
  <2>4. \A i \in DOMAIN Append(l, c) : Bytes(Append(l, c)[i]) <= MaxText
    <3>1. \A i \in DOMAIN Append(l, c) : Append(l, c)[i] = c \/ (i \in DOMAIN l /\ Append(l, c)[i] = l[i])
      BY <1>1
    <3> HIDE DEF l, c
    <3> QED
      BY <1>5, <3>1
  <2> HIDE DEF new, l, c
  <2>5. new.list = Append(l, c) /\ new.chunk = <<ch>> /\ new \in [list : Seq(Texts), chunk : Texts]
    BY <1>4, <2>1, <2>2
  <2> QED
    BY <1>1, <1>4, <2>3, <2>4, <2>5 DEF Chunked, new
<1>7. CASE ~(Bytes(c) + ch > MaxText)
  <2>1. new = [acc EXCEPT !.chunk = Append(@, ch)]
    BY <1>7 DEF Cut
  <2>2. acc \in [list : Seq(Texts), chunk : Texts]
    BY DEF Chunked
  <2>3. new.list = l /\ new.chunk = Append(c, ch) /\ new \in [list : Seq(Texts), chunk : Texts]
    BY <1>3, <2>1, <2>2
  <2>4. f \o Append(c, ch) = Append(f \o c, ch)
    <3>1. f \in Seq(1 .. 4) /\ c \in Seq(1 .. 4)
      BY <1>1, <1>2 DEF Texts
    <3> HIDE DEF f, c
    <3> QED
      BY <3>1
  <2> HIDE DEF new, l, c
  <2>5. FlattenSeq(l) \o Append(c, ch) = Append(text, ch)
    BY <1>5, <2>4
  <2>6. Bytes(Append(c, ch)) <= MaxText
    BY <1>1, <1>3, <1>7
  <2> QED
    BY <1>5, <2>3, <2>5, <2>6 DEF Chunked, new
<1> QED
  BY <1>6, <1>7

LEMMA CutTableIs ==
  ASSUME NEW text \in Texts
  PROVE  Cuts(text, CutTable(text))
<1> DEFINE n == Len(text)
           D == 1 .. n
           V == [list : Seq(Texts), chunk : Texts]
           pick == LastOf(D)
           step == [xv \in D \X V |-> Cut(xv[2], text[xv[1]])]
<1>1. n \in Nat /\ IsFiniteSet(D) /\ DOMAIN text = D /\ \A i \in D : text[i] \in 1 .. 4
  BY FS_Interval DEF Texts
<1>2. \A x \in D, v \in V : step[<<x, v>>] = Cut(v, text[x]) /\ step[<<x, v>>] \in V
  <2> TAKE x \in D, v \in V
  <2>1. step[<<x, v>>] = Cut(v, text[x])
    OBVIOUS
  <2>2. Cut(v, text[x]) \in V
    <3> DEFINE ch == text[x]
    <3>1. ch \in 1 .. 4 /\ v.list \in Seq(Texts) /\ v.chunk \in Texts
      BY <1>1
    <3>2. Append(v.list, v.chunk) \in Seq(Texts)
      BY <3>1
    <3>3. Append(v.chunk, ch) \in Texts /\ <<ch>> \in Texts
      <4> HIDE DEF ch
      <4> QED
        BY <3>1 DEF Texts
    <3> DEFINE w == [v EXCEPT !.chunk = Append(@, ch)]
    <3>4. w \in V
      <4> HIDE DEF ch
      <4> QED
        BY <3>1, <3>3
    <3>5. [list |-> Append(v.list, v.chunk), chunk |-> <<ch>>] \in V
      <4> HIDE DEF ch
      <4> QED
        BY <3>2, <3>3
    <3> HIDE DEF w, V
    <3>6. \/ Cut(v, ch) = [list |-> Append(v.list, v.chunk), chunk |-> <<ch>>]
          \/ Cut(v, ch) = w
      BY Zenon DEF Cut, w
    <3> QED
      BY <3>4, <3>5, <3>6
  <2> QED
    BY <2>1, <2>2
<1>3. Uncut \in V
  BY DEF Uncut, Texts
<1>4. \A s \in SUBSET D : pick[s] = Max(s) /\ (s # {} => pick[s] \in s)
  BY <1>1, LastOfIs DEF LastOf
<1> HIDE DEF pick, step, D, V
<1>5. PICK g : IsFold(Uncut, step, pick, D, g)
  BY <1>1, <1>4, FoldExists
<1>6. \A s \in SUBSET D : g[s] \in V
  BY <1>1, <1>2, <1>3, <1>4, <1>5, FoldType
<1>7. \A s \in SUBSET D : Unfold(Uncut, step, pick, g, s)
                            = IF s = {} THEN Uncut ELSE Cut(g[s \ {Max(s)}], text[Max(s)])
  <2> TAKE s \in SUBSET D
  <2>1. CASE s = {}
    BY <2>1 DEF Unfold
  <2>2. CASE s # {}
    <3>1. Max(s) \in D /\ pick[s] = Max(s) /\ g[s \ {Max(s)}] \in V
      BY <1>4, <1>6, <2>2
    <3>2. Unfold(Uncut, step, pick, g, s) = step[<<Max(s), g[s \ {Max(s)}]>>]
      BY <2>2, <3>1 DEF Unfold
    <3> QED
      BY <1>2, <2>2, <3>1, <3>2
  <2> QED
    BY <2>1, <2>2
<1>8. Cuts(text, g)
  BY <1>1, <1>5, <1>7 DEF IsFold, Cuts
<1> QED
  BY <1>8 DEF CutTable

\* text_or_chunks of metadata.rs loses nothing and keeps the limit of a metadata
\* string: a long text is cut into chunks that fit and make it up; a short one is
\* whole.
THEOREM ChunksWhole ==
  ASSUME NEW text \in Texts
  PROVE  /\ FlattenSeq(TextOrChunks(text)) = text
         /\ \A i \in DOMAIN TextOrChunks(text) : Bytes(TextOrChunks(text)[i]) <= MaxText
         /\ Len(TextOrChunks(text)) \in Nat
<1> DEFINE n == Len(text)
           t == CutTable(text)
           upto(k) == SubSeq(text, 1, k)
           B == {k \in 0 .. n : ~Chunked(t[1 .. k], upto(k))}
<1>1. n \in Nat /\ DOMAIN text = 1 .. n /\ \A i \in 1 .. n : text[i] \in 1 .. 4
  BY DEF Texts
<1>2. \A s \in SUBSET (1 .. n) : t[s] = IF s = {} THEN Uncut ELSE Cut(t[s \ {Max(s)}], text[Max(s)])
  <2> HIDE DEF t
  <2> QED
    BY <1>1, CutTableIs DEF Cuts, t
<1>3. t[1 .. 0] = Uncut
  <2>1. 1 .. 0 = {}
    OBVIOUS
  <2> HIDE DEF t
  <2> QED
    BY <1>2, <2>1
<1>4. \A k \in 1 .. n : t[1 .. k] = Cut(t[1 .. (k - 1)], text[k])
  <2> TAKE k \in 1 .. n
  <2> DEFINE K == 1 .. k
             P == 1 .. (k - 1)
  <2>1. K \in SUBSET (1 .. n) /\ K # {} /\ Max(K) = k /\ K \ {k} = P
    BY <1>1, LastOfIs
  <2> HIDE DEF t, K, P
  <2>2. t[K] = Cut(t[P], text[k])
    BY <1>2, <2>1
  <2> QED
    BY <2>2 DEF K, P
<1>5. Chunked(Uncut, <<>>)
  <2>1. Bytes(<<>>) <= MaxText
    BY BytesAre, Parameters
  <2>2. FlattenSeq(<<>>) \o <<>> = <<>>
    BY FlattenNone
  <2>3. Uncut \in [list : Seq(Texts), chunk : Texts] /\ Uncut.list = <<>> /\ Uncut.chunk = <<>>
    BY DEF Uncut, Texts
  <2>4. DOMAIN Uncut.list = {}
    BY <2>3
  <2> QED
    BY <2>1, <2>2, <2>3, <2>4 DEF Chunked
<1>6. ASSUME B # {} PROVE FALSE
  <2>1. PICK k \in B : \A m \in B : k <= m
    <3>1. B \subseteq 0 .. n
      OBVIOUS
    <3> HIDE DEF B, n
    <3> QED
      BY <1>1, <1>6, <3>1, LeastNumber
  <2>2. k # 0
    <3>1. upto(0) = <<>>
      BY DEF Texts
    <3>2. Chunked(t[1 .. 0], upto(0))
      BY <1>3, <1>5, <3>1
    <3> QED
      BY <3>2
  <2>3. k \in 1 .. n /\ k - 1 \in 0 .. n /\ ~(k <= k - 1)
    BY <1>1, <2>2
  <2>4. Chunked(t[1 .. (k - 1)], upto(k - 1))
    BY <2>1, <2>3
  <2>5. upto(k - 1) \in Texts /\ upto(k) = Append(upto(k - 1), text[k]) /\ text[k] \in 1 .. 4
    BY <1>1, <2>3 DEF Texts
  <2>6. Chunked(Cut(t[1 .. (k - 1)], text[k]), upto(k))
    <3> HIDE DEF t, upto
    <3> QED
      BY <2>4, <2>5, CutChunked
  <2>7. ~Chunked(t[1 .. k], upto(k))
    OBVIOUS
  <2> HIDE DEF t, upto, B
  <2> QED
    BY <1>4, <2>3, <2>6, <2>7
<1> DEFINE all == t[1 .. n]
<1>7. Chunked(all, text)
  <2>1. upto(n) = text
    BY DEF Texts
  <2>2. n \in 0 .. n
    BY <1>1
  <2> HIDE DEF t, upto
  <2> QED
    BY <1>6, <2>1, <2>2
<1>8. TextOrChunks(text) = IF Bytes(text) <= MaxText THEN <<text>>
                           ELSE IF all.chunk = <<>> THEN all.list ELSE Append(all.list, all.chunk)
  BY <1>1, ChunksAre
<1> HIDE DEF all, t, upto, B, n
<1>9. CASE Bytes(text) <= MaxText
  <2>1. TextOrChunks(text) = <<text>>
    BY <1>8, <1>9
  <2>2. FlattenSeq(<<text>>) = text
    <3> DEFINE e == <<>>
    <3>1. e \in Seq(Texts) /\ Append(e, text) = <<text>>
      OBVIOUS
    <3>2. FlattenSeq(e) = <<>>
      BY FlattenNone
    <3> HIDE DEF e
    <3>3. FlattenSeq(Append(e, text)) = FlattenSeq(e) \o text
      BY <3>1, FlattenAppend DEF Texts
    <3>4. <<>> \o text = text
      BY DEF Texts
    <3> QED
      BY <3>1, <3>2, <3>3, <3>4
  <2>3. \A i \in DOMAIN <<text>> : <<text>>[i] = text
    OBVIOUS
  <2> QED
    BY <1>9, <2>1, <2>2, <2>3
<1>10. CASE ~(Bytes(text) <= MaxText)
  <2> DEFINE l == all.list
             c == all.chunk
  <2>1. /\ l \in Seq(Texts) /\ c \in Texts /\ FlattenSeq(l) \o c = text /\ Bytes(c) <= MaxText
        /\ \A i \in DOMAIN l : Bytes(l[i]) <= MaxText
    BY <1>7 DEF Chunked
  <2>2. FlattenSeq(Append(l, c)) = FlattenSeq(l) \o c /\ FlattenSeq(l) \in Texts
    BY <2>1, FlattenAppend DEF Texts
  <2>3. TextOrChunks(text) = IF c = <<>> THEN l ELSE Append(l, c)
    BY <1>8, <1>10
  <2> HIDE DEF l, c
  <2>4. CASE c = <<>>
    <3>1. TextOrChunks(text) = l
      BY <2>3, <2>4
    <3>2. FlattenSeq(l) \o <<>> = FlattenSeq(l)
      BY <2>2 DEF Texts
    <3> QED
      BY <2>1, <2>4, <3>1, <3>2
  <2>5. CASE c # <<>>
    <3>1. TextOrChunks(text) = Append(l, c)
      BY <2>3, <2>5
    <3>2. \A i \in DOMAIN Append(l, c) : Append(l, c)[i] = c \/ (i \in DOMAIN l /\ Append(l, c)[i] = l[i])
      BY <2>1
    <3>3. \A i \in DOMAIN Append(l, c) : Bytes(Append(l, c)[i]) <= MaxText
      BY <2>1, <3>2
    <3> QED
      BY <2>1, <2>2, <3>1, <3>3
  <2> QED
    BY <2>4, <2>5
<1> QED
  BY <1>9, <1>10

(***************************************************************************)
(* The builders, as each request calls them.                               *)
(***************************************************************************)

LEMMA FirstOfList ==
  ASSUME NEW a, NEW b
  PROVE  /\ First(<<a>>) = "None" <=> a = "None"
         /\ First(<<a>>) # "None" => First(<<a>>) = a
         /\ First(<<a, b>>) = "None" <=> (a = "None" /\ b = "None")
         /\ First(<<a, b>>) # "None" => First(<<a, b>>) \in {a, b}
         /\ \A c : /\ First(<<a, b, c>>) = "None" <=> (a = "None" /\ b = "None" /\ c = "None")
                   /\ First(<<a, b, c>>) # "None" => First(<<a, b, c>>) \in {a, b, c}
<1> DEFINE one == <<a>>
           two == <<a, b>>
<1>1. /\ First(one) = "None" <=> \A i \in DOMAIN one : one[i] = "None"
      /\ First(one) # "None" => \E i \in DOMAIN one : First(one) = one[i]
  <2>1. DOMAIN one \subseteq 1 .. 1
    OBVIOUS
  <2> HIDE DEF one
  <2> QED
    BY <2>1, FirstOfSome
<1>2. /\ First(two) = "None" <=> \A i \in DOMAIN two : two[i] = "None"
      /\ First(two) # "None" => \E i \in DOMAIN two : First(two) = two[i]
  <2>1. DOMAIN two \subseteq 1 .. 2
    OBVIOUS
  <2> HIDE DEF two
  <2> QED
    BY <2>1, FirstOfSome
<1>3. DOMAIN one = {1} /\ one[1] = a /\ DOMAIN two = {1, 2} /\ two[1] = a /\ two[2] = b
  OBVIOUS
<1>4. ASSUME NEW c
      PROVE  /\ First(<<a, b, c>>) = "None" <=> (a = "None" /\ b = "None" /\ c = "None")
             /\ First(<<a, b, c>>) # "None" => First(<<a, b, c>>) \in {a, b, c}
  <2> DEFINE three == <<a, b, c>>
  <2>1. DOMAIN three \subseteq 1 .. 3
    OBVIOUS
  <2>2. DOMAIN three = {1, 2, 3} /\ three[1] = a /\ three[2] = b /\ three[3] = c
    OBVIOUS
  <2> HIDE DEF three
  <2>3. /\ First(three) = "None" <=> \A i \in DOMAIN three : three[i] = "None"
        /\ First(three) # "None" => \E i \in DOMAIN three : First(three) = three[i]
    BY <2>1, FirstOfSome
  <2>4. /\ First(three) = "None" <=> (a = "None" /\ b = "None" /\ c = "None")
        /\ First(three) # "None" => First(three) \in {a, b, c}
    BY <2>2, <2>3
  <2> QED
    BY <2>4 DEF three
<1>5. /\ First(one) = "None" <=> a = "None"
      /\ First(one) # "None" => First(one) = a
      /\ First(two) = "None" <=> (a = "None" /\ b = "None")
      /\ First(two) # "None" => First(two) \in {a, b}
  <2> HIDE DEF one, two
  <2> QED
    BY <1>1, <1>2, <1>3
<1> QED
  BY <1>4, <1>5

LEMMA FirstOfPair ==
  ASSUME NEW a, NEW b
  PROVE  /\ First(<<a, b>>) = "None" <=> (a = "None" /\ b = "None")
         /\ First(<<a, b>>) # "None" => First(<<a, b>>) \in {a, b}
  BY FirstOfList

LEMMA FourInOrder ==
  ASSUME NEW a, NEW b, NEW c, NEW d
  PROVE  LET cs == <<a, b, c>> \o <<d>> IN
         DOMAIN cs = 1 .. 4 /\ cs[1] = a /\ cs[2] = b /\ cs[3] = c /\ cs[4] = d
<1> DEFINE V == {a, b, c, d}
           f == <<a, b, c>>
           g == <<d>>
<1>1. /\ f \in Seq(V) /\ g \in Seq(V) /\ Len(f) = 3 /\ Len(g) = 1
      /\ f[1] = a /\ f[2] = b /\ f[3] = c /\ g[1] = d
  OBVIOUS
<1> HIDE DEF f, g, V
<1>2. /\ DOMAIN (f \o g) = 1 .. 4
      /\ (f \o g)[1] = f[1] /\ (f \o g)[2] = f[2] /\ (f \o g)[3] = f[3] /\ (f \o g)[4] = g[1]
  <2> DEFINE h == f \o g
  <2>1. /\ h \in Seq(V) /\ Len(h) = Len(f) + Len(g)
        /\ \A i \in 1 .. Len(f) + Len(g) : h[i] = IF i <= Len(f) THEN f[i] ELSE g[i - Len(f)]
    BY <1>1, ConcatProperties
  <2> HIDE DEF h
  <2>2. Len(h) = 4 /\ DOMAIN h = 1 .. 4 /\ h[1] = f[1] /\ h[2] = f[2] /\ h[3] = f[3] /\ h[4] = g[1]
    BY <1>1, <2>1
  <2> QED
    BY <2>2 DEF h
<1> QED
  BY <1>1, <1>2 DEF f, g

\* A request with the outputs it was given to spend.
Ready(j) ==
  /\ j.ask \in Requests /\ j.reward \in Nat /\ Stock(j.inputs) /\ Stock(Spent(j))
  /\ DOMAIN Spent(j) = DOMAIN j.inputs \cup DOMAIN j.locked
  /\ \A c \in DOMAIN j.inputs : Spent(j)[c] = j.inputs[c]
  /\ j.ask.op # "unlock" => Spent(j) = j.inputs

\* Nothing is paid or minted.
LEMMA PlainChecked ==
  ASSUME NEW j, Ready(j), j.ask.op \notin {"pay", "mint"}, NEW b,
         b.inputs = Spent(j), DOMAIN Spent(j) # {}, b.outputs = <<>>, b.mint = NoTokens,
         b.aux = <<>>, b.listed = {}, b.withdrawal \in {0, j.reward}
  PROVE  Checked(b, j, {})
<1> DEFINE a == j.ask
<1>1. /\ a.coin = 0 /\ \A p, n : Quantity(a.assets, p, n) = 0
      /\ a.mint = <<>> /\ a.image = <<>>
  <2>1. a \in Requests
    BY DEF Ready
  <2> QED
    BY <2>1, RequestIs
<1>2. /\ \A p \in Policies, n \in Names : b.mint[p][n] = 0
      /\ b.mint \in [Policies -> [Names -> Int]]
  BY DEF NoTokens
<1>3. Filled(b)
  <2>1. b.outputs \in Seq(CslOutputs)
    OBVIOUS
  <2>2. b.withdrawal \in Nat /\ Stock(b.inputs)
    BY DEF Ready
  <2> QED
    BY <1>2, <2>1, <2>2 DEF Filled
<1>4. Pays(b.outputs, a)
  BY <1>1 DEF Pays
<1>5. \A p \in Policies, n \in Names : Minted([policy |-> a.policy, assets |-> a.mint], p, n) = 0
  <2> TAKE p \in Policies, n \in Names
  <2> DEFINE spec == [policy |-> a.policy, assets |-> a.mint]
  <2>1. spec.assets = <<>> /\ <<>> \in Seq(MintAssets)
    BY <1>1
  <2> HIDE DEF spec
  <2>2. Minted(spec, p, n) = 0
    BY <2>1, MintedIs
  <2> QED
    BY <2>2 DEF spec
<1>6. Meets(b, j)
  BY <1>2, <1>3, <1>4, <1>5 DEF Meets
<1>7. FlattenSeq(b.aux) = a.image
  BY <1>1, FlattenNone
<1>8. ~Least(a)
  BY <1>1 DEF Least
<1>9. DOMAIN b.outputs = {} /\ DOMAIN b.aux = {} /\ Len(b.outputs) = 0 /\ Len(b.aux) = 0
  OBVIOUS
<1>10. MetaParts(a) = 0 /\ a.op # "pay"
  BY <1>1 DEF MetaParts
<1>11. ~Cancelled(b)
  BY DEF Cancelled
<1> QED
  BY <1>2, <1>6, <1>7, <1>8, <1>9, <1>10, <1>11 DEF Checked

\* The outcome, when what is checked before the end is honest.
LEMMA PlainOutcome ==
  ASSUME NEW j, Ready(j), j.ask.op \notin {"pay", "mint"}, NEW b,
         b.inputs = Spent(j), b.outputs = <<>>, b.mint = NoTokens,
         b.aux = <<>>, b.listed = {}, b.withdrawal \in {0, j.reward},
         NEW checked, NEW dc, dc = Refund(b) - Deposit(b),
         j.built = Finalise(checked, b, "mine", dc, {}),
         checked = "None" => DOMAIN Spent(j) # {},
         checked # "None" /\ j.built.err = checked => Honest(j)
  PROVE  Outcome(j)
<1>1. /\ j.ask.coin \in Nat /\ j.reward \in Nat /\ Stock(j.inputs)
      /\ DOMAIN j.inputs \subseteq DOMAIN Spent(j)
      /\ \A c \in DOMAIN j.inputs : Spent(j)[c] = j.inputs[c]
  <2>1. j.ask \in Requests
    BY DEF Ready
  <2> QED
    BY <2>1, RequestIs DEF Ready
<1>2. checked = "None" => Checked(b, j, {})
  BY PlainChecked
<1> DEFINE ws == {}
<1>3. j.built = Finalise(checked, b, "mine", dc, ws) /\ (checked = "None" => Checked(b, j, ws))
  BY <1>2
<1> HIDE DEF ws
<1> QED
  BY <1>1, <1>3, OutcomeOf

LEMMA HashChecked ==
  ASSUME NEW text
  PROVE  /\ HashCheck(text) # "None" => \/ HashCheck(text) = "InvalidParameter" /\ text = Malformed
                                        \/ HashCheck(text) = "CslError" /\ text = OtherHex
         /\ text # Malformed /\ text # OtherHex => HashCheck(text) = "None"
<1> DEFINE k1 == Check(text = Malformed, "InvalidParameter")
           k2 == Check(text = OtherHex, "CslError")
<1>1. /\ k1 = (IF text = Malformed THEN "InvalidParameter" ELSE "None")
      /\ k2 = (IF text = OtherHex THEN "CslError" ELSE "None")
  BY DEF Check
<1> HIDE DEF k1, k2
<1>2. /\ First(<<k1, k2>>) = "None" <=> (k1 = "None" /\ k2 = "None")
      /\ First(<<k1, k2>>) # "None" => First(<<k1, k2>>) \in {k1, k2}
  BY FirstOfPair
<1>3. HashCheck(text) = First(<<k1, k2>>)
  BY DEF HashCheck, k1, k2
<1> QED
  BY <1>1, <1>2, <1>3

\* The same of Plutus data, and of a list of it.
LEMMA DataChecked ==
  ASSUME NEW data
  PROVE  /\ ValidatePlutusData(data) # "None" =>
               \/ ValidatePlutusData(data) = "InvalidParameter" /\ data = Malformed
               \/ ValidatePlutusData(data) = "InvalidCbor" /\ data = OtherHex
         /\ data # Malformed /\ data # OtherHex => ValidatePlutusData(data) = "None"
<1> DEFINE k1 == Check(data = Malformed, "InvalidParameter")
           k2 == Check(data = OtherHex, "InvalidCbor")
<1>1. /\ k1 = (IF data = Malformed THEN "InvalidParameter" ELSE "None")
      /\ k2 = (IF data = OtherHex THEN "InvalidCbor" ELSE "None")
  BY DEF Check
<1> HIDE DEF k1, k2
<1>2. /\ First(<<k1, k2>>) = "None" <=> (k1 = "None" /\ k2 = "None")
      /\ First(<<k1, k2>>) # "None" => First(<<k1, k2>>) \in {k1, k2}
  BY FirstOfPair
<1>3. ValidatePlutusData(data) = First(<<k1, k2>>)
  BY DEF ValidatePlutusData, k1, k2
<1> QED
  BY <1>1, <1>2, <1>3

LEMMA DataListChecked ==
  ASSUME NEW S, NEW l \in Seq(S)
  PROVE  /\ PlutusDataConstr(l) = PlutusDataList(l)
         /\ PlutusDataList(l) # "None" =>
               \/ PlutusDataList(l) = "InvalidParameter" /\ Malformed \in Range(l)
               \/ PlutusDataList(l) = "InvalidCbor" /\ OtherHex \in Range(l)
<1> DEFINE cs == [i \in DOMAIN l |-> ValidatePlutusData(l[i])]
<1>1. PlutusDataList(l) = First(cs) /\ PlutusDataConstr(l) = First(cs)
  BY DEF PlutusDataList, PlutusDataConstr
<1>2. Len(l) \in Nat /\ DOMAIN cs = DOMAIN l /\ DOMAIN cs \subseteq 1 .. Len(l)
  OBVIOUS
<1>3. \A i \in DOMAIN l : cs[i] = ValidatePlutusData(l[i]) /\ l[i] \in Range(l)
  BY DEF Range
<1> HIDE DEF cs
<1>4. First(cs) # "None" => \E i \in DOMAIN cs : First(cs) = cs[i]
  BY <1>2, FirstOfSome
<1>5. ASSUME First(cs) # "None"
      PROVE  \/ First(cs) = "InvalidParameter" /\ Malformed \in Range(l)
             \/ First(cs) = "InvalidCbor" /\ OtherHex \in Range(l)
  <2>1. PICK i \in DOMAIN l : First(cs) = ValidatePlutusData(l[i]) /\ l[i] \in Range(l)
    BY <1>2, <1>3, <1>4, <1>5
  <2> DEFINE d == l[i]
  <2>2. First(cs) = ValidatePlutusData(d) /\ d \in Range(l)
    BY <2>1
  <2> HIDE DEF d
  <2>3. \/ ValidatePlutusData(d) = "InvalidParameter" /\ d = Malformed
        \/ ValidatePlutusData(d) = "InvalidCbor" /\ d = OtherHex
    BY <1>5, <2>2, DataChecked
  <2> QED
    BY <2>2, <2>3
<1> QED
  BY <1>1, <1>5

\* The checks of the staking builders: the credential, which is the wallet's
\* own, a pool and the inputs.
DelegationCheck(ins, pool) == First(<<StakeCredential(Key), HashCheck(pool), AddInputs(ins)>>)
DelegationFits(c, ins, pool) ==
  /\ c = "None" => DOMAIN ins # {}
  /\ c # "None" => \/ c = "InvalidParameter" /\ (DOMAIN ins = {} \/ pool = Malformed)
                   \/ c = "CslError" /\ pool = OtherHex

LEMMA StakingChecks ==
  ASSUME NEW ins, NEW pool
  PROVE  LET some == AddInputs(ins)
         IN /\ StakeCredential(Key) = "None"
            /\ some = (IF DOMAIN ins = {} THEN "InvalidParameter" ELSE "None")
            /\ First(<<StakeCredential(Key), some>>) = some
            /\ DelegationFits(DelegationCheck(ins, pool), ins, pool)
<1> DEFINE some == AddInputs(ins)
           fits == HashCheck(pool)
           own == StakeCredential(Key)
<1>1. own = "None"
  <2>1. Key # Malformed /\ Key # OtherHex
    BY TxFlowAssumption DEF Key
  <2> QED
    BY <2>1, HashChecked DEF StakeCredential
<1>2. some = (IF DOMAIN ins = {} THEN "InvalidParameter" ELSE "None")
  BY DEF AddInputs, Check
<1>3. fits # "None" => \/ fits = "InvalidParameter" /\ pool = Malformed
                       \/ fits = "CslError" /\ pool = OtherHex
  BY HashChecked
<1> HIDE DEF some, fits, own
<1>4. First(<<own, some>>) = some
  BY <1>1, <1>2, FirstOfList
<1>5. /\ First(<<own, fits, some>>) = "None" <=> (own = "None" /\ fits = "None" /\ some = "None")
      /\ First(<<own, fits, some>>) # "None" => First(<<own, fits, some>>) \in {own, fits, some}
  BY FirstOfList
<1>6. DelegationCheck(ins, pool) = First(<<own, fits, some>>)
  BY DEF DelegationCheck, own, fits, some
<1> QED
  BY <1>1, <1>2, <1>3, <1>4, <1>5, <1>6 DEF some, fits, own, DelegationFits

LEMMA RegisterOutcome ==
  ASSUME NEW j, Ready(j), j.ask.op = "register", NEW coll,
         j.built = Call(j.ask, j.inputs, j.locked, coll, j.reward)
  PROVE  Outcome(j)
<1> DEFINE ins == j.inputs
           checked == First(<<StakeCredential(Key), AddInputs(ins)>>)
           b == [NewBuilder EXCEPT !.inputs = ins, !.cert = "register", !.ttl = j.ask.ttl]
<1>1. j.built = Finalise(checked, b, "mine", -KeyDeposit, {})
  BY DEF Call, WireBuildStakeRegistrationTx, BuildStakeRegistrationTx
<1>2. /\ b.inputs = ins /\ b.outputs = <<>> /\ b.mint = NoTokens /\ b.aux = <<>>
      /\ b.listed = {} /\ b.withdrawal = 0 /\ b.cert = "register"
  BY DEF NewBuilder
<1>3. checked = AddInputs(ins) /\ AddInputs(ins) = (IF DOMAIN ins = {} THEN "InvalidParameter" ELSE "None")
  BY StakingChecks
<1> HIDE DEF checked, b
<1>4. -KeyDeposit = Refund(b) - Deposit(b)
  BY <1>2, Parameters DEF Refund, Deposit
<1>5. Spent(j) = ins
  BY DEF Ready
<1>6. checked # "None" /\ j.built.err = checked => Honest(j)
  <2> HAVE checked # "None" /\ j.built.err = checked
  <2>1. j.built.err = "InvalidParameter" /\ DOMAIN j.inputs = {}
    BY <1>3
  <2> QED
    BY <2>1, HonestIs, Zenon
<1> DEFINE dc == -KeyDeposit
<1>7. dc = Refund(b) - Deposit(b) /\ j.built = Finalise(checked, b, "mine", dc, {})
  BY <1>1, <1>4
<1> HIDE DEF dc
<1> QED
  BY <1>2, <1>3, <1>5, <1>6, <1>7, PlainOutcome

LEMMA DeregisterOutcome ==
  ASSUME NEW j, Ready(j), j.ask.op = "deregister", NEW coll,
         j.built = Call(j.ask, j.inputs, j.locked, coll, j.reward)
  PROVE  Outcome(j)
<1> DEFINE ins == j.inputs
           checked == First(<<StakeCredential(Key), AddInputs(ins)>>)
           b == [NewBuilder EXCEPT !.inputs = ins, !.cert = "deregister", !.ttl = j.ask.ttl]
<1>1. j.built = Finalise(checked, b, "mine", KeyDeposit, {})
  BY DEF Call, WireBuildStakeDeregistrationTx, BuildStakeDeregistrationTx
<1>2. /\ b.inputs = ins /\ b.outputs = <<>> /\ b.mint = NoTokens /\ b.aux = <<>>
      /\ b.listed = {} /\ b.withdrawal = 0 /\ b.cert = "deregister"
  BY DEF NewBuilder
<1>3. checked = AddInputs(ins) /\ AddInputs(ins) = (IF DOMAIN ins = {} THEN "InvalidParameter" ELSE "None")
  BY StakingChecks
<1> HIDE DEF checked, b
<1>4. KeyDeposit = Refund(b) - Deposit(b)
  BY <1>2, Parameters DEF Refund, Deposit
<1>5. Spent(j) = ins
  BY DEF Ready
<1>6. checked # "None" /\ j.built.err = checked => Honest(j)
  <2> HAVE checked # "None" /\ j.built.err = checked
  <2>1. j.built.err = "InvalidParameter" /\ DOMAIN j.inputs = {}
    BY <1>3
  <2> QED
    BY <2>1, HonestIs, Zenon
<1> QED
  BY <1>1, <1>2, <1>3, <1>4, <1>5, <1>6, PlainOutcome

LEMMA WithdrawOutcome ==
  ASSUME NEW j, Ready(j), j.ask.op = "withdraw", NEW coll,
         j.built = Call(j.ask, j.inputs, j.locked, coll, j.reward)
  PROVE  Outcome(j)
<1> DEFINE ins == j.inputs
           checked == First(<<StakeCredential(Key), AddInputs(ins)>>)
           b == [NewBuilder EXCEPT !.inputs = ins, !.withdrawal = j.reward, !.ttl = j.ask.ttl]
<1>1. j.built = Finalise(checked, b, "mine", 0, {})
  BY DEF Call, WireBuildRewardWithdrawalTx, BuildRewardWithdrawalTx
<1>2. /\ b.inputs = ins /\ b.outputs = <<>> /\ b.mint = NoTokens /\ b.aux = <<>>
      /\ b.listed = {} /\ b.withdrawal = j.reward /\ b.cert = "none"
  BY DEF NewBuilder
<1>3. checked = AddInputs(ins) /\ AddInputs(ins) = (IF DOMAIN ins = {} THEN "InvalidParameter" ELSE "None")
  BY StakingChecks
<1> HIDE DEF checked, b
<1>4. 0 = Refund(b) - Deposit(b)
  BY <1>2 DEF Refund, Deposit
<1>5. Spent(j) = ins
  BY DEF Ready
<1>6. checked # "None" /\ j.built.err = checked => Honest(j)
  <2> HAVE checked # "None" /\ j.built.err = checked
  <2>1. j.built.err = "InvalidParameter" /\ DOMAIN j.inputs = {}
    BY <1>3
  <2> QED
    BY <2>1, HonestIs, Zenon
<1> QED
  BY <1>1, <1>2, <1>3, <1>4, <1>5, <1>6, PlainOutcome

LEMMA DelegateOutcome ==
  ASSUME NEW j, Ready(j), j.ask.op = "delegate", NEW coll,
         j.built = Call(j.ask, j.inputs, j.locked, coll, j.reward)
  PROVE  Outcome(j)
<1> DEFINE ins == j.inputs
           checked == First(<<StakeCredential(Key), HashCheck(j.ask.pool), AddInputs(ins)>>)
           b == [NewBuilder EXCEPT !.inputs = ins, !.cert = "delegate", !.ttl = j.ask.ttl]
<1>1. j.built = Finalise(checked, b, "mine", 0, {})
  BY DEF Call, WireBuildDelegationTx, BuildDelegationTx
<1>2. /\ b.inputs = ins /\ b.outputs = <<>> /\ b.mint = NoTokens /\ b.aux = <<>>
      /\ b.listed = {} /\ b.withdrawal = 0 /\ b.cert = "delegate"
  BY DEF NewBuilder
<1>3. /\ checked = "None" => DOMAIN ins # {}
      /\ checked # "None" =>
            \/ checked = "InvalidParameter" /\ (DOMAIN ins = {} \/ j.ask.pool = Malformed)
            \/ checked = "CslError" /\ j.ask.pool = OtherHex
  <2> DEFINE pool == j.ask.pool
             c == DelegationCheck(ins, pool)
  <2> HIDE DEF pool, ins
  <2>1. DelegationFits(c, ins, pool)
    BY StakingChecks
  <2>2. checked = c
    BY DEF DelegationCheck, pool
  <2> HIDE DEF c, checked
  <2> QED
    BY <2>1, <2>2 DEF DelegationFits, pool
<1> HIDE DEF checked, b
<1>4. 0 = Refund(b) - Deposit(b)
  BY <1>2 DEF Refund, Deposit
<1>5. Spent(j) = ins
  BY DEF Ready
<1>6. checked # "None" /\ j.built.err = checked => Honest(j)
  <2> HAVE checked # "None" /\ j.built.err = checked
  <2>1. \/ j.built.err = "InvalidParameter" /\ (DOMAIN j.inputs = {} \/ j.ask.pool = Malformed)
        \/ j.built.err = "CslError" /\ j.ask.pool = OtherHex
    BY <1>3
  <2> QED
    BY <2>1, HonestIs, Zenon
<1> QED
  BY <1>1, <1>2, <1>3, <1>4, <1>5, <1>6, PlainOutcome

\* A request that pays, with its one output.
LEMMA PayOutcome ==
  ASSUME NEW j, Ready(j), j.ask.op = "pay", NEW coll,
         j.built = Call(j.ask, j.inputs, j.locked, coll, j.reward)
  PROVE  Outcome(j)
<1> DEFINE a == j.ask
           ins == j.inputs
           v == [coin |-> a.coin, assets |-> a.assets]
           o == [address |-> a.to, value |-> v]
           outs == <<o>>
           c1 == Check(DOMAIN ins = {}, "InvalidParameter")
           c2 == Check(outs = <<>>, "InvalidParameter")
           c3 == OutputChecks(outs)
           k1 == Check(a.to = Malformed, "InvalidAddress")
           k2 == ValueCheck(v)
           small == a.coin < MinAdaForOutput(OutputToCsl(o))
           many == Cardinality(a.assets) > MaxValSize
           k3 == Check(small \/ many, "CslError")
           checked == First(<<c1, c2, c3>>)
           b == [NewBuilder EXCEPT !.inputs = ins, !.outputs = OutputsToCsl(outs), !.ttl = a.ttl]
<1>1. j.built = Finalise(checked, b, "mine", 0, {})
  BY Zenon DEF Call, WireBuildTx, BuildTx
<1>2. /\ b.inputs = ins /\ b.outputs = OutputsToCsl(outs) /\ b.mint = NoTokens /\ b.aux = <<>>
      /\ b.listed = {} /\ b.withdrawal = 0 /\ b.cert = "none"
  BY DEF NewBuilder
<1>3. /\ a \in Requests /\ a.to \in {"them", Malformed} /\ a.coin \in Nat
      /\ a.assets \in SUBSET Listed(Names \cup {LongName})
      /\ a.mint = <<>> /\ a.image = <<>>
  <2>1. a \in Requests
    BY DEF Ready
  <2> QED
    BY <2>1, RequestIs
<1>4. /\ c1 = (IF DOMAIN ins = {} THEN "InvalidParameter" ELSE "None") /\ c2 = "None"
      /\ k1 = (IF a.to = Malformed THEN "InvalidAddress" ELSE "None")
  BY DEF Check
<1>5. c3 = First(<<k1, k2, k3>>)
  <2>1. OutputCheck(o) = First(<<k1, k2, k3>>)
    <3>1. o.address = a.to /\ o.value = v /\ v.coin = a.coin /\ v.assets = a.assets
      OBVIOUS
    <3> HIDE DEF o, v
    <3> QED
      BY <3>1, Zenon DEF OutputCheck
  <2>2. [i \in DOMAIN outs |-> OutputCheck(outs[i])] = <<OutputCheck(o)>>
    <3> HIDE DEF o
    <3> QED
      OBVIOUS
  <2>3. OutputChecks(outs) = First(<<OutputCheck(o)>>)
    <3> HIDE DEF o
    <3> QED
      BY <2>2 DEF OutputChecks
  <2> DEFINE e == OutputCheck(o)
  <2> HIDE DEF e, outs
  <2>4. First(<<e>>) = e
    BY FirstOfList
  <2> QED
    BY <2>1, <2>3, <2>4 DEF e
<1>6. k2 # "None" => k2 = "CslError" /\ LongName \in NamesOf(a)
  <2>1. CASE \E x \in v.assets : x.name = LongName
    <3>1. LongName \in NamesOf(a)
      BY <2>1 DEF NamesOf
    <3>2. k2 = "CslError"
      BY <2>1 DEF ValueCheck, Check
    <3> QED
      BY <3>1, <3>2
  <2>2. CASE ~ \E x \in v.assets : x.name = LongName
    BY <2>2 DEF ValueCheck, Check
  <2> QED
    BY <2>1, <2>2
<1> DEFINE out == OutputToCsl(o)
<1>7. /\ out.address = a.to /\ out.coin = a.coin /\ out.tokens \in Tokens
      /\ \A p \in Policies, n \in Names : out.tokens[p][n] = Quantity(a.assets, p, n)
      /\ out = [address |-> out.address, coin |-> out.coin, tokens |-> out.tokens]
  <2>1. out = [address |-> a.to, coin |-> a.coin, tokens |-> ValueToCsl(v).tokens]
    BY DEF OutputToCsl
  <2>2. ValueToCsl(v).tokens = [p \in Policies |-> [n \in Names |-> Quantity(a.assets, p, n)]]
    BY DEF ValueToCsl
  <2>3. \A p, n : Quantity(a.assets, p, n) \in Nat
    BY <1>3, QuantityType
  <2> HIDE DEF out, v, a
  <2> QED
    BY <2>1, <2>2, <2>3 DEF Tokens
<1>8. k3 # "None" => k3 = "CslError" /\ (a.coin < TokenMinAda \/ many)
  <2>1. MinAdaForOutput(out) \in {MinAda, TokenMinAda}
    BY DEF MinAdaForOutput
  <2>2. small => a.coin < TokenMinAda
    <3> HIDE DEF out, a
    <3> QED
      BY <1>3, <2>1, Parameters DEF out
  <2>3. (small \/ many) => k3 = "CslError"
    BY DEF Check
  <2>4. ~(small \/ many) => k3 = "None"
    BY DEF Check
  <2> HIDE DEF small, many, k3, a
  <2> QED
    BY <2>2, <2>3, <2>4
<1>9. k3 = "None" => out.coin >= MinAdaForOutput(out)
  <2>1. MinAdaForOutput(out) \in Nat
    BY Parameters DEF MinAdaForOutput
  <2>2. a.coin < MinAdaForOutput(out) => k3 = "CslError"
    BY DEF Check
  <2> HIDE DEF k3, out, a
  <2> QED
    BY <1>3, <1>7, <2>1, <2>2
<1>10. b.outputs = <<out>>
  <2>1. OutputsToCsl(outs) = <<out>>
    <3> HIDE DEF o
    <3> QED
      BY DEF OutputsToCsl
  <2> HIDE DEF b, out, outs
  <2> QED
    BY <1>2, <2>1
<1> HIDE DEF c1, c2, c3, k1, k2, k3, small, many, b, out, outs, o, v
<1>11. /\ checked = "None" => c1 = "None" /\ k1 = "None" /\ k2 = "None" /\ k3 = "None"
       /\ checked # "None" => checked \in {c1, k1, k2, k3}
  <2>1. /\ c3 = "None" <=> (k1 = "None" /\ k2 = "None" /\ k3 = "None")
        /\ c3 # "None" => c3 \in {k1, k2, k3}
    <3> DEFINE k == First(<<k1, k2, k3>>)
    <3>1. /\ k = "None" <=> (k1 = "None" /\ k2 = "None" /\ k3 = "None")
          /\ k # "None" => k \in {k1, k2, k3}
      BY FirstOfList
    <3> QED
      BY <1>5, <3>1 DEF k
  <2>2. /\ checked = "None" <=> (c1 = "None" /\ c2 = "None" /\ c3 = "None")
        /\ checked # "None" => checked \in {c1, c2, c3}
    BY FirstOfList
  <2> HIDE DEF checked
  <2> QED
    BY <1>4, <2>1, <2>2
<1> HIDE DEF checked
<1>12. Spent(j) = ins /\ j.reward \in Nat /\ Stock(ins)
  BY DEF Ready
<1>13. ASSUME checked = "None" PROVE Checked(b, j, {})
  <2>1. DOMAIN ins # {} /\ a.to # Malformed /\ a.to = "them"
    BY <1>3, <1>4, <1>11, <1>13
  <2>2. out \in CslOutputs
    <3> HIDE DEF a
    <3> QED
      BY <1>3, <1>7, <2>1, OutputsValued
  <2>3. b.outputs \in Seq(CslOutputs) /\ Len(b.outputs) = 1 /\ b.outputs[1] = out
    BY <1>10, <2>2
  <2>4. /\ \A p \in Policies, n \in Names : b.mint[p][n] = 0
        /\ b.mint \in [Policies -> [Names -> Int]]
    BY <1>2 DEF NoTokens
  <2>5. Filled(b)
    BY <1>2, <1>12, <2>3, <2>4 DEF Filled
  <2>6. Pays(b.outputs, a)
    BY <1>7, <2>1, <2>3 DEF Pays
  <2>7. \A p \in Policies, n \in Names : Minted([policy |-> a.policy, assets |-> a.mint], p, n) = 0
    <3> TAKE p \in Policies, n \in Names
    <3> DEFINE spec == [policy |-> a.policy, assets |-> a.mint]
    <3>1. spec.assets = <<>> /\ <<>> \in Seq(MintAssets)
      BY <1>3
    <3> HIDE DEF spec
    <3>2. Minted(spec, p, n) = 0
      BY <3>1, MintedIs
    <3> QED
      BY <3>2 DEF spec
  <2>8. Meets(b, j)
    BY <1>2, <1>12, <2>1, <2>4, <2>5, <2>6, <2>7 DEF Meets
  <2>9. FlattenSeq(b.aux) = a.image
    BY <1>2, <1>3, FlattenNone
  <2>10. ~Least(a)
    BY <1>3 DEF Least
  <2>11. \A i \in DOMAIN b.outputs : b.outputs[i].coin >= MinAdaForOutput(b.outputs[i])
    <3>1. DOMAIN b.outputs = {1}
      BY <2>3
    <3> QED
      BY <1>9, <1>11, <1>13, <2>3, <3>1
  <2>12. DOMAIN b.aux = {}
    BY <1>2
  <2>13. b.withdrawal \in {0, j.reward}
    BY <1>2
  <2>14. Len(b.aux) = 0 /\ MetaParts(a) = 0 /\ ~Cancelled(b) /\ a.op = "pay"
    BY <1>2, <1>3 DEF MetaParts, Cancelled
  <2> QED
    BY <2>3, <2>4, <2>8, <2>9, <2>10, <2>11, <2>12, <2>13, <2>14 DEF Checked
<1>14. ASSUME checked # "None", j.built.err = checked PROVE Honest(j)
  <2>1. checked \in {c1, k1, k2, k3}
    BY <1>11, <1>14
  <2>2. CASE checked = c1
    <3>1. j.built.err = "InvalidParameter" /\ DOMAIN j.inputs = {}
      BY <1>4, <1>14, <2>2
    <3> QED
      BY <3>1, HonestIs, Zenon
  <2>3. CASE checked = k1
    <3>1. j.built.err = "InvalidAddress" /\ a.to = Malformed
      BY <1>4, <1>14, <2>3
    <3> QED
      BY <3>1, HonestIs, Zenon
  <2>4. CASE checked = k2
    <3>1. j.built.err = "CslError" /\ LongName \in NamesOf(a)
      BY <1>6, <1>14, <2>4
    <3> QED
      BY <3>1, HonestIs, Zenon
  <2>5. CASE checked = k3
    <3>1. j.built.err = "CslError" /\ ((a.op = "pay" /\ a.coin < TokenMinAda) \/ many)
      BY <1>8, <1>14, <2>5
    <3> QED
      BY <3>1, HonestIs, Zenon DEF many
  <2> QED
    BY <2>1, <2>2, <2>3, <2>4, <2>5
<1>15. 0 = Refund(b) - Deposit(b)
  BY <1>2 DEF Refund, Deposit
<1>16. /\ DOMAIN j.inputs \subseteq DOMAIN Spent(j)
       /\ \A c \in DOMAIN j.inputs : Spent(j)[c] = j.inputs[c]
  BY <1>12
<1> DEFINE ws == {}
           dc == 0
<1>17. /\ j.built = Finalise(checked, b, "mine", dc, ws) /\ (checked = "None" => Checked(b, j, ws))
       /\ dc = Refund(b) - Deposit(b) /\ j.ask.coin \in Nat
  BY <1>1, <1>3, <1>13, <1>15
<1> HIDE DEF ws, dc, a
<1> QED
  BY <1>12, <1>14, <1>16, <1>17, OutcomeOf

\* The checks of what is to be minted.
LEMMA MintChecks ==
  ASSUME NEW spec, spec.assets \in Seq(MintAssets)
  PROVE  LET c == MintCheck(spec) IN
         /\ c = "None" => \A i \in DOMAIN spec.assets : spec.assets[i].quantity # MinInt
         /\ c # "None" =>
              \/ c = "CslError" /\ \E i \in DOMAIN spec.assets :
                   spec.assets[i].name = LongName \/ spec.assets[i].quantity = 0
              \/ c = "InvalidParameter" /\ \E i \in DOMAIN spec.assets : spec.assets[i].quantity = MinInt
<1> DEFINE m == spec.assets
           cs == [i \in DOMAIN m |-> MintAssetCheck(m[i])]
<1>1. Len(m) \in Nat /\ DOMAIN cs = DOMAIN m /\ DOMAIN cs \subseteq 1 .. Len(m)
  OBVIOUS
<1>2. /\ First(cs) = "None" <=> \A i \in DOMAIN cs : cs[i] = "None"
      /\ First(cs) # "None" => \E i \in DOMAIN cs : First(cs) = cs[i]
  <2> HIDE DEF cs, m
  <2> QED
    BY <1>1, FirstOfSome
<1>3. ASSUME NEW i \in DOMAIN m
      PROVE  /\ cs[i] = "None" => m[i].quantity # MinInt
             /\ cs[i] # "None" => \/ cs[i] = "CslError" /\ (m[i].name = LongName \/ m[i].quantity = 0)
                                  \/ cs[i] = "InvalidParameter" /\ m[i].quantity = MinInt
  <2> DEFINE x == m[i]
             k1 == Check(x.name = LongName, "CslError")
             k2 == Check(x.quantity = MinInt, "InvalidParameter")
             k3 == Check(x.quantity = 0, "CslError")
             k == First(<<k1, k2, k3>>)
  <2>1. cs[i] = k
    BY DEF MintAssetCheck
  <2>2. /\ k1 = (IF x.name = LongName THEN "CslError" ELSE "None")
        /\ k2 = (IF x.quantity = MinInt THEN "InvalidParameter" ELSE "None")
        /\ k3 = (IF x.quantity = 0 THEN "CslError" ELSE "None")
    BY DEF Check
  <2> HIDE DEF k1, k2, k3, x, cs
  <2>3. /\ k = "None" <=> (k1 = "None" /\ k2 = "None" /\ k3 = "None")
        /\ k # "None" => k \in {k1, k2, k3}
    BY FirstOfList
  <2> HIDE DEF k
  <2>4. /\ cs[i] = "None" => x.quantity # MinInt
        /\ cs[i] # "None" => \/ cs[i] = "CslError" /\ (x.name = LongName \/ x.quantity = 0)
                             \/ cs[i] = "InvalidParameter" /\ x.quantity = MinInt
    BY <2>1, <2>2, <2>3
  <2> QED
    BY <2>4 DEF x
<1>4. MintCheck(spec) = First(cs)
  BY DEF MintCheck
<1> HIDE DEF cs
<1> QED
  BY <1>1, <1>2, <1>3, <1>4

\* A mint without metadata, or with a text in chunks, of one policy.
LEMMA MintOutcome ==
  ASSUME NEW j, Ready(j), j.ask.op = "mint", NEW coll,
         j.built = Call(j.ask, j.inputs, j.locked, coll, j.reward)
  PROVE  Outcome(j)
<1> DEFINE a == j.ask
           ins == j.inputs
           spec == [policy |-> a.policy, assets |-> a.mint]
           specs == <<spec>>
           outs == <<>>
           meta == BuildCip25Metadata(a.mint[1].name, a.image, <<1>>)
           aux == IF a.image = <<>> THEN <<>> ELSE meta.aux
           ws == {specs[i].policy : i \in DOMAIN specs}
           c1 == Check(DOMAIN ins = {}, "InvalidParameter")
           c2 == Check(specs = <<>>, "InvalidParameter")
           c3 == OutputChecks(outs)
           cs == <<c1, c2, c3>> \o [i \in DOMAIN specs |-> MintCheck(specs[i])]
           checked == First(cs)
           all == [p \in Policies |-> [n \in Names |->
                    SumFunction([i \in DOMAIN specs |-> Minted(specs[i], p, n)])]]
           listed == UNION {ListedAssets(specs[i]) : i \in DOMAIN specs}
           b == [NewBuilder EXCEPT !.inputs = ins, !.outputs = OutputsToCsl(outs), !.ttl = a.ttl,
                                   !.mint = all, !.listed = listed, !.aux = aux]
<1>1. /\ a.image # <<>> /\ meta.err # "None" => j.built = meta
      /\ ~(a.image # <<>> /\ meta.err # "None") => j.built = Finalise(checked, b, "mine", 0, ws)
  <2>1. WireBuildCip25Metadata(<<[name |-> a.mint[1].name, image |-> a.image,
                                  media_type |-> <<1>>]>>) = meta
    BY DEF WireBuildCip25Metadata
  <2> DEFINE call == WireBuildMintTx(<<ins, <<>>, "mine", <<spec>>, aux, a.ttl, "params">>)
  <2>2. call = Finalise(checked, b, "mine", 0, ws)
    <3>1. call = BuildMintTx(ins, outs, "mine", specs, aux, a.ttl)
      BY DEF WireBuildMintTx
    <3> HIDE DEF call, ins, outs, specs, aux, a
    <3> QED
      BY <3>1, Zenon DEF BuildMintTx
  <2>3. j.built = IF a.image # <<>> /\ meta.err # "None" THEN meta ELSE call
    <3> HIDE DEF meta
    <3> QED
      BY <2>1 DEF Call
  <2> HIDE DEF call, meta, checked, b, ws
  <2> QED
    BY <2>2, <2>3
<1>2. /\ b.inputs = ins /\ b.outputs = OutputsToCsl(outs) /\ b.mint = all /\ b.aux = aux
      /\ b.listed = listed /\ b.withdrawal = 0 /\ b.cert = "none"
  <2> HIDE DEF all, aux, outs, listed
  <2> QED
    BY DEF NewBuilder
<1>3. /\ a \in Requests /\ a.coin = 0 /\ a.mint # <<>> /\ a.policy \in Policies
      /\ a.mint \in Seq(MintAssets) /\ a.image \in Texts
      /\ \A p, n : Quantity(a.assets, p, n) = 0
  <2>1. a \in Requests
    BY DEF Ready
  <2> QED
    BY <2>1, RequestIs DEF Texts
<1>4. a.mint[1].name \in NamesOf(a)
  <2>1. 1 \in DOMAIN a.mint
    BY <1>3
  <2> QED
    BY <2>1 DEF NamesOf
<1>5. /\ meta.err # "None" => meta.err = "InvalidParameter" /\ a.mint[1].name \in NonUtf8
      /\ meta.err = "None" => meta.aux = TextOrChunks(a.image)
  <2> DEFINE name == a.mint[1].name
             t1 == TextDatum(<<1>>)
             t2 == Check(name \in NonUtf8, "InvalidParameter")
             err == First(<<t1, t2>>)
  <2>1. t1 = "None"
    <3> DEFINE e == <<>>
    <3>1. e \in Texts /\ Append(e, 1) = <<1>> /\ 1 \in 1 .. 4 /\ Bytes(e) = 0
      BY BytesAre DEF Texts
    <3> HIDE DEF e
    <3>2. Bytes(<<1>>) = 0 + 1
      BY <3>1, BytesAre
    <3>3. ~(Bytes(<<1>>) > MaxText)
      BY <3>2, Parameters, TxFlowAssumption
    <3> QED
      BY <3>3 DEF TextDatum, Check
  <2>2. t2 = (IF name \in NonUtf8 THEN "InvalidParameter" ELSE "None")
    BY DEF Check
  <2>3. meta = IF err = "None" THEN [err |-> err, aux |-> TextOrChunks(a.image)] ELSE Failed(err)
    <3> HIDE DEF name, a
    <3> QED
      BY Zenon DEF BuildCip25Metadata, meta, name
  <2> HIDE DEF t1, t2, name, meta
  <2>4. /\ err = "None" <=> (t1 = "None" /\ t2 = "None")
        /\ err # "None" => err \in {t1, t2}
    BY FirstOfPair
  <2> HIDE DEF err
  <2>5. err # "None" => err = "InvalidParameter" /\ name \in NonUtf8
    BY <2>1, <2>2, <2>4
  <2>6. /\ err # "None" => meta.err = err
        /\ err = "None" => meta.err = "None" /\ meta.aux = TextOrChunks(a.image)
    BY <2>3 DEF Failed
  <2> QED
    BY <2>5, <2>6 DEF name
<1>6. CASE a.image # <<>> /\ meta.err # "None"
  <2>1. j.built.err = "InvalidParameter" /\ a.image # <<>> /\ NamesOf(a) \cap NonUtf8 # {}
    BY <1>1, <1>4, <1>5, <1>6
  <2>2. Honest(j)
    BY <2>1, HonestIs, Zenon
  <2> QED
    BY <2>1, <2>2 DEF Outcome
<1>7. CASE ~(a.image # <<>> /\ meta.err # "None")
  <2>1. /\ FlattenSeq(aux) = a.image /\ \A i \in DOMAIN aux : Bytes(aux[i]) <= MaxText
        /\ Len(aux) = MetaParts(a) /\ Len(aux) \in Nat
    <3>1. CASE a.image = <<>>
      <4>1. aux = <<>> /\ DOMAIN aux = {} /\ Len(aux) = 0 /\ MetaParts(a) = 0
        BY <3>1 DEF MetaParts
      <4> QED
        BY <3>1, <4>1, FlattenNone
    <3>2. CASE a.image # <<>>
      <4>1. aux = TextOrChunks(a.image)
        BY <1>5, <1>7, <3>2
      <4>2. Len(aux) = MetaParts(a)
        BY <3>2, <4>1 DEF MetaParts
      <4> HIDE DEF aux, a, meta
      <4> QED
        BY <1>3, <4>1, <4>2, ChunksWhole
    <3> QED
      BY <3>1, <3>2
  <2>2. ws = {a.policy} /\ DOMAIN specs = {1} /\ specs[1] = spec /\ specs # <<>>
    OBVIOUS
  <2>3. /\ \A p \in Policies, n \in Names : all[p][n] = Minted(spec, p, n) /\ Minted(spec, p, n) \in Int
        /\ all \in [Policies -> [Names -> Int]]
    <3>1. ASSUME NEW p \in Policies, NEW n \in Names
          PROVE  /\ SumFunction([i \in DOMAIN specs |-> Minted(specs[i], p, n)]) = Minted(spec, p, n)
                 /\ Minted(spec, p, n) \in Int
      <4> DEFINE f == [i \in DOMAIN specs |-> Minted(specs[i], p, n)]
      <4>1. spec.assets \in Seq(MintAssets)
        BY <1>3
      <4>2. Minted(spec, p, n) \in Int
        <5> HIDE DEF spec
        <5> QED
          BY <4>1, MintedIs
      <4>3. DOMAIN f = {1} /\ f[1] = Minted(spec, p, n)
        <5> HIDE DEF spec
        <5> QED
          BY <2>2
      <4>4. SumFunction(f) = SumFunctionOnSet(f, DOMAIN f)
        BY DEF SumFunction, SumFunctionOnSet, FoldFunction, FoldFunctionOnSet
      <4> HIDE DEF f, spec, specs
      <4>5. SumFunctionOnSet(f, {1}) = f[1]
        BY <4>2, <4>3, SumOne
      <4>6. SumFunction(f) = Minted(spec, p, n)
        BY <4>3, <4>4, <4>5
      <4> QED
        BY <4>2, <4>6 DEF f
    <3> HIDE DEF spec, specs
    <3> QED
      BY <3>1
  <2>4. outs = <<>> /\ OutputsToCsl(outs) = <<>> /\ c3 = "None"
    <3>1. [i \in DOMAIN outs |-> OutputCheck(outs[i])] = <<>>
      OBVIOUS
    <3>2. First(<<>>) = "None"
      <4> DEFINE e == <<>>
      <4>1. DOMAIN e = {}
        OBVIOUS
      <4> HIDE DEF e
      <4>2. First(e) = "None"
        BY <4>1, FirstOfNone
      <4> QED
        BY <4>2 DEF e
    <3>3. c3 = "None"
      BY <3>1, <3>2 DEF OutputChecks
    <3>4. OutputsToCsl(outs) = <<>>
      BY DEF OutputsToCsl
    <3> QED
      BY <3>3, <3>4
  <2> DEFINE c4 == MintCheck(spec)
  <2>5. /\ checked = "None" => c1 = "None" /\ c4 = "None"
        /\ checked # "None" => checked \in {c1, c4} /\ checked # "None"
    <3>1. c2 = "None"
      BY <2>2 DEF Check
    <3>2. [i \in DOMAIN specs |-> MintCheck(specs[i])] = <<c4>>
      <4> HIDE DEF spec
      <4> QED
        OBVIOUS
    <3>3. DOMAIN cs = 1 .. 4 /\ cs[1] = c1 /\ cs[2] = c2 /\ cs[3] = c3 /\ cs[4] = c4
      <4>1. cs = <<c1, c2, c3>> \o <<c4>>
        <5> HIDE DEF c1, c2, c3, c4, specs
        <5> QED
          BY <3>2
      <4> HIDE DEF c1, c2, c3, c4, cs
      <4> QED
        BY <4>1, FourInOrder
    <3> HIDE DEF cs, c1, c2, c3, c4
    <3>4. /\ First(cs) = "None" <=> \A i \in DOMAIN cs : cs[i] = "None"
          /\ First(cs) # "None" => \E i \in DOMAIN cs : First(cs) = cs[i]
      BY <3>3, FirstOfSome
    <3> QED
      BY <2>4, <3>1, <3>3, <3>4
  <2>6. c1 = (IF DOMAIN ins = {} THEN "InvalidParameter" ELSE "None")
    BY DEF Check
  <2>7. /\ c4 = "None" => ~Least(a)
        /\ c4 # "None" => \/ c4 = "CslError" /\ (LongName \in NamesOf(a) \/ Zeros(a))
                          \/ c4 = "InvalidParameter" /\ Least(a)
    <3>1. spec.assets = a.mint /\ spec.assets \in Seq(MintAssets)
      BY <1>3
    <3> HIDE DEF spec
    <3>2. /\ c4 = "None" => \A i \in DOMAIN spec.assets : spec.assets[i].quantity # MinInt
          /\ c4 # "None" =>
              \/ c4 = "CslError" /\ \E i \in DOMAIN spec.assets :
                   spec.assets[i].name = LongName \/ spec.assets[i].quantity = 0
              \/ c4 = "InvalidParameter" /\ \E i \in DOMAIN spec.assets : spec.assets[i].quantity = MinInt
      BY <3>1, MintChecks
    <3> HIDE DEF a
    <3> QED
      BY <3>1, <3>2 DEF NamesOf, Least, Zeros
  <2>8. j.built = Finalise(checked, b, "mine", 0, ws)
    BY <1>1, <1>7
  <2>15. \A p, n : <<p, n>> \in listed => /\ p = a.policy
                                           /\ \E i \in DOMAIN a.mint : n = a.mint[i].name
    <3>1. listed = ListedAssets(spec)
      <4> HIDE DEF spec, specs
      <4> QED
        BY <2>2
    <3>2. ListedAssets(spec) = {<<a.policy, a.mint[i].name>> : i \in DOMAIN a.mint}
      BY DEF ListedAssets, ComputePolicyId
    <3> HIDE DEF listed, spec, a
    <3> QED
      BY <3>1, <3>2
  <2> HIDE DEF listed, meta, aux, ws, c1, c2, c3, c4, cs, checked, all, b, outs, specs
  <2>9. Spent(j) = ins /\ j.reward \in Nat /\ Stock(ins)
    BY DEF Ready
  <2>10. ASSUME checked = "None" PROVE Checked(b, j, ws)
    <3>1. DOMAIN ins # {} /\ ~Least(a)
      BY <2>5, <2>6, <2>7, <2>10
    <3>2. b.outputs \in Seq(CslOutputs) /\ Len(b.outputs) = 0 /\ DOMAIN b.outputs = {} /\ b.outputs = <<>>
      <4>1. b.outputs = <<>>
        BY <1>2, <2>4
      <4> QED
        BY <4>1
    <3>3. Filled(b)
      BY <1>2, <2>3, <2>9, <3>2 DEF Filled
    <3>4. Pays(b.outputs, a)
      BY <1>3, <3>2 DEF Pays
    <3>5. Meets(b, j)
      BY <1>2, <2>3, <2>9, <3>1, <3>3, <3>4 DEF Meets
    <3>6. \A p \in Policies, n \in Names : p \notin ws => b.mint[p][n] = 0
      <4> TAKE p \in Policies, n \in Names
      <4>1. p # spec.policy => Minted(spec, p, n) = 0
        <5>1. spec.assets \in Seq(MintAssets)
          BY <1>3
        <5> HIDE DEF spec
        <5> QED
          BY <5>1, MintedIs
      <4>2. spec.policy = a.policy
        OBVIOUS
      <4> HIDE DEF spec, a
      <4> QED
        BY <1>2, <2>2, <2>3, <4>1, <4>2
    <3>7. FlattenSeq(b.aux) = j.ask.image /\ \A i \in DOMAIN b.aux : Bytes(b.aux[i]) <= MaxText
      BY <1>2, <2>1
    <3>8. Cancelled(b) => CancelsOut(a)
      <4> HAVE Cancelled(b)
      <4>1. PICK p \in Policies, n \in Names : <<p, n>> \in listed /\ b.mint[p][n] = 0
        BY <1>2 DEF Cancelled
      <4>2. PICK i \in DOMAIN a.mint : n = a.mint[i].name
        BY <2>15, <4>1
      <4>3. p = a.policy
        BY <2>15, <4>1
      <4>4. Minted(spec, p, n) = 0
        BY <1>2, <2>3, <4>1
      <4>5. Minted([policy |-> a.policy, assets |-> a.mint], a.policy, a.mint[i].name) = 0
        BY <4>2, <4>3, <4>4
      <4> HIDE DEF a, spec
      <4> QED
        BY <4>2, <4>5 DEF CancelsOut
    <3>9. Len(b.outputs) = 0 /\ a.op # "pay" /\ Len(b.aux) = MetaParts(a) /\ Len(b.aux) \in Nat
      BY <1>2, <2>1, <3>2
    <3> QED
      BY <1>2, <3>1, <3>2, <3>5, <3>6, <3>7, <3>8, <3>9 DEF Checked
  <2>11. ASSUME checked # "None", j.built.err = checked PROVE Honest(j)
    <3>1. CASE checked = c1
      <4>1. j.built.err = "InvalidParameter" /\ DOMAIN j.inputs = {}
        BY <2>6, <2>11, <3>1
      <4> QED
        BY <4>1, HonestIs, Zenon
    <3>2. CASE checked = c4 /\ c4 = "CslError"
      <4>1. j.built.err = "CslError" /\ (LongName \in NamesOf(a) \/ Zeros(a))
        BY <2>7, <2>11, <3>2
      <4> QED
        BY <4>1, HonestIs, Zenon
    <3>3. CASE checked = c4 /\ c4 # "CslError"
      <4>1. j.built.err = "InvalidParameter" /\ Least(a)
        BY <2>7, <2>11, <3>3
      <4> QED
        BY <4>1, HonestIs, Zenon
    <3> QED
      BY <2>5, <2>11, <3>1, <3>2, <3>3
  <2>12. 0 = Refund(b) - Deposit(b)
    BY <1>2 DEF Refund, Deposit
  <2>13. /\ DOMAIN j.inputs \subseteq DOMAIN Spent(j)
         /\ \A c \in DOMAIN j.inputs : Spent(j)[c] = j.inputs[c]
    BY <2>9
  <2> DEFINE dc == 0
  <2>14. /\ j.built = Finalise(checked, b, "mine", dc, ws) /\ dc = Refund(b) - Deposit(b)
         /\ j.ask.coin \in Nat
    BY <1>3, <2>8, <2>12
  <2> HIDE DEF dc, a, spec
  <2> QED
    BY <2>9, <2>10, <2>11, <2>13, <2>14, OutcomeOf
<1> QED
  BY <1>6, <1>7

\* A script spends all it locked, with the wallet's lovelace.
LEMMA UnlockOutcome ==
  ASSUME NEW j, Ready(j), j.ask.op = "unlock", NEW coll,
         coll = {} => \A c \in DOMAIN j.inputs : j.inputs[c].assets # {},
         j.built = Call(j.ask, j.inputs, j.locked, coll, j.reward)
  PROVE  Outcome(j)
<1> DEFINE a == j.ask
           ins == j.inputs
           locked == j.locked
           outs == <<>>
           d1 == PlutusDataConstr(a.data)
           d2 == PlutusDataList(a.items)
           c1 == Check(DOMAIN locked = {}, "InvalidParameter")
           c2 == Check(coll = {}, "InvalidParameter")
           c3 == ValidatePlutusData("data")
           c4 == OutputChecks(outs)
           cs == <<c1, c2, c3, c3, c4>>
           checked == First(cs)
           both == [c \in DOMAIN locked \cup DOMAIN ins |->
                      IF c \in DOMAIN locked THEN locked[c] ELSE ins[c]]
           b == [NewBuilder EXCEPT !.inputs = both, !.outputs = OutputsToCsl(outs),
                                   !.collateral = coll, !.ttl = a.ttl]
<1>1. /\ d1 # "None" => j.built = Failed(d1)
      /\ d1 = "None" /\ d2 # "None" => j.built = Failed(d2)
      /\ d1 = "None" /\ d2 = "None" => j.built = Finalise(checked, b, "mine", 0, {})
  <2>1. WirePlutusDataConstr(<<0, a.data>>) = d1 /\ WirePlutusDataList(<<a.items>>) = d2
    BY DEF WirePlutusDataConstr, WirePlutusDataList
  <2> DEFINE call == WireBuildScriptTx(<<[inputs |-> locked, datum |-> "data", redeemer |-> "data"],
                                         ins, <<>>, "mine", coll, {}, a.ttl, "params">>)
  <2>2. call = Finalise(checked, b, "mine", 0, {})
    <3>1. call = BuildScriptTx(locked, "data", "data", ins, outs, "mine", coll, a.ttl)
      BY DEF WireBuildScriptTx
    <3> HIDE DEF call, ins, outs, locked, a
    <3> QED
      BY <3>1, Zenon DEF BuildScriptTx
  <2>3. j.built = IF d1 # "None" THEN Failed(d1) ELSE IF d2 # "None" THEN Failed(d2) ELSE call
    <3> HIDE DEF d1, d2
    <3> QED
      BY <2>1 DEF Call
  <2> HIDE DEF call, d1, d2, checked, b
  <2> QED
    BY <2>2, <2>3
<1> DEFINE honest(d) == \/ d = "InvalidParameter" /\ Malformed \in DataOf(a)
                        \/ d = "InvalidCbor" /\ OtherHex \in DataOf(a)
<1>2. (d1 # "None" => honest(d1)) /\ (d2 # "None" => honest(d2))
  <2> DEFINE S == {"data", Malformed, OtherHex}
             data == a.data
             items == a.items
  <2>1. data \in Seq(S) /\ items \in Seq(S)
    <3>1. a \in Requests
      BY DEF Ready
    <3> QED
      BY <3>1, RequestIs
  <2>2. DataOf(a) = Range(data) \cup Range(items)
    BY DEF DataOf
  <2> HIDE DEF S, data, items
  <2>3. /\ PlutusDataConstr(data) = PlutusDataList(data)
        /\ PlutusDataList(data) # "None" =>
              \/ PlutusDataList(data) = "InvalidParameter" /\ Malformed \in Range(data)
              \/ PlutusDataList(data) = "InvalidCbor" /\ OtherHex \in Range(data)
    BY <2>1, DataListChecked
  <2>4. PlutusDataList(items) # "None" =>
              \/ PlutusDataList(items) = "InvalidParameter" /\ Malformed \in Range(items)
              \/ PlutusDataList(items) = "InvalidCbor" /\ OtherHex \in Range(items)
    BY <2>1, DataListChecked
  <2>5. d1 = PlutusDataConstr(data) /\ d2 = PlutusDataList(items)
    BY DEF data, items
  <2> HIDE DEF a, d1, d2
  <2> QED
    BY <2>2, <2>3, <2>4, <2>5
<1>3. CASE d1 # "None" \/ d2 # "None"
  <2>1. honest(j.built.err)
    <3> HIDE DEF d1, d2, a
    <3> QED
      BY <1>1, <1>2, <1>3 DEF Failed
  <2>2. Honest(j)
    BY <2>1, HonestIs, Zenon
  <2> QED
    BY <2>1, <2>2 DEF Outcome
<1>4. CASE d1 = "None" /\ d2 = "None"
  <2>1. outs = <<>> /\ OutputsToCsl(outs) = <<>> /\ c4 = "None"
    <3>1. [i \in DOMAIN outs |-> OutputCheck(outs[i])] = <<>>
      OBVIOUS
    <3>2. First(<<>>) = "None"
      <4> DEFINE e == <<>>
      <4>1. DOMAIN e = {}
        OBVIOUS
      <4> HIDE DEF e
      <4>2. First(e) = "None"
        BY <4>1, FirstOfNone
      <4> QED
        BY <4>2 DEF e
    <3>3. c4 = "None"
      BY <3>1, <3>2 DEF OutputChecks
    <3>4. OutputsToCsl(outs) = <<>>
      BY DEF OutputsToCsl
    <3> QED
      BY <3>3, <3>4
  <2> HIDE DEF outs
  <2>2. /\ b.inputs = both /\ b.outputs = OutputsToCsl(outs) /\ b.mint = NoTokens /\ b.aux = <<>>
        /\ b.listed = {} /\ b.withdrawal = 0 /\ b.cert = "none"
    <3> HIDE DEF both
    <3> QED
      BY DEF NewBuilder
  <2>3. /\ c1 = (IF DOMAIN locked = {} THEN "InvalidParameter" ELSE "None")
        /\ c2 = (IF coll = {} THEN "InvalidParameter" ELSE "None")
        /\ c3 = "None"
    <3>1. "data" # Malformed /\ "data" # OtherHex
      BY TxFlowAssumption
    <3> QED
      BY <3>1, DataChecked DEF Check
  <2>4. DOMAIN cs = 1 .. 5 /\ cs[1] = c1 /\ cs[2] = c2 /\ cs[3] = c3 /\ cs[4] = c3 /\ cs[5] = c4
    <3> HIDE DEF c1, c2, c3, c4
    <3> QED
      OBVIOUS
  <2> HIDE DEF cs, c1, c2, c3, c4, b, checked
  <2>5. /\ checked = "None" => c1 = "None"
        /\ checked # "None" => checked \in {c1, c2}
    <3>1. DOMAIN cs \subseteq 1 .. 5
      BY <2>4
    <3>2. /\ First(cs) = "None" <=> \A i \in DOMAIN cs : cs[i] = "None"
          /\ First(cs) # "None" => \E i \in DOMAIN cs : First(cs) = cs[i]
      BY <3>1, FirstOfSome
    <3> QED
      BY <2>1, <2>3, <2>4, <3>2 DEF checked
  <2>6. both = Spent(j)
    BY DEF Spent
  <2>7. checked = "None" => DOMAIN Spent(j) # {}
    <3>1. checked = "None" => DOMAIN locked # {}
      BY <2>3, <2>5
    <3>2. DOMAIN locked \subseteq DOMAIN Spent(j)
      BY DEF Ready
    <3> QED
      BY <3>1, <3>2
  <2>8. ASSUME checked # "None", j.built.err = checked PROVE Honest(j)
    <3>1. /\ j.built.err = "InvalidParameter"
          /\ DOMAIN j.locked = {} \/ \A c \in DOMAIN j.inputs : j.inputs[c].assets # {}
      BY <2>3, <2>5, <2>8
    <3> QED
      BY <3>1, HonestIs, Zenon
  <2>9. 0 = Refund(b) - Deposit(b)
    BY <2>2 DEF Refund, Deposit
  <2>10. j.built = Finalise(checked, b, "mine", 0, {})
    BY <1>1, <1>4
  <2>11. b.inputs = Spent(j) /\ b.outputs = <<>>
    BY <2>1, <2>2, <2>6
  <2> HIDE DEF both
  <2> QED
    BY <2>2, <2>7, <2>8, <2>9, <2>10, <2>11, PlainOutcome
<1> QED
  BY <1>3, <1>4

\* Whatever is asked.
LEMMA CallOutcome ==
  ASSUME NEW j, Ready(j), NEW coll,
         j.ask.op = "unlock" /\ coll = {} => \A c \in DOMAIN j.inputs : j.inputs[c].assets # {},
         j.built = Call(j.ask, j.inputs, j.locked, coll, j.reward)
  PROVE  Outcome(j)
<1>1. j.ask.op \in Ops
  <2>1. j.ask \in Requests
    BY DEF Ready
  <2> QED
    BY <2>1, RequestIs
<1>2. CASE j.ask.op = "register"
  BY <1>2, RegisterOutcome
<1>3. CASE j.ask.op = "delegate"
  BY <1>3, DelegateOutcome
<1>4. CASE j.ask.op = "withdraw"
  BY <1>4, WithdrawOutcome
<1>5. CASE j.ask.op = "deregister"
  BY <1>5, DeregisterOutcome
<1>6. CASE j.ask.op = "pay"
  BY <1>6, PayOutcome
<1>7. CASE j.ask.op = "mint"
  BY <1>7, MintOutcome
<1>8. CASE j.ask.op = "unlock"
  BY <1>8, UnlockOutcome
<1> QED
  BY <1>1, <1>2, <1>3, <1>4, <1>5, <1>6, <1>7, <1>8 DEF Ops

(***************************************************************************)
(* The invariant.                                                          *)
(***************************************************************************)

\* What holds of a transaction whatever happens after it was built.
Settled(j) ==
  /\ j.at = "built" => Told(j) /\ TextWhole(j) /\ AsAsked(j)
  /\ j.at = "failed" => Honest(j)

IInv == Inv /\ ErrorsAreHonest

LEMMA Parts ==
  /\ IInv <=> /\ TypeOK /\ Held
              /\ \A s \in Screens : /\ Fresh(s) /\ Settled(job[s])
                                    /\ job[s].at = "built" => FromLedger(job[s])
  BY Zenon DEF IInv, Inv, ErrorsAreHonest, Settled

LEMMA PartsNext ==
  ASSUME TypeOK', Held',
         \A s \in Screens : /\ Fresh(s)' /\ Settled(job'[s])
                            /\ job'[s].at = "built" => FromLedger(job[s])'
  PROVE  IInv'
  BY Zenon DEF IInv, Inv, ErrorsAreHonest, Settled

LEMMA NoJobIs ==
  /\ NoJob.at = "idle" /\ NoJob.id = 0 /\ NoJob.reward = 0 /\ Settled(NoJob)
<1>1. NoJob.at = "idle" /\ NoJob.id = 0 /\ NoJob.reward = 0
  BY DEF NoJob, Job
<1> QED
  BY <1>1 DEF Settled

LEMMA InitInv == Init => IInv
<1> SUFFICES ASSUME Init PROVE IInv
  OBVIOUS
<1>1. \A s \in Screens : job[s].at = "idle" /\ job[s].id = 0 /\ job[s].reward = 0 /\ Settled(job[s])
  BY NoJobIs DEF Init
<1>2. taps \in Nat /\ 0 \in 0 .. taps /\ slot = 0
  BY DEF Init
<1>3. account \in Accounts /\ Held
  <2>1. NewAccount \in Accounts /\ EarningAccount \in Accounts
    BY Parameters DEF NewAccount, EarningAccount, Accounts
  <2>2. account \in Accounts
    BY <2>1 DEF Init
  <2>3. account.deposit = IF account.registered THEN KeyDeposit ELSE 0
    BY DEF Init, NewAccount, EarningAccount
  <2> QED
    BY <2>2, <2>3 DEF Held
<1>4. TypeOK
  <2>1. unspent \in [DOMAIN unspent -> Outputs] /\ IsFiniteSet(DOMAIN unspent)
    BY TxFlowAssumption DEF Init
  <2>2. DOMAIN unspent \subseteq (0 .. taps) \X Nat
    BY <1>2, TxFlowAssumption DEF Init
  <2>3. info \in [Screens -> Accounts] /\ DOMAIN job = Screens
    BY <1>3 DEF Init
  <2> QED
    BY <1>1, <1>2, <1>3, <2>1, <2>2, <2>3 DEF TypeOK
<1>5. \A s \in Screens : Fresh(s)
  BY <1>1 DEF Fresh
<1> QED
  BY <1>1, <1>3, <1>4, <1>5, Parts

\* Nothing that a transaction depends on has changed.
LEMMA SameJobs ==
  ASSUME IInv, UNCHANGED <<unspent, job>>, TypeOK', Held'
  PROVE  IInv'
<1>1. \A s \in Screens : /\ Fresh(s) /\ Settled(job[s])
                         /\ job[s].at = "built" => FromLedger(job[s])
  BY Parts
<1>2. \A s \in Screens : Fresh(s)'
  BY <1>1 DEF Fresh
<1>3. \A s \in Screens : Settled(job'[s]) /\ (job'[s].at = "built" => FromLedger(job[s])')
  BY <1>1 DEF FromLedger
<1> QED
  BY <1>2, <1>3, PartsNext

LEMMA LoadInv ==
  ASSUME IInv, NEW s \in Screens, Load(s)
  PROVE  IInv'
<1>1. TypeOK /\ Held
  BY Parts
<1>2. TypeOK'
  BY <1>1 DEF Load, TypeOK
<1>3. Held' /\ UNCHANGED <<unspent, job>>
  BY <1>1 DEF Load, Held
<1> QED
  BY <1>2, <1>3, SameJobs

LEMMA TickInv ==
  ASSUME IInv, Tick
  PROVE  IInv'
<1>1. TypeOK /\ Held
  BY Parts
<1>2. TypeOK'
  BY <1>1 DEF Tick, TypeOK
<1>3. Held' /\ UNCHANGED <<unspent, job>>
  BY <1>1 DEF Tick, Held
<1> QED
  BY <1>2, <1>3, SameJobs

LEMMA EpochInv ==
  ASSUME IInv, Epoch
  PROVE  IInv'
<1>1. TypeOK /\ Held
  BY Parts
<1>2. account' \in Accounts /\ account'.deposit = account.deposit /\ account'.registered = account.registered
  BY <1>1 DEF Epoch, TypeOK, Accounts
<1>3. TypeOK'
  BY <1>1, <1>2 DEF Epoch, TypeOK
<1>4. Held' /\ UNCHANGED <<unspent, job>>
  BY <1>1, <1>2 DEF Epoch, Held
<1> QED
  BY <1>3, <1>4, SameJobs

LEMMA StutterInv ==
  ASSUME IInv, UNCHANGED vars
  PROVE  IInv'
<1>1. TypeOK /\ Held
  BY Parts
<1>2. TypeOK'
  BY <1>1 DEF vars, TypeOK
<1>3. Held' /\ UNCHANGED <<unspent, job>>
  BY <1>1 DEF vars, Held
<1> QED
  BY <1>2, <1>3, SameJobs

LEMMA JobIs ==
  ASSUME NEW at, NEW id, NEW a, NEW reward, NEW ins, NEW locked, NEW r
  PROVE  LET j == Job(at, id, a, reward, ins, locked, r) IN
         /\ j.at = at /\ j.id = id /\ j.ask = a /\ j.reward = reward
         /\ j.inputs = ins /\ j.locked = locked /\ j.built = r
  BY DEF Job

LEMMA LedgerTyped ==
  ASSUME TypeOK
  PROVE  /\ IsFiniteSet(DOMAIN unspent) /\ \A c \in DOMAIN unspent : unspent[c] \in Outputs
         /\ taps \in Nat
         /\ \A c \in DOMAIN unspent : c \in (0 .. taps) \X Nat /\ c[1] \in 0 .. taps
  BY DEF TypeOK

\* The transaction of one screen changes, and no number is used twice.
LEMMA OneJob ==
  ASSUME IInv, NEW s \in Screens, NEW r, job' = [job EXCEPT ![s] = r],
         UNCHANGED <<unspent, account, info, slot>>, taps' \in Nat, taps <= taps',
         r.at \in {"idle", "tapped", "built", "failed"}, r.at # "idle" => r.ask \in Asks,
         r.id \in 0 .. taps', r.reward \in Nat,
         r.at = "built" => /\ DOMAIN Spent(r) \subseteq DOMAIN unspent
                           /\ r.ask.op # "unlock" => DOMAIN r.locked = {},
         r.at \in {"tapped", "built"} =>
            \/ r.id = job[s].id /\ job[s].at = "tapped"
            \/ r.id = taps + 1,
         Settled(r), r.at = "built" => FromLedger(r)
  PROVE  IInv'
<1>1. /\ TypeOK /\ Held
      /\ \A t \in Screens : /\ Fresh(t) /\ Settled(job[t])
                            /\ job[t].at = "built" => FromLedger(job[t])
  BY Parts
<1>2. /\ DOMAIN job' = Screens /\ job'[s] = r /\ \A t \in Screens : t # s => job'[t] = job[t]
  BY <1>1 DEF TypeOK
<1>3. /\ taps \in Nat /\ \A c \in DOMAIN unspent : c \in (0 .. taps) \X Nat /\ c[1] \in 0 .. taps
  BY <1>1, LedgerTyped
<1>4. (0 .. taps) \subseteq (0 .. taps') /\ (0 .. taps) \X Nat \subseteq (0 .. taps') \X Nat
  BY <1>3
<1>5. \A t \in Screens :
        /\ job[t].at \in {"idle", "tapped", "built", "failed"}
        /\ job[t].at # "idle" => job[t].ask \in Asks
        /\ job[t].id \in 0 .. taps /\ job[t].reward \in Nat
        /\ job[t].at = "built" =>
            /\ DOMAIN Spent(job[t]) \subseteq (0 .. taps) \X Nat
            /\ job[t].ask.op # "unlock" => DOMAIN job[t].locked = {}
  BY <1>1 DEF TypeOK
<1>6. \A t \in Screens :
        /\ job'[t].at \in {"idle", "tapped", "built", "failed"}
        /\ job'[t].at # "idle" => job'[t].ask \in Asks
        /\ job'[t].id \in 0 .. taps' /\ job'[t].reward \in Nat
        /\ job'[t].at = "built" =>
            /\ DOMAIN Spent(job'[t]) \subseteq (0 .. taps') \X Nat
            /\ job'[t].ask.op # "unlock" => DOMAIN job'[t].locked = {}
  <2> TAKE t \in Screens
  <2>1. CASE t = s
    <3>1. r.at = "built" => DOMAIN Spent(r) \subseteq (0 .. taps') \X Nat
      BY <1>3, <1>4
    <3> QED
      BY <1>2, <2>1, <3>1
  <2>2. CASE t # s
    <3>1. job[t].at = "built" => DOMAIN Spent(job[t]) \subseteq (0 .. taps') \X Nat
      BY <1>4, <1>5
    <3>2. job'[t] = job[t] /\ job[t].id \in 0 .. taps'
      BY <1>2, <1>4, <1>5, <2>2
    <3> QED
      BY <1>5, <3>1, <3>2
  <2> QED
    BY <2>1, <2>2
<1>7. TypeOK'
  <2>1. /\ unspent' \in [DOMAIN unspent' -> Outputs] /\ IsFiniteSet(DOMAIN unspent')
        /\ account' \in Accounts /\ info' \in [Screens -> Accounts] /\ slot' \in Nat /\ taps' \in Nat
    BY <1>1 DEF TypeOK
  <2>2. DOMAIN unspent' \subseteq (0 .. taps') \X Nat
    BY <1>3, <1>4
  <2> QED
    BY <1>2, <1>6, <2>1, <2>2 DEF TypeOK
<1>8. Held'
  BY <1>1 DEF Held
<1>9. \A c \in DOMAIN unspent : c[1] # taps + 1
  BY <1>3
<1>10. \A t \in Screens : job[t].id # taps + 1
  BY <1>3, <1>5
<1>11. \A t \in Screens : job[t].at = "built" => \A c \in DOMAIN Spent(job[t]) : c[1] # taps + 1
  <2> TAKE t \in Screens
  <2>1. ASSUME job[t].at = "built", NEW c \in DOMAIN Spent(job[t]) PROVE c[1] # taps + 1
    <3>1. c \in (0 .. taps) \X Nat
      BY <1>5, <2>1
    <3>2. c[1] \in 0 .. taps
      BY <3>1
    <3> QED
      BY <1>3, <3>2
  <2> QED
    BY <2>1
<1>12. \A t \in Screens : job[t].at \in {"tapped", "built"} =>
         /\ \A c \in DOMAIN unspent : c[1] # job[t].id
         /\ \A x \in Screens : x # t =>
              /\ job[x].at \in {"tapped", "built"} => job[x].id # job[t].id
              /\ job[x].at = "built" => \A c \in DOMAIN Spent(job[x]) : c[1] # job[t].id
  BY <1>1 DEF Fresh
<1>13. \A t \in Screens : job'[t].at \in {"tapped", "built"} =>
         /\ \A c \in DOMAIN unspent' : c[1] # job'[t].id
         /\ \A x \in Screens : x # t =>
              /\ job'[x].at \in {"tapped", "built"} => job'[x].id # job'[t].id
              /\ job'[x].at = "built" => \A c \in DOMAIN Spent(job'[x]) : c[1] # job'[t].id
  <2> SUFFICES ASSUME NEW t \in Screens, job'[t].at \in {"tapped", "built"}
               PROVE  /\ \A c \in DOMAIN unspent' : c[1] # job'[t].id
                      /\ \A x \in Screens : x # t =>
                           /\ job'[x].at \in {"tapped", "built"} => job'[x].id # job'[t].id
                           /\ job'[x].at = "built" => \A c \in DOMAIN Spent(job'[x]) : c[1] # job'[t].id
    OBVIOUS
  <2>1. CASE t = s
    <3>1. job'[t] = r /\ \A x \in Screens : x # t => job'[x] = job[x]
      BY <1>2, <2>1
    <3>2. CASE r.id = job[s].id /\ job[s].at = "tapped"
      BY <1>12, <2>1, <3>1, <3>2
    <3>3. CASE r.id = taps + 1
      BY <1>9, <1>10, <1>11, <2>1, <3>1, <3>3
    <3> QED
      BY <3>1, <3>2, <3>3
  <2>2. CASE t # s
    <3>1. job'[t] = job[t] /\ job'[s] = r /\ \A x \in Screens : x # s => job'[x] = job[x]
      BY <1>2, <2>2
    <3>2. \A c \in DOMAIN unspent : c[1] # job[t].id
      BY <1>12, <3>1
    <3>3. ASSUME NEW x \in Screens, x # t
          PROVE  /\ job'[x].at \in {"tapped", "built"} => job'[x].id # job'[t].id
                 /\ job'[x].at = "built" => \A c \in DOMAIN Spent(job'[x]) : c[1] # job'[t].id
      <4>1. CASE x = s
        <5>1. r.at \in {"tapped", "built"} => r.id # job[t].id
          BY <1>10, <1>12, <2>2, <3>1
        <5>2. r.at = "built" => \A c \in DOMAIN Spent(r) : c[1] # job[t].id
          BY <3>2
        <5> QED
          BY <3>1, <4>1, <5>1, <5>2
      <4>2. CASE x # s
        BY <1>12, <3>1, <3>3, <4>2
      <4> QED
        BY <4>1, <4>2
    <3> QED
      BY <3>1, <3>2, <3>3
  <2> QED
    BY <2>1, <2>2
<1>14. \A t \in Screens : Fresh(t)'
  BY <1>13 DEF Fresh
<1>15. \A t \in Screens : Settled(job'[t]) /\ (job'[t].at = "built" => FromLedger(job[t])')
  <2> TAKE t \in Screens
  <2>1. FromLedger(job[t])' <=> FromLedger(job'[t])
    BY DEF FromLedger
  <2> QED
    BY <1>1, <1>2, <2>1
<1> QED
  BY <1>7, <1>8, <1>14, <1>15, PartsNext

LEMMA TapInv ==
  ASSUME IInv, NEW s \in Screens, Tap(s)
  PROVE  IInv'
<1>1. PICK a \in Asks :
        job' = [job EXCEPT ![s] = Job("tapped", taps + 1, a, info[s].rewards, <<>>, <<>>, Failed("None"))]
  BY DEF Tap
<1> DEFINE r == Job("tapped", taps + 1, a, info[s].rewards, <<>>, <<>>, Failed("None"))
<1>2. TypeOK /\ taps \in Nat /\ info[s].rewards \in Nat
  BY Parts DEF TypeOK, Accounts
<1>3. r.at = "tapped" /\ r.id = taps + 1 /\ r.ask = a /\ r.reward = info[s].rewards
  BY JobIs
<1>4. job' = [job EXCEPT ![s] = r]
  BY <1>1
<1> HIDE DEF r
<1>5. taps' = taps + 1 /\ UNCHANGED <<unspent, account, info, slot>>
  BY DEF Tap
<1>6. taps' \in Nat /\ taps <= taps' /\ r.id \in 0 .. taps'
  BY <1>2, <1>3, <1>5
<1>7. Settled(r)
  BY <1>3 DEF Settled
<1> QED
  BY <1>2, <1>3, <1>4, <1>5, <1>6, <1>7, OneJob

\* What the selected outputs are to the transaction that spends them.
LEMMA ReadyToBuild ==
  ASSUME IInv, NEW s \in Screens, job[s].at = "tapped", NEW C \in Selections(job[s].ask), NEW r,
         r.ask = job[s].ask, r.reward = job[s].reward, r.inputs = TxInputs(C),
         r.locked = TxInputs(IF job[s].ask.op = "unlock" THEN Owned("script") ELSE {})
  PROVE  /\ Ready(r) /\ FromLedger(r) /\ DOMAIN Spent(r) \subseteq DOMAIN unspent
         /\ r.ask.op # "unlock" => DOMAIN r.locked = {}
         /\ r.ask.op = "unlock" /\ PureAda = {} => \A c \in DOMAIN r.inputs : r.inputs[c].assets # {}
<1> DEFINE a == job[s].ask
           L == IF a.op = "unlock" THEN Owned("script") ELSE {}
<1>1. TypeOK
  BY Parts
<1>2. a \in Asks /\ job[s].reward \in Nat
  BY <1>1 DEF TypeOK
<1>3. a \in Requests
  BY <1>2, TxFlowAssumption
<1>4. /\ IsFiniteSet(DOMAIN unspent) /\ \A c \in DOMAIN unspent : unspent[c] \in Outputs
  BY <1>1, LedgerTyped
<1>5. C \subseteq Owned("key") /\ (a.op = "unlock" => C = Owned("key"))
  BY Zenon DEF Selections, PureAda
<1>6. /\ Owned("key") \subseteq DOMAIN unspent /\ Owned("script") \subseteq DOMAIN unspent
      /\ \A c \in Owned("key") : unspent[c].owner = "key"
      /\ \A c \in Owned("script") : unspent[c].owner = "script"
  BY DEF Owned
<1>7. L \subseteq DOMAIN unspent /\ (\A c \in L : unspent[c].owner = "script") /\ (a.op # "unlock" => L = {})
  BY <1>6
<1>8. C \subseteq DOMAIN unspent /\ \A c \in C : unspent[c].owner = "key"
  BY <1>5, <1>6
<1> HIDE DEF L
<1>9. r.locked = TxInputs(L) /\ r.inputs = TxInputs(C)
  BY DEF L
<1>10. Stock(TxInputs(C)) /\ DOMAIN TxInputs(C) = C /\ \A c \in C : TxInputs(C)[c] = ToTxInput(unspent[c])
  BY <1>4, <1>8, InputsStock
<1>11. DOMAIN TxInputs(L) = L
  BY <1>4, <1>7, InputsStock
<1>12. /\ Stock(TxInputs(C \cup L)) /\ DOMAIN TxInputs(C \cup L) = C \cup L
       /\ \A c \in C \cup L : TxInputs(C \cup L)[c] = ToTxInput(unspent[c])
  <2>1. C \cup L \subseteq DOMAIN unspent
    BY <1>7, <1>8
  <2> QED
    BY <1>4, <2>1, InputsStock
<1>13. Spent(r) = TxInputs(C \cup L)
  BY <1>9, SpentIs
<1>14. Ready(r)
  <2>1. DOMAIN Spent(r) = DOMAIN r.inputs \cup DOMAIN r.locked
    BY <1>9, <1>10, <1>11, <1>12, <1>13
  <2>2. \A c \in DOMAIN r.inputs : Spent(r)[c] = r.inputs[c]
    BY <1>9, <1>10, <1>12, <1>13
  <2>3. r.ask.op # "unlock" => Spent(r) = r.inputs
    <3>1. a.op # "unlock" => C \cup L = C
      BY <1>7
    <3> QED
      BY <1>9, <1>13, <3>1
  <2>4. r.ask \in Requests /\ r.reward \in Nat /\ Stock(r.inputs) /\ Stock(Spent(r))
    BY <1>2, <1>3, <1>9, <1>10, <1>12, <1>13
  <2> QED
    BY <2>1, <2>2, <2>3, <2>4 DEF Ready
<1>15. FromLedger(r)
  <2> SUFFICES ASSUME NEW c \in DOMAIN Spent(r) \cap DOMAIN unspent
               PROVE  /\ unspent[c].owner = (IF c \in DOMAIN r.locked THEN "script" ELSE "key")
                      /\ WireUtxoToCborHex(<<Spent(r)[c]>>) =
                           Ok([coin |-> unspent[c].coin, tokens |-> unspent[c].tokens])
    BY DEF FromLedger
  <2>1. c \in C \cup L /\ Spent(r)[c] = ToTxInput(unspent[c]) /\ unspent[c] \in Outputs
    BY <1>4, <1>12, <1>13
  <2>2. unspent[c].owner = (IF c \in DOMAIN r.locked THEN "script" ELSE "key")
    BY <1>7, <1>8, <1>9, <1>11, <2>1
  <2> DEFINE u == unspent[c]
             v == ToTxInput(u)
  <2>3. ValueToCsl(v) = [coin |-> u.coin, tokens |-> u.tokens] /\ v.assets \in SUBSET Listed(Names)
    BY <2>1, RoundTrip
  <2>4. ValueCheck(v) = "None"
    <3> HIDE DEF v
    <3> QED
      BY <2>3, NoLongName
  <2>5. WireUtxoToCborHex(<<v>>) = UtxoToCborHex(v)
    BY DEF WireUtxoToCborHex
  <2>6. UtxoToCborHex(v) = Ok([coin |-> u.coin, tokens |-> u.tokens])
    <3> HIDE DEF v
    <3> QED
      BY <2>3, <2>4 DEF UtxoToCborHex, Unless
  <2> QED
    BY <2>1, <2>2, <2>5, <2>6
<1>16. ASSUME a.op = "unlock", PureAda = {}, NEW c \in DOMAIN r.inputs
       PROVE  r.inputs[c].assets # {}
  <2>1. c \in C /\ r.inputs[c] = ToTxInput(unspent[c]) /\ c \in DOMAIN unspent
    BY <1>8, <1>9, <1>10, <1>16
  <2>2. HasTokens(unspent[c].tokens)
    BY <1>5, <1>16, <2>1 DEF PureAda
  <2> DEFINE t == unspent[c].tokens
  <2>3. t \in Tokens
    BY <1>4, <2>1 DEF Outputs, Tokens
  <2>4. PICK p \in Policies, n \in Names : t[p][n] # 0
    BY <2>2 DEF HasTokens
  <2>5. <<p, n>> \in Policies \X Names /\ <<p, n>>[1] = p /\ <<p, n>>[2] = n
    OBVIOUS
  <2> HIDE DEF t
  <2>6. AssetAt(t, <<p, n>>) \in AssetsOf(t)
    BY <2>3, <2>4, <2>5, AssetsAre
  <2>7. ToTxInput(unspent[c]).assets = AssetsOf(t)
    BY DEF ToTxInput, t
  <2> QED
    BY <2>1, <2>6, <2>7
<1>17. r.ask.op # "unlock" => DOMAIN r.locked = {}
  BY <1>7, <1>9, <1>11
<1>18. DOMAIN Spent(r) \subseteq DOMAIN unspent
  BY <1>7, <1>8, <1>12, <1>13
<1> QED
  BY <1>14, <1>15, <1>16, <1>17, <1>18

LEMMA BuildInv ==
  ASSUME IInv, NEW s \in Screens, Build(s)
  PROVE  IInv'
<1> DEFINE j == job[s]
           locked == TxInputs(IF j.ask.op = "unlock" THEN Owned("script") ELSE {})
           result(C) == Call(j.ask, TxInputs(C), locked, PureAda, j.reward)
           next(C) == Job(IF result(C).err = "None" THEN "built" ELSE "failed", j.id, j.ask,
                          j.reward, TxInputs(C), locked, result(C))
<1>1. /\ j.at = "tapped" /\ UNCHANGED <<unspent, account, slot, info, taps>>
      /\ \E C \in Selections(j.ask) : job' = [job EXCEPT ![s] = next(C)]
  BY Zenon DEF Build
<1>2. PICK C \in Selections(j.ask) : job' = [job EXCEPT ![s] = next(C)]
  BY <1>1
<1>3. TypeOK
  BY Parts
<1>4. /\ taps \in Nat /\ j.id \in 0 .. taps /\ j.reward \in Nat /\ j.ask \in Asks
  BY <1>1, <1>3 DEF TypeOK
<1> DEFINE res == result(C)
           at == IF res.err = "None" THEN "built" ELSE "failed"
           r == Job(at, j.id, j.ask, j.reward, TxInputs(C), locked, res)
<1>5. job' = [job EXCEPT ![s] = r]
  BY <1>2
<1>6. /\ r.at = at /\ r.id = j.id /\ r.ask = j.ask /\ r.reward = j.reward
      /\ r.inputs = TxInputs(C) /\ r.locked = locked /\ r.built = res
  <2> HIDE DEF at, res, locked, j
  <2> QED
    BY JobIs
<1>7. at \in {"built", "failed"} /\ (at = "built" <=> res.err = "None")
  <2> HIDE DEF res
  <2> QED
    OBVIOUS
<1>8. r.built = Call(r.ask, r.inputs, r.locked, PureAda, r.reward)
  <2>1. res = Call(j.ask, TxInputs(C), locked, PureAda, j.reward)
    OBVIOUS
  <2> HIDE DEF res, r, locked
  <2> QED
    BY <1>6, <2>1
<1> HIDE DEF at, res, r
<1>9. /\ Ready(r) /\ FromLedger(r) /\ DOMAIN Spent(r) \subseteq DOMAIN unspent
      /\ r.ask.op # "unlock" => DOMAIN r.locked = {}
      /\ r.ask.op = "unlock" /\ PureAda = {} => \A c \in DOMAIN r.inputs : r.inputs[c].assets # {}
  <2>1. /\ r.ask = job[s].ask /\ r.reward = job[s].reward /\ r.inputs = TxInputs(C)
        /\ r.locked = TxInputs(IF job[s].ask.op = "unlock" THEN Owned("script") ELSE {})
    BY <1>6
  <2>2. job[s].at = "tapped" /\ C \in Selections(job[s].ask)
    BY <1>1, <1>2
  <2> HIDE DEF j, locked
  <2> QED
    BY <2>1, <2>2, ReadyToBuild
<1>10. Outcome(r)
  BY <1>8, <1>9, CallOutcome
<1>11. Settled(r)
  BY <1>6, <1>7, <1>10 DEF Settled, Outcome
<1> HIDE DEF j
<1>12. taps' \in Nat /\ taps <= taps' /\ r.id \in 0 .. taps' /\ r.reward \in Nat /\ r.ask \in Asks
  BY <1>1, <1>4, <1>6
<1>13. r.at \in {"idle", "tapped", "built", "failed"}
  BY <1>6, <1>7
<1>14. r.id = job[s].id /\ job[s].at = "tapped"
  BY <1>1, <1>6 DEF j
<1>15. UNCHANGED <<unspent, account, info, slot>>
  BY <1>1
<1> QED
  BY <1>5, <1>9, <1>11, <1>12, <1>13, <1>14, <1>15, OneJob

(***************************************************************************)
(* What the ledger does with a transaction.                                *)
(***************************************************************************)

\* The outputs of a transaction that go back to the wallet.
Back(tx) == {i \in DOMAIN tx.outputs : tx.outputs[i].address = "mine"}

Outpoints(id, D) == {<<id, i>> : i \in D}

Added(id, tx) == Outpoints(id, Back(tx))

LEMMA BodyTyped ==
  ASSUME IInv, NEW s \in Screens, job[s].at = "built"
  PROVE  LET tx == job[s].built.body IN
         /\ AsAsked(job[s]) /\ tx.inputs = DOMAIN Spent(job[s])
         /\ tx.outputs \in Seq(CslOutputs) /\ tx.withdrawal \in Nat /\ tx.fee \in Nat
         /\ IsFiniteSet(DOMAIN tx.outputs) /\ IsFiniteSet(Back(tx)) /\ Back(tx) \subseteq Nat
         /\ \A i \in DOMAIN tx.outputs : tx.outputs[i] \in CslOutputs
<1> DEFINE tx == job[s].built.body
<1>1. AsAsked(job[s])
  BY Parts DEF Settled
<1>2. /\ tx.inputs = DOMAIN Spent(job[s])
      /\ tx.outputs \in Seq(CslOutputs) /\ tx.withdrawal \in Nat /\ tx.fee \in Nat
  BY <1>1, Zenon DEF AsAsked
<1> HIDE DEF tx
<1>3. DOMAIN tx.outputs = 1 .. Len(tx.outputs) /\ Len(tx.outputs) \in Nat
  BY <1>2
<1>4. IsFiniteSet(DOMAIN tx.outputs)
  <2>1. 1 \in Int /\ Len(tx.outputs) \in Int
    BY <1>3
  <2> QED
    BY <1>3, <2>1, FS_Interval
<1>5. Back(tx) \subseteq DOMAIN tx.outputs
  BY DEF Back
<1>6. IsFiniteSet(Back(tx)) /\ Back(tx) \subseteq Nat
  BY <1>3, <1>4, <1>5, FS_Subset
<1>7. \A i \in DOMAIN tx.outputs : tx.outputs[i] \in CslOutputs
  BY <1>2
<1> QED
  BY <1>1, <1>2, <1>4, <1>6, <1>7 DEF tx

\* The inputs are gone and the outputs are there.
Replaced(tx, id) ==
  /\ DOMAIN unspent' = (DOMAIN unspent \ tx.inputs) \cup Added(id, tx)
  /\ unspent' = [c \in DOMAIN unspent' |-> unspent'[c]]
  /\ \A c \in DOMAIN unspent \ tx.inputs : unspent'[c] = unspent[c]
  /\ \A i \in Back(tx) : /\ <<id, i>> \notin DOMAIN unspent /\ unspent'[<<id, i>>] \in Outputs
                         /\ unspent'[<<id, i>>].owner = "key"
                         /\ unspent'[<<id, i>>].coin = tx.outputs[i].coin
                         /\ unspent'[<<id, i>>].tokens = tx.outputs[i].tokens

LEMMA Applied ==
  ASSUME IInv, NEW s \in Screens, job[s].at = "built", NEW tx, tx = job[s].built.body,
         NEW id, id = job[s].id, Timely(tx), Apply(tx, id)
  PROVE  Replaced(tx, id)
<1> DEFINE kept == {c \in DOMAIN unspent : c \notin tx.inputs}
           mine == {<<id, i>> : i \in Back(tx)}
           new(c) == [owner |-> "key", coin |-> tx.outputs[c[2]].coin, tokens |-> tx.outputs[c[2]].tokens]
<1>1. unspent' = [c \in kept \cup mine |-> IF c \in kept THEN unspent[c] ELSE new(c)]
  BY Zenon DEF Apply, Back
<1>2. \A c \in DOMAIN unspent : c[1] # id
  BY Parts DEF Fresh
<1>3. \A i \in Back(tx) : /\ <<id, i>> \in mine /\ <<id, i>>[1] = id /\ <<id, i>>[2] = i
  OBVIOUS
<1>4. \A i \in Back(tx) : <<id, i>> \notin DOMAIN unspent /\ <<id, i>> \notin kept
  BY <1>2, <1>3
<1>5. \A i \in Back(tx) : i \in DOMAIN tx.outputs /\ tx.outputs[i] \in CslOutputs
  BY BodyTyped DEF Back
<1>6. /\ DOMAIN unspent' = kept \cup mine
      /\ \A c \in kept \cup mine : unspent'[c] = IF c \in kept THEN unspent[c] ELSE new(c)
      /\ unspent' = [c \in DOMAIN unspent' |-> unspent'[c]]
  <2> HIDE DEF kept, mine, new
  <2> QED
    BY <1>1
<1>7. ASSUME NEW i \in Back(tx)
      PROVE  /\ unspent'[<<id, i>>] \in Outputs
             /\ unspent'[<<id, i>>].owner = "key"
             /\ unspent'[<<id, i>>].coin = tx.outputs[i].coin
             /\ unspent'[<<id, i>>].tokens = tx.outputs[i].tokens
  <2>1. unspent'[<<id, i>>] = new(<<id, i>>)
    <3>1. <<id, i>> \in kept \cup mine /\ <<id, i>> \notin kept
      BY <1>3, <1>4
    <3> HIDE DEF kept, mine, new
    <3> QED
      BY <1>6, <3>1
  <2> DEFINE o == tx.outputs[i]
  <2>2. new(<<id, i>>) = [owner |-> "key", coin |-> o.coin, tokens |-> o.tokens]
    BY <1>3
  <2>3. o.coin \in Nat /\ o.tokens \in [Policies -> [Names -> Nat]]
    BY <1>5 DEF CslOutputs
  <2> HIDE DEF o, new
  <2>4. [owner |-> "key", coin |-> o.coin, tokens |-> o.tokens] \in Outputs
    BY <2>3 DEF Outputs
  <2> QED
    BY <2>1, <2>2, <2>4 DEF o
<1>8. kept = DOMAIN unspent \ tx.inputs
  OBVIOUS
<1> HIDE DEF mine, kept, new
<1>9. \A c \in kept : unspent'[c] = unspent[c]
  BY <1>6
<1> QED
  BY <1>4, <1>6, <1>7, <1>8, <1>9 DEF mine, Added, Outpoints, Replaced

\* The deposit and the rewards.
LEMMA AccountMoves ==
  ASSUME IInv, NEW s \in Screens, job[s].at = "built", NEW tx, tx = job[s].built.body,
         Timely(tx), NEW id, Apply(tx, id)
  PROVE  LET dc == job[s].built.deposit_change IN
         /\ account' \in Accounts /\ Held' /\ dc \in Int
         /\ account'.deposit = account.deposit - dc
         /\ account'.rewards = account.rewards - tx.withdrawal
<1> DEFINE registered == CASE tx.cert = "register" -> TRUE
                           [] tx.cert = "deregister" -> FALSE
                           [] OTHER -> account.registered
           delegated == CASE tx.cert = "delegate" -> TRUE
                          [] tx.cert = "deregister" -> FALSE
                          [] OTHER -> account.delegated
           deposit == CASE tx.cert = "register" -> KeyDeposit
                        [] tx.cert = "deregister" -> 0
                        [] OTHER -> account.deposit
           rewards == account.rewards - tx.withdrawal
           dc == job[s].built.deposit_change
<1>1. account' = [registered |-> registered, delegated |-> delegated, deposit |-> deposit,
                  rewards |-> rewards]
  BY Zenon DEF Apply
<1>2. account \in Accounts /\ Held
  BY Parts DEF TypeOK
<1>3. /\ account.registered \in BOOLEAN /\ account.delegated \in BOOLEAN /\ account.deposit \in Nat
      /\ account.rewards \in Nat
  BY <1>2 DEF Accounts
<1>4. tx.withdrawal \in Nat /\ AsAsked(job[s])
  BY BodyTyped
<1>5. account.deposit = IF account.registered THEN KeyDeposit ELSE 0
  BY <1>2 DEF Held
<1>6. rewards \in Nat
  <2>1. tx.withdrawal # 0 => tx.withdrawal = account.rewards
    BY Zenon DEF Timely
  <2> QED
    BY <1>3, <1>4, <2>1
<1>7. dc = (IF tx.cert = "deregister" THEN KeyDeposit ELSE 0) - (IF tx.cert = "register" THEN KeyDeposit ELSE 0)
  BY <1>4, Zenon DEF AsAsked
<1>8. /\ tx.cert = "register" => ~account.registered
      /\ tx.cert = "deregister" => account.registered
  BY DEF Timely
<1> DEFINE cert == tx.cert
<1> HIDE DEF dc, cert
<1>9. /\ cert = "register" => registered /\ deposit = KeyDeposit
      /\ cert = "deregister" => ~registered /\ deposit = 0
      /\ cert # "register" /\ cert # "deregister" => registered = account.registered /\ deposit = account.deposit
  BY <1>3 DEF cert
<1>10. registered \in BOOLEAN /\ delegated \in BOOLEAN
  BY <1>3
<1>11. "register" # "deregister"
  OBVIOUS
<1> HIDE DEF registered, delegated, deposit, rewards
<1>12. /\ cert = "register" => dc = 0 - KeyDeposit
       /\ cert = "deregister" => dc = KeyDeposit
       /\ cert # "register" /\ cert # "deregister" => dc = 0
  BY <1>7, <1>11, Parameters DEF cert
<1>13. /\ cert = "register" => ~account.registered
       /\ cert = "deregister" => account.registered
  BY <1>8 DEF cert
<1>14. deposit \in Nat /\ dc \in Int /\ deposit = account.deposit - dc
  BY <1>3, <1>5, <1>9, <1>12, <1>13, Parameters
<1>15. deposit = IF registered THEN KeyDeposit ELSE 0
  BY <1>5, <1>9
<1>16. /\ account'.registered = registered /\ account'.deposit = deposit /\ account'.rewards = rewards
  BY <1>1
<1>17. account' \in Accounts
  BY <1>1, <1>6, <1>10, <1>14 DEF Accounts
<1>18. Held'
  BY <1>15, <1>16 DEF Held
<1> QED
  BY <1>14, <1>16, <1>17, <1>18 DEF dc, rewards

LEMMA NewOutpoints ==
  ASSUME NEW D, IsFiniteSet(D), NEW id
  PROVE  IsFiniteSet(Outpoints(id, D))
<1> DEFINE T == {<<id, i>> : i \in D}
           f == [i \in D |-> <<id, i>>]
<1>1. f \in Surjection(D, T)
  <2>1. f \in [D -> T] /\ \A t \in T : \E i \in D : f[i] = t
    OBVIOUS
  <2> QED
    BY <2>1 DEF Surjection
<1> HIDE DEF f, T
<1>2. IsFiniteSet(T)
  BY <1>1, FS_Surjection
<1> QED
  BY <1>2 DEF T, Outpoints

LEMMA SubmitInv ==
  ASSUME IInv, NEW s \in Screens, Submit(s)
  PROVE  IInv'
<1> DEFINE r == job[s].built
           tx == r.body
           id == job[s].id
<1>1. /\ job[s].at = "built" /\ job' = [job EXCEPT ![s] = NoJob] /\ UNCHANGED <<slot, info, taps>>
      /\ \/ Valid(tx, r.witness_set) /\ Apply(tx, id)
         \/ UNCHANGED <<unspent, account>>
  BY Zenon DEF Submit
<1>2. /\ TypeOK /\ Held
      /\ \A t \in Screens : /\ Fresh(t) /\ Settled(job[t])
                            /\ job[t].at = "built" => FromLedger(job[t])
  BY Parts
<1>3. /\ DOMAIN job' = Screens /\ job'[s] = NoJob /\ \A t \in Screens : t # s => job'[t] = job[t]
  BY <1>1, <1>2 DEF TypeOK
<1>4. taps \in Nat /\ taps' = taps /\ 0 \in 0 .. taps
  BY <1>1, <1>2 DEF TypeOK
<1>5. CASE UNCHANGED <<unspent, account>>
  <2>1. NoJob.at \in {"idle", "tapped", "built", "failed"} /\ NoJob.id \in 0 .. taps' /\ NoJob.reward \in Nat
    BY <1>4, NoJobIs
  <2>2. NoJob.at # "built" /\ NoJob.at # "tapped" /\ ~(NoJob.at # "idle") /\ Settled(NoJob)
    BY NoJobIs
  <2>3. UNCHANGED <<unspent, account, info, slot>> /\ taps' \in Nat /\ taps <= taps'
    BY <1>1, <1>4, <1>5
  <2> HIDE DEF r, tx, id
  <2> QED
    BY <1>1, <2>1, <2>2, <2>3, OneJob
<1>6. CASE Valid(tx, r.witness_set) /\ Apply(tx, id)
  <2>1. Timely(tx)
    BY <1>6 DEF Valid
  <2> DEFINE kept == DOMAIN unspent \ tx.inputs
             mine == Added(id, tx)
  <2>2. /\ DOMAIN unspent' = kept \cup mine
        /\ unspent' = [c \in DOMAIN unspent' |-> unspent'[c]]
        /\ \A c \in kept : unspent'[c] = unspent[c]
        /\ \A i \in Back(tx) : <<id, i>> \notin DOMAIN unspent /\ unspent'[<<id, i>>] \in Outputs
    <3>1. Replaced(tx, id)
      BY <1>1, <1>6, <2>1, Applied
    <3> HIDE DEF tx, id
    <3> QED
      BY <3>1 DEF Replaced
  <2>3. account' \in Accounts /\ Held'
    BY <1>1, <1>6, <2>1, AccountMoves
  <2>4. /\ IsFiniteSet(Back(tx)) /\ Back(tx) \subseteq Nat
    BY <1>1, BodyTyped
  <2>5. IsFiniteSet(DOMAIN unspent')
    <3>1. IsFiniteSet(mine)
      BY <2>4, NewOutpoints DEF Added
    <3>2. IsFiniteSet(kept)
      BY <1>2, LedgerTyped, FS_Subset
    <3> HIDE DEF kept, mine
    <3> QED
      BY <2>2, <3>1, <3>2, FS_Union
  <2>6. \A c \in DOMAIN unspent' : c \in kept \/ \E i \in Back(tx) : c = <<id, i>>
    BY <2>2 DEF Added, Outpoints
  <2>7. id \in 0 .. taps
    BY <1>2 DEF TypeOK
  <2>8. \A c \in mine : c \notin DOMAIN unspent /\ c[1] = id
    BY <2>2 DEF Added, Outpoints
  <2>9. DOMAIN unspent' \subseteq (0 .. taps) \X Nat
    <3>1. \A c \in DOMAIN unspent : c \in (0 .. taps) \X Nat
      BY <1>2, LedgerTyped
    <3>2. \A i \in Back(tx) : <<id, i>> \in (0 .. taps) \X Nat
      BY <2>4, <2>7
    <3> HIDE DEF tx, id
    <3> QED
      BY <2>6, <3>1, <3>2
  <2>10. unspent' \in [DOMAIN unspent' -> Outputs]
    <3>1. \A c \in DOMAIN unspent : unspent[c] \in Outputs
      BY <1>2, LedgerTyped
    <3>2. \A c \in DOMAIN unspent' : unspent'[c] \in Outputs
      BY <2>2, <2>6, <3>1
    <3> HIDE DEF kept, mine, tx, id
    <3> QED
      BY <2>2, <3>2
  <2> HIDE DEF kept, mine, tx, id, r
  <2>11. \A t \in Screens :
          /\ job'[t].at \in {"idle", "tapped", "built", "failed"}
          /\ job'[t].at # "idle" => job'[t].ask \in Asks
          /\ job'[t].id \in 0 .. taps' /\ job'[t].reward \in Nat
          /\ job'[t].at = "built" =>
              /\ DOMAIN Spent(job'[t]) \subseteq (0 .. taps') \X Nat
              /\ job'[t].ask.op # "unlock" => DOMAIN job'[t].locked = {}
    <3> TAKE t \in Screens
    <3>1. CASE t = s
      BY <1>3, <1>4, <3>1, NoJobIs
    <3>2. CASE t # s
      BY <1>2, <1>3, <1>4, <3>2 DEF TypeOK
    <3> QED
      BY <3>1, <3>2
  <2>12. TypeOK'
    <3>1. info' \in [Screens -> Accounts] /\ slot' \in Nat /\ taps' \in Nat
      BY <1>1, <1>2 DEF TypeOK
    <3> QED
      BY <1>3, <1>4, <2>3, <2>5, <2>9, <2>10, <2>11, <3>1 DEF TypeOK
  <2>13. \A t \in Screens : job[t].at \in {"tapped", "built"} =>
           /\ \A c \in DOMAIN unspent : c[1] # job[t].id
           /\ \A x \in Screens : x # t =>
                /\ job[x].at \in {"tapped", "built"} => job[x].id # job[t].id
                /\ job[x].at = "built" => \A c \in DOMAIN Spent(job[x]) : c[1] # job[t].id
    BY <1>2 DEF Fresh
  <2>14. \A t \in Screens : Fresh(t)'
    <3> SUFFICES ASSUME NEW t \in Screens, job'[t].at \in {"tapped", "built"}
                 PROVE  /\ \A c \in DOMAIN unspent' : c[1] # job'[t].id
                        /\ \A x \in Screens : x # t =>
                             /\ job'[x].at \in {"tapped", "built"} => job'[x].id # job'[t].id
                             /\ job'[x].at = "built" => \A c \in DOMAIN Spent(job'[x]) : c[1] # job'[t].id
      BY DEF Fresh
    <3>1. t # s /\ job'[t] = job[t]
      BY <1>3, NoJobIs
    <3>2. id # job[t].id
      BY <1>1, <2>13, <3>1 DEF id
    <3>3. \A c \in DOMAIN unspent' : c[1] # job[t].id
      <4> TAKE c \in DOMAIN unspent'
      <4>1. CASE c \in kept
        <5>1. c \in DOMAIN unspent
          BY <4>1 DEF kept
        <5> QED
          BY <2>13, <3>1, <5>1
      <4>2. CASE c \in mine
        BY <2>8, <3>2, <4>2
      <4> QED
        BY <2>2, <4>1, <4>2
    <3>4. ASSUME NEW x \in Screens, x # t
          PROVE  /\ job'[x].at \in {"tapped", "built"} => job'[x].id # job'[t].id
                 /\ job'[x].at = "built" => \A c \in DOMAIN Spent(job'[x]) : c[1] # job'[t].id
      <4>1. CASE x = s
        BY <1>3, <4>1, NoJobIs
      <4>2. CASE x # s
        BY <1>3, <2>13, <3>1, <3>4, <4>2
      <4> QED
        BY <4>1, <4>2
    <3> QED
      BY <3>1, <3>3, <3>4
  <2>15. \A t \in Screens : job'[t].at = "built" => FromLedger(job[t])'
    <3> SUFFICES ASSUME NEW t \in Screens, job'[t].at = "built" PROVE FromLedger(job[t])'
      OBVIOUS
    <3>1. t # s /\ job'[t] = job[t]
      BY <1>3, NoJobIs
    <3>2. FromLedger(job[t])
      BY <1>2, <3>1
    <3> SUFFICES ASSUME NEW c \in DOMAIN Spent(job[t]) \cap DOMAIN unspent'
                 PROVE  /\ unspent'[c].owner = (IF c \in DOMAIN job[t].locked THEN "script" ELSE "key")
                        /\ WireUtxoToCborHex(<<Spent(job[t])[c]>>) =
                             Ok([coin |-> unspent'[c].coin, tokens |-> unspent'[c].tokens])
      BY <3>1 DEF FromLedger
    <3>3. c[1] # id
      BY <1>1, <2>13, <3>1 DEF id
    <3>4. c \in kept
      BY <2>2, <2>8, <3>3
    <3>5. c \in DOMAIN unspent /\ unspent'[c] = unspent[c]
      BY <2>2, <3>4 DEF kept
    <3>6. /\ unspent[c].owner = (IF c \in DOMAIN job[t].locked THEN "script" ELSE "key")
          /\ WireUtxoToCborHex(<<Spent(job[t])[c]>>) =
               Ok([coin |-> unspent[c].coin, tokens |-> unspent[c].tokens])
      BY <3>2, <3>5 DEF FromLedger
    <3> QED
      BY <3>5, <3>6
  <2>16. \A t \in Screens : Settled(job'[t])
    BY <1>2, <1>3, NoJobIs
  <2> QED
    BY <2>3, <2>12, <2>14, <2>15, <2>16, PartsNext
<1> QED
  BY <1>1, <1>5, <1>6

(***************************************************************************)
(* The theorems.                                                           *)
(***************************************************************************)

LEMMA NextInv ==
  ASSUME IInv, [Next]_vars
  PROVE  IInv'
<1>1. CASE Epoch
  BY <1>1, EpochInv
<1>2. CASE Tick
  BY <1>2, TickInv
<1>3. ASSUME NEW s \in Screens, Load(s) PROVE IInv'
  BY <1>3, LoadInv
<1>4. ASSUME NEW s \in Screens, Tap(s) PROVE IInv'
  BY <1>4, TapInv
<1>5. ASSUME NEW s \in Screens, Build(s) PROVE IInv'
  BY <1>5, BuildInv
<1>6. ASSUME NEW s \in Screens, Submit(s) PROVE IInv'
  BY <1>6, SubmitInv
<1>7. CASE UNCHANGED vars
  BY <1>7, StutterInv
<1> QED
  BY <1>1, <1>2, <1>3, <1>4, <1>5, <1>6, <1>7, Zenon DEF Next

LEMMA Inductive == Spec => []IInv
<1>1. Init => IInv
  BY InitInv
<1>2. IInv /\ [Next]_vars => IInv'
  BY NextInv
<1> QED
  BY <1>1, <1>2, PTL DEF Spec

\* Whatever the screens ask for and however their transactions, epochs and
\* the clock interleave, what stake_screen.dart and the builders of the Rust
\* core made of an answer of the provider is what the ledger holds, carries
\* every token and every byte of metadata, and pays what was asked for.
THEOREM Invariance == Spec => []Inv
<1>1. IInv => Inv
  BY DEF IInv
<1> QED
  BY <1>1, Inductive, PTL

\* Every error kind the builders return names what is wrong with the request.
THEOREM HonestErrors == Spec => []ErrorsAreHonest
<1>1. IInv => ErrorsAreHonest
  BY DEF IInv
<1> QED
  BY <1>1, Inductive, PTL

(***************************************************************************)
(* What can be wrong with a transaction when it is submitted.              *)
(***************************************************************************)

\* What a transaction was built from is worth what the ledger holds.
LEMMA SpentWorth ==
  ASSUME IInv, NEW s \in Screens, job[s].at = "built",
         NEW tx, tx = job[s].built.body, tx.inputs \subseteq DOMAIN unspent,
         NEW ins, ins = InputsToCsl(Spent(job[s])), NEW spent, spent = [c \in tx.inputs |-> unspent[c]]
  PROVE  /\ TotalCoin(spent) = TotalCoin(ins)
         /\ \A p \in Policies, n \in Names : TotalTokens(spent, p, n) = TotalTokens(ins, p, n)
<1>1. /\ TypeOK /\ FromLedger(job[s])
  BY Parts
<1>2. tx.inputs = DOMAIN Spent(job[s])
  BY BodyTyped
<1>3. /\ IsFiniteSet(DOMAIN unspent) /\ \A c \in DOMAIN unspent : unspent[c] \in Outputs
  BY <1>1, LedgerTyped
<1> DEFINE S == tx.inputs
<1>4. IsFiniteSet(S) /\ S \subseteq DOMAIN unspent
  BY <1>3, FS_Subset
<1>5. DOMAIN ins = S /\ DOMAIN spent = S
  BY <1>2 DEF InputsToCsl
<1>6. ASSUME NEW c \in S
      PROVE  /\ unspent[c].coin \in Nat /\ unspent[c].tokens \in Tokens /\ spent[c] = unspent[c]
             /\ ins[c].coin = unspent[c].coin /\ ins[c].tokens = unspent[c].tokens
  <2> DEFINE v == Spent(job[s])[c]
             u == unspent[c]
             w == [coin |-> u.coin, tokens |-> u.tokens]
  <2>1. u \in Outputs /\ u.coin \in Nat /\ u.tokens \in Tokens
    BY <1>3, <1>4 DEF Outputs, Tokens
  <2>2. WireUtxoToCborHex(<<v>>) = Ok(w)
    BY <1>1, <1>2, <1>4 DEF FromLedger
  <2>3. WireUtxoToCborHex(<<v>>) = UtxoToCborHex(v)
    BY DEF WireUtxoToCborHex
  <2>4. ins[c] = ValueToCsl(v)
    BY <1>2 DEF InputsToCsl
  <2> DEFINE e == ValueCheck(v)
             x == ValueToCsl(v)
  <2>5. UtxoToCborHex(v) = Unless(e, x)
    BY DEF UtxoToCborHex
  <2>6. w.coin = u.coin /\ w.tokens = u.tokens
    OBVIOUS
  <2> HIDE DEF e, x, v, w
  <2>7. Unless(e, x) = Ok(w)
    BY <2>2, <2>3, <2>5
  <2>8. x = w
    BY <2>7 DEF Unless, Ok, Failed
  <2> QED
    BY <2>1, <2>4, <2>6, <2>8 DEF x
<1>7. /\ TotalCoin(ins) = SumFunctionOnSet(Coins(ins), S)
      /\ TotalCoin(spent) = SumFunctionOnSet(Coins(spent), S)
      /\ \A p, n : /\ TotalTokens(ins, p, n) = SumFunctionOnSet(TokensOf(ins, p, n), S)
                   /\ TotalTokens(spent, p, n) = SumFunctionOnSet(TokensOf(spent, p, n), S)
  BY <1>5, TotalIs
<1>8. TotalCoin(spent) = TotalCoin(ins)
  <2> DEFINE f == Coins(spent)
             g == Coins(ins)
  <2>1. \A c \in S : f[c] \in Int /\ g[c] = f[c]
    <3> TAKE c \in S
    <3>1. f[c] = unspent[c].coin /\ g[c] = unspent[c].coin
      BY <1>5, <1>6 DEF Coins
    <3>2. unspent[c].coin \in Int
      BY <1>6
    <3> HIDE DEF f, g
    <3> QED
      BY <3>1, <3>2
  <2> HIDE DEF f, g, S
  <2>2. SumFunctionOnSet(g, S) = SumFunctionOnSet(f, S)
    BY <1>4, <2>1, SumSame
  <2> QED
    BY <1>7, <2>2 DEF f, g
<1>9. ASSUME NEW p \in Policies, NEW n \in Names
      PROVE  TotalTokens(spent, p, n) = TotalTokens(ins, p, n)
  <2> DEFINE f == TokensOf(spent, p, n)
             g == TokensOf(ins, p, n)
  <2>1. \A c \in S : f[c] \in Int /\ g[c] = f[c]
    <3> TAKE c \in S
    <3>1. f[c] = unspent[c].tokens[p][n] /\ g[c] = unspent[c].tokens[p][n]
      BY <1>5, <1>6 DEF TokensOf
    <3>2. unspent[c].tokens[p][n] \in Int
      BY <1>6 DEF Tokens
    <3> HIDE DEF f, g
    <3> QED
      BY <3>1, <3>2
  <2> HIDE DEF f, g, S
  <2>2. SumFunctionOnSet(g, S) = SumFunctionOnSet(f, S)
    BY <1>4, <2>1, SumSame
  <2> QED
    BY <1>7, <2>2 DEF f, g
<1> QED
  BY <1>8, <1>9

LEMMA TimelyIsWellFormed ==
  ASSUME IInv, NEW s \in Screens, job[s].at = "built", NEW tx, tx = job[s].built.body, Timely(tx)
  PROVE  WellFormed(tx, job[s].built.witness_set
                          \cup (IF job[s].ask.op = "unlock" THEN Owned("script") ELSE {}))
<1> DEFINE ws == job[s].built.witness_set
           more == IF job[s].ask.op = "unlock" THEN Owned("script") ELSE {}
           ins == InputsToCsl(Spent(job[s]))
           spent == [c \in tx.inputs |-> unspent[c]]
           refund == IF tx.cert = "deregister" THEN KeyDeposit ELSE 0
           held == IF tx.cert = "register" THEN KeyDeposit ELSE 0
<1>1. TypeOK /\ Held /\ FromLedger(job[s]) /\ AsAsked(job[s])
  BY Parts DEF Settled
<1>2. /\ tx.inputs = DOMAIN Spent(job[s]) /\ tx.inputs # {}
      /\ WithinLimits(tx) /\ Minting(tx) \subseteq ws
      /\ TotalCoin(ins) + tx.withdrawal + refund = TotalCoin(tx.outputs) + held + tx.fee
      /\ \A p \in Policies, n \in Names :
           TotalTokens(ins, p, n) + tx.mint[p][n] = TotalTokens(tx.outputs, p, n)
  BY <1>1, Zenon DEF AsAsked
<1>3. tx.inputs \subseteq DOMAIN unspent /\ (tx.cert = "deregister" => account.registered)
  BY DEF Timely
<1>4. /\ TotalCoin(spent) = TotalCoin(ins)
      /\ \A p \in Policies, n \in Names : TotalTokens(spent, p, n) = TotalTokens(ins, p, n)
  <2> HIDE DEF ins, spent
  <2>1. ins = InputsToCsl(Spent(job[s])) /\ spent = [c \in tx.inputs |-> unspent[c]]
    BY DEF ins, spent
  <2> QED
    BY <1>3, <2>1, SpentWorth
<1>5. refund = IF tx.cert = "deregister" THEN account.deposit ELSE 0
  BY <1>1, <1>3 DEF Held
<1>6. Balanced(tx)
  <2> HIDE DEF ins, spent, refund, held
  <2>1. /\ TotalCoin(spent) + tx.withdrawal + refund = TotalCoin(tx.outputs) + held + tx.fee
        /\ \A p \in Policies, n \in Names :
             TotalTokens(spent, p, n) + tx.mint[p][n] = TotalTokens(tx.outputs, p, n)
    BY <1>2, <1>4
  <2> USE DEF spent, held
  <2> QED
    BY <1>5, <2>1, Zenon DEF Balanced
<1>7. Scripted(tx) \subseteq ws \cup more
  <2>1. ASSUME NEW c \in tx.inputs, unspent[c].owner = "script" PROVE c \in more
    <3>1. c \in DOMAIN unspent /\ c \in DOMAIN Spent(job[s])
      BY <1>2, <1>3, <2>1
    <3>2. c \in DOMAIN job[s].locked
      BY <1>1, <2>1, <3>1 DEF FromLedger
    <3>3. job[s].ask.op = "unlock"
      BY <1>1, <3>2 DEF TypeOK
    <3>4. c \in Owned("script")
      BY <2>1, <3>1 DEF Owned
    <3> QED
      BY <3>3, <3>4
  <2> HIDE DEF more, ws
  <2> QED
    BY <1>2, <2>1 DEF Scripted
<1> QED
  BY <1>2, <1>6, <1>7 DEF WellFormed

\* A transaction of the builders of tx.rs, staking.rs and minting.rs is
\* refused only because its inputs were spent, the account changed or its
\* slots passed since it was built.
THEOREM OnlyTheChainRefuses == Spec => []RefusedOnlyByTheChain
<1>1. IInv => RefusedOnlyByTheChain
  BY TimelyIsWellFormed DEF RefusedOnlyByTheChain
<1> QED
  BY <1>1, Inductive, PTL

(***************************************************************************)
(* The books.                                                              *)
(***************************************************************************)

\* Some of S is spent, and those of D that come back are new.
Moves(S, f, I, D, h, B, id, T, g, spent, theirs) ==
  /\ SumFunctionOnSet(f, S) \in Int /\ SumFunctionOnSet(spent, I) \in Int
  /\ SumFunctionOnSet(h, D) \in Int /\ SumFunctionOnSet(theirs, D \ B) \in Int
  /\ SumFunctionOnSet(g, T) =
       ((SumFunctionOnSet(f, S) - SumFunctionOnSet(spent, I)) + SumFunctionOnSet(h, D))
         - SumFunctionOnSet(theirs, D \ B)

LEMMA Moved ==
  ASSUME NEW S, IsFiniteSet(S), NEW f, \A e \in S : f[e] \in Int, NEW I \in SUBSET S,
         NEW D, IsFiniteSet(D), NEW h, \A i \in D : h[i] \in Int, NEW B \in SUBSET D,
         NEW id, \A i \in B : <<id, i>> \notin S, NEW T, T = (S \ I) \cup Outpoints(id, B),
         NEW g, \A c \in S \ I : g[c] = f[c], \A i \in B : g[<<id, i>>] = h[i],
         NEW spent, \A c \in I : spent[c] = f[c], NEW theirs, \A i \in D \ B : theirs[i] = h[i]
  PROVE  Moves(S, f, I, D, h, B, id, T, g, spent, theirs)
<1> DEFINE K == S \ I
           N == Outpoints(id, B)
           r == [i \in B |-> <<id, i>>]
<1>1. K \subseteq S /\ K \subseteq T /\ S \ K = I /\ IsFiniteSet(I) /\ IsFiniteSet(B) /\ IsFiniteSet(D \ B)
  <2>1. IsFiniteSet(I) /\ IsFiniteSet(B) /\ IsFiniteSet(D \ B)
    BY FS_Subset
  <2> QED
    BY <2>1
<1>2. N \cap S = {} /\ T \ K = N
  BY DEF Outpoints
<1>3. /\ DOMAIN r = B /\ (\A x, y \in B : r[x] = r[y] => x = y) /\ N = {r[e] : e \in B}
      /\ \A e \in B : g[r[e]] = h[e] /\ r[e] \in N
  BY DEF Outpoints
<1>4. IsFiniteSet(N)
  <2>1. IsFiniteSet(Outpoints(id, B))
    BY <1>1, NewOutpoints
  <2> QED
    BY <2>1
<1>5. IsFiniteSet(T)
  <2>1. IsFiniteSet(K)
    BY FS_Subset
  <2> HIDE DEF K
  <2>2. IsFiniteSet(K \cup N)
    BY <1>4, <2>1, FS_Union
  <2> QED
    BY <2>2 DEF K
<1>6. \A e \in T : g[e] \in Int
  <2>1. \A e \in N : \E i \in B : e = <<id, i>>
    BY DEF Outpoints
  <2>2. \A e \in N : g[e] \in Int
    BY <2>1
  <2> QED
    BY <2>2
<1> DEFINE Sf == SumFunctionOnSet(f, S)
           SI == SumFunctionOnSet(f, I)
           Sg == SumFunctionOnSet(g, T)
           SN == SumFunctionOnSet(g, N)
           SK == SumFunctionOnSet(f, S \ I)
           Sh == SumFunctionOnSet(h, D)
           SB == SumFunctionOnSet(h, B)
           SD == SumFunctionOnSet(h, D \ B)
<1>7. \A e \in K : f[e] = g[e]
  OBVIOUS
<1> HIDE DEF K, r, N
<1>8. Sg = SK + SN /\ Sf = SI + SK /\ SK \in Int
  <2>1. (\A e \in K : f[e] \in Int /\ g[e] = f[e]) /\ K \in SUBSET T /\ IsFiniteSet(K)
    BY <1>1, <1>7, FS_Subset
  <2>2. SumFunctionOnSet(g, T) = SumFunctionOnSet(g, K) + SumFunctionOnSet(g, T \ K)
    BY <1>5, <1>6, <2>1, SumSplit
  <2>3. SumFunctionOnSet(f, S) = SumFunctionOnSet(f, I) + SumFunctionOnSet(f, S \ I)
    BY SumSplit
  <2>4. SumFunctionOnSet(g, K) = SumFunctionOnSet(f, K)
    BY <2>1, SumSame
  <2>5. SumFunctionOnSet(f, K) \in Int
    BY <2>1, SumAdd
  <2> QED
    BY <1>2, <2>2, <2>3, <2>4, <2>5 DEF K
<1>9. SN = SB
  <2>1. \A e \in B : h[e] \in Int
    OBVIOUS
  <2>2. SumFunctionOnSet(g, {r[e] : e \in B}) = SumFunctionOnSet(h, B)
    BY <1>1, <1>3, <2>1, SumRenamed
  <2> QED
    BY <1>3, <2>2
<1>10. Sh = SB + SD
  BY SumSplit
<1>11. SumFunctionOnSet(spent, I) = SI
  <2>1. \A e \in I : f[e] \in Int /\ spent[e] = f[e]
    OBVIOUS
  <2> QED
    BY <1>1, <2>1, SumSame
<1>12. SumFunctionOnSet(theirs, D \ B) = SD
  <2>1. \A e \in D \ B : h[e] \in Int /\ theirs[e] = h[e]
    OBVIOUS
  <2> QED
    BY <1>1, <2>1, SumSame
<1>13. Sf \in Int /\ SI \in Int /\ Sh \in Int /\ SB \in Int /\ SD \in Int
  <2>1. (\A e \in I : f[e] \in Int) /\ (\A e \in B : h[e] \in Int) /\ (\A e \in D \ B : h[e] \in Int)
    OBVIOUS
  <2>2. Sf \in Int /\ Sh \in Int
    BY SumAdd
  <2>3. SI \in Int
    BY <1>1, <2>1, SumAdd
  <2>4. SB \in Int /\ SD \in Int
    BY <1>1, <2>1, SumAdd
  <2> QED
    BY <2>2, <2>3, <2>4
<1> HIDE DEF Sf, SI, Sg, SN, SK, Sh, SB, SD
<1>14. Sg = ((Sf - SI) + Sh) - SD
  BY <1>8, <1>9, <1>10, <1>13
<1> QED
  BY <1>11, <1>12, <1>13, <1>14 DEF Sf, Sg, Sh, Moves

\* The totals of the wallet before and after.
TotalsMoved(before, I, spent, outputs, B, id, after) ==
  /\ TotalCoin(before) \in Int /\ TotalCoin(spent) \in Int /\ TotalCoin(outputs) \in Int
  /\ TotalCoin(Theirs(outputs)) \in Int
  /\ TotalCoin(after) =
       ((TotalCoin(before) - TotalCoin(spent)) + TotalCoin(outputs)) - TotalCoin(Theirs(outputs))
  /\ \A p \in Policies, n \in Names :
       /\ TotalTokens(before, p, n) \in Int /\ TotalTokens(spent, p, n) \in Int
       /\ TotalTokens(outputs, p, n) \in Int /\ TotalTokens(Theirs(outputs), p, n) \in Int
       /\ TotalTokens(after, p, n) =
            ((TotalTokens(before, p, n) - TotalTokens(spent, p, n))
               + TotalTokens(outputs, p, n)) - TotalTokens(Theirs(outputs), p, n)

LEMMA TotalsMove ==
  ASSUME NEW before, IsFiniteSet(DOMAIN before), \A c \in DOMAIN before : before[c] \in Outputs,
         NEW I \in SUBSET (DOMAIN before),
         NEW outputs, IsFiniteSet(DOMAIN outputs), \A i \in DOMAIN outputs : outputs[i] \in CslOutputs,
         NEW B \in SUBSET (DOMAIN outputs), \A i \in DOMAIN outputs : i \in B <=> outputs[i].address = "mine",
         NEW id, NEW after, DOMAIN after = (DOMAIN before \ I) \cup Outpoints(id, B),
         \A c \in DOMAIN before \ I : after[c] = before[c],
         \A i \in B : /\ <<id, i>> \notin DOMAIN before /\ after[<<id, i>>].coin = outputs[i].coin
                      /\ after[<<id, i>>].tokens = outputs[i].tokens,
         NEW spent, spent = [c \in I |-> before[c]]
  PROVE  TotalsMoved(before, I, spent, outputs, B, id, after)
<1> DEFINE S == DOMAIN before
           D == DOMAIN outputs
           T == DOMAIN after
           theirs == Theirs(outputs)
<1>1. S = DOMAIN before /\ I \in SUBSET S /\ IsFiniteSet(S) /\ IsFiniteSet(D) /\ B \in SUBSET D
  OBVIOUS
<1>2. DOMAIN theirs = D \ B /\ \A i \in D \ B : theirs[i] = outputs[i]
  BY DEF Theirs
<1>3. DOMAIN spent = I /\ \A c \in I : spent[c] = before[c]
  OBVIOUS
<1>4. /\ \A c \in S : before[c].coin \in Int /\ \A p \in Policies, n \in Names : before[c].tokens[p][n] \in Int
      /\ \A i \in D : outputs[i].coin \in Int
                      /\ \A p \in Policies, n \in Names : outputs[i].tokens[p][n] \in Int
  BY DEF Outputs, CslOutputs
<1> HIDE DEF S, D, T, theirs
<1>5. /\ \A c \in S \ I : c \in T /\ after[c] = before[c]
      /\ \A i \in B : /\ <<id, i>> \in T /\ after[<<id, i>>].coin = outputs[i].coin
                      /\ after[<<id, i>>].tokens = outputs[i].tokens
  <2>1. \A i \in B : <<id, i>> \in Outpoints(id, B)
    BY DEF Outpoints
  <2>2. T = (S \ I) \cup Outpoints(id, B)
    BY DEF S, T
  <2>3. \A c \in S \ I : after[c] = before[c]
    BY DEF S
  <2> QED
    BY <2>1, <2>2, <2>3
<1>6. T = (S \ I) \cup Outpoints(id, B) /\ \A i \in B : <<id, i>> \notin S
  BY DEF S, T
<1>7. /\ TotalCoin(before) \in Int /\ TotalCoin(spent) \in Int /\ TotalCoin(outputs) \in Int
      /\ TotalCoin(theirs) \in Int
      /\ TotalCoin(after) =
           ((TotalCoin(before) - TotalCoin(spent)) + TotalCoin(outputs)) - TotalCoin(theirs)
  <2> DEFINE f == Coins(before)
             u == Coins(spent)
             h == Coins(outputs)
             t == Coins(theirs)
             g == Coins(after)
  <2>1. /\ \A c \in S : f[c] = before[c].coin
        /\ \A c \in I : u[c] = before[c].coin
        /\ \A i \in D : h[i] = outputs[i].coin
        /\ \A i \in D \ B : t[i] = outputs[i].coin
        /\ \A c \in T : g[c] = after[c].coin
    BY <1>2, <1>3 DEF Coins, S, D, T
  <2>2. /\ TotalCoin(before) = SumFunctionOnSet(f, S) /\ TotalCoin(spent) = SumFunctionOnSet(u, I)
        /\ TotalCoin(outputs) = SumFunctionOnSet(h, D) /\ TotalCoin(theirs) = SumFunctionOnSet(t, D \ B)
        /\ TotalCoin(after) = SumFunctionOnSet(g, T)
    BY <1>2, <1>3, TotalIs DEF S, D, T
  <2> HIDE DEF f, g, h, u, t
  <2>3. (\A e \in S : f[e] \in Int) /\ (\A i \in D : h[i] \in Int)
    BY <1>4, <2>1
  <2>4. (\A c \in S \ I : g[c] = f[c]) /\ (\A i \in B : g[<<id, i>>] = h[i])
    <3>1. \A c \in S \ I : g[c] = after[c].coin /\ f[c] = before[c].coin
      BY <1>5, <2>1
    <3>2. \A i \in B : g[<<id, i>>] = after[<<id, i>>].coin /\ h[i] = outputs[i].coin
      BY <1>1, <1>5, <2>1
    <3> QED
      BY <1>5, <3>1, <3>2
  <2>5. (\A c \in I : u[c] = f[c]) /\ (\A i \in D \ B : t[i] = h[i])
    BY <1>1, <2>1
  <2>6. Moves(S, f, I, D, h, B, id, T, g, u, t)
    BY ONLY <1>1, <1>6, <2>3, <2>4, <2>5, Moved
  <2> QED
    BY <2>2, <2>6 DEF Moves
<1>8. ASSUME NEW p \in Policies, NEW n \in Names
      PROVE  /\ TotalTokens(before, p, n) \in Int /\ TotalTokens(spent, p, n) \in Int
             /\ TotalTokens(outputs, p, n) \in Int /\ TotalTokens(theirs, p, n) \in Int
             /\ TotalTokens(after, p, n) =
                  ((TotalTokens(before, p, n) - TotalTokens(spent, p, n))
                     + TotalTokens(outputs, p, n)) - TotalTokens(theirs, p, n)
  <2> DEFINE f == TokensOf(before, p, n)
             u == TokensOf(spent, p, n)
             h == TokensOf(outputs, p, n)
             t == TokensOf(theirs, p, n)
             g == TokensOf(after, p, n)
  <2>1. /\ \A c \in S : f[c] = before[c].tokens[p][n]
        /\ \A c \in I : u[c] = before[c].tokens[p][n]
        /\ \A i \in D : h[i] = outputs[i].tokens[p][n]
        /\ \A i \in D \ B : t[i] = outputs[i].tokens[p][n]
        /\ \A c \in T : g[c] = after[c].tokens[p][n]
    BY <1>2, <1>3 DEF TokensOf, S, D, T
  <2>2. /\ TotalTokens(before, p, n) = SumFunctionOnSet(f, S) /\ TotalTokens(spent, p, n) = SumFunctionOnSet(u, I)
        /\ TotalTokens(outputs, p, n) = SumFunctionOnSet(h, D) /\ TotalTokens(theirs, p, n) = SumFunctionOnSet(t, D \ B)
        /\ TotalTokens(after, p, n) = SumFunctionOnSet(g, T)
    BY <1>2, <1>3, TotalIs DEF S, D, T
  <2> HIDE DEF f, g, h, u, t
  <2>3. (\A e \in S : f[e] \in Int) /\ (\A i \in D : h[i] \in Int)
    BY <1>4, <2>1
  <2>4. (\A c \in S \ I : g[c] = f[c]) /\ (\A i \in B : g[<<id, i>>] = h[i])
    <3>1. \A c \in S \ I : g[c] = after[c].tokens[p][n] /\ f[c] = before[c].tokens[p][n]
      BY <1>5, <2>1
    <3>2. \A i \in B : g[<<id, i>>] = after[<<id, i>>].tokens[p][n] /\ h[i] = outputs[i].tokens[p][n]
      BY <1>1, <1>5, <2>1
    <3> QED
      BY <1>5, <3>1, <3>2
  <2>5. (\A c \in I : u[c] = f[c]) /\ (\A i \in D \ B : t[i] = h[i])
    BY <1>1, <2>1
  <2>6. Moves(S, f, I, D, h, B, id, T, g, u, t)
    BY ONLY <1>1, <1>6, <2>3, <2>4, <2>5, Moved
  <2> QED
    BY <2>2, <2>6 DEF Moves
<1> QED
  BY <1>7, <1>8 DEF theirs, TotalsMoved

LEMMA ReceiptTyped ==
  ASSUME NEW j, j.at = "built", j.ask \in Asks, AsAsked(j)
  PROVE  LET r == j.built
             a == j.ask
         IN
         /\ r.fee \in Nat /\ r.deposit_change \in Int /\ a.coin \in Nat
         /\ \A p \in Policies, n \in Names :
              /\ Minted([policy |-> a.policy, assets |-> a.mint], p, n) \in Int
              /\ Quantity(a.assets, p, n) \in Nat
         /\ Receipt(j) \in Receipts /\ Receipt(j) # NoReceipt
<1> DEFINE r == j.built
           a == j.ask
           tokens == [t \in Policies \X Names |->
                        Minted([policy |-> a.policy, assets |-> a.mint], t[1], t[2])
                          - Quantity(a.assets, t[1], t[2])]
<1>1. a \in Requests
  BY TxFlowAssumption
<1>2. a.coin \in Nat /\ a.assets \in SUBSET Listed(Names \cup {LongName}) /\ a.mint \in Seq(MintAssets)
  BY <1>1, RequestIs
<1>3. r.fee \in Nat
  BY Zenon DEF AsAsked
<1>4. r.deposit_change =
        (IF r.body.cert = "deregister" THEN KeyDeposit ELSE 0) - (IF r.body.cert = "register" THEN KeyDeposit ELSE 0)
  BY Zenon DEF AsAsked
<1>5. r.deposit_change \in Int
  <2> HIDE DEF r
  <2> QED
    BY <1>4, Parameters
<1> HIDE DEF a
<1>6. \A p, n : /\ Minted([policy |-> a.policy, assets |-> a.mint], p, n) \in Int
                /\ Quantity(a.assets, p, n) \in Nat
  <2> TAKE p, n
  <2> DEFINE spec == [policy |-> a.policy, assets |-> a.mint]
  <2>1. spec.assets \in Seq(MintAssets)
    BY <1>2
  <2> HIDE DEF spec
  <2>2. Minted(spec, p, n) \in Int
    BY <2>1, MintedIs
  <2> QED
    BY <1>2, <2>2, QuantityType DEF spec
<1>7. tokens \in [Policies \X Names -> Int]
  BY <1>6
<1>8. Receipt(j) = [fee |-> r.fee, deposit_change |-> r.deposit_change, paid |-> a.coin, tokens |-> tokens]
  BY Zenon DEF Receipt, a
<1> HIDE DEF r, tokens
<1>9. Receipt(j) \in Receipts
  BY <1>2, <1>3, <1>5, <1>7, <1>8 DEF Receipts
<1>10. Receipt(j) # NoReceipt
  BY <1>9, TxFlowAssumption
<1> QED
  BY <1>2, <1>3, <1>5, <1>6, <1>9, <1>10 DEF r, a

LEMMA ReceiptNow ==
  ASSUME IInv, NEW s \in Screens, job[s].at = "built"
  PROVE  /\ job[s].ask \in Asks /\ AsAsked(job[s])
         /\ Receipt(job[s]) # NoReceipt
<1>1. TypeOK /\ AsAsked(job[s])
  BY Parts DEF Settled
<1>2. job[s].ask \in Asks
  BY <1>1 DEF TypeOK
<1> QED
  BY <1>1, <1>2, ReceiptTyped

LEMMA BooksMove ==
  ASSUME IInv, NEW s \in Screens, job[s].at = "built", NEW tx, tx = job[s].built.body,
         NEW id, id = job[s].id, Timely(tx), Balanced(tx), Apply(tx, id)
  PROVE  LET r == job[s].built
             a == job[s].ask
         IN
         /\ TotalCoin(unspent') + account'.rewards =
              (((TotalCoin(unspent) + account.rewards) - r.fee) - a.coin) + r.deposit_change
         /\ account'.deposit = account.deposit - r.deposit_change
         /\ \A p \in Policies, n \in Names :
              TotalTokens(unspent', p, n) = TotalTokens(unspent, p, n)
                + (Minted([policy |-> a.policy, assets |-> a.mint], p, n) - Quantity(a.assets, p, n))
<1> DEFINE r == job[s].built
           a == job[s].ask
           spent == [c \in tx.inputs |-> unspent[c]]
           refund == IF tx.cert = "deregister" THEN account.deposit ELSE 0
           held == IF tx.cert = "register" THEN KeyDeposit ELSE 0
           outputs == tx.outputs
           minted(p, n) == Minted([policy |-> a.policy, assets |-> a.mint], p, n)
<1>1. TypeOK /\ Held /\ AsAsked(job[s])
  BY Parts DEF Settled
<1>2. /\ r.fee = tx.fee /\ TotalCoin(Theirs(outputs)) = a.coin
      /\ r.deposit_change = (IF tx.cert = "deregister" THEN KeyDeposit ELSE 0)
                              - (IF tx.cert = "register" THEN KeyDeposit ELSE 0)
      /\ \A p \in Policies, n \in Names :
           /\ TotalTokens(Theirs(outputs), p, n) = Quantity(a.assets, p, n)
           /\ tx.mint[p][n] = minted(p, n)
  BY <1>1, Zenon DEF AsAsked, Theirs
<1>3. /\ TotalCoin(spent) + tx.withdrawal + refund = TotalCoin(outputs) + held + tx.fee
      /\ \A p \in Policies, n \in Names :
           TotalTokens(spent, p, n) + tx.mint[p][n] = TotalTokens(outputs, p, n)
  BY Zenon DEF Balanced
<1>4. /\ IsFiniteSet(DOMAIN unspent) /\ \A c \in DOMAIN unspent : unspent[c] \in Outputs
  BY <1>1, LedgerTyped
<1>5. /\ IsFiniteSet(DOMAIN outputs) /\ \A i \in DOMAIN outputs : outputs[i] \in CslOutputs
      /\ tx.withdrawal \in Nat /\ tx.fee \in Nat
  BY BodyTyped
<1>6. tx.inputs \in SUBSET (DOMAIN unspent) /\ (tx.cert = "deregister" => account.registered)
  BY DEF Timely
<1> DEFINE B == Back(tx)
<1>7. B \in SUBSET (DOMAIN outputs) /\ \A i \in DOMAIN outputs : i \in B <=> outputs[i].address = "mine"
  BY DEF Back
<1>8. /\ DOMAIN unspent' = (DOMAIN unspent \ tx.inputs) \cup Outpoints(id, B)
      /\ \A c \in DOMAIN unspent \ tx.inputs : unspent'[c] = unspent[c]
      /\ \A i \in B : /\ <<id, i>> \notin DOMAIN unspent /\ unspent'[<<id, i>>].coin = outputs[i].coin
                      /\ unspent'[<<id, i>>].tokens = outputs[i].tokens
  <2>1. Replaced(tx, id)
    BY Applied
  <2> QED
    BY <2>1 DEF Added, Replaced
<1>9. spent = [c \in tx.inputs |-> unspent[c]]
  OBVIOUS
<1> HIDE DEF spent, outputs, B
<1>10. /\ TotalCoin(unspent) \in Int /\ TotalCoin(spent) \in Int /\ TotalCoin(outputs) \in Int
       /\ TotalCoin(Theirs(outputs)) \in Int
       /\ TotalCoin(unspent') =
            ((TotalCoin(unspent) - TotalCoin(spent)) + TotalCoin(outputs)) - TotalCoin(Theirs(outputs))
       /\ \A p \in Policies, n \in Names :
            /\ TotalTokens(unspent, p, n) \in Int /\ TotalTokens(spent, p, n) \in Int
            /\ TotalTokens(outputs, p, n) \in Int /\ TotalTokens(Theirs(outputs), p, n) \in Int
            /\ TotalTokens(unspent', p, n) =
                 ((TotalTokens(unspent, p, n) - TotalTokens(spent, p, n))
                    + TotalTokens(outputs, p, n)) - TotalTokens(Theirs(outputs), p, n)
  <2>1. TotalsMoved(unspent, tx.inputs, spent, outputs, B, id, unspent')
    BY <1>4, <1>5, <1>6, <1>7, <1>8, <1>9, TotalsMove
  <2> QED
    BY <2>1 DEF TotalsMoved
<1>11. /\ account'.deposit = account.deposit - r.deposit_change
       /\ account'.rewards = account.rewards - tx.withdrawal
  BY AccountMoves
<1>12. account.rewards \in Nat /\ account.deposit \in Nat
  BY <1>1 DEF TypeOK, Accounts
<1>13. /\ r.fee \in Nat /\ r.deposit_change \in Int /\ a.coin \in Nat
       /\ \A p \in Policies, n \in Names : minted(p, n) \in Int /\ Quantity(a.assets, p, n) \in Nat
  BY ReceiptNow, ReceiptTyped
<1>14. refund = IF tx.cert = "deregister" THEN KeyDeposit ELSE 0
  BY <1>1, <1>6 DEF Held
<1>15. r.deposit_change = refund - held
  BY <1>2, <1>14
<1>16. refund \in Nat /\ held \in Nat
  BY <1>14, Parameters
<1> HIDE DEF r, a, refund, held, minted
<1>17. TotalCoin(unspent') + account'.rewards =
         (((TotalCoin(unspent) + account.rewards) - r.fee) - a.coin) + r.deposit_change
  <2>1. TotalCoin(unspent') = ((TotalCoin(unspent) - TotalCoin(spent)) + TotalCoin(outputs)) - a.coin
    BY <1>2, <1>10
  <2>2. /\ TotalCoin(unspent) \in Int /\ TotalCoin(spent) \in Int /\ TotalCoin(outputs) \in Int
        /\ TotalCoin(spent) + tx.withdrawal + refund = TotalCoin(outputs) + held + r.fee
    BY <1>2, <1>3, <1>10
  <2>3. /\ account.rewards \in Int /\ tx.withdrawal \in Int /\ refund \in Int /\ held \in Int
        /\ r.fee \in Int /\ a.coin \in Int
        /\ r.deposit_change = refund - held /\ account'.rewards = account.rewards - tx.withdrawal
    BY <1>5, <1>11, <1>12, <1>13, <1>15, <1>16
  <2> DEFINE u == TotalCoin(unspent)
             v == TotalCoin(spent)
             o == TotalCoin(outputs)
             x == TotalCoin(unspent')
             rewards == account.rewards
             left == account'.rewards
             withdrawal == tx.withdrawal
             fee == r.fee
             coin == a.coin
             change == r.deposit_change
  <2>4. /\ x = ((u - v) + o) - coin /\ v + withdrawal + refund = o + held + fee
        /\ change = refund - held /\ left = rewards - withdrawal
        /\ u \in Int /\ v \in Int /\ o \in Int /\ rewards \in Int /\ withdrawal \in Int
        /\ refund \in Int /\ held \in Int /\ fee \in Int /\ coin \in Int
    BY <2>1, <2>2, <2>3
  <2> HIDE DEF u, v, o, x, rewards, left, withdrawal, fee, coin, change
  <2>5. x + left = (((u + rewards) - fee) - coin) + change
    BY ONLY <2>4
  <2> QED
    BY <2>5 DEF u, x, rewards, left, fee, coin, change
<1>18. ASSUME NEW p \in Policies, NEW n \in Names
       PROVE  TotalTokens(unspent', p, n) = TotalTokens(unspent, p, n) + (minted(p, n) - Quantity(a.assets, p, n))
  <2> DEFINE m == minted(p, n)
             q == Quantity(a.assets, p, n)
             u == TotalTokens(unspent, p, n)
             v == TotalTokens(spent, p, n)
             o == TotalTokens(outputs, p, n)
             x == TotalTokens(unspent', p, n)
  <2>1. /\ x = ((u - v) + o) - q /\ v + m = o /\ u \in Int /\ v \in Int /\ o \in Int
        /\ m \in Int /\ q \in Nat
    BY <1>2, <1>3, <1>10, <1>13
  <2> HIDE DEF m, q, u, v, o, x
  <2>2. x = u + (m - q)
    BY <2>1
  <2> QED
    BY <2>2 DEF m, q, u, x
<1> QED
  BY <1>11, <1>17, <1>18 DEF r, a, minted

LEMMA BooksAre ==
  ASSUME TypeOK
  PROVE  /\ TotalCoin(unspent) \in Nat /\ account.rewards \in Nat /\ account.deposit \in Nat
         /\ \A p \in Policies, n \in Names : TotalTokens(unspent, p, n) \in Nat
<1>1. Valued(unspent)
  BY LedgerTyped DEF Valued, Outputs, Tokens
<1>2. account.rewards \in Nat /\ account.deposit \in Nat
  BY DEF TypeOK, Accounts
<1> QED
  BY <1>1, <1>2, TotalNat

LEMMA BooksInit == Init => Ledger!Init
<1> SUFFICES ASSUME Init PROVE Ledger!Init
  OBVIOUS
<1>1. TypeOK
  BY InitInv, Parts
<1>2. account.deposit \in Nat
  BY <1>1, BooksAre
<1>3. \A s \in Screens : Receipt(job[s]) = NoReceipt
  <2>1. \A s \in Screens : job[s].at = "idle"
    BY NoJobIs DEF Init
  <2> QED
    BY <2>1 DEF Receipt
<1> QED
  BY <1>2, <1>3 DEF Ledger!Init

\* A transaction that is not built yet, or not any more.
LEMMA NothingBuilt ==
  ASSUME NEW j, j.at # "built"
  PROVE  Receipt(j) = NoReceipt
  BY DEF Receipt

LEMMA BooksSame ==
  ASSUME UNCHANGED <<unspent, account>>, \A s \in Screens : Receipt(job'[s]) = Receipt(job[s])
  PROVE  UNCHANGED Ledger!vars
<1>1. [s \in Screens |-> Receipt(job[s])]' = [s \in Screens |-> Receipt(job[s])]
  OBVIOUS
<1> QED
  BY <1>1 DEF Ledger!vars

LEMMA BooksEpoch ==
  ASSUME IInv, Epoch
  PROVE  Ledger!Earn
<1>1. TypeOK
  BY Parts
<1>2. account'.rewards = account.rewards + 1 /\ account'.deposit = account.deposit
  BY <1>1 DEF Epoch, TypeOK, Accounts
<1>3. UNCHANGED <<unspent, job>>
  BY DEF Epoch
<1>4. \A s \in Screens : Receipt(job'[s]) = Receipt(job[s])
  BY <1>3, NothingBuilt
<1>5. [s \in Screens |-> Receipt(job[s])]' = [s \in Screens |-> Receipt(job[s])]
  BY <1>4
<1>6. TotalCoin(unspent') + account'.rewards > TotalCoin(unspent) + account.rewards
  <2>1. TotalCoin(unspent') = TotalCoin(unspent)
    BY <1>3
  <2>2. TotalCoin(unspent) \in Nat /\ account.rewards \in Nat
    BY <1>1, BooksAre
  <2> QED
    BY <1>2, <2>1, <2>2
<1>7. [t \in Policies \X Names |-> TotalTokens(unspent, t[1], t[2])]'
        = [t \in Policies \X Names |-> TotalTokens(unspent, t[1], t[2])]
  BY <1>3
<1> QED
  BY <1>2, <1>5, <1>6, <1>7 DEF Ledger!Earn

LEMMA BooksTap ==
  ASSUME IInv, NEW s \in Screens, Load(s) \/ Tap(s) \/ Tick
  PROVE  UNCHANGED Ledger!vars
<1>1. TypeOK
  BY Parts
<1>2. UNCHANGED <<unspent, account>>
  BY DEF Load, Tap, Tick
<1>3. CASE UNCHANGED job
  BY <1>2, <1>3, BooksSame, NothingBuilt
<1>4. CASE Tap(s)
  <2>1. PICK a \in Asks :
          job' = [job EXCEPT ![s] = Job("tapped", taps + 1, a, info[s].rewards, <<>>, <<>>, Failed("None"))]
    BY <1>4 DEF Tap
  <2>2. job[s].at # "built" /\ job'[s].at = "tapped" /\ \A t \in Screens : t # s => job'[t] = job[t]
    <3>1. job[s].at # "built"
      BY <1>4 DEF Tap
    <3>2. job'[s] = Job("tapped", taps + 1, a, info[s].rewards, <<>>, <<>>, Failed("None"))
      BY <1>1, <2>1 DEF TypeOK
    <3>3. job'[s].at = "tapped"
      BY <3>2, JobIs
    <3>4. \A t \in Screens : t # s => job'[t] = job[t]
      BY <1>1, <2>1 DEF TypeOK
    <3> QED
      BY <3>1, <3>3, <3>4
  <2>3. \A t \in Screens : Receipt(job'[t]) = Receipt(job[t])
    BY <2>2, NothingBuilt
  <2> QED
    BY <1>2, <2>3, BooksSame
<1> QED
  BY <1>3, <1>4 DEF Load, Tick

\* The receipt of one screen changes.
LEMMA OneReceipt ==
  ASSUME NEW s \in Screens, \A t \in Screens : t # s => job'[t] = job[t]
  PROVE  [t \in Screens |-> Receipt(job[t])]' =
           [[t \in Screens |-> Receipt(job[t])] EXCEPT ![s] = Receipt(job'[s])]
<1>1. \A t \in Screens : t # s => Receipt(job'[t]) = Receipt(job[t])
  OBVIOUS
<1> QED
  BY <1>1

LEMMA ReceiptNext ==
  ASSUME IInv', NEW s \in Screens, job'[s].at = "built"
  PROVE  Receipt(job'[s]) # NoReceipt
<1>1. TypeOK' /\ AsAsked(job'[s])
  BY Zenon DEF IInv, Inv
<1>2. job'[s].ask \in Asks
  BY <1>1 DEF TypeOK
<1> QED
  BY <1>1, <1>2, ReceiptTyped

LEMMA BooksBuild ==
  ASSUME IInv, IInv', NEW s \in Screens, Build(s)
  PROVE  Ledger!Build(s) \/ UNCHANGED Ledger!vars
<1>1. TypeOK /\ job[s].at = "tapped" /\ UNCHANGED <<unspent, account>>
  BY Parts DEF Build
<1>2. \A t \in Screens : t # s => job'[t] = job[t]
  BY <1>1 DEF Build, TypeOK
<1>3. Receipt(job[s]) = NoReceipt
  BY <1>1, NothingBuilt
<1>4. CASE job'[s].at = "built"
  <2>1. Receipt(job'[s]) # NoReceipt
    BY <1>4, ReceiptNext
  <2>2. [t \in Screens |-> Receipt(job[t])]' =
           [[t \in Screens |-> Receipt(job[t])] EXCEPT ![s] = Receipt(job'[s])]
    BY <1>2, OneReceipt
  <2> QED
    BY <1>1, <1>3, <2>1, <2>2 DEF Ledger!Build
<1>5. CASE job'[s].at # "built"
  <2>1. Receipt(job'[s]) = Receipt(job[s])
    BY <1>3, <1>5, NothingBuilt
  <2>2. \A t \in Screens : Receipt(job'[t]) = Receipt(job[t])
    BY <1>2, <2>1, NothingBuilt
  <2> QED
    BY <1>1, <2>2, BooksSame
<1> QED
  BY <1>4, <1>5

LEMMA BooksSubmit ==
  ASSUME IInv, NEW s \in Screens, Submit(s)
  PROVE  Ledger!Settle(s) \/ Ledger!CallOff(s)
<1> DEFINE r == job[s].built
           tx == r.body
           id == job[s].id
           a == job[s].ask
<1>1. /\ TypeOK /\ job[s].at = "built" /\ job' = [job EXCEPT ![s] = NoJob]
      /\ \/ Timely(tx) /\ Balanced(tx) /\ Apply(tx, id)
         \/ UNCHANGED <<unspent, account>>
  BY Parts, Zenon DEF Submit, Valid, WellFormed
<1>2. job'[s].at # "built" /\ \A t \in Screens : t # s => job'[t] = job[t]
  BY <1>1, NoJobIs DEF TypeOK
<1>3. Receipt(job'[s]) = NoReceipt /\ Receipt(job[s]) # NoReceipt
  BY <1>1, <1>2, NothingBuilt, ReceiptNow
<1>4. [t \in Screens |-> Receipt(job[t])]' = [[t \in Screens |-> Receipt(job[t])] EXCEPT ![s] = NoReceipt]
  BY <1>2, <1>3, OneReceipt
<1>5. CASE UNCHANGED <<unspent, account>>
  BY <1>3, <1>4, <1>5 DEF Ledger!CallOff
<1>6. CASE Timely(tx) /\ Balanced(tx) /\ Apply(tx, id)
  <2>1. /\ TotalCoin(unspent') + account'.rewards =
             (((TotalCoin(unspent) + account.rewards) - r.fee) - a.coin) + r.deposit_change
        /\ account'.deposit = account.deposit - r.deposit_change
        /\ \A p \in Policies, n \in Names :
             TotalTokens(unspent', p, n) = TotalTokens(unspent, p, n)
               + (Minted([policy |-> a.policy, assets |-> a.mint], p, n) - Quantity(a.assets, p, n))
    BY <1>1, <1>6, BooksMove
  <2> DEFINE T == Policies \X Names
             before == [t \in T |-> TotalTokens(unspent, t[1], t[2])]
             after == [t \in T |-> TotalTokens(unspent', t[1], t[2])]
             moved == [t \in T |-> Minted([policy |-> a.policy, assets |-> a.mint], t[1], t[2])
                                     - Quantity(a.assets, t[1], t[2])]
  <2>2. Receipt(job[s]) = [fee |-> r.fee, deposit_change |-> r.deposit_change, paid |-> a.coin, tokens |-> moved]
    BY <1>1, Zenon DEF Receipt
  <2>3. /\ Receipt(job[s]).fee = r.fee /\ Receipt(job[s]).deposit_change = r.deposit_change
        /\ Receipt(job[s]).paid = a.coin /\ Receipt(job[s]).tokens = moved
    <3> HIDE DEF r, a, moved
    <3> QED
      BY <2>2
  <2>4. after = [t \in DOMAIN before |-> before[t] + Receipt(job[s]).tokens[t]]
    <3>1. \A t \in T : after[t] = before[t] + moved[t]
      BY <2>1
    <3>2. after = [t \in T |-> after[t]] /\ DOMAIN before = T
      OBVIOUS
    <3> HIDE DEF after, before, moved, T
    <3> QED
      BY <2>3, <3>1, <3>2
  <2>5. /\ TotalCoin(unspent') + account'.rewards =
             (((TotalCoin(unspent) + account.rewards) - Receipt(job[s]).fee) - Receipt(job[s]).paid)
               + Receipt(job[s]).deposit_change
        /\ account'.deposit = account.deposit - Receipt(job[s]).deposit_change
    BY <2>1, <2>3
  <2> QED
    BY <1>3, <1>4, <2>4, <2>5 DEF Ledger!Settle
<1> QED
  BY <1>1, <1>5, <1>6

LEMMA BooksNext ==
  ASSUME IInv, IInv', [Next]_vars
  PROVE  [Ledger!Next]_(Ledger!vars)
<1>1. CASE Epoch
  BY <1>1, BooksEpoch DEF Ledger!Next
<1>2. CASE Tick
  <2>1. UNCHANGED <<unspent, account, job>>
    BY <1>2 DEF Tick
  <2> QED
    BY <2>1, BooksSame, NothingBuilt
<1>3. ASSUME NEW s \in Screens, Load(s) \/ Tap(s) PROVE UNCHANGED Ledger!vars
  BY <1>3, BooksTap
<1>4. ASSUME NEW s \in Screens, Build(s) PROVE Ledger!Next \/ UNCHANGED Ledger!vars
  BY <1>4, BooksBuild DEF Ledger!Next
<1>5. ASSUME NEW s \in Screens, Submit(s) PROVE Ledger!Next
  BY <1>5, BooksSubmit DEF Ledger!Next
<1>6. CASE UNCHANGED vars
  <2>1. UNCHANGED <<unspent, account, job>>
    BY <1>6 DEF vars
  <2> QED
    BY <2>1, BooksSame, NothingBuilt
<1> QED
  BY <1>1, <1>2, <1>3, <1>4, <1>5, <1>6 DEF Next

\* A transaction moves the wallet's lovelace, deposit and tokens by what was
\* asked for and what BuiltTx reported, once, or not at all, whatever else the
\* wallet's screens and the epochs do meanwhile.
THEOREM Refinement == Spec => BooksSpec
<1>1. IInv /\ IInv' /\ [Next]_vars => [Ledger!Next]_(Ledger!vars)
  BY BooksNext
<1> QED
  BY <1>1, BooksInit, Inductive, PTL DEF Spec, BooksSpec, Ledger!Spec
=============================================================================
