------------------------ MODULE CoinSelectionProofs ------------------------
(***************************************************************************)
(* Proofs about CoinSelection for every wallet, every target and every     *)
(* protocol parameters.                                                    *)
(***************************************************************************)
EXTENDS CoinSelection, FiniteSetTheorems, WellFoundedInduction, TLAPS

(***************************************************************************)
(* Sums over finite sets.  The library sums a set by a recursive function  *)
(* on its subsets, which takes an arbitrary element away at each step.     *)
(* That this function exists, and that the order does not matter, is shown *)
(* on a smallest subset for which it would fail.                           *)
(***************************************************************************)

\* The element taken away, one step of the recursion, and the whole function.
Pick(s) == CHOOSE x \in s : TRUE

Body(f, g, s) == IF s = {} THEN 0 ELSE f[Pick(s)] + g[s \ {Pick(s)}]

Table(f, S) == CHOOSE g : g = [s \in SUBSET S |-> Body(f, g, s)]

IsTable(f, S, g) == g = [s \in SUBSET S |-> Body(f, g, s)]

\* The library's sum is the value of that function at the whole set.
LEMMA SumIsTable ==
  ASSUME NEW f, NEW S PROVE SumFunctionOnSet(f, S) = Table(f, S)[S]
  BY Zenon DEF SumFunctionOnSet, FoldFunctionOnSet, MapThenFoldSet, Table, Body, Pick

\* A set of subsets of a finite set has a smallest one.
LEMMA LeastSet ==
  ASSUME NEW S, IsFiniteSet(S), NEW Q \in SUBSET (SUBSET S), Q # {}
  PROVE  \E T \in Q : \A U \in Q : ~(U \subseteq T /\ U # T)
<1>1. IsWellFoundedOn(StrictSubsetOrdering(S), SUBSET S)
  BY FS_StrictSubsetOrderingWellFounded, FS_FiniteSubsetsOfFinite
<1>2. \E T \in Q : \A U \in Q : ~ (<<U, T>> \in StrictSubsetOrdering(S))
  BY <1>1, WFMin
<1> QED
  BY <1>2 DEF StrictSubsetOrdering

LEMMA PickIn == ASSUME NEW s, s # {} PROVE Pick(s) \in s
  BY DEF Pick

\* The functions of two nested sets agree on the smaller one.
LEMMA TablesAgree ==
  ASSUME NEW f, NEW T, IsFiniteSet(T), NEW r, r \subseteq T,
         NEW g, IsTable(f, T, g), NEW h, IsTable(f, r, h)
  PROVE  g[r] = h[r]
<1> DEFINE Bad == {s \in SUBSET r : g[s] # h[s]}
<1>1. SUFFICES ASSUME Bad # {} PROVE FALSE
  OBVIOUS
<1>2. PICK s \in Bad : \A u \in Bad : ~(u \subseteq s /\ u # s)
  <2>1. Bad \in SUBSET (SUBSET T)
    OBVIOUS
  <2> HIDE DEF Bad
  <2> QED
    BY <1>1, <2>1, LeastSet
<1>3. g[s] = Body(f, g, s) /\ h[s] = Body(f, h, s)
  BY <1>2 DEF IsTable
<1>4. CASE s = {}
  BY <1>2, <1>3, <1>4 DEF Body
<1>5. CASE s # {}
  <2>1. s \ {Pick(s)} \notin Bad
    BY <1>2, <1>5, PickIn
  <2>2. g[s \ {Pick(s)}] = h[s \ {Pick(s)}]
    BY <1>2, <2>1
  <2> QED
    BY <1>2, <1>3, <2>2 DEF Body
<1> QED
  BY <1>4, <1>5

\* There is such a function: extend those of the strict subsets.
LEMMA TableExists ==
  ASSUME NEW f, NEW S, IsFiniteSet(S)
  PROVE  \E g : IsTable(f, S, g)
<1> DEFINE Tab(T) == CHOOSE g : IsTable(f, T, g)
           Bad == {T \in SUBSET S : ~ \E g : IsTable(f, T, g)}
<1>1. SUFFICES ASSUME Bad # {} PROVE FALSE
  OBVIOUS
<1>2. PICK T \in Bad : \A u \in Bad : ~(u \subseteq T /\ u # T)
  <2>1. Bad \in SUBSET (SUBSET S)
    OBVIOUS
  <2> HIDE DEF Bad
  <2> QED
    BY <1>1, <2>1, LeastSet
<1>3. \A U \in SUBSET T : U # T => IsTable(f, U, Tab(U))
  BY <1>2
<1> DEFINE low == [s \in SUBSET T |-> Tab(s)[s]]
           h == [s \in SUBSET T |-> IF s = T THEN Body(f, low, T) ELSE Tab(s)[s]]
<1>4. ASSUME NEW s \in SUBSET T PROVE h[s] = Body(f, h, s)
  <2>1. CASE s = {}
    <3>1. CASE s = T
      BY <2>1, <3>1 DEF Body
    <3>2. CASE s # T
      <4>1. IsTable(f, s, Tab(s))
        BY <1>3, <3>2
      <4>2. Tab(s)[s] = Body(f, Tab(s), s)
        BY <4>1 DEF IsTable
      <4> QED
        BY <2>1, <3>2, <4>2 DEF Body
    <3> QED
      BY <3>1, <3>2
  <2>2. CASE s # {}
    <3> DEFINE r == s \ {Pick(s)}
    <3>1. r \in SUBSET T /\ r # T /\ r # s /\ r \subseteq s
      BY <2>2, PickIn
    <3>2. h[r] = Tab(r)[r] /\ low[r] = Tab(r)[r]
      BY <3>1
    <3>3. CASE s = T
      BY <2>2, <3>2, <3>3 DEF Body
    <3>4. CASE s # T
      <4>1. IsTable(f, s, Tab(s)) /\ IsTable(f, r, Tab(r))
        BY <1>3, <3>1, <3>4
      <4>2. Tab(s)[s] = Body(f, Tab(s), s)
        BY <4>1 DEF IsTable
      <4>3. Tab(s)[r] = Tab(r)[r]
        <5>1. IsFiniteSet(s) /\ r \subseteq s
          BY <1>2, <3>1, FS_Subset
        <5> HIDE DEF Tab, r, h, low
        <5> QED
          BY <4>1, <5>1, TablesAgree
      <4>4. h[s] = Tab(s)[s]
        BY <3>4
      <4> HIDE DEF h, Tab, low
      <4> QED
        BY <2>2, <3>2, <4>2, <4>3, <4>4 DEF Body
    <3> QED
      BY <3>3, <3>4
  <2> QED
    BY <2>1, <2>2
<1>5. h = [s \in SUBSET T |-> Body(f, h, s)]
  <2> DEFINE k == [s \in SUBSET T |-> Body(f, h, s)]
  <2>1. DOMAIN h = SUBSET T /\ DOMAIN k = SUBSET T
    OBVIOUS
  <2>2. \A s \in SUBSET T : h[s] = k[s]
    BY <1>4
  <2>3. h = [s \in SUBSET T |-> h[s]]
    OBVIOUS
  <2>4. [s \in SUBSET T |-> h[s]] = k
    <3> HIDE DEF h
    <3> QED
      BY <1>4
  <2> QED
    BY <2>3, <2>4
<1>6. IsTable(f, T, h)
  <2> HIDE DEF h
  <2> QED
    BY <1>5 DEF IsTable
<1> QED
  BY <1>2, <1>6

\* A sum is one of its elements and the sum of the others.
LEMMA SumEquation ==
  ASSUME NEW f, NEW S, IsFiniteSet(S)
  PROVE  /\ SumFunctionOnSet(f, {}) = 0
         /\ S # {} => SumFunctionOnSet(f, S) = f[Pick(S)] + SumFunctionOnSet(f, S \ {Pick(S)})
<1>1. \A T \in SUBSET S : IsTable(f, T, Table(f, T))
  <2> TAKE T \in SUBSET S
  <2>1. \E g : IsTable(f, T, g)
    BY TableExists, FS_Subset
  <2> QED
    BY <2>1 DEF Table, IsTable
<1>2. SumFunctionOnSet(f, {}) = 0
  <2>1. IsTable(f, {}, Table(f, {}))
    BY <1>1
  <2>2. Table(f, {})[{}] = Body(f, Table(f, {}), {})
    BY <2>1 DEF IsTable
  <2> QED
    BY <2>2, SumIsTable DEF Body
<1>3. ASSUME S # {} PROVE SumFunctionOnSet(f, S) = f[Pick(S)] + SumFunctionOnSet(f, S \ {Pick(S)})
  <2> DEFINE R == S \ {Pick(S)}
  <2>1. IsTable(f, S, Table(f, S)) /\ IsTable(f, R, Table(f, R))
    BY <1>1
  <2>2. Table(f, S)[S] = Body(f, Table(f, S), S)
    BY <2>1 DEF IsTable
  <2>3. Table(f, S)[R] = Table(f, R)[R]
    <3>1. R \subseteq S
      OBVIOUS
    <3> HIDE DEF R
    <3> QED
      BY <2>1, <3>1, TablesAgree
  <2> QED
    BY <1>3, <2>2, <2>3, SumIsTable DEF Body
<1> QED
  BY <1>2, <1>3

\* It does not matter which element is taken away.
LEMMA SumAdd ==
  ASSUME NEW f, NEW S, IsFiniteSet(S), \A e \in S : f[e] \in Int
  PROVE  /\ SumFunctionOnSet(f, S) \in Int
         /\ \A x \in S : SumFunctionOnSet(f, S) = f[x] + SumFunctionOnSet(f, S \ {x})
<1> DEFINE Sum(T) == SumFunctionOnSet(f, T)
           Good(T) == Sum(T) \in Int /\ \A x \in T : Sum(T) = f[x] + Sum(T \ {x})
           Bad == {T \in SUBSET S : ~Good(T)}
<1>1. SUFFICES ASSUME Bad # {} PROVE FALSE
  OBVIOUS
<1>2. PICK T \in Bad : \A u \in Bad : ~(u \subseteq T /\ u # T)
  <2>1. Bad \in SUBSET (SUBSET S)
    OBVIOUS
  <2> HIDE DEF Bad
  <2> QED
    BY <1>1, <2>1, LeastSet
<1> DEFINE p == Pick(T)
<1>3. \A U : U \subseteq T /\ U # T => Good(U)
  <2> HIDE DEF Good
  <2> QED
    BY <1>2
<1>4. Sum({}) = 0 /\ (T # {} => Sum(T) = f[p] + Sum(T \ {p}))
  <2>1. IsFiniteSet(T)
    BY <1>2, FS_Subset
  <2> QED
    BY <2>1, SumEquation
<1>5. CASE T = {}
  BY <1>2, <1>4, <1>5
<1>6. CASE T # {}
  <2>1. p \in T /\ f[p] \in Int /\ Good(T \ {p})
    BY <1>2, <1>3, <1>6, PickIn
  <2>2. Sum(T) \in Int
    BY <1>4, <1>6, <2>1
  <2>3. ASSUME NEW x \in T, x # p PROVE Sum(T) = f[x] + Sum(T \ {x})
    <3> DEFINE R == (T \ {p}) \ {x}
    <3>1. R = (T \ {x}) \ {p} /\ x \in T \ {p} /\ p \in T \ {x} /\ f[x] \in Int
      BY <1>2, <2>1, <2>3
    <3>2. Good(T \ {x}) /\ Good(R)
      BY <1>3, <2>3
    <3>3. Sum(T \ {p}) = f[x] + Sum(R) /\ Sum(T \ {x}) = f[p] + Sum(R) /\ Sum(R) \in Int
      BY <2>1, <3>1, <3>2
    <3> QED
      BY <1>4, <1>6, <2>1, <3>1, <3>3
  <2> QED
    BY <1>2, <1>4, <1>6, <2>2, <2>3
<1> QED
  BY <1>5, <1>6

(***************************************************************************)
(* Arithmetic and types.                                                   *)
(***************************************************************************)

USE CoinSelectionAssumption

\* The remainder that models a u64 stays in range and is the identity there.
LEMMA WrapRange == ASSUME NEW x \in Int PROVE Wrap(x) \in 0 .. MaxU64
  BY DEF Wrap

LEMMA WrapIdentity == ASSUME NEW x \in 0 .. MaxU64 PROVE Wrap(x) = x
  BY DEF Wrap

\* A saturated amount is a u64.
LEMMA SaturateRange == ASSUME NEW x \in Nat PROVE Saturate(x) \in 0 .. MaxU64
  BY DEF Saturate

LEMMA MinAdaRange == MinAda \in 0 .. MaxU64
  BY SaturateRange, CoinsPerByte * 217 \in Nat DEF MinAda

LEMMA MinAdaWithRange == ASSUME NEW k \in Nat PROVE MinAdaWith(k) \in 0 .. MaxU64
<1>1. CoinsPerByte * (295 + 10 * k) \in Nat
  OBVIOUS
<1> QED
  BY <1>1, SaturateRange DEF MinAdaWith

LEMMA FeeRange ==
  ASSUME outputs \in Nat, NEW n \in Nat PROVE FeeFor(n) \in 0 .. MaxU64
<1> DEFINE size == 250 + n * 143 + EstOutputs * 65
<1>1. size \in Nat
  BY DEF EstOutputs
<1>2. MinFeeA * size \in Nat
  BY <1>1
<1>3. MinFeeB + Saturate(MinFeeA * size) \in Nat
  BY <1>2, SaturateRange
<1> QED
  BY <1>3, SaturateRange DEF FeeFor

\* Only finitely many UTxOs are ever selected.
LEMMA FiniteSelection ==
  ASSUME TypeOK
  PROVE  /\ IsFiniteSet(avail) /\ IsFiniteSet(selected)
         /\ Cardinality(selected) \in 0 .. Cardinality(avail)
<1>1. selected \subseteq avail /\ avail \subseteq Entries
  BY DEF TypeOK
<1>2. IsFiniteSet(avail)
  BY <1>1, FS_Subset
<1>3. IsFiniteSet(selected) /\ Cardinality(selected) <= Cardinality(avail)
  BY <1>1, <1>2, FS_Subset
<1> QED
  BY <1>2, <1>3, FS_CardinalityType

\* The amounts of a well-typed selection.
LEMMA Amounts ==
  ASSUME TypeOK, NEW n \in Nat
  PROVE  /\ Target \in 0 .. MaxU64
         /\ Needed(n) \in 0 .. MaxU64
         /\ \A x \in 0 .. MaxU64 : ChangeCoin(x, n) \in 0 .. MaxU64
<1>1. outputs \in Nat /\ asked \in Int
  BY DEF TypeOK
<1>2. Target \in 0 .. MaxU64
  BY <1>1, WrapRange DEF Target
<1> QED
  BY <1>1, <1>2, FeeRange, MinAdaRange, WrapRange DEF Needed, ChangeCoin

\* When no sum overflows, the arithmetic is that of the integers.
LEMMA FittingAmounts ==
  ASSUME TypeOK, Fits, NEW n \in 0 .. Cardinality(avail)
  PROVE  /\ Target = asked
         /\ Needed(n) = asked + FeeFor(n) + MinAda
         /\ \A x \in 0 .. MaxU64 :
              x >= asked + FeeFor(n) => ChangeCoin(x, n) = x - asked - FeeFor(n)
<1>1. asked + FeeFor(n) + MinAda \in 0 .. MaxU64
      /\ FeeFor(n) \in 0 .. MaxU64 /\ asked \in Nat
  <2>1. asked \in Nat /\ outputs \in Nat /\ n \in Nat
    BY FiniteSelection, FS_CardinalityType DEF TypeOK
  <2> QED
    BY <2>1, FeeRange, MinAdaRange DEF Fits
<1>2. Target = asked
  BY <1>1, WrapIdentity, MinAdaRange DEF Target
<1> QED
  BY <1>1, <1>2, WrapIdentity, MinAdaRange DEF Needed, ChangeCoin

\* Adding an unselected UTxO to the accumulators keeps them u64s.
LEMMA TakeType ==
  ASSUME TypeOK, NEW e \in avail, NextUtxo(e), ~Overflows(e), Take(e)
  PROVE  /\ selected' \subseteq avail
         /\ acc' \in 0 .. MaxU64
         /\ accQty' \in [Assets -> 0 .. MaxU64]
<1>1. coin[e] \in 0 .. MaxU64 /\ qty[e] \in [Assets -> 0 .. MaxU64]
  BY DEF TypeOK
<1> QED
  BY <1>1 DEF TypeOK, Take, Overflows

\* What is left of the assets is a u64 for each.
LEMMA LeftoverType == ASSUME TypeOK PROVE Leftover \in [Assets -> 0 .. MaxU64]
<1>1. ASSUME NEW a \in Assets PROVE Wrap(accQty[a] - want[a]) \in 0 .. MaxU64
  BY WrapRange DEF TypeOK
<1> QED
  BY <1>1 DEF Leftover
(***************************************************************************)
(* Type correctness.                                                       *)
(***************************************************************************)

LEMMA FailType ==
  ASSUME TypeOK, NEW err \in Outcomes \ {"none"}, Fail(err) PROVE TypeOK'
  BY DEF TypeOK, Fail, args, PCs

LEMMA SelectType == ASSUME TypeOK, NEW e \in avail, Select(e) PROVE TypeOK'
<1>1. CASE Fail("InvalidParameter")
  BY <1>1, FailType DEF Outcomes
<1>2. CASE ~Overflows(e) /\ Take(e)
  <2>1. UNCHANGED <<args, change>>
        /\ pc' \in PCs /\ outcome' \in Outcomes
    BY <1>2 DEF Select, PCs, Outcomes, TypeOK, Fail
  <2> QED
    BY <1>2, <2>1, TakeType DEF TypeOK, args, Select
<1> QED
  BY <1>1, <1>2 DEF Select

LEMMA FixDustType == ASSUME TypeOK, NEW e \in avail, FixDust(e) PROVE TypeOK'
<1>1. CASE Fail("InvalidParameter")
  BY <1>1, FailType DEF Outcomes
<1>2. CASE ~Overflows(e) /\ Take(e) /\ ~Fail("InvalidParameter")
  <2>1. UNCHANGED <<args, outcome, change>> /\ pc' \in PCs
    BY <1>2 DEF FixDust, PCs
  <2> QED
    BY <1>2, <2>1, TakeType DEF TypeOK, args, FixDust
<1> QED
  BY <1>1, <1>2 DEF FixDust

\* What the change is made of.
LEMMA ChangeParts ==
  ASSUME TypeOK
  PROVE  /\ Left \in 0 .. MaxU64
         /\ IsFiniteSet(Carried)
         /\ Reserve \in 0 .. MaxU64
<1>1. Left \in 0 .. MaxU64
  BY Amounts, FiniteSelection, FS_CardinalityType DEF TypeOK, Left
<1>2. IsFiniteSet(Carried)
  BY FS_Subset DEF Carried
<1> QED
  BY <1>1, <1>2, FS_CardinalityType, MinAdaWithRange DEF Reserve

\* Either an error, or the whole change in one or two outputs, each with the
\* lovelace it needs.
LEMMA ChangeMade ==
  ASSUME TypeOK, MakeChange
  PROVE  \/ Fail("DustChange")
         \/ \E pure \in 0 .. MaxU64, multi \in 0 .. MaxU64 :
              /\ Return(pure, multi)
              /\ pure + multi = Left
              /\ Carried = {} => multi = 0
              /\ Carried # {} => multi >= Reserve /\ (pure = 0 \/ pure >= MinAda)
<1>1. /\ Left \in 0 .. MaxU64 /\ Reserve \in 0 .. MaxU64
      /\ MinAda \in 0 .. MaxU64
  BY ChangeParts, MinAdaRange
<1>2. CASE Carried = {} /\ Return(Left, 0)
  BY <1>1, <1>2
<1>3. CASE /\ Carried # {} /\ Left - Reserve >= MinAda
           /\ Return(Left - Reserve, Reserve)
  <2>1. Left - Reserve \in 0 .. MaxU64 /\ (Left - Reserve) + Reserve = Left
    BY <1>1, <1>3
  <2> QED
    BY <1>1, <1>3, <2>1
<1>4. CASE Carried # {} /\ Left >= Reserve /\ Return(0, Left)
  BY <1>1, <1>4
<1> QED
  BY <1>2, <1>3, <1>4 DEF MakeChange

LEMMA MakeChangeType == ASSUME TypeOK, MakeChange PROVE TypeOK'
<1>1. CASE Fail("DustChange")
  BY <1>1, FailType DEF Outcomes
<1>2. ASSUME NEW pure \in 0 .. MaxU64, NEW multi \in 0 .. MaxU64,
             Return(pure, multi)
      PROVE  TypeOK'
  <2>1. FeeFor(Cardinality(selected)) \in 0 .. MaxU64
    BY FiniteSelection, FeeRange, FS_CardinalityType DEF TypeOK
  <2>2. change' \in [fee : 0 .. MaxU64, pure : 0 .. MaxU64, multi : 0 .. MaxU64,
                     tokens : [Assets -> 0 .. MaxU64]]
    BY <1>2, <2>1, LeftoverType DEF Return
  <2> QED
    BY <1>2, <2>2 DEF Return, TypeOK, args, PCs, Outcomes
<1> QED
  BY <1>1, <1>2, ChangeMade

LEMMA StartType == ASSUME TypeOK, Start PROVE TypeOK'
<1>1. CASE \E err \in Outcomes \ {"none"} : Fail(err)
  BY <1>1, FailType
<1>2. CASE pc' = "select" /\ UNCHANGED <<args, selected, acc, accQty, outcome, change>>
  BY <1>2 DEF TypeOK, args, PCs
<1> QED
  BY <1>1, <1>2 DEF Start, Outcomes

LEMMA SettleType == ASSUME TypeOK, Settle PROVE TypeOK'
<1>1. CASE \E err \in Outcomes \ {"none"} : Fail(err)
  BY <1>1, FailType
<1>2. CASE /\ pc' \in PCs
           /\ UNCHANGED <<args, selected, acc, accQty, outcome, change>>
  BY <1>2 DEF TypeOK, args
<1> QED
  BY <1>1, <1>2 DEF Settle, Outcomes, PCs

LEMMA InitType == Init => TypeOK
<1> SUFFICES ASSUME Init PROVE TypeOK
  OBVIOUS
<1>1. asked \in Nat /\ outputs \in Nat /\ want \in [Assets -> Nat]
  BY DEF Init
<1>2. coin \in [avail -> 0 .. MaxU64] /\ qty \in [avail -> [Assets -> 0 .. MaxU64]]
  BY DEF Init
<1>3. 0 \in 0 .. MaxU64 /\ NoTokens \in [Assets -> 0 .. MaxU64]
  BY DEF NoTokens
<1> QED
  BY <1>1, <1>2, <1>3 DEF Init, TypeOK, NoChange, PCs, Outcomes

\* Every selection is well typed: no accumulator leaves the range of a u64.
THEOREM TypeCorrect == Spec => []TypeOK
<1>1. TypeOK /\ [Next]_vars => TypeOK'
  <2> SUFFICES ASSUME TypeOK, [Next]_vars PROVE TypeOK'
    OBVIOUS
  <2>1. CASE UNCHANGED vars
    BY <2>1 DEF vars, args, TypeOK
  <2>2. CASE DustUnfixed
    BY <2>2, FailType DEF DustUnfixed, Outcomes
  <2> QED
    BY <2>1, <2>2, StartType, SelectType, FixDustType, SettleType,
       MakeChangeType DEF Next
<1> QED
  BY <1>1, InitType, PTL DEF Spec

(***************************************************************************)
(* The inductive invariant.                                                *)
(***************************************************************************)

\* No step changes the arguments, so no estimate changes for a given number of
\* inputs.
LEMMA SameArgs ==
  ASSUME UNCHANGED args
  PROVE  /\ Fits' <=> Fits
         /\ \A n : FeeFor(n)' = FeeFor(n)
         /\ \A e, f : Before(e, f)' <=> Before(e, f)
  BY DEF args, Fits, FeeFor, EstOutputs, Before, MinAda

\* The next UTxO of the order is not behind any that is left aside.
LEMMA TakeLargest ==
  ASSUME TypeOK, LargestFirst, NEW e \in avail, NextUtxo(e),
         selected' = selected \cup {e}, UNCHANGED args
  PROVE  LargestFirst'
<1>1. \A s \in selected \cup {e}, f \in avail \ (selected \cup {e}) : Before(s, f)
  BY DEF LargestFirst, NextUtxo
<1> QED
  BY <1>1, SameArgs DEF LargestFirst, args

\* Reaching neither the change nor a success preserves the invariant, whatever
\* UTxO was added.
LEMMA QuietStep ==
  ASSUME Accounts, TypeOK', LargestFirst', UNCHANGED args,
         pc' = "done" <=> outcome' # "none",
         pc' # "change", pc' # "dust", outcome' # "Ok"
  PROVE  Accounts'
  BY DEF Accounts, Affordable, DustLoopUnreachable, Balanced, ChangeMeetsEstimate

LEMMA FailInv ==
  ASSUME Accounts, NEW err \in Outcomes \ {"none", "Ok"}, Fail(err) PROVE Accounts'
<1>1. TypeOK' /\ UNCHANGED <<args, selected>>
  BY FailType DEF Accounts, Fail
<1>2. LargestFirst'
  BY <1>1, SameArgs DEF Accounts, LargestFirst, args
<1> QED
  BY <1>1, <1>2, QuietStep DEF Fail

LEMMA StartInv == ASSUME Accounts, Start PROVE Accounts'
<1>1. CASE \E err \in Outcomes \ {"none", "Ok"} : Fail(err)
  BY <1>1, FailInv
<1>2. CASE pc' = "select" /\ UNCHANGED <<args, selected, acc, accQty, outcome, change>>
  <2>1. LargestFirst'
    BY <1>2, SameArgs DEF Accounts, LargestFirst, args
  <2>2. outcome' = "none"
    BY <1>2 DEF Accounts, Start
  <2> QED
    BY <1>2, <2>1, <2>2, StartType, QuietStep DEF Accounts
<1> QED
  BY <1>1, <1>2 DEF Start, Outcomes

LEMMA SelectInv == ASSUME Accounts, NEW e \in avail, Select(e) PROVE Accounts'
<1>1. CASE Fail("InvalidParameter")
  BY <1>1, FailInv DEF Outcomes
<1>2. CASE Take(e) /\ UNCHANGED args
  <2>1. LargestFirst'
    BY <1>2, TakeLargest DEF Accounts, Select, Take
  <2>2. pc = "select" /\ outcome = "none"
    BY DEF Accounts, Select
  <2>3. \/ pc' = "settle" /\ outcome' = "none"
        \/ pc' = "done" /\ outcome' = "ExceededMaximum"
        \/ pc' = "select" /\ outcome' = "none"
        \/ Fail("InvalidParameter")
    BY <1>2, <2>2 DEF Select
  <2> QED
    BY <1>2, <2>1, <2>3, SelectType, QuietStep, <1>1 DEF Accounts
<1> QED
  BY <1>1, <1>2 DEF Select

LEMMA SettleInv == ASSUME Accounts, Settle PROVE Accounts'
<1> DEFINE n == Cardinality(selected)
<1>1. CASE \E err \in {"InsufficientFunds", "InsufficientAsset"} : Fail(err)
  BY <1>1, FailInv DEF Outcomes
<1>2. CASE /\ acc >= Needed(n)
           /\ pc' = IF ChangeCoin(acc, n) > 0 /\ ChangeCoin(acc, n) < MinAda
                    THEN "dust" ELSE "change"
           /\ UNCHANGED <<args, selected, acc, accQty, outcome, change>>
  <2>1. TypeOK /\ TypeOK' /\ outcome' = "none"
    BY <1>2, SettleType DEF Accounts, Settle
  <2>2. LargestFirst'
    BY <1>2, SameArgs DEF Accounts, LargestFirst, args
  <2>3. ASSUME Fits
        PROVE  pc' = "change" /\ acc >= asked + FeeFor(n) + MinAda
    <3>1. /\ n \in 0 .. Cardinality(avail)
          /\ n \in Nat /\ acc \in 0 .. MaxU64 /\ asked \in Nat
          /\ outputs \in Nat
      BY <2>1, FiniteSelection, FS_CardinalityType DEF TypeOK
    <3>2. FeeFor(n) \in Nat /\ MinAda \in Nat
      BY <3>1, FeeRange, MinAdaRange
    <3>3. acc >= asked + FeeFor(n) + MinAda
      BY <1>2, <2>1, <2>3, <3>1, FittingAmounts
    <3>4. ChangeCoin(acc, n) = acc - asked - FeeFor(n)
      BY <2>1, <2>3, <3>1, <3>2, <3>3, FittingAmounts
    <3> QED
      BY <1>2, <3>1, <3>2, <3>3, <3>4
  <2>4. Affordable' /\ DustLoopUnreachable'
    BY <1>2, <2>3, SameArgs DEF Affordable, DustLoopUnreachable, MinAda, args
  <2> QED
    BY <1>2, <2>1, <2>2, <2>4 DEF Accounts, Balanced, ChangeMeetsEstimate
<1>3. TypeOK /\ acc \in Int
  BY DEF Accounts, TypeOK
<1>4. n \in Nat
  BY <1>3, FiniteSelection, FS_CardinalityType
<1>5. Needed(n) \in Int
  BY <1>3, <1>4, Amounts
<1> QED
  BY <1>1, <1>2, <1>3, <1>5 DEF Settle

LEMMA FixDustInv == ASSUME Accounts, NEW e \in avail, FixDust(e) PROVE Accounts'
<1>1. ~Fits /\ pc = "dust" /\ outcome = "none"
  BY DEF FixDust, Accounts, DustLoopUnreachable
<1>2. CASE Fail("InvalidParameter")
  BY <1>2, FailInv DEF Outcomes
<1>3. CASE /\ Take(e)
           /\ pc' \in {"change", "dust"}
           /\ UNCHANGED <<args, outcome, change>>
  <2>1. LargestFirst'
    BY <1>3, TakeLargest DEF Accounts, FixDust, Take
  <2>2. ~Fits'
    BY <1>1, <1>3, SameArgs
  <2> QED
    BY <1>1, <1>3, <2>1, <2>2, FixDustType
    DEF Accounts, Affordable, DustLoopUnreachable, Balanced, ChangeMeetsEstimate
<1> QED
  BY <1>2, <1>3 DEF FixDust

LEMMA MakeChangeInv == ASSUME Accounts, MakeChange PROVE Accounts'
<1> DEFINE n == Cardinality(selected)
<1>1. CASE Fail("DustChange")
  BY <1>1, FailInv DEF Outcomes
<1>2. ASSUME NEW pure \in 0 .. MaxU64, NEW multi \in 0 .. MaxU64,
             Return(pure, multi),
             pure + multi = Left,
             Carried = {} => multi = 0,
             Carried # {} => multi >= Reserve /\ (pure = 0 \/ pure >= MinAda)
      PROVE  Accounts'
  <2>1. TypeOK /\ TypeOK' /\ pc = "change" /\ UNCHANGED <<args, selected, acc>>
    BY <1>2, MakeChangeType DEF Accounts, MakeChange, Return
  <2>2. LargestFirst'
    BY <2>1, SameArgs DEF Accounts, LargestFirst, args
  <2>3. ASSUME Fits
        PROVE  acc = asked + pure + multi + FeeFor(n) /\ Left >= MinAda
    <3>1. /\ n \in 0 .. Cardinality(avail)
          /\ n \in Nat /\ acc \in 0 .. MaxU64 /\ asked \in Nat
          /\ outputs \in Nat
      BY <2>1, FiniteSelection, FS_CardinalityType DEF TypeOK
    <3>2. FeeFor(n) \in Nat /\ MinAda \in Nat
      BY <3>1, FeeRange, MinAdaRange
    <3>3. acc >= asked + FeeFor(n) + MinAda
      BY <2>1, <2>3 DEF Accounts, Affordable
    <3>4. Left = acc - asked - FeeFor(n)
      BY <2>1, <2>3, <3>1, <3>2, <3>3, FittingAmounts DEF Left
    <3> QED
      BY <1>2, <3>1, <3>2, <3>3, <3>4
  <2>4. Balanced'
    <3>1. /\ change'.pure = pure /\ change'.multi = multi
          /\ change'.fee = FeeFor(n)
      BY <1>2 DEF Return
    <3> QED
      BY <2>1, <2>3, <3>1, SameArgs DEF Balanced, args
  <2>5. ChangeMeetsEstimate'
    <3>1. /\ change'.pure = pure /\ change'.multi = multi
          /\ {a \in Assets : change'.tokens[a] > 0} = Carried
      BY <1>2 DEF Return, Carried
    <3>2. Fits => pure = 0 \/ pure >= MinAda
      BY <1>2, <2>3, MinAdaRange
    <3>3. MinAda' = MinAda /\ \A k : MinAdaWith(k)' = MinAdaWith(k)
      BY DEF MinAda, MinAdaWith
    <3> QED
      BY <1>2, <2>1, <3>1, <3>2, <3>3, SameArgs DEF ChangeMeetsEstimate, Reserve
  <2>6. pc' = "done" /\ outcome' = "Ok"
    BY <1>2 DEF Return
  <2> QED
    BY <2>1, <2>2, <2>4, <2>5, <2>6
    DEF Accounts, Affordable, DustLoopUnreachable
<1> QED
  BY <1>1, <1>2, ChangeMade DEF Accounts

\* The accounts of the selection balance at every step.
THEOREM AccountsInvariant == Spec => []Accounts
<1>1. Init => Accounts
  BY InitType DEF Init, Accounts, Affordable, LargestFirst, DustLoopUnreachable,
                  Balanced, ChangeMeetsEstimate
<1>2. Accounts /\ [Next]_vars => Accounts'
  <2> SUFFICES ASSUME Accounts, [Next]_vars PROVE Accounts'
    OBVIOUS
  <2>1. CASE UNCHANGED vars
    BY <2>1 DEF vars, args, Accounts, TypeOK, Affordable, LargestFirst, Before, Fits,
                FeeFor, EstOutputs, DustLoopUnreachable, Balanced, ChangeMeetsEstimate
  <2>2. CASE DustUnfixed
    BY <2>2, FailInv DEF DustUnfixed, Outcomes
  <2> QED
    BY <2>1, <2>2, StartInv, SelectInv, FixDustInv, SettleInv, MakeChangeInv
    DEF Next
<1> QED
  BY <1>1, <1>2, PTL DEF Spec

(***************************************************************************)
(* What the accumulators hold, and where the loop stops.                   *)
(***************************************************************************)

\* Taking a UTxO out of a set of UTxOs takes what it holds out of the sums.
LEMMA SumsOfUtxos ==
  ASSUME TypeOK, NEW S \in SUBSET avail
  PROVE  /\ CoinOf({}) = 0 /\ \A a \in Assets : QtyOf({}, a) = 0
         /\ CoinOf(S) \in Int /\ \A a \in Assets : QtyOf(S, a) \in Int
         /\ \A e \in avail \ S :
              /\ CoinOf(S \cup {e}) = CoinOf(S) + coin[e]
              /\ \A a \in Assets : QtyOf(S \cup {e}, a) = QtyOf(S, a) + qty[e][a]
<1> DEFINE units(a) == [e \in avail |-> qty[e][a]]
<1>1. /\ \A e \in avail : coin[e] \in Int
      /\ \A a \in Assets : \A e \in avail : units(a)[e] = qty[e][a] /\ units(a)[e] \in Int
  BY DEF TypeOK
<1>2. \A T \in SUBSET avail : IsFiniteSet(T)
  BY FiniteSelection, FS_Subset
<1>3. ASSUME NEW f, \A e \in avail : f[e] \in Int
      PROVE  /\ SumFunctionOnSet(f, {}) = 0
             /\ SumFunctionOnSet(f, S) \in Int
             /\ \A e \in avail \ S :
                  SumFunctionOnSet(f, S \cup {e}) = SumFunctionOnSet(f, S) + f[e]
  <2>1. SumFunctionOnSet(f, {}) = 0 /\ SumFunctionOnSet(f, S) \in Int
    BY <1>2, <1>3, SumEquation, SumAdd
  <2>2. ASSUME NEW e \in avail \ S
        PROVE  SumFunctionOnSet(f, S \cup {e}) = SumFunctionOnSet(f, S) + f[e]
    <3>1. IsFiniteSet(S \cup {e}) /\ (S \cup {e}) \ {e} = S
      BY <1>2
    <3>2. SumFunctionOnSet(f, S \cup {e}) = f[e] + SumFunctionOnSet(f, (S \cup {e}) \ {e})
      BY <1>3, <3>1, SumAdd
    <3>3. SumFunctionOnSet(f, (S \cup {e}) \ {e}) = SumFunctionOnSet(f, S)
      BY <3>1, Zenon
    <3> QED
      BY <1>3, <2>1, <3>2, <3>3
  <2> QED
    BY <2>1, <2>2
<1>4. /\ CoinOf({}) = 0 /\ CoinOf(S) \in Int
      /\ \A e \in avail \ S : CoinOf(S \cup {e}) = CoinOf(S) + coin[e]
  BY <1>1, <1>3 DEF CoinOf
<1>5. ASSUME NEW a \in Assets
      PROVE  /\ QtyOf({}, a) = 0 /\ QtyOf(S, a) \in Int
             /\ \A e \in avail \ S : QtyOf(S \cup {e}, a) = QtyOf(S, a) + qty[e][a]
  <2>1. \A T : QtyOf(T, a) = SumFunctionOnSet(units(a), T)
    BY DEF QtyOf
  <2> HIDE DEF units
  <2> QED
    BY <1>1, <1>3, <2>1
<1> QED
  BY <1>4, <1>5

LEMMA SameSums ==
  ASSUME UNCHANGED args
  PROVE  /\ \A n : Needed(n)' = Needed(n)
         /\ \A S : CoinOf(S)' = CoinOf(S)
         /\ \A S, a : QtyOf(S, a)' = QtyOf(S, a)
         /\ CoinOf(selected)' = CoinOf(selected')
         /\ \A a : QtyOf(selected, a)' = QtyOf(selected', a)
         /\ WalletCovers' <=> WalletCovers
         /\ MinAda' = MinAda
  BY DEF args, Needed, Target, FeeFor, EstOutputs, MinAda, CoinOf, QtyOf, WalletCovers

LEMMA AccumulatedInit == Init => Accumulated
<1> SUFFICES ASSUME Init PROVE Accumulated
  OBVIOUS
<1>1. TypeOK /\ {} \in SUBSET avail
  BY InitType
<1>2. CoinOf({}) = 0 /\ \A a \in Assets : QtyOf({}, a) = 0
  BY <1>1, SumsOfUtxos
<1> QED
  BY <1>2 DEF Init, Accumulated, NoTokens

LEMMA TakeAccumulates ==
  ASSUME TypeOK, Accumulated, NEW e \in avail, NextUtxo(e), Take(e), UNCHANGED args
  PROVE  Accumulated'
<1>1. e \in avail \ selected /\ selected \in SUBSET avail
  BY DEF NextUtxo, TypeOK
<1>2. /\ CoinOf(selected') = CoinOf(selected) + coin[e]
      /\ \A a \in Assets : QtyOf(selected', a) = QtyOf(selected, a) + qty[e][a]
  BY <1>1, SumsOfUtxos DEF Take
<1> QED
  BY <1>2, SameSums DEF Accumulated, Take

LEMMA SameAccumulated ==
  ASSUME Accumulated, UNCHANGED <<args, selected, acc, accQty>> PROVE Accumulated'
  BY SameSums DEF Accumulated

\* A step takes the next UTxO, or leaves the selection as it is.
LEMMA TakeOrKeep ==
  ASSUME [Next]_vars
  PROVE  \/ UNCHANGED <<args, selected, acc, accQty>>
         \/ \E e \in avail : NextUtxo(e) /\ Take(e) /\ UNCHANGED args
<1>1. CASE UNCHANGED vars
  BY <1>1 DEF vars
<1>2. CASE Start
  BY <1>2 DEF Start, Fail
<1>3. CASE Settle \/ DustUnfixed
  BY <1>3 DEF Settle, DustUnfixed, Fail
<1>4. CASE MakeChange
  BY <1>4 DEF MakeChange, Fail, Return
<1>5. ASSUME NEW e \in avail, Select(e) \/ FixDust(e)
      PROVE  \/ UNCHANGED <<args, selected, acc, accQty>>
             \/ NextUtxo(e) /\ Take(e) /\ UNCHANGED args
  BY <1>5 DEF Select, FixDust, Fail
<1> QED
  BY <1>1, <1>2, <1>3, <1>4, <1>5 DEF Next

\* The accumulators hold what the selected UTxOs hold.
LEMMA AccumulatedStep == TypeOK /\ Accumulated /\ [Next]_vars => Accumulated'
  BY TakeOrKeep, TakeAccumulates, SameAccumulated

\* The last UTxO taken was needed, if the sums were short without it, and every
\* other one as much as before.
LEMMA TakeLast ==
  ASSUME TypeOK, Accumulated, LargestFirst, EachTakenWhileShort,
         NEW e \in avail, NextUtxo(e), Take(e), UNCHANGED args,
         selected = {} \/ ~Enough(acc, accQty, Cardinality(selected))
  PROVE  EachTakenWhileShort'
<1>1. /\ selected' = selected \cup {e} /\ e \in avail \ selected /\ selected \subseteq avail
      /\ \A s \in avail : coin[s] \in Int /\ s \in Int
  BY DEF NextUtxo, Take, TypeOK
<1>2. \A s \in selected : Before(s, e) /\ ~Before(e, s)
  BY <1>1 DEF LargestFirst, Before
<1>3. ~Before(e, e)
  BY <1>1 DEF Before
<1>4. /\ acc = CoinOf(selected)
      /\ HaveAllAssets(accQty) <=> HaveAllAssets([a \in Assets |-> QtyOf(selected, a)])
  BY DEF Accumulated, HaveAllAssets
<1>5. selected # {} => ~Suffices(selected)
  BY <1>4 DEF Enough, Suffices
<1>6. /\ \A s, f : Before(s, f)' <=> Before(s, f)
      /\ \A S : Suffices(S)' <=> Suffices(S)
  BY SameArgs, SameSums DEF Enough, HaveAllAssets, Suffices, args
<1>7. \A s : InputsBefore(s)' = {f \in selected' : Before(f, s)}
  BY <1>6 DEF InputsBefore
<1>8. ASSUME NEW s \in selected', InputsBefore(s)' # {}
      PROVE  ~Suffices(InputsBefore(s)')
  <2>1. CASE s = e
    <3>1. InputsBefore(s)' = selected
      BY <1>1, <1>2, <1>3, <1>7, <2>1
    <3> QED
      BY <1>5, <1>8, <3>1
  <2>2. CASE s \in selected
    <3>1. InputsBefore(s)' = InputsBefore(s)
      BY <1>1, <1>2, <1>7, <2>2 DEF InputsBefore
    <3> QED
      BY <1>8, <2>2, <3>1 DEF EachTakenWhileShort
  <2> QED
    BY <1>1, <2>1, <2>2
<1> QED
  BY <1>6, <1>8 DEF EachTakenWhileShort

\* With the arguments, what a state says of its accumulators is unchanged.
LEMMA SameEnough ==
  ASSUME UNCHANGED args
  PROVE  /\ \A t, h, n : Enough(t, h, n)' <=> Enough(t, h, n)
         /\ \A h : HaveAllAssets(h)' <=> HaveAllAssets(h)
         /\ \A S : Suffices(S)' <=> Suffices(S)
         /\ UNCHANGED selected => (EachTakenWhileShort' <=> EachTakenWhileShort)
<1>1. /\ \A t, h, n : Enough(t, h, n)' <=> Enough(t, h, n)
      /\ \A h : HaveAllAssets(h)' <=> HaveAllAssets(h)
  BY SameSums DEF Enough, HaveAllAssets, args
<1>2. \A S : Suffices(S)' <=> Suffices(S)
  BY <1>1, SameSums DEF Suffices, Enough, HaveAllAssets, args
<1>3. UNCHANGED selected => (EachTakenWhileShort' <=> EachTakenWhileShort)
  BY <1>2, SameArgs DEF EachTakenWhileShort, InputsBefore
<1> QED
  BY <1>1, <1>2, <1>3

\* The same accumulators, one step further on.
LEMMA KeepStops ==
  ASSUME StopsInTime, UNCHANGED <<args, selected, acc, accQty>>,
         \/ pc' = pc
         \/ pc' = "done"
         \/ pc = "start" /\ pc' = "select" /\ outputs # 0
         \/ pc = "settle" /\ pc' = "change"
         \/ pc = "settle" /\ pc' = "dust" /\ ~Fits
  PROVE  StopsInTime'
<1>1. /\ Enough(acc, accQty, Cardinality(selected))' <=> Enough(acc, accQty, Cardinality(selected))
      /\ HaveAllAssets(accQty)' <=> HaveAllAssets(accQty)
      /\ EachTakenWhileShort' <=> EachTakenWhileShort
      /\ Fits' <=> Fits
      /\ WalletCovers' <=> WalletCovers
      /\ UNCHANGED <<outputs, avail, selected>>
  BY SameArgs, SameSums, SameEnough DEF args
<1>2. selected = {} => Cardinality(selected) = 0
  BY FS_EmptySet
<1> DEFINE enough == Enough(acc, accQty, Cardinality(selected))
<1> HIDE DEF enough
<1>3. enough' <=> enough
  BY <1>1 DEF enough
<1>4. /\ pc = "start" => selected = {}
      /\ pc = "select" => /\ outputs # 0 /\ Cardinality(selected) < MaxInputs
                          /\ selected = {} \/ ~enough
      /\ pc = "settle" => outputs # 0 /\ (enough \/ selected = avail)
      /\ pc \in {"select", "settle", "change"} /\ Fits => EachTakenWhileShort
      /\ pc \in {"settle", "dust", "change"} /\ WalletCovers => HaveAllAssets(accQty)
  BY DEF StopsInTime, enough
<1>5. /\ pc' = "start" => selected' = {}
      /\ pc' = "select" => /\ outputs' # 0 /\ Cardinality(selected') < MaxInputs
                           /\ selected' = {} \/ ~enough'
      /\ pc' = "settle" => outputs' # 0 /\ (enough' \/ selected' = avail')
  BY <1>1, <1>2, <1>3, <1>4
<1>6. pc' \in {"select", "settle", "change"} /\ Fits' => EachTakenWhileShort'
  <2>1. selected = {} => EachTakenWhileShort
    BY DEF EachTakenWhileShort
  <2> QED
    BY <1>1, <1>4, <2>1
<1>7. pc' \in {"settle", "dust", "change"} /\ WalletCovers' => HaveAllAssets(accQty)'
  BY <1>1, <1>4
<1> QED
  BY <1>5, <1>6, <1>7 DEF StopsInTime, enough

\* Taking the next UTxO, with the sums still short before it.
LEMMA SelectStops ==
  ASSUME Inv, Accumulated', NEW e \in avail, Select(e) PROVE StopsInTime'
<1>1. CASE Fail("InvalidParameter")
  BY <1>1, KeepStops DEF Inv, Fail
<1>2. CASE ~Fail("InvalidParameter")
  <2> DEFINE n == Cardinality(selected')
             enough == Enough(acc', accQty', n)
  <2>1. /\ pc = "select" /\ NextUtxo(e) /\ Take(e) /\ UNCHANGED args
        /\ \/ pc' = "settle" /\ (enough \/ (n < MaxInputs /\ selected' = avail))
           \/ pc' = "done"
           \/ pc' = "select" /\ ~enough /\ n < MaxInputs
    BY <1>2 DEF Select
  <2>2. /\ TypeOK /\ Accumulated /\ LargestFirst /\ outputs # 0
        /\ selected = {} \/ ~Enough(acc, accQty, Cardinality(selected))
    BY <2>1 DEF Inv, Accounts, StopsInTime
  <2>3. Fits' => EachTakenWhileShort'
    <3>1. Fits' <=> Fits
      BY <2>1, SameArgs
    <3>2. Fits => EachTakenWhileShort
      BY <2>1 DEF Inv, StopsInTime
    <3> QED
      BY <2>1, <2>2, <3>1, <3>2, TakeLast
  <2>4. Enough(acc, accQty, Cardinality(selected))' <=> enough
    BY <2>1, SameEnough
  <2>5. HaveAllAssets(accQty)' <=> HaveAllAssets(accQty')
    BY <2>1, SameEnough
  <2>6. ASSUME pc' = "settle", WalletCovers PROVE HaveAllAssets(accQty')
    <3>1. CASE enough
      BY <3>1 DEF Enough
    <3>2. CASE selected' = avail
      BY <2>1, <2>6, <3>2, SameSums DEF Accumulated, WalletCovers, HaveAllAssets, args
    <3> QED
      BY <2>1, <2>6, <3>1, <3>2
  <2>7. UNCHANGED <<outputs, avail>> /\ (WalletCovers' <=> WalletCovers)
    BY <2>1, SameSums DEF args
  <2> HIDE DEF enough, n
  <2>8. pc' \in {"settle", "done", "select"}
    BY <2>1
  <2>9. pc' = "settle" => enough \/ selected' = avail'
    BY <2>1, <2>7
  <2>10. pc' = "select" => ~enough /\ n < MaxInputs
    BY <2>1
  <2> QED
    BY <2>2, <2>3, <2>4, <2>5, <2>6, <2>7, <2>8, <2>9, <2>10 DEF StopsInTime, n
<1> QED
  BY <1>1, <1>2

\* More is taken only when a sum overflowed, and what is covered stays covered.
LEMMA FixDustStops ==
  ASSUME Inv, NEW e \in avail, FixDust(e) PROVE StopsInTime'
<1>1. CASE Fail("InvalidParameter")
  BY <1>1, KeepStops DEF Inv, Fail
<1>2. CASE ~Fail("InvalidParameter")
  <2>1. /\ pc = "dust" /\ pc' \in {"change", "dust"} /\ Take(e) /\ UNCHANGED args
    BY <1>2 DEF FixDust
  <2>2. ~Fits'
    BY <2>1, SameArgs DEF Inv, Accounts, DustLoopUnreachable
  <2>3. ASSUME WalletCovers PROVE HaveAllAssets(accQty')
    <3>1. HaveAllAssets(accQty)
      BY <2>1, <2>3 DEF Inv, StopsInTime
    <3>2. \A a \in Assets : accQty'[a] = accQty[a] + qty[e][a]
                            /\ accQty[a] \in Nat /\ qty[e][a] \in Nat /\ want[a] \in Nat
      BY <2>1 DEF Take, Inv, Accounts, TypeOK
    <3> QED
      BY <3>1, <3>2 DEF HaveAllAssets
  <2>4. (WalletCovers' <=> WalletCovers) /\ (HaveAllAssets(accQty)' <=> HaveAllAssets(accQty'))
    BY <2>1, SameSums, SameEnough
  <2> QED
    BY <2>1, <2>2, <2>3, <2>4 DEF StopsInTime
<1> QED
  BY <1>1, <1>2

LEMMA StopsStep == ASSUME Inv, Accumulated', Accounts', [Next]_vars PROVE StopsInTime'
<1>1. CASE UNCHANGED vars
  BY <1>1, KeepStops DEF vars, Inv
<1>2. CASE Start
  BY <1>2, KeepStops DEF Start, Fail, Inv
<1>3. CASE Settle
  <2>1. UNCHANGED <<args, selected, acc, accQty>> /\ pc = "settle"
        /\ (pc' = "done" \/ pc' = "change" \/ pc' = "dust")
    BY <1>3 DEF Settle, Fail
  <2>2. pc' = "dust" => ~Fits
    BY <2>1, SameArgs DEF Accounts, DustLoopUnreachable
  <2> QED
    BY <2>1, <2>2, KeepStops DEF Inv
<1>4. CASE DustUnfixed
  BY <1>4, KeepStops DEF DustUnfixed, Fail, Inv
<1>5. CASE MakeChange
  BY <1>5, KeepStops DEF MakeChange, Fail, Return, Inv
<1> QED
  BY <1>1, <1>2, <1>3, <1>4, <1>5, SelectStops, FixDustStops DEF Next

\* The inductive invariant of the selection, with what its accumulators hold
\* and where its loops stop.
THEOREM Invariance == Spec => []Inv
<1>1. Init => Accumulated /\ StopsInTime
  BY AccumulatedInit DEF Init, StopsInTime
<1>2. Accumulated /\ StopsInTime /\ Accounts /\ Accounts' /\ [Next]_vars
      => Accumulated' /\ StopsInTime'
  BY AccumulatedStep, StopsStep DEF Inv, Accounts
<1>3. Accounts /\ Accumulated /\ StopsInTime => Inv
  BY DEF Inv
<1> QED
  BY <1>1, <1>2, <1>3, AccountsInvariant, PTL DEF Spec

(***************************************************************************)
(* What an outcome says.                                                   *)
(***************************************************************************)

Honest == AssetsConserved /\ ShortestPrefix /\ ErrorsAreHonest

\* A selection that has ended does not move.
LEMMA EndsForGood == ASSUME Inv, [Next]_vars, outcome # "none" PROVE UNCHANGED vars
<1>1. pc = "done"
  BY DEF Inv, Accounts
<1> QED
  BY <1>1 DEF Next, Start, Select, Settle, FixDust, DustUnfixed, MakeChange, Return, Fail

LEMMA SufficesSelected ==
  ASSUME Accumulated
  PROVE  Suffices(selected) <=> Enough(acc, accQty, Cardinality(selected))
  BY DEF Accumulated, Suffices, Enough, HaveAllAssets

LEMMA OtherOutcomes ==
  ASSUME outcome' = "none" PROVE Honest'
  BY DEF Honest, AssetsConserved, ShortestPrefix, ErrorsAreHonest

(* Two of the conditions of ErrorsAreHonest. *)
OverflowsNext ==
    \E e \in avail \ selected :
        \/ CoinOf(selected \cup {e}) > MaxU64
        \/ \E a \in Assets : QtyOf(selected \cup {e}, a) > MaxU64

TooTight ==
    LET left == CoinOf(selected) - asked - FeeFor(Cardinality(selected))
        extra == {a \in Assets : QtyOf(selected, a) > want[a]}
    IN extra # {} /\ MinAda <= left /\ left < MinAdaWith(Cardinality(extra))

LEMMA SameConditions ==
  ASSUME UNCHANGED <<args, selected>>
  PROVE  /\ OverflowsNext' <=> OverflowsNext
         /\ TooTight' <=> TooTight
         /\ TargetOverflows' <=> TargetOverflows
<1>1. UNCHANGED <<avail, selected, asked, want>>
  BY DEF args
<1>2. /\ \A S : CoinOf(S)' = CoinOf(S)
      /\ \A S, a : QtyOf(S, a)' = QtyOf(S, a)
      /\ \A n : FeeFor(n)' = FeeFor(n)
  BY SameSums, SameArgs
<1>3. OverflowsNext' <=> OverflowsNext
  BY <1>1, <1>2 DEF OverflowsNext
<1>4. TooTight' <=> TooTight
  BY <1>1, <1>2 DEF TooTight, MinAda, MinAdaWith
<1> QED
  BY <1>1, <1>3, <1>4 DEF TargetOverflows

\* An overflow is that of the next UTxO.
LEMMA OverflowHonest ==
  ASSUME Inv, NEW e \in avail, NextUtxo(e), Overflows(e), Fail("InvalidParameter")
  PROVE  Honest'
<1>1. TypeOK /\ Accumulated /\ e \in avail \ selected
  BY DEF Inv, Accounts, NextUtxo
<1>2. /\ CoinOf(selected \cup {e}) = acc + coin[e]
      /\ \A a \in Assets : QtyOf(selected \cup {e}, a) = accQty[a] + qty[e][a]
  <2>1. selected \in SUBSET avail
    BY <1>1 DEF TypeOK
  <2>2. /\ CoinOf(selected \cup {e}) = CoinOf(selected) + coin[e]
        /\ \A a \in Assets : QtyOf(selected \cup {e}, a) = QtyOf(selected, a) + qty[e][a]
    BY <1>1, <2>1, SumsOfUtxos
  <2> QED
    BY <1>1, <2>2 DEF Accumulated
<1>3. OverflowsNext
  BY <1>1, <1>2 DEF OverflowsNext, Overflows
<1>4. OverflowsNext'
  BY <1>3, SameConditions DEF Fail
<1> QED
  BY <1>4 DEF Honest, AssetsConserved, ShortestPrefix, ErrorsAreHonest, OverflowsNext, Fail

\* The cap is reported at the cap, with sums that do not suffice.
LEMMA SelectHonest ==
  ASSUME Inv, Accumulated', NEW e \in avail, Select(e), outcome = "none" PROVE Honest'
<1>1. CASE Overflows(e) /\ Fail("InvalidParameter")
  BY <1>1, OverflowHonest DEF Select
<1>3. CASE outcome' = "none"
  BY <1>3, OtherOutcomes
<1>2. CASE outcome' = "ExceededMaximum"
  <2>1. /\ Take(e) /\ NextUtxo(e) /\ UNCHANGED args /\ pc = "select"
        /\ ~Enough(acc', accQty', Cardinality(selected')) /\ Cardinality(selected') >= MaxInputs
    BY <1>2 DEF Select, Fail
  <2>2. ~Suffices(selected)'
    BY <2>1, SufficesSelected, SameEnough DEF Accumulated, Suffices, Enough, HaveAllAssets
  <2>3. Cardinality(selected') = Cardinality(selected) + 1
    BY <2>1, FiniteSelection, FS_AddElement DEF Inv, Accounts, NextUtxo, Take
  <2>4. Cardinality(selected) < MaxInputs /\ Cardinality(selected) \in Int
    BY <2>1, FiniteSelection, FS_CardinalityType DEF Inv, Accounts, StopsInTime
  <2>5. Cardinality(selected') = MaxInputs
    BY <2>1, <2>3, <2>4
  <2> QED
    BY <1>2, <2>2, <2>5
    DEF Honest, AssetsConserved, ShortestPrefix, ErrorsAreHonest
<1> QED
  BY <1>1, <1>2, <1>3 DEF Select, Fail

\* Funds or assets are reported short when the whole wallet has been counted.
LEMMA SettleHonest == ASSUME Inv, Settle, outcome = "none" PROVE Honest'
<1> DEFINE n == Cardinality(selected)
<1>1. CASE outcome' \notin {"InsufficientFunds", "InsufficientAsset"}
  <2>1. outcome' = "none"
    BY <1>1 DEF Settle, Fail
  <2> QED
    BY <2>1, OtherOutcomes
<1>2. CASE outcome' \in {"InsufficientFunds", "InsufficientAsset"}
  <2>1. /\ acc < Needed(n) /\ UNCHANGED <<args, selected, acc, accQty>> /\ pc = "settle"
        /\ outcome' = "InsufficientAsset" => ~HaveAllAssets(accQty)
    BY <1>2 DEF Settle, Fail
  <2>2. /\ TypeOK /\ Accumulated /\ outputs # 0 /\ (Enough(acc, accQty, n) \/ selected = avail)
    BY <2>1 DEF Inv, Accounts, StopsInTime
  <2>3. n \in Nat /\ acc \in Int /\ Needed(n) \in Int
    <3>1. n \in Nat
      BY <2>2, FiniteSelection, FS_CardinalityType
    <3>2. Needed(n) \in Int
      BY <2>2, <3>1, Amounts
    <3> QED
      BY <2>2, <3>1, <3>2 DEF TypeOK
  <2>4. selected = avail
    BY <2>1, <2>2, <2>3 DEF Enough
  <2>5. Fits => CoinOf(avail) < asked + FeeFor(Cardinality(avail)) + MinAda
    BY <2>1, <2>2, <2>3, <2>4, FittingAmounts DEF Accumulated
  <2>6. outcome' = "InsufficientAsset" => ~WalletCovers
    BY <2>1, <2>2, <2>4 DEF WalletCovers, HaveAllAssets, Accumulated
  <2>7. /\ Fits' <=> Fits
        /\ WalletCovers' <=> WalletCovers
        /\ (CoinOf(avail) < asked + FeeFor(Cardinality(avail)) + MinAda)'
             <=> CoinOf(avail) < asked + FeeFor(Cardinality(avail)) + MinAda
        /\ outputs' = outputs
    BY <2>1, SameArgs, SameSums DEF args
  <2> QED
    BY <1>2, <2>2, <2>5, <2>6, <2>7
    DEF Honest, AssetsConserved, ShortestPrefix, ErrorsAreHonest
<1> QED
  BY <1>1, <1>2

\* A success returns what the inputs carry beyond the targets.
LEMMA MakeChangeHonest == ASSUME Inv, MakeChange, outcome = "none" PROVE Honest'
<1>1. CASE outcome' # "Ok"
  <2>1. Carried # {} /\ Left < Reserve /\ Fail("DustChange")
    BY <1>1 DEF MakeChange, Return
  <2>2. ASSUME Fits, WalletCovers PROVE TooTight
    <3>1. TypeOK /\ Accumulated /\ pc = "change" /\ HaveAllAssets(accQty)
      BY <2>2 DEF Inv, Accounts, StopsInTime, MakeChange
    <3>2. \A a \in Assets : Leftover[a] > 0 <=> QtyOf(selected, a) > want[a]
      <4> SUFFICES ASSUME NEW a \in Assets
                   PROVE  Leftover[a] > 0 <=> QtyOf(selected, a) > want[a]
        OBVIOUS
      <4>1. /\ accQty[a] >= want[a] /\ accQty[a] \in 0 .. MaxU64 /\ want[a] \in Nat
            /\ QtyOf(selected, a) = accQty[a]
        BY <3>1 DEF HaveAllAssets, TypeOK, Accumulated
      <4>2. Wrap(accQty[a] - want[a]) = accQty[a] - want[a]
        <5>1. accQty[a] - want[a] \in 0 .. MaxU64
          BY <4>1
        <5> QED
          BY <5>1, WrapIdentity
      <4> QED
        BY <4>1, <4>2 DEF Leftover
    <3>3. Carried = {a \in Assets : QtyOf(selected, a) > want[a]}
      BY <3>2 DEF Carried
    <3> DEFINE n == Cardinality(selected)
    <3>4. /\ n \in 0 .. Cardinality(avail) /\ n \in Nat
          /\ acc \in 0 .. MaxU64 /\ asked \in Nat /\ outputs \in Nat
      BY <3>1, FiniteSelection, FS_CardinalityType DEF TypeOK
    <3>5. FeeFor(n) \in Nat /\ MinAda \in Nat
      BY <3>4, FeeRange, MinAdaRange
    <3>6. acc >= asked + FeeFor(n) + MinAda
      BY <2>2, <3>1 DEF Inv, Accounts, Affordable
    <3>7. Left = acc - asked - FeeFor(n)
      BY <2>2, <3>1, <3>4, <3>5, <3>6, FittingAmounts DEF Left
    <3>8. CoinOf(selected) = acc
      BY <3>1 DEF Accumulated
    <3>9. MinAda <= acc - asked - FeeFor(n)
      BY <3>4, <3>5, <3>6
    <3> HIDE DEF n
    <3> QED
      BY <2>1, <3>3, <3>7, <3>8, <3>9 DEF TooTight, Reserve, n
  <2>3. UNCHANGED <<args, selected>>
    BY <2>1 DEF Fail
  <2>4. Fits' /\ WalletCovers' => TooTight'
    BY <2>2, <2>3, SameArgs, SameSums, SameConditions
  <2> QED
    BY <2>1, <2>4
    DEF Honest, AssetsConserved, ShortestPrefix, ErrorsAreHonest, TooTight, Fail
<1>2. CASE outcome' = "Ok"
  <2>1. /\ UNCHANGED <<args, selected, acc, accQty>> /\ pc = "change"
        /\ change'.tokens = Leftover
    BY <1>2 DEF MakeChange, Return, Fail
  <2>2. TypeOK /\ Accumulated
    BY DEF Inv, Accounts
  <2>3. ASSUME WalletCovers, NEW a \in Assets
        PROVE  QtyOf(selected, a) = want[a] + Leftover[a]
    <3>1. /\ accQty[a] >= want[a] /\ accQty[a] \in 0 .. MaxU64 /\ want[a] \in Nat
          /\ QtyOf(selected, a) = accQty[a]
      BY <2>1, <2>2, <2>3 DEF Inv, StopsInTime, HaveAllAssets, TypeOK, Accumulated
    <3>2. accQty[a] - want[a] \in 0 .. MaxU64
      BY <3>1
    <3>3. Wrap(accQty[a] - want[a]) = accQty[a] - want[a]
      BY <3>2, WrapIdentity
    <3> QED
      BY <3>1, <3>3 DEF Leftover
  <2>4. Fits => EachTakenWhileShort
    BY <2>1 DEF Inv, StopsInTime
  <2>8. LargestFirst' /\ (Suffices(selected)' <=> Suffices(selected))
    BY <2>1, SameArgs, SameEnough DEF Inv, Accounts, LargestFirst, args
  <2>9. ASSUME Fits, WalletCovers PROVE Suffices(selected)
    <3> DEFINE n == Cardinality(selected)
    <3>1. /\ n \in 0 .. Cardinality(avail) /\ n \in Nat
          /\ acc \in 0 .. MaxU64 /\ asked \in Nat /\ outputs \in Nat
      BY <2>2, FiniteSelection, FS_CardinalityType DEF TypeOK
    <3>2. acc >= asked + FeeFor(n) + MinAda
      BY <2>1, <2>9 DEF Inv, Accounts, Affordable
    <3>3. Needed(n) = asked + FeeFor(n) + MinAda
      BY <2>2, <2>9, <3>1, FittingAmounts
    <3>4. HaveAllAssets(accQty)
      BY <2>1, <2>9 DEF Inv, StopsInTime
    <3> QED
      BY <2>2, <3>2, <3>3, <3>4, SufficesSelected DEF Enough
  <2>5. /\ Fits' <=> Fits
        /\ EachTakenWhileShort' <=> EachTakenWhileShort
        /\ WalletCovers' <=> WalletCovers
        /\ \A a : QtyOf(selected, a)' = QtyOf(selected, a)
        /\ want' = want
    BY <2>1, SameArgs, SameSums, SameEnough DEF args
  <2>6. AssetsConserved'
    BY <2>1, <2>3, <2>5 DEF AssetsConserved
  <2>7. ShortestPrefix'
    BY <2>4, <2>5, <2>8, <2>9 DEF ShortestPrefix
  <2> QED
    BY <1>2, <2>6, <2>7 DEF Honest, ErrorsAreHonest
<1> QED
  BY <1>1, <1>2

LEMMA StartHonest == ASSUME Start, outcome = "none" PROVE Honest'
<1>1. CASE outcome' = "none"
  BY <1>1, OtherOutcomes
<1>2. CASE outcome' = "InsufficientFunds"
  <2>1. outputs' # 0 /\ avail' = {}
    BY <1>2 DEF Start, Fail, args
  <2> QED
    BY <1>2, <2>1 DEF Honest, AssetsConserved, ShortestPrefix, ErrorsAreHonest
<1>3. CASE outcome' = "CoinSelectionError"
  <2>1. outputs' = 0
    BY <1>3 DEF Start, Fail, args
  <2> QED
    BY <1>3, <2>1 DEF Honest, AssetsConserved, ShortestPrefix, ErrorsAreHonest
<1>4. CASE outcome' = "InvalidParameter"
  <2>1. TargetOverflows'
    BY <1>4, SameConditions DEF Start, Fail
  <2> QED
    BY <1>4, <2>1 DEF Honest, AssetsConserved, ShortestPrefix, ErrorsAreHonest
<1> QED
  BY <1>1, <1>2, <1>3, <1>4 DEF Start, Fail

LEMMA HonestInvariant == Spec => []Honest
<1>1. Init => Honest
  BY DEF Init, Honest, AssetsConserved, ShortestPrefix, ErrorsAreHonest
<1>2. Inv /\ Inv' /\ Honest /\ [Next]_vars => Honest'
  <2> SUFFICES ASSUME Inv, Inv', Honest, [Next]_vars PROVE Honest'
    OBVIOUS
  <2>1. CASE UNCHANGED vars
    <3>1. UNCHANGED <<args, selected, outcome, change>>
      BY <2>1 DEF vars
    <3>2. /\ Fits' <=> Fits
          /\ EachTakenWhileShort' <=> EachTakenWhileShort
          /\ WalletCovers' <=> WalletCovers
          /\ \A a : QtyOf(selected, a)' = QtyOf(selected, a)
          /\ Suffices(selected)' <=> Suffices(selected)
          /\ (CoinOf(avail) < asked + FeeFor(Cardinality(avail)) + MinAda)'
               <=> CoinOf(avail) < asked + FeeFor(Cardinality(avail)) + MinAda
          /\ UNCHANGED <<want, outputs, avail>>
      BY <3>1, SameArgs, SameSums, SameEnough DEF args
    <3>3. AssetsConserved'
      BY <3>1, <3>2 DEF Honest, AssetsConserved
    <3>4. ShortestPrefix'
      BY <3>1, <3>2, SameArgs DEF Honest, ShortestPrefix, LargestFirst
    <3>5. ErrorsAreHonest'
      BY <3>1, <3>2, SameConditions
      DEF Honest, ErrorsAreHonest, OverflowsNext, TooTight
    <3> QED
      BY <3>3, <3>4, <3>5 DEF Honest
  <2>2. CASE outcome # "none"
    BY <2>1, <2>2, EndsForGood
  <2>3. CASE Next /\ outcome = "none"
    <3>1. ASSUME NEW e \in avail, FixDust(e) PROVE Honest'
      BY <2>3, <3>1, OtherOutcomes, OverflowHonest DEF FixDust
    <3>2. CASE DustUnfixed
      <4>1. ~Fits' /\ outcome' = "DustChange"
        BY <3>2, SameArgs DEF DustUnfixed, Fail, Inv, Accounts, DustLoopUnreachable
      <4> QED
        BY <4>1 DEF Honest, AssetsConserved, ShortestPrefix, ErrorsAreHonest
    <3> QED
      BY <2>3, <3>1, <3>2, StartHonest, SelectHonest, SettleHonest, MakeChangeHonest
      DEF Next, Inv
  <2> QED
    BY <2>1, <2>2, <2>3
<1> QED
  BY <1>1, <1>2, Invariance, PTL DEF Spec

\* The lovelace of the selected inputs is that of the targets, of the change and
\* the fee, unless a sum overflows.
THEOREM CoinIsConserved == Spec => []CoinConserved
<1>1. Inv => CoinConserved
  BY DEF Inv, Accounts, Accumulated, Balanced, CoinConserved
<1> QED
  BY <1>1, Invariance, PTL

\* What the selected inputs carry of an asset is what the targets take and what
\* comes back, if the wallet holds the assets asked for.
THEOREM AssetsAreConserved == Spec => []AssetsConserved
  BY HonestInvariant, PTL DEF Honest

\* Unless a sum overflows, a selection is the shortest prefix of the UTxOs, largest
\* first, that suffices.
THEOREM SelectsShortestPrefix == Spec => []ShortestPrefix
  BY HonestInvariant, PTL DEF Honest

\* Every error the selection returns is true of the targets and the wallet.
THEOREM ErrorsTellTheTruth == Spec => []ErrorsAreHonest
  BY HonestInvariant, PTL DEF Honest

\* Largest first: no UTxO is left aside while one that sorts after it is spent.
THEOREM SpendsLargestFirst == Spec => []LargestFirst
  BY AccountsInvariant, PTL DEF Accounts

\* Every change output holds the min-ADA the code estimates for it.
THEOREM ChangeMeetsItsEstimate == Spec => []ChangeMeetsEstimate
  BY AccountsInvariant, PTL DEF Accounts

\* Unless a sum overflows, the dust-fixing loop is dead code.
THEOREM NoDustLoop == Spec => []DustLoopUnreachable
  BY AccountsInvariant, PTL DEF Accounts

=============================================================================
