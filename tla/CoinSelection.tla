--------------------------- MODULE CoinSelection ---------------------------
(***************************************************************************)
(* largest_first of rust/src/coin_selection.rs: one step per iteration of  *)
(* its loops.  The arguments (the UTxOs, the target outputs) are chosen in *)
(* the initial state and never change.  Arithmetic is that of u64: checked *)
(* where the code uses checked_sum, saturating in the estimates, and       *)
(* wrapping elsewhere, as a release build does.                            *)
(***************************************************************************)
EXTENDS Integers, FiniteSets, Functions

CONSTANTS
    Entries,       \* UTxOs, numbered by transaction hash and output index
    Assets,        \* (policy id, asset name) pairs
    CoinVals,      \* lovelace a UTxO may hold
    QtyVals,       \* units of an asset a UTxO may hold; 0 is its absence
    TargetCoins,   \* lovelace the target outputs may add up to
    TargetQtys,    \* units of an asset the target outputs may add up to
    OutputCounts,  \* how many target outputs there may be
    MinFeeA, MinFeeB, CoinsPerByte,   \* protocol parameters
    MaxInputs,     \* the cap on selected inputs (80)
    MaxU64         \* the largest u64

ASSUME CoinSelectionAssumption ==
    /\ Entries \subseteq Nat /\ IsFiniteSet(Entries) /\ IsFiniteSet(Assets)
    /\ MaxU64 \in Nat /\ MaxInputs \in Nat \ {0}
    /\ MinFeeA \in 0 .. MaxU64 /\ MinFeeB \in 0 .. MaxU64
    /\ CoinsPerByte \in 0 .. MaxU64
    /\ CoinVals \subseteq 0 .. MaxU64 /\ QtyVals \subseteq 0 .. MaxU64
    /\ TargetCoins \subseteq Nat /\ TargetQtys \subseteq Nat
    /\ OutputCounts \subseteq Nat

VARIABLES
    avail,     \* available_utxos, as a set of entries
    coin,      \* lovelace of each
    qty,       \* assets of each
    asked,     \* true sum of the targets' lovelace
    want,      \* true sums of the targets' assets
    outputs,   \* number of target outputs
    pc,        \* where largest_first is
    selected,  \* selected
    acc,       \* accumulated_coin
    accQty,    \* accumulated_assets
    outcome,   \* the Ok or Err returned
    change     \* Ok: fee, lovelace of the change outputs, their assets

args == <<avail, coin, qty, asked, want, outputs>>
vars == <<args, pc, selected, acc, accQty, outcome, change>>

Outcomes == {"none", "Ok", "CoinSelectionError", "ExceededMaximum",
             "InsufficientFunds", "InsufficientAsset", "InvalidParameter",
             "DustChange"}

PCs == {"start", "select", "settle", "dust", "change", "done"}

\* Ok's payload: lovelace of the pure-ADA change output and of the one that
\* carries tokens (0: there is no such output), and those tokens.
NoTokens == [a \in Assets |-> 0]
NoChange == [fee |-> 0, pure |-> 0, multi |-> 0, tokens |-> NoTokens]

-----------------------------------------------------------------------------
(* u64 arithmetic and the estimates.                                       *)

Wrap(x) == x % (MaxU64 + 1)
Saturate(x) == IF x > MaxU64 THEN MaxU64 ELSE x

\* estimate_min_ada: a 57-byte output and 160 bytes of overhead.
MinAda == Saturate(CoinsPerByte * 217)

\* estimate_min_ada_for_multi_asset_output, for k distinct assets.
MinAdaWith(k) == Saturate(CoinsPerByte * (295 + 10 * k))

\* Target outputs and up to two change outputs.
EstOutputs == outputs + 2

\* estimate_fee_for_inputs(n, est_num_outputs).
FeeFor(n) ==
    Saturate(MinFeeB + Saturate(MinFeeA * (250 + n * 143 + EstOutputs * 65)))

\* target_coin: an unchecked sum.
Target == Wrap(asked)

\* Mutant of Needed: no min-ADA is set aside for the change.
NeededNoMinAda(n) == Wrap(Target + FeeFor(n))

\* Mutant of Needed: min-ADA is set aside for both change outputs.
NeededBoth(n) == Wrap(Target + FeeFor(n) + MinAda + MinAda)

\* needed_coin, and what the final validation asks for.
Needed(n) == Wrap(Target + FeeFor(n) + MinAda)

\* Mutant of ChangeCoin: the fee is not taken from the change.
ChangeCoinNoFee(total, n) == Wrap(total - Target)

\* accumulated_coin - target_coin - fee.
ChangeCoin(total, n) == Wrap(total - Target - FeeFor(n))

-----------------------------------------------------------------------------

TypeOK ==
    /\ avail \subseteq Entries
    /\ coin \in [avail -> 0 .. MaxU64]
    /\ qty \in [avail -> [Assets -> 0 .. MaxU64]]
    /\ asked \in Nat /\ outputs \in Nat
    /\ want \in [Assets -> Nat]
    /\ pc \in PCs
    /\ selected \subseteq avail
    /\ acc \in 0 .. MaxU64
    /\ accQty \in [Assets -> 0 .. MaxU64]
    /\ outcome \in Outcomes
    /\ change \in [fee : 0 .. MaxU64, pure : 0 .. MaxU64, multi : 0 .. MaxU64,
                   tokens : [Assets -> 0 .. MaxU64]]

Init ==
    /\ avail \in SUBSET Entries
    /\ coin \in [avail -> CoinVals]
    /\ qty \in [avail -> [Assets -> QtyVals]]
    /\ outputs \in OutputCounts
    /\ asked \in IF outputs = 0 THEN {0} ELSE TargetCoins
    /\ want \in [Assets -> IF outputs = 0 THEN {0} ELSE TargetQtys]
    /\ asked <= outputs * MaxU64   \* every output holds a u64
    /\ pc = "start"
    /\ selected = {}
    /\ acc = 0
    /\ accQty = NoTokens
    /\ outcome = "none"
    /\ change = NoChange

Fail(err) ==
    /\ pc' = "done"
    /\ outcome' = err
    /\ UNCHANGED <<args, selected, acc, accQty, change>>

\* aggregate_assets: checked sums of the targets' assets.
TargetOverflows == \E a \in Assets : want[a] > MaxU64

\* The early returns.
Start ==
    /\ pc = "start"
    /\ \/ outputs = 0 /\ Fail("CoinSelectionError")
       \/ outputs # 0 /\ avail = {} /\ Fail("InsufficientFunds")
       \/ /\ outputs # 0 /\ avail # {} /\ TargetOverflows
          /\ Fail("InvalidParameter")
       \/ /\ outputs # 0 /\ avail # {} /\ ~TargetOverflows
          /\ pc' = "select"
          /\ UNCHANGED <<args, selected, acc, accQty, outcome, change>>

\* The order of the sort: lovelace descending, then hash and index.
Before(e, f) == coin[e] > coin[f] \/ (coin[e] = coin[f] /\ e < f)

\* e is the next element of the sorted list that is not selected yet.
NextUtxo(e) ==
    /\ e \in avail \ selected
    /\ \A f \in avail \ selected : f # e => Before(e, f)

Overflows(e) ==
    \/ acc + coin[e] > MaxU64
    \/ \E a \in Assets : accQty[a] + qty[e][a] > MaxU64

\* checked_sum of the lovelace and of every asset of e.
Take(e) ==
    /\ selected' = selected \cup {e}
    /\ acc' = acc + coin[e]
    /\ accQty' = [a \in Assets |-> accQty[a] + qty[e][a]]

HaveAllAssets(have) == \A a \in Assets : have[a] >= want[a]

Enough(total, have, n) == total >= Needed(n) /\ HaveAllAssets(have)

\* Mutant of Select: the sums are compared before the UTxO is added to them.
SelectLate(e) ==
    /\ pc = "select"
    /\ NextUtxo(e)
    /\ ~Overflows(e)
    /\ Take(e)
    /\ pc' = IF Enough(acc, accQty, Cardinality(selected)) \/ selected' = avail
             THEN "settle" ELSE "select"
    /\ UNCHANGED <<args, outcome, change>>

\* One iteration of the greedy loop.
Select(e) ==
    /\ pc = "select"
    /\ NextUtxo(e)
    /\ \/ Overflows(e) /\ Fail("InvalidParameter")
       \/ /\ ~Overflows(e)
          /\ Take(e)
          /\ LET n == Cardinality(selected')
                 enough == Enough(acc', accQty', n)
             IN \/ /\ enough \/ (n < MaxInputs /\ selected' = avail)
                   /\ pc' = "settle"
                   /\ UNCHANGED outcome
                \/ /\ ~enough /\ n >= MaxInputs
                   /\ pc' = "done"
                   /\ outcome' = "ExceededMaximum"
                \/ /\ ~enough /\ n < MaxInputs /\ selected' # avail
                   /\ UNCHANGED <<pc, outcome>>
          /\ UNCHANGED <<args, change>>

\* The final validation, and the test for dust change.
Settle ==
    /\ pc = "settle"
    /\ LET n == Cardinality(selected)
           short == acc < Needed(n)
           dust == ChangeCoin(acc, n) > 0 /\ ChangeCoin(acc, n) < MinAda
       IN \/ short /\ ~HaveAllAssets(accQty) /\ Fail("InsufficientAsset")
          \/ short /\ HaveAllAssets(accQty) /\ Fail("InsufficientFunds")
          \/ /\ ~short
             /\ pc' = IF dust THEN "dust" ELSE "change"
             /\ UNCHANGED <<args, selected, acc, accQty, outcome, change>>

\* One iteration of the dust-fixing loop.
FixDust(e) ==
    /\ pc = "dust"
    /\ NextUtxo(e)
    /\ \/ Overflows(e) /\ Fail("InvalidParameter")
       \/ /\ ~Overflows(e)
          /\ Take(e)
          /\ pc' = IF ChangeCoin(acc', Cardinality(selected')) >= MinAda
                   THEN "change" ELSE "dust"
          /\ UNCHANGED <<args, outcome, change>>

DustUnfixed == pc = "dust" /\ selected = avail /\ Fail("DustChange")

\* Mutant of Leftover: what the targets take is returned as well.
LeftoverAll == accQty

\* change_assets: what was accumulated, less what the targets take.  An asset
\* that no selected UTxO carries has no entry.
Leftover ==
    [a \in Assets |-> IF accQty[a] = 0 THEN 0 ELSE Wrap(accQty[a] - want[a])]

\* change_coin with the final input count, and the assets change must carry.
Left == ChangeCoin(acc, Cardinality(selected))
Carried == {a \in Assets : Leftover[a] > 0}

\* min_ada_multi.
Reserve == MinAdaWith(Cardinality(Carried))

Return(pure, multi) ==
    /\ pc' = "done"
    /\ outcome' = "Ok"
    /\ change' = [fee |-> FeeFor(Cardinality(selected)), pure |-> pure,
                  multi |-> multi, tokens |-> Leftover]
    /\ UNCHANGED <<args, selected, acc, accQty>>

\* Mutant of MakeChange: the output with tokens takes only what is left.
MakeChangeAdaFirst ==
    /\ pc = "change"
    /\ Return(MinAda, Left - MinAda)

\* Build the change outputs.
MakeChange ==
    /\ pc = "change"
    /\ \/ Carried = {} /\ Return(Left, 0)
       \/ Carried # {} /\ Left < Reserve /\ Fail("DustChange")
       \/ Carried # {} /\ Left - Reserve >= MinAda /\ Return(Left - Reserve, Reserve)
       \/ /\ Carried # {} /\ Left >= Reserve /\ Left - Reserve < MinAda
          /\ Return(0, Left)

Next == \/ Start
        \/ \E e \in avail : Select(e) \/ FixDust(e)
        \/ Settle
        \/ DustUnfixed
        \/ MakeChange

Spec == Init /\ [][Next]_vars

-----------------------------------------------------------------------------
(* Properties.                                                             *)

CoinOf(S) == SumFunctionOnSet(coin, S)
QtyOf(S, a) == SumFunctionOnSet([e \in avail |-> qty[e][a]], S)

\* What these UTxOs hold would have been enough.
Suffices(S) == Enough(CoinOf(S), [a \in Assets |-> QtyOf(S, a)], Cardinality(S))

\* The wallet holds every asset the targets take.
WalletCovers == \A a \in Assets : QtyOf(avail, a) >= want[a]

\* No sum of the selection exceeds a u64.
Fits == \A n \in 0 .. Cardinality(avail) : asked + FeeFor(n) + MinAda <= MaxU64

\* coin_selection.rs:20: the lovelace of the selected inputs is that of the
\* targets, of the change and the fee, unless a sum overflows.
CoinConserved ==
    outcome = "Ok" /\ Fits =>
        CoinOf(selected) = asked + change.pure + change.multi + change.fee

\* The same of the accumulator, whenever no sum overflows.
Balanced ==
    outcome = "Ok" /\ Fits =>
        acc = asked + change.pure + change.multi + change.fee

\* coin_selection.rs:21, and the other half of it: when the wallet holds the
\* assets asked for, the selected inputs carry them and whatever they carry
\* beyond comes back as change.
AssetsConserved ==
    outcome = "Ok" /\ WalletCovers =>
        \A a \in Assets : QtyOf(selected, a) = want[a] + change.tokens[a]

\* Every change output the selection plans holds the min-ADA the code estimates
\* for it (coin_selection.rs:251-257), also when the change is split.  The estimate
\* counts one policy and short names: for several policies, or names of 32 bytes,
\* the ledger asks for more, and such a plan may still be refused.
ChangeMeetsEstimate ==
    outcome = "Ok" /\ Fits =>
        LET carried == {a \in Assets : change.tokens[a] > 0}
        IN /\ change.pure = 0 \/ change.pure >= MinAda
           /\ IF carried = {}
              THEN change.multi = 0
              ELSE change.multi >= MinAdaWith(Cardinality(carried))

\* "prioritizing larger inputs": no UTxO is left aside while one that sorts
\* after it is spent.  Two selections from one UTxO set therefore share their
\* first input, and the payments built on them exclude each other.
LargestFirst ==
    \A e \in selected, f \in avail \ selected : Before(e, f)

\* Every input was taken because those that sort before it did not suffice.  (A
\* selection has one input at least, whatever it pays for.)
InputsBefore(e) == {f \in selected : Before(f, e)}

EachTakenWhileShort ==
    \A e \in selected : InputsBefore(e) # {} => ~Suffices(InputsBefore(e))

\* Unless a sum overflows, a selection is the shortest prefix of the UTxOs, largest
\* first, that suffices; that it suffices takes a wallet with the assets asked for.
\* It is not the "minimal set" of coin_selection.rs:40: of a larger UTxO without
\* the token wanted and a smaller one with it, both are spent, though the second
\* may be enough alone.
ShortestPrefix ==
    outcome = "Ok" /\ Fits =>
        /\ LargestFirst
        /\ EachTakenWhileShort
        /\ WalletCovers => Suffices(selected)

\* Every error is true of the targets and the wallet.  Unless a sum overflows, funds
\* or assets are only reported short when the whole wallet has been counted and is
\* short or empty; the cap is only reported at the cap, an overflow at the UTxO
\* that overflows a sum.  DustChange, unlike its doc (coin_selection.rs:55), says
\* nothing of the UTxOs that are left: the change of the inputs taken is min-ADA
\* at least, but not what the tokens it must carry are estimated to need.
ErrorsAreHonest ==
    /\ outcome = "CoinSelectionError" => outputs = 0
    /\ outcome = "InvalidParameter" =>
          \/ TargetOverflows
          \/ \E e \in avail \ selected :
                \/ CoinOf(selected \cup {e}) > MaxU64
                \/ \E a \in Assets : QtyOf(selected \cup {e}, a) > MaxU64
    /\ outcome = "DustChange" /\ Fits /\ WalletCovers =>
          LET left == CoinOf(selected) - asked - FeeFor(Cardinality(selected))
              extra == {a \in Assets : QtyOf(selected, a) > want[a]}
          IN extra # {} /\ MinAda <= left /\ left < MinAdaWith(Cardinality(extra))
    /\ outcome = "InsufficientFunds" /\ Fits =>
          /\ outputs # 0
          /\ avail = {} \/ CoinOf(avail) < asked + FeeFor(Cardinality(avail)) + MinAda
    /\ outcome = "InsufficientAsset" /\ Fits =>
          /\ CoinOf(avail) < asked + FeeFor(Cardinality(avail)) + MinAda
          /\ ~WalletCovers
    /\ outcome = "ExceededMaximum" =>
          Cardinality(selected) = MaxInputs /\ ~Suffices(selected)

\* The dust-fixing loop never runs unless a sum overflows: the final validation
\* has already asked for min-ADA of change.
DustLoopUnreachable == Fits => pc # "dust"

\* The inductive invariant.  A selection that reached its change has set aside
\* the targets, the fee of its inputs and min-ADA.
Affordable ==
    pc = "change" /\ Fits => acc >= asked + FeeFor(Cardinality(selected)) + MinAda

\* The accumulators hold what the selected UTxOs hold.
Accumulated ==
    /\ acc = CoinOf(selected)
    /\ \A a \in Assets : accQty[a] = QtyOf(selected, a)

\* The loop goes on only while it is short, and ends at the first input that
\* makes the sums suffice, at the cap, or with the wallet.
StopsInTime ==
    LET enough == Enough(acc, accQty, Cardinality(selected)) IN
    /\ pc = "start" => selected = {}
    /\ pc = "select" => /\ outputs # 0
                        /\ Cardinality(selected) < MaxInputs
                        /\ selected = {} \/ ~enough
    /\ pc = "settle" => outputs # 0 /\ (enough \/ selected = avail)
    /\ pc \in {"select", "settle", "change"} /\ Fits => EachTakenWhileShort
    /\ pc \in {"settle", "dust", "change"} /\ WalletCovers => HaveAllAssets(accQty)

\* What can be said of the accumulators without knowing what they sum up.
Accounts == /\ TypeOK
            /\ pc = "done" <=> outcome # "none"
            /\ Affordable
            /\ LargestFirst
            /\ DustLoopUnreachable
            /\ Balanced
            /\ ChangeMeetsEstimate

Inv == /\ Accounts
       /\ Accumulated
       /\ StopsInTime

\* coin_selection.rs:16, 21 and 54 say that an asset the selected inputs do not cover
\* is an error.  The code looks at the assets only when the lovelace is short.
UncoveredAssetIsError ==
    outcome = "Ok" => \A a \in Assets : QtyOf(selected, a) >= want[a]

=============================================================================
