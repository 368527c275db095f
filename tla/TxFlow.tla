------------------------------- MODULE TxFlow -------------------------------
(***************************************************************************)
(* Transactions of one wallet from the tap to the ledger: what a screen    *)
(* asks of the builders of TxBuild, with the account as it read it earlier *)
(* (example/lib/stake_screen.dart) and the UTxOs as it fetches them, while *)
(* another screen or device of the same wallet does the same and epochs    *)
(* pass.  The ledger is modelled by its rules.                             *)
(***************************************************************************)
EXTENDS TxBuild

CONSTANTS
    Screens,    \* screens or devices using the wallet
    Asks,       \* what their users ask for
    Wallet,     \* the wallet's first outputs
    NoReceipt,
    MaxTxs,     \* bound: taps
    MaxRewards, \* bound: rewards on the account
    MaxSlot     \* bound: slots

VARIABLES
    unspent,  \* the wallet's outputs on the ledger
    account,  \* its stake account there
    slot,
    info,     \* _accountInfo of each screen
    job,      \* where its transaction is
    taps

vars == <<unspent, account, slot, info, job, taps>>

-----------------------------------------------------------------------------
(* Requests.  An image is a text of characters of 1 to 4 bytes.            *)

Key == "stake"
KeyPolicy == WireMakePubkeyScript(<<"payment">>)
LockedPolicy == WireMakeTimelockExpiryScript(<<"payment", ExpirySlot>>)

Ops == {"register", "delegate", "withdraw", "deregister", "pay", "mint", "unlock"}

Requests ==
    {a \in [op : Ops, to : {"them", Malformed}, coin : Nat,
            assets : SUBSET [policy : Policies, name : Names \cup {LongName}, quantity : Nat],
            policy : Policies, mint : Seq([name : Names \cup {LongName}, quantity : Int]),
            image : Seq(1 .. 4), pool : {"pool", Malformed, OtherHex},
            data : Seq({"data", Malformed, OtherHex}),
            items : Seq({"data", Malformed, OtherHex}), ttl : Int] :
        /\ a.op # "pay" => a.coin = 0 /\ a.assets = {}
        /\ a.op = "mint" <=> a.mint # <<>>
        /\ a.image # <<>> => a.op = "mint"}

NoAsk == [op |-> "none", to |-> "them", coin |-> 0, assets |-> {}, policy |-> KeyPolicy,
          mint |-> <<>>, image |-> <<>>, pool |-> "pool", data |-> <<>>, items |-> <<>>, ttl |-> NoTtl]

(* A transaction on its way: the reading of the rewards and the UTxOs,     *)
(* regular and locked by a script, that it is built from.                  *)
Job(at, id, ask, reward, inputs, locked, built) ==
    [at |-> at, id |-> id, ask |-> ask, reward |-> reward, inputs |-> inputs,
     locked |-> locked, built |-> built]

NoJob == Job("idle", 0, NoAsk, 0, <<>>, <<>>, Failed("None"))

-----------------------------------------------------------------------------
(* The ledger.  An outpoint is the number of a transaction and an index; an *)
(* output is locked by a key or by a script.                               *)

NewAccount == [registered |-> FALSE, delegated |-> FALSE, deposit |-> 0, rewards |-> 0]

(* One that was registered and delegated before. *)
EarningAccount == [registered |-> TRUE, delegated |-> TRUE, deposit |-> KeyDeposit, rewards |-> 1]

Outputs == [owner : {"key", "script"}, coin : Nat, tokens : [Policies -> [Names -> Nat]]]

Receipts == [fee : Int, deposit_change : Int, paid : Nat, tokens : [Policies \X Names -> Int]]

ASSUME TxFlowAssumption ==
    /\ {Malformed, OtherHex} \cap {"mine", "them", "stake", "pool", "data"} = {}
    /\ OtherHex # Malformed
    /\ MaxText >= 4
    /\ Asks \subseteq Requests
    /\ Wallet \in [DOMAIN Wallet -> Outputs]
    /\ IsFiniteSet(DOMAIN Wallet) /\ DOMAIN Wallet \subseteq {0} \X Nat
    /\ NoReceipt \notin Receipts

Init ==
    /\ unspent = Wallet
    /\ \/ account = NewAccount /\ taps = 0
       \/ account = EarningAccount /\ taps = 1
    /\ slot = 0
    /\ info = [s \in Screens |-> account]
    /\ job = [s \in Screens |-> NoJob]

Balanced(tx) ==
    LET spent == [c \in tx.inputs |-> unspent[c]]
        refund == IF tx.cert = "deregister" THEN account.deposit ELSE 0
        held == IF tx.cert = "register" THEN KeyDeposit ELSE 0
    IN /\ TotalCoin(spent) + tx.withdrawal + refund = TotalCoin(tx.outputs) + held + tx.fee
       /\ \A p \in Policies, n \in Names :
            TotalTokens(spent, p, n) + tx.mint[p][n] = TotalTokens(tx.outputs, p, n)

Minting(tx) == {p \in Policies : \E n \in Names : tx.mint[p][n] # 0}

Scripted(tx) == Minting(tx) \cup {c \in tx.inputs : unspent[c].owner = "script"}

(* What the account and the clock must be like for a transaction. *)
Timely(tx) ==
    /\ tx.inputs \subseteq DOMAIN unspent
    /\ tx.cert = "register" => ~account.registered
    /\ tx.cert \in {"delegate", "deregister"} => account.registered
    /\ tx.cert = "deregister" => account.rewards = 0
    /\ tx.withdrawal # 0 => account.registered /\ tx.withdrawal = account.rewards
    /\ tx.ttl # NoTtl => slot <= tx.ttl
    /\ \A p \in Minting(tx) : p.expiry = NoTtl \/ (tx.ttl # NoTtl /\ tx.ttl <= p.expiry)

(* The limits of the protocol parameters. *)
WithinLimits(tx) ==
    /\ tx.fee >= MinFee + (IF tx.change THEN ChangeFee ELSE 0)
    /\ \A i \in DOMAIN tx.outputs :
            tx.outputs[i].coin >= MinAdaForOutput(tx.outputs[i])
    /\ \A i \in DOMAIN tx.aux : Bytes(tx.aux[i]) <= MaxText
    /\ TxSize(tx) <= MaxTxSize

WellFormed(tx, scripts) ==
    /\ tx.inputs # {} /\ Balanced(tx) /\ WithinLimits(tx)
    /\ Scripted(tx) \subseteq scripts

Valid(tx, scripts) == Timely(tx) /\ WellFormed(tx, scripts)

Apply(tx, id) ==
    LET kept == {c \in DOMAIN unspent : c \notin tx.inputs}
        mine == {<<id, i>> : i \in {j \in DOMAIN tx.outputs : tx.outputs[j].address = "mine"}}
    IN /\ unspent' = [c \in kept \cup mine |->
                        IF c \in kept THEN unspent[c]
                        ELSE [owner |-> "key", coin |-> tx.outputs[c[2]].coin,
                              tokens |-> tx.outputs[c[2]].tokens]]
       /\ account' = [registered |-> CASE tx.cert = "register" -> TRUE
                                       [] tx.cert = "deregister" -> FALSE
                                       [] OTHER -> account.registered,
                      delegated |-> CASE tx.cert = "delegate" -> TRUE
                                      [] tx.cert = "deregister" -> FALSE
                                      [] OTHER -> account.delegated,
                      deposit |-> CASE tx.cert = "register" -> KeyDeposit
                                    [] tx.cert = "deregister" -> 0
                                    [] OTHER -> account.deposit,
                      rewards |-> account.rewards - tx.withdrawal]

-----------------------------------------------------------------------------
(* The screens *)

(* The initial reading, the refresh button and the reading that follows a  *)
(* confirmed transaction.                                                  *)
Load(s) ==
    /\ job[s].at \notin {"tapped", "built"}
    /\ info' = [info EXCEPT ![s] = account]
    /\ UNCHANGED <<unspent, account, slot, job, taps>>

(* The buttons, as they are drawn for _accountInfo. *)
Offered(s, op) ==
    /\ op = "register" => ~info[s].registered
    /\ op \in {"delegate", "deregister", "withdraw"} => info[s].registered
    /\ op = "withdraw" => info[s].rewards # 0

Tap(s) ==
    /\ job[s].at \notin {"tapped", "built"} /\ taps < MaxTxs
    /\ \E a \in Asks :
        /\ Offered(s, a.op)
        /\ job' = [job EXCEPT ![s] = Job("tapped", taps + 1, a, info[s].rewards, <<>>, <<>>,
                                         Failed("None"))]
    /\ taps' = taps + 1
    /\ UNCHANGED <<unspent, account, slot, info>>

(* A UTxO as Blockfrost lists it, and as a TxInput. *)
ToTxInput(u) == [coin |-> u.coin, assets |-> AssetsOf(u.tokens)]

TxInputs(coins) == [c \in coins |-> ToTxInput(unspent[c])]

Owned(by) == {c \in DOMAIN unspent : unspent[c].owner = by}

PureAda == {c \in Owned("key") : ~HasTokens(unspent[c].tokens)}

(* The outputs a request spends: the staking screen takes all of them, the *)
(* mint screen the largest without tokens when there is one, a payment any.*)
Selections(a) ==
    CASE a.op = "pay" -> SUBSET Owned("key")
      [] a.op = "mint" /\ PureAda # {} ->
            {{c} : c \in {d \in PureAda : \A e \in PureAda : unspent[e].coin <= unspent[d].coin}}
      [] OTHER -> {Owned("key")}

(* The bridge call a request ends in, its arguments in wire order. *)
Call(a, ins, locked, collateral, reward) ==
    LET params == "params"
        aux == WireBuildCip25Metadata(<<[name |-> a.mint[1].name, image |-> a.image,
                                         media_type |-> <<1>>]>>)
    IN CASE a.op = "register" ->
              WireBuildStakeRegistrationTx(<<Key, ins, "mine", 0, a.ttl, params>>)
         [] a.op = "delegate" ->
              WireBuildDelegationTx(<<Key, a.pool, ins, "mine", 0, a.ttl, params>>)
         [] a.op = "withdraw" ->
              WireBuildRewardWithdrawalTx(<<Key, reward, ins, "mine", 0, a.ttl, params>>)
         [] a.op = "deregister" ->
              WireBuildStakeDeregistrationTx(<<Key, ins, "mine", 0, a.ttl, params>>)
         [] a.op = "pay" ->
              WireBuildTx(<<ins, <<[address |-> a.to,
                                    value |-> [coin |-> a.coin, assets |-> a.assets]]>>,
                            "mine", a.ttl, params>>)
         [] a.op = "mint" ->
              IF a.image # <<>> /\ aux.err # "None" THEN aux
              ELSE WireBuildMintTx(<<ins, <<>>, "mine",
                                     <<[policy |-> a.policy, assets |-> a.mint]>>,
                                     IF a.image = <<>> THEN <<>> ELSE aux.aux, a.ttl, params>>)
         [] a.op = "unlock" ->
              IF WirePlutusDataConstr(<<0, a.data>>) # "None"
              THEN Failed(WirePlutusDataConstr(<<0, a.data>>))
              ELSE IF WirePlutusDataList(<<a.items>>) # "None"
              THEN Failed(WirePlutusDataList(<<a.items>>))
              ELSE WireBuildScriptTx(<<[inputs |-> locked, datum |-> "data",
                                        redeemer |-> "data"], ins, <<>>, "mine",
                                       collateral, {}, a.ttl, params>>)

Build(s) ==
    LET j == job[s]
        locked == TxInputs(IF j.ask.op = "unlock" THEN Owned("script") ELSE {})
    IN
    /\ j.at = "tapped"
    /\ \E coins \in Selections(j.ask) :
        LET r == Call(j.ask, TxInputs(coins), locked, PureAda, j.reward) IN
        job' = [job EXCEPT ![s] = Job(IF r.err = "None" THEN "built" ELSE "failed", j.id, j.ask,
                                      j.reward, TxInputs(coins), locked, r)]
    /\ UNCHANGED <<unspent, account, slot, info, taps>>

(* The signed transaction is submitted, and waits for the block. *)
Submit(s) ==
    LET r == job[s].built IN
    /\ job[s].at = "built"
    /\ \/ Valid(r.body, r.witness_set) /\ Apply(r.body, job[s].id)
       \/ ~Valid(r.body, r.witness_set) /\ UNCHANGED <<unspent, account>>
    /\ job' = [job EXCEPT ![s] = NoJob]
    /\ UNCHANGED <<slot, info, taps>>

Epoch ==
    /\ account.delegated /\ account.rewards < MaxRewards
    /\ account' = [account EXCEPT !.rewards = @ + 1]
    /\ UNCHANGED <<unspent, slot, info, job, taps>>

Tick ==
    /\ slot < MaxSlot
    /\ slot' = slot + 1
    /\ UNCHANGED <<unspent, account, info, job, taps>>

Next ==
    \/ Epoch \/ Tick
    \/ \E s \in Screens : Load(s) \/ Tap(s) \/ Build(s) \/ Submit(s)

Spec == Init /\ [][Next]_vars

-----------------------------------------------------------------------------
(* Properties *)

Accounts == [registered : BOOLEAN, delegated : BOOLEAN, deposit : Nat, rewards : Nat]

(* All a transaction spends. *)
Spent(j) ==
    [c \in DOMAIN j.inputs \cup DOMAIN j.locked |->
        IF c \in DOMAIN j.locked THEN j.locked[c] ELSE j.inputs[c]]

TypeOK ==
    /\ unspent \in [DOMAIN unspent -> Outputs]
    /\ IsFiniteSet(DOMAIN unspent) /\ DOMAIN unspent \subseteq (0 .. taps) \X Nat
    /\ account \in Accounts /\ info \in [Screens -> Accounts]
    /\ slot \in Nat /\ taps \in Nat
    /\ DOMAIN job = Screens
    /\ \A s \in Screens :
        /\ job[s].at \in {"idle", "tapped", "built", "failed"}
        /\ job[s].at # "idle" => job[s].ask \in Asks
        /\ job[s].id \in 0 .. taps /\ job[s].reward \in Nat
        /\ job[s].at = "built" =>
            /\ DOMAIN Spent(job[s]) \subseteq (0 .. taps) \X Nat
            /\ job[s].ask.op # "unlock" => DOMAIN job[s].locked = {}

(* The deposit of the account is held while it is registered. *)
Held == account.deposit = IF account.registered THEN KeyDeposit ELSE 0

(* The outputs of a transaction will be new on the ledger: neither an      *)
(* output there nor the input of another has its number.                   *)
Fresh(s) ==
    job[s].at \in {"tapped", "built"} =>
        /\ \A c \in DOMAIN unspent : c[1] # job[s].id
        /\ \A t \in Screens : t # s =>
            /\ job[t].at \in {"tapped", "built"} => job[t].id # job[s].id
            /\ job[t].at = "built" => \A c \in DOMAIN Spent(job[t]) : c[1] # job[s].id

(* What a transaction was built from is what the ledger held, and holds as *)
(* far as it is unspent: a dApp that asks for the same UTxOs (getUtxos) is *)
(* told of every token of each.                                            *)
FromLedger(j) ==
    \A c \in DOMAIN Spent(j) \cap DOMAIN unspent :
        /\ unspent[c].owner = (IF c \in DOMAIN j.locked THEN "script" ELSE "key")
        /\ WireUtxoToCborHex(<<Spent(j)[c]>>) =
                Ok([coin |-> unspent[c].coin, tokens |-> unspent[c].tokens])

(* And of their sum (getBalance). *)
Told(j) ==
    WireValueToCborHex(<<WireSumValues(<<j.inputs>>).ok>>) =
        Ok([coin |-> TotalCoin(j.inputs),
            tokens |-> [p \in Policies |-> [n \in Names |->
                TotalTokens(InputsToCsl(j.inputs), p, n)]]])

(* The metadata text is whole, in whatever chunks it was cut. *)
TextWhole(j) == FlattenSeq(j.built.body.aux) = j.ask.image

CslOutputs == [address : {"mine", "them"}, coin : Nat, tokens : [Policies -> [Names -> Nat]]]

(* What was asked and reported is in the body, and it adds up. *)
AsAsked(j) ==
    LET a == j.ask
        tx == j.built.body
        spent == InputsToCsl(Spent(j))
        theirs == [i \in {k \in DOMAIN tx.outputs : tx.outputs[k].address # "mine"} |-> tx.outputs[i]]
        refund == IF tx.cert = "deregister" THEN KeyDeposit ELSE 0
        held == IF tx.cert = "register" THEN KeyDeposit ELSE 0
    IN /\ tx.inputs = DOMAIN Spent(j) /\ tx.inputs # {}
       /\ tx.outputs \in Seq(CslOutputs) /\ tx.withdrawal \in Nat /\ tx.fee \in Nat
       /\ WithinLimits(tx) /\ Minting(tx) \subseteq j.built.witness_set
       /\ j.built.fee = tx.fee /\ j.built.deposit_change = refund - held
       /\ TotalCoin(theirs) = a.coin
       /\ TotalCoin(spent) + tx.withdrawal + refund = TotalCoin(tx.outputs) + held + tx.fee
       /\ \A p \in Policies, n \in Names :
            /\ TotalTokens(theirs, p, n) = Quantity(a.assets, p, n)
            /\ tx.mint[p][n] = Minted([policy |-> a.policy, assets |-> a.mint], p, n)
            /\ TotalTokens(spent, p, n) + tx.mint[p][n] = TotalTokens(tx.outputs, p, n)

Inv ==
    /\ TypeOK /\ Held
    /\ \A s \in Screens :
        /\ Fresh(s)
        /\ job[s].at = "built" =>
            FromLedger(job[s]) /\ Told(job[s]) /\ TextWhole(job[s]) /\ AsAsked(job[s])

(* A transaction the builders of tx.rs, staking.rs and minting.rs returned *)
(* can be refused only because of the account or the clock: as long as its *)
(* inputs are unspent, the account is what it was built for and its slots  *)
(* have not passed, it balances on the ledger, pays its fee and its         *)
(* minimum lovelace and brings the scripts it needs.  build_script_tx       *)
(* returns no witness set: its caller must add the scripts.                *)
RefusedOnlyByTheChain ==
    \A s \in Screens : LET r == job[s].built IN
        job[s].at = "built" /\ Timely(r.body) =>
            WellFormed(r.body, r.witness_set
                \cup (IF job[s].ask.op = "unlock" THEN Owned("script") ELSE {}))

(* What is wrong with the request, for each error. *)
Honest(j) ==
    LET a == j.ask
        ins == InputsToCsl(Spent(j))
        minted(p, n) == Minted([policy |-> a.policy, assets |-> a.mint], p, n)
        names == {a.mint[i].name : i \in DOMAIN a.mint} \cup {x.name : x \in a.assets}
        least == \E i \in DOMAIN a.mint : a.mint[i].quantity = MinInt
        data == Range(a.data) \cup Range(a.items)
        parts == Cardinality(DOMAIN Spent(j)) + (IF a.op = "pay" THEN 2 ELSE 1)
                    + (IF a.image = <<>> THEN 0 ELSE Len(TextOrChunks(a.image)))
    IN CASE j.built.err = "InvalidAddress" -> a.to = Malformed
         [] j.built.err = "InvalidCbor" -> OtherHex \in data
         [] j.built.err = "CslError" ->
                \/ LongName \in names \/ a.pool = OtherHex
                \/ a.op = "pay" /\ a.coin < TokenMinAda
                \/ Cardinality(a.assets) > MaxValSize
                \/ \E i \in DOMAIN a.mint : a.mint[i].quantity = 0
         [] j.built.err = "InvalidParameter" ->
                \/ DOMAIN j.inputs = {} \/ a.pool = Malformed \/ Malformed \in data \/ least
                \/ a.image # <<>> /\ names \cap NonUtf8 # {}
                \/ a.op = "unlock" /\ DOMAIN j.locked = {}
                \/ a.op = "unlock" /\ \A c \in DOMAIN j.inputs : j.inputs[c].assets # {}
         [] j.built.err = "TxBuild" ->
                \/ TotalCoin(ins) < a.coin + KeyDeposit + MinFee + ChangeFee + TokenMinAda
                \/ TotalCoin(ins) + j.reward + KeyDeposit > MaxCoin
                \/ \E p \in Policies, n \in Names :
                    \/ TotalTokens(ins, p, n) + minted(p, n) < Quantity(a.assets, p, n)
                    \/ TotalTokens(ins, p, n) > MaxCoin
                \/ parts > MaxTxSize
                \/ \E i \in DOMAIN a.mint :
                    a.mint[i].name \in Names /\ minted(a.policy, a.mint[i].name) = 0
         [] j.built.err = "panic" ->
                ~least /\ \E p \in Policies, n \in Names : minted(p, n) = MinInt
         [] OTHER -> FALSE

(* An error names what is wrong with the request: InvalidAddress for an    *)
(* address and InvalidParameter for hex that does not parse, InvalidCbor   *)
(* for hex that is not Plutus data, CslError for hex that is no pool, for  *)
(* a long name, a quantity of 0 and an output with too little lovelace or  *)
(* too many assets, TxBuild only for sums that overflow, funds that cannot *)
(* pay for the request with change, a transaction too large and quantities *)
(* that cancel out.  The library panics only for quantities that are not   *)
(* i64::MIN and add up to it.                                              *)
ErrorsAreHonest == \A s \in Screens : job[s].at = "failed" => Honest(job[s])

(* The books of the wallet.  The receipt is what was asked for, and the fee *)
(* and deposit change that the builder reported.                           *)
Receipt(j) ==
    LET a == j.ask
        paid(p, n) == Quantity(a.assets, p, n)
        minted(p, n) == Minted([policy |-> a.policy, assets |-> a.mint], p, n)
    IN IF j.at # "built" THEN NoReceipt
       ELSE [fee |-> j.built.fee, deposit_change |-> j.built.deposit_change,
             paid |-> a.coin,
             tokens |-> [t \in Policies \X Names |-> minted(t[1], t[2]) - paid(t[1], t[2])]]

Ledger == INSTANCE Books WITH
    free <- TotalCoin(unspent) + account.rewards,
    deposit <- account.deposit,
    tokens <- [t \in Policies \X Names |-> TotalTokens(unspent, t[1], t[2])],
    receipt <- [s \in Screens |-> Receipt(job[s])]

(* A transaction moves the wallet's lovelace, deposit and tokens by what   *)
(* was asked and reported, once, or not at all; nothing else but rewards   *)
(* moves them.                                                             *)
BooksSpec == Ledger!Spec
=============================================================================
