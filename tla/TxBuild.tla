------------------------------ MODULE TxBuild ------------------------------
(***************************************************************************)
(* The transaction builders of the Rust core: tx.rs, staking.rs,           *)
(* minting.rs, plutus.rs and metadata.rs.  Each is an operator from its     *)
(* arguments to an outcome: an error kind, or the body and what is         *)
(* reported about it.  Checks are listed in the order the code makes them; *)
(* the first that fails is the error.  The change and fee computation is   *)
(* that of the serialization library (CSL), as the builders call it.       *)
(*                                                                         *)
(* A native script is a record and its hash is the record itself; a text   *)
(* is the sequence of the byte lengths of its characters.                  *)
(***************************************************************************)
EXTENDS Outcomes, Integers, FiniteSets, Functions, SequencesExt

CONSTANTS
    Names,       \* asset names
    NonUtf8,     \* those that are not UTF-8 text, as CIP-68 labelled names
    LongName,    \* a name over 32 bytes
    Malformed,   \* a string that does not parse, whatever is expected
    OtherHex,    \* the hex of something else than is expected
    KeyDeposit,  \* ProtocolParams.key_deposit
    MinFee,      \* the fee of a transaction without change,
    ChangeFee,   \* and what a change output adds to it
    MinAda,      \* least lovelace of an output,
    TokenMinAda, \* and of one that holds tokens
    MaxCoin,     \* u64::MAX
    MinInt,      \* i64::MIN
    MaxText,     \* bytes in one metadata string
    MaxTxSize,   \* ProtocolParams.max_tx_size, in parts: see TxSize
    MaxValSize,  \* and max_val_size, in assets
    ExpirySlot   \* of the timelocked policy

NoTtl == -1  \* no slot deadline, no expiry

ASSUME TxBuildAssumption ==
    /\ NonUtf8 \subseteq Names /\ LongName \notin Names
    /\ {KeyDeposit, MinFee, ChangeFee, MinAda, MaxCoin, MaxText, ExpirySlot,
        MaxTxSize, MaxValSize} \subseteq Nat
    /\ MinFee > 0 /\ TokenMinAda \in Nat /\ TokenMinAda >= MinAda
    /\ MinInt \in Int /\ MinInt < 0

-----------------------------------------------------------------------------
(* Policies *)

MakePubkeyScript(key) == [key |-> key, expiry |-> NoTtl]

MakeTimelockExpiryScript(key, slot) == [key |-> key, expiry |-> slot]

ComputePolicyId(script) == script

Policies == {ComputePolicyId(MakePubkeyScript("payment")),
             ComputePolicyId(MakeTimelockExpiryScript("payment", ExpirySlot))}

-----------------------------------------------------------------------------
(* Values.  The Rust Value lists its assets; the CSL value maps policies to *)
(* maps of names to quantities.                                            *)

NoTokens == [p \in Policies |-> [n \in Names |-> 0]]

Quantity(assets, p, n) ==
    LET listed == {a \in assets : a.policy = p /\ a.name = n}
    IN IF listed = {} THEN 0 ELSE (CHOOSE a \in listed : TRUE).quantity

(* Mutant: MultiAsset::insert with a fresh Assets for each asset, which     *)
(* replaces the entry of the policy.                                       *)
ValueToCslReplacing(v) ==
    LET last(p) == CHOOSE a \in v.assets : a.policy = p
    IN [coin |-> v.coin,
        tokens |-> [p \in Policies |-> [n \in Names |->
            IF (\E a \in v.assets : a.policy = p) /\ last(p).name = n THEN last(p).quantity ELSE 0]]]

ValueToCsl(v) ==
    [coin |-> v.coin,
     tokens |-> [p \in Policies |-> [n \in Names |-> Quantity(v.assets, p, n)]]]

ValueCheck(v) == Check(\E a \in v.assets : a.name = LongName, "CslError")

AssetsOf(tokens) ==
    {[policy |-> t[1], name |-> t[2], quantity |-> tokens[t[1]][t[2]]] :
        t \in {x \in Policies \X Names : tokens[x[1]][x[2]] # 0}}

CslValueToValue(v) == [coin |-> v.coin, assets |-> AssetsOf(v.tokens)]

HasTokens(tokens) == \E p \in Policies, n \in Names : tokens[p][n] # 0

MinAdaForOutput(o) == IF HasTokens(o.tokens) THEN TokenMinAda ELSE MinAda

OutputToCsl(o) == [address |-> o.address, coin |-> o.value.coin,
                   tokens |-> ValueToCsl(o.value).tokens]

(* output_to_csl, and TransactionBuilder::add_output, which refuses an      *)
(* output that holds too little lovelace or too large a value.             *)
OutputCheck(o) ==
    First(<<Check(o.address = Malformed, "InvalidAddress"), ValueCheck(o.value),
            Check(\/ o.value.coin < MinAdaForOutput(OutputToCsl(o))
                  \/ Cardinality(o.value.assets) > MaxValSize, "CslError")>>)

OutputChecks(outputs) == First([i \in DOMAIN outputs |-> OutputCheck(outputs[i])])

TotalCoin(f) == SumFunction([i \in DOMAIN f |-> f[i].coin])

TotalTokens(f, p, n) == SumFunction([i \in DOMAIN f |-> f[i].tokens[p][n]])

(* cip30.rs: the balance of a wallet.  CSL's checked_add fails on overflow.  *)
SumValues(values) ==
    LET csl == [i \in DOMAIN values |-> ValueToCsl(values[i])]
        sum == [coin |-> TotalCoin(csl),
                tokens |-> [p \in Policies |-> [n \in Names |-> TotalTokens(csl, p, n)]]]
    IN Unless(First(<<Check(\E i \in DOMAIN values : ValueCheck(values[i]) # "None", "CslError"),
                      Check(\/ sum.coin > MaxCoin
                            \/ \E p \in Policies, n \in Names : sum.tokens[p][n] > MaxCoin,
                            "CslError")>>),
              CslValueToValue(sum))

(* What a dApp is answered: a balance, and a UTxO, here one of the wallet.  *)
ValueToCborHex(value) == Unless(ValueCheck(value), ValueToCsl(value))

UtxoToCborHex(input) == Unless(ValueCheck(input), ValueToCsl(input))

-----------------------------------------------------------------------------
(* The builder.  Inputs are a function from outpoints to Rust values;      *)
(* withdrawal 0 stands for no withdrawal; listed are the assets a quantity *)
(* was given for.                                                          *)

NewBuilder ==
    [inputs |-> <<>>, outputs |-> <<>>, cert |-> "none", withdrawal |-> 0,
     mint |-> NoTokens, listed |-> {}, scripts |-> {}, aux |-> <<>>,
     collateral |-> {}, ttl |-> NoTtl]

InputsToCsl(inputs) == [c \in DOMAIN inputs |-> ValueToCsl(inputs[c])]

OutputsToCsl(outputs) == [i \in DOMAIN outputs |-> OutputToCsl(outputs[i])]

Refund(b) == IF b.cert = "deregister" THEN KeyDeposit ELSE 0

Deposit(b) == IF b.cert = "register" THEN KeyDeposit ELSE 0

CoinIn(b) == TotalCoin(InputsToCsl(b.inputs)) + b.withdrawal + Refund(b)

CoinOut(b) == TotalCoin(b.outputs) + Deposit(b)

CoinLeft(b) == CoinIn(b) - CoinOut(b)

TokensLeft(b) ==
    [p \in Policies |-> [n \in Names |->
        TotalTokens(InputsToCsl(b.inputs), p, n) + b.mint[p][n]
            - TotalTokens(b.outputs, p, n)]]

ChangeCoin(b) == CoinLeft(b) - MinFee - ChangeFee

(* TransactionBuilder::add_change_if_needed fails: a sum overflows, the    *)
(* inputs do not cover the outputs, or change tokens lack their min-ADA.   *)
ChangeFails(b) ==
    \/ CoinIn(b) > MaxCoin \/ CoinOut(b) > MaxCoin
    \/ \E p \in Policies, n \in Names :
        \/ TotalTokens(InputsToCsl(b.inputs), p, n) > MaxCoin
        \/ TotalTokens(b.outputs, p, n) > MaxCoin
    \/ CoinLeft(b) < MinFee
    \/ \E p \in Policies, n \in Names : TokensLeft(b)[p][n] < 0
    \/ HasTokens(TokensLeft(b)) /\ ChangeCoin(b) < TokenMinAda

(* Otherwise it adds a change output, or gives lovelace too little for one *)
(* to the fee.  (Tokens too many for one output it spreads over several:   *)
(* the model has them in one.)                                             *)
HasChange(b) == HasTokens(TokensLeft(b)) \/ ChangeCoin(b) >= MinAda

Body(b, change) ==
    [inputs |-> DOMAIN b.inputs,
     outputs |-> IF HasChange(b)
                 THEN Append(b.outputs, [address |-> change, coin |-> ChangeCoin(b),
                                         tokens |-> TokensLeft(b)])
                 ELSE b.outputs,
     change |-> HasChange(b),
     fee |-> IF HasChange(b) THEN MinFee + ChangeFee ELSE CoinLeft(b),
     cert |-> b.cert, withdrawal |-> b.withdrawal, mint |-> b.mint,
     aux |-> b.aux, collateral |-> b.collateral, ttl |-> b.ttl]

(* The size of a transaction, in inputs, outputs and metadata strings.     *)
TxSize(body) == Cardinality(body.inputs) + Len(body.outputs) + Len(body.aux)

(* A mint has no entries of quantity 0. *)
Cancelled(b) ==
    \E p \in Policies, n \in Names : <<p, n>> \in b.listed /\ b.mint[p][n] = 0

(* Change and fee, then build_tx: the end of every builder.  The library    *)
(* negates a burnt quantity to write it, which panics for i64::MIN, and    *)
(* refuses a transaction over the size limit.                              *)
Finalise(checked, b, change, deposit_change, witness_set) ==
    LET err == First(<<checked, Check(change = Malformed, "InvalidAddress"),
                       Check(Cancelled(b), "TxBuild"),
                       Check(\E p \in Policies, n \in Names : b.mint[p][n] = MinInt, "panic"),
                       Check(ChangeFails(b) \/ TxSize(Body(b, change)) > MaxTxSize, "TxBuild")>>)
    IN IF err # "None" THEN Failed(err)
       ELSE [err |-> "None", body |-> Body(b, change), fee |-> Body(b, change).fee,
             deposit_change |-> deposit_change, witness_set |-> witness_set]

-----------------------------------------------------------------------------
(* tx.rs *)

BuildTx(inputs, outputs, change, ttl) ==
    Finalise(First(<<Check(DOMAIN inputs = {}, "InvalidParameter"),
                     Check(outputs = <<>>, "InvalidParameter"), OutputChecks(outputs)>>),
             [NewBuilder EXCEPT !.inputs = inputs, !.outputs = OutputsToCsl(outputs),
                                !.ttl = ttl],
             change, 0, {})

-----------------------------------------------------------------------------
(* staking.rs *)

(* Hex that decodes, to the length of a key hash. *)
HashCheck(text) ==
    First(<<Check(text = Malformed, "InvalidParameter"), Check(text = OtherHex, "CslError")>>)

StakeCredential(key) == HashCheck(key)

AddInputs(inputs) == Check(DOMAIN inputs = {}, "InvalidParameter")

(* Mutant: the deposit reported as if it came back. *)
BuildStakeRegistrationTxGain(key, inputs, change, ttl) ==
    Finalise(First(<<StakeCredential(key), AddInputs(inputs)>>),
             [NewBuilder EXCEPT !.inputs = inputs, !.cert = "register", !.ttl = ttl],
             change, KeyDeposit, {})

BuildStakeRegistrationTx(key, inputs, change, ttl) ==
    Finalise(First(<<StakeCredential(key), AddInputs(inputs)>>),
             [NewBuilder EXCEPT !.inputs = inputs, !.cert = "register", !.ttl = ttl],
             change, -KeyDeposit, {})

BuildDelegationTx(key, pool, inputs, change, ttl) ==
    Finalise(First(<<StakeCredential(key), HashCheck(pool), AddInputs(inputs)>>),
             [NewBuilder EXCEPT !.inputs = inputs, !.cert = "delegate", !.ttl = ttl],
             change, 0, {})

BuildRewardWithdrawalTx(key, reward_amount, inputs, change, ttl) ==
    Finalise(First(<<StakeCredential(key), AddInputs(inputs)>>),
             [NewBuilder EXCEPT !.inputs = inputs, !.withdrawal = reward_amount, !.ttl = ttl],
             change, 0, {})

BuildStakeDeregistrationTx(key, inputs, change, ttl) ==
    Finalise(First(<<StakeCredential(key), AddInputs(inputs)>>),
             [NewBuilder EXCEPT !.inputs = inputs, !.cert = "deregister", !.ttl = ttl],
             change, KeyDeposit, {})

-----------------------------------------------------------------------------
(* minting.rs.  A MintSpec is a policy script and a list of MintAssets. *)

(* Mutant: i64::MIN is left to the library. *)
MintAssetCheckUnguarded(a) == Check(a.name = LongName \/ a.quantity = 0, "CslError")

(* The last is MintBuilder::add_asset's own. *)
MintAssetCheck(a) ==
    First(<<Check(a.name = LongName, "CslError"),
            Check(a.quantity = MinInt, "InvalidParameter"),
            Check(a.quantity = 0, "CslError")>>)

MintCheck(spec) == First([i \in DOMAIN spec.assets |-> MintAssetCheck(spec.assets[i])])

(* MintBuilder::add_asset adds up what is listed. *)
Minted(spec, p, n) ==
    SumFunction([i \in DOMAIN spec.assets |->
        IF p = ComputePolicyId(spec.policy) /\ spec.assets[i].name = n
        THEN spec.assets[i].quantity ELSE 0])

ListedAssets(spec) ==
    {<<ComputePolicyId(spec.policy), spec.assets[i].name>> : i \in DOMAIN spec.assets}

BuildMintTx(inputs, outputs, change, specs, aux, ttl) ==
    Finalise(First(<<Check(DOMAIN inputs = {}, "InvalidParameter"),
                     Check(specs = <<>>, "InvalidParameter"), OutputChecks(outputs)>>
                   \o [i \in DOMAIN specs |-> MintCheck(specs[i])]),
             [NewBuilder EXCEPT
                 !.inputs = inputs, !.outputs = OutputsToCsl(outputs), !.ttl = ttl,
                 !.mint = [p \in Policies |-> [n \in Names |->
                              SumFunction([i \in DOMAIN specs |-> Minted(specs[i], p, n)])]],
                 !.listed = UNION {ListedAssets(specs[i]) : i \in DOMAIN specs},
                 !.aux = aux],
             change, 0, {specs[i].policy : i \in DOMAIN specs})

-----------------------------------------------------------------------------
(* metadata.rs *)

Bytes(text) == SumFunction(text)

TextDatum(text) == Check(Bytes(text) > MaxText, "CslError")

(* Chunks of at most MaxText bytes, cut between characters. *)
TextOrChunks(text) ==
    LET cut(acc, ch) ==
            IF Bytes(acc.chunk) + ch > MaxText
            THEN [list |-> Append(acc.list, acc.chunk), chunk |-> <<ch>>]
            ELSE [acc EXCEPT !.chunk = Append(@, ch)]
        all == FoldLeft(cut, [list |-> <<>>, chunk |-> <<>>], text)
    IN IF Bytes(text) <= MaxText THEN <<text>>
       ELSE IF all.chunk = <<>> THEN all.list ELSE Append(all.list, all.chunk)

(* The auxiliary data of one asset: its image, and an optional media type. *)
BuildCip25Metadata(name, image, media_type) ==
    LET err == First(<<TextDatum(media_type), Check(name \in NonUtf8, "InvalidParameter")>>)
    IN IF err = "None" THEN [err |-> err, aux |-> TextOrChunks(image)] ELSE Failed(err)

-----------------------------------------------------------------------------
(* plutus.rs *)

ValidatePlutusData(data) ==
    First(<<Check(data = Malformed, "InvalidParameter"), Check(data = OtherHex, "InvalidCbor")>>)

PlutusDataList(items) == First([i \in DOMAIN items |-> ValidatePlutusData(items[i])])

PlutusDataConstr(fields) == First([i \in DOMAIN fields |-> ValidatePlutusData(fields[i])])

(* script_inputs and regular_inputs are functions like inputs; the outcome *)
(* is a BuiltTx, which has no witness set.                                 *)
BuildScriptTx(script_inputs, datum, redeemer, regular_inputs, outputs, change, collateral, ttl) ==
    Finalise(First(<<Check(DOMAIN script_inputs = {}, "InvalidParameter"),
                     Check(collateral = {}, "InvalidParameter"),
                     ValidatePlutusData(datum), ValidatePlutusData(redeemer),
                     OutputChecks(outputs)>>),
             [NewBuilder EXCEPT
                 !.inputs = [c \in DOMAIN script_inputs \cup DOMAIN regular_inputs |->
                                IF c \in DOMAIN script_inputs THEN script_inputs[c]
                                ELSE regular_inputs[c]],
                 !.outputs = OutputsToCsl(outputs), !.collateral = collateral,
                 !.ttl = ttl],
             change, 0, {})

-----------------------------------------------------------------------------
(* frb_generated.rs: the arguments of a call, decoded in the order the     *)
(* Dart side encoded them (network_id and params are read and left out).   *)

WireSumValues(m) == SumValues(m[1])
WireValueToCborHex(m) == ValueToCborHex(m[1])
WireUtxoToCborHex(m) == UtxoToCborHex(m[1])
WireMakePubkeyScript(m) == MakePubkeyScript(m[1])
WireMakeTimelockExpiryScript(m) == MakeTimelockExpiryScript(m[1], m[2])
WireComputePolicyId(m) == ComputePolicyId(m[1])
WirePlutusDataConstr(m) == PlutusDataConstr(m[2])
WirePlutusDataList(m) == PlutusDataList(m[1])
WireBuildTx(m) == BuildTx(m[1], m[2], m[3], m[4])
WireBuildStakeRegistrationTx(m) == BuildStakeRegistrationTx(m[1], m[2], m[3], m[5])
WireBuildDelegationTx(m) == BuildDelegationTx(m[1], m[2], m[3], m[4], m[6])
WireBuildRewardWithdrawalTx(m) == BuildRewardWithdrawalTx(m[1], m[2], m[3], m[4], m[6])
WireBuildStakeDeregistrationTx(m) == BuildStakeDeregistrationTx(m[1], m[2], m[3], m[5])
WireBuildMintTx(m) == BuildMintTx(m[1], m[2], m[3], m[4], m[5], m[6])
WireBuildCip25Metadata(m) == BuildCip25Metadata(m[1].name, m[1].image, m[1].media_type)
WireBuildScriptTx(m) ==
    BuildScriptTx(m[1].inputs, m[1].datum, m[1].redeemer, m[2], m[3], m[4], m[5], m[7])
=============================================================================
