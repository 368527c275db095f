------------------------------ MODULE MCTxFlow ------------------------------
(* An instance of TxFlow for TLC. *)
EXTENDS TxFlow

Asset(n, q) == [policy |-> WireComputePolicyId(<<KeyPolicy>>), name |-> n, quantity |-> q]

Staking == {[NoAsk EXCEPT !.op = o] : o \in {"register", "withdraw", "deregister"}}
    \cup {[NoAsk EXCEPT !.op = "delegate", !.pool = k] : k \in {"pool", Malformed, OtherHex}}

Payments ==
    {[NoAsk EXCEPT !.op = "pay", !.coin = c] : c \in {0, 2, 9}}
    \cup {[NoAsk EXCEPT !.op = "pay", !.coin = 2, !.to = Malformed],
          [NoAsk EXCEPT !.op = "pay", !.coin = 2, !.ttl = 0]}
    \cup {[NoAsk EXCEPT !.op = "pay", !.coin = 2, !.assets = {Asset(n, 1) : n \in ns}] :
            ns \in {Names, NonUtf8, {LongName}}}
    \cup {[NoAsk EXCEPT !.op = "pay", !.coin = 2,
            !.assets = {Asset(n, 1) : n \in Names} \cup
                       {[policy |-> LockedPolicy, name |-> n, quantity |-> 1] : n \in NonUtf8}]}

Mint(p, assets, text, slots) ==
    [NoAsk EXCEPT !.op = "mint", !.policy = p, !.mint = assets, !.image = text, !.ttl = slots]

\* A text that fits one string of 4 bytes, and two of 1- to 3-byte characters
\* that need several: one fills each chunk, the other cannot; and one too long
\* for a transaction.
Texts == {<<1, 3>>, <<2, 2, 1, 3>>, <<3, 2, 3, 1, 1>>, <<4, 4, 4, 4, 4, 4>>}

Mints ==
    {Mint(KeyPolicy, <<[name |-> n, quantity |-> q]>>, <<>>, NoTtl) : n \in NonUtf8, q \in {-1, 0, MinInt}}
    \cup {Mint(KeyPolicy, <<[name |-> LongName, quantity |-> 1]>>, <<>>, NoTtl)}
    \cup {Mint(KeyPolicy, <<[name |-> n, quantity |-> 1]>>, x, NoTtl) : n \in Names \ NonUtf8, x \in Texts}
    \cup {Mint(KeyPolicy, <<[name |-> n, quantity |-> 1]>>, <<1>>, NoTtl) : n \in NonUtf8}
    \cup {Mint(LockedPolicy, <<[name |-> n, quantity |-> 1], [name |-> k, quantity |-> 1],
                               [name |-> n, quantity |-> 1]>>, <<>>, t) :
            n \in NonUtf8, k \in Names \ NonUtf8, t \in {NoTtl, 0}}
    \cup {Mint(KeyPolicy, <<[name |-> n, quantity |-> 1], [name |-> n, quantity |-> -1]>>, <<>>,
               NoTtl) : n \in NonUtf8}

Unlock(d, e) == [NoAsk EXCEPT !.op = "unlock", !.data = d, !.items = e]

Unlocks ==
    {Unlock(<<>>, <<"data">>), Unlock(<<"data", Malformed>>, <<"data">>),
     Unlock(<<>>, <<OtherHex, Malformed>>)}

MCAsks == Staking \cup Payments \cup Mints \cup Unlocks

\* Lovelace alone, a token of each name, and an output of a script.
MCWallet ==
    <<0, 1>> :> [owner |-> "key", coin |-> 6, tokens |-> NoTokens]
    @@ <<0, 2>> :> [owner |-> "key", coin |-> 3,
                    tokens |-> [NoTokens EXCEPT ![KeyPolicy] = [n \in Names |-> 1]]]
    @@ <<0, 3>> :> [owner |-> "script", coin |-> 2, tokens |-> NoTokens]

\* The screens have the same code and share the wallet.
MCSymmetry == Permutations(Screens)

\* i64 of 4 bits.
MCMinInt == -8
=============================================================================
