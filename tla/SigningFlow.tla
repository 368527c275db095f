---------------------------- MODULE SigningFlow ----------------------------
(***************************************************************************)
(* One transaction signed by several parties: a software wallet            *)
(* (cip30_wallet.dart), that of a co-signer, a device behind the Ledger    *)
(* adapter (hardware_cip30_wallet.dart, ledger_hardware_wallet.dart), and  *)
(* the caller who merges their witnesses and assembles the transaction.    *)
(* Or, in other behaviours, data signed and verified with these keys.      *)
(*                                                                         *)
(* Calls of the adapter that wait for the device are split at the waits:   *)
(* between them the connection may change.  An operation that throws       *)
(* before it changed anything is not enabled.                              *)
(***************************************************************************)
EXTENDS Signing

CONSTANTS
    Devices,
    Owner,     \* the device whose outputs the transactions spend
    Bodies,    \* bodies a caller has to sign
    PathLists, \* paths asked of the device, as account, role and index
    Accounts,  \* account indices in them
    Payloads,  \* data to sign
    None,
    MaxMade    \* bound: signatures on data

(* What a body may have besides inputs and outputs. *)
Parts == Reported \cup Unsupported \cup {"aux_hash", "script_data_hash", "required_signers"}

(* A path is hardened down to its account only.                            *)
ASSUME FlowAssumption ==
    /\ IsFiniteSet(Devices) /\ Owner \in Devices /\ Devices \cap {"soft", "friend"} = {}
    /\ Accounts \subseteq 0 .. Half - 1 /\ 0 \in Accounts
    /\ Bodies \subseteq [pays : {"soft", "shared", "joint", "accounts"}, parts : SUBSET Parts,
                         form : {"csl", "other"}]
    /\ \A l \in PathLists : l \in Seq(Accounts \X (0 .. Half - 1) \X (0 .. Half - 1))
    /\ \A p \in Payloads : p.enc = "hex"
    /\ MaxMade \in Nat

VARIABLES
    conn,      \* _connection of the adapter
    cache,     \* its _xpubCache
    seen,      \* devices it has been connected to
    call,      \* its call in progress
    hard,      \* account of the HardwareCip30Wallet
    soft,      \* keys and addresses of the Cip30Wallet
    body,      \* the transaction to sign; None when there is data to sign
    collected, \* the witness set collected for it
    signed,    \* keys that have signed it
    tx,        \* the assembled transaction, and how it came about
    made       \* signatures on data

vars == <<conn, cache, seen, call, hard, soft, body, collected, signed, tx, made>>

Idle == [at |-> "idle", conn |-> None, account |-> 0, left |-> <<>>, done |-> <<>>]

NoTx == [route |-> "none"]

Net == 0  \* the network of the provider, a test network

-----------------------------------------------------------------------------
(* Keys and bodies *)

Key(seed, account, role) == Derive(AccountKey(seed, Harden(account)), role, 0)

SoftSeed == <<"soft", "">>
FriendSeed == <<"friend", "">>
DeviceSeed(d) == <<d, "">>

(* The keys a body needs: those its outputs are locked by, and the stake   *)
(* key for what it does to the stake account.                              *)
Needed(b) ==
    (CASE b.pays = "soft" -> {Key(SoftSeed, 0, 0)}
       [] b.pays = "shared" -> {Key(SoftSeed, 0, 0), Key(FriendSeed, 0, 0)}
       [] b.pays = "joint" -> {Key(SoftSeed, 0, 0), Key(DeviceSeed(Owner), 0, 0)}
       [] b.pays = "accounts" -> {Key(DeviceSeed(Owner), a, 0) : a \in Accounts})
    \cup {k \in {Key(SoftSeed, 0, 2)} : b.parts \cap {"certs", "withdrawals"} # {}}

Scripts(b) == {s \in {"policy"} : "mint" \in b.parts}

AuxOf(b) == IF "aux_hash" \in b.parts THEN Hex("aux", "metadata") ELSE NoText

(* The ledger's rules on witnesses.  It hashes the body as it is written.  *)
Accepted(t) ==
    /\ \A w \in t.witnesses.vkeys : Verify(w.vkey, Blake2b(t.body), w.signature)
    /\ Needed(t.body) \subseteq {w.vkey : w \in t.witnesses.vkeys}
    /\ Scripts(t.body) \subseteq t.witnesses.scripts
    /\ t.aux = AuxOf(t.body)

Init ==
    /\ conn = None /\ seen = {} /\ call = Idle
    /\ cache = [a \in Accounts |-> NoText]
    /\ hard = None /\ soft = None /\ tx = NoTx
    /\ \/ \E b \in Bodies :
            /\ body = Hex("body", b)
            /\ collected = Hex("witnesses", [EmptyWitnessSet EXCEPT !.scripts = Scripts(b)])
       \/ body = None /\ collected = NoText
    /\ signed = {} /\ made = {}

-----------------------------------------------------------------------------
(* The adapter *)

Connect(d) ==
    /\ body # None /\ tx = NoTx /\ d # conn
    /\ conn' = d /\ seen' = seen \cup {d}
    /\ UNCHANGED <<cache, call, hard, soft, body, collected, signed, tx, made>>

Disconnect ==
    /\ conn # None
    /\ conn' = None
    /\ UNCHANGED <<cache, seen, call, hard, soft, body, collected, signed, tx, made>>

(* What a device answers. *)
Xpub(d, account) == Hex("xpub", AccountKey(DeviceSeed(d), Harden(account)))

DeviceSignature(d, path, rebuilt) ==
    [path |-> path,
     signature |-> Hex("signature",
        Sign(Derive(AccountKey(DeviceSeed(d), path[1]), path[2], path[3]), Blake2b(rebuilt)))]

(* fromDevice: getAccountXpub, from the cache or over the connection, then *)
(* xpubToAccount.                                                          *)
OpenHard ==
    /\ body # None /\ call = Idle
    /\ \/ /\ cache[0] # NoText
          /\ hard' = WireXpubToAccount(<<cache[0], Net>>).ok
          /\ UNCHANGED call
       \/ /\ cache[0] = NoText /\ conn # None
          /\ call' = [Idle EXCEPT !.at = "opening", !.conn = conn]
          /\ UNCHANGED hard
    /\ UNCHANGED <<conn, cache, seen, soft, body, collected, signed, tx, made>>

(* The device's answer to getAccountXpub, or none. *)
XpubAnswer ==
    /\ call.at \in {"opening", "reading"}
    /\ \/ LET xpub == Xpub(call.conn, call.account) IN
          /\ cache' = [cache EXCEPT ![call.account] = xpub]
          /\ IF call.at = "opening"
             THEN hard' = WireXpubToAccount(<<xpub, Net>>).ok /\ call' = Idle
             ELSE call' = [call EXCEPT !.at = "rebuilding"] /\ UNCHANGED hard
       \/ call' = Idle /\ UNCHANGED <<cache, hard>>
    /\ UNCHANGED <<conn, seen, soft, body, collected, signed, tx, made>>

(* What the adapter maps of a decomposed body, and the device writes anew. *)
Shown(b) ==
    [pays |-> b.pays, parts |-> b.parts \cap {"ttl", "validity_start"}, form |-> "csl"]

(* signTransaction: an unsupported body is refused, others go to the       *)
(* device.                                                                 *)
AskDevice ==
    /\ call = Idle /\ hard # None /\ conn # None /\ tx = NoTx
    /\ ~WireDecomposeTxBody(<<body>>).ok.has_unsupported_features
    /\ \E paths \in PathLists \ {<<>>} :
        call' = [Idle EXCEPT !.at = "signing", !.conn = conn,
                    !.left = [i \in DOMAIN paths |-> <<Harden(paths[i][1]), paths[i][2], paths[i][3]>>]]
    /\ UNCHANGED <<conn, cache, seen, hard, soft, body, collected, signed, tx, made>>

(* The user confirms, or the call throws. *)
DeviceAnswer ==
    /\ call.at = "signing"
    /\ \/ LET rebuilt == Shown(WireDecomposeTxBody(<<body>>).ok) IN
          call' = [call EXCEPT !.at = "rebuilding", !.conn = None,
                      !.left = [i \in DOMAIN call.left |->
                                    DeviceSignature(call.conn, call.left[i], rebuilt)]]
       \/ call' = Idle
    /\ UNCHANGED <<conn, cache, seen, hard, soft, body, collected, signed, tx, made>>

(* The public key of the next signature, from the account key: the cached  *)
(* one, or one read over the connection there is by now.                   *)
RebuildWitness ==
    LET s == Head(call.left)
        account == s.path[1] % Half
    IN
    /\ call.at = "rebuilding" /\ call.left # <<>>
    /\ IF cache[account] # NoText
       THEN call' = [call EXCEPT !.left = Tail(@), !.done = Append(@,
                        [vkey |-> WireXpubDerivePublicKey(<<cache[account], s.path[2], s.path[3]>>).ok,
                         signature |-> s.signature])]
       ELSE IF conn = None THEN call' = Idle
       ELSE call' = [call EXCEPT !.at = "reading", !.conn = conn, !.account = account]
    /\ UNCHANGED <<conn, cache, seen, hard, soft, body, collected, signed, tx, made>>

(* Mutant: the new witnesses instead of both. *)
MergeLast(a, b) == WireAssembleVkeyWitnessSet(<<WireExtractVkeyWitnesses(<<b>>).ok>>).ok

(* Two witness sets merged, as their documentation says it is done. *)
Merge(a, b) ==
    WireAssembleVkeyWitnessSet(<<WireExtractVkeyWitnesses(<<a>>).ok
                                    \o WireExtractVkeyWitnesses(<<b>>).ok>>).ok

Final(route, text) == [route |-> route, of |-> text.of]

(* Back in the HardwareCip30Wallet: signTx hands its witness set to the    *)
(* caller, signTransaction makes the transaction of it.                    *)
HardSigned ==
    LET set == WireAssembleVkeyWitnessSet(<<call.done>>).ok IN
    /\ call.at = "rebuilding" /\ call.left = <<>>
    /\ signed' = signed \cup {w.signature.of.by : w \in Range(call.done)}
    /\ \/ collected' = Merge(collected, set) /\ UNCHANGED tx
       \/ /\ tx = NoTx
          /\ tx' = Final("device", WireCip30AssembleTx(<<body, set, NoText>>).ok)
          /\ UNCHANGED collected
    /\ call' = Idle
    /\ UNCHANGED <<conn, cache, seen, hard, soft, body, made>>

-----------------------------------------------------------------------------
(* The software wallet *)

Seeded(words) ==
    WireDeriveKeysFromMnemonic(<<[enc |-> "words", kind |-> "mnemonic", of |-> words], "", 0, Net = 0>>)

SoftWallet ==
    LET keys == Seeded("soft").ok
    IN [keys |-> keys,
        base |-> WireComputeBaseAddress(<<keys.payment_key_hash, keys.stake_key_hash, Net>>).ok,
        reward |-> WireComputeStakeAddress(<<keys.stake_key_hash, Net = 0>>).ok]

OpenSoft ==
    /\ soft = None /\ Seeded("soft").err = "None"
    /\ soft' = SoftWallet
    /\ UNCHANGED <<conn, cache, seen, call, hard, body, collected, signed, tx, made>>

SoftKeys == <<soft.keys.payment_signing_key, soft.keys.stake_signing_key>>

Friend == Seeded("friend").ok

FriendKeys == <<Friend.payment_signing_key, Friend.stake_signing_key>>

(* signTx of the transaction as the caller has it, in the caller's bytes.  *)
SignedWith(keys) ==
    LET unsigned == Hex("tx", [body |-> body.of, witnesses |-> collected.of, aux |-> AuxOf(body.of)])
    IN
    /\ body # None /\ call = Idle /\ tx = NoTx
    /\ collected' = Merge(collected, WireCip30SignTx(<<unsigned, keys>>).ok)
    /\ signed' = signed \cup {k.of : k \in Range(keys)}
    /\ UNCHANGED <<conn, cache, seen, call, hard, soft, body, tx, made>>

SoftSign == soft # None /\ SignedWith(SoftKeys)

(* A co-signer with a wallet of the same kind is asked if needed. *)
CoSign == body # None /\ body.of.pays = "shared" /\ SignedWith(FriendKeys)

(* signTransaction, signStakingTransaction and signMintTransaction sign    *)
(* and assemble; the last with the witness set it has so far.              *)
SignHere ==
    /\ body # None /\ soft # None /\ call = Idle /\ tx = NoTx
    /\ IF body.of.parts \cap {"mint", "aux_hash"} = {}
       THEN tx' = Final("sign", WireSignTx(<<body, SoftKeys>>).ok.tx)
       ELSE tx' = Final("mint", WireSignTxWithMetadata(<<body, <<Head(SoftKeys)>>, AuxOf(body.of),
                                                         collected>>).ok.tx)
    /\ UNCHANGED <<conn, cache, seen, call, hard, soft, body, collected, signed, made>>

-----------------------------------------------------------------------------
(* The caller *)

(* Assembles what was collected. *)
Assemble ==
    /\ body # None /\ call = Idle /\ tx = NoTx
    /\ tx' = Final("assemble", WireCip30AssembleTx(<<body, collected, AuxOf(body.of)>>).ok)
    /\ UNCHANGED <<conn, cache, seen, call, hard, soft, body, collected, signed, made>>

(* Or a dApp puts it next to the body it wrote itself, with its scripts.   *)
Attach ==
    /\ body # None /\ call = Idle /\ tx = NoTx
    /\ tx' = [route |-> "attach",
              of |-> [body |-> body.of, aux |-> AuxOf(body.of),
                      witnesses |-> [collected.of EXCEPT !.scripts = Scripts(body.of)]]]
    /\ UNCHANGED <<conn, cache, seen, call, hard, soft, body, collected, signed, made>>

-----------------------------------------------------------------------------
(* Data *)

FriendAddress ==
    WireComputeBaseAddress(<<Friend.payment_key_hash, Friend.stake_key_hash, Net>>).ok

(* cip30SignData and signMessage take any key with any address; signData   *)
(* of the wallet takes the payment key for the base address and the stake  *)
(* key for the reward address.                                             *)
DataSigned(k, a, p) ==
    [what |-> "data", key |-> k, address |-> WireAddressToHex(<<a>>).ok, payload |-> p,
     of |-> WireCip30SignData(<<WireAddressToHex(<<a>>).ok, p, k>>).ok]

SignSomething ==
    /\ body = None /\ soft # None /\ Cardinality(made) < MaxMade
    /\ \E k \in Range(SoftKeys) \cup {Friend.payment_signing_key},
          a \in {soft.base, soft.reward, FriendAddress}, p \in Payloads :
        made' = made \cup {DataSigned(k, a, p)}
    /\ UNCHANGED <<conn, cache, seen, call, hard, soft, body, collected, signed, tx>>

MessageSigned(k, a, p) ==
    [what |-> "message", key |-> k, address |-> a, payload |-> p,
     of |-> WireSignMessage(<<p, k, a>>).ok]

SignMessageHere ==
    /\ body = None /\ soft # None /\ Cardinality(made) < MaxMade
    /\ \E k \in Range(SoftKeys) \cup {Friend.payment_signing_key},
          a \in {NoText, soft.base, FriendAddress}, p \in Payloads :
        made' = made \cup {MessageSigned(k, a, p)}
    /\ UNCHANGED <<conn, cache, seen, call, hard, soft, body, collected, signed, tx>>

Next ==
    \/ \E d \in Devices : Connect(d)
    \/ Disconnect \/ OpenHard \/ XpubAnswer \/ AskDevice \/ DeviceAnswer \/ RebuildWitness \/ HardSigned
    \/ OpenSoft \/ SoftSign \/ CoSign \/ SignHere \/ Assemble \/ Attach
    \/ SignSomething \/ SignMessageHere

Spec == Init /\ [][Next]_vars

-----------------------------------------------------------------------------
(* Properties *)

(* What is asked of a device, and what it has answered.                    *)
Paths == UNION {Range(l) : l \in PathLists}

Asked(p) == <<Harden(p[1]), p[2], p[3]>>

DeviceKey(d, p) == Derive(AccountKey(DeviceSeed(d), Harden(p[1])), p[2], p[3])

ShownBody == Shown(WireDecomposeTxBody(<<body>>).ok)

Answers == {DeviceSignature(d, Asked(p), ShownBody) : d \in seen, p \in Paths}

(* A signature of one device, maybe with the key of another.               *)
RebuiltOf(d, e, p) ==
    [vkey |-> Hex("public key", DeviceKey(d, p)),
     signature |-> Hex("signature", Sign(DeviceKey(e, p), Blake2b(ShownBody)))]

Rebuilt == {RebuiltOf(d, e, p) : d, e \in seen, p \in Paths}

TypeOK ==
    /\ conn \in seen \cup {None} /\ seen \subseteq Devices
    /\ cache \in [Accounts -> {NoText} \cup {Xpub(d, a) : d \in seen, a \in Accounts}]
    /\ \A a \in Accounts : cache[a] \in {NoText} \cup {Xpub(d, a) : d \in seen}
    /\ call \in [at : {"idle", "opening", "signing", "rebuilding", "reading"},
                 conn : seen \cup {None}, account : Accounts,
                 left : Seq({Asked(p) : p \in Paths}) \cup Seq(Answers), done : Seq(Rebuilt)]
    /\ call.at = "idle" => call = Idle
    /\ call.at \in {"opening", "reading", "signing"} => call.conn \in seen
    /\ call.at = "opening" => call.account = 0
    /\ call.at = "signing" => call.left \in Seq({Asked(p) : p \in Paths})
    /\ call.at \in {"rebuilding", "reading"} => call.left \in Seq(Answers)
    /\ soft \in {None, SoftWallet}
    /\ hard \in {None} \cup {WireXpubToAccount(<<Xpub(d, 0), Net>>).ok : d \in seen}
    /\ body \in {None} \cup {Hex("body", b) : b \in Bodies}
    /\ body = None => call = Idle /\ conn = None

(* Nothing of the body is left out of what the device shows and signs. *)
Lossless(b) == b.parts \subseteq {"ttl", "validity_start"}

(* As long as the adapter has met one device only, its cached account keys, *)
(* the addresses derived from them and every witness it made of a           *)
(* signature are that device's: xpub_to_account and xpub_derive_public_key  *)
(* agree with the private derivation.                                      *)
DerivationsAgree ==
    /\ soft # None =>
        /\ soft.base = WireDeriveAddress(<<soft.keys.account_key, 0, 0, Net>>).ok.address
        /\ soft.keys.payment_key = WireDeriveAccountKey(<<soft.keys.account_key, 0, 0>>).ok
        /\ WireIsValidBech32(<<soft.base>>)
        /\ WireValidateAddress(<<soft.base>>).ok.network = "testnet"
    /\ Cardinality(seen) <= 1 => \A d \in seen :
        /\ \A a \in Accounts : cache[a] \in {NoText, Xpub(d, a)}
        /\ hard # None =>
            hard.base_address =
                WireDeriveAddress(<<Bech32("xprv", AccountKey(DeviceSeed(d), Harden(0))), 0, 0, Net>>).ok.address
        /\ \A w \in Range(call.done) : w.vkey.of = w.signature.of.by

(* A witness in the hands of the caller is one put together from what       *)
(* devices answered, or one of a software wallet; its signer is known.      *)
OfDevice(w) == \E x \in Rebuilt : w = [vkey |-> x.vkey.of, signature |-> x.signature.of]

OfSoft(w) == \E k \in {SoftWallet.keys.payment_signing_key, SoftWallet.keys.stake_signing_key}
                          \cup Range(FriendKeys) :
                w = Witness(k.of, body.of)

Known(w) == w.signature.by \in signed /\ (OfDevice(w) \/ OfSoft(w))

(* Nobody's signature is lost on the way to an assembled transaction, ...   *)
WitnessesKept ==
    body # None =>
        /\ collected = Hex("witnesses", [vkeys |-> collected.of.vkeys, scripts |-> collected.of.scripts])
        /\ IsFiniteSet(collected.of.vkeys)
        /\ \A w \in collected.of.vkeys : Known(w)
        /\ tx = NoTx \/ tx.route # "device" =>
              signed \subseteq {w.signature.by : w \in collected.of.vkeys}

(* ... and a witness that does not verify for the body is one of a device   *)
(* that was not shown all of it.                                           *)
WitnessesFit ==
    body # None /\ Cardinality(seen) <= 1 => \A w \in collected.of.vkeys :
        \/ Verify(w.vkey, Blake2b(Rewritten(body.of)), w.signature)
        \/ ~Lossless(body.of) /\ w.signature.by[1] \in {DeviceSeed(d) : d \in seen}

(* Where a transaction came from, once it is there nobody is asked again.   *)
MadeOf(aux, witnesses) == tx.of = [body |-> Rewritten(body.of), witnesses |-> witnesses, aux |-> aux]

TxMade ==
    tx # NoTx =>
        /\ body # None /\ call.at \in {"idle", "opening"}
        /\ \/ tx.route = "assemble" /\ MadeOf(AuxOf(body.of), collected.of)
           \/ /\ tx.route = "attach"
              /\ tx.of = [body |-> body.of, aux |-> AuxOf(body.of),
                          witnesses |-> [collected.of EXCEPT !.scripts = Scripts(body.of)]]
           \/ /\ tx.route = "device"
              /\ MadeOf(NoText, [vkeys |-> tx.of.witnesses.vkeys, scripts |-> {}])
              /\ \A w \in tx.of.witnesses.vkeys : OfDevice(w) /\ w.signature.by \in signed
           \/ /\ tx.route = "sign" /\ soft # None /\ body.of.parts \cap {"mint", "aux_hash"} = {}
              /\ MadeOf(NoText, [vkeys |-> Witnesses(SoftKeys, body.of), scripts |-> {}])
           \/ /\ tx.route = "mint" /\ soft # None
              /\ MadeOf(AuxOf(body.of), [vkeys |-> Witnesses(<<Head(SoftKeys)>>, body.of),
                                          scripts |-> collected.of.scripts])

(* What was signed, and that it was.                                       *)
SignedHere ==
    /\ made # {} => soft # None
    /\ \A m \in made :
        \E k \in Range(SoftKeys) \cup {Friend.payment_signing_key}, p \in Payloads :
            \/ \E a \in {soft.base, soft.reward, FriendAddress} : m = DataSigned(k, a, p)
            \/ \E a \in {NoText, soft.base, FriendAddress} : m = MessageSigned(k, a, p)

Inv == TypeOK /\ DerivationsAgree /\ WitnessesKept /\ WitnessesFit /\ TxMade /\ SignedHere

(* Whose witnesses a transaction carries, by how it came about: those of    *)
(* everybody who signed; of the one call of the device; of the wallet; or,  *)
(* from sign_tx_with_metadata, of the wallet's payment key only.  The base  *)
(* set it is given loses its witnesses (sign.rs:95), where its comments say *)
(* they are merged (sign.rs:54-55, 83-85).                                  *)
Signers ==
    CASE tx.route \in {"assemble", "attach"} -> signed
      [] tx.route = "device" -> {w.signature.by : w \in tx.of.witnesses.vkeys}
      [] tx.route = "sign" -> {k.of : k \in Range(SoftKeys)}
      [] tx.route = "mint" -> {Head(SoftKeys).of}

(* The policy scripts: those of the set collected, lost once it was merged,  *)
(* unless a dApp adds its own.                                              *)
ScriptsThere ==
    CASE tx.route \in {"assemble", "mint"} -> Scripts(body.of) \subseteq collected.of.scripts
      [] tx.route \in {"device", "sign"} -> Scripts(body.of) = {}
      [] tx.route = "attach" -> TRUE

(* A device was shown all it signed, which decompose_tx_body only ensures   *)
(* for the parts it refuses.                                                *)
ShownWhole ==
    \A k \in Signers, d \in Devices : k[1] = DeviceSeed(d) => Lossless(body.of)

(* No signature goes with the key of another device: never if the adapter   *)
(* has met one device only, whatever its cache holds.                       *)
Attributed ==
    Cardinality(seen) <= 1 \/ \A w \in tx.of.witnesses.vkeys : w.vkey = w.signature.by

(* The bytes signed are those of the transaction: a dApp's own may differ.  *)
AsWritten == tx.route = "attach" => body.of.form = "csl"

(* The ledger accepts a transaction exactly when every key it needs is one   *)
(* of those whose witnesses it carries, in whatever order and rounds they    *)
(* were collected and whoever else signed, with its scripts, each signer     *)
(* shown the whole body, each signature under its own key, over the bytes    *)
(* sent.  In each other case it is refused, and only then: when a co-signer's *)
(* witness was dropped from the base set, when a device signed a body it saw *)
(* in part (its metadata, say, which signTransaction of the hardware wallet  *)
(* leaves out too), when the adapter took the key of another device, or when *)
(* the dApp wrote its body in another form.                                  *)
CompleteIsAccepted ==
    tx # NoTx =>
        (Accepted(tx.of) <=> /\ Needed(body.of) \subseteq Signers
                             /\ ScriptsThere /\ ShownWhole
                             /\ Attributed /\ AsWritten)

(* Whose an address is, for the two wallets there are. *)
OwnerOf(key, address) ==
    \/ key.of[1] = SoftSeed /\ address.of = soft.base.of
    \/ key.of = soft.keys.stake_signing_key.of /\ address.of = soft.reward.of
    \/ key.of[1] = Friend.account_key.of[1] /\ address.of = FriendAddress.of

(* A signature on data with its key or its signature spoiled. *)
DamagedData(m) ==
    {[signature |-> m.of.signature, key |-> k] : k \in {Junk, m.of.signature, OtherCoseKey}}
    \cup {[signature |-> [m.of.signature EXCEPT !.of.signature = NoText], key |-> m.of.key]}

(* Verification is true exactly of what was signed: the payload, the        *)
(* address and the key of one signature, by an owner of the address; and    *)
(* false when parts of two signatures are mixed up or something else was    *)
(* expected, or an error for an address that is not in hex.  A damaged key  *)
(* or signature is never true.  The old container does not sign its         *)
(* address: any address of the key will do.                                 *)
VerifiedMeansSigned ==
    \A m, k \in made : m.what = k.what =>
        \A expected \in {NoText, m.address, FriendAddress, WireAddressToHex(<<FriendAddress>>).ok} :
            IF m.what = "data"
            THEN \A p \in Payloads \cup {NoText} :
                LET v == WireCip30VerifyData(<<[signature |-> m.of.signature, key |-> k.of.key],
                                               p, expected>>)
                    true == /\ k.key = m.key /\ OwnerOf(m.key, m.address)
                            /\ p \in {NoText, m.payload} /\ expected \in {NoText, m.address}
                IN /\ IF v.err = "None" THEN v.ok <=> true
                      ELSE v.err = "InvalidParameter" /\ expected = FriendAddress
                   /\ \A d \in DamagedData(m) : WireCip30VerifyData(<<d, p, expected>>) # Ok(TRUE)
            ELSE
                LET mixed == [cose_sign1 |-> m.of.cose_sign1, public_key |-> k.of.public_key,
                              address |-> k.address]
                IN WireVerifyMessage(<<mixed, expected>>)
                    = Ok(/\ k.key = m.key /\ expected \in {NoText, k.address}
                         /\ k.address = NoText \/ OwnerOf(k.key, k.address))
=============================================================================
