------------------------------ MODULE Signing ------------------------------
(***************************************************************************)
(* Keys, addresses, witness sets and signed data: wallet.rs, address.rs,   *)
(* sign.rs, cip30.rs, hardware.rs and message.rs, as operators from their  *)
(* arguments to an outcome.                                                *)
(*                                                                         *)
(* An argument is a text: how it is encoded, what it encodes, and that.    *)
(* The cryptography is ideal.  A key is the seed and the path it comes     *)
(* from, and is its own hash; a signature names the key that made it and   *)
(* what was signed, and verifies for these only.                           *)
(***************************************************************************)
EXTENDS Outcomes, Integers, FiniteSets, Functions, SequencesExt

CONSTANT
    Half  \* 2^31: indices from here on are hardened

ASSUME SigningAssumption == Half \in Nat \ {0}

-----------------------------------------------------------------------------
(* Texts *)

Hex(kind, x) == [enc |-> "hex", kind |-> kind, of |-> x]
Bech32(kind, x) == [enc |-> "bech32", kind |-> kind, of |-> x]
NoText == [enc |-> "none"]  \* an absent argument
Junk == [enc |-> "junk", kind |-> "junk", of |-> NoText]

(* A text of another kind, or in another encoding, does not parse. *)
IsHex(s, kind) == s.enc = "hex" /\ s.kind = kind
IsBech32(s, kind) == s.enc = "bech32" /\ s.kind = kind

HexToBytes(s) == Check(s.enc # "hex", "InvalidParameter")

Decoded(s, kind, err) ==
    First(<<HexToBytes(s), Check(~IsHex(s, kind), err)>>)

-----------------------------------------------------------------------------
(* Keys: wallet.rs, and hardware.rs for those a device exports.  The BIP-32 *)
(* derivation is the library's: CIP-1852 accounts are hardened, roles and  *)
(* indices of a public key cannot be.                                      *)

Harden(i) == IF i >= Half THEN i ELSE i + Half  \* i | 0x80000000

AccountKey(seed, account) == <<seed, account>>

Derive(account_key, role, index) == <<account_key[1], account_key[2], role, index>>

IsKey(s) == IsBech32(s, "xprv")

DeriveKeysFromMnemonic(mnemonic, passphrase, account_index) ==
    LET account_key == AccountKey(<<mnemonic.of, passphrase>>, Harden(account_index))
        payment == Derive(account_key, 0, 0)
        stake == Derive(account_key, 2, 0)
    IN Unless(Check(mnemonic.kind # "mnemonic", "InvalidMnemonic"),
              [account_key |-> Bech32("xprv", account_key),
               payment_key |-> Bech32("xpub", payment),
               stake_key |-> Bech32("xpub", stake),
               payment_key_hash |-> Hex("key hash", payment),
               payment_signing_key |-> Bech32("xprv", payment),
               stake_signing_key |-> Bech32("xprv", stake),
               stake_key_hash |-> Hex("key hash", stake)])

DeriveAccountKey(account_key, role, index) ==
    Unless(Check(~IsKey(account_key), "InvalidKey"),
           Bech32("xpub", Derive(account_key.of, role, index)))

(* An address has a type, a network and credentials: of a key or a script. *)
KeyCredential(key) == [of |-> "key", hash |-> key]

BaseAddress(network_id, payment, stake) ==
    [type |-> "base", net |-> network_id, creds |-> <<KeyCredential(payment), KeyCredential(stake)>>]

RewardAddress(network_id, stake) ==
    [type |-> "reward", net |-> network_id, creds |-> <<KeyCredential(stake)>>]

DeriveAddress(account_key, role, index, network_id) ==
    LET payment == Derive(account_key.of, role, index)
        stake == Derive(account_key.of, 2, 0)
    IN Unless(Check(~IsKey(account_key), "InvalidKey"),
              [address |-> Bech32("address", BaseAddress(network_id, payment, stake)),
               payment_key_hash |-> Hex("key hash", payment)])

ComputeBaseAddress(payment_key_hash, stake_key_hash, network_id) ==
    Unless(First(<<Decoded(payment_key_hash, "key hash", "CslError"),
                   Decoded(stake_key_hash, "key hash", "CslError")>>),
           Bech32("address", BaseAddress(network_id, payment_key_hash.of, stake_key_hash.of)))

ComputeStakeAddress(stake_key_hash, is_testnet) ==
    Unless(Decoded(stake_key_hash, "key hash", "CslError"),
           Bech32("address", RewardAddress(IF is_testnet THEN 0 ELSE 1, stake_key_hash.of)))

XpubToAccount(account_xpub, network_id) ==
    LET payment == Derive(account_xpub.of, 0, 0)
        stake == Derive(account_xpub.of, 2, 0)
    IN Unless(Decoded(account_xpub, "xpub", "InvalidKey"),
              [base_address |-> Bech32("address", BaseAddress(network_id, payment, stake)),
               reward_address |-> Bech32("address", RewardAddress(network_id, stake)),
               payment_key_hash |-> Hex("key hash", payment),
               stake_key_hash |-> Hex("key hash", stake)])

(* Mutant: the segments of the path swapped. *)
XpubDerivePublicKeySwapped(account_xpub, role, index) ==
    Unless(First(<<Decoded(account_xpub, "xpub", "InvalidKey"),
                   Check(role >= Half \/ index >= Half, "CslError")>>),
           Hex("public key", Derive(account_xpub.of, index, role)))

XpubDerivePublicKey(account_xpub, role, index) ==
    Unless(First(<<Decoded(account_xpub, "xpub", "InvalidKey"),
                   Check(role >= Half \/ index >= Half, "CslError")>>),
           Hex("public key", Derive(account_xpub.of, role, index)))

IsValidBech32(addr) == IsBech32(addr, "address")

ValidateAddress(address_str) ==
    Unless(Check(~IsValidBech32(address_str), "InvalidAddress"),
           [address |-> address_str,
            network |-> IF address_str.of.type = "malformed" THEN "unknown"
                        ELSE IF address_str.of.net = 0 THEN "testnet" ELSE "mainnet"])

AddressToHex(address) ==
    Unless(Check(~IsValidBech32(address), "InvalidAddress"), Hex("address", address.of))

-----------------------------------------------------------------------------
(* Transactions.  A body is what it says (parts and the keys it needs) and *)
(* how its bytes are written; the library writes them in its own way, and  *)
(* the hash is of the bytes.                                               *)

Rewritten(body) == [body EXCEPT !.form = "csl"]

Blake2b(x) == [digest |-> x]

Sign(key, x) == [by |-> key, over |-> x]

Verify(key, x, signature) == signature = Sign(key, x)

Witness(key, body) == [vkey |-> key, signature |-> Sign(key, Blake2b(Rewritten(body)))]

Witnesses(keys, body) == {Witness(k.of, body) : k \in Range(keys)}

KeysCheck(keys) == Check(\E k \in Range(keys) : ~IsKey(k), "InvalidKey")

Cbor(s, kind) == Check(~IsHex(s, kind), "InvalidCbor")

Optional(s, err) == IF s = NoText THEN "None" ELSE err

EmptyWitnessSet == [vkeys |-> {}, scripts |-> {}]

Transaction(body, witness_set, aux) ==
    Hex("tx", [body |-> Rewritten(body), witnesses |-> witness_set, aux |-> aux])

SignTx(body, keys) ==
    Unless(First(<<KeysCheck(keys), Cbor(body, "body")>>),
           [tx |-> Transaction(body.of, [EmptyWitnessSet EXCEPT !.vkeys = Witnesses(keys, body.of)],
                               NoText),
            hash |-> Blake2b(Rewritten(body.of))])

(* set_vkeys puts the new witnesses in the place of those of the base set. *)
SignTxWithMetadata(body, keys, aux, base) ==
    LET start == IF base = NoText THEN EmptyWitnessSet ELSE base.of
    IN Unless(First(<<KeysCheck(keys), Cbor(body, "body"), Optional(base, Cbor(base, "witnesses")),
                      Optional(aux, Cbor(aux, "aux"))>>),
              [tx |-> Transaction(body.of, [start EXCEPT !.vkeys = Witnesses(keys, body.of)], aux),
               hash |-> Blake2b(Rewritten(body.of))])

Cip30SignTx(tx, keys) ==
    Unless(First(<<KeysCheck(keys), Decoded(tx, "tx", "InvalidCbor")>>),
           Hex("witnesses", [EmptyWitnessSet EXCEPT !.vkeys = Witnesses(keys, tx.of.body)]))

Cip30AssembleTx(body, witness_set, aux) ==
    Unless(First(<<Decoded(body, "body", "InvalidCbor"),
                   Decoded(witness_set, "witnesses", "InvalidCbor"),
                   Optional(aux, Decoded(aux, "aux", "InvalidCbor"))>>),
           Transaction(body.of, witness_set.of, aux))

(* A sequence of witnesses of a device, as texts. *)
AssembleVkeyWitnessSet(witnesses) ==
    LET check(w) == First(<<Decoded(w.vkey, "public key", "CslError"),
                            Decoded(w.signature, "signature", "CslError")>>)
    IN Unless(First([i \in DOMAIN witnesses |-> check(witnesses[i])]),
              Hex("witnesses", [EmptyWitnessSet EXCEPT
                      !.vkeys = {[vkey |-> w.vkey.of, signature |-> w.signature.of] :
                                    w \in Range(witnesses)}]))

ExtractVkeyWitnesses(witness_set) ==
    Unless(Decoded(witness_set, "witnesses", "InvalidCbor"),
           FoldSet(LAMBDA w, list : Append(list, [vkey |-> Hex("public key", w.vkey),
                                                  signature |-> Hex("signature", w.signature)]),
                   <<>>, witness_set.of.vkeys))

(* Parts of a body the decomposition reports, and those it refuses.  It     *)
(* forgets the hashes of metadata and script data and required signers.    *)
Reported == {"ttl", "validity_start", "network_id"}
Unsupported == {"certs", "withdrawals", "mint", "collateral", "reference_inputs", "votes"}

DecomposeTxBody(body) ==
    Unless(Decoded(body, "body", "InvalidCbor"),
           [pays |-> body.of.pays, parts |-> body.of.parts \cap Reported,
            has_unsupported_features |-> body.of.parts \cap Unsupported # {}])

-----------------------------------------------------------------------------
(* Signed data: a COSE_Sign1 and a COSE_Key (cip30.rs), and the container  *)
(* of message.rs, whose address is not signed.                             *)

(* Mutant: only the payment credential of a base address. *)
AddressCredentialHashesPayment(addr) ==
    {addr.creds[i].hash : i \in {j \in DOMAIN addr.creds : j = 1 /\ addr.creds[j].of = "key"}}

AddressCredentialHashes(addr) ==
    {c.hash : c \in {d \in Range(addr.creds) : d.of = "key"}}

Owns(key, addr) == key \in AddressCredentialHashes(addr)

Protected(address) == [alg |-> "EdDSA", address |-> address]

SignatureData(cose) == [protected |-> cose.protected, payload |-> cose.payload]

Cip30SignData(address, payload, signing_key) ==
    LET cose == [protected |-> Protected(address), payload |-> payload]
    IN Unless(First(<<HexToBytes(address), HexToBytes(payload),
                      Check(~IsKey(signing_key), "InvalidKey")>>),
              [signature |-> Hex("cose_sign1",
                    [protected |-> cose.protected, payload |-> payload,
                     signature |-> Sign(signing_key.of, SignatureData(cose))]),
               key |-> Hex("cose_key", signing_key.of)])

(* "False" is the answer false, met where an error is met. *)
Answer(checked, valid) ==
    IF checked = "False" THEN Ok(FALSE) ELSE Unless(checked, valid)

(* An absent payload is compared as an empty one, and then cannot be signed. *)
PayloadCheck(payload, expected) ==
    IF expected = NoText THEN Check(payload = NoText, "False")
    ELSE First(<<HexToBytes(expected),
                 Check(expected # IF payload = NoText THEN Hex("data", "") ELSE payload, "False"),
                 Check(payload = NoText, "InvalidCbor")>>)

(* A COSE_Key may hold another key than one of Ed25519, or none. *)
OtherCoseKey == Hex("other cose_key", NoText)

CoseKeyCheck(key) ==
    First(<<HexToBytes(key), Check(key.kind \notin {"cose_key", "other cose_key"}, "InvalidCbor"),
            Check(key.kind = "other cose_key", "InvalidKey")>>)

(* A signature that is not one of Ed25519 is NoText. *)
CoseChecks(cose, key, expected_payload, expected_address) ==
    LET address == cose.protected.address
    IN <<Check(cose.protected.alg \notin {"none", "EdDSA"}, "False"),
         PayloadCheck(cose.payload, expected_payload),
         CoseKeyCheck(key),
         Check(cose.signature = NoText, "InvalidCbor"),
         Check(address = NoText /\ expected_address # NoText, "False"),
         IF address = NoText THEN "None"
         ELSE First(<<Optional(expected_address, First(<<HexToBytes(expected_address),
                                                Check(expected_address # address, "False")>>)),
                      Check(~IsHex(address, "address"), "InvalidAddress")>>)>>

Cip30VerifyData(data_signature, expected_payload, expected_address) ==
    LET form == Decoded(data_signature.signature, "cose_sign1", "InvalidCbor")
        cose == data_signature.signature.of
        key == data_signature.key
        checked == First(CoseChecks(cose, key, expected_payload, expected_address))
    IN IF form # "None" THEN Failed(form)
       ELSE Answer(checked,
                   /\ cose.protected.address = NoText \/ Owns(key.of, cose.protected.address.of)
                   /\ Verify(key.of, SignatureData(cose), cose.signature))

SignMessage(message, signing_key, address) ==
    Unless(First(<<HexToBytes(message), Check(~IsKey(signing_key), "InvalidKey")>>),
           [cose_sign1 |-> Hex("container", [message |-> message,
                                             signature |-> Sign(signing_key.of, Blake2b(message))]),
            public_key |-> Hex("public key", signing_key.of), address |-> address])

(* The address is compared first, parsed last: a message of another address *)
(* is just false.                                                          *)
VerifyMessage(signed_message, expected_address) ==
    LET container == signed_message.cose_sign1
        key == signed_message.public_key
        address == signed_message.address
        checked == First(<<Optional(expected_address, Check(expected_address # address, "False")),
                           Decoded(container, "container", "InvalidCbor"),
                           Check(~IsHex(key, "public key"), "InvalidKey"),
                           Optional(address, Check(~IsValidBech32(address), "InvalidAddress"))>>)
    IN Answer(checked,
              /\ address = NoText \/ Owns(key.of, address.of)
              /\ Verify(key.of, Blake2b(container.of.message), container.of.signature))

-----------------------------------------------------------------------------
(* frb_generated.rs: the arguments in the order of the wire. *)

WireDeriveKeysFromMnemonic(m) == DeriveKeysFromMnemonic(m[1], m[2], m[3])
WireDeriveAccountKey(m) == DeriveAccountKey(m[1], m[2], m[3])
WireDeriveAddress(m) == DeriveAddress(m[1], m[2], m[3], m[4])
WireComputeBaseAddress(m) == ComputeBaseAddress(m[1], m[2], m[3])
WireComputeStakeAddress(m) == ComputeStakeAddress(m[1], m[2])
WireXpubToAccount(m) == XpubToAccount(m[1], m[2])
WireXpubDerivePublicKey(m) == XpubDerivePublicKey(m[1], m[2], m[3])
WireValidateAddress(m) == ValidateAddress(m[1])
WireIsValidBech32(m) == IsValidBech32(m[1])
WireAddressToHex(m) == AddressToHex(m[1])
WireSignTx(m) == SignTx(m[1], m[2])
WireSignTxWithMetadata(m) == SignTxWithMetadata(m[1], m[2], m[3], m[4])
WireCip30SignTx(m) == Cip30SignTx(m[1], m[2])
WireCip30AssembleTx(m) == Cip30AssembleTx(m[1], m[2], m[3])
WireAssembleVkeyWitnessSet(m) == AssembleVkeyWitnessSet(m[1])
WireExtractVkeyWitnesses(m) == ExtractVkeyWitnesses(m[1])
WireDecomposeTxBody(m) == DecomposeTxBody(m[1])
WireCip30SignData(m) == Cip30SignData(m[1], m[2], m[3])
WireCip30VerifyData(m) == Cip30VerifyData(m[1], m[2], m[3])
WireSignMessage(m) == SignMessage(m[1], m[2], m[3])
WireVerifyMessage(m) == VerifyMessage(m[1], m[2])
=============================================================================
