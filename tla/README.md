# Verification of the Cardano Flutter SDK

TLA+ modules of the SDK in this repository, the TLC runs that check them on
small instances, and TLAPS proofs of what holds for every instance. The modules
are translated from the code; where the code and its documentation disagree the
model follows the code, and a run or a property that states what the code does
exhibits the difference (section 2).

    tlc -workers 2 -config X.cfg M      # a run; the pairs are in the table of runs
    tlapm M.tla                         # a module of proofs

Paths below are relative to the repository.

## 1. The system

Rust (`rust/src`) builds, signs and selects, and keeps no state between calls.
Dart (`dart/lib`) wraps it, queries and submits through Blockfrost over HTTP,
scans HD accounts, and answers dApps (CIP-30, CIP-45). The Flutter example
(`example/lib`) strings these calls into flows, with a user tapping, editing and
leaving between any two awaits. Only the seed vault is persisted: elsewhere there
is no crash recovery. What is hard is asynchronous Dart over a network, a ledger
and devices that move on, many exits per function, and u64 arithmetic.

Dart runs one callback at a time. A flow is interrupted only at its `await`s:
every action in these modules is the code between two of them, with everything
that code changes.

| Component | State | Operations and interactions | What is hard | What makes it correct |
|---|---|---|---|---|
| Submission: `submitTransaction`, `_makeRequest` (`providers/blockfrost.dart`) | `attemptCount`, the POSTs in flight | retry of 5xx and timeouts with a delay; called by screens and wallets | a timed-out POST may still be processed, before or after its retries | what an error lets the caller conclude; no two conflicting payments reported sent; an end |
| UTxO query: `fetchUtxos` (same file) | `page`, `allUtxos` | one request per page until a short one; feeds coin selection | outputs move between pages while the pages are read | nothing twice, nothing missing |
| Other queries and `pollTransactionConfirmation` (same file) | none; a deadline when polling | single GETs over `_makeRequest` | staleness at the caller | - |
| Coin selection (`rust/src/coin_selection.rs`) | accumulators, selected inputs | greedy loop, validation, dust loop, change; called by screens before building | u64 sums, exact thresholds, many exits | conservation, change that meets its estimate, honest errors |
| HD discovery (`dart/lib/src/hd/hd_wallet.dart`) | chain, index, run of unused addresses, accounts | one lookup per address through the provider | the wallet is used meanwhile; boundary of the gap | every used address found; a next address exists |
| Send screen (`example/lib/send_screen.dart`) | `_isLoading`, messages, hash, fee estimate, text fields | preview, confirm, fetch, select, build, sign, submit, poll | edits and leaving at any await, sending again after an error | pays what was confirmed, once; tells the truth |
| CIP-45 endpoint (`example/lib/cip45_screen.dart`, `cip45_transport.dart`, `assets/cip45/cip45_bridge.html`, `dart/lib/src/cip45/cip45.dart`) | `_handler`, `_transport`, `_connecting`, `_ready`, the WebView | connect, serve, disconnect, dispose; handler calls the CIP-30 wallet | four awaits in a connect, setState that throws, a 20 s timer | no connection without an owner that serves; connecting ends |
| Native WebRTC transport (`example/lib/cip45_webrtc_transport.dart`) | peer connection, channel, subscription | offer, answer, candidates, data messages | asynchronous handlers out of order | as above |
| CIP-30 wallets (`cip30_wallet.dart`, `web_cip30_wallet.dart`) | fixed at creation | queries, `signTx`, `signData`, `submitTx` | each call reads the chain anew | - |
| Transaction builders (`tx.rs`, `staking.rs`, `minting.rs`, `plutus.rs`, `metadata.rs`) | none | inputs, outputs, certificates, mint, withdrawals; fee and change | deposits, refunds and mint in one balance; many early returns | what is built the ledger takes; the wallet's books move by what was reported |
| Staking and minting screens (`stake_screen.dart`, `mint_screen.dart`) | `_accountInfo`, the transaction under way | fetch, build, sign, submit | the account was read before, and changes | only the chain moving on makes a transaction refused |
| Signing (`sign.rs`, `cip30.rs`, `message.rs`) | none | witnesses for a body, merging and assembling witness sets, signed data | signatures collected from several signers; parts of signed data put together anew | enough signatures make an accepted transaction; verified means signed |
| Keys and addresses (`wallet.rs`, `address.rs`, `hardware.rs`) | none | private and public derivation of the same keys | two ways to one address | they agree |
| Hardware (`hardware.rs`, `hardware_cip30_wallet.dart`, `ledger_hardware_wallet.dart`) | `_xpubCache`, the connection | decompose a body, show it, sign, assemble | a device exchanged between two awaits; parts a device cannot show | a witness's key is the key that signed |
| Seed vault (`seed.rs`, `seed_vault_screen.dart`) | two entries of secure storage | encrypt and store, unlock, wipe | several accesses with awaits between, failing or cut short by the app's end | the stored seed can be decrypted, or nothing is |
| Bridge (`frb_generated.rs`) | none | reads the arguments of a call in order | - | each argument arrives as the parameter it was passed for |
| Account screen, errors, conformance harnesses, tools | - | - | - | - |

`PROJECT.json` lists them with their status, and under `hazards` each thing that
a test would hardly reach, at its line.

## 2. The modules

| Module | Models | Extends or instantiates |
|---|---|---|
| `SubmitContract` | the abstract specification of a submission | |
| `BlockfrostSubmit` | submission, network and node | instantiates `SubmitContract` |
| `UtxoPagination` | paging over a moving chain | |
| `CoinSelection` | `largest_first` | |
| `HdDiscovery` | gap scan over a wallet in use | |
| `SendFlow` | the send screen with wallet and ledger | relies on a result of `CoinSelection` and one of `BlockfrostSubmit` |
| `Cip45Session` | the CIP-45 screen, its transports and requests | |
| `Outcomes` | results of the Rust functions: the first failing check, or a value | |
| `TxBuild` | the transaction builders | `Outcomes` |
| `Books` | the abstract specification of a wallet's money | |
| `TxFlow` | staking, paying, minting and unlocking against a ledger | extends `TxBuild`, instantiates `Books` |
| `Signing` | keys, addresses, witness sets, signed data | `Outcomes` |
| `SigningFlow` | a software wallet, devices and a caller signing one transaction | extends `Signing` |
| `SeedVault` | the encrypted container and the vault screen | `Outcomes` |
| `MC...` | constants for TLC that a `.cfg` cannot express | the module they name |
| `...Proofs` | theorems; `QueryProofs` those of `UtxoPagination` and `HdDiscovery` | the module they name |

An operator introduced by "Mutant of" is a plausible mistake in the code;
substituted for the definition it names, it breaks a property. `map` in
`PROJECT.json` gives the lines each definition translates.

### BlockfrostSubmit, SubmitContract

Each call has its loop state (`pc`, `attempt`) and the POST of each attempt on
the `wire`. `Send` is the top of the loop, `Receive` the status mapping of
`_handleResponse`, `Timeout` the 30 s of an attempt, `ConnectionError` any other
exception, which is not retried. `Process` is the other side: the node accepts a
transaction whose inputs are unspent, rejects it, or Blockfrost answers for it;
with an answer that reaches the client only if it still waits on that attempt. A
lost POST is one that is never processed, a lost answer a timeout.

`SubmitContract` says what a caller may conclude: a submission reported `sent`
was taken, one reported `failed` was not and never will be, one reported
`unknown` may go either way. The refinement mapping `ReportOf` shows what that
means in the code: only a refusal of the *first* attempt is `failed`. After a
retry, `BlockfrostBadRequest` may be the answer to a transaction that an earlier
attempt of the same call got accepted: its inputs are then spent, by itself. The
documentation says otherwise ("Throws [BlockfrostBadRequest] if the transaction
is invalid", `blockfrost.dart:348`), and `submit_bad_request` shows the
difference.

### UtxoPagination

`ledger` is the address's unspent outputs in the order Blockfrost lists them.
`ReadPage` is an iteration of the loop, `FailPage` an exception out of
`_makeRequest`. Outputs are received at the end and spent anywhere between two
pages; a rollback undoes one or the other. Two action properties relate the
result to the ledger at the moment the last page is read: with no spend the
result *is* the ledger then (`Snapshot`), and each spend hides at most one
unspent output (`MissedAtMostSpends`). The reason is in the invariant: without a
rollback what is still to be read comes after all that was read (`ReadInOrder`),
and an output that moved to a page already read needs a spend of its own, as does
an empty place there (`SkippedAtMostSpends`).

### CoinSelection

One step per iteration of the loops of `largest_first`; the arguments are chosen
in `Init`. Sums are checked where the code uses `checked_sum`, saturate in the
estimates and wrap elsewhere, as in a release build (`Cargo.toml` leaves overflow
checks off there). `MaxU64` is a constant, so a small one makes TLC meet every
overflow. Properties about amounts carry the condition `Fits`: target, fee and
minimum do not exceed a u64. Without it they do not hold, because `target_coin`
and `needed_coin` are plain sums; all lovelace in existence is far below a u64,
so only malformed targets reach that.

`NextUtxo` is the sort: of the UTxOs not yet taken, the one with the most
lovelace, ties by transaction hash and output index.

The header of the file says that the selected inputs cover every asset
(`coin_selection.rs:16, 21, 54`). The code tests the assets only when the
lovelace falls short, so a selection may succeed without them;
`selection_asset_doc` shows it, and `AssetsConserved` states what does hold.

Two more sentences of the documentation are not what the code does, and the
properties state the latter:

- "Find a minimal set of inputs" (`coin_selection.rs:40`). The loop takes UTxOs in
  one order, so of a larger one without the token wanted and a smaller one with it
  both are spent, though the second may suffice alone. `ShortestPrefix`: the
  selection is the shortest prefix of that order that suffices, no more.
- `DustChange`, "change output < min-ADA threshold" (`:55`). It is returned with
  UTxOs left that would have paid for it, and with change above `min_ada`:
  `ErrorsAreHonest` says exactly when, namely that the change of the inputs taken
  lies between the minimum of plain lovelace and the estimate for the tokens it
  has to carry.

`ChangeMeetsEstimate` is about the code's own estimate of min-ADA for an output with
tokens, which counts one policy and short names. The ledger asks for more for
several policies or names of 32 bytes; its minimum is not in this module, and the
selection does not promise it.

A by-product of the invariant: the dust-fixing loop is dead code unless a sum
overflows, since the validation before it has already asked for min-ADA of
change.

### HdDiscovery

Its `HdInit`, `HdNext`, `HdSpec`, `HdInv` carry the prefix because its proofs stand
beside those of `UtxoPagination`, in one module that extends both.

`Lookup` is one iteration of `scanChain`, `ExternalScanned` and `AccountScanned`
what `scanAccount` and `discoverAccounts` do when a chain is complete,
`LookupFails` an exception, which ends the whole discovery. `Use` is the rest of
the world: an address with no history gets one, at any time. Provider answers
are atomic reads of `used`.

`FindsAllUsed` has a condition on the wallet, `GapKept`: BIP-44 wallets do not
leave `gapLimit` unused addresses below a used one. Everything used before the
discovery began is then found. What is used while it runs may be missed
(it may be behind the scan), which is why the invariant is about `before`.

### SendFlow

Each screen has its text fields, what it shows (`screen`, the fields of the
State) and where its one running call is (`pc`). A call captures the recipient
and the amount before its first await (`asked`), and reads the asset fields again
when it builds. `SetState` does nothing but throw once the screen was left; what
the code does with that exception is in each action. `view` is the UTxO set the
call fetched, taken at one moment (`UtxoPagination` is about the fetch itself).
`Built` uses `LargestFirst`, the set of results `CoinSelection` allows by its
property of that name. Submission is what `SubmitContract` allows: a hash only
for a transaction that was accepted, an error that may say nothing. The ledger
has a mempool, blocks and TTLs; no rollback, and no second device with the keys.

`NoOverlap` is about `_isLoading`, which every call of the screen sets and clears;
the progress indicator of the status panel (`send_screen.dart:510`) is not in the
model.

`OnePaymentPerView` is the reason why sending again after an error does not pay
twice: largest-first selection makes two payments built from views with the same
largest output compete for that output. It is a property that no line of the
code states and that a change of the selection algorithm would silently end.

The dialog lists the asset (`send_screen.dart:198`), but the asset fields stay
editable and are read again two awaits later: `send_flow_doc_asset` exhibits a
payment with another asset than the one confirmed.

### Cip45Session

A screen connects (`Connect`) by starting a new transport: the WebView is created
(`RunEnds`), its page signals ready (`PageLoads`) or 20 s pass (`ReadyTimeout`,
after which the code goes on as if it were), a script starts the peer-to-peer
node (`RunScript`), and only when its result is back does the screen know its
transport (`Started`). Leaving in between makes every `setState` throw, inside
whatever called it: the status callback throws *before* it completes `_ready`, a
request's log line throws before the wallet is asked. `dispose` closes the
transport the screen holds; one that is just being started is not closed and may
go on announcing. `OutlivingServesNothing` is the reason this does no harm: the
handler logs before it dispatches. A link from another app may push a second
screen over the first (`main.dart:107`); both are mounted then, each with its
own transport, and only the upper one receives taps.

If the wallet cannot be built, `_handler!` throws in `_connect` after
`_connecting` was set and outside its `try`: the screen says that it is
connecting until it is left. `ConnectEnds` is therefore stated for screens with
a wallet. A failed start does not dispose of its WebView.

### Outcomes, TxBuild, Books, TxFlow

`TxBuild` has an operator per function, from its arguments to an outcome. The
`Check`s of a function stand in the order of its early returns. `Finalise` is what
all builders end with; how the serialization library computes change and fee
(`ChangeFails`, `HasChange`, `Body`) is external and modelled as the builders use
it: the fee is a number for a body without change and one for a body with it; the
limits `max_tx_size` and `max_val_size` are counted in parts (`TxSize`: inputs,
outputs and metadata strings) and in assets of an output. Tokens too many for one
change output, which the library spreads over several, are in one. A text argument
is good, `Malformed` (not hex or bech32 at all) or `OtherHex` (hex of something
else, of a wrong length say): the functions answer the two with different errors.
The `Wire` operators take the arguments as the generated bridge reads them, by
position, so that the flows call them as Dart does.

`TxFlow` puts these under two screens. Each screen has `info`, the account as it
last read it (`_accountInfo`), and a `job`: `Tap` starts one of the requests the
buttons offer for that `info`, `Build` fetches the outputs and builds, `Submit`
signs and submits. The two awaits between are where the other screen registers,
withdraws or spends. The ledger is its rules: `Timely` is what depends on the
account, the unspent outputs and the slot, `WellFormed` the rest (balance of
lovelace and of every token, fee, minimum lovelace, scripts, size of metadata
strings and of the transaction; required signers are not in it, as no builder
adds any). `RefusedOnlyByTheChain` says that `Timely` is the only reason for a
refusal. For `build_script_tx` it excepts the scripts: that function returns no
witness set, so its caller must add them.

`Books` says what a caller is promised: a transaction moves the wallet's lovelace,
its deposit and its tokens by what was asked for plus the `fee` and the
`deposit_change` that were reported when it was built, or not at all. The
refinement mapping takes the sums over the unspent outputs of `TxFlow`; a builder
that loses a token, pays a deposit twice or reports it with the wrong sign breaks
it. What can be asked for is `Requests`, from any amount, list of assets, text or
validity interval; `Asks`, a constant, is the part of it that the users of an
instance ask for, and `Wallet` the outputs they begin with. `ErrorsAreHonest` is the
other half: an error kind implies what is wrong with the request. `TxBuild`, for one,
means a sum that overflows, funds that cannot pay with change, a transaction over
its size limit, or minted quantities that cancel out (the library keeps no entry of
0). Errors that this wallet cannot cause are left out: its inputs are those of the
ledger and its change address and stake key are its own, so the errors of malformed
ones, which the operators of `TxBuild` have, are not reached.

### Signing, SigningFlow

The cryptography is ideal: a key is a seed and a path, a signature is its key and
what was signed. A body is the set of the parts that decide (certificates, mint,
validity interval, ...), whose outputs it spends, and the form its bytes are
written in, because the library writes a body anew before it hashes it.

In `SigningFlow` a call of the Ledger adapter is split at its awaits:
`AskDevice`, `DeviceAnswer`, then one `RebuildWitness` per signature, which takes
the public key from the cached account key or reads that key over whatever
connection there is by then (`XpubAnswer`). `Connect` and `Disconnect` may fall
anywhere between. `RebuiltOf(d, e, p)` is the worst a call can put together: the key of
device `d` with the signature of device `e`. The software wallet signs with `SoftSign` or signs and
assembles at once (`SignHere`); a co-signer with a wallet of the same kind signs with
`CoSign`; the caller merges the witness sets as their documentation says and
assembles the transaction, or attaches them to the body it has (`Attach`).

`CompleteIsAccepted` says when signatures suffice, as an equivalence: a transaction
is accepted if and only if the signers whose witnesses it carries include all that
are needed and none of the following went wrong. Each of these is a refusal the run
reaches:

- `Signers`: for `sign_tx_with_metadata` they are its own key alone. `set_vkeys`
  (`sign.rs:95`) replaces the key witnesses of the base set it is given, which the
  comments at `sign.rs:54-55` and `83-85` call merging: a co-signer who signed before
  has to sign again. No function of the SDK gives it such a base set by itself;
- `Attributed`: the adapter met a second device. Its cache is keyed by account only,
  so it pairs that one's signatures with the first one's keys;
- `ShownWhole`: a device did not see the whole body. `decompose_tx_body` refuses certificates,
  withdrawals, mint, collateral, reference inputs and votes, but neither reports
  nor refuses the metadata hash, the script data hash and required signers, and the
  adapter does not pass on the network id it reports: the device signs a body
  without them;
- `AsWritten`: a dApp that attaches witnesses wrote its body otherwise than the
  library does, which hashes what it wrote anew;
- `ScriptsThere`: scripts were needed and merged away: `extract_vkey_witnesses` and
  `assemble_vkey_witness_set` carry key witnesses only.

In other behaviours there is data to sign (`body = None`): any of three keys for
any of three addresses. `VerifiedMeansSigned` puts the parts of two signatures
together in every way, and damages one. Verification is then false, with one
exception: `cip30_verify_data` answers an expected address that is not hex, a bech32
one for instance, with an error.

### SeedVault

`blob` and `wrap` are the two entries of the secure storage. `ReadWrap`, `WriteWrap`,
`Encrypt`, `WriteBlob`, `ReadBlob`, `Unlock`, `Wipe` and `Refresh` are the pieces
between two awaits. A screen that is left goes on with its operation; a second
instance may be opened then. `StorageFails` is an access that throws, `Crash` ends
the app: only the storage stays. `Damage` changes the container in each place its
checks look at. The text fields stay editable, so the password is any when it is
read. Encryption is ideal; the phrase is another one each time.

`Recoverable` has one condition, `~overlapped`: no operation began while one of a
screen left earlier was running. Without it TLC finds two screens that both see no
wrapping secret and both write one, and a container whose secret is gone.
`UnlockFailsClosed` needs no condition: whatever overlapped or was damaged, an unlock
shows a phrase only for a container that was written, with the password and the
wrapping secret it was written under.

## 3. The runs

| Run | Configuration | Bounds | What it shows |
|---|---|---|---|
| `submit` | `MCBlockfrostSubmit`, `BlockfrostSubmit.cfg` | two calls sharing an input, the four attempts of the code | the invariant; conflicting submissions; first refusal; refinement of the contract; every call ends |
| `submit_bad_request` | `MCBlockfrostSubmit`, `BlockfrostSubmitDoc.cfg` | one call | violated: `BlockfrostBadRequest` for a transaction that was taken |
| `coin_selection` | `MCCoinSelection`, `CoinSelection.cfg` | three UTxOs, two assets, amounts around each threshold of the real parameters, a u64 of 4 500 000 | conservation of lovelace and assets, change that meets its estimate, the shortest prefix, honest errors |
| `selection_asset_doc` | `MCCoinSelection`, `CoinSelectionDocAsset.cfg` | as above, no overflow | violated: success without the assets asked for |
| `utxo_pages` | `UtxoPagination.cfg` | six outputs, pages of two, three spends, one rollback | snapshot, no duplicates, misses bounded by spends, an end |
| `hd_discovery` | `HdDiscovery.cfg` | two accounts within the cap and one beyond, four addresses per chain, gap two, any three used before and one meanwhile | completeness, trailing gap, an end |
| `send_flow` | `SendFlow.cfg` | two screens, a valid and a foreign-network payment, two outputs, two transactions, two edits | overlap, what is paid, double payment, what is shown, leaving |
| `send_flow_doc_asset` | `SendFlowDocAsset.cfg` | one screen, one transaction, an asset | violated: another asset than the one confirmed |
| `tx_flow` | `MCTxFlow`, `TxFlow.cfg` | two screens, 30 requests, three taps from a new account or two from one with rewards, a wallet of three outputs (lovelace, token, script), two policies, two names, one epoch, one slot, a 4-bit burn quantity, texts around one chunk, seven parts to a transaction, two assets to an output | refused only by the chain; honest errors; refinement of the books |
| `signing` | `MCSigningFlow`, `SigningFlow.cfg` | two devices, two accounts, a co-signer, ten bodies, three lists of paths; two signatures on data | the invariant (derivations agree, keys belong to signatures, none is lost); when a transaction is accepted, and when not; what verifies |
| `seed_vault` | `MCSeedVault`, `SeedVault.cfg` | two screens, two passwords, two containers written | the invariant, with `Recoverable`; an unlock shows what was stored or nothing |
| `cip45_session` | `Cip45Session.cfg` | two screens, two transports, one request | ownership of connections, what is served and answered, closing, connecting ends |

Why these are enough. Submission: the properties relate at most two calls, and
the retry bound is the real one. Paging: three full pages with one boundary
crossed twice, and the final empty request. Selection: each amount sits next to
a threshold (short by a little, exact, enough for both change outputs), the cap
equals the number of UTxOs, and the small u64 makes checked, saturating and
wrapping sums all occur. Discovery: a gap of two is the least that distinguishes
a reset from a missed reset, and the cap cuts off an account. Sending: a second
transaction is needed for a double payment, a second screen for a flow that
outlives its own. CIP-45: reconnecting needs a second transport, leaving and the
overlay a second screen; requests do not interact. Building: three taps are a
transaction built early, one that overtakes it and one after both, two are a
withdrawal and what overtakes it; screens are symmetric. Seven parts admit every
transaction of this wallet but one with a text of six strings, two assets every
output but one with three. Signing: two devices
are what a cache can confuse, two accounts what one call can span; each body has
one reason of its own to fail. The vault: the second container is the one that
replaces the first, the second screen the one that overtakes it; screens and
passwords are symmetric. Every bound is a constant of its module, named as such.

`CHECK_DEADLOCK FALSE` in the runs whose systems may stop: calls end, bounded
environments run out, a transaction is assembled once. Where something has to
end, a liveness property says so. `tx_flow` and `seed_vault` check for deadlock:
a screen can always be loaded, left or opened again.

Fairness. `BlockfrostSubmit`: the event loop fires each timer that was set (the
timeout of an attempt, the delay before a retry); nothing is assumed of network
or node, so `EveryCallEnds` holds with every POST lost. `UtxoPagination`,
`HdDiscovery`: each request is answered or throws (that is `EveryCallEnds`), so
the loop goes on; failing is never required, the chain and other users are free.
`DiscoveryEnds` uses that addresses are first used finitely often, the
bound `MaxUses`: a wallet used faster than it is scanned would never be done.
`Cip45Session`: a start that was requested of the platform ends, with success or
an exception, the 20 s timer fires, a disposal completes; the page may never
load, no dApp may come, the user owes nothing. `SendFlow`, `TxFlow`, `SigningFlow`
and `SeedVault` state no liveness: their steps wait for a user, a device or a node.

## 4. The proofs

Each holds for every value of the constants that satisfies the module's `ASSUME`s
(`SigningFlow` has two, its own and that of `Signing`): numbers are natural
numbers, finite where the code iterates, and null is not a value. The shape is the
same everywhere: an invariant `Inv` that contains what the properties need to be
inductive, checked with TLC in the runs, then `Init => Inv`,
`Inv /\ [Next]_vars => Inv'` with one lemma per group of actions, and PTL.

- `BlockfrostSubmitProofs`: `TypeCorrect`, `Invariance`, `RefusalFinal`,
  `RetriesUsed`, `NoDoubleSent` and `Refinement` (every step of the retry loop is
  a step or a stutter of `SubmitContract`). The strengthening is `WireInv` (only
  attempts made are on the wire; an attempt whose answer travels is not) and
  `FirstAttemptInv` (nothing is taken while the first attempt is on the wire):
  without them a refusal of attempt 1 could come from an attempt the state forgot.
- `CoinSelectionProofs`: `TypeCorrect`, `Invariance`, `CoinIsConserved`,
  `AssetsAreConserved`, `SelectsShortestPrefix`, `ErrorsTellTheTruth`,
  `SpendsLargestFirst`, `ChangeMeetsItsEstimate`, `NoDustLoop`. Two things carry them.
  `Accumulated`: the accumulators are the sums over what was taken, up to the
  overflow the code checks for, so a statement about accumulators is one about
  UTxOs. `Affordable`: when the change is made, the accumulator has set aside
  target, fee and minimum, so none of the unchecked subtractions that follow wraps.
  `StopsInTime` says that the loop goes on only while something is missing, which is
  what makes every input needed after those before it and the errors honest.
  `DustChange` is the one error that comes after the loop: its clause relates the
  accumulators to the estimate for the tokens left over.
- `QueryProofs`, about `UtxoPagination`: `Invariance`, `CountedOnce`, `HiddenAtMostSpends` and
  `FetchIsSnapshot`. `ReadPrefix`: while nothing was spent, what has been read is the
  prefix of the ledger up to a page boundary, whatever is received behind it.
  `ReadInOrder`: outputs only move towards pages already read, hence none is read
  twice. `SkippedAtMostSpends` bounds those that moved across the boundary by the
  spends. To be inductive it counts the empty places there too (`Behind`): outputs
  received later fill them and are skipped without a further spend.
- `QueryProofs`, about `HdDiscovery`: `DiscoveryInvariance`, `DiscoveryComplete`,
  `GapReturned`. `Looked` says that
  the scanned part of a chain has missed no address used before, `UnusedTail` that
  its end is unused, `StopInv` why the discovery stopped; with `GapKept` these
  exclude a used address behind the gap.
- `SendFlowProofs`: `Invariance`, `OneCallAtATime`, `PaysAsConfirmed`,
  `TellsTheTruth`, `LeavingIsFinal`, `NoDoublePayment`. `FlowInv` ties `pc` to the
  flags on the screen and to the place of the transaction, `LedgerInv` says that
  accepted transactions are disjoint and took largest-first inputs of their view.
  `LeavingIsFinal` is an action property: a transaction is posted only by the screen
  that built it and while that is open, and the ledger moves none that was not.
- `Cip45SessionProofs`: `Invariance`, `KnowsItsTransport`, `ServesNothing`.
  `ScreenInv` says what a running `_connect` or `_disconnect` has in its hands,
  `StageInv` how far that transport is.
- `SeedVaultProofs`: `Invariance`, `TypeCorrect`, `WhatIsStoredOpens`,
  `UnlocksFailClosed`. `Recoverable` is not inductive. `OneAtATime` says that only
  the screen in front runs an operation unless operations overlapped;
  `WrittenAsSealed` that each container written was sealed with the secret and the
  password recorded with it; `ContainersHeld` that a container an operation has in
  its hands is one of those, or is damaged in a way its checks see.
- `SigningFlowProofs`: `Invariance`, `SignaturesSuffice`, `VerifiedWasSigned`. Of
  `Inv`, `TypeOK` (which says what the cache, the device's answers and the witnesses
  rebuilt from them can be), `WitnessesKept`, `TxMade` and `SignedHere` are
  inductive; `DerivationsAgree` and `WitnessesFit` follow from them. The rest is
  what the functions of `Signing` return for the arguments these states have: one
  lemma for each. `SignaturesSuffice` takes the routes
  one by one, each in both directions: a witness verifies exactly if it has its
  signer's key and its signer saw the body as sent. `VerifiedWasSigned` reduces every mixture of two
  signatures to an opaque `Verification` or `Mixed` container and goes through the
  checks in order.

- `TxFlowProofs`: `Invariance`, `OnlyTheChainRefuses`, `HonestErrors`, `Refinement` and
  `ChunksWhole`. `Inv` with `ErrorsAreHonest` is inductive; what makes it so:
  `FromLedger`, an output that a job has read and that is still unspent is the same
  on the ledger, which needs `Fresh`, no output there and no input of a job has the
  number of a transaction still to come; and `AsAsked`, the balance of a body over
  the reading it was built from. Then
  - every builder ends in `Finalise`, so the lemmas on it (what it charges, when there
    is change, when it fails) are proved once and each builder adds what its
    certificate, withdrawal or mint brings into both sides of the balance;
  - a timely transaction spends unspent outputs only, so its balance over the
    reading is one over the ledger (`FromLedger`), and the registration deposit it
    gets back is the one held (`Held`): that is `OnlyTheChainRefuses`;
  - `HonestErrors` goes through the checks of each function in their order: an error
    that is returned implies that its own check failed and none before it;
  - `Refinement` maps a submission to the booking of its receipt: the outputs it takes
    away and those it adds are disjoint from what stays, so the totals move by the
    difference, which the balance says is the receipt. All other steps are stutters,
    an epoch's rewards, or a receipt made or thrown away;
  - `ChunksWhole` is about `text_or_chunks` alone: a text of any length is cut at the
    boundaries of its characters, nothing is lost and each chunk fits.
  `TxFlowAssumption` says that the wallet is finite and well typed, that the markers
  of malformed arguments are none of the good ones and that a metadata string has room
  for one character of four bytes.

Induction over data. The library's induction theorems take an operator as their
parameter, which the provers here cannot instantiate, but facts without one say
the same: a non-empty set of numbers has a least member, and the strict subsets
of a finite set are well-founded (`FS_StrictSubsetOrderingWellFounded`, `WFMin`). So

- the first failing check (`First`) is the least number of a check that fails;
- a recursive table such as the one in `FoldSet` exists on a finite set because a
  minimal set without one could extend those of its strict subsets; a sum over a
  set (`SumFunctionOnSet`) then has its two equations, and a smallest set where
  taking out any one element is not subtraction does not exist.

`CoinSelectionProofs`, `SigningFlowProofs` and `TxFlowProofs` begin with these lemmas;
the last has the most of them: sums over disjoint unions, over renamed elements and
over changed functions, a fold over a set of numbers in their order (`CutTable`, the
cutting of a text one character after the other), and the concatenation of a
sequence of sequences.

Only model-checked: liveness (`EveryCallEnds`, `Terminates`, `DiscoveryEnds`,
`LeftIsClosed`, `ConnectEnds`), which needs fairness and ENABLED, out of the provers'
reach. Every other property of a passing run is a theorem. `LargestFirst` and `OnlyActiveAccounts`
are conjuncts of proved invariants, not checked apart.

## 5. Abstractions

- Cryptography is ideal, CBOR, JSON and wording are left out. Where the shape of
  an answer decides (a 404 body where a hash is expected, a string that does not
  parse) it is in the model: an argument is a text with its encoding and kind.
- Amounts are numbers; hashes, payments and phrases are model values or numbers.
- A fee depends on whether there is change; a text is the byte lengths of its
  characters; a native script is its own hash.
- The serialization library and the ledger's rules are external.
- The HTTP layer is one request with one answer; TLS, redirects and rate-limit
  delays are not in the code either.
- UI: a tap meets the buttons as the last `setState` left them. The rebuild
  between `setState` and the next tap is not an action.
- Time is choice: any timer may fire at any moment it is set.
- The container of the vault is damaged only while no screen is in use.

Not modelled:

- `estimate_fee` (the size of a body times a factor), `plutus_data_int`,
  `plutus_data_bytes` and the datum of CIP-68: no decision in them but that hex is
  hex;
- cost models and execution units of script transactions, which only move the
  script data hash and the fee;
- the queries of the CIP-30 wallets and the web wallet, which hold no state and
  delegate to the provider or a JavaScript library;
- the native WebRTC transport, a scaffold that no screen opens;
- the encoding of the generated bridge, the conformance harnesses and tools.

## 6. Plan

Done: submission, coin selection, paging, discovery, sending, CIP-45 session,
building, signing and seed vault, with a proof of every safety property, action
property and refinement that the runs check. What is left, in this order:

1. A caller of `build_script_tx` that adds the scripts and execution units: with it
   `RefusedOnlyByTheChain` could drop its exception for `unlock`.
2. Refinement between the flows: `SendFlow` uses what `CoinSelection` and
   `BlockfrostSubmit` guarantee as its own definitions (`LargestFirst`, the outcomes of
   a submission); an instance of each under `SendFlow` would make these steps
   theorems too.
3. Cost models and execution units of script transactions, the queries of the CIP-30
   wallets.
