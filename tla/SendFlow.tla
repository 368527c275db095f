------------------------------ MODULE SendFlow ------------------------------
(***************************************************************************)
(* The payment flow of example/lib/send_screen.dart over BlockfrostProvider *)
(* and the ledger.  _previewFee and _sendTransaction run between awaits,   *)
(* while the user edits the fields or leaves the screen (its flow goes on, *)
(* and a new screen starts afresh) and the chain moves.  A tap meets the   *)
(* buttons as the last setState left them.                                 *)
(***************************************************************************)
EXTENDS Integers, Sequences, FiniteSets

CONSTANTS
    Screens,     \* the SendScreens opened, one after another
    Payments,    \* recipient and amount, as typed
    NoPayment,   \* the fields left empty
    WrongNet,    \* those whose recipient is an address of another network
    Assets,      \* native asset to send along, as typed
    NoAsset,
    Coins,       \* wallet outputs, ranked by lovelace: a larger one is worth more
    MaxInitial,  \* bound: outputs the wallet starts with
    MaxSends,    \* bound: transactions built
    MaxEdits     \* bound: edits of the form

ASSUME SendFlowAssumption ==
    /\ NoPayment \in Payments /\ WrongNet \subseteq Payments /\ NoAsset \in Assets
    /\ Coins \subseteq Nat /\ IsFiniteSet(Coins)

VARIABLES
    form,     \* each screen's text fields
    edits,    \* edits made
    screen,   \* what each screen shows
    pc,       \* where its _previewFee or _sendTransaction is
    asked,    \* the fields when that call began; the dialog shows these
    view,     \* the UTxOs it fetched
    sent,     \* the transaction it built last; 0: none
    tx,       \* the transactions built, and where they are
    unspent,  \* the wallet's outputs on chain, as Blockfrost reports them
    ever      \* outputs that have existed

vars == <<form, edits, screen, pc, asked, view, sent, tx, unspent, ever>>

Form == [pay : Payments, asset : Assets]
EmptyForm == [pay |-> NoPayment, asset |-> NoAsset]

Screen == [shown : {"new", "open", "left"},
           loading : BOOLEAN,           \* _isLoading
           error : BOOLEAN,             \* _errorMessage # null
           status : {"null", "building", "submitting", "submitted", "pending",
                     "confirmed"},      \* _statusMessage
           hash : Nat,                  \* _txHash, as an index of tx; 0: null
           fee : SUBSET Form]           \* what _feeEstimate was computed for, if set

NewScreen == [shown |-> "new", loading |-> FALSE, error |-> FALSE,
              status |-> "null", hash |-> 0, fee |-> {}]

Tx == [form : Form, asked : Form, view : SUBSET Coins, inputs : SUBSET Coins,
       at : {"built", "posted", "refused", "mempool", "chain", "expired"}]

TypeOK ==
    /\ form \in [Screens -> Form]
    /\ edits \in Nat
    /\ screen \in [Screens -> Screen]
    /\ pc \in [Screens -> {"idle", "preview", "fee", "dialog", "fetch", "build",
                           "sign", "submit", "poll"}]
    /\ asked \in [Screens -> Form]
    /\ view \in [Screens -> SUBSET Coins]
    /\ tx \in Seq(Tx)
    /\ sent \in [Screens -> 0 .. Len(tx)]
    /\ unspent \subseteq ever
    /\ ever \subseteq Coins

Init ==
    /\ form = [s \in Screens |-> EmptyForm]
    /\ edits = 0
    /\ screen = [s \in Screens |-> NewScreen]
    /\ pc = [s \in Screens |-> "idle"]
    /\ asked = form
    /\ view = [s \in Screens |-> {}]
    /\ sent = [s \in Screens |-> 0]
    /\ tx = <<>>
    /\ unspent \in SUBSET Coins
    /\ Cardinality(unspent) <= MaxInitial
    /\ ever = unspent

-----------------------------------------------------------------------------
(* The ledger.                                                             *)

Accepted(n) == tx[n].at \in {"mempool", "chain"}

InMempool == UNION {tx[n].inputs : n \in {m \in DOMAIN tx : tx[m].at = "mempool"}}

Move(n, at) == tx' = [tx EXCEPT ![n].at = at]

\* A node takes a transaction that was posted, whose inputs are unspent.
Accept(n) ==
    /\ tx[n].at = "posted"
    /\ tx[n].inputs \subseteq unspent \ InMempool
    /\ Move(n, "mempool")
    /\ UNCHANGED <<form, edits, screen, pc, asked, view, sent, unspent, ever>>

\* It enters a block, with or without change to the wallet, ...
Mint(n, change) ==
    /\ tx[n].at = "mempool"
    /\ change \subseteq Coins \ ever /\ Cardinality(change) <= 1
    /\ Move(n, "chain")
    /\ unspent' = (unspent \ tx[n].inputs) \cup change
    /\ ever' = ever \cup change
    /\ UNCHANGED <<form, edits, screen, pc, asked, view, sent>>

\* ... or its TTL passes first.
Expire(n) ==
    /\ tx[n].at = "mempool"
    /\ Move(n, "expired")
    /\ UNCHANGED <<form, edits, screen, pc, asked, view, sent, unspent, ever>>

\* The wallet is paid.
Receive(c) ==
    /\ c \notin ever
    /\ unspent' = unspent \cup {c}
    /\ ever' = ever \cup {c}
    /\ UNCHANGED <<form, edits, screen, pc, asked, view, sent, tx>>

-----------------------------------------------------------------------------
(* The user.                                                               *)

Open(s) ==
    /\ screen[s].shown = "new"
    /\ \A t \in Screens : screen[t].shown # "open"
    /\ screen' = [screen EXCEPT ![s].shown = "open"]
    /\ UNCHANGED <<form, edits, pc, asked, view, sent, tx, unspent, ever>>

\* The back button; over the dialog it only closes the dialog.
Leave(s) ==
    /\ screen[s].shown = "open"
    /\ pc[s] # "dialog"
    /\ screen' = [screen EXCEPT ![s].shown = "left"]
    /\ UNCHANGED <<form, edits, pc, asked, view, sent, tx, unspent, ever>>

\* The fields can be edited at any time, except under the dialog.
Edit(s, f) ==
    /\ screen[s].shown = "open"
    /\ pc[s] # "dialog"
    /\ f # form[s]
    /\ edits < MaxEdits
    /\ form' = [form EXCEPT ![s] = f]
    /\ edits' = edits + 1
    /\ UNCHANGED <<screen, pc, asked, view, sent, tx, unspent, ever>>

\* Whether the buttons can be tapped: build, and the barrier of the dialog.
CanPreview(s) ==
    /\ screen[s].shown = "open" /\ pc[s] # "dialog"
    /\ screen[s].status = "null" \/ screen[s].error
    /\ ~screen[s].loading

CanSend(s) == CanPreview(s) /\ screen[s].fee # {}

-----------------------------------------------------------------------------
(* _previewFee and _sendTransaction.                                       *)

\* setState(update) throws once the screen has been left.
SetState(s, update) ==
    screen' = IF screen[s].shown = "open" THEN [screen EXCEPT ![s] = update] ELSE screen

\* _clearMessages.
Cleared(s) == [screen[s] EXCEPT !.error = FALSE, !.status = "null", !.hash = 0]

Invalid(f) == f.pay = NoPayment \/ f.pay \in WrongNet

\* The checks that end a call before its first await.
Rejects(s) ==
    /\ Invalid(form[s])
    /\ SetState(s, [Cleared(s) EXCEPT !.error = TRUE])
    /\ UNCHANGED <<form, edits, pc, asked, view, sent, tx, unspent, ever>>

\* Mutant of Preview: _isLoading is not set.
PreviewNoLoading(s) ==
    /\ CanPreview(s)
    /\ \/ Rejects(s)
       \/ /\ ~Invalid(form[s])
          /\ SetState(s, Cleared(s))
          /\ pc' = [pc EXCEPT ![s] = "preview"]
          /\ asked' = [asked EXCEPT ![s] = form[s]]
          /\ UNCHANGED <<form, edits, view, sent, tx, unspent, ever>>

Preview(s) ==
    /\ CanPreview(s)
    /\ \/ Rejects(s)
       \/ /\ ~Invalid(form[s])
          /\ SetState(s, [Cleared(s) EXCEPT !.loading = TRUE])
          /\ pc' = [pc EXCEPT ![s] = "preview"]
          /\ asked' = [asked EXCEPT ![s] = form[s]]
          /\ UNCHANGED <<form, edits, view, sent, tx, unspent, ever>>

\* The UTxOs and the parameters are there: _buildTargetOutputs reads the asset.
PreviewBuild(s) ==
    /\ pc[s] = "preview"
    /\ asked' = [asked EXCEPT ![s].asset = form[s].asset]
    /\ pc' = [pc EXCEPT ![s] = "fee"]
    /\ UNCHANGED <<form, edits, screen, view, sent, tx, unspent, ever>>

PreviewShown(s) ==
    /\ pc[s] = "fee"
    /\ SetState(s, [screen[s] EXCEPT !.loading = FALSE, !.fee = {asked[s]}])
    /\ pc' = [pc EXCEPT ![s] = "idle"]
    /\ UNCHANGED <<form, edits, asked, view, sent, tx, unspent, ever>>

\* A query, the selection or the building throws, or there are no UTxOs.
PreviewFails(s) ==
    /\ pc[s] \in {"preview", "fee"}
    /\ SetState(s, [screen[s] EXCEPT !.loading = FALSE, !.error = TRUE])
    /\ pc' = [pc EXCEPT ![s] = "idle"]
    /\ UNCHANGED <<form, edits, asked, view, sent, tx, unspent, ever>>

\* _sendTransaction, up to its dialog.
Send(s) ==
    /\ CanSend(s)
    /\ \/ Rejects(s)
       \/ /\ ~Invalid(form[s])
          /\ SetState(s, Cleared(s))
          /\ pc' = [pc EXCEPT ![s] = "dialog"]
          /\ asked' = [asked EXCEPT ![s] = form[s]]
          /\ UNCHANGED <<form, edits, view, sent, tx, unspent, ever>>

Cancel(s) ==
    /\ pc[s] = "dialog"
    /\ pc' = [pc EXCEPT ![s] = "idle"]
    /\ UNCHANGED <<form, edits, screen, asked, view, sent, tx, unspent, ever>>

Confirm(s) ==
    /\ pc[s] = "dialog"
    /\ SetState(s, [screen[s] EXCEPT !.loading = TRUE, !.status = "building"])
    /\ pc' = [pc EXCEPT ![s] = "fetch"]
    /\ UNCHANGED <<form, edits, asked, view, sent, tx, unspent, ever>>

\* The catch clause, and the return when there are no UTxOs.
Catch(s) ==
    /\ SetState(s, [screen[s] EXCEPT !.error = TRUE, !.loading = FALSE, !.status = "null"])
    /\ pc' = [pc EXCEPT ![s] = "idle"]

Fetch(s) ==
    /\ pc[s] = "fetch"
    /\ view' = [view EXCEPT ![s] = unspent]
    /\ IF unspent = {} THEN Catch(s)
       ELSE pc' = [pc EXCEPT ![s] = "build"] /\ UNCHANGED screen
    /\ UNCHANGED <<form, edits, asked, sent, tx, unspent, ever>>

\* What selectCoinsForTransaction may return: the first of the UTxOs sorted by
\* lovelace (LargestFirst of CoinSelection).
LargestFirst(coins) ==
    {S \in (SUBSET coins) \ {{}} : \A c \in S, d \in coins \ S : c > d}

IsLargest(c, coins) == c \in coins /\ \A d \in coins : d <= c

\* The transaction that the fields and the fetched UTxOs make.
Built(s, paid, inputs) ==
    /\ pc[s] = "build"
    /\ Len(tx) < MaxSends
    /\ tx' = Append(tx, [form |-> paid, asked |-> asked[s], view |-> view[s],
                         inputs |-> inputs, at |-> "built"])
    /\ sent' = [sent EXCEPT ![s] = Len(tx) + 1]
    /\ pc' = [pc EXCEPT ![s] = "sign"]
    /\ UNCHANGED <<form, edits, screen, asked, view, unspent, ever>>

\* Mutant of Build: the recipient and the amount are read again.
BuildRereads(s) ==
    \E S \in LargestFirst(view[s]) : Built(s, form[s], S)

\* Mutant of Build: any UTxOs that cover the payment.
BuildAnyCoins(s) ==
    \E S \in (SUBSET view[s]) \ {{}} :
        Built(s, [pay |-> asked[s].pay, asset |-> form[s].asset], S)

\* selectCoinsForTransaction and buildTransaction.  The recipient and the amount
\* are those read first; _buildTargetOutputs reads the asset fields here.
Build(s) ==
    \E S \in LargestFirst(view[s]) :
        Built(s, [pay |-> asked[s].pay, asset |-> form[s].asset], S)

\* A query, the selection, the building or the signing throws.
Fails(s) ==
    /\ pc[s] \in {"fetch", "build", "sign"}
    /\ Catch(s)
    /\ UNCHANGED <<form, edits, asked, view, sent, tx, unspent, ever>>

\* Mutant of Submit: the status is not set, so nothing notices the screen left.
SubmitUnwatched(s) ==
    /\ pc[s] = "sign"
    /\ Move(sent[s], "posted")
    /\ pc' = [pc EXCEPT ![s] = "submit"]
    /\ UNCHANGED <<form, edits, screen, asked, view, sent, unspent, ever>>

\* setState, and the call of submitTransaction, unless the former throws.
Submit(s) ==
    /\ pc[s] = "sign"
    /\ IF screen[s].shown = "open"
       THEN /\ SetState(s, [screen[s] EXCEPT !.status = "submitting"])
            /\ Move(sent[s], "posted")
            /\ pc' = [pc EXCEPT ![s] = "submit"]
       ELSE Catch(s) /\ UNCHANGED tx
    /\ UNCHANGED <<form, edits, asked, view, sent, unspent, ever>>

\* submitTransaction returns the hash of a transaction that was accepted.
Submitted(s) ==
    /\ pc[s] = "submit"
    /\ Accepted(sent[s]) \/ tx[sent[s]].at = "expired"
    /\ SetState(s, [screen[s] EXCEPT !.hash = sent[s], !.status = "submitted"])
    /\ pc' = [pc EXCEPT ![s] = IF screen[s].shown = "open" THEN "poll" ELSE "idle"]
    /\ UNCHANGED <<form, edits, asked, view, sent, tx, unspent, ever>>

\* It throws: the transaction was refused, or nothing is known of it.
SubmitFails(s) ==
    /\ pc[s] = "submit"
    /\ \/ tx[sent[s]].at = "posted" /\ Move(sent[s], "refused")
       \/ UNCHANGED tx
    /\ Catch(s)
    /\ UNCHANGED <<form, edits, asked, view, sent, unspent, ever>>

\* pollTransactionConfirmation returns a status, ...
Confirmed(s) ==
    /\ pc[s] = "poll"
    /\ tx[sent[s]].at = "chain"
    /\ SetState(s, [screen[s] EXCEPT !.status = "confirmed", !.loading = FALSE])
    /\ pc' = [pc EXCEPT ![s] = "idle"]
    /\ UNCHANGED <<form, edits, asked, view, sent, tx, unspent, ever>>

\* Mutant of TimesOut: the deadline reads as a confirmation.
TimesOutConfirmed(s) ==
    /\ pc[s] = "poll"
    /\ SetState(s, [screen[s] EXCEPT !.status = "confirmed", !.loading = FALSE])
    /\ pc' = [pc EXCEPT ![s] = "idle"]
    /\ UNCHANGED <<form, edits, asked, view, sent, tx, unspent, ever>>

\* ... or throws TimeoutException, ...
TimesOut(s) ==
    /\ pc[s] = "poll"
    /\ SetState(s, [screen[s] EXCEPT !.status = "pending", !.loading = FALSE])
    /\ pc' = [pc EXCEPT ![s] = "idle"]
    /\ UNCHANGED <<form, edits, asked, view, sent, tx, unspent, ever>>

\* ... or another exception of a status query.
PollFails(s) ==
    /\ pc[s] = "poll"
    /\ Catch(s)
    /\ UNCHANGED <<form, edits, asked, view, sent, tx, unspent, ever>>

-----------------------------------------------------------------------------

Step(s) == \/ PreviewBuild(s) \/ PreviewShown(s) \/ PreviewFails(s)
           \/ Fetch(s) \/ Build(s) \/ Fails(s) \/ Submit(s) \/ Submitted(s) \/ SubmitFails(s)
           \/ Confirmed(s) \/ TimesOut(s)

User(s) == \/ Open(s) \/ Leave(s) \/ Preview(s) \/ Send(s) \/ Cancel(s) \/ Confirm(s)
           \/ \E f \in Form : Edit(s, f)

Chain == \/ \E n \in DOMAIN tx : Accept(n) \/ Expire(n)
         \/ \E n \in DOMAIN tx, change \in SUBSET Coins : Mint(n, change)
         \/ \E c \in Coins : Receive(c)

Next == Chain \/ \E s \in Screens : Step(s) \/ PollFails(s) \/ User(s)

Spec == Init /\ [][Next]_vars

-----------------------------------------------------------------------------
(* Properties.                                                             *)

\* No call starts while another of its screen is still running, although nothing
\* but what setState left on the screen guards the buttons; and no path through
\* a call, early return or exception, leaves the spinner turning behind it.
NoOverlap ==
    \A s \in Screens :
        /\ CanPreview(s) => pc[s] = "idle"
        /\ pc[s] = "idle" => ~screen[s].loading \/ screen[s].shown = "left"

\* Whatever is typed while the transaction is built, it pays the recipient and
\* the amount that were confirmed.
PaysWhatWasConfirmed ==
    \A n \in DOMAIN tx : tx[n].form.pay = tx[n].asked.pay

\* A payment sent again, after an error or from a new screen, before the chain
\* has changed the wallet's largest output cannot go through twice: coin
\* selection always spends the largest output it sees.
OnePaymentPerView ==
    \A n, m \in DOMAIN tx, c \in Coins :
        n # m /\ Accepted(n) /\ Accepted(m) =>
            ~(IsLargest(c, tx[n].view) /\ IsLargest(c, tx[m].view))

\* A hash on the screen is of a transaction that a node accepted, and "Confirmed"
\* of one in a block: what is shown belongs to the flow that ran last.
ShowsTheTruth ==
    \A s \in Screens : screen[s].hash # 0 =>
        /\ tx[screen[s].hash].at \in {"mempool", "chain", "expired"}
        /\ screen[s].status = "confirmed" => tx[screen[s].hash].at = "chain"

\* Leaving the screen before the transaction is posted calls the payment off.
LeavingCallsOff ==
    [][\A s \in Screens : screen[s].shown = "left" /\ sent[s] # 0 =>
          ~(tx[sent[s]].at = "built" /\ tx'[sent[s]].at # "built")]_vars

\* What the dialog "Confirm Transaction" lists (send_screen.dart:186, 198) is
\* what is sent: the asset fields are read again after the dialog.
PaysConfirmedAsset ==
    \A n \in DOMAIN tx : tx[n].at # "built" => tx[n].form = tx[n].asked

-----------------------------------------------------------------------------
(* The inductive invariant.                                                *)

\* What a running flow has left on its screen, and where its transaction is.
FlowInv ==
    \A s \in Screens :
        /\ screen[s].shown = "new" => pc[s] = "idle"
        /\ screen[s].shown # "left" =>
              (screen[s].loading <=> pc[s] \notin {"idle", "dialog"})
        /\ pc[s] \in {"sign", "submit", "poll"} => sent[s] # 0
        /\ pc[s] = "sign" => tx[sent[s]].at = "built"
        /\ pc[s] = "submit" => tx[sent[s]].at \in {"posted", "mempool", "chain", "expired"}
        /\ pc[s] = "poll" => tx[sent[s]].at \in {"mempool", "chain", "expired"}
        /\ pc[s] = "poll" /\ screen[s].shown = "open" => screen[s].hash = sent[s]
        /\ screen[s].hash \in 0 .. Len(tx)

\* No two screens ever have the same transaction.
SentInv == \A s, t \in Screens : s # t /\ sent[s] # 0 => sent[s] # sent[t]

\* Transactions accepted do not share an input, and those in a block have taken
\* theirs from the wallet.
LedgerInv ==
    \A n \in DOMAIN tx :
        /\ tx[n].view \subseteq ever
        /\ tx[n].inputs \in LargestFirst(tx[n].view)
        /\ tx[n].at = "mempool" => tx[n].inputs \subseteq unspent
        /\ tx[n].at = "chain" => tx[n].inputs \cap unspent = {}
        /\ \A m \in DOMAIN tx :
              n # m /\ Accepted(n) /\ Accepted(m) => tx[n].inputs \cap tx[m].inputs = {}

ViewInv == \A s \in Screens : view[s] \subseteq ever

Inv == /\ TypeOK /\ FlowInv /\ SentInv /\ LedgerInv /\ ViewInv
       /\ PaysWhatWasConfirmed /\ ShowsTheTruth

=============================================================================
