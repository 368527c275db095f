--------------------------- MODULE UtxoPagination ---------------------------
(***************************************************************************)
(* BlockfrostProvider.fetchUtxos of dart/lib/src/providers/blockfrost.dart: *)
(* the pages of an address's UTxOs are requested one after the other while *)
(* the chain goes on: outputs are received and spent between two pages, and *)
(* a rollback takes either back.                                           *)
(***************************************************************************)
EXTENDS Integers, FiniteSets, Sequences, SequencesExt

CONSTANTS
    Utxos,       \* the outputs the address ever receives, in their order on chain
    PageSize,    \* _utxoPageSize (100)
    MaxSpends,   \* bound: outputs spent during the fetch
    MaxReorgs    \* bound: rollbacks during the fetch

ASSUME PaginationAssumption ==
    /\ Utxos \subseteq Nat /\ IsFiniteSet(Utxos)
    /\ PageSize \in Nat \ {0}
    /\ MaxSpends \in Nat /\ MaxReorgs \in Nat

VARIABLES
    ledger,    \* the unspent outputs of the address, oldest first
    spent,     \* those spent since the fetch began
    spends,    \* how many spends there have been since then
    reorgs,    \* how many rollbacks there have been since then
    pc,        \* "reading" | "done" | "failed"
    page,      \* page
    allUtxos   \* allUtxos

vars == <<ledger, spent, spends, reorgs, pc, page, allUtxos>>

PCs == {"reading", "done", "failed"}

TypeOK ==
    /\ ledger \in Seq(Utxos)
    /\ spent \subseteq Utxos
    /\ spends \in 0 .. MaxSpends
    /\ reorgs \in 0 .. MaxReorgs
    /\ pc \in PCs
    /\ page \in Nat \ {0}
    /\ allUtxos \in Seq(Utxos)

OldestFirst(s) == \A i, j \in DOMAIN s : i < j => s[i] < s[j]

Init ==
    /\ \E n \in 0 .. Cardinality(Utxos) : ledger \in [1 .. n -> Utxos]
    /\ OldestFirst(ledger)
    /\ spent = {}
    /\ spends = 0
    /\ reorgs = 0
    /\ pc = "reading"
    /\ page = 1
    /\ allUtxos = <<>>

-----------------------------------------------------------------------------
(* The chain, as the address sees it.                                      *)

\* A new output comes after every other.
Receive(u) ==
    /\ \A v \in spent \cup ToSet(ledger) : v < u
    /\ ledger' = Append(ledger, u)
    /\ UNCHANGED <<spent, spends, reorgs, pc, page, allUtxos>>

Spend(i) ==
    /\ i \in DOMAIN ledger
    /\ spends < MaxSpends
    /\ spends' = spends + 1
    /\ spent' = spent \cup {ledger[i]}
    /\ ledger' = RemoveAt(ledger, i)
    /\ UNCHANGED <<reorgs, pc, page, allUtxos>>

\* A rollback undoes a spend, and the output is back in its old place, ...
Unspend(u, i) ==
    /\ u \in spent
    /\ reorgs < MaxReorgs
    /\ ledger' = InsertAt(ledger, i, u)
    /\ OldestFirst(ledger')
    /\ reorgs' = reorgs + 1
    /\ spent' = spent \ {u}
    /\ UNCHANGED <<spends, pc, page, allUtxos>>

\* ... or takes back the output received last.
Unreceive ==
    /\ ledger # <<>>
    /\ reorgs < MaxReorgs
    /\ ledger' = Front(ledger)
    /\ reorgs' = reorgs + 1
    /\ UNCHANGED <<spent, spends, pc, page, allUtxos>>

-----------------------------------------------------------------------------
(* fetchUtxos.                                                             *)

\* Mutant of PageOf: pages overlap by one row.
PageOfOverlapping(p) ==
    SubSeq(ledger, (p - 1) * PageSize + (IF p = 1 THEN 1 ELSE 0),
           IF p * PageSize < Len(ledger) THEN p * PageSize ELSE Len(ledger))

\* Blockfrost's page p, empty past the end (or a 404, which reads the same).
PageOf(p) ==
    SubSeq(ledger, (p - 1) * PageSize + 1,
           IF p * PageSize < Len(ledger) THEN p * PageSize ELSE Len(ledger))

\* Mutant of ReadPage: a short page that is not empty is asked for again.
ReadPageNoEnd ==
    /\ pc = "reading"
    /\ Len(PageOf(page)) \in {0, PageSize}
    /\ allUtxos' = allUtxos \o PageOf(page)
    /\ IF Len(PageOf(page)) = 0
       THEN pc' = "done" /\ page' = page
       ELSE pc' = pc /\ page' = page + 1
    /\ UNCHANGED <<ledger, spent, spends, reorgs>>

\* Mutant of ReadPage: `<= _utxoPageSize` ends the loop on a full page.
ReadPageFullIsLast ==
    /\ pc = "reading"
    /\ allUtxos' = allUtxos \o PageOf(page)
    /\ IF Len(PageOf(page)) <= PageSize
       THEN pc' = "done" /\ page' = page
       ELSE pc' = pc /\ page' = page + 1
    /\ UNCHANGED <<ledger, spent, spends, reorgs>>

\* One page is read and added; a short one is the last.
ReadPage ==
    /\ pc = "reading"
    /\ allUtxos' = allUtxos \o PageOf(page)
    /\ IF Len(PageOf(page)) < PageSize
       THEN pc' = "done" /\ page' = page
       ELSE pc' = pc /\ page' = page + 1
    /\ UNCHANGED <<ledger, spent, spends, reorgs>>

\* _makeRequest throws: the pages already read are dropped.
FailPage ==
    /\ pc = "reading"
    /\ pc' = "failed"
    /\ UNCHANGED <<ledger, spent, spends, reorgs, page, allUtxos>>

Next == \/ ReadPage
        \/ FailPage
        \/ \E u \in Utxos : Receive(u)
        \/ \E i \in DOMAIN ledger : Spend(i)
        \/ \E u \in spent, i \in 1 .. Len(ledger) + 1 : Unspend(u, i)
        \/ Unreceive

Spec == Init /\ [][Next]_vars

\* The event loop runs the client; the chain is free.
FairSpec == Spec /\ WF_vars(ReadPage)

-----------------------------------------------------------------------------
(* Properties.                                                             *)

Undisturbed == spends = 0 /\ reorgs = 0

\* If nothing was spent while the pages were read, the result is the set of
\* unspent outputs at one moment: the one the last page was read at.  Outputs
\* received meanwhile are in it, in order, and nothing is missing or repeated.
Snapshot ==
    [][pc = "reading" /\ pc' = "done" /\ Undisturbed => allUtxos' = ledger]_vars

\* No output is counted twice, whatever is received and spent between two
\* pages: outputs only ever move to earlier pages, unless a spend is undone.
NoDuplicates ==
    reorgs = 0 => \A i, j \in DOMAIN allUtxos :
                     allUtxos[i] = allUtxos[j] => i = j

\* How wrong the result can be: each spend during the fetch hides at most one
\* output that is still unspent.
Missed == ToSet(ledger) \ ToSet(allUtxos)
MissedAtMostSpends ==
    [][pc = "reading" /\ pc' = "done" /\ reorgs = 0
        => Cardinality(Missed') <= spends]_vars

\* A fetch ends.
Terminates == <>(pc # "reading")

-----------------------------------------------------------------------------
(* The inductive invariant.                                                *)

\* Where the pages read so far end.
ReadTo == (page - 1) * PageSize

\* While nothing was spent, they are the beginning of the ledger.
ReadPrefix ==
    pc = "reading" /\ Undisturbed =>
        /\ ReadTo <= Len(ledger)
        /\ allUtxos = SubSeq(ledger, 1, ReadTo)

\* Without rollbacks, what is still to be read comes after all that was read.
ReadInOrder ==
    reorgs = 0 =>
        /\ OldestFirst(ledger) /\ OldestFirst(allUtxos)
        /\ ToSet(allUtxos) \subseteq spent \cup ToSet(ledger)
        /\ pc = "reading" =>
              \A i \in DOMAIN allUtxos, j \in DOMAIN ledger :
                  j > ReadTo => allUtxos[i] < ledger[j]

\* The outputs that moved to a page already read, and the places left there.
Skipped == {ledger[j] : j \in {k \in DOMAIN ledger : k <= ReadTo}} \ ToSet(allUtxos)
Behind == IF Len(ledger) < ReadTo THEN ReadTo - Len(ledger) ELSE 0

SkippedAtMostSpends ==
    pc = "reading" /\ reorgs = 0 => Cardinality(Skipped) + Behind <= spends

Inv == TypeOK /\ ReadPrefix /\ ReadInOrder /\ SkippedAtMostSpends

=============================================================================
