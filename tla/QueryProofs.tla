---------------------------- MODULE QueryProofs ----------------------------
(***************************************************************************)
(* Proofs about what is asked of a chain that goes on meanwhile: the pages *)
(* of an address's UTxOs (UtxoPagination) and the lookups of the account   *)
(* discovery (HdDiscovery).                                                *)
(*                                                                         *)
(* For any address, any page size and any number of outputs: a fetch       *)
(* during which nothing is spent returns the address's unspent outputs at  *)
(* one moment; without a rollback no output is returned twice, and each    *)
(* spend hides one output at most.  For any seed, any gap limit and any    *)
(* cap on the accounts: a wallet that kept to the gap is found completely, *)
(* even though it is used while the discovery runs.                        *)
(***************************************************************************)
EXTENDS UtxoPagination, HdDiscovery, SequenceTheorems, FiniteSetTheorems, TLAPS

-----------------------------------------------------------------------------
(* HdDiscovery.                                                            *)

USE DiscoveryAssumption

LEMMA DiscoveryInit == HdInit => HdInv
<1> SUFFICES ASSUME HdInit PROVE HdInv
  OBVIOUS
<1>1. HdTypeOK
  BY DEF HdInit, HdTypeOK, NoChains, NoChain, Chain, Roles
<1>2. CurrentInv
  BY DEF HdInit, CurrentInv, NoChains, NoChain, Roles, Account, Looked, UnusedTail
<1>3. AccountsInv
  BY DEF HdInit, AccountsInv, OnlyActiveAccounts, Account
<1> QED
  BY <1>1, <1>2, <1>3 DEF HdInit, HdInv, StopInv

\* The chain being scanned grows by the address looked up.
LEMMA LookupChain ==
  ASSUME HdInv, Lookup
  PROVE  \E hit \in BOOLEAN :
           /\ hit <=> <<Account, role, index>> \in used
           /\ unusedRun' = IF hit THEN 0 ELSE unusedRun + 1
           /\ chains'[role].length = chains[role].length + 1
           /\ chains'[role].used = IF hit THEN chains[role].used \cup {index}
                                   ELSE chains[role].used
           /\ chains'[role] \in Chain
           /\ \A r \in Roles \ {role} : chains'[r] = chains[r]
<1> DEFINE hit == <<Account, role, index>> \in used
           new == [length |-> chains[role].length + 1,
                   used |-> IF hit THEN chains[role].used \cup {index}
                            ELSE chains[role].used]
<1>1. chains[role] \in Chain /\ role \in Roles /\ index \in Nat
  BY DEF HdInv, HdTypeOK
<1>2. unusedRun' = (IF hit THEN 0 ELSE unusedRun + 1) /\ chains' = [chains EXCEPT ![role] = new]
  BY DEF Lookup
<1>3. chains'[role] = new /\ \A r \in Roles \ {role} : chains'[r] = chains[r]
  BY <1>1, <1>2 DEF HdInv, HdTypeOK
<1>4. new \in Chain
  BY <1>1 DEF Chain
<1>5. hit \in BOOLEAN
  OBVIOUS
<1>6. /\ new.length = chains[role].length + 1
      /\ new.used = IF hit THEN chains[role].used \cup {index} ELSE chains[role].used
  OBVIOUS
<1> HIDE DEF new
<1> WITNESS hit \in BOOLEAN
<1> QED
  BY <1>2, <1>3, <1>4, <1>6

LEMMA LookupInv == ASSUME HdInv, Lookup PROVE HdInv'
<1>1. PICK hit \in BOOLEAN :
        /\ hit <=> <<Account, role, index>> \in used
        /\ unusedRun' = IF hit THEN 0 ELSE unusedRun + 1
        /\ chains'[role].length = chains[role].length + 1
        /\ chains'[role].used = IF hit THEN chains[role].used \cup {index}
                                ELSE chains[role].used
        /\ chains'[role] \in Chain
        /\ \A r \in Roles \ {role} : chains'[r] = chains[r]
  BY LookupChain
<1>2. /\ role \in Roles /\ index \in Nat /\ index = chains[role].length
      /\ chains[role] \in Chain /\ before \subseteq used
      /\ unusedRun \in 0 .. GapLimit - 1
  BY DEF HdInv, HdTypeOK, CurrentInv, Lookup
<1>3. /\ phase' = "scan" /\ role' = role /\ index' = index + 1
      /\ UNCHANGED <<used, before, accounts>> /\ Account' = Account
  BY DEF Lookup, Account
<1>4. HdTypeOK'
  <2>1. chains' \in [Roles -> Chain]
    BY <1>1, <1>2 DEF HdInv, HdTypeOK, Lookup, Chain
  <2>2. unusedRun' \in 0 .. GapLimit
    BY <1>1, <1>2
  <2> QED
    BY <1>2, <1>3, <2>1, <2>2 DEF HdInv, HdTypeOK
<1>5. CurrentInv'
  <2>1. Looked(chains[role], Account, role)' 
    BY <1>1, <1>2, <1>3 DEF HdInv, CurrentInv, Looked, Chain
  <2>2. UnusedTail(chains[role], unusedRun)'
    BY <1>1, <1>2, <1>3 DEF HdInv, CurrentInv, Looked, UnusedTail, Chain
  <2>3. (role = 0 => chains[1] = NoChain)'
    BY <1>1, <1>3 DEF HdInv, CurrentInv, Roles
  <2>4. (role = 1 => Scanned(chains[0], Account, 0))'
    BY <1>1, <1>3 DEF HdInv, CurrentInv, Roles, Scanned, Looked, UnusedTail
  <2> QED
    BY <1>1, <1>2, <1>3, <2>1, <2>2, <2>3, <2>4 DEF CurrentInv
<1>6. AccountsInv'
  BY <1>3 DEF HdInv, AccountsInv, OnlyActiveAccounts, Account, Scanned, Looked,
              UnusedTail, IsActive, Lookup
<1> QED
  BY <1>3, <1>4, <1>5, <1>6 DEF HdInv, StopInv

LEMMA ExternalScannedInv == ASSUME HdInv, ExternalScanned PROVE HdInv'
<1>1. /\ phase' = "scan" /\ phase = "scan" /\ role = 0 /\ role' = 1 /\ index' = 0
      /\ unusedRun = GapLimit /\ unusedRun' = 0
      /\ UNCHANGED <<used, before, chains, accounts>> /\ Account' = Account
  BY DEF ExternalScanned, Account
<1>2. HdTypeOK'
  BY <1>1 DEF HdInv, HdTypeOK, Roles
<1>3. CurrentInv'
  <2>1. chains[1] = NoChain
    BY <1>1 DEF HdInv, CurrentInv
  <2>2. Scanned(chains[0], Account, 0)
    BY <1>1 DEF HdInv, CurrentInv, Scanned
  <2> QED
    BY <1>1, <2>1, <2>2 DEF CurrentInv, Scanned, Looked, UnusedTail, NoChain
<1>4. AccountsInv'
  BY <1>1 DEF HdInv, AccountsInv, OnlyActiveAccounts, Account, Scanned, Looked,
              UnusedTail, IsActive
<1> QED
  BY <1>1, <1>2, <1>3, <1>4 DEF HdInv, StopInv

\* A scanned chain of a wallet that kept to the gap holds every address of it
\* that was used before: one beyond its end would leave gapLimit unused ones.
LEMMA ScannedFindsAll ==
  ASSUME GapKept, NEW a \in AccountIds, NEW r \in Roles, NEW chain \in Chain,
         Scanned(chain, a, r), NEW i \in Indexes, <<a, r, i>> \in before
  PROVE  i \in chain.used
<1>1. chain.length \in Nat /\ i \in Nat
  BY DEF Chain
<1>2. CASE i < chain.length
  BY <1>1, <1>2 DEF Scanned, Looked
<1>3. CASE i >= chain.length
  <2> DEFINE k == chain.length - GapLimit
  <2>1. k \in 0 .. i - GapLimit
    BY <1>1, <1>3 DEF Scanned, UnusedTail
  <2>2. PICK j \in k .. k + GapLimit - 1 : <<a, r, j>> \in before
    BY <2>1 DEF GapKept
  <2>3. j \in 0 .. chain.length - 1 /\ j \in chain.length - GapLimit .. chain.length - 1
    BY <1>1, <2>1, <2>2
  <2> QED
    BY <2>2, <2>3 DEF Scanned, Looked, UnusedTail
<1> QED
  BY <1>1, <1>2, <1>3

LEMMA AccountScannedInv == ASSUME HdInv, AccountScanned PROVE HdInv'
<1>1. /\ phase = "scan" /\ role = 1 /\ unusedRun = GapLimit
      /\ phase' = (IF IsActive(chains) /\ Account + 1 < MaxAccounts
                THEN "scan" ELSE "done")
      /\ role' = 0 /\ index' = 0 /\ unusedRun' = 0 /\ chains' = NoChains
      /\ UNCHANGED <<used, before>>
      /\ accounts' = IF Account = 0 \/ IsActive(chains)
                     THEN Append(accounts, chains) ELSE accounts
  BY DEF AccountScanned
<1>2. /\ accounts \in Seq([Roles -> Chain]) /\ chains \in [Roles -> Chain]
      /\ Account \in Nat /\ Account < MaxAccounts /\ Account = Len(accounts)
  BY <1>1 DEF HdInv, HdTypeOK, AccountsInv, Account
<1>3. \A r \in Roles : Scanned(chains[r], Account, r)
  BY <1>1 DEF HdInv, CurrentInv, Scanned, Roles
<1>4. HdTypeOK'
  <2>1. /\ chains' \in [Roles -> Chain] /\ role' \in Roles
        /\ unusedRun' \in 0 .. GapLimit
    BY <1>1 DEF NoChains, NoChain, Chain, Roles
  <2>2. accounts' \in Seq([Roles -> Chain])
    BY <1>1, <1>2
  <2> QED
    BY <1>1, <2>1, <2>2 DEF HdInv, HdTypeOK
<1>5. CurrentInv'
  BY <1>1 DEF CurrentInv, NoChains, NoChain, Roles, Looked, UnusedTail
<1>6. AccountsInv'
  <2>1. (\A n \in DOMAIN accounts, r \in Roles : Scanned(accounts[n][r], n - 1, r))'
    <3>1. \A n \in DOMAIN accounts, r \in Roles : Scanned(accounts[n][r], n - 1, r)
      BY DEF HdInv, AccountsInv
    <3>2. \A n \in DOMAIN accounts', r \in Roles : Scanned(accounts'[n][r], n - 1, r)
      <4>1. CASE accounts' = accounts
        BY <3>1, <4>1
      <4>2. CASE accounts' = Append(accounts, chains)
        <5>1. \A n \in DOMAIN accounts' :
                \/ n \in DOMAIN accounts /\ accounts'[n] = accounts[n]
                \/ n = Account + 1 /\ accounts'[n] = chains
          BY <1>2, <4>2
        <5>2. ASSUME NEW n \in DOMAIN accounts', NEW r \in Roles
              PROVE  Scanned(accounts'[n][r], n - 1, r)
          <6>1. CASE n \in DOMAIN accounts /\ accounts'[n] = accounts[n]
            BY <3>1, <6>1
          <6>2. CASE n = Account + 1 /\ accounts'[n] = chains
            <7>1. Scanned(chains[r], Account, r)
              BY <1>3
            <7>2. n - 1 = Account
              BY <1>2, <6>2
            <7>3. accounts'[n][r] = chains[r]
              BY <6>2
            <7> QED
              BY <7>1, <7>2, <7>3
          <6> QED
            BY <5>1, <6>1, <6>2
        <5> QED
          BY <5>2
      <4> QED
        BY <1>1, <4>1, <4>2
    <3> QED
      BY <1>1, <3>2 DEF Scanned, Looked, UnusedTail
  <2>2. \A n \in DOMAIN accounts : IsActive(accounts[n])
    BY <1>1 DEF HdInv, AccountsInv
  <2>3. CASE IsActive(chains)
    <3>1. accounts' = Append(accounts, chains) /\ Len(accounts') = Account + 1
      BY <1>1, <1>2, <2>3
    <3>2. \A n \in DOMAIN accounts' : IsActive(accounts'[n])
      BY <1>2, <2>2, <2>3, <3>1
    <3>3. phase' = "scan" => Account' < MaxAccounts
      BY <1>1, <1>2, <3>1 DEF Account
    <3>4. OnlyActiveAccounts'
      BY <1>2, <3>1, <3>2 DEF OnlyActiveAccounts, IsActive
    <3>5. (\A n \in DOMAIN accounts : IsActive(accounts[n]))'
      BY <3>2 DEF IsActive
    <3> QED
      BY <2>1, <3>3, <3>4, <3>5 DEF AccountsInv
  <2>4. CASE ~IsActive(chains)
    <3>1. phase' = "done"
      BY <1>1, <2>4
    <3>2. OnlyActiveAccounts'
      <4>1. CASE Account = 0
        <5>1. accounts' = Append(accounts, chains)
          BY <1>1, <4>1
        <5>2. Len(accounts') = Account + 1
          BY <1>2, <5>1
        <5> QED
          BY <4>1, <5>2 DEF OnlyActiveAccounts
      <4>2. CASE Account # 0
        BY <1>1, <1>2, <2>2, <2>4, <4>2 DEF OnlyActiveAccounts, IsActive
      <4> QED
        BY <4>1, <4>2
    <3> QED
      BY <2>1, <3>1, <3>2 DEF AccountsInv
  <2> QED
    BY <2>3, <2>4
<1>7. StopInv'
  <2>1. SUFFICES ASSUME phase' = "done", Len(accounts') # MaxAccounts, GapKept'
                 PROVE  \E b \in {0, Len(accounts')} :
                          \A r \in Roles, i \in Indexes : <<b, r, i>> \notin before
    BY <1>1 DEF StopInv
  <2>2. GapKept
    BY <1>1, <2>1 DEF GapKept
  <2>3. ~IsActive(chains)
    BY <1>1, <1>2, <2>1
  <2>4. ASSUME NEW r \in Roles, NEW i \in Indexes PROVE <<Account, r, i>> \notin before
    <3> SUFFICES ASSUME <<Account, r, i>> \in before PROVE FALSE
      OBVIOUS
    <3>1. Account \in AccountIds
      BY DEF HdInv, HdTypeOK, Addresses
    <3>2. i \in chains[r].used
      BY <1>2, <1>3, <2>2, <3>1, ScannedFindsAll
    <3> QED
      BY <2>3, <3>2 DEF IsActive
  <2>5. Account \in {0, Len(accounts')}
    BY <1>1, <1>2, <2>3
  <2> QED
    BY <2>4, <2>5
<1> QED
  BY <1>4, <1>5, <1>6, <1>7 DEF HdInv

\* What the discovery knows does not depend on what is used while it runs.
LEMMA UseInv == ASSUME HdInv, NEW a \in Addresses, Use(a) PROVE HdInv'
<1>1. UNCHANGED <<before, phase, role, index, unusedRun, chains, accounts>>
      /\ used' = used \cup {a}
  BY DEF Use
<1>2. HdTypeOK'
  BY <1>1 DEF HdInv, HdTypeOK
<1>3. CurrentInv' /\ AccountsInv' /\ StopInv'
  BY <1>1 DEF HdInv, CurrentInv, AccountsInv, StopInv, OnlyActiveAccounts, Account,
              Scanned, Looked, UnusedTail, IsActive, GapKept
<1> QED
  BY <1>2, <1>3 DEF HdInv

\* The inductive invariant of the discovery.
THEOREM DiscoveryInvariance == HdSpec => []HdInv
<1>1. HdInv /\ [HdNext]_hdVars => HdInv'
  <2> SUFFICES ASSUME HdInv, [HdNext]_hdVars PROVE HdInv'
    OBVIOUS
  <2>1. CASE LookupFails \/ UNCHANGED hdVars
    <3>1. /\ UNCHANGED <<used, before, role, index, unusedRun, chains, accounts>>
          /\ phase' = phase \/ phase' = "failed"
      BY <2>1 DEF LookupFails, hdVars
    <3> QED
      BY <3>1 DEF HdInv, HdTypeOK, CurrentInv, AccountsInv, StopInv, OnlyActiveAccounts,
                  Account, Scanned, Looked, UnusedTail, IsActive, GapKept
  <2> QED
    BY <2>1, LookupInv, ExternalScannedInv, AccountScannedInv, UseInv
    DEF HdNext, Scan
<1> QED
  BY <1>1, DiscoveryInit, PTL DEF HdSpec

\* A wallet that kept to the gap is found completely.
THEOREM DiscoveryComplete == HdSpec => []FindsAllUsed
<1>1. HdInv => FindsAllUsed
  <2> SUFFICES ASSUME HdInv, phase = "done", GapKept,
                      NEW a \in AccountIds, NEW r \in Roles, NEW i \in Indexes,
                      <<a, r, i>> \in before
               PROVE  a < Len(accounts) /\ i \in accounts[a + 1][r].used
    BY DEF FindsAllUsed
  <2>1. a \in Nat /\ Len(accounts) \in Nat /\ a < MaxAccounts
    <3>1. a \in Nat /\ a < MaxAccounts
      BY DEF GapKept
    <3>2. Len(accounts) \in Nat
      BY DEF HdInv, HdTypeOK
    <3> QED
      BY <3>1, <3>2
  <2>2. a < Len(accounts)
    <3>1. CASE Len(accounts) = MaxAccounts
      BY <2>1, <3>1
    <3>2. CASE Len(accounts) # MaxAccounts
      <4>1. PICK b \in {0, Len(accounts)} :
              \A s \in Roles, j \in Indexes : <<b, s, j>> \notin before
        BY <3>2 DEF HdInv, StopInv
      <4>2. b \notin 0 .. a - 1 /\ b # a
        BY <4>1 DEF GapKept
      <4> QED
        BY <2>1, <4>1, <4>2
    <3> QED
      BY <3>1, <3>2
  <2>3. a + 1 \in DOMAIN accounts /\ accounts[a + 1][r] \in Chain
    BY <2>1, <2>2 DEF HdInv, HdTypeOK
  <2>4. Scanned(accounts[a + 1][r], a, r)
    BY <2>1, <2>3 DEF HdInv, AccountsInv
  <2> QED
    BY <2>1, <2>2, <2>3, <2>4, ScannedFindsAll DEF HdInv
<1> QED
  BY <1>1, DiscoveryInvariance, PTL

\* Every chain returned ends in the gap, so there is always a next address.
THEOREM GapReturned == HdSpec => []TrailingGap
<1>1. HdInv => TrailingGap
  BY DEF HdInv, AccountsInv, TrailingGap, Scanned, UnusedTail
<1> QED
  BY <1>1, DiscoveryInvariance, PTL

-----------------------------------------------------------------------------
(* UtxoPagination.                                                         *)

USE PaginationAssumption

\* Where page p starts and how far it goes.
LEMMA PageOfType ==
  ASSUME TypeOK, NEW p \in Nat \ {0}
  PROVE  PageOf(p) \in Seq(Utxos)
<1>1. (p - 1) * PageSize \in Nat /\ p * PageSize \in Nat
  OBVIOUS
<1> QED
  BY <1>1 DEF PageOf, TypeOK

\* A full page continues the prefix read so far by exactly one page.
LEMMA FullPage ==
  ASSUME TypeOK, NEW p \in Nat \ {0},
         (p - 1) * PageSize <= Len(ledger),
         Len(PageOf(p)) >= PageSize
  PROVE  /\ p * PageSize <= Len(ledger)
         /\ SubSeq(ledger, 1, (p - 1) * PageSize) \o PageOf(p)
              = SubSeq(ledger, 1, p * PageSize)
<1> DEFINE from == (p - 1) * PageSize
           to == p * PageSize
<1>1. /\ from \in Nat /\ to \in Nat /\ to = from + PageSize
      /\ from <= Len(ledger) /\ ledger \in Seq(Utxos) /\ Len(ledger) \in Nat
  BY DEF TypeOK
<1> HIDE DEF from, to
<1>2. PageOf(p) = SubSeq(ledger, from + 1, IF to < Len(ledger) THEN to ELSE Len(ledger))
  BY DEF PageOf, from, to
<1>3. to <= Len(ledger)
  <2>1. SUFFICES ASSUME to > Len(ledger) PROVE FALSE
    BY <1>1
  <2>2. PageOf(p) = SubSeq(ledger, from + 1, Len(ledger))
    BY <1>1, <1>2, <2>1
  <2>3. Len(PageOf(p)) <= Len(ledger) - from
    BY <1>1, <2>2
  <2> QED
    BY <1>1, <2>1, <2>3
<1>4. SubSeq(ledger, 1, from) \o SubSeq(ledger, from + 1, to) = SubSeq(ledger, 1, to)
  BY <1>1, <1>3, ConcatAdjacentSubSeq
<1>5. PageOf(p) = SubSeq(ledger, from + 1, to)
  <2>1. (IF to < Len(ledger) THEN to ELSE Len(ledger)) = to
    BY <1>1, <1>3
  <2> QED
    BY <1>2, <2>1
<1> QED
  BY <1>3, <1>4, <1>5 DEF from, to

\* A short page completes it.
LEMMA ShortPage ==
  ASSUME TypeOK, NEW p \in Nat \ {0},
         (p - 1) * PageSize <= Len(ledger),
         Len(PageOf(p)) < PageSize
  PROVE  SubSeq(ledger, 1, (p - 1) * PageSize) \o PageOf(p) = ledger
<1> DEFINE from == (p - 1) * PageSize
           to == p * PageSize
<1>1. /\ from \in Nat /\ to \in Nat /\ to = from + PageSize
      /\ from <= Len(ledger) /\ ledger \in Seq(Utxos) /\ Len(ledger) \in Nat
  BY DEF TypeOK
<1> HIDE DEF from, to
<1>2. PageOf(p) = SubSeq(ledger, from + 1, IF to < Len(ledger) THEN to ELSE Len(ledger))
  BY DEF PageOf, from, to
<1>3. PageOf(p) = SubSeq(ledger, from + 1, Len(ledger))
  <2>1. SUFFICES ASSUME to < Len(ledger) PROVE FALSE
    BY <1>1, <1>2
  <2>2. Len(PageOf(p)) = to - from
    BY <1>1, <1>2, <2>1
  <2> QED
    BY <1>1, <2>2
<1>4. SubSeq(ledger, 1, from) \o SubSeq(ledger, from + 1, Len(ledger))
        = SubSeq(ledger, 1, Len(ledger))
  <2>1. /\ 1 \in 1 .. Len(ledger) + 1
        /\ from \in 1 - 1 .. Len(ledger)
        /\ Len(ledger) \in from .. Len(ledger)
    BY <1>1
  <2> QED
    BY <1>1, <2>1, ConcatAdjacentSubSeq
<1>5. SubSeq(ledger, 1, Len(ledger)) = ledger
  BY <1>1, SubSeqFull
<1> QED
  BY <1>3, <1>4, <1>5 DEF from

LEMMA InitPrefix == Init => TypeOK /\ ReadPrefix
<1> SUFFICES ASSUME Init PROVE TypeOK /\ ReadPrefix
  OBVIOUS
<1>1. ledger \in Seq(Utxos)
  BY FS_CardinalityType DEF Init
<1> QED
  BY <1>1 DEF Init, TypeOK, ReadPrefix, ReadTo, PCs

LEMMA ReadPagePrefix == ASSUME Inv, ReadPage PROVE TypeOK' /\ ReadPrefix'
<1>1. TypeOK'
  BY PageOfType DEF Inv, TypeOK, ReadPage, PCs
<1>2. ReadPrefix'
  <2>1. SUFFICES ASSUME pc' = "reading", Undisturbed'
                 PROVE  /\ (page' - 1) * PageSize <= Len(ledger)
                        /\ allUtxos' = SubSeq(ledger, 1, (page' - 1) * PageSize)
    BY DEF ReadPrefix, ReadTo, ReadPage
  <2>2. /\ (page - 1) * PageSize <= Len(ledger)
        /\ allUtxos = SubSeq(ledger, 1, (page - 1) * PageSize)
    BY <2>1 DEF ReadPage, Inv, ReadPrefix, ReadTo, Undisturbed
  <2>3. Len(PageOf(page)) >= PageSize /\ page' = page + 1
    BY <2>1, PageOfType DEF ReadPage, PCs, Inv, TypeOK
  <2>4. page' - 1 = page
    BY <2>3 DEF Inv, TypeOK
  <2> QED
    BY <2>2, <2>3, <2>4, FullPage DEF ReadPage, Inv, TypeOK
<1> QED
  BY <1>1, <1>2

LEMMA ReceivePrefix == ASSUME Inv, NEW u \in Utxos, Receive(u) PROVE TypeOK' /\ ReadPrefix'
<1>1. TypeOK'
  BY DEF Inv, TypeOK, Receive
<1>2. ASSUME NEW n \in Nat, n <= Len(ledger)
      PROVE  n <= Len(ledger') /\ SubSeq(ledger', 1, n) = SubSeq(ledger, 1, n)
  BY <1>2 DEF Inv, TypeOK, Receive
<1>3. (page - 1) * PageSize \in Nat
  BY DEF Inv, TypeOK
<1>4. ReadPrefix'
  BY <1>2, <1>3 DEF Inv, ReadPrefix, ReadTo, Receive, Undisturbed
<1> QED
  BY <1>1, <1>4

\* Nothing is claimed of the prefix once an output was spent or a rollback
\* happened.
LEMMA DisturbedPrefix ==
  ASSUME Inv, TypeOK', spends' > 0 \/ reorgs' > 0 PROVE TypeOK' /\ ReadPrefix'
<1>1. ~Undisturbed'
  BY DEF TypeOK, Undisturbed
<1> QED
  BY <1>1 DEF Inv, ReadPrefix

LEMMA SpendPrefix == ASSUME Inv, NEW i \in DOMAIN ledger, Spend(i) PROVE TypeOK' /\ ReadPrefix'
<1>1. RemoveAt(ledger, i) \in Seq(Utxos)
  <2>1. ledger \in Seq(Utxos) /\ i \in 1 .. Len(ledger)
    BY DEF Inv, TypeOK
  <2>2. SubSeq(ledger, 1, i - 1) \in Seq(Utxos)
    BY <2>1
  <2>3. SubSeq(ledger, i + 1, Len(ledger)) \in Seq(Utxos)
    BY <2>1
  <2> QED
    BY <2>2, <2>3 DEF RemoveAt
<1>2. ledger[i] \in Utxos /\ spends + 1 \in 0 .. MaxSpends
  BY DEF Inv, TypeOK, Spend
<1>3. TypeOK'
  BY <1>1, <1>2 DEF Inv, TypeOK, Spend
<1> QED
  BY <1>3, DisturbedPrefix DEF Spend, Inv, TypeOK

LEMMA RollbackPrefix ==
  ASSUME Inv,
         Unreceive \/ \E u \in spent, i \in 1 .. Len(ledger) + 1 : Unspend(u, i)
  PROVE  TypeOK' /\ ReadPrefix'
<1>1. CASE Unreceive
  <2>1. Front(ledger) \in Seq(Utxos)
    BY <1>1 DEF Inv, TypeOK, Unreceive, Front
  <2>2. TypeOK'
    BY <1>1, <2>1 DEF Inv, TypeOK, Unreceive
  <2> QED
    BY <1>1, <2>2, DisturbedPrefix DEF Unreceive, Inv, TypeOK
<1>2. ASSUME NEW u \in spent, NEW i \in 1 .. Len(ledger) + 1, Unspend(u, i)
      PROVE  TypeOK' /\ ReadPrefix'
  <2>1. u \in Utxos /\ ledger \in Seq(Utxos)
    BY DEF Inv, TypeOK
  <2>2. InsertAt(ledger, i, u) \in Seq(Utxos)
    BY <2>1 DEF InsertAt
  <2>3. TypeOK'
    BY <1>2, <2>2 DEF Inv, TypeOK, Unspend
  <2> QED
    BY <1>2, <2>3, DisturbedPrefix DEF Unspend, Inv, TypeOK
<1> QED
  BY <1>1, <1>2

-----------------------------------------------------------------------------
(* The order of what is read.                                              *)

\* The outputs of a page: those of the ledger from the end of the page before.
LEMMA PageOutputs ==
  ASSUME TypeOK
  PROVE  /\ PageOf(page) \in Seq(Utxos) /\ Len(PageOf(page)) \in Nat
         /\ DOMAIN PageOf(page) = 1 .. Len(PageOf(page))
         /\ Len(PageOf(page)) <= PageSize
         /\ \A i \in DOMAIN PageOf(page) :
              ReadTo + i \in DOMAIN ledger /\ PageOf(page)[i] = ledger[ReadTo + i]
         /\ \A j \in DOMAIN ledger : j > ReadTo /\ j <= ReadTo + PageSize =>
              j - ReadTo \in DOMAIN PageOf(page)
         /\ Len(PageOf(page)) = PageSize <=> ReadTo + PageSize <= Len(ledger)
<1> DEFINE from == ReadTo
           to == page * PageSize
<1>1. /\ from \in Nat /\ to \in Nat /\ to = from + PageSize /\ Len(ledger) \in Nat
  BY DEF TypeOK, ReadTo
<1> HIDE DEF from, to
<1> DEFINE end == IF to < Len(ledger) THEN to ELSE Len(ledger)
<1>2. PageOf(page) = SubSeq(ledger, from + 1, end)
  BY DEF PageOf, ReadTo, from, to
<1>3. end \in Nat /\ end <= to /\ end <= Len(ledger) /\ (end = to \/ end = Len(ledger))
  BY <1>1
<1> HIDE DEF end
<1> DEFINE n == Len(ledger)
<1>a. /\ \A j \in 1 .. n : ledger[j] \in Utxos
      /\ \A j : j \in DOMAIN ledger <=> j \in 1 .. n
  <2>1. ledger \in Seq(Utxos)
    BY DEF TypeOK
  <2> QED
    BY <2>1, LenProperties, ElementOfSeq
<1>b. n \in Nat /\ end <= n
  BY <1>1, <1>3
<1> HIDE DEF n
<1>0. \A j : j \in DOMAIN ledger <=> j \in Nat /\ 1 <= j /\ j <= n
  BY ONLY <1>a, <1>b
<1>4. \A i \in from + 1 .. end : ledger[i] \in Utxos
  <2>1. \A i \in from + 1 .. end : i \in 1 .. n
    BY ONLY <1>1, <1>3, <1>b
  <2> QED
    BY ONLY <1>a, <2>1
<1>5. /\ PageOf(page) \in Seq(Utxos)
      /\ Len(PageOf(page)) = IF from + 1 <= end THEN end - from ELSE 0
      /\ \A i \in 1 .. end - from : PageOf(page)[i] = ledger[from + i]
  <2>1. /\ SubSeq(ledger, from + 1, end) \in Seq(Utxos)
        /\ Len(SubSeq(ledger, from + 1, end)) =
             IF from + 1 <= end THEN end - (from + 1) + 1 ELSE 0
        /\ \A i \in 1 .. end - (from + 1) + 1 :
             SubSeq(ledger, from + 1, end)[i] = ledger[from + 1 + i - 1]
    <3>1. from + 1 \in Int /\ end \in Int
      BY <1>1, <1>3
    <3> DEFINE m == from + 1
    <3>2. m \in Int /\ \A i \in m .. end : ledger[i] \in Utxos
      BY <1>4, <3>1
    <3> HIDE DEF m
    <3>3. /\ SubSeq(ledger, m, end) \in Seq(Utxos)
          /\ Len(SubSeq(ledger, m, end)) = IF m <= end THEN end - m + 1 ELSE 0
          /\ \A i \in 1 .. end - m + 1 : SubSeq(ledger, m, end)[i] = ledger[m + i - 1]
      BY <3>1, <3>2, SubSeqProperties
    <3> QED
      BY <3>3 DEF m
  <2>2. end - (from + 1) + 1 = end - from /\ \A i \in 1 .. end - from : from + 1 + i - 1 = from + i
    BY <1>1, <1>3
  <2> QED
    BY <1>2, <2>1, <2>2
<1>6. DOMAIN PageOf(page) = 1 .. Len(PageOf(page)) /\ Len(PageOf(page)) \in Nat
  BY <1>5, LenProperties
<1>7. Len(PageOf(page)) <= PageSize
  BY <1>1, <1>3, <1>5
<1>8. ASSUME NEW i \in DOMAIN PageOf(page)
      PROVE  from + i \in DOMAIN ledger /\ PageOf(page)[i] = ledger[from + i]
  <2>1. i \in 1 .. Len(PageOf(page))
    BY ONLY <1>6, <1>8
  <2>2. i \in 1 .. end - from
    BY ONLY <1>1, <1>3, <1>5, <2>1
  <2>3. PageOf(page)[i] = ledger[from + i]
    BY ONLY <1>5, <2>2
  <2>4. from + i \in Nat /\ 1 <= from + i /\ from + i <= n
    BY ONLY <1>1, <1>3, <1>b, <2>2
  <2> QED
    BY ONLY <1>0, <2>3, <2>4
<1>9. ASSUME NEW j \in DOMAIN ledger, j > from, j <= from + PageSize
      PROVE  j - from \in DOMAIN PageOf(page)
  <2>1. j \in Nat /\ j <= n
    BY ONLY <1>0, <1>9
  <2>2. j <= end
    BY ONLY <1>1, <1>3, <1>9, <1>b, <2>1 DEF n
  <2>3. j - from \in 1 .. Len(PageOf(page))
    BY ONLY <1>1, <1>3, <1>5, <1>9, <2>1, <2>2
  <2> QED
    BY ONLY <1>6, <2>3
<1>10. Len(PageOf(page)) = PageSize <=> from + PageSize <= Len(ledger)
  BY <1>1, <1>3, <1>5
<1> QED
  BY <1>5, <1>6, <1>7, <1>8, <1>9, <1>10 DEF from

\* Two sequences in order, the second after the first.
LEMMA ConcatInOrder ==
  ASSUME NEW a \in Seq(Utxos), NEW b \in Seq(Utxos), OldestFirst(a), OldestFirst(b),
         \A i \in DOMAIN a, j \in DOMAIN b : a[i] < b[j]
  PROVE  OldestFirst(a \o b)
<1>1. /\ DOMAIN (a \o b) = 1 .. Len(a) + Len(b)
      /\ Len(a) \in Nat /\ Len(b) \in Nat /\ DOMAIN a = 1 .. Len(a) /\ DOMAIN b = 1 .. Len(b)
      /\ \A i \in 1 .. Len(a) + Len(b) :
            (a \o b)[i] = IF i <= Len(a) THEN a[i] ELSE b[i - Len(a)]
  BY ConcatProperties, LenProperties
<1>2. ASSUME NEW i \in DOMAIN (a \o b), NEW j \in DOMAIN (a \o b), i < j
      PROVE  (a \o b)[i] < (a \o b)[j]
  <2>1. CASE j <= Len(a)
    BY <1>1, <1>2, <2>1 DEF OldestFirst
  <2>2. CASE i <= Len(a) /\ j > Len(a)
    <3>1. i \in DOMAIN a /\ j - Len(a) \in DOMAIN b
      BY <1>1, <2>2
    <3>2. (a \o b)[i] = a[i] /\ (a \o b)[j] = b[j - Len(a)]
      BY <1>1, <2>2
    <3> QED
      BY <3>1, <3>2
  <2>3. CASE i > Len(a)
    <3>1. i - Len(a) \in DOMAIN b /\ j - Len(a) \in DOMAIN b /\ i - Len(a) < j - Len(a)
      BY <1>1, <1>2, <2>3
    <3>2. (a \o b)[i] = b[i - Len(a)] /\ (a \o b)[j] = b[j - Len(a)]
      BY <1>1, <1>2, <2>3
    <3> QED
      BY <3>1, <3>2 DEF OldestFirst
  <2> QED
    BY <1>1, <2>1, <2>2, <2>3
<1> QED
  BY <1>2 DEF OldestFirst

LEMMA ConcatSet ==
  ASSUME NEW a \in Seq(Utxos), NEW b \in Seq(Utxos)
  PROVE  ToSet(a \o b) = ToSet(a) \cup ToSet(b)
<1>1. /\ DOMAIN (a \o b) = 1 .. Len(a) + Len(b)
      /\ Len(a) \in Nat /\ Len(b) \in Nat /\ DOMAIN a = 1 .. Len(a) /\ DOMAIN b = 1 .. Len(b)
      /\ \A i \in 1 .. Len(a) + Len(b) :
            (a \o b)[i] = IF i <= Len(a) THEN a[i] ELSE b[i - Len(a)]
  BY ConcatProperties, LenProperties
<1>2. \A i \in DOMAIN a : i \in DOMAIN (a \o b) /\ (a \o b)[i] = a[i]
  BY <1>1
<1>3. ASSUME NEW j \in DOMAIN b
      PROVE  Len(a) + j \in DOMAIN (a \o b) /\ (a \o b)[Len(a) + j] = b[j]
  BY <1>1
<1>4. ASSUME NEW i \in DOMAIN (a \o b)
      PROVE  (a \o b)[i] \in ToSet(a) \cup ToSet(b)
  <2>1. CASE i <= Len(a)
    <3>1. i \in DOMAIN a /\ (a \o b)[i] = a[i]
      BY <1>1, <2>1
    <3> QED
      BY <3>1 DEF ToSet
  <2>2. CASE i > Len(a)
    <3>1. i - Len(a) \in DOMAIN b /\ (a \o b)[i] = b[i - Len(a)]
      BY <1>1, <2>2
    <3> QED
      BY <3>1 DEF ToSet
  <2> QED
    BY <1>1, <2>1, <2>2
<1> QED
  BY <1>2, <1>3, <1>4 DEF ToSet

\* An output that is spent leaves its place to the next one.
LEMMA AfterSpend ==
  ASSUME TypeOK, NEW i \in DOMAIN ledger, Spend(i)
  PROVE  /\ Len(ledger') = Len(ledger) - 1 /\ DOMAIN ledger' = 1 .. Len(ledger) - 1
         /\ \A j \in DOMAIN ledger' :
              IF j < i THEN j \in DOMAIN ledger /\ ledger'[j] = ledger[j]
              ELSE j + 1 \in DOMAIN ledger /\ ledger'[j] = ledger[j + 1]
         /\ ToSet(ledger) \subseteq ToSet(ledger') \cup {ledger[i]}
<1>1. ledger \in Seq(Utxos) /\ Len(ledger) \in Nat /\ DOMAIN ledger = 1 .. Len(ledger)
  BY DEF TypeOK
<1> DEFINE n == Len(ledger)
           a == SubSeq(ledger, 1, i - 1)
           b == SubSeq(ledger, i + 1, n)
<1>2. i \in 1 .. n /\ n \in Nat
  BY <1>1
<1>3. /\ a \in Seq(Utxos) /\ Len(a) = i - 1
      /\ \A j \in 1 .. i - 1 : a[j] = ledger[j]
  BY <1>1, <1>2
<1>4. /\ b \in Seq(Utxos) /\ Len(b) = n - i
      /\ \A j \in 1 .. n - i : b[j] = ledger[i + j]
  BY <1>1, <1>2
<1>5. ledger' = a \o b
  BY DEF Spend, RemoveAt
<1> HIDE DEF n, a, b
<1>6. /\ ledger' \in Seq(Utxos) /\ Len(ledger') = n - 1
      /\ \A j \in 1 .. n - 1 : ledger'[j] = IF j < i THEN a[j] ELSE b[j - (i - 1)]
  <2>1. /\ a \o b \in Seq(Utxos) /\ Len(a \o b) = Len(a) + Len(b)
        /\ \A j \in 1 .. Len(a) + Len(b) :
             (a \o b)[j] = IF j <= Len(a) THEN a[j] ELSE b[j - Len(a)]
    BY <1>3, <1>4, ConcatProperties
  <2>2. Len(a) + Len(b) = n - 1 /\ \A j \in 1 .. n - 1 : j <= Len(a) <=> j < i
    BY <1>2, <1>3, <1>4
  <2> QED
    BY <1>3, <1>5, <2>1, <2>2
<1>7. DOMAIN ledger' = 1 .. n - 1
  BY <1>6, LenProperties
<1>8. ASSUME NEW j \in 1 .. n - 1
      PROVE  IF j < i THEN j \in DOMAIN ledger /\ ledger'[j] = ledger[j]
             ELSE j + 1 \in DOMAIN ledger /\ ledger'[j] = ledger[j + 1]
  <2>1. CASE j < i
    BY <1>1, <1>2, <1>3, <1>6, <2>1 DEF n
  <2>2. CASE j >= i
    <3>1. ledger'[j] = b[j - (i - 1)] /\ j - (i - 1) \in 1 .. n - i
      BY <1>2, <1>6, <2>2
    <3>2. b[j - (i - 1)] = ledger[i + (j - (i - 1))]
      BY <1>4, <3>1
    <3>3. i + (j - (i - 1)) = j + 1 /\ j + 1 \in 1 .. n
      BY <1>2
    <3> QED
      BY <1>1, <1>2, <2>2, <3>1, <3>2, <3>3 DEF n
  <2> QED
    BY <1>2, <2>1, <2>2
<1>9. ASSUME NEW k \in DOMAIN ledger, k # i
      PROVE  ledger[k] \in ToSet(ledger')
  <2>1. CASE k < i
    <3>1. k \in DOMAIN ledger' /\ ledger'[k] = ledger[k]
      BY <1>1, <1>2, <1>7, <1>8, <2>1 DEF n
    <3> QED
      BY <3>1 DEF ToSet
  <2>2. CASE k > i
    <3>1. k - 1 \in 1 .. n - 1 /\ ~(k - 1 < i) /\ k - 1 + 1 = k
      BY <1>1, <1>2, <2>2 DEF n
    <3>2. k - 1 \in DOMAIN ledger' /\ ledger'[k - 1] = ledger[k]
      BY <1>7, <1>8, <3>1
    <3> QED
      BY <3>2 DEF ToSet
  <2> QED
    BY <1>1, <1>2, <1>9, <2>1, <2>2
<1>10. ToSet(ledger) \subseteq ToSet(ledger') \cup {ledger[i]}
  BY <1>9 DEF ToSet
<1> QED
  BY <1>6, <1>7, <1>8, <1>10 DEF n

LEMMA AfterReceive ==
  ASSUME TypeOK, NEW u \in Utxos, Receive(u)
  PROVE  /\ Len(ledger') = Len(ledger) + 1 /\ DOMAIN ledger' = 1 .. Len(ledger) + 1
         /\ \A j \in DOMAIN ledger : ledger'[j] = ledger[j]
         /\ ledger'[Len(ledger) + 1] = u
         /\ ToSet(ledger') = ToSet(ledger) \cup {u}
<1>1. ledger \in Seq(Utxos) /\ Len(ledger) \in Nat /\ DOMAIN ledger = 1 .. Len(ledger)
  BY DEF TypeOK
<1>2. /\ ledger' \in Seq(Utxos) /\ Len(ledger') = Len(ledger) + 1
      /\ \A j \in 1 .. Len(ledger) : ledger'[j] = ledger[j]
      /\ ledger'[Len(ledger) + 1] = u
  BY <1>1, AppendProperties DEF Receive
<1>3. DOMAIN ledger' = 1 .. Len(ledger) + 1
  BY <1>2, LenProperties
<1>4. \A j \in DOMAIN ledger' : (j \in DOMAIN ledger /\ ledger'[j] = ledger[j]) \/ ledger'[j] = u
  BY <1>1, <1>2, <1>3
<1>5. Len(ledger) + 1 \in DOMAIN ledger' /\ \A j \in DOMAIN ledger : j \in DOMAIN ledger'
  BY <1>1, <1>3
<1> QED
  BY <1>1, <1>2, <1>3, <1>4, <1>5 DEF ToSet

LEMMA ReadPageInOrder == ASSUME Inv, ReadPage PROVE ReadInOrder'
<1>1. /\ TypeOK /\ pc = "reading" /\ allUtxos' = allUtxos \o PageOf(page)
      /\ UNCHANGED <<ledger, spent, spends, reorgs>>
      /\ \/ pc' = "done" /\ page' = page
         \/ Len(PageOf(page)) >= PageSize /\ pc' = "reading" /\ page' = page + 1
  BY PageOfType DEF Inv, ReadPage, TypeOK
<1> SUFFICES ASSUME reorgs = 0 PROVE ReadInOrder'
  BY <1>1 DEF ReadInOrder
<1>2. /\ OldestFirst(ledger) /\ OldestFirst(allUtxos)
      /\ ToSet(allUtxos) \subseteq spent \cup ToSet(ledger)
      /\ \A i \in DOMAIN allUtxos, j \in DOMAIN ledger : j > ReadTo => allUtxos[i] < ledger[j]
  BY <1>1 DEF Inv, ReadInOrder
<1> DEFINE rows == PageOf(page)
<1>3. /\ rows \in Seq(Utxos) /\ DOMAIN rows = 1 .. Len(rows) /\ Len(rows) \in Nat
      /\ Len(rows) <= PageSize
      /\ \A i \in DOMAIN rows : ReadTo + i \in DOMAIN ledger /\ rows[i] = ledger[ReadTo + i]
  BY <1>1, PageOutputs
<1>4. /\ allUtxos \in Seq(Utxos) /\ ledger \in Seq(Utxos) /\ ReadTo \in Nat
      /\ Len(ledger) \in Nat /\ DOMAIN ledger = 1 .. Len(ledger)
  BY <1>1 DEF TypeOK, ReadTo
<1>5. allUtxos' = allUtxos \o rows
  BY <1>1
<1> HIDE DEF rows
<1>6. OldestFirst(rows)
  <2>1. ASSUME NEW i \in DOMAIN rows, NEW j \in DOMAIN rows, i < j PROVE rows[i] < rows[j]
    <3>1. ReadTo + i < ReadTo + j
      BY <1>3, <1>4, <2>1
    <3> QED
      BY <1>2, <1>3, <3>1 DEF OldestFirst
  <2> QED
    BY <2>1 DEF OldestFirst
<1>7. \A i \in DOMAIN allUtxos, j \in DOMAIN rows : allUtxos[i] < rows[j]
  <2>1. \A j \in DOMAIN rows : ReadTo + j > ReadTo
    BY <1>3, <1>4
  <2> QED
    BY <1>2, <1>3, <2>1
<1>8. OldestFirst(allUtxos \o rows)
  BY <1>2, <1>3, <1>4, <1>6, <1>7, ConcatInOrder
<1>9. ToSet(rows) \subseteq ToSet(ledger)
  BY <1>3 DEF ToSet
<1>10. ToSet(allUtxos \o rows) = ToSet(allUtxos) \cup ToSet(rows)
  BY <1>3, <1>4, ConcatSet
<1>11. ASSUME pc' = "reading"
       PROVE  \A i \in DOMAIN allUtxos', j \in DOMAIN ledger : j > ReadTo' => allUtxos'[i] < ledger[j]
  <2>1. ReadTo' = ReadTo + PageSize
    BY <1>1, <1>11 DEF ReadTo, TypeOK
  <2>2. ASSUME NEW u \in ToSet(allUtxos \o rows), NEW j \in DOMAIN ledger, j > ReadTo + PageSize
        PROVE  u < ledger[j]
    <3>1. j > ReadTo
      BY <1>4, <2>2
    <3>2. CASE u \in ToSet(allUtxos)
      BY <1>2, <3>1, <3>2 DEF ToSet
    <3>3. CASE u \in ToSet(rows)
      <4>1. PICK i \in DOMAIN rows : u = rows[i]
        BY <3>3 DEF ToSet
      <4>2. ReadTo + i < j
        BY <1>3, <1>4, <2>2
      <4> QED
        BY <1>2, <1>3, <4>1, <4>2 DEF OldestFirst
    <3> QED
      BY <1>10, <3>2, <3>3
  <2> QED
    BY <1>5, <2>1, <2>2 DEF ToSet
<1> QED
  BY <1>1, <1>2, <1>5, <1>8, <1>9, <1>10, <1>11 DEF ReadInOrder, OldestFirst, ToSet

LEMMA ReceiveInOrder == ASSUME Inv, NEW u \in Utxos, Receive(u) PROVE ReadInOrder'
<1>1. /\ TypeOK /\ UNCHANGED <<spent, spends, reorgs, pc, page, allUtxos>>
      /\ \A v \in spent \cup ToSet(ledger) : v < u
  BY DEF Inv, Receive
<1> SUFFICES ASSUME reorgs = 0 PROVE ReadInOrder'
  BY <1>1 DEF ReadInOrder
<1>2. /\ OldestFirst(ledger) /\ OldestFirst(allUtxos)
      /\ ToSet(allUtxos) \subseteq spent \cup ToSet(ledger)
      /\ pc = "reading" => \A i \in DOMAIN allUtxos, j \in DOMAIN ledger :
            j > ReadTo => allUtxos[i] < ledger[j]
  BY DEF Inv, ReadInOrder
<1>3. /\ DOMAIN ledger' = 1 .. Len(ledger) + 1 /\ Len(ledger) \in Nat
      /\ DOMAIN ledger = 1 .. Len(ledger)
      /\ \A j \in DOMAIN ledger : ledger'[j] = ledger[j]
      /\ ledger'[Len(ledger) + 1] = u /\ ToSet(ledger') = ToSet(ledger) \cup {u}
  BY <1>1, AfterReceive DEF TypeOK
<1>4. \A j \in DOMAIN ledger' : j \in DOMAIN ledger \/ j = Len(ledger) + 1
  BY <1>3
<1>5. OldestFirst(ledger')
  <2>1. ASSUME NEW i \in DOMAIN ledger', NEW j \in DOMAIN ledger', i < j PROVE ledger'[i] < ledger'[j]
    <3>1. i \in DOMAIN ledger
      BY <1>3, <2>1
    <3>2. CASE j \in DOMAIN ledger
      BY <1>2, <1>3, <2>1, <3>1, <3>2 DEF OldestFirst
    <3>3. CASE j = Len(ledger) + 1
      BY <1>1, <1>3, <3>1, <3>3 DEF ToSet
    <3> QED
      BY <1>4, <3>2, <3>3
  <2> QED
    BY <2>1 DEF OldestFirst
<1>6. \A i \in DOMAIN allUtxos : allUtxos[i] < u
  BY <1>1, <1>2 DEF ToSet
<1>7. pc = "reading" => \A i \in DOMAIN allUtxos, j \in DOMAIN ledger' :
        j > ReadTo => allUtxos[i] < ledger'[j]
  BY <1>2, <1>3, <1>4, <1>6
<1>8. ToSet(allUtxos) \subseteq spent \cup ToSet(ledger')
  BY <1>2, <1>3
<1> QED
  BY <1>1, <1>2, <1>5, <1>7, <1>8 DEF ReadInOrder, OldestFirst, ToSet, ReadTo

LEMMA SpendInOrder == ASSUME Inv, NEW i \in DOMAIN ledger, Spend(i) PROVE ReadInOrder'
<1>1. /\ TypeOK /\ UNCHANGED <<reorgs, pc, page, allUtxos>> /\ spent' = spent \cup {ledger[i]}
  BY DEF Inv, Spend
<1> SUFFICES ASSUME reorgs = 0 PROVE ReadInOrder'
  BY <1>1 DEF ReadInOrder
<1>2. /\ OldestFirst(ledger) /\ OldestFirst(allUtxos)
      /\ ToSet(allUtxos) \subseteq spent \cup ToSet(ledger)
      /\ pc = "reading" => \A k \in DOMAIN allUtxos, j \in DOMAIN ledger :
            j > ReadTo => allUtxos[k] < ledger[j]
  BY DEF Inv, ReadInOrder
<1>3. /\ DOMAIN ledger' = 1 .. Len(ledger) - 1 /\ Len(ledger) \in Nat
      /\ DOMAIN ledger = 1 .. Len(ledger) /\ ReadTo \in Nat
      /\ \A j \in DOMAIN ledger' :
           IF j < i THEN j \in DOMAIN ledger /\ ledger'[j] = ledger[j]
           ELSE j + 1 \in DOMAIN ledger /\ ledger'[j] = ledger[j + 1]
      /\ ToSet(ledger) \subseteq ToSet(ledger') \cup {ledger[i]}
  BY <1>1, AfterSpend DEF TypeOK, ReadTo
<1>4. OldestFirst(ledger')
  <2>1. ASSUME NEW j \in DOMAIN ledger', NEW k \in DOMAIN ledger', j < k PROVE ledger'[j] < ledger'[k]
    <3>1. CASE k < i
      BY <1>2, <1>3, <2>1, <3>1 DEF OldestFirst
    <3>2. CASE j < i /\ ~(k < i)
      <4>1. j < k + 1
        BY <1>3, <2>1
      <4> QED
        BY <1>2, <1>3, <3>2, <4>1 DEF OldestFirst
    <3>3. CASE ~(j < i)
      <4>1. j + 1 < k + 1 /\ ~(k < i)
        BY <1>3, <2>1, <3>3
      <4> QED
        BY <1>2, <1>3, <3>3, <4>1 DEF OldestFirst
    <3> QED
      BY <1>3, <2>1, <3>1, <3>2, <3>3
  <2> QED
    BY <2>1 DEF OldestFirst
<1>5. ASSUME pc = "reading", NEW k \in DOMAIN allUtxos, NEW j \in DOMAIN ledger', j > ReadTo
      PROVE  allUtxos[k] < ledger'[j]
  <2>1. CASE j < i
    BY <1>2, <1>3, <1>5, <2>1
  <2>2. CASE ~(j < i)
    <3>1. j + 1 > ReadTo
      BY <1>3, <1>5
    <3> QED
      BY <1>2, <1>3, <1>5, <2>2, <3>1
  <2> QED
    BY <2>1, <2>2
<1>6. ToSet(allUtxos) \subseteq spent' \cup ToSet(ledger')
  BY <1>1, <1>2, <1>3
<1> QED
  BY <1>1, <1>2, <1>4, <1>5, <1>6 DEF ReadInOrder, OldestFirst, ToSet, ReadTo

-----------------------------------------------------------------------------
(* What spends hide.                                                       *)

\* The outputs skipped are counted.
LEMMA SkippedCounted ==
  ASSUME TypeOK
  PROVE  /\ IsFiniteSet(Skipped) /\ Cardinality(Skipped) \in Nat /\ Behind \in Nat
         /\ \A S \in SUBSET Skipped : IsFiniteSet(S) /\ Cardinality(S) \in Nat
                                       /\ Cardinality(S) <= Cardinality(Skipped)
         /\ \A x, S : S \subseteq Skipped \cup {x} =>
               Cardinality(S) \in Nat /\ Cardinality(S) <= Cardinality(Skipped) + 1
<1>1. IsFiniteSet(Skipped)
  <2>1. Skipped \in SUBSET Utxos
    BY DEF Skipped, TypeOK
  <2> QED
    BY <2>1, FS_Subset
<1>2. Cardinality(Skipped) \in Nat /\ Behind \in Nat
  <2>1. ReadTo \in Nat /\ Len(ledger) \in Nat
    BY DEF TypeOK, ReadTo
  <2> QED
    BY <1>1, <2>1, FS_CardinalityType DEF Behind
<1>3. ASSUME NEW S \in SUBSET Skipped
      PROVE  IsFiniteSet(S) /\ Cardinality(S) \in Nat /\ Cardinality(S) <= Cardinality(Skipped)
  BY <1>1, FS_Subset, FS_CardinalityType
<1>4. ASSUME NEW x, NEW S \in SUBSET (Skipped \cup {x})
      PROVE  Cardinality(S) \in Nat /\ Cardinality(S) <= Cardinality(Skipped) + 1
  <2> DEFINE more == Skipped \cup {x}
  <2>1. /\ IsFiniteSet(more)
        /\ Cardinality(more) = IF x \in Skipped THEN Cardinality(Skipped) ELSE Cardinality(Skipped) + 1
    BY <1>1, FS_AddElement
  <2>2. S \in SUBSET more
    OBVIOUS
  <2> HIDE DEF more
  <2>3. IsFiniteSet(S) /\ Cardinality(S) <= Cardinality(more)
    BY <2>1, <2>2, FS_Subset
  <2>4. Cardinality(S) \in Nat
    BY <2>3, FS_CardinalityType
  <2> QED
    BY <1>2, <2>1, <2>3, <2>4
<1> QED
  BY <1>1, <1>2, <1>3, <1>4

LEMMA SpendSkips == ASSUME Inv, NEW i \in DOMAIN ledger, Spend(i) PROVE SkippedAtMostSpends'
<1>1. /\ TypeOK /\ UNCHANGED <<reorgs, pc, page, allUtxos>> /\ spends' = spends + 1
      /\ ReadTo' = ReadTo
  BY DEF Inv, Spend, ReadTo
<1> SUFFICES ASSUME reorgs = 0, pc = "reading"
             PROVE  Cardinality(Skipped') + Behind' <= spends + 1
  BY <1>1 DEF SkippedAtMostSpends
<1>2. Cardinality(Skipped) + Behind <= spends /\ spends \in Nat
  BY <1>1 DEF Inv, SkippedAtMostSpends, TypeOK
<1>3. /\ Len(ledger') = Len(ledger) - 1
      /\ DOMAIN ledger' = 1 .. Len(ledger) - 1 /\ Len(ledger) \in Nat
      /\ DOMAIN ledger = 1 .. Len(ledger) /\ ReadTo \in Nat
      /\ \A j \in DOMAIN ledger' :
           IF j < i THEN j \in DOMAIN ledger /\ ledger'[j] = ledger[j]
           ELSE j + 1 \in DOMAIN ledger /\ ledger'[j] = ledger[j + 1]
  BY <1>1, AfterSpend DEF TypeOK, ReadTo
<1>4. \A v \in Skipped' : \E j \in DOMAIN ledger' : j <= ReadTo /\ v = ledger'[j] /\ v \notin ToSet(allUtxos)
  BY <1>1 DEF Skipped
<1>5. CASE Len(ledger) <= ReadTo
  <2>1. Skipped' \subseteq Skipped
    <3>1. ASSUME NEW v \in Skipped' PROVE v \in Skipped
      <4>1. PICK j \in DOMAIN ledger' : j <= ReadTo /\ v = ledger'[j] /\ v \notin ToSet(allUtxos)
        BY <1>4
      <4>2. PICK k \in DOMAIN ledger : v = ledger[k]
        BY <1>3, <4>1
      <4>3. k <= ReadTo
        BY <1>3, <1>5
      <4> QED
        BY <4>1, <4>2, <4>3 DEF Skipped
    <3> QED
      BY <3>1
  <2>2. Behind' = Behind + 1
    BY <1>1, <1>3, <1>5 DEF Behind
  <2> DEFINE S == Skipped'
  <2>3. Cardinality(S) \in Nat /\ Cardinality(S) <= Cardinality(Skipped)
    BY <1>1, <2>1, SkippedCounted
  <2>4. Cardinality(Skipped) \in Nat /\ Behind \in Nat
    BY <1>1, SkippedCounted
  <2> QED
    BY <1>2, <2>2, <2>3, <2>4
<1>6. CASE Len(ledger) > ReadTo
  <2>1. Skipped' \subseteq Skipped \cup {ledger[ReadTo + 1]}
    <3>1. ASSUME NEW v \in Skipped', v # ledger[ReadTo + 1] PROVE v \in Skipped
      <4>1. PICK j \in DOMAIN ledger' : j <= ReadTo /\ v = ledger'[j] /\ v \notin ToSet(allUtxos)
        BY <1>4
      <4>2. PICK k \in DOMAIN ledger : v = ledger[k] /\ (k = j \/ k = j + 1)
        BY <1>3, <4>1
      <4>3. k <= ReadTo
        BY <1>3, <3>1, <4>1, <4>2
      <4> QED
        BY <4>1, <4>2, <4>3 DEF Skipped
    <3> QED
      BY <3>1
  <2>2. Behind' = 0 /\ Behind = 0
    BY <1>1, <1>3, <1>6 DEF Behind
  <2> DEFINE S == Skipped'
  <2>3. Cardinality(S) \in Nat /\ Cardinality(S) <= Cardinality(Skipped) + 1
    BY <1>1, <2>1, SkippedCounted
  <2>4. Cardinality(Skipped) \in Nat
    BY <1>1, SkippedCounted
  <2> QED
    BY <1>2, <2>2, <2>3, <2>4
<1> QED
  BY <1>3, <1>5, <1>6

LEMMA ReceiveSkips == ASSUME Inv, NEW u \in Utxos, Receive(u) PROVE SkippedAtMostSpends'
<1>1. /\ TypeOK /\ UNCHANGED <<spent, spends, reorgs, pc, page, allUtxos>>
      /\ ReadTo' = ReadTo
  BY DEF Inv, Receive, ReadTo
<1> SUFFICES ASSUME reorgs = 0, pc = "reading"
             PROVE  Cardinality(Skipped') + Behind' <= spends
  BY <1>1 DEF SkippedAtMostSpends
<1>2. Cardinality(Skipped) + Behind <= spends /\ spends \in Nat
  BY <1>1 DEF Inv, SkippedAtMostSpends, TypeOK
<1>3. /\ Len(ledger') = Len(ledger) + 1
      /\ DOMAIN ledger' = 1 .. Len(ledger) + 1 /\ Len(ledger) \in Nat
      /\ DOMAIN ledger = 1 .. Len(ledger) /\ ReadTo \in Nat
      /\ \A j \in DOMAIN ledger : ledger'[j] = ledger[j]
      /\ ledger'[Len(ledger) + 1] = u
  BY <1>1, AfterReceive DEF TypeOK, ReadTo
<1>4. \A v \in Skipped' : \E j \in DOMAIN ledger' : j <= ReadTo /\ v = ledger'[j] /\ v \notin ToSet(allUtxos)
  BY <1>1 DEF Skipped
<1>5. CASE Len(ledger) < ReadTo
  <2>1. Skipped' \subseteq Skipped \cup {u}
    <3>1. ASSUME NEW v \in Skipped', v # u PROVE v \in Skipped
      <4>1. PICK j \in DOMAIN ledger' : j <= ReadTo /\ v = ledger'[j] /\ v \notin ToSet(allUtxos)
        BY <1>4
      <4>2. j \in DOMAIN ledger /\ ledger'[j] = ledger[j]
        BY <1>3, <3>1, <4>1
      <4> QED
        BY <4>1, <4>2 DEF Skipped
    <3> QED
      BY <3>1
  <2>2. Behind' = Behind - 1
    BY <1>1, <1>3, <1>5 DEF Behind
  <2> DEFINE S == Skipped'
  <2>3. Cardinality(S) \in Nat /\ Cardinality(S) <= Cardinality(Skipped) + 1
    BY <1>1, <2>1, SkippedCounted
  <2>4. Cardinality(Skipped) \in Nat /\ Behind \in Nat
    BY <1>1, SkippedCounted
  <2> QED
    BY <1>2, <2>2, <2>3, <2>4
<1>6. CASE Len(ledger) >= ReadTo
  <2>1. Skipped' \subseteq Skipped
    <3>1. ASSUME NEW v \in Skipped' PROVE v \in Skipped
      <4>1. PICK j \in DOMAIN ledger' : j <= ReadTo /\ v = ledger'[j] /\ v \notin ToSet(allUtxos)
        BY <1>4
      <4>2. j \in DOMAIN ledger /\ ledger'[j] = ledger[j]
        BY <1>3, <1>6, <4>1
      <4> QED
        BY <4>1, <4>2 DEF Skipped
    <3> QED
      BY <3>1
  <2>2. Behind' = 0
    BY <1>1, <1>3, <1>6 DEF Behind
  <2> DEFINE S == Skipped'
  <2>3. Cardinality(S) \in Nat /\ Cardinality(S) <= Cardinality(Skipped)
    BY <1>1, <2>1, SkippedCounted
  <2>4. Cardinality(Skipped) \in Nat /\ Behind \in Nat
    BY <1>1, SkippedCounted
  <2> QED
    BY <1>2, <2>2, <2>3, <2>4
<1> QED
  BY <1>3, <1>5, <1>6

\* What a page adds to the result is no longer to be missed.
LEMMA ReadLeaves ==
  ASSUME TypeOK, NEW j \in DOMAIN ledger, j <= ReadTo + PageSize,
         ledger[j] \notin ToSet(allUtxos \o PageOf(page))
  PROVE  ledger[j] \in Skipped
<1>1. /\ allUtxos \in Seq(Utxos) /\ ReadTo \in Nat /\ Len(ledger) \in Nat
      /\ DOMAIN ledger = 1 .. Len(ledger)
  BY DEF TypeOK, ReadTo
<1>2. /\ PageOf(page) \in Seq(Utxos)
      /\ \A i \in DOMAIN PageOf(page) : PageOf(page)[i] = ledger[ReadTo + i]
      /\ j > ReadTo => j - ReadTo \in DOMAIN PageOf(page)
  BY PageOutputs
<1>3. ToSet(allUtxos \o PageOf(page)) = ToSet(allUtxos) \cup ToSet(PageOf(page))
  BY <1>1, <1>2, ConcatSet
<1>4. j <= ReadTo
  <2> SUFFICES ASSUME j > ReadTo PROVE FALSE
    BY <1>1
  <2>1. PageOf(page)[j - ReadTo] = ledger[ReadTo + (j - ReadTo)]
    BY <1>2
  <2>2. ReadTo + (j - ReadTo) = j
    BY <1>1
  <2>3. ledger[j] \in ToSet(PageOf(page))
    BY <1>2, <2>1, <2>2 DEF ToSet
  <2> QED
    BY <1>3, <2>3
<1> QED
  BY <1>3, <1>4 DEF Skipped

LEMMA ReadPageSkips == ASSUME Inv, ReadPage PROVE SkippedAtMostSpends'
<1>1. /\ TypeOK /\ pc = "reading" /\ allUtxos' = allUtxos \o PageOf(page)
      /\ UNCHANGED <<ledger, spent, spends, reorgs>>
  BY DEF Inv, ReadPage
<1> SUFFICES ASSUME reorgs = 0, pc' = "reading"
             PROVE  Cardinality(Skipped') + Behind' <= spends
  BY <1>1 DEF SkippedAtMostSpends
<1>2. Cardinality(Skipped) + Behind <= spends /\ spends \in Nat
  BY <1>1 DEF Inv, SkippedAtMostSpends, TypeOK
<1>3. Len(PageOf(page)) = PageSize /\ page' = page + 1
  <2>1. ~(Len(PageOf(page)) < PageSize) /\ page' = page + 1
    BY DEF ReadPage
  <2>2. Len(PageOf(page)) \in Nat /\ Len(PageOf(page)) <= PageSize
    BY <1>1, PageOutputs
  <2> QED
    BY <2>1, <2>2
<1>4. /\ ReadTo' = ReadTo + PageSize /\ ReadTo + PageSize <= Len(ledger)
      /\ ReadTo \in Nat /\ Len(ledger) \in Nat
  BY <1>1, <1>3, PageOutputs DEF ReadTo, TypeOK
<1>5. Behind' = 0
  BY <1>1, <1>4 DEF Behind
<1>6. Skipped' \subseteq Skipped
  <2>1. ASSUME NEW v \in Skipped' PROVE v \in Skipped
    <3>1. PICK j \in DOMAIN ledger : j <= ReadTo + PageSize /\ v = ledger[j]
                                     /\ v \notin ToSet(allUtxos \o PageOf(page))
      BY <1>1, <1>4 DEF Skipped, ToSet
    <3> QED
      BY <1>1, <3>1, ReadLeaves
  <2> QED
    BY <2>1
<1> DEFINE S == Skipped'
<1>7. Cardinality(S) \in Nat /\ Cardinality(S) <= Cardinality(Skipped)
  BY <1>1, <1>6, SkippedCounted
<1>8. Cardinality(Skipped) \in Nat /\ Behind \in Nat
  BY <1>1, SkippedCounted
<1> QED
  BY <1>2, <1>5, <1>7, <1>8

-----------------------------------------------------------------------------
LEMMA InitInv == Init => Inv
<1> SUFFICES ASSUME Init PROVE Inv
  OBVIOUS
<1>1. TypeOK /\ ReadPrefix
  BY InitPrefix
<1>2. ToSet(allUtxos) = {} /\ OldestFirst(allUtxos) /\ ReadTo = 0
  BY DEF Init, ToSet, OldestFirst, ReadTo
<1>3. ReadInOrder
  BY <1>1, <1>2 DEF Init, ReadInOrder
<1>4. SkippedAtMostSpends
  <2>1. Len(ledger) \in Nat /\ DOMAIN ledger = 1 .. Len(ledger)
    BY <1>1 DEF TypeOK
  <2>2. Skipped = {} /\ Behind = 0
    BY <1>2, <2>1 DEF Skipped, Behind
  <2> QED
    BY <2>2, FS_EmptySet DEF SkippedAtMostSpends, Init
<1> QED
  BY <1>1, <1>3, <1>4 DEF Inv

\* What has been read: the beginning of the ledger, while nothing was spent, and
\* in its order, but for one output at most for each spend, while nothing was
\* rolled back.
THEOREM Invariance == Spec => []Inv
<1>1. Inv /\ [Next]_vars => Inv'
  <2> SUFFICES ASSUME Inv, [Next]_vars PROVE Inv'
    OBVIOUS
  <2>1. CASE UNCHANGED vars
    BY <2>1 DEF vars, Inv, TypeOK, ReadPrefix, Undisturbed, ReadTo, ReadInOrder, OldestFirst,
                ToSet, SkippedAtMostSpends, Skipped, Behind
  <2>2. CASE FailPage
    BY <2>2 DEF FailPage, Inv, TypeOK, ReadPrefix, PCs, ReadInOrder, OldestFirst, ToSet,
                SkippedAtMostSpends
  <2>3. CASE ReadPage
    BY <2>3, ReadPagePrefix, ReadPageInOrder, ReadPageSkips DEF Inv
  <2>4. CASE \E u \in Utxos : Receive(u)
    BY <2>4, ReceivePrefix, ReceiveInOrder, ReceiveSkips DEF Inv
  <2>5. CASE \E i \in DOMAIN ledger : Spend(i)
    BY <2>5, SpendPrefix, SpendInOrder, SpendSkips DEF Inv
  <2>6. CASE Unreceive \/ \E u \in spent, i \in 1 .. Len(ledger) + 1 : Unspend(u, i)
    <3>1. TypeOK' /\ ReadPrefix'
      BY <2>6, RollbackPrefix
    <3>2. reorgs' # 0
      BY <2>6 DEF Unreceive, Unspend, Inv, TypeOK
    <3> QED
      BY <3>1, <3>2 DEF Inv, ReadInOrder, SkippedAtMostSpends
  <2> QED
    BY <2>1, <2>2, <2>3, <2>4, <2>5, <2>6 DEF Next
<1> QED
  BY <1>1, InitInv, PTL DEF Spec

\* No output is counted twice, unless a rollback undoes a spend.
THEOREM CountedOnce == Spec => []NoDuplicates
<1>1. Inv => NoDuplicates
  <2> SUFFICES ASSUME Inv, reorgs = 0,
                      NEW i \in DOMAIN allUtxos, NEW j \in DOMAIN allUtxos,
                      allUtxos[i] = allUtxos[j]
               PROVE  i = j
    BY DEF NoDuplicates
  <2>1. OldestFirst(allUtxos)
    BY DEF Inv, ReadInOrder
  <2>2. i \in Nat /\ j \in Nat /\ allUtxos[i] \in Nat
    <3>1. allUtxos \in Seq(Utxos)
      BY DEF Inv, TypeOK
    <3>2. Len(allUtxos) \in Nat /\ i \in 1 .. Len(allUtxos) /\ j \in 1 .. Len(allUtxos)
      BY <3>1, LenProperties
    <3>3. allUtxos[i] \in Utxos
      BY <3>1, <3>2, ElementOfSeq
    <3>4. allUtxos[i] \in Nat
      BY ONLY <3>3, PaginationAssumption
    <3> DEFINE m == Len(allUtxos)
    <3>5. m \in Nat /\ i \in 1 .. m /\ j \in 1 .. m
      BY <3>2
    <3> HIDE DEF m
    <3>6. i \in Nat /\ j \in Nat
      BY ONLY <3>5
    <3> QED
      BY ONLY <3>4, <3>6
  <2>3. ~(i < j) /\ ~(j < i)
    BY <2>1, <2>2 DEF OldestFirst
  <2> QED
    BY <2>2, <2>3
<1> QED
  BY <1>1, Invariance, PTL

\* Each spend during the fetch hides at most one unspent output.
THEOREM HiddenAtMostSpends == Spec => MissedAtMostSpends
<1>1. Inv /\ [Next]_vars =>
        [pc = "reading" /\ pc' = "done" /\ reorgs = 0
            => Cardinality(Missed') <= spends]_vars
  <2> SUFFICES ASSUME Inv, Next, pc = "reading", pc' = "done", reorgs = 0
               PROVE  Cardinality(Missed') <= spends
    OBVIOUS
  <2>1. ReadPage
    BY DEF Next, FailPage, Receive, Spend, Unspend, Unreceive
  <2>2. /\ TypeOK /\ Len(PageOf(page)) < PageSize /\ allUtxos' = allUtxos \o PageOf(page)
        /\ ledger' = ledger
    BY <2>1 DEF ReadPage, Inv
  <2>3. /\ ~(ReadTo + PageSize <= Len(ledger)) /\ ReadTo \in Nat /\ Len(ledger) \in Nat
        /\ DOMAIN ledger = 1 .. Len(ledger)
    BY <2>2, PageOutputs DEF TypeOK, ReadTo
  <2>4. Missed' \subseteq Skipped
    <3>1. ASSUME NEW j \in DOMAIN ledger, ledger[j] \notin ToSet(allUtxos \o PageOf(page))
          PROVE  ledger[j] \in Skipped
      <4>1. j <= ReadTo + PageSize
        BY <2>3
      <4> QED
        BY <2>2, <3>1, <4>1, ReadLeaves
    <3> QED
      BY <2>2, <3>1 DEF Missed, ToSet
  <2> DEFINE S == Missed'
  <2>5. Cardinality(S) \in Nat /\ Cardinality(S) <= Cardinality(Skipped)
    BY <2>2, <2>4, SkippedCounted
  <2>6. Cardinality(Skipped) \in Nat /\ Behind \in Nat
    BY <2>2, SkippedCounted
  <2>7. Cardinality(Skipped) + Behind <= spends /\ spends \in Nat
    BY DEF Inv, SkippedAtMostSpends, TypeOK
  <2> QED
    BY <2>5, <2>6, <2>7
<1> QED
  BY <1>1, Invariance, PTL DEF Spec, MissedAtMostSpends

\* A fetch during which nothing is spent returns a snapshot.
THEOREM FetchIsSnapshot == Spec => Snapshot
<1>1. Inv /\ [Next]_vars =>
        [pc = "reading" /\ pc' = "done" /\ Undisturbed => allUtxos' = ledger]_vars
  <2> SUFFICES ASSUME Inv, Next, pc = "reading", pc' = "done", Undisturbed
               PROVE  allUtxos' = ledger
    OBVIOUS
  <2>1. ReadPage
    BY DEF Next, FailPage, Receive, Spend, Unspend, Unreceive
  <2>2. Len(PageOf(page)) < PageSize /\ allUtxos' = allUtxos \o PageOf(page)
    BY <2>1 DEF ReadPage
  <2> QED
    BY <2>2, ShortPage DEF Inv, ReadPrefix, ReadTo, TypeOK
<1> QED
  BY <1>1, Invariance, PTL DEF Spec, Snapshot

=============================================================================
