---------------------------- MODULE HdDiscovery ----------------------------
(***************************************************************************)
(* HdWalletDiscovery of dart/lib/src/hd/hd_wallet.dart: discoverAccounts   *)
(* asks, one address after the other, whether an address was ever used, and *)
(* stops a chain after gapLimit unused ones and the accounts at the first   *)
(* empty one.  Meanwhile the wallet is used: by another device with the     *)
(* same seed, by someone who pays it.  An address once used stays so.       *)
(***************************************************************************)
EXTENDS Integers, FiniteSets, Sequences

CONSTANTS
    AccountIds,   \* account indexes that may be used on chain
    Indexes,      \* address indexes that may be used on chain
    GapLimit,     \* gapLimit
    MaxAccounts,  \* maxAccounts
    MaxInitial,   \* bound: addresses used before the discovery
    MaxUses       \* bound: addresses first used during the discovery

ASSUME DiscoveryAssumption ==
    /\ AccountIds \subseteq Nat /\ Indexes \subseteq Nat
    /\ GapLimit \in Nat \ {0} /\ MaxAccounts \in Nat \ {0}

VARIABLES
    used,         \* addresses with on-chain history
    before,       \* those that had it when the discovery began
    phase,        \* "scan" | "done" | "failed"
    role,         \* chain being scanned: 0 external, 1 change
    index,        \* index
    unusedRun,    \* consecutiveUnused
    chains,       \* addresses of the account being scanned, per role
    accounts      \* accounts; accounts[a + 1] is account a

hdVars == <<used, before, phase, role, index, unusedRun, chains, accounts>>

Roles == {0, 1}

Addresses == AccountIds \X Roles \X Indexes

\* A scanned chain: how many addresses it has, and which of them are used.
Chain == [length : Nat, used : SUBSET Nat]
NoChain == [length |-> 0, used |-> {}]
NoChains == [r \in Roles |-> NoChain]

HdTypeOK ==
    /\ used \subseteq Addresses
    /\ before \subseteq used
    /\ phase \in {"scan", "done", "failed"}
    /\ role \in Roles
    /\ index \in Nat
    /\ unusedRun \in 0 .. GapLimit
    /\ chains \in [Roles -> Chain]
    /\ accounts \in Seq([Roles -> Chain])

HdInit ==
    /\ used \in SUBSET Addresses
    /\ Cardinality(used) <= MaxInitial
    /\ before = used
    /\ phase = "scan"
    /\ role = 0
    /\ index = 0
    /\ unusedRun = 0
    /\ chains = NoChains
    /\ accounts = <<>>

\* An address is used for the first time.
Use(a) ==
    /\ a \notin used
    /\ Cardinality(used \ before) < MaxUses
    /\ used' = used \cup {a}
    /\ UNCHANGED <<before, phase, role, index, unusedRun, chains, accounts>>

-----------------------------------------------------------------------------
(* scanChain, scanAccount and discoverAccounts.                            *)

\* The account being scanned.
Account == Len(accounts)

\* Mutant of Lookup: the counter of unused addresses is never reset.
LookupNoReset ==
    /\ phase = "scan"
    /\ unusedRun < GapLimit
    /\ LET hit == <<Account, role, index>> \in used
       IN /\ unusedRun' = IF hit THEN unusedRun ELSE unusedRun + 1
          /\ chains' = [chains EXCEPT
                ![role] = [length |-> @.length + 1,
                           used |-> IF hit THEN @.used \cup {index} ELSE @.used]]
    /\ index' = index + 1
    /\ UNCHANGED <<used, before, phase, role, accounts>>

\* Mutant of Lookup: a used address restarts the chain from its index.
LookupStays ==
    /\ phase = "scan"
    /\ unusedRun < GapLimit
    /\ LET hit == <<Account, role, index>> \in used
       IN /\ unusedRun' = IF hit THEN 0 ELSE unusedRun + 1
          /\ index' = IF hit THEN index ELSE index + 1
    /\ UNCHANGED <<used, before, phase, role, chains, accounts>>

\* One iteration of scanChain: derive the address at index and look it up.
Lookup ==
    /\ phase = "scan"
    /\ unusedRun < GapLimit
    /\ LET hit == <<Account, role, index>> \in used
       IN /\ unusedRun' = IF hit THEN 0 ELSE unusedRun + 1
          /\ chains' = [chains EXCEPT
                ![role] = [length |-> @.length + 1,
                           used |-> IF hit THEN @.used \cup {index} ELSE @.used]]
    /\ index' = index + 1
    /\ UNCHANGED <<used, before, phase, role, accounts>>

\* The lookup throws, and with it the discovery.
LookupFails ==
    /\ phase = "scan"
    /\ unusedRun < GapLimit
    /\ phase' = "failed"
    /\ UNCHANGED <<used, before, role, index, unusedRun, chains, accounts>>

\* scanChain returns the external chain; the change chain follows.
ExternalScanned ==
    /\ phase = "scan"
    /\ unusedRun = GapLimit
    /\ role = 0
    /\ role' = 1
    /\ index' = 0
    /\ unusedRun' = 0
    /\ UNCHANGED <<used, before, phase, chains, accounts>>

\* Mutant of IsActive: only the external chain counts.
IsActiveExternal(account) == account[0].used # {}

IsActive(account) == \E r \in Roles : account[r].used # {}

\* scanAccount returns.  Account 0 is always kept, another one only if it is
\* active; the first that is not ends the discovery.
AccountScanned ==
    /\ phase = "scan"
    /\ unusedRun = GapLimit
    /\ role = 1
    /\ accounts' = IF Account = 0 \/ IsActive(chains)
                   THEN Append(accounts, chains) ELSE accounts
    /\ phase' = IF IsActive(chains) /\ Account + 1 < MaxAccounts
                THEN "scan" ELSE "done"
    /\ role' = 0
    /\ index' = 0
    /\ unusedRun' = 0
    /\ chains' = NoChains
    /\ UNCHANGED <<used, before>>

Scan == Lookup \/ ExternalScanned \/ AccountScanned

HdNext == Scan \/ LookupFails \/ \E a \in Addresses : Use(a)

HdSpec == HdInit /\ [][HdNext]_hdVars

\* A lookup is answered or throws, and the event loop goes on; none has to fail.
HdFairSpec == HdSpec /\ WF_hdVars(Scan)

-----------------------------------------------------------------------------
(* Properties.                                                             *)

\* The wallet kept to the gap: every run of gapLimit addresses below a used one
\* has a used one, every account below a used one is used, and the accounts are
\* within the cap.
GapKept ==
    \A a \in AccountIds, r \in Roles, i \in Indexes : <<a, r, i>> \in before =>
        /\ a < MaxAccounts
        /\ \A k \in 0 .. i - GapLimit :
              \E j \in k .. k + GapLimit - 1 : <<a, r, j>> \in before
        /\ \A b \in 0 .. a - 1 : \E s \in Roles, j \in Indexes : <<b, s, j>> \in before

\* If the wallet kept to the gap, every address used before the discovery began
\* is found, whatever is used while it runs.
FindsAllUsed ==
    phase = "done" /\ GapKept =>
        \A a \in AccountIds, r \in Roles, i \in Indexes : <<a, r, i>> \in before =>
            a < Len(accounts) /\ i \in accounts[a + 1][r].used

\* "The returned list includes the trailing gap (so the next unused slot is
\* discoverable)" (hd_wallet.dart:136-137): each chain ends in gapLimit unused
\* addresses, so nextReceiveAddress finds one and its fallback is never taken.
TrailingGap ==
    \A n \in DOMAIN accounts, r \in Roles :
        LET chain == accounts[n][r]
        IN /\ chain.length >= GapLimit
           /\ \A i \in chain.length - GapLimit .. chain.length - 1 : i \notin chain.used

\* No more accounts than the cap, and none of them empty but a lone account 0.
OnlyActiveAccounts ==
    /\ Len(accounts) <= MaxAccounts
    /\ Len(accounts) > 1 => \A n \in DOMAIN accounts : IsActive(accounts[n])

\* The discovery ends: addresses are used finitely often, and each chain ends
\* gapLimit lookups after the last of them.
DiscoveryEnds == <>(phase # "scan")

-----------------------------------------------------------------------------
(* The inductive invariant.                                                *)

\* What has been looked up of chain r of account a: no address that was used
\* before the discovery has been missed.
Looked(chain, a, r) ==
    /\ chain.used \subseteq 0 .. chain.length - 1
    /\ \A i \in 0 .. chain.length - 1 : <<a, r, i>> \in before => i \in chain.used

\* The last run addresses of the chain are unused.
UnusedTail(chain, run) ==
    /\ run <= chain.length
    /\ \A i \in chain.length - run .. chain.length - 1 : i \notin chain.used

\* Chain r of account a has been scanned to its end.
Scanned(chain, a, r) == Looked(chain, a, r) /\ UnusedTail(chain, GapLimit)

CurrentInv ==
    /\ index = chains[role].length
    /\ Looked(chains[role], Account, role)
    /\ UnusedTail(chains[role], unusedRun)
    /\ role = 0 => chains[1] = NoChain
    /\ role = 1 => Scanned(chains[0], Account, 0)

AccountsInv ==
    /\ \A n \in DOMAIN accounts, r \in Roles : Scanned(accounts[n][r], n - 1, r)
    /\ phase = "scan" => Account < MaxAccounts /\ \A n \in DOMAIN accounts : IsActive(accounts[n])
    /\ OnlyActiveAccounts

\* Why the discovery ended: at the cap, or at an account that had no used
\* address within the gap.
StopInv ==
    phase = "done" /\ Len(accounts) # MaxAccounts /\ GapKept =>
        \E b \in {0, Len(accounts)} :
            \A r \in Roles, i \in Indexes : <<b, r, i>> \notin before

HdInv == HdTypeOK /\ CurrentInv /\ AccountsInv /\ StopInv

=============================================================================
