\* Three accounts, two of which the cap lets be scanned; a gap of two; any
\* three addresses used before the discovery and one more while it runs.
CONSTANTS
    AccountIds = {0, 1, 2}
    Indexes = {0, 1, 2, 3}
    GapLimit = 2
    MaxAccounts = 2
    MaxInitial = 3
    MaxUses = 1
SPECIFICATION HdFairSpec
INVARIANTS HdInv FindsAllUsed TrailingGap
PROPERTY DiscoveryEnds
CHECK_DEADLOCK FALSE
