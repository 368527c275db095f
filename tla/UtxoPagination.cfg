\* Six outputs and pages of two: three full pages, spends and rollbacks anywhere.
CONSTANTS
    Utxos = {1, 2, 3, 4, 5, 6}
    PageSize = 2
    MaxSpends = 3
    MaxReorgs = 1
SPECIFICATION FairSpec
INVARIANTS Inv NoDuplicates
PROPERTIES Snapshot MissedAtMostSpends Terminates
CHECK_DEADLOCK FALSE
