\* Three UTxOs around the thresholds and two assets, against a u64 of 4 500 000:
\* some sums fit, some are refused and some wrap.
CONSTANTS
    Entries = {1, 2, 3}
    Assets = {"a", "b"}
    CoinVals <- MCCoins
    QtyVals = {0, 2000000}
    TargetCoins = {1000000, 3815747, 5000000}
    TargetQtys = {0, 3000000, 6000000}
    OutputCounts = {0, 1, 2}
    MinFeeA = 44
    MinFeeB = 155381
    CoinsPerByte = 4310
    MaxInputs = 3
    MaxU64 = 4500000
SPECIFICATION Spec
INVARIANTS
    Inv
    CoinConserved
    AssetsConserved
    ChangeMeetsEstimate
    ShortestPrefix
    ErrorsAreHonest
CHECK_DEADLOCK FALSE
