CONSTANTS
    Entries = {1, 2, 3}
    Assets = {"a", "b"}
    CoinVals <- MCCoins
    QtyVals = {0, 2}
    TargetCoins = {1000000, 3000000}
    TargetQtys = {0, 1, 3}
    OutputCounts = {0, 1}
    MinFeeA = 44
    MinFeeB = 155381
    CoinsPerByte = 4310
    MaxInputs = 3
    MaxU64 = 1000000000
SPECIFICATION Spec
INVARIANT UncoveredAssetIsError
CHECK_DEADLOCK FALSE
