SPECIFICATION Spec
CONSTANTS
    Names = {"plain", "raw"}
    NonUtf8 = {"raw"}
    LongName = "long"
    Malformed = "malformed"
    OtherHex = "other"
    KeyDeposit = 2
    MinFee = 1
    ChangeFee = 1
    MinAda = 1
    TokenMinAda = 2
    MaxCoin = 20
    MinInt <- MCMinInt
    MaxText = 4
    MaxTxSize = 7
    MaxValSize = 2
    ExpirySlot = 0
    Screens = {s1, s2}
    Asks <- MCAsks
    Wallet <- MCWallet
    NoReceipt = NoReceipt
    MaxTxs = 3
    MaxRewards = 1
    MaxSlot = 1
SYMMETRY MCSymmetry
INVARIANTS Inv RefusedOnlyByTheChain ErrorsAreHonest
PROPERTY BooksSpec
