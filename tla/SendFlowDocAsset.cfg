\* One screen, one payment, with or without an asset.
CONSTANTS
    Screens = {s1}
    Payments = {none, p, q}
    NoPayment = none
    WrongNet = {}
    Assets = {noAsset, a}
    NoAsset = noAsset
    Coins = {1}
    MaxInitial = 1
    MaxSends = 1
    MaxEdits = 2
SPECIFICATION Spec
INVARIANT PaysConfirmedAsset
CHECK_DEADLOCK FALSE
