\* A screen left and a second one, two valid payments and one of the wrong
\* network, two outputs in all, up to two transactions and two edits.
CONSTANTS
    Screens = {s1, s2}
    Payments = {none, p, w}
    NoPayment = none
    WrongNet = {w}
    Assets = {noAsset}
    NoAsset = noAsset
    Coins = {1, 2}
    MaxInitial = 2
    MaxSends = 2
    MaxEdits = 2
SPECIFICATION Spec
INVARIANTS Inv NoOverlap PaysWhatWasConfirmed OnePaymentPerView ShowsTheTruth
PROPERTY LeavingCallsOff
CHECK_DEADLOCK FALSE
