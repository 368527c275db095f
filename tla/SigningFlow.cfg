SPECIFICATION Spec
CONSTANTS
    Half = 8
    Devices = {"ledger1", "ledger2"}
    Owner = "ledger1"
    Bodies <- MCBodies
    PathLists <- MCPathLists
    Accounts = {0, 1}
    Payloads <- MCPayloads
    None = None
    MaxMade = 2
INVARIANTS Inv CompleteIsAccepted VerifiedMeansSigned
CHECK_DEADLOCK FALSE
