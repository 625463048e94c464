SPECIFICATION Spec
CONSTANTS
    Issued = {"usdc", "ixlm"}
    Namesakes = {"ixlm"}
    Claims = {1, 2, 3}
    AssetOf <- MCAssetOf
    Holding = 3
    Prices = {1, 2}
    Wallets = {"key", "locked", "external"}
    MaxCommands = 2
    MaxOutside = 1
    MaxFaults = 1
INVARIANTS ReportsTrue OnePaymentPerFetch
PROPERTIES DeclinePaysByCode
CHECK_DEADLOCK FALSE
