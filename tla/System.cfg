SPECIFICATION Spec
CONSTANTS
    Accounts = {alice}
    Dids = {d1}
    SorobanDids = {d1}
    AccountOf <- MCAccountOf
    Hashes = {h1}
    ZeroHash = h0
    MaxVersion = 0
    Registries = {live, other}
    LiveRegistry = live
    Amounts <- MCAmounts
    Credits <- MCNone
    Windows = {1}
    Scores <- MCNone
    MetadataKeys = {k1}
    MaxTimestamp = 2
    MaxAgreements = 1
PROPERTIES ImplementsOpenContract RevokedFundedIsStuck
CHECK_DEADLOCK FALSE
