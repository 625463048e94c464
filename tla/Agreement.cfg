SPECIFICATION Spec
CONSTANTS
    Accounts = {alice, bob}
    Dids = {d1}
    Hashes = {h1, h2}
    ZeroHash = h0
    Registries = {live}
    LiveRegistry = live
    Amounts <- MCAmounts
    Credits <- MCCredits
    Windows = {0, 1}
    Scores <- MCScores
    MetadataKeys = {}
    MaxTimestamp = 2
    MaxAgreements = 1
INVARIANTS LayersComplete CollateralAccounted WindowOutlivesExecution
PROPERTIES FundingFreezesTerms ClosedIsFinal SettlementPath ExpiredFundedIsStuck
SYMMETRY MCSymmetry
CHECK_DEADLOCK FALSE
