SPECIFICATION Spec
CONSTANTS
    s0 = s0
    s1 = s1
    Intents = {s0, s1}
    Side <- Sells
    Level <- Ranks
    Offset <- Spaced
    MakerOnly = {s1}
    Prices = {1, 2}
    MaxPrice = 2
    Amount = 2
    FundModes <- Funds
    CancelOrphans = TRUE
    MaxOpenTrades = 0
    FaultModes <- Modes
    NoOffer = NoOffer
    Manual = Manual
    MaxOffers = 5
    MaxTrades = 1
    MaxMoves = 1
    MaxMishaps = 1
INVARIANTS RecordsAgree FillsCounted
PROPERTIES LadderHeals
