CONSTANTS
    testnet = testnet
    mainnet = mainnet
    Networks = {testnet, mainnet}
    Words <- MCWords
    MaxWords = 2
    MaxPicks = 2
    MaxMessages = 5
    MaxShown = 2
    MaxMishaps = 1
SPECIFICATION Spec
PROPERTY ConfirmedOnce
CHECK_DEADLOCK FALSE
