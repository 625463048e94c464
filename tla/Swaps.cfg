SPECIFICATION Spec
CONSTANTS
    Near = c
    Far = d
    Counters <- MCCounters
    Amount = 200
    Slippage = 2
    MinProfit = 2
    Premiums <- MCPremiums
    Hops <- MCHops
    Detours <- MCDetours
    MaxScans = 2
    MaxCommands = 1
    MaxMoves = 2
    MaxDeposits = 1
    MaxFaults = 2
    Faults = {"error", "timeout", "reset"}
INVARIANTS ReportsTrue RoundTripsEndFlat LimitsHold
PROPERTIES CommandsEnd
CHECK_DEADLOCK FALSE
