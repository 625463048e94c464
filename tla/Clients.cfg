SPECIFICATION Spec
CONSTANTS
    Terminals = {1, 2}
    MaxDids = 1
    MaxContracts = 2
    MaxAgreements = 2
    MaxCommands = 2
    MaxOthers = 1
    MaxFaults = 1
    MaxKills = 1
INVARIANTS ReportsTrue ConfigKept
PROPERTIES CommandsEnd
CHECK_DEADLOCK FALSE
