SPECIFICATION Spec
CONSTANTS
    Runners = {r1}
    Schedulers = {s1}
    Operators = {o1}
    NoPid = nopid
    Lease = 2
    Interval = 1
    MaxErrors = 2
    Setups <- MCSetups
INVARIANT TypeOK
PROPERTIES KillStands LoopsEnd KillEndsRun CrashedClaimLapses LoneLoopRuns
