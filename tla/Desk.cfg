SPECIFICATION Spec
CONSTANTS
    q1 = q1
    q2 = q2
    c1 = c1
    t1 = t1
    t2 = t2
    Requests = {q1, q2}
    Commands = {c1}
    Tabs = {t1, t2}
    Loops = {l1, l2}
    NoLoop = noloop
    Networks = {"testnet", "mainnet"}
    Modes <- MCModes
    Home = "testnet"
    MaxEnds = 1
INVARIANTS RunnersInReach DeskConsistent
PROPERTIES DeletedForGood DeskSettles
CHECK_DEADLOCK FALSE
