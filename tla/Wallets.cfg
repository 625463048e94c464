SPECIFICATION Spec
CONSTANTS
    Stellar = {a}
    External = {e}
    Processes = {p1, p2}
    Setups = {"upgraded", "crashes", "racing"}
    MaxRacing = 2
    MaxKills = 1
    Tabs = 1
    Nobody = Nobody
INVARIANTS WalletsConsistent SeedKept LockedCannotSign
PROPERTIES CommandsEnd
CHECK_DEADLOCK FALSE
