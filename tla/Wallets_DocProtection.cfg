SPECIFICATION Spec
CONSTANTS
    Stellar = {a}
    External = {e}
    Processes = {p1}
    Setups = {"crashes"}
    MaxRacing = 0
    MaxKills = 1
    Tabs = 1
    Nobody = Nobody
INVARIANT NoHalfProtection
CHECK_DEADLOCK FALSE
