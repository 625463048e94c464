SPECIFICATION Spec
CONSTANTS
    alice = alice
    Accounts = {alice, bob}
    Dids = {d1, d2}
    SorobanDids = {d1}
    AccountOf <- MCAccountOf
    Hashes = {h0, h1, h2}
    ZeroHash = h0
    MaxVersion = 1
INVARIANTS RegistryInv
PROPERTIES ImplementsLifecycle ControllerIsForever
CHECK_DEADLOCK FALSE
