SPECIFICATION Spec
CONSTANTS
    Keys = {"k1", "k2"}
    Values = {"v1", "v2"}
    Ttls = {0, 2}
    NoTtl = NoTtl
    DefaultTtl = NoTtl
    MaxClock = 4
INVARIANTS TypeOK
PROPERTIES KeepsPromise
