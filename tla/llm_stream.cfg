SPECIFICATION Spec
CONSTANTS
    Ids = {"a", "b", "c"}
    Names = {"calculator"}
    Fragments = {"f", "g"}
    MaxCalls = 3
    MaxPieces = 2
    MaxText = 1
INVARIANTS TypeOK StreamAgrees
CHECK_DEADLOCK FALSE
