SPECIFICATION Spec
CONSTANTS
    b1 = b1
    b2 = b2
    k1 = k1
    k2 = k2
    Batches = {b1, b2}
    MaxBatch = 2
    Tools = {"calculator"}
    Keys = {k1, k2}
    ToolOf <- MCToolOf
    BatchInputs <- MCOneTwo
    Contents = {"x"}
    Failures = {"timeout"}
    MaxRetries = 1
    Parallel = TRUE
    EnableCache = TRUE
    MaxClears = 1
INVARIANTS TypeOK AttemptBudget BatchAligned CacheProvenance
PROPERTIES NoEffectAfterReturn NoRepeatExecution
SYMMETRY Symmetry
