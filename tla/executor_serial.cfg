SPECIFICATION FairSpec
CONSTANTS
    b1 = b1
    b2 = b2
    k1 = k1
    k2 = k2
    Batches = {b1}
    MaxBatch = 3
    Tools = {"calculator"}
    Keys = {k1, k2}
    ToolOf <- MCToolOf
    BatchInputs <- MCNoneThree
    Contents = {"x"}
    Failures = {"timeout", "exception"}
    MaxRetries = 1
    Parallel = FALSE
    EnableCache = TRUE
    MaxClears = 1
INVARIANTS SerialOrder
PROPERTIES KeepsPromise BatchTerminates
