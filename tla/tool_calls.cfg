SPECIFICATION FairCalls
CONSTANTS
    b1 = b1
    d1 = d1
    Batches = {b1}
    MaxBatch = 2
    Tools = {"execute_command", "create_file_folder", "write_file",
             "read_file", "web_search"}
    Keys = {"long", "short", "create", "mkdir", "write", "append", "read",
            "search"}
    ToolOf <- MCToolOf
    BatchInputs <- MCBatches
    Contents = {"text"}
    Failures = {"timeout", "exception"}
    MaxRetries = 1
    Parallel = TRUE
    EnableCache = FALSE
    MaxClears = 0
    Direct = {d1}
    Limit = 1
    Schema <- MCSchema
    Required = {"command"}
    Givens <- MCGivens
    Callers <- MCCallers
    MaxRuns = 2
    Absent = Absent
    Directory = Directory
    Old = Old
    AskOf <- MCAskOf
    TimeoutOf <- MCTimeoutOf
    ToolTimeout = 30
    DirectAsk <- MCDirectAsk
INVARIANTS ToolsTypeOK ExecutorCommands DirectCommands
PROPERTIES FilesAccounted CallsEnd
CHECK_DEADLOCK FALSE
