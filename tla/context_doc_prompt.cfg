SPECIFICATION Spec
CONSTANTS
    Chats = {c1, c2}
    Tools = {t1}
    WindowSize = 5
    PromptTokens = 2
    Overhead = 1
    MinAvailable = 8
    Enabled = TRUE
    MinTurns = 2
    MaxSummary = 3
    MinSummary = 1
    Sizes = {2}
    CallCounts = {1, 2}
    MaxMessages = 9
SYMMETRY ChatSymmetry
INVARIANTS SystemPromptSent
CHECK_DEADLOCK FALSE
