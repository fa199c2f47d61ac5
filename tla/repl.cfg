SPECIFICATION Spec
CONSTANTS
    Dirs = {"d1", "d2", "d3"}
    Forbidden = {"d3"}
    Names = {"openai", "anthropic", "other", "VAR"}
    Supported = {"openai", "anthropic"}
    Default = "openai"
    MaxSessions = 3
    MaxChats = 3
INVARIANTS TypeOK DirShown
PROPERTIES OneConversation
CHECK_DEADLOCK FALSE
