SPECIFICATION Spec
CONSTANTS
    c1 = c1
    c2 = c2
    s1 = s1
    s2 = s2
    NoSession = NoSession
    Chats = {c1, c2}
    Sessions = {s1, s2}
    MaxDepth = 2
    MaxCalls = 1
    CallCounts = {2}
INVARIANTS SessionOrder
SYMMETRY Symmetry
