\* Requests, keys and callbacks on dictation; the panel; servers over one directory.
SPECIFICATION Spec
CONSTANTS
    Threads = {"wire", "keys", "ui"}
    MaxDepth = 3
    MaxCalls = 4
    Windows = {"w1", "w2"}
    Tokens = {"k1"}
    MaxTokens = 1
    LastContext = 2
    Servers = {"s1", "s2"}
    NoServer = "none"
    MaxIds = 2
    MaxSeen = 2
    MovingCalls = 3
    Casts = {{"wire", "keys", "world"}, {"wire", "ui", "world"}, {"keys", "ui"}, {"servers"}}
INVARIANTS ActedOnce DictationAccounted EndpointOwned
PROPERTIES CallsReturn
CHECK_DEADLOCK FALSE
