\* A client without an owner serving two requests, and one with a configuration.
SPECIFICATION ConfSpec
CONSTANTS
    Requests = {r1, r2}
    MaxHistory = 2
    Candidates = {c1, c2}
    MaxReceipts = 1
    MaxRevision = 2
    MaxServed = 1
INVARIANTS WorkAccounted OneResult
PROPERTIES CanceledStaysCanceled BeginsApproved RequestEnds
CHECK_DEADLOCK FALSE
