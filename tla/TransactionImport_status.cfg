\* One import, cut off while the start of its response waits to be written.
CONSTANTS
    r1 = r1
    r2 = r2
    w1 = w1
    w2 = w2
    Requests <- OneRequest
    Calls <- OneRequest
    Workers <- TwoWorkers
    Kinds <- SomeKinds
    MaxRetries = 1
    MaxTaskRetries = 1
    MaxLosses = 0
SPECIFICATION Spec
INVARIANT LoggedAsSent
CHECK_DEADLOCK FALSE
