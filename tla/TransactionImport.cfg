CONSTANTS
    r1 = r1
    r2 = r2
    w1 = w1
    w2 = w2
    Requests <- TwoRequests
    Calls <- TwoRequests
    Workers <- TwoWorkers
    Kinds <- SomeKinds
    MaxRetries = 1
    MaxTaskRetries = 1
    MaxLosses = 1
SPECIFICATION FairSpec
INVARIANTS OneResponse LoggedOnce AnswerTellsWhetherQueued AcceptedNotLost
PROPERTIES AcceptedIsSettled EveryRequestEnds
CHECK_DEADLOCK FALSE
