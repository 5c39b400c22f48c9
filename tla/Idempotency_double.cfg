\* Three attempts: the first may be cut short, two others retry at once.
CONSTANTS
    None = None
    r1 = r1
    r2 = r2
    r3 = r3
    Requests <- ThreeRequests
    Payload <- SamePayload
    Faulty = {r1}
    Punctual = TRUE
    Lease = 1
    Retention = 2
    MaxTime = 3
SPECIFICATION Spec
INVARIANT ExecutedOnce
