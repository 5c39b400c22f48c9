\* Three attempts, none cut short, every holder punctual.
CONSTANTS
    None = None
    r1 = r1
    r2 = r2
    r3 = r3
    Requests <- ThreeRequests
    Payload <- SamePayload
    Faulty = {}
    Punctual = TRUE
    Lease = 2
    Retention = 2
    MaxTime = 3
SPECIFICATION Spec
INVARIANT ExecutedOnce
PROPERTIES CompletedKept ImplementsOncePerKey
SYMMETRY RequestSymmetry
