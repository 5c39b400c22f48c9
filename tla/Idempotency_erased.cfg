\* Two attempts: the first may be cut short at any step, the second is its retry.
CONSTANTS
    None = None
    r1 = r1
    r2 = r2
    r3 = r3
    Requests <- TwoRequests
    Payload <- SamePayload
    Faulty = {r1}
    Punctual = TRUE
    Lease = 2
    Retention = 3
    MaxTime = 4
SPECIFICATION Spec
PROPERTY CompletedKept
