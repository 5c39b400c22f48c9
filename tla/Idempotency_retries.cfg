\* Three attempts, nobody's lease is renewed in time: the first may be cut short,
\* the second has another body, the third is a retry.
CONSTANTS
    None = None
    r1 = r1
    r2 = r2
    r3 = r3
    Requests <- ThreeRequests
    Payload <- OnePayloadDiffers
    Faulty = {r1}
    Punctual = FALSE
    Lease = 1
    Retention = 1
    MaxTime = 1
SPECIFICATION Spec
INVARIANTS ReplayIsGenuine CompletedRowIsReplayable RefusalLeavesNothing
PROPERTIES NeverReopened
