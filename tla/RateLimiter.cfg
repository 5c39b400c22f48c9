\* One strict request may be cancelled inside the service, any in the limiter.
CONSTANTS
    None = None
    boot = boot
    down = down
    s1 = s1
    s2 = s2
    o1 = o1
    Callers <- LimitedCallers
    Op <- LimitedOps
    Strict <- StrictRequests
    Requests <- ThreeRequests
    Policy <- OnePolicy
    Hasty = {s1}
    Brittle = {boot}
    Cooldown = 1
    MaxTime = 2
SPECIFICATION FairSpecLimiter
INVARIANTS TiersFailTheirWay BuiltOnPublished
PROPERTIES OneBucketPerPolicy EveryRequestDecided
