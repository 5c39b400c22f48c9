\* Any caller but the stop may be cancelled at any await.
CONSTANTS
    None = None
    boot = boot
    lazy = lazy
    probe = probe
    down = down
    Callers <- OneOfEach
    Op <- Calls
    Hasty = {boot, lazy, probe}
    Brittle = {boot, lazy}
    Cooldown = 2
    MaxTime = 3
SPECIFICATION FairSpec
INVARIANTS StoppedForGood NoConnectionLost FailuresSpaced PublishedOnce
PROPERTIES EveryCallReturns StopReleasesAll
