CONSTANTS
    None = None
    c1 = c1
    c2 = c2
    old = old
    new = new
    Callers <- TwoCallers
    Hasty = {c1}
    Kids = {old, new}
    LastEdition = 2
    Published <- Rotation
    Ttl = 1
    Transit = 1
    MaxTime = 3
SPECIFICATION FairSpec
INVARIANT ResetAnswersTrue
PROPERTIES KeysNeverGoBack UnknownMeansUnpublished AcceptsOnlyRecentKeys EveryCallReturns
CHECK_DEADLOCK FALSE
