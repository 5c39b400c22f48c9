\* Any call may be cut short, and an account may change its address.
CONSTANTS
    None = None
    c1 = c1
    c2 = c2
    c3 = c3
    q = q
    Calls <- FourCalls
    Op <- Ops
    Subjects <- TwoAccounts
    Subject <- ForAccount
    Emails <- Addresses
    Address <- FirstAddress
    MaxMoves = 2
SPECIFICATION FairSpec
INVARIANTS AnswersNameTheOwner ProvisionedWhole LoserMayRetry CirclesNeedMoves
PROPERTIES DeactivationSticks EveryCallEnds
