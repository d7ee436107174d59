SPECIFICATION FairSpec
CONSTANTS
    Domain = {d1}
    Endpoints = {p1}
    Workers = {w1, w2}
    Admins = {a1, a2}
    MaxAttempts = 3
    PauseAfter = 2
    MaxFaults = 1
    NoRow = NoRow
    NoEvent = NoEvent
INVARIANT TypeOK
INVARIANT OneOwner
INVARIANT PostsBounded
INVARIANT StrandedByFaultOnly
PROPERTY SettledIsFinal
PROPERTY DeletedStaysSilent
PROPERTY EventuallySettled
