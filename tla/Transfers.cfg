SPECIFICATION Spec
CONSTANTS
    s1 = s1
    s2 = s2
    p1 = p1
    p2 = p2
    key = key
    unkeyed = s2
    Sends = {s1, s2}
    Prepares = {p1, p2}
    Submits = {u1, u2}
    IdemKey <- MCIdemKey
    NoKey = NoKey
    Amount <- MCAmount
    Cap = 2
    LastDay = 1
    MaxFaults = 1
    NoTx = NoTx
INVARIANT TypeOK
INVARIANT PaidWithinCap
INVARIANT RecordedWasAccepted
INVARIANT SameKeySameRow
SYMMETRY Symmetry
