SPECIFICATION Spec
CONSTANTS
    s1 = s1
    s2 = s2
    p1 = p1
    p2 = p2
    key = key
    unkeyed = p2
    Sends = {s1, s2}
    Prepares = {}
    Submits = {}
    IdemKey <- MCIdemKey
    NoKey = NoKey
    Amount <- MCAmount
    Cap = 3
    LastDay = 1
    MaxFaults = 0
    NoTx = NoTx
INVARIANT OneChargePerKey
