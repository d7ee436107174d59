SPECIFICATION Spec
CONSTANTS
    q1 = q1
    q2 = q2
    N = 2
    Policies = {q1, q2}
    NoPolicy = NoPolicy
    FirstPolicy = q1
    StoredCap <- MCStoredCap
    CapDigits = 18
    PerTx <- MCPerTx
    NoPerTx = NoPerTx
    Blocked <- MCBlocked
    Recipients = {"alice", "mallory"}
    Expiry <- MCExpiry
    Amounts = {1, 2}
    LastDay = 1
    Buckets = {0, 1}
    Bucket <- MCBucket
    MaxFaults = 0
INVARIANT StoredCapEnforced
