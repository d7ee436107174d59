SPECIFICATION Spec
CONSTANTS
    q1 = q1
    q2 = q2
    N = 2
    Policies = {q1, q2}
    NoPolicy = NoPolicy
    FirstPolicy = q1
    StoredCap <- MCStoredCap
    CapDigits = 6
    PerTx <- MCPerTx
    NoPerTx = NoPerTx
    Blocked <- MCBlocked
    Recipients = {"alice", "mallory"}
    Expiry <- MCExpiry
    Amounts = {1, 2}
    LastDay = 1
    Buckets = {0, 1}
    Bucket <- MCBucket
    MaxFaults = 1
INVARIANT TypeOK
INVARIANT CapWhileOpen
INVARIANT CounterCoversSpent
INVARIANT DeniedLeavesNoTrace
PROPERTY ImplementsBudget
