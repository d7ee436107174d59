SPECIFICATION Spec
CONSTANTS
    g1 = g1
    g2 = g2
    k1 = k1
    k2 = k2
    k3 = k3
    k4 = k4
    Signups = {g1, g2}
    Emails = {m1, m2}
    Keys = {k1, k2, k3, k4, k5}
    Minted <- MCMinted
    NoKey = NoKey
    Requests = {r1, r2}
    None = None
    GatewayEnv = "live"
    Limit = 1
    TTL = 1
    LastMinute = 1
    MaxFaults = 1
SYMMETRY MCSymmetry
INVARIANT TypeOK
INVARIANT AccountIsWhole
INVARIANT RateWithinLimit
INVARIANT RefusalIsEarned
PROPERTY RevocationIsFinal
PROPERTY NoAuthAfterRevoke
