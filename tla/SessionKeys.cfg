SPECIFICATION FairSpec
CONSTANTS
    kp = kp
    ku = ku
    Keys = {kp, ku}
    Custody <- MCCustody
    Requests = {r1, r2, r3}
    LastTime = 1
    Batch = 1
    MaxFaults = 1
INVARIANT TypeOK
INVARIANT ActiveKeyIsBacked
INVARIANT RevokeSticks
INVARIANT RevokedOnce
PROPERTY NoNewPaymentAfterRevoke
PROPERTY ExpiredIsSwept
