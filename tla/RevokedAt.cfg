SPECIFICATION FairSpec
CONSTANTS
    kp = kp
    ku = ku
    Keys = {ku}
    Custody <- MCCustody
    Requests = {r1, r2, r3, r4}
    LastTime = 1
    Batch = 1
    MaxFaults = 0
PROPERTY RevokedAtStable
