SPECIFICATION FairSpec
CONSTANTS
    Puts = {u1, u2, u3}
    Bodies <- MCBodies
    Parsed <- MCParsed
    Checks = {c1}
    SessionKeys = {k1}
    Signup = Signup
    NoRow = NoRow
    NoKey = NoKey
    MaxFaults = 1
INVARIANT TypeOK
INVARIANT OneDefaultInForce
INVARIANT OneSuccessor
INVARIANT GovernedUnlessFault
PROPERTY EveryPutAnswered
