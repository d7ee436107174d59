SPECIFICATION FairSpec
CONSTANTS
    Requests = {r1, r2, r3}
    Misfits = {r1}
    Slots = {s1}
    NoSlot = NoSlot
    None = None
    RailSets = {{"crossmint"}, {"crossmint", "tempo"}}
    MaxFaults = 1
INVARIANT TypeOK
INVARIANT RacersAgree
INVARIANT GroupIsWhole
INVARIANT OrphanHasWinner
PROPERTY EveryoneAnswered
