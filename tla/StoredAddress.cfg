SPECIFICATION Spec
CONSTANTS
    Requests = {r1, r2}
    Misfits = {}
    Slots = {s1}
    NoSlot = NoSlot
    None = None
    RailSets = {{"crossmint"}, {"crossmint", "tempo"}}
    MaxFaults = 0
INVARIANT StoredAddressIsDerived
