SPECIFICATION Spec
CONSTANTS
    a = a  b = b  c = c  d = d  e = e
    p1 = p1  p2 = p2  c1 = c1  c2 = c2  e1 = e1  r1 = r1  r2 = r2  r3 = r3  k1 = k1
    NoOne = NoOne
    Participants = {a, b, c, d, e}
    Producers = {p1}
    Consumers = {c1, e1}
    Closers = {}
    Reapers = {r1, r2}
    OwnerOf <- MCOwnerOf
    FirstHolder <- MCFirstHolder
    Capacity = 2
    Mortal = {a, b, c}
    MaxPos = 2
CHECK_DEADLOCK FALSE
INVARIANTS SlotExclusion RepairIsComplete
PROPERTIES RepairStoresOwnMark NoRedelivery ImplementsFifo
CONSTRAINT OneEndDies
