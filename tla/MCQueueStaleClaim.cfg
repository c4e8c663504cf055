SPECIFICATION Spec
CONSTANTS
    a = a  b = b  c = c  d = d  e = e
    p1 = p1  p2 = p2  c1 = c1  c2 = c2  e1 = e1  r1 = r1  r2 = r2  r3 = r3  k1 = k1
    NoOne = NoOne
    Participants = {a, b, c}
    Producers = {p1}
    Consumers = {c1, c2}
    Closers = {}
    Reapers = {r1}
    OwnerOf <- MCOwnerOf
    FirstHolder <- MCFirstHolder
    Capacity = 2
    Mortal = {b}
    MaxPos = 3
INVARIANTS CommittedStaysClaimable
SYMMETRY Interchangeable
