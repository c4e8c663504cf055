SPECIFICATION SignalsSpec
CONSTANTS
    a = a  b = b  p1 = p1  p2 = p2  c1 = c1  c2 = c2  k1 = k1  k2 = k2
    NoOne = NoOne
    Participants = {a, b}
    Producers = {p1}
    Consumers = {c1, c2}
    Closers = {k1, k2}
    Reapers = {}
    OwnerOf <- MCOwnerOf
    FirstHolder <- MCFirstHolder
    Finisher <- MCFinisher
    Capacity = 1
    Mortal = {}
    MaxPos = 2
    Canceling = {p1}
    Closing = {"recv"}
CONSTRAINT OneDisturbance
CHECK_DEADLOCK FALSE
INVARIANTS NoLostPublication
PROPERTIES EveryPositionIsClaimed SendersAreWoken
