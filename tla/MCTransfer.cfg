SPECIFICATION TransferSpec
CONSTANTS
    a = a  b = b  c = c  d = d  h1 = h1  h2 = h2  g1 = g1  g2 = g2
    NoOne = NoOne
    Participants = {a, b, c}
    Senders = {a}
    Receivers = {a, b}
    Reapers = {c}
    Blocks = {b1, b2}
    Handles = {h1, g1}
    Home <- MCHome
    Mortal = {a, b}
    MaxGeneration = 2
    Capacity = 2
    Scan <- PoolFirst
CHECK_DEADLOCK FALSE
INVARIANTS OwnedByOne EndedStaysEnded OneAuthority  EvidenceFits
PROPERTIES ImplementsPool
