SPECIFICATION FairChannelSpec
CONSTANTS
    a = a  b = b  c = c
    NoOne = NoOne
    Participants = {a, b, c}
    Mortal = {b}
    Adopters = {b, c}
    Removers = {a, b}
    Persistent = {a}
    MaxGeneration = 2
    MaxSends = 1
CONSTRAINTS CreatorIsA OneDirectionAtATime
CHECK_DEADLOCK FALSE
INVARIANTS OneHolder RemovedIsAlone RemovedIsDrained
PROPERTIES ClosedIsRemovable PortAdmitsOnce
