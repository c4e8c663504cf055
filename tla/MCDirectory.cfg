SPECIFICATION DirectorySpec
CONSTANTS
    s1 = s1  s2 = s2  s3 = s3  s4 = s4
    None = None
    Slots = {s1, s2, s3}
    Mortal = {s1, s2}
    Workers = {s1, s2}
    HeapUsers = {s2}
    Reapers = {s3}
    MaxMember = 2
    Joined <- MCJoined
    SlabCapacity = 1
    MaxSlabs = 2
    x = x  y = y  z = z
    Blocks = {x, y}
    MaxGeneration = 2
    DebugAssertions = TRUE
CHECK_DEADLOCK FALSE
SYMMETRY SameBlocks
INVARIANTS HeapIsFenced FreedOnce StorageIsAccounted MappedIsBacked FreeSlotIsForgotten
PROPERTIES ImplementsRegistry
CONSTRAINT NoStaleAdmission
