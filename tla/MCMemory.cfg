SPECIFICATION MemorySpec
CONSTANTS
    p1 = p1
    p2 = p2
    Processes = {p1, p2}
    Plans <- MCPlans
    Valid = {"auto"}
    Mortal = {p1}
    Reapers = {p2}
    HeapUsers = {p1}
    Participants = 2
    MaxMember = 2
    Nobody = Nobody
    WordBits = 4
    Extent = 808
    Shape <- MCShape
    Origin = 1
    Requests <- MCRequests
    MaxBlocks = 2
    Extents = {640, 1000, 1024, 2047, 3000}
    HeadBytes = 144
    PoolExtents = {4000, 4608, 9000, 16384, 40000, 100000}
    PoolRanges <- MCRanges
    BlockSizes = {1, 63, 64, 65, 1000, 4096, 70000}
    BlockAligns = {1, 8, 128, 4096}
CONSTRAINT Usable
ACTION_CONSTRAINT Bounds
CHECK_DEADLOCK FALSE
INVARIANTS AttachedIsBuilt HoldersAreMembers FreeSlotIsClean HeapIsSound ExhaustedIsTruthful ClassesCover PoolIsSound
