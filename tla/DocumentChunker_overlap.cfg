SPECIFICATION ChunkSpec
CONSTANTS
    MaxText = 5
    MaxUnits = 4
    CHUNK_SIZE = 3
    MIN_CHUNK_SIZE = 2
    OVERLAPS = {0, 1}
    REACH = 1
PROPERTY ChunkingEnds
CHECK_DEADLOCK FALSE
