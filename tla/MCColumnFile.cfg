SPECIFICATION Spec
CONSTANTS
    PayloadCapacity = 3
    HeaderSize = 2
    kChunkRows = 2
    Payloads = {1, 2, 4}
    MaxRows = 7
INVARIANTS ChunkBoundaries ReadsWhatWasWritten AtEndExact ReadsAllChunks
