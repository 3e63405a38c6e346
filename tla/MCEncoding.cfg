SPECIFICATION Spec
CONSTANTS
    Null = Null
    Width = 5
    IntWidth = 3
    ByteBits = 3
    Scalars = {0, 1, 2, 3, 9}
    Chunks <- MCChunks
INVARIANTS RoundTrip WithinPayload
