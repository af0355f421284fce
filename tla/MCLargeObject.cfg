SPECIFICATION Spec
CONSTANTS
    MAX_BUFFER_SIZE = 2
    Bytes <- Letters
    MaxLen = 4
    Sizes <- SmallSizes
    Offsets <- Ahead
    Whences = {"SEEK_SET"}
    Holes = FALSE
INVARIANTS
    TypeOK
    BufferAligned
    BufferCoherent
PROPERTY
    IsFile
