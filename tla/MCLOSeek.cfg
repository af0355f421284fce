SPECIFICATION Spec
CONSTANTS
    MAX_BUFFER_SIZE = 2
    Bytes <- Letters
    MaxLen = 4
    Sizes <- SmallSizes
    Offsets <- Whereabouts
    Whences = {"SEEK_SET", "SEEK_CUR", "SEEK_END"}
    Holes = FALSE
PROPERTY
    IsFile
