SPECIFICATION Spec
CONSTANTS
    Handles = {h1, h2}
    Programs <- SmallPrograms
    Lines <- TwoLines
    MAX_BUFFER_SIZE = 2
    MaxNotices = 2
INVARIANTS
    TypeOK
    NoticesInOrder
    ResultsOwned
    LinesWhole
PROPERTY
    CallsReturn
