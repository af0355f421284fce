SPECIFICATION Spec
CONSTANTS
    Sizes <- SmallSizes
    Counts <- SmallCounts
    OtherStatements = TRUE
INVARIANTS
    TypeOK
    ResultInStep
    RowcountCountsRows
PROPERTY
    IsStream
