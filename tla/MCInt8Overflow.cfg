SPECIFICATION ArraySpec
CONSTANTS
    SHORT_BIT = 3
    LONG_BIT = 6
    LONG_LONG_BIT = 6
    RADIX = 4
    Scales = {0, 1, 2, 3}
    Precisions = {0, 1, 2, 3}
    Operands <- MCOperands
    Bases <- MCBases
    Exponents <- MCExponents
    Moduli <- MCModuli
    Literals10 <- MCLiterals10
    Amounts <- MCAmounts
    BooleanTexts <- MCBooleanTexts
    VersionTexts <- MCVersionTexts
    VersionNumbers <- MCVersionNumbers
    Strings <- MCStrings
    Arrays <- MCArrays
    Numerics <- MCNumerics
INVARIANT Int8Exact
