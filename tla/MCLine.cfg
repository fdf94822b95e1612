SPECIFICATION Spec
CONSTANTS
    OutOfMemory = FALSE
    Literal <- MCLiteral
    XValue <- MCXValue
    Dotted <- MCDotted
    HexDigit <- MCHexDigit
    Ascii <- MCAscii
    Leftover <- MCLeftover
    Written <- MCWritten
INVARIANTS
    TypeOK
    FillsItsSize
    ReadAsWritten
    MisreadBehindNames
    EncodesMeaning
    LoadsUnlessBitEleven
    MalformedDiagnosed
    CsrAddressed
    OverreadExactly
    StringFits
CHECK_DEADLOCK FALSE
