\* A value with bit 11 set.
SPECIFICATION Spec
CONSTANTS
    OutOfMemory = FALSE
    Literal <- MCLiteral
    XValue <- MCXValue
    Dotted <- MCDotted
    HexDigit <- MCHexDigit
    Ascii <- MCAscii
    Leftover <- MCLeftover
    Written <- LoadLines
INVARIANT
    LoadsValue
CHECK_DEADLOCK FALSE
