SPECIFICATION Spec
CONSTANTS
    Offset <- MCOffset
    Names <- MCNames
    Starts <- MCStarts
    Span = 380
    Stride = 3
INVARIANT ResetEndsBucket
PROPERTY KeysOnlyAdvance
