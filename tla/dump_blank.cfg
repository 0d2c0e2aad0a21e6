\* A value may be empty.
SPECIFICATION Spec
CONSTANTS
    Fields = {f1, f2}
    Values = {v1, BlankLine}
    BlankLine = BlankLine
    BlockNames = {b1, b2}
    MaxRepeats = 1
    None = None
SYMMETRY Interchangeable
INVARIANTS
    RoundTrip
\* The script ends.
CHECK_DEADLOCK FALSE
