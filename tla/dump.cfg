\* Two fields, two blocks, one repeated key, values that may be empty; few pairs.
SPECIFICATION Spec
CONSTANTS
    Fields = {f1, f2}
    Values = {v1, BlankLine}
    BlankLine = BlankLine
    BlockNames = {b1, b2}
    MaxRepeats = 1
    None = None
SYMMETRY Interchangeable
CONSTRAINT ShortDump
INVARIANTS
    DamageContained
    NothingCarriedOver
\* The script ends.
CHECK_DEADLOCK FALSE
