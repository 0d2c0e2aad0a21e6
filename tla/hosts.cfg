\* Two hosts with statistics of any shape.
SPECIFICATION Spec
CONSTANTS
    Hosts = {h1, h2}
    Keys <- ReceiveKeys
    Counts = {0, 1}
    Text = Text
    None = None
INVARIANTS
    NoDropHidden
    OmitNotZero
    ExactWhenOthersZero
\* The call ends.
CHECK_DEADLOCK FALSE
