\* rx_drops adds up more than drops.
SPECIFICATION Spec
CONSTANTS
    Hosts = {h1}
    Keys <- VethKeys
    Counts = {0, 1, 2}
    Text = Text
    None = None
INVARIANTS
    RxDropsAreDrops
\* The call ends.
CHECK_DEADLOCK FALSE
