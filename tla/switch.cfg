\* Two ports; swss may restart once, and one reply may be lost.
SPECIFICATION Spec
CONSTANTS
    pA = pA
    pB = pB
    o1 = o1
    o2 = o2
    o3 = o3
    o4 = o4
    o5 = o5
    o6 = o6
    uc = uc
    Ports = {pA, pB}
    Queues <- TwoPortQueues
    Groups <- TwoPortGroups
    Columns = 2
    Oids = {o1, o2, o3, o4, o5, o6}
    Numberings <- TwoOrders
    Polled <- PortsApart
    States = {"up", "down", "testing"}
    Tables <- TwoTables
    MaxRestarts = 1
    MaxLost = 1
    None = None
INVARIANTS
    OwnCounters
    CompleteAnswer
\* The script ends.
CHECK_DEADLOCK FALSE
