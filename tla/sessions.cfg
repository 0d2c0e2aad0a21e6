\* One server, two topologies, three scenarios of which two share one.
SPECIFICATION FairSpec
CONSTANTS
    tA = tA
    tB = tB
    leafA = leafA
    hostA = hostA
    swB = swB
    xA = xA
    xB = xB
    xC = xC
    Servers = {s1}
    Topologies = {tA, tB}
    Nodes = {hostA, swB}
    Home <- BindHome
    Kind <- BindKind
    Prefix <- BindPrefix
    Addrs = {ip1, ip2}
    NoAddr = NoAddr
    MaxEpoch = 1
    Names = {xA, xB, xC, xD}
    Registry = {xA, xB, xC}
    TopoOf <- BindTopo
    Missing = {}
    CallerIds = {r1}
    AutoIds = {u1}
    None = None
INVARIANTS
    RunsMatchBinding
PROPERTIES
    CallsReturn
