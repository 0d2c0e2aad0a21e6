\* Two labs that share the management network; one topology file is missing.
SPECIFICATION Spec
CONSTANTS
    tA = tA
    tB = tB
    leafA = leafA
    hostA = hostA
    swB = swB
    xA = xA
    xB = xB
    xC = xC
    Servers = {s1}
    Topologies = {tA, tB}
    Nodes = {leafA, hostA, swB}
    Home <- PairHome
    Kind <- PairKind
    Prefix <- PairPrefix
    Addrs = {ip1, ip2, ip3}
    NoAddr = NoAddr
    MaxEpoch = 1
    Names = {xA, xB}
    Registry = {xA, xB}
    TopoOf <- PairTopo
    Missing = {tB}
    CallerIds = {r1}
    AutoIds = {}
    None = None
INVARIANTS
    TypeOK
    Attribution
