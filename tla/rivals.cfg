\* Two servers and the outside world on one lab of one container.
SPECIFICATION Spec
CONSTANTS
    tA = tA
    tB = tB
    leafA = leafA
    hostA = hostA
    swB = swB
    xA = xA
    xB = xB
    xC = xC
    Servers = {s1, s2}
    Topologies = {tA}
    Nodes = {hostA}
    Home <- HostHome
    Kind <- HostKind
    Prefix <- HostPrefix
    Addrs = {ip1, ip2}
    NoAddr = NoAddr
    MaxEpoch = 2
    Names = {xA}
    Registry = {xA}
    TopoOf <- FabricTopo
    Missing = {}
    CallerIds = {r1}
    AutoIds = {}
    None = None
SYMMETRY Interchangeable
INVARIANTS
    EpochClaimedOnce
    
    ReadsNotStale
PROPERTIES
    ImplementsLedger
