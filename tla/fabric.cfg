\* One server reading a lab of two containers, one of which an edit of its file replaces.
SPECIFICATION GraphSpec
CONSTANTS
    tA = tA
    leafA = leafA
    hostA = hostA
    spineA = spineA
    ghost = ghost
    xA = xA
    Servers = {s1}
    Topologies = {tA}
    Nodes = {leafA, spineA, hostA}
    Home <- FabricHome
    Kind <- FabricKind
    Prefix <- FabricPrefix
    Addrs = {ip1, ip2}
    NoAddr = NoAddr
    MaxEpoch = 2
    Names = {xA}
    Registry = {xA}
    TopoOf <- FabricTopo
    Missing = {}
    CallerIds = {r1}
    AutoIds = {}
    None = None
    MaxEdits = 2
    Endpoints <- FabricEndpoints
    Declares <- FabricDeclares
    Links <- FabricLinks
SYMMETRY Interchangeable
INVARIANTS
    AllOrNothing
    Attribution
    ReadyMeansUp
    CountedStaysListed
    LooseEndsExplained
    LinksNotOlder
PROPERTIES
    CallsSpareLabs
    CallsAdvance
