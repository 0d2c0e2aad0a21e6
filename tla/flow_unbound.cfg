\* get_flow_records answers with no lab deployed.
SPECIFICATION Spec
CONSTANTS
    tA = tA
    tB = tB
    leafA = leafA
    hostA = hostA
    swB = swB
    xA = xA
    xB = xB
    xC = xC
    Servers = {s1}
    Topologies = {tA}
    Nodes = {hostA}
    Home <- HostHome
    Kind <- HostKind
    Prefix <- HostPrefix
    Addrs = {ip1}
    NoAddr = NoAddr
    MaxEpoch = 1
    Names = {xA}
    Registry = {xA}
    TopoOf <- FabricTopo
    Missing = {}
    CallerIds = {r1}
    AutoIds = {}
    None = None
INVARIANTS
    FlowNeedsDeployment
