\* A run of each script on a lab of one container.
SPECIFICATION Spec
CONSTANTS
    tA = tA
    leafA = leafA
    Step3Runs = {r1}
    TopologyRuns = {q1}
    CaptureRuns = {c1}
    Topo = tA
    Topologies = {tA}
    Nodes = {leafA}
    Home <- SmokeHome
    Kind <- SmokeKind
    Addrs = {ip1}
    NoAddr = NoAddr
    MaxEpoch = 3
INVARIANTS
    NothingLeftBehind
    FreshStart
    ReadsExplained
\* The scripts end.
CHECK_DEADLOCK FALSE
