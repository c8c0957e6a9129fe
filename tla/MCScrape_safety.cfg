SPECIFICATION ScrapeSpec
CONSTANTS
    gpu = gpu
    render = render
    podCg = podCg
    hostCg = hostCg
    info = info
    NoPod = NoPod
    Devices = {gpu}
    Nodes = {render}
    DriverOf <- MCDriverOf
    NodesOf <- MCNodesOf
    Cgroups = {podCg, hostCg}
    Infos = {info}
    Owner <- MCOwner
    Requests <- MCPodRequests
    Cpus = {c1, c2}
    RingCap = 1
    MaxDevices = 1
    MaxIoctls = 3
    MaxCalls = 2
    QueueSize = 1
    Handlers = {h1, h2}
INVARIANTS
    ScrapeBetween
PROPERTIES
    ScrapesMonotone
SYMMETRY ScrapeSymmetry
CHECK_DEADLOCK FALSE
