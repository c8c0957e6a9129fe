SPECIFICATION FairScrapeSpec
CONSTANTS
    gpu = gpu
    render = render
    podCg = podCg
    hostCg = hostCg
    info = info
    NoPod = NoPod
    Devices = {gpu}
    Nodes = {render}
    DriverOf <- MCDriverOf
    NodesOf <- MCNodesOf
    Cgroups = {podCg, hostCg}
    Infos = {info}
    Owner <- MCOwner
    Requests <- MCPodRequests
    Cpus = {c1, c2}
    RingCap = 1
    MaxDevices = 1
    MaxIoctls = 3
    MaxCalls = 2
    QueueSize = 1
    Handlers = {h1}
PROPERTIES
    ReaderNeverWaits
    EventSettles
    SignalTerminates
CHECK_DEADLOCK FALSE
