SPECIFICATION NodeSpec
CONSTANTS
    gpu = gpu
    render = render
    zero = zero
    web = web
    odd = odd
    info = info
    NoPod = NoPod
    Devices = {gpu}
    Nodes = {render}
    DriverOf <- MCDriverOf
    NodesOf <- MCNodesOf
    Cgroups = {zero, web}
    Infos = {info}
    Owner <- MCOwner
    Requests <- MCRequests
    Cpus = {c1}
    RingCap = 1
    MaxDevices = 1
    MaxIoctls = 3
    MaxCalls = 2
    QueueSize = 1
    HexIds = {"a1"}
    Sandboxes = {}
    PathOf <- MCPathOf
    NamesOf <- MCNamesOf
    Zero = zero
    Interval = 1
    CacheTTL = 1
    CriTimeout = 1
    MaxTime = 2
PROPERTIES
    ImplementsAgent
    DropOnlyYoung
CHECK_DEADLOCK FALSE
