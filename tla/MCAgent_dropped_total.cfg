SPECIFICATION Spec
CONSTANTS
    gpu = gpu
    npu = npu
    other = other
    card = card
    render = render
    accel = accel
    alien = alien
    podCg = podCg
    hostCg = hostCg
    info = info
    NoPod = NoPod
    Devices <- MCDevices
    Nodes <- MCNodes
    DriverOf <- MCDriverOf
    NodesOf <- MCNodesOf
    Cgroups <- MCCgroups
    Infos <- MCInfos
    Owner <- MCOwner
    Requests <- MCFewRequests
    Cpus = {c1, c2}
    RingCap = 1
    MaxDevices = 3
    MaxIoctls = 7
    MaxCalls = 2
    QueueSize = 1
INVARIANTS
    DroppedTotal
SYMMETRY CpuSymmetry
CHECK_DEADLOCK FALSE
