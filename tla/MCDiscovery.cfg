SPECIFICATION Spec
CONSTANTS
    gpu = gpu
    alien = alien
    npu = npu
    bare = bare
    byPath = byPath
    card0 = card0
    render0 = render0
    card1 = card1
    render1 = render1
    accel0 = accel0
    None = None
    Addrs = {gpu, alien, npu, bare}
    Files = {card0, render0, card1, render1, accel0}
    Others = {byPath}
    DirOf <- MCDirOf
    Layouts <- MCLayouts
    DriverOf <- MCDriverOf
    MaxDevices = 2
    MaxIoctls = 7
INVARIANTS
    TypeOK
    SteadyFound
    NodesDisjoint
    SteadyCounted
