SPECIFICATION PodMapSpec
CONSTANTS
    zero = zero
    web = web
    job = job
    odd = odd
    pause = pause
    info = info
    NoPod = NoPod
    Zero = zero
    Cgroups = {zero, web}
    HexIds = {"a1"}
    Sandboxes = {}
    Infos = {info}
    PathOf <- MCPathOf
    Owner <- MCOwner
    NamesOf <- MCNamesOf
    Interval = 2
    CacheTTL = 2
    CriTimeout = 1
    MaxTime = 4
INVARIANTS
    PickedUpWithinOneEvent
