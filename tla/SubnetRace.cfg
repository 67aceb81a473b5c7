SPECIFICATION Spec
CONSTANTS
    h1 = h1
    h2 = h2
    h3 = h3
    p1 = p1
    p2 = p2
    p3 = p3
    Procs = {p1, p2, p3}
    NoNet = NoNet
    NoHost = NoHost
    Hosts = {h1, h2}
    HostOf <- TwoAndOne
    Nets <- TenNets
    B = 4
    Subnet <- TenSubnet
    Mask = 16
    RangeStart <- LowAddress
    RangeEnd <- LowAddress
    Ranged = FALSE
    Overlap <- AnyOverlap
    MaxFails = 0
INVARIANTS
    NetworksDistinct
