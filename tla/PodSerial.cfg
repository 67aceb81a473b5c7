SPECIFICATION FairSpec
CONSTANTS
    Pods = {a, b, c}
    B = 6
    Last = 7
    IPRange <- CarryRange
    HostGw = TRUE
    Serial = TRUE
    MaxErrors = 2
INVARIANTS
    TypeOK
    PodIPsDistinct
    FullMeansFull
    NoReservedAddress
PROPERTIES
    DirectoryKept
    AddEnds
