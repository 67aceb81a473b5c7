SPECIFICATION Spec
CONSTANTS
    Pods = {a, b}
    B = 8
    Last = 7
    IPRange <- NoRange
    HostGw = FALSE
    Serial = FALSE
    MaxErrors = 0
INVARIANTS
    PodIPsDistinct
