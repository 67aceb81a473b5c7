CONSTANTS
    n1 = n1
    n2 = n2
    a = a
    b = b
    c = c
    NoNode = NoNode
    Nodes <- TwoNodes
    Pods <- ThreePods
    NodeOf <- TwoAndOne
    MaxEntries = 2
    MaxWrites = 3
    MaxFaults = 1
SPECIFICATION FairSpec
INVARIANTS TypeOK MirrorsOnlyNode
PROPERTIES MapsEventCatchesUp EventsHandled WatcherStays
CHECK_DEADLOCK FALSE
