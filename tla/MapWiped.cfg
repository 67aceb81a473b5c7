CONSTANTS
    n1 = n1
    n2 = n2
    a = a
    b = b
    c = c
    NoNode = NoNode
    Nodes <- TwoNodes
    Pods <- ThreePods
    NodeOf <- TwoAndOne
    MaxEntries = 3
    MaxWrites = 2
    MaxFaults = 0
SPECIFICATION Spec
INVARIANT MirrorsCluster
CHECK_DEADLOCK FALSE
