CONSTANTS
    n1 = n1
    n2 = n2
    a = a
    b = b
    c = c
    Nodes <- TwoNodes
    Pods <- ThreePods
    NodeOf <- TwoAndOne
    MaxFails = 1
SPECIFICATION FairSpec
CHECK_DEADLOCK FALSE
INVARIANTS TypeOK GatewayThere LocalPodsReached PodsReached
 
