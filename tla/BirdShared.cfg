CONSTANTS
    p1 = p1
    p2 = p2
    b1 = b1
    b2 = b2
    b3 = b3
    n1 = n1
    NoPid = NoPid
    Empty = Empty
    Garbled = Garbled
    Adds <- TwoAdds
    Pids <- ThreePids
    Others <- OneOther
    MaxFaults = 1
SPECIFICATION FairSpec
INVARIANTS TypeOK KnowsEarlierNodes
PROPERTIES BirdComesBack AddsKeepSucceeding
CHECK_DEADLOCK FALSE
