CONSTANTS
    g1 = g1
    g2 = g2
    Goroutines <- TwoGoroutines
    MaxNested = 2
SPECIFICATION FairSpec
INVARIANTS TypeOK AloneSound
PROPERTIES AloneReturns
CHECK_DEADLOCK FALSE
