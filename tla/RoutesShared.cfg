CONSTANTS
    h1 = h1
    h2 = h2
    a = a
    b = b
    c = c
    Hosts <- TwoHosts
    Adds <- ThreeAdds
    HostOf <- TwoAndOne
    MaxAddresses = 2
SPECIFICATION FairSpec
INVARIANTS TypeOK UpMeansConnected
PROPERTY EveryAddSucceeds
