CONSTANTS
    p1 = p1
    p2 = p2
    p3 = p3
    p4 = p4
    Pids <- FourPids
    NoPid = NoPid
    Empty = Empty
    MaxAdds = 2
    MaxFaults = 1
SPECIFICATION BusySpec
INVARIANT TypeOK
PROPERTIES OneWatcherSurvives AddsReturn DaemonComesBack
