SPECIFICATION LiveSpec
CONSTANTS
    k1 = k1
    k2 = k2
    i1 = i1
    i2 = i2
    Keys <- MCKeys
    NoKey = NoKey
    IPs <- MCIPs
    IpOf <- MCIpOf
    MaxSessions = 2
    MaxSessionsPerIP = 1
    MaxConcurrentSetups = 1
    Datagrams <- MCDatagrams
    MaxSetups = 2
    MaxConns = 2
    Hellos <- MCHellos
    MaxConcurrent = 1
    MaxArrivals = 2
CHECK_DEADLOCK FALSE
INVARIANTS
    ForwardersAccounted
    NoOrphanRelay
    StopLeavesNothing
PROPERTIES
    NobodyWaits
