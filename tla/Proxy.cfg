SPECIFICATION FairSpec
CONSTANTS
    UdpTask = {u1, u2}
    TcpTask = {t1}
    MaxConnections = 1
    ChannelCapacity = 1
INVARIANTS TypeOK AdmissionBound CountExact ResponseOnce
PROPERTIES ImplementsLimit QueryEnds
