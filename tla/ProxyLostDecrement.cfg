SPECIFICATION Spec
CONSTANTS
    UdpTask = {}
    TcpTask = {t1, t2}
    MaxConnections = 2
    ChannelCapacity = 1
INVARIANT DecrementedAnyways
