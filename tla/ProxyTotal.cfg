SPECIFICATION Spec
CONSTANTS
    UdpTask = {u1}
    TcpTask = {t1}
    MaxConnections = 1
    ChannelCapacity = 1
INVARIANT TotalBound
