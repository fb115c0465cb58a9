SPECIFICATION Spec
CONSTANTS
    UdpTask = {u1, u2}
    TcpTask = {t1, t2}
    MaxConnections = 1
    ChannelCapacity = 1
PROPERTY RefusedOnlyWhenBusy
