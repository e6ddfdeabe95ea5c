\* A rejected pktinfo leaves clientAddrInfo stale for later packets.
CONSTANTS
    CSIDs = {s1, s2}
    ClientAddrs = {a1, a2}
    Pktinfos = {i1, i2}
    BadPktinfos = {i2}
    NoClient = NoClient
    SendChannelCapacity = 1
    MaxSessions = 1
    MaxPackets = 3

SPECIFICATION Spec
PROPERTY RepliesGoToLatestClient
\* The relay stops for good once Stop has returned and every goroutine exited.
CHECK_DEADLOCK FALSE
