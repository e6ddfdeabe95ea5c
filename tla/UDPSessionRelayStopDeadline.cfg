\* Stop's deadline against the uplink's refresh: one session, one datagram.
CONSTANTS
    CSIDs = {s1}
    ClientAddrs = {a1}
    Pktinfos = {i1}
    BadPktinfos = {}
    NoClient = NoClient
    SendChannelCapacity = 1
    MaxSessions = 1
    MaxPackets = 1

SPECIFICATION Spec
PROPERTY StopDeadlineHolds
\* The relay stops for good once Stop has returned and every goroutine exited.
CHECK_DEADLOCK FALSE
