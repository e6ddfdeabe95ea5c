\* The relay's control paths with safety properties.  Capacity 2 lets a
\* channel hold two packets; with three datagrams a channel still fills.
CONSTANTS
    CSIDs = {s1, s2}
    ClientAddrs = {a1, a2}
    Pktinfos = {i1, i2}
    BadPktinfos = {i2}
    NoClient = NoClient
    SendChannelCapacity = 2
    MaxSessions = 2
    MaxPackets = 3

SPECIFICATION Spec
INVARIANT TypeOK
INVARIANT NoSendOnClosedChannel
INVARIANT NoRelayAfterServerConnClosed
\* The relay stops for good once Stop has returned and every goroutine exited.
CHECK_DEADLOCK FALSE
