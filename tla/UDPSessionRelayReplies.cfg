\* Replies follow client rebinding when every pktinfo parses.
CONSTANTS
    CSIDs = {s1}
    ClientAddrs = {a1, a2}
    Pktinfos = {i1, i2}
    BadPktinfos = {}
    NoClient = NoClient
    SendChannelCapacity = 1
    MaxSessions = 1
    MaxPackets = 3

SPECIFICATION Spec
PROPERTY RepliesGoToLatestClient
\* The relay stops for good once Stop has returned and every goroutine exited.
CHECK_DEADLOCK FALSE
