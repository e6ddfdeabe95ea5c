\* Stop returns while a session goroutine is still routing: its entry stays.
CONSTANTS
    CSIDs = {s1, s2}
    ClientAddrs = {a1, a2}
    Pktinfos = {i1}
    BadPktinfos = {}
    NoClient = NoClient
    SendChannelCapacity = 1
    MaxSessions = 1
    MaxPackets = 1

SPECIFICATION Spec
INVARIANT TableEmptyAfterStop
\* The relay stops for good once Stop has returned and every goroutine exited.
CHECK_DEADLOCK FALSE
