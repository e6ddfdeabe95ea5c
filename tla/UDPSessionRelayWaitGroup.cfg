\* A session goroutine calls s.wg.Add(1) from zero while Stop waits.
CONSTANTS
    CSIDs = {s1, s2}
    ClientAddrs = {a1, a2}
    Pktinfos = {i1}
    BadPktinfos = {}
    NoClient = NoClient
    SendChannelCapacity = 1
    MaxSessions = 1
    MaxPackets = 1

SPECIFICATION Spec
PROPERTY NoWaitGroupAddDuringWait
\* The relay stops for good once Stop has returned and every goroutine exited.
CHECK_DEADLOCK FALSE
