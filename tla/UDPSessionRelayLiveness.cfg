\* Progress of queued packets and of Stop under fair scheduling.
CONSTANTS
    CSIDs = {s1, s2}
    ClientAddrs = {a1}
    Pktinfos = {i1}
    BadPktinfos = {}
    NoClient = NoClient
    SendChannelCapacity = 1
    MaxSessions = 2
    MaxPackets = 2

SPECIFICATION FairSpec
PROPERTY QueuedPacketsLeave
PROPERTY StopReleasesEverything
PROPERTY SessionsEventuallyEvicted
\* The relay stops for good once Stop has returned and every goroutine exited.
CHECK_DEADLOCK FALSE
