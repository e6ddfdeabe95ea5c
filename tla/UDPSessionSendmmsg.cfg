\* Batches of two from a channel of two, four datagrams: a full channel, a
\* full batch, a partial batch, and a pack failure at either position of a
\* batch all occur; the client roams once.
CONSTANTS
    BatchSize = 2
    SendChannelCapacity = 2
    MaxPackets = 4
    MaxReplies = 2
    MaxRoams = 1
SPECIFICATION FairSpec
INVARIANTS
    NoPooledBufferInUse
    WriteBatchNonEmpty
    RepliesGoToCurrentClient
PROPERTIES
    QueuedPacketsWritten
    RefinesSessionQueue
    StopReleasesSession
\* A session ends, and Stop returns: once the downlink has timed out, the
\* uplink has drained the closed channel and no datagram can reach the
\* deleted entry.
CHECK_DEADLOCK FALSE
