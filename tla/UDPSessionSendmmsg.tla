-------------------------- MODULE UDPSessionSendmmsg --------------------------
(***************************************************************************)
(* One session of the UDP session relay in sendmmsg batch mode: the        *)
(* ingress goroutine queueing the client's datagrams on natConnSendCh,     *)
(* the uplink that dequeues them into batches of up to batchSize and       *)
(* writes each batch with one sendmmsg (relayServerConnToNatConnSendmmsg), *)
(* the downlink that reads the target's replies with recvmmsg and writes   *)
(* them back in batches (relayNatConnToServerConnSendmmsg), and the        *)
(* session goroutine's start and deferred teardown, and Stop racing them. *)
(*                                                                         *)
(* A client address is abstracted to the version of clientAddrInfo that   *)
(* ingress published for it: a roaming client makes ingress publish the    *)
(* next version.  Packing, unpacking and socket errors are                 *)
(* nondeterministic outcomes where the code handles them.                  *)
(***************************************************************************)
EXTENDS Naturals, Sequences, SequencesExt

CONSTANTS
    BatchSize,            \* s.batchSize
    SendChannelCapacity,  \* capacity of natConnSendCh
    MaxPackets,           \* bound: datagrams ingress reads for the session
    MaxReplies,           \* bound: datagrams the target sends back
    MaxRoams              \* bound: client address changes

ASSUME BatchSize \in Nat \ {0} /\ SendChannelCapacity \in Nat \ {0}

Packets == 1..MaxPackets
NoPacket == 0

VARIABLES
    created,     \* the entry is in s.table and its goroutine spawned
    started,     \* initialization succeeded: uplink and downlink run
    torn,        \* the deferred teardown closed natConnSendCh
    ch,          \* natConnSendCh contents
    fate,        \* what became of each packet buffer
    pooled,      \* packet buffers back in s.packetBufPool
    nextPkt,     \* datagrams read so far
    published,   \* version of entry.clientAddrInfo
    upPc,        \* the uplink's position in its loop
    cur,         \* queuedPacket, the packet in hand
    count,       \* count: packets in the current batch
    batch,       \* dequeuedPackets[:count]
    ok,          \* ok of the last receive
    expired,     \* natConn's read deadline has passed
    natClosed,   \* natConn has been closed
    replies,     \* replies from the target waiting on natConn
    sentReplies, \* replies the target has sent so far
    dnPc,        \* the downlink's position in its loop
    nr,          \* replies the last recvmmsg returned
    dnAddr,      \* the downlink's clientAddrInfop
    dnRecvVer,   \* the version published when that recvmmsg returned
    stopPc,      \* Stop's program counter
    swapped      \* Stop's sweep swapped serverConn into entry.state

vars == <<created, started, torn, ch, fate, pooled, nextPkt, published,
          upPc, cur, count, batch, ok, expired, natClosed, replies,
          sentReplies, dnPc, nr, dnAddr, dnRecvVer, stopPc, swapped>>
stopVars == <<stopPc, swapped>>
upVars == <<upPc, cur, count, batch, ok>>
dnVars == <<dnPc, nr, dnAddr, dnRecvVer>>

Fates == {"none", "dropped", "queued", "taken", "batched", "sent", "failed",
          "drained"}

\* No session yet; the uplink's batch state starts as declared at the top
\* of relayServerConnToNatConnSendmmsg: count 0 and no dequeued packets.
Init ==
    /\ created = FALSE
    /\ started = FALSE
    /\ torn = FALSE
    /\ ch = <<>>
    /\ fate = [p \in Packets |-> "none"]
    /\ pooled = {}
    /\ nextPkt = 0
    /\ published = 0
    /\ upPc = "none"
    /\ cur = NoPacket
    /\ count = 0
    /\ batch = <<>>
    /\ ok = TRUE
    /\ expired = FALSE
    /\ natClosed = FALSE
    /\ replies = 0
    /\ sentReplies = 0
    /\ dnPc = "none"
    /\ nr = 0
    /\ dnAddr = 0
    /\ dnRecvVer = 0
    /\ stopPc = "idle"
    /\ swapped = FALSE

-----------------------------------------------------------------------------
(***************************************************************************)
(* Ingress (recvFromServerConn, one loop iteration under the lock).        *)
(***************************************************************************)

\* A datagram of the session: a new client address is published; the
\* first datagram creates the entry; the packet is queued, or dropped
\* when the channel is full.  Once Stop has set the listener's deadline
\* the ingress loop has returned.
Ingress(roam) ==
    /\ nextPkt < MaxPackets
    /\ ~torn
    /\ stopPc = "idle"
    /\ roam => published < MaxRoams
    /\ LET p == nextPkt + 1 IN
       /\ nextPkt' = p
       /\ published' = IF roam THEN published + 1 ELSE published
       /\ created' = TRUE
       /\ IF Len(ch) < SendChannelCapacity
          THEN /\ ch' = Append(ch, p)
               /\ fate' = [fate EXCEPT ![p] = "queued"]
               /\ UNCHANGED pooled
          ELSE /\ fate' = [fate EXCEPT ![p] = "dropped"]
               /\ pooled' = pooled \cup {p}
               /\ UNCHANGED ch
    /\ UNCHANGED <<started, torn, upVars, expired, natClosed, replies,
                   sentReplies, dnVars, stopVars>>

(***************************************************************************)
(* The session goroutine.                                                  *)
(***************************************************************************)

\* Initialization succeeded (sendChClean = true): the uplink goroutine is
\* spawned and the goroutine becomes the downlink, with the client address
\* of the datagram that created the session.
SessionStart ==
    /\ created
    /\ ~started
    /\ ~swapped
    /\ started' = TRUE
    /\ upPc' = "main"
    /\ dnPc' = "recv"
    /\ dnAddr' = 0
    /\ UNCHANGED <<created, torn, ch, fate, pooled, nextPkt, published, cur,
                   count, batch, ok, expired, natClosed, replies,
                   sentReplies, nr, dnRecvVer, stopVars>>

\* entry.state.Swap(natConn) returns the serverConn Stop swapped in: the
\* goroutine closes its natConn and returns without starting the relay.
SessionSwapLost ==
    /\ created
    /\ ~started
    /\ swapped
    /\ dnPc = "none"
    /\ dnPc' = "done"
    /\ UNCHANGED <<created, started, torn, ch, fate, pooled, nextPkt,
                   published, upVars, expired, natClosed, replies,
                   sentReplies, nr, dnAddr, dnRecvVer, stopVars>>

\* Mutation: teardown drains the channel although the uplink owns it.
TeardownDrains ==
    /\ dnPc = "done"
    /\ ~torn
    /\ torn' = TRUE
    /\ ch' = <<>>
    /\ fate' = [p \in Packets |-> IF \E i \in DOMAIN ch : ch[i] = p
                                  THEN "dropped" ELSE fate[p]]
    /\ pooled' = pooled \cup ToSet(ch)
    /\ UNCHANGED <<created, started, nextPkt, published, upVars, expired,
                   natClosed, replies, sentReplies, dnVars, stopVars>>

\* The goroutine has returned: the deferred teardown closes natConnSendCh
\* and deletes the entry under the lock.  Once the uplink was spawned
\* (sendChClean) it owns the channel; otherwise the queued buffers are
\* drained back to the pool.
Teardown ==
    /\ dnPc = "done"
    /\ ~torn
    /\ torn' = TRUE
    /\ IF started
       THEN UNCHANGED <<ch, fate, pooled>>
       ELSE /\ ch' = <<>>
            /\ fate' = [p \in Packets |-> IF p \in ToSet(ch) THEN "drained"
                                          ELSE fate[p]]
            /\ pooled' = pooled \cup ToSet(ch)
    /\ UNCHANGED <<created, started, nextPkt, published, upVars, expired,
                   natClosed, replies, sentReplies, dnVars, stopVars>>

-----------------------------------------------------------------------------
(***************************************************************************)
(* The uplink (relayServerConnToNatConnSendmmsg).                          *)
(***************************************************************************)

\* Mutation: the first dequeue treats !ok like a spurious wake-up and
\* continues the main loop, so the uplink never leaves it once the
\* channel is closed and empty (a step that changes nothing).
UplinkRecvIgnoresClose ==
    /\ upPc = "main"
    /\ ch # <<>>
    /\ cur' = Head(ch)
    /\ ch' = Tail(ch)
    /\ fate' = [fate EXCEPT ![Head(ch)] = "taken"]
    /\ upPc' = "pack"
    /\ ok' = TRUE
    /\ UNCHANGED <<created, started, torn, pooled, nextPkt, published, count,
                   batch, expired, natClosed, replies, sentReplies, dnVars,
                   stopVars>>

\* main: block on the first dequeue; a closed, empty channel ends the loop.
UplinkRecv ==
    /\ upPc = "main"
    /\ ch # <<>> \/ torn
    /\ IF ch # <<>>
       THEN /\ cur' = Head(ch)
            /\ ch' = Tail(ch)
            /\ fate' = [fate EXCEPT ![Head(ch)] = "taken"]
            /\ upPc' = "pack"
            /\ ok' = TRUE
       ELSE /\ upPc' = "exit"
            /\ ok' = FALSE
            /\ UNCHANGED <<cur, ch, fate>>
    /\ UNCHANGED <<created, started, torn, pooled, nextPkt, published, count,
                   batch, expired, natClosed, replies, sentReplies, dnVars,
                   stopVars>>

\* Mutation: a failed pack goes on to the next dequeue even when the
\* batch is empty.
UplinkPackEmptyGoesNext ==
    /\ upPc = "pack"
    /\ \/ /\ pooled' = pooled \cup {cur}
          /\ fate' = [fate EXCEPT ![cur] = "failed"]
          /\ upPc' = "next"
          /\ UNCHANGED <<count, batch>>
       \/ /\ batch' = Append(batch, cur)
          /\ count' = count + 1
          /\ fate' = [fate EXCEPT ![cur] = "batched"]
          /\ upPc' = IF count + 1 = BatchSize THEN "flush" ELSE "next"
          /\ UNCHANGED pooled
    /\ UNCHANGED <<created, started, torn, ch, nextPkt, published, cur, ok,
                   expired, natClosed, replies, sentReplies, dnVars, stopVars>>

\* Mutation: a failed pack returns the buffer but keeps it in the batch.
UplinkPackFailKeepsPacket ==
    /\ upPc = "pack"
    /\ \/ /\ pooled' = pooled \cup {cur}
          /\ fate' = [fate EXCEPT ![cur] = "failed"]
          /\ batch' = Append(batch, cur)
          /\ count' = count + 1
          /\ upPc' = IF count + 1 = BatchSize THEN "flush" ELSE "next"
       \/ /\ batch' = Append(batch, cur)
          /\ count' = count + 1
          /\ fate' = [fate EXCEPT ![cur] = "batched"]
          /\ upPc' = IF count + 1 = BatchSize THEN "flush" ELSE "next"
          /\ UNCHANGED pooled
    /\ UNCHANGED <<created, started, torn, ch, nextPkt, published, cur, ok,
                   expired, natClosed, replies, sentReplies, dnVars, stopVars>>

\* PackInPlace of the packet in hand.  On failure the buffer goes back to
\* the pool and the loop restarts if the batch is empty (continue main),
\* else goes to the next dequeue (goto next).  On success the packet joins
\* the batch, which is written once it holds batchSize packets.
UplinkPack ==
    /\ upPc = "pack"
    /\ \/ /\ pooled' = pooled \cup {cur}
          /\ fate' = [fate EXCEPT ![cur] = "failed"]
          /\ upPc' = IF count = 0 THEN "main" ELSE "next"
          /\ UNCHANGED <<count, batch>>
       \/ /\ batch' = Append(batch, cur)
          /\ count' = count + 1
          /\ fate' = [fate EXCEPT ![cur] = "batched"]
          /\ upPc' = IF count + 1 = BatchSize THEN "flush" ELSE "next"
          /\ UNCHANGED pooled
    /\ UNCHANGED <<created, started, torn, ch, nextPkt, published, cur, ok,
                   expired, natClosed, replies, sentReplies, dnVars, stopVars>>

\* Mutation: the next dequeue blocks instead of selecting with default.
UplinkNextBlocks ==
    /\ upPc = "next"
    /\ ch # <<>> \/ torn
    /\ IF ch # <<>>
       THEN /\ cur' = Head(ch)
            /\ ch' = Tail(ch)
            /\ fate' = [fate EXCEPT ![Head(ch)] = "taken"]
            /\ upPc' = "pack"
            /\ UNCHANGED ok
       ELSE /\ ok' = FALSE
            /\ upPc' = "flush"
            /\ UNCHANGED <<cur, ch, fate>>
    /\ UNCHANGED <<created, started, torn, pooled, nextPkt, published, count,
                   batch, expired, natClosed, replies, sentReplies, dnVars,
                   stopVars>>

\* next: a non-blocking receive.  A queued packet is packed; a closed
\* channel (ok = false) or an empty one (default) ends the batch.
UplinkNext ==
    /\ upPc = "next"
    /\ IF ch # <<>>
       THEN /\ cur' = Head(ch)
            /\ ch' = Tail(ch)
            /\ fate' = [fate EXCEPT ![Head(ch)] = "taken"]
            /\ upPc' = "pack"
            /\ UNCHANGED ok
       ELSE /\ ok' = ~torn
            /\ upPc' = "flush"
            /\ UNCHANGED <<cur, ch, fate>>
    /\ UNCHANGED <<created, started, torn, pooled, nextPkt, published, count,
                   batch, expired, natClosed, replies, sentReplies, dnVars,
                   stopVars>>

\* WriteMsgvec of the batch (a failure is only logged), SetReadDeadline to
\* now + natTimeout, every buffer of the batch back to the pool; the loop
\* ends if the channel was found closed.  The target may answer.
UplinkFlush ==
    /\ upPc = "flush"
    /\ \E sent \in BOOLEAN, r \in 0..1 :
         /\ fate' = [p \in Packets |->
                       IF \E i \in DOMAIN batch : batch[i] = p
                       THEN IF sent THEN "sent" ELSE "failed" ELSE fate[p]]
         /\ sentReplies + r <= MaxReplies
         /\ replies' = replies + r
         /\ sentReplies' = sentReplies + r
    /\ expired' = FALSE
    /\ pooled' = pooled \cup ToSet(batch)
    /\ batch' = <<>>
    /\ count' = 0
    /\ upPc' = IF ok THEN "main" ELSE "exit"
    /\ UNCHANGED <<created, started, torn, ch, nextPkt, published, cur, ok,
                   natClosed, dnVars, stopVars>>

\* The uplink has returned: its goroutine closes natConn.
UplinkExit ==
    /\ upPc = "exit"
    /\ upPc' = "done"
    /\ natClosed' = TRUE
    /\ UNCHANGED <<created, started, torn, ch, fate, pooled, nextPkt,
                   published, cur, count, batch, ok, expired, replies,
                   sentReplies, dnVars, stopVars>>

-----------------------------------------------------------------------------
(***************************************************************************)
(* The downlink (relayNatConnToServerConnSendmmsg).                        *)
(***************************************************************************)

\* Recvmmsg returns up to batchSize replies, or fails with
\* os.ErrDeadlineExceeded once the read deadline has passed.
DownlinkRecv ==
    /\ dnPc = "recv"
    /\ \/ /\ ~expired
          /\ replies > 0
          /\ \E n \in 1..replies :
               /\ n <= BatchSize
               /\ nr' = n
               /\ replies' = replies - n
          /\ dnRecvVer' = published
          /\ dnPc' = "send"
       \/ /\ expired
          /\ dnPc' = "done"
          /\ UNCHANGED <<nr, replies, dnRecvVer>>
    /\ UNCHANGED <<created, started, torn, ch, fate, pooled, nextPkt,
                   published, upVars, expired, natClosed, sentReplies, dnAddr,
                   stopVars>>

\* Mutation: clientAddrInfo is never reloaded after the session started.
DownlinkSendNoReload ==
    /\ dnPc = "send"
    /\ dnPc' = "recv"
    /\ UNCHANGED <<created, started, torn, ch, fate, pooled, nextPkt,
                   published, upVars, expired, natClosed, replies,
                   sentReplies, nr, dnAddr, dnRecvVer, stopVars>>

\* clientAddrInfo is loaded; if it changed, the address and the pktinfo
\* of every message header are re-pointed.  The replies that unpack and
\* pack are written with one sendmmsg (none: continue).
DownlinkSend ==
    /\ dnPc = "send"
    /\ dnAddr' = published
    /\ dnPc' = "recv"
    /\ UNCHANGED <<created, started, torn, ch, fate, pooled, nextPkt,
                   published, upVars, expired, natClosed, replies,
                   sentReplies, nr, dnRecvVer, stopVars>>

\* nat timeout: time reaches natConn's read deadline.
DeadlinePasses ==
    /\ started
    /\ ~natClosed
    /\ ~expired
    /\ expired' = TRUE
    /\ UNCHANGED <<created, started, torn, ch, fate, pooled, nextPkt,
                   published, upVars, natClosed, replies, sentReplies,
                   dnVars, stopVars>>

-----------------------------------------------------------------------------
(***************************************************************************)
(* Stop (UDPSessionRelay.Stop), for the one session.                       *)
(***************************************************************************)

\* serverConn.SetReadDeadline(now) and s.mwg.Wait(): an ingress iteration
\* is one step, so the ingress loop has returned.
StopBegin ==
    /\ stopPc = "idle"
    /\ stopPc' = "sweep"
    /\ UNCHANGED <<created, started, torn, ch, fate, pooled, nextPkt,
                   published, upVars, expired, natClosed, replies,
                   sentReplies, dnVars, swapped>>

\* Under the lock: if the entry is in the table, swap serverConn into its
\* state; if a natConn was published, set its read deadline to now.
StopSweep ==
    /\ stopPc = "sweep"
    /\ stopPc' = "waitWorkers"
    /\ IF created /\ ~torn
       THEN /\ swapped' = TRUE
            /\ expired' = (started \/ expired)
       ELSE UNCHANGED <<swapped, expired>>
    /\ UNCHANGED <<created, started, torn, ch, fate, pooled, nextPkt,
                   published, upVars, natClosed, replies, sentReplies,
                   dnVars>>

\* s.wg.Wait() returns once the session goroutine (its wg.Done is deferred
\* before the teardown) and the uplink goroutine have exited; then
\* serverConn.Close().
StopClose ==
    /\ stopPc = "waitWorkers"
    /\ created => dnPc = "done"
    /\ upPc \in {"none", "done"}
    /\ stopPc' = "stopped"
    /\ UNCHANGED <<created, started, torn, ch, fate, pooled, nextPkt,
                   published, upVars, expired, natClosed, replies,
                   sentReplies, dnVars, swapped>>

-----------------------------------------------------------------------------
SessionStep == SessionStart \/ SessionSwapLost
StopStep == StopSweep \/ StopClose
UplinkStep == UplinkRecv \/ UplinkPack \/ UplinkNext \/ UplinkFlush
              \/ UplinkExit
DownlinkStep == DownlinkRecv \/ DownlinkSend

Next ==
    \/ \E roam \in BOOLEAN : Ingress(roam)
    \/ SessionStep \/ Teardown
    \/ StopBegin \/ StopStep
    \/ UplinkStep \/ DownlinkStep
    \/ DeadlinePasses

Spec == Init /\ [][Next]_vars

\* The goroutines keep running and the session's initialization returns;
\* clients need not send, nobody need call Stop, and deadlines need not
\* pass (the uplink keeps refreshing them).
FairSpec ==
    /\ Spec
    /\ WF_vars(SessionStep) /\ WF_vars(Teardown) /\ WF_vars(StopStep)
    /\ WF_vars(UplinkStep) /\ WF_vars(DownlinkStep)


-----------------------------------------------------------------------------
\* No buffer is back in the pool while the channel, the batch or the pack
\* in hand still uses it: the iovecs of a batch point into its buffers
\* until sendmmsg has returned, and a pooled buffer is reused by ingress.
NoPooledBufferInUse ==
    /\ pooled \cap ToSet(ch) = {}
    /\ pooled \cap ToSet(batch) = {}
    /\ upPc = "pack" => cur \notin pooled

\* A batch is written only with at least one packet: the failure log of
\* WriteMsgvec reads dequeuedPackets[count-1].
WriteBatchNonEmpty ==
    upPc = "flush" => batch # <<>>

\* Every batch of replies goes to the client address published when its
\* recvmmsg returned, or a newer one: the downlink never keeps writing to
\* an address the client has left.
RepliesGoToCurrentClient ==
    dnPc = "recv" => dnAddr >= dnRecvVer

\* Every queued packet is eventually written to natConn (or its pack or
\* write fails), without waiting for more traffic or for a timeout: a
\* partial batch is flushed as soon as the channel is empty.  Only a
\* session Stop cancelled before its relay started drains its packets.
QueuedPacketsWritten ==
    \A p \in Packets :
        fate[p] \in {"queued", "taken", "batched"} ~>
            fate[p] \in {"sent", "failed", "drained"}

\* Stop returns, and the session is torn down, although a batch the uplink
\* writes after Stop's sweep moves natConn's read deadline from now back
\* to now + natTimeout (part_001 line 122): provided time keeps reaching
\* deadlines, the downlink still exits, the uplink drains the closed
\* channel, and s.wg.Wait() returns.
StopReleasesSession ==
    WF_vars(DeadlinePasses) =>
        (stopPc # "idle" ~> stopPc = "stopped" /\ (created => torn))

\* The batched relay implements the abstract session queue: the uplink
\* takes packets in arrival order, ingress drops only on a full channel,
\* and teardown never discards what the uplink still owns.  A packet
\* counts as written once the uplink has taken it: the batch is written
\* in the order it was taken.
OutcomeOf == [none |-> "none", dropped |-> "dropped", queued |-> "pending",
              taken |-> "written", batched |-> "written", sent |-> "written",
              failed |-> "written", drained |-> "discarded"]
TheSession == "session"
Queue == INSTANCE UDPSessionQueue WITH
    Sessions <- {TheSession}, Datagrams <- Packets,
    Capacity <- SendChannelCapacity,
    used <- IF created THEN {TheSession} ELSE {},
    open <- IF created /\ ~torn THEN {TheSession} ELSE {},
    live <- IF started THEN {TheSession} ELSE {},
    pending <- [s \in {TheSession} |-> ch],
    outcome <- [p \in Packets |-> OutcomeOf[fate[p]]]

RefinesSessionQueue == Queue!Spec

=============================================================================
