--------------------------- MODULE UDPSessionRelay ---------------------------
(***************************************************************************)
(* The session-based UDP relay of service/udp_session_relay.go (generic    *)
(* batch mode): one ingress goroutine (recvFromServerConnGeneric) that     *)
(* dispatches datagrams to per-session entries of a table guarded by the   *)
(* server lock; per session an initializer goroutine that builds the NAT   *)
(* socket, publishes it through the atomic `state` cell and then runs the  *)
(* downlink (relayNatConnToServerConnGeneric), an uplink goroutine         *)
(* (relayServerConnToNatConnGeneric) draining the bounded send channel,    *)
(* and Stop, which quiesces ingress, sweeps the table and waits for the    *)
(* relay goroutines.                                                       *)
(*                                                                         *)
(* Data is abstracted: a datagram is a packet number, a client is a pair   *)
(* <<address, pktinfo>>, sockets are a status, and read deadlines are a    *)
(* flag "expired" that time may set and a refresh clears.                  *)
(***************************************************************************)
EXTENDS Naturals, Sequences, FiniteSets, SequencesExt

CONSTANTS
    CSIDs,               \* client session IDs carried by datagrams
    ClientAddrs,         \* client source addresses (a NAT may rebind)
    Pktinfos,            \* pktinfo control messages the listener receives
    BadPktinfos,         \* those conn.ParsePktinfoCmsg rejects
    NoClient,            \* the zero cache value of a fresh session
    SendChannelCapacity, \* capacity of natConnSendCh
    MaxSessions,         \* bound: session entries created in a behaviour
    MaxPackets           \* bound: datagrams read from serverConn

ASSUME /\ BadPktinfos \subseteq Pktinfos
       /\ SendChannelCapacity \in Nat \ {0}
       /\ MaxSessions \in Nat \ {0}
       /\ MaxPackets \in Nat \ {0}

Entries == 1..MaxSessions       \* identities of *session values
NoEntry == 0                    \* absent table key
Packets == 1..MaxPackets        \* identities of *sessionQueuedPacket values
Clients == ClientAddrs \X Pktinfos

VARIABLES
    table,            \* s.table: csid -> entry, NoEntry when absent
    nextEntry,        \* number of entries created so far
    ecsid,            \* the csid each entry was created for
    state,            \* entry.state: "nil", "natConn" or "serverConn"
    natConn,          \* entry.natConn socket: "none", "open", "closed"
    expired,          \* natConn's read deadline has passed
    ch,               \* entry.natConnSendCh contents
    chClosed,         \* natConnSendCh has been closed
    cache,            \* <<clientAddrPortCache, clientPktinfoCache>>
    published,        \* entry.clientAddrInfo (atomic pointer)
    lastClient,       \* history: client of the latest packet dispatched
    dnAddr,           \* the downlink's clientAddrInfop (captured at creation)
    initPc,           \* the session goroutine's program counter
    uplinkPc,         \* the uplink goroutine: "none", "run", "done"
    replies,          \* datagrams from the target waiting on natConn
    fate,             \* what happened to each packet buffer
    pktEntry,         \* the entry a queued packet was dispatched to
    nextPkt,          \* number of datagrams read from serverConn
    wg,               \* s.wg counter
    serverConn,       \* s.serverConn: "nil", "open", "closed"
    ingressPc,        \* the ingress goroutine (s.mwg): "none", "run", "done"
    listenerDeadline, \* serverConn's read deadline has been set to now
    stopPc,           \* Stop's program counter
    swept             \* entries Stop's sweep has visited

sessionVars == <<table, nextEntry, ecsid, state, natConn, expired, ch,
                 chClosed, cache, published, lastClient, dnAddr, initPc,
                 uplinkPc, replies>>
vars == <<sessionVars, fate, pktEntry, nextPkt, wg, serverConn, ingressPc,
          listenerDeadline, stopPc, swept>>

InitPcs == {"idle", "route", "setup", "swap", "downlink", "exit",
            "teardown", "done"}
StopPcs == {"idle", "waitIngress", "sweep", "waitWorkers", "stopped"}
Fates == {"none", "dropped", "queued", "sent", "failed", "drained"}

\* The session goroutine's sendChClean flag: set in the step that spawns
\* the uplink goroutine, which then owns draining the channel.
sendChClean(e) == uplinkPc[e] # "none"
\* Stop holds the server lock for the whole sweep; every other holder
\* takes and releases it within one step.
LockFree == stopPc # "sweep"
InTable(e) == \E c \in CSIDs : table[c] = e

-----------------------------------------------------------------------------
(* NewUDPSessionRelay: an empty table, no serverConn, nothing running.     *)
Init ==
    /\ table = [c \in CSIDs |-> NoEntry]
    /\ nextEntry = 0
    /\ ecsid = [e \in Entries |-> CHOOSE c \in CSIDs : TRUE]
    /\ state = [e \in Entries |-> "nil"]
    /\ natConn = [e \in Entries |-> "none"]
    /\ expired = [e \in Entries |-> FALSE]
    /\ ch = [e \in Entries |-> <<>>]
    /\ chClosed = [e \in Entries |-> FALSE]
    /\ cache = [e \in Entries |-> NoClient]
    /\ published = [e \in Entries |-> NoClient]
    /\ lastClient = [e \in Entries |-> NoClient]
    /\ dnAddr = [e \in Entries |-> NoClient]
    /\ initPc = [e \in Entries |-> "idle"]
    /\ uplinkPc = [e \in Entries |-> "none"]
    /\ replies = [e \in Entries |-> 0]
    /\ fate = [p \in Packets |-> "none"]
    /\ pktEntry = [p \in Packets |-> NoEntry]
    /\ nextPkt = 0
    /\ wg = 0
    /\ serverConn = "nil"
    /\ ingressPc = "none"
    /\ listenerDeadline = FALSE
    /\ stopPc = "idle"
    /\ swept = {}

\* Start, called once and before Stop: conn.ListenUDP either fails (Start
\* returns the error and s.serverConn stays nil) or the socket is stored,
\* s.mwg.Add(1) and the ingress goroutine is spawned.
Start ==
    /\ ingressPc = "none"
    /\ serverConn = "nil"
    /\ stopPc = "idle"
    /\ \/ /\ serverConn' = "open"
          /\ ingressPc' = "run"
       \/ /\ ingressPc' = "done"      \* Start returned err; no goroutine
          /\ UNCHANGED serverConn
    /\ UNCHANGED <<sessionVars, fate, pktEntry, nextPkt, wg, listenerDeadline,
                   stopPc, swept>>

-----------------------------------------------------------------------------
(***************************************************************************)
(* Ingress: one datagram read from serverConn and dispatched under the     *)
(* server lock (recvFromServerConnGeneric, one loop iteration).            *)
(***************************************************************************)

\* The buffer goes back to the pool; no session state changes.
DropPacket(p) ==
    /\ fate' = [fate EXCEPT ![p] = "dropped"]
    /\ UNCHANGED <<sessionVars, pktEntry>>

\* Select on natConnSendCh with a default branch: enqueue or drop when full.
EnqueueOrDrop(p, e) ==
    IF Len(ch[e]) < SendChannelCapacity
    THEN /\ ch' = [ch EXCEPT ![e] = Append(@, p)]
         /\ fate' = [fate EXCEPT ![p] = "queued"]
         /\ pktEntry' = [pktEntry EXCEPT ![p] = e]
    ELSE /\ fate' = [fate EXCEPT ![p] = "dropped"]
         /\ UNCHANGED <<ch, pktEntry>>

\* Packet p of session c from client cl passed UnpackInPlace.  The caches
\* are refreshed; on a change the pktinfo is parsed and the client address
\* info republished; a new entry gets its channel, joins the table and
\* spawns its session goroutine; then the packet is enqueued.
DispatchPacket(p, c, cl) ==
    LET new     == table[c] = NoEntry
        e       == IF new THEN nextEntry + 1 ELSE table[c]
        changed == IF new THEN TRUE ELSE cache[e] # cl
    IN
    \/ /\ changed
       /\ cl[2] \in BadPktinfos
       \* Caches were already updated; a new entry is simply discarded.
       /\ cache' = IF new THEN cache ELSE [cache EXCEPT ![e] = cl]
       /\ fate' = [fate EXCEPT ![p] = "dropped"]
       /\ UNCHANGED <<table, nextEntry, ecsid, state, natConn, expired, ch,
                      chClosed, published, lastClient, dnAddr, initPc,
                      uplinkPc, replies, pktEntry>>
    \/ /\ ~changed \/ cl[2] \notin BadPktinfos
       /\ new => nextEntry < MaxSessions
       /\ cache' = [cache EXCEPT ![e] = cl]
       /\ published' = IF changed THEN [published EXCEPT ![e] = cl]
                                  ELSE published
       /\ lastClient' = [lastClient EXCEPT ![e] = cl]
       /\ IF new
          THEN /\ table' = [table EXCEPT ![c] = e]
               /\ nextEntry' = e
               /\ ecsid' = [ecsid EXCEPT ![e] = c]
               /\ initPc' = [initPc EXCEPT ![e] = "route"]
               /\ dnAddr' = [dnAddr EXCEPT ![e] = cl]
          ELSE UNCHANGED <<table, nextEntry, ecsid, initPc, dnAddr>>
       /\ EnqueueOrDrop(p, e)
       /\ UNCHANGED <<state, natConn, expired, chClosed, uplinkPc, replies>>

recvFromServerConn ==
    /\ ingressPc = "run"
    /\ ~listenerDeadline
    /\ LockFree
    /\ nextPkt < MaxPackets
    /\ nextPkt' = nextPkt + 1
    /\ LET p == nextPkt + 1 IN
       \/ DropPacket(p)   \* read error, SessionInfo, NewUnpacker or
                          \* UnpackInPlace failed
       \/ \E c \in CSIDs, cl \in Clients : DispatchPacket(p, c, cl)
    /\ UNCHANGED <<wg, ingressPc, listenerDeadline, serverConn, stopPc, swept>>

\* The read returns os.ErrDeadlineExceeded once Stop has set the deadline.
IngressExit ==
    /\ ingressPc = "run"
    /\ listenerDeadline
    /\ ingressPc' = "done"
    /\ UNCHANGED <<sessionVars, fate, pktEntry, nextPkt, wg, listenerDeadline,
                   serverConn,
                   stopPc, swept>>


-----------------------------------------------------------------------------
(***************************************************************************)
(* The session goroutine spawned for a new entry: set-up, publication of   *)
(* natConn, the downlink loop on natConn, and the deferred teardown.       *)
(***************************************************************************)

\* Mutation: defer s.wg.Done() registered before the router call, so a
\* routing failure also runs it.
InitRouteDoneOnFailure(e) ==
    /\ initPc[e] = "route"
    /\ \/ /\ initPc' = [initPc EXCEPT ![e] = "setup"]
          /\ wg' = wg + 1
       \/ /\ initPc' = [initPc EXCEPT ![e] = "exit"]
          /\ UNCHANGED wg
    /\ UNCHANGED <<table, nextEntry, ecsid, state, natConn, expired, ch,
                   chClosed, cache, published, lastClient, dnAddr, uplinkPc,
                   replies, fate, pktEntry, nextPkt, ingressPc,
                   listenerDeadline, serverConn, stopPc, swept>>

\* s.router.GetUDPClient; on success s.wg.Add(1) (the router may block, so
\* the goroutine is not counted before it returns).  A failure returns
\* straight into the deferred teardown, with nothing to add back to s.wg.
InitRoute(e) ==
    /\ initPc[e] = "route"
    /\ \/ /\ initPc' = [initPc EXCEPT ![e] = "setup"]
          /\ wg' = wg + 1
       \/ /\ initPc' = [initPc EXCEPT ![e] = "teardown"]
          /\ UNCHANGED wg
    /\ UNCHANGED <<table, nextEntry, ecsid, state, natConn, expired, ch,
                   chClosed, cache, published, lastClient, dnAddr, uplinkPc,
                   replies, fate, pktEntry, nextPkt, ingressPc,
                   listenerDeadline, serverConn, stopPc, swept>>

\* c.NewSession, serverConnUnpacker.NewPacker, conn.ListenUDP and
\* natConn.SetReadDeadline(now + natTimeout).  Any failure returns; a
\* socket opened before the deadline failed is closed first.
InitSetup(e) ==
    /\ initPc[e] = "setup"
    /\ \/ /\ initPc' = [initPc EXCEPT ![e] = "swap"]
          /\ natConn' = [natConn EXCEPT ![e] = "open"]
          /\ expired' = [expired EXCEPT ![e] = FALSE]
       \/ /\ initPc' = [initPc EXCEPT ![e] = "exit"]
          /\ UNCHANGED <<natConn, expired>>
       \/ /\ initPc' = [initPc EXCEPT ![e] = "exit"]
          /\ natConn' = [natConn EXCEPT ![e] = "closed"]
          /\ UNCHANGED expired
    /\ UNCHANGED <<table, nextEntry, ecsid, state, ch, chClosed, cache,
                   published, lastClient, dnAddr, uplinkPc, replies, fate,
                   pktEntry, nextPkt, wg, ingressPc, listenerDeadline,
                   serverConn, stopPc, swept>>

\* Mutation: the losing session goroutine returns without closing natConn.
InitSwapLeaksNatConn(e) ==
    /\ initPc[e] = "swap"
    /\ state' = [state EXCEPT ![e] = "natConn"]
    /\ IF state[e] = "nil"
       THEN /\ initPc' = [initPc EXCEPT ![e] = "downlink"]
            /\ uplinkPc' = [uplinkPc EXCEPT ![e] = "run"]
            /\ wg' = wg + 1
       ELSE /\ initPc' = [initPc EXCEPT ![e] = "exit"]
            /\ UNCHANGED <<uplinkPc, wg>>
    /\ UNCHANGED <<table, nextEntry, ecsid, natConn, expired, ch, chClosed,
                   cache, published, lastClient, dnAddr, replies, fate,
                   pktEntry, nextPkt, ingressPc, listenerDeadline, serverConn,
                   stopPc, swept>>

\* oldState := entry.state.Swap(natConn).  A non-nil old value means Stop
\* got there first: close natConn and return.  Otherwise sendChClean is
\* set, s.wg.Add(1) and the uplink goroutine starts; this goroutine goes
\* on to the downlink loop.
InitSwap(e) ==
    /\ initPc[e] = "swap"
    /\ state' = [state EXCEPT ![e] = "natConn"]
    /\ IF state[e] = "nil"
       THEN /\ initPc' = [initPc EXCEPT ![e] = "downlink"]
            /\ uplinkPc' = [uplinkPc EXCEPT ![e] = "run"]
            /\ wg' = wg + 1
            /\ UNCHANGED natConn
       ELSE /\ initPc' = [initPc EXCEPT ![e] = "exit"]
            /\ natConn' = [natConn EXCEPT ![e] = "closed"]
            /\ UNCHANGED <<uplinkPc, wg>>
    /\ UNCHANGED <<table, nextEntry, ecsid, expired, ch, chClosed, cache,
                   published, lastClient, dnAddr, replies, fate, pktEntry,
                   nextPkt, ingressPc, listenerDeadline, serverConn, stopPc,
                   swept>>

\* Mutation: the downlink keeps the clientAddrInfop it was started with
\* and never reloads entry.clientAddrInfo.
DeliverReplyNoReload(e) ==
    /\ initPc[e] = "downlink"
    /\ ~expired[e]
    /\ replies[e] > 0
    /\ replies' = [replies EXCEPT ![e] = @ - 1]
    /\ UNCHANGED <<table, nextEntry, ecsid, state, natConn, expired, ch,
                   chClosed, cache, published, lastClient, dnAddr, initPc,
                   uplinkPc, fate, pktEntry, nextPkt, wg, ingressPc,
                   listenerDeadline, serverConn, stopPc, swept>>

\* One iteration of relayNatConnToServerConnGeneric that reads a datagram:
\* unpack, reload clientAddrInfo when the pointer changed, pack and write
\* it to the client at the loaded address over serverConn.  Unpack and
\* pack failures skip the write and leave nothing else changed, so they
\* are the same step here.
DeliverReply(e) ==
    /\ initPc[e] = "downlink"
    /\ ~expired[e]
    /\ replies[e] > 0
    /\ replies' = [replies EXCEPT ![e] = @ - 1]
    /\ dnAddr' = [dnAddr EXCEPT ![e] = published[e]]
    /\ UNCHANGED <<table, nextEntry, ecsid, state, natConn, expired, ch,
                   chClosed, cache, published, lastClient, initPc, uplinkPc,
                   fate, pktEntry, nextPkt, wg, ingressPc, listenerDeadline,
                   serverConn, stopPc, swept>>

\* The read returns os.ErrDeadlineExceeded: the downlink loop ends.
DownlinkExit(e) ==
    /\ initPc[e] = "downlink"
    /\ expired[e]
    /\ initPc' = [initPc EXCEPT ![e] = "exit"]
    /\ UNCHANGED <<table, nextEntry, ecsid, state, natConn, expired, ch,
                   chClosed, cache, published, lastClient, dnAddr, uplinkPc,
                   replies, fate, pktEntry, nextPkt, wg, ingressPc,
                   listenerDeadline, serverConn, stopPc, swept>>

\* Deferred calls run last-in first-out: s.wg.Done() comes first ...
InitExit(e) ==
    /\ initPc[e] = "exit"
    /\ initPc' = [initPc EXCEPT ![e] = "teardown"]
    /\ wg' = wg - 1
    /\ UNCHANGED <<table, nextEntry, ecsid, state, natConn, expired, ch,
                   chClosed, cache, published, lastClient, dnAddr, uplinkPc,
                   replies, fate, pktEntry, nextPkt, ingressPc,
                   listenerDeadline, serverConn, stopPc, swept>>

\* Mutation: the channel is closed but the table entry is left in place.
TeardownKeepsEntry(e) ==
    /\ initPc[e] = "teardown"
    /\ LockFree
    /\ initPc' = [initPc EXCEPT ![e] = "done"]
    /\ chClosed' = [chClosed EXCEPT ![e] = TRUE]
    /\ IF sendChClean(e)
       THEN UNCHANGED <<ch, fate>>
       ELSE /\ ch' = [ch EXCEPT ![e] = <<>>]
            /\ fate' = [p \in Packets |->
                          IF p \in ToSet(ch[e]) THEN "drained" ELSE fate[p]]
    /\ UNCHANGED <<table, nextEntry, ecsid, state, natConn, expired, cache,
                   published, lastClient, dnAddr, uplinkPc, replies, pktEntry,
                   nextPkt, wg, ingressPc, listenerDeadline, serverConn,
                   stopPc, swept>>

\* Mutation: the drain of an unclean channel is forgotten.
TeardownNoDrain(e) ==
    /\ initPc[e] = "teardown"
    /\ LockFree
    /\ initPc' = [initPc EXCEPT ![e] = "done"]
    /\ chClosed' = [chClosed EXCEPT ![e] = TRUE]
    /\ table' = [table EXCEPT ![ecsid[e]] = NoEntry]
    /\ UNCHANGED <<nextEntry, ecsid, state, natConn, expired, ch, cache,
                   published, lastClient, dnAddr, uplinkPc, replies, fate,
                   pktEntry, nextPkt, wg, ingressPc, listenerDeadline,
                   serverConn, stopPc, swept>>

\* ... then the teardown closure: under the server lock close the send
\* channel and delete the table entry; if the uplink never started, drain
\* the queued packets back to the pool.
Teardown(e) ==
    /\ initPc[e] = "teardown"
    /\ LockFree
    /\ initPc' = [initPc EXCEPT ![e] = "done"]
    /\ chClosed' = [chClosed EXCEPT ![e] = TRUE]
    /\ table' = [table EXCEPT ![ecsid[e]] = NoEntry]
    /\ IF sendChClean(e)
       THEN UNCHANGED <<ch, fate>>
       ELSE /\ ch' = [ch EXCEPT ![e] = <<>>]
            /\ fate' = [p \in Packets |->
                          IF p \in ToSet(ch[e]) THEN "drained" ELSE fate[p]]
    /\ UNCHANGED <<nextEntry, ecsid, state, natConn, expired, cache,
                   published, lastClient, dnAddr, uplinkPc, replies, pktEntry,
                   nextPkt, wg, ingressPc, listenerDeadline, serverConn,
                   stopPc, swept>>

-----------------------------------------------------------------------------
(***************************************************************************)
(* The uplink goroutine (relayServerConnToNatConnGeneric).                 *)
(***************************************************************************)

\* One packet received from natConnSendCh.  PackInPlace may fail (the
\* buffer goes back, nothing is written, the deadline is not refreshed);
\* otherwise the packet is written to natConn (the write may fail, and the
\* target may answer) and the read deadline is refreshed.
UplinkSend(e) ==
    /\ uplinkPc[e] = "run"
    /\ ch[e] # <<>>
    /\ LET p == Head(ch[e]) IN
       /\ ch' = [ch EXCEPT ![e] = Tail(@)]
       /\ \/ /\ fate' = [fate EXCEPT ![p] = "failed"]
             /\ UNCHANGED <<expired, replies>>
          \/ /\ fate' = [fate EXCEPT ![p] = "failed"]
             /\ expired' = [expired EXCEPT ![e] = FALSE]
             /\ UNCHANGED replies
          \/ /\ fate' = [fate EXCEPT ![p] = "sent"]
             /\ expired' = [expired EXCEPT ![e] = FALSE]
             /\ \E r \in {0, 1} : replies' = [replies EXCEPT ![e] = @ + r]
    /\ UNCHANGED <<table, nextEntry, ecsid, state, natConn, chClosed, cache,
                   published, lastClient, dnAddr, initPc, uplinkPc, pktEntry,
                   nextPkt, wg, ingressPc, listenerDeadline, serverConn,
                   stopPc, swept>>

\* The range over the closed, empty channel ends; natConn is closed and
\* s.wg.Done() called.
UplinkExit(e) ==
    /\ uplinkPc[e] = "run"
    /\ chClosed[e]
    /\ ch[e] = <<>>
    /\ uplinkPc' = [uplinkPc EXCEPT ![e] = "done"]
    /\ natConn' = [natConn EXCEPT ![e] = "closed"]
    /\ wg' = wg - 1
    /\ UNCHANGED <<table, nextEntry, ecsid, state, expired, ch, chClosed,
                   cache, published, lastClient, dnAddr, initPc, replies, fate,
                   pktEntry, nextPkt, ingressPc, listenerDeadline, serverConn,
                   stopPc,
                   swept>>

\* nat timeout: time reaches natConn's read deadline.
DeadlinePasses(e) ==
    /\ natConn[e] = "open"
    /\ initPc[e] \in {"swap", "downlink"}
    /\ ~expired[e]
    /\ expired' = [expired EXCEPT ![e] = TRUE]
    /\ UNCHANGED <<table, nextEntry, ecsid, state, natConn, ch, chClosed,
                   cache, published, lastClient, dnAddr, initPc, uplinkPc,
                   replies, fate, pktEntry, nextPkt, wg, ingressPc,
                   listenerDeadline, serverConn, stopPc, swept>>

-----------------------------------------------------------------------------
(***************************************************************************)
(* Stop.                                                                   *)
(***************************************************************************)

\* Stop with s.serverConn == nil (never started, or Start failed) returns
\* nil at once.
StopNil ==
    /\ stopPc = "idle"
    /\ serverConn = "nil"
    /\ stopPc' = "stopped"
    /\ UNCHANGED <<sessionVars, fate, pktEntry, nextPkt, wg, serverConn,
                   ingressPc, listenerDeadline, swept>>

\* s.serverConn.SetReadDeadline(now); then s.mwg.Wait().
StopBegin ==
    /\ stopPc = "idle"
    /\ serverConn = "open"
    /\ stopPc' = "waitIngress"
    /\ listenerDeadline' = TRUE
    /\ UNCHANGED <<sessionVars, fate, pktEntry, nextPkt, wg, serverConn,
                   ingressPc, swept>>

\* s.mwg.Wait() returns; s.server.Lock().
StopLock ==
    /\ stopPc = "waitIngress"
    /\ ingressPc = "done"
    /\ stopPc' = "sweep"
    /\ UNCHANGED <<sessionVars, fate, pktEntry, nextPkt, wg, ingressPc,
                   listenerDeadline, serverConn, swept>>

\* Mutation: the sweep only swaps entries whose natConn is published,
\* leaving unpublished entries free to publish later.
StopSweepPublishedOnly(e) ==
    /\ stopPc = "sweep"
    /\ InTable(e)
    /\ e \notin swept
    /\ swept' = swept \cup {e}
    /\ IF state[e] = "natConn"
       THEN /\ state' = [state EXCEPT ![e] = "serverConn"]
            /\ expired' = [expired EXCEPT ![e] = TRUE]
       ELSE UNCHANGED <<state, expired>>
    /\ UNCHANGED <<table, nextEntry, ecsid, natConn, ch, chClosed, cache,
                   published, lastClient, dnAddr, initPc, uplinkPc, replies,
                   fate, pktEntry, nextPkt, wg, ingressPc, listenerDeadline,
                   serverConn, stopPc>>

\* One iteration of the sweep: swap serverConn into entry.state; if a
\* natConn was published, set its read deadline to now.
StopSweep(e) ==
    /\ stopPc = "sweep"
    /\ InTable(e)
    /\ e \notin swept
    /\ swept' = swept \cup {e}
    /\ state' = [state EXCEPT ![e] = "serverConn"]
    /\ expired' = IF state[e] = "natConn"
                  THEN [expired EXCEPT ![e] = TRUE] ELSE expired
    /\ UNCHANGED <<table, nextEntry, ecsid, natConn, ch, chClosed, cache,
                   published, lastClient, dnAddr, initPc, uplinkPc, replies,
                   fate, pktEntry, nextPkt, wg, ingressPc, listenerDeadline,
                   serverConn, stopPc>>

\* The sweep is over: s.server.Unlock(); then s.wg.Wait().
StopUnlock ==
    /\ stopPc = "sweep"
    /\ \A e \in Entries : InTable(e) => e \in swept
    /\ stopPc' = "waitWorkers"
    /\ UNCHANGED <<sessionVars, fate, pktEntry, nextPkt, wg, ingressPc,
                   listenerDeadline, serverConn, swept>>

\* s.wg.Wait() returns; s.serverConn.Close() and Stop returns.
StopClose ==
    /\ stopPc = "waitWorkers"
    /\ wg = 0
    /\ stopPc' = "stopped"
    /\ serverConn' = "closed"
    /\ UNCHANGED <<sessionVars, fate, pktEntry, nextPkt, wg, ingressPc,
                   listenerDeadline, swept>>

-----------------------------------------------------------------------------
SessionStep(e) ==
    \/ InitRoute(e) \/ InitSetup(e) \/ InitSwap(e) \/ DeliverReply(e)
    \/ DownlinkExit(e) \/ InitExit(e) \/ Teardown(e)
    \/ UplinkSend(e) \/ UplinkExit(e) \/ DeadlinePasses(e)

StopStep ==
    StopLock \/ StopUnlock \/ StopClose \/ \E e \in Entries : StopSweep(e)

Next ==
    \/ Start
    \/ StopNil
    \/ recvFromServerConn
    \/ IngressExit
    \/ StopBegin
    \/ StopStep
    \/ \E e \in Entries : SessionStep(e)

Spec == Init /\ [][Next]_vars

\* Every goroutine keeps running, the router and the sockets answer, and
\* time passes, so read deadlines are eventually reached.  Clients need
\* not send (recvFromServerConn), and nobody need call Start or Stop
\* (Start, StopNil, StopBegin).
FairSpec ==
    /\ Spec
    /\ WF_vars(IngressExit)
    /\ WF_vars(StopStep)
    /\ \A e \in Entries : WF_vars(SessionStep(e))

-----------------------------------------------------------------------------
\* Every variable holds a value of its type.  For s.wg this is the
\* sync.WaitGroup contract that Done never outnumbers Add (a negative
\* counter panics): every goroutine that defers s.wg.Done() was counted
\* by an Add that happened before it could return.
TypeOK ==
    /\ table \in [CSIDs -> Entries \cup {NoEntry}]
    /\ nextEntry \in 0..MaxSessions
    /\ ecsid \in [Entries -> CSIDs]
    /\ state \in [Entries -> {"nil", "natConn", "serverConn"}]
    /\ natConn \in [Entries -> {"none", "open", "closed"}]
    /\ expired \in [Entries -> BOOLEAN]
    /\ \A e \in Entries : /\ ch[e] \in Seq(Packets)
                         /\ Len(ch[e]) <= SendChannelCapacity
    /\ chClosed \in [Entries -> BOOLEAN]
    /\ cache \in [Entries -> Clients \cup {NoClient}]
    /\ published \in [Entries -> Clients \cup {NoClient}]
    /\ lastClient \in [Entries -> Clients \cup {NoClient}]
    /\ dnAddr \in [Entries -> Clients \cup {NoClient}]
    /\ initPc \in [Entries -> InitPcs]
    /\ uplinkPc \in [Entries -> {"none", "run", "done"}]
    /\ replies \in [Entries -> Nat]
    /\ fate \in [Packets -> Fates]
    /\ pktEntry \in [Packets -> Entries \cup {NoEntry}]
    /\ nextPkt \in 0..MaxPackets
    /\ wg \in Nat
    /\ serverConn \in {"nil", "open", "closed"}
    /\ ingressPc \in {"none", "run", "done"}
    /\ listenerDeadline \in BOOLEAN
    /\ stopPc \in StopPcs
    /\ swept \subseteq Entries

-----------------------------------------------------------------------------
(***************************************************************************)
(* Safety.                                                                 *)
(***************************************************************************)

\* The ingress goroutine sends on an entry's natConnSendCh without a
\* select guard on closing, so the channel of every entry still in the
\* table must be open: the teardown closes it only together with the
\* delete, under the same lock the ingress holds.
NoSendOnClosedChannel ==
    \A c \in CSIDs : table[c] # NoEntry => ~chClosed[table[c]]

\* Once Stop has closed serverConn no downlink loop still runs (it writes
\* to serverConn): a session goroutine still routing when Stop swept the
\* table must find serverConn in entry.state and give up.
NoRelayAfterServerConnClosed ==
    serverConn = "closed" => \A e \in Entries : initPc[e] # "downlink"

\* Each reply the downlink writes to the client goes to the address and
\* pktinfo of the latest datagram ingress dispatched for that session: the
\* ingress publishes clientAddrInfo before the packet is queued, and the
\* downlink's copy, reloaded before each write, is not stale.
RepliesGoToLatestClient ==
    [][\A e \in Entries : DeliverReply(e) => dnAddr'[e] = lastClient[e]]_vars

\* The go.dev sync.WaitGroup contract: an Add that raises the counter from
\* zero must not race a Wait.  Stop's s.wg.Wait() runs while the counter is
\* zero, and a session goroutine returning from the router calls
\* s.wg.Add(1).
NoWaitGroupAddDuringWait ==
    [][stopPc = "waitWorkers" /\ wg = 0 => wg' = 0]_vars

\* The relay's spec (section 8): the session table is empty after Stop
\* returns.
TableEmptyAfterStop ==
    stopPc = "stopped" => \A c \in CSIDs : table[c] = NoEntry

\* spec.md, Shutdown step 3: Stop sets the read deadline of every published
\* natConn to now, "which causes the downlink worker to exit".  Once the
\* sweep has passed a session whose deadline is past, nothing moves the
\* deadline back before that session's downlink has exited; the uplink's
\* refresh after a write (natConn.SetReadDeadline(now + natTimeout)) must
\* not undo it.
StopDeadlineHolds ==
    [][\A e \in swept :
          expired[e] /\ initPc[e] = "downlink" => expired'[e]]_vars

(***************************************************************************)
(* Liveness.                                                               *)
(***************************************************************************)

\* Every buffer queued on a send channel eventually leaves it: written by
\* the uplink or drained by the teardown back to the pool.
QueuedPacketsLeave ==
    \A p \in Packets : fate[p] = "queued" ~> fate[p] # "queued"

\* Idle eviction without Stop: every session entry eventually leaves the
\* table.  The only way out is the downlink's read of natConn failing with
\* os.ErrDeadlineExceeded once the uplink stops refreshing the deadline,
\* or the session goroutine's own failure paths; each must reach the
\* deferred teardown that deletes the entry.
SessionsEventuallyEvicted ==
    \A e \in Entries : InTable(e) ~> ~InTable(e)

\* Once Stop is called it returns, and then every session is eventually
\* torn down and every NAT socket closed.
StopReleasesEverything ==
    stopPc # "idle" ~>
        /\ stopPc = "stopped"
        /\ \A c \in CSIDs : table[c] = NoEntry
        /\ \A e \in Entries : natConn[e] # "open"

=============================================================================
