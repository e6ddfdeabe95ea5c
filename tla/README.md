# TLA+ models of shadowsocks-go's SOCKS5 engine and UDP session relay

This directory holds TLA+ models of the concurrent and protocol-heavy parts of the
repository, the TLC configurations that check them, and `PROJECT.json`, the
machine-readable index of components, runs, mutants, the source map, findings and
hazards.

## Source files

Four files under `src/`. Their names are partly hidden, so this README refers to each
one by its content:

| file | content |
|---|---|
| `src/conn/conn.go` | `ResolveAddr`: a DNS lookup, then a random pick among preferred-family addresses, falling back to the other family |
| `src/unnamed/part_000` | package `socks5`: client and server halves of RFC 1928/1929 negotiation, `prefixedReader` |
| `src/mmap/mmap_windows.go` lines 1–36 | Windows `readFile`: CreateFileMapping, MapViewOfFile, VirtualQuery, with unmapping on its error paths |
| `src/mmap/mmap_windows.go` lines 37–776 | package `service`, `udp_session_relay.go`: the UDP session relay with generic (one packet per syscall) uplink and downlink |
| `src/unnamed/part_001` | `udp_session_relay_linux.go`: the `sendmmsg`/`recvmmsg` batched uplink and downlink. This file comes from a different revision: it uses `bufp`, `packetBufPool` and `batchSize`, which the relay file does not define |

## Inventory

### UDP session relay (`udp_session_relay.go`, `part_001`)

The state, all on `UDPSessionRelay`:

- the listener `serverConn`;
- `table map[uint64]*session`, guarded by `s.server`'s lock;
- `wg`, which counts the session goroutines and the uplink goroutines;
- `mwg`, which counts the ingress goroutine;
- a `sync.Pool` of packet buffers.

Per `session`:

- `state`, an atomic pointer: nil, then natConn, or the serverConn sentinel;
- `clientAddrInfo`, an atomic pointer read by the downlink without the lock;
- `clientAddrPortCache` and `clientPktinfoCache`, used by ingress only;
- `natConn`, the socket toward the target;
- `natConnSendCh`, a bounded channel;
- the packers and unpackers, and `username`.

The goroutines and operations:

- **Ingress** (`recvFromServerConnGeneric`, one goroutine). It reads a datagram and
  extracts the session ID. Under the lock it then:
  - creates an entry for a new ID;
  - unpacks the datagram;
  - compares the client address and pktinfo with the caches, and when either changed, updates the caches, parses the pktinfo and republishes `clientAddrInfo`;
  - for a new entry, creates the channel, inserts the entry and spawns the session goroutine;
  - enqueues the packet without blocking, or drops it when the channel is full.

  Every failure drops the packet. The goroutine exits when a read returns deadline exceeded.
- **Session goroutine**, one per entry. It runs these steps in order:
  - `GetUDPClient`, then `wg.Add(1)`;
  - `NewSession`, `NewPacker`, `ListenUDP` and `SetReadDeadline`;
  - `state.Swap(natConn)`; if the old value is non-nil, it closes natConn and returns;
  - it sets `sendChClean` and spawns the uplink;
  - it runs the **downlink** (`relayNatConnToServerConnGeneric`) until a read returns deadline exceeded.

  Its deferred calls run last-in first-out: first `wg.Done()`, then a critical section that closes the channel and deletes the entry. After that, if the uplink never started, it drains the channel back to the pool.
- **Uplink** (`relayServerConnToNatConnGeneric`). For each queued packet it packs,
  writes to natConn and refreshes natConn's read deadline. When the channel is closed
  and empty, it closes natConn and calls `wg.Done()`.
- **Stop** runs these steps in order:
  - sets serverConn's deadline to now;
  - `mwg.Wait()`;
  - under the lock, swaps serverConn into every entry's `state`, and sets natConn's deadline to now where a natConn had been published;
  - `wg.Wait()`;
  - closes serverConn.
- The **batched variants** (`part_001`) behave the same way, but move up to `batchSize` packets per syscall.

The goroutines interact through shared state:

- the table and the lock;
- the two atomic pointers;
- the channel;
- read deadlines, which are the only way to wake a blocked reader;
- the wait groups.

These are the hard behaviours:

- the race between initialisation and Stop over `state`;
- a `wg.Add` placed after a blocking call;
- defer order;
- a stale published client address;
- a full channel;
- buffers left on a closed channel;
- deadlines refreshed by one goroutine and relied on by another.

These properties make the relay correct:

- ingress never sends on a closed channel;
- no relay goroutine writes to serverConn after Stop closes it;
- `s.wg` never goes negative: each deferred `wg.Done()` follows its `wg.Add(1)`;
- no buffer is left on a channel;
- replies go to the client's current address;
- Stop returns, and every session and socket is eventually released.

### SOCKS5 protocol engine (`part_000`)

The engine is sequential per connection. Each side's state is its position in the
exchange and the bytes it has consumed from the stream.

- **Client operations:**
  - `clientNegotiateAuthMethod`;
  - `clientDoUsernamePasswordAuth`;
  - `clientDoRequest`;
  - the `Client*` wrappers.
- **Server operations:**
  - `serverHandleMethodSelection`;
  - `serverHandleUsernamePassword`, which reads PASSWD over the UNAME bytes;
  - `serverHandleRequest`, which parses the address through `prefixedReader` and then holds the connection open for UDP ASSOCIATE;
  - `ServerAccept*`.

The two sides interact only through the byte stream. These are the hard behaviours:

- reading exactly the bytes of each message, so that the phases stay aligned;
- the off-by-one reads: NMETHODS−1, ULEN−1, and the 5-byte header that includes the first address byte;
- the aliased buffer;
- error replies written before failing.

These properties make the engine correct:

- the two sides agree on the outcome;
- the server consumes exactly the client's bytes;
- the two sides never both wait for input;
- credentials are accepted iff they match.

### Address codec

`AppendFromReader`, `ConnAddrFromSlice` and `WriteAddrFromConnAddr` are called by the
engine but are not under `src/`. They can be modelled only from the spec, and such
definitions are marked `spec_modelled`.

### ResolveAddr (`conn.go`)

A pure selection over the lookup result. Correct means: the result is in the lookup
result; it comes from the preferred family whenever that family is present; and an
empty result is an error.

### mmap `readFile` (Windows)

Sequential calls into Windows. Correct means every error path after MapViewOfFile
unmaps the view. Only its error paths are interesting, and they are simple.

## Modules and runs

### `UDPSessionRelay` (with `MCUDPSessionRelay`): the generic-mode relay

The variables correspond to the code as follows:

- `table`, `nextEntry` and `ecsid` correspond to `s.table`. Entries are numbers, so a session ID can come back after its entry is deleted.
- `state`, `natConn`, `expired`, `ch`, `chClosed`, `cache` and `published` are the per-session fields. `expired` means natConn's read deadline has passed.
- `initPc` and `uplinkPc` are the program counters of the session goroutine and the uplink.
- `replies` counts the target's datagrams waiting on natConn.
- `fate` and `pktEntry` record what happened to each buffer. `lastClient` is a history variable: the client of the latest packet ingress dispatched.
- `serverConn` is `s.serverConn`: nil, open or closed.
- `wg`, `ingressPc`, `listenerDeadline`, `stopPc` and `swept` cover the wait groups and Stop.

`Init` is the relay `NewUDPSessionRelay` returns: an empty table, no serverConn and
no goroutine. `Start` either fails in `ListenUDP`, which leaves serverConn nil, or
stores the socket and spawns ingress. The caller starts the relay once and before it
stops it. `StopNil` is Stop's early return when serverConn is nil.

Each atomic step is either one critical section under the server lock or one
operation on shared state. Stop holds the lock from `StopLock` to `StopUnlock`, and
no other action takes the lock while it does (`LockFree`). Local computation
(packing, unpacking, logging, statistics) is folded into the step that publishes its
result. Each `Swap` is its own step. The session goroutine's two deferred calls are
two separate steps: `InitExit` (`wg.Done`) and `Teardown`. Stop can observe the state
between them.

Data is abstracted:

- a client is a pair ⟨address, pktinfo⟩;
- `conn.ParsePktinfoCmsg` fails exactly on `BadPktinfos`;
- router, cipher, socket and deadline failures are nondeterministic outcomes on the paths where the code handles them;
- time is the action `DeadlinePasses`.

| run | cfg | expect | checks |
|---|---|---|---|
| `relay_safety` | `UDPSessionRelay.cfg` | pass | `TypeOK` (including `wg` ≥ 0), `NoSendOnClosedChannel`, `NoRelayAfterServerConnClosed` |
| `relay_replies` | `UDPSessionRelayReplies.cfg` | pass | `RepliesGoToLatestClient` when every pktinfo parses: the downlink's copy of `clientAddrInfo` (`dnAddr`, captured when the entry is created and reloaded at line 672 before each reply) is the latest client's |
| `relay_liveness` | `UDPSessionRelayLiveness.cfg` | pass | `QueuedPacketsLeave`, `StopReleasesEverything` and `SessionsEventuallyEvicted` (idle eviction without Stop) under `FairSpec` |
| `relay_stop_table` | `UDPSessionRelayStopTable.cfg` | violation | `TableEmptyAfterStop` (spec §8) |
| `relay_waitgroup` | `UDPSessionRelayWaitGroup.cfg` | violation | `NoWaitGroupAddDuringWait` (the `sync.WaitGroup` contract) |
| `relay_stale_addr` | `UDPSessionRelayStaleAddr.cfg` | violation | `RepliesGoToLatestClient` with a pktinfo the parser rejects |
| `relay_stop_deadline` | `UDPSessionRelayStopDeadline.cfg` | violation | `StopDeadlineHolds` (spec §4.4, Shutdown step 3) |

**Bounds.** The runs use two session IDs, two client addresses and two pktinfos, one
of them unparseable. The safety run has up to 2 session entries, 3 datagrams and
send channel capacity 2. That is enough for two concurrent sessions, the reuse of a
session ID after teardown, a channel that holds two packets, a full channel
(three datagrams to one session), and a packet arriving during every phase of Stop.
It takes about one minute. The liveness run has 2 datagrams and one
address, which keeps its tableau search within the time limit.

**Fairness.** `FairSpec` assumes weak fairness for each session's steps, for ingress
exit and for Stop's steps. These are goroutines the Go scheduler keeps running, and
system calls that return. The same weak fairness covers `DeadlinePasses`, because
wall-clock time reaches every deadline that is not refreshed. Clients sending
datagrams and the caller of Stop get no fairness.

**Findings.** Each violation run corresponds to a disagreement between the code and
what the spec or the Go API says:

1. **`TableEmptyAfterStop`.** Stop can return while the table still holds entries. A session goroutine still inside `GetUDPClient` is not yet counted in `s.wg`. A published session's `wg.Done()` is deferred to run before the teardown that deletes its entry.
2. **`NoWaitGroupAddDuringWait`.** That same goroutine calls `s.wg.Add(1)` from zero while Stop is in `s.wg.Wait()`. The `sync.WaitGroup` documentation calls this misuse. In any case, Stop does not wait for that goroutine.
3. **`RepliesGoToLatestClient`.** Ingress updates its address caches before `ParsePktinfoCmsg`, and a parse failure returns without republishing `clientAddrInfo`. The next datagram from the same client then matches the caches, so `clientAddrInfo` is never republished. Replies keep going to the old address or interface.
4. **`StopDeadlineHolds`.** The spec says Stop's deadline of now makes the downlink exit. Stop does not stop the uplink, though. An uplink that takes a packet still queued when Stop sweeps writes it and then sets the deadline to now+`natTimeout` (line 575). The downlink keeps reading, and Stop's `wg.Wait()` blocks until `natTimeout` has passed. The trace has ten steps: one datagram, Stop during the session's set-up, the swap, the sweep, and then the uplink's write.

### `UDPSessionQueue`: what a session promises, and the refinement

`UDPSessionQueue` is the abstract specification of the relay. It has no goroutines,
locks or sockets.

- Each client datagram is dropped or joins the bounded queue of an open session.
- An established session writes its queue in order.
- A closed session accepts nothing more.
- Only a session that was never established may discard its queue.

The refinement is checked for the batched session (`UDPSessionSendmmsg`, below), where
the order of the taken packets, the batch and the pack-failure paths make it worth
checking. For the generic relay, channel order and capacity hold by the construction
of a Go channel, so the mapping would only restate the channel.

### `ResolveAddr` (with `MCResolveAddr`)

The call is a one-step state machine:

- `Init` enumerates every lookup outcome: an error, or any list of up to 3 addresses drawn from 2 IPv4, 1 IPv4-mapped and 2 IPv6 addresses; and both preferences.
- `Call` picks a result from `Resolve`, which is the loop (`Partition`, `RECURSIVE`) plus the random pick.

The reference `Admissible` is written from the doc comment. Results are records, so
that errors and addresses compare in TLC.

| run | cfg | expect | checks |
|---|---|---|---|
| `resolve_addr` | `ResolveAddr.cfg` | pass | `ResolvesToPreferredFamily`, and `EveryAdmissibleAddrReachable`, which says the pick can return every admissible address |

The switch's default case, "neither IPv4 nor IPv6", cannot be reached by any valid
address.

### `MmapReadFile` (with `MCMmapReadFile`)

Each Windows call is one action that may fail. The deferred `CloseHandle` is part of
every return (`Return`). The caller's close function is `Close`. Lengths run over
0..5 with a page of 2, so requests smaller than, equal to, and larger than the
page-rounded region all occur.

| run | cfg | expect | checks |
|---|---|---|---|
| `mmap_read_file` | `MmapReadFile.cfg` | pass | `NoMappingLeak`: no error path leaks the handle or the view |

### `Socks5` (with `MCSocks5`): client and server over one connection

`in` holds both sides' arguments:

- the server's method, `enableTCP`, `enableUDP`, and whether `rw` is a `*net.TCPConn`;
- the client's method, credentials, command and target.

The connection is two byte sequences, `c2s` and `s2c`, plus `closed`. Each
`io.ReadFull` is one step. It is enabled when its bytes have arrived, and
`ClientReadFails` or `ServerReadFails` fire when the connection closed first.
Writes never block.

The server keeps its scratch buffer `b` byte by byte, with Go's 0-based indices. So
`serverHandleUsernamePassword` reading PASSWD into `b[2:2+PLEN]` over UNAME is
modelled exactly. The username lookup happens before that read, as in the code.

The request steps model `prefixedReader`: the ATYP and first address byte of the
5-byte header become the head of the address. `AppendFromReader` is `AddrRestLen`,
the number of further bytes it reads and its errors. It is not under `src/` and is
written from the specification (`spec_modelled`).

The environment has two actions:

- `ClientAbort`: the client's caller gives up mid-handshake, for example on a deadline.
- `ClientEndsAssociation`: the caller ends a UDP association by closing the connection.

The client may offer GSSAPI before its method, so that the server's NMETHODS > 1
branch is exercised. The code's clients offer exactly one method.

MC bounds:

- two users, with 2-byte and 1-byte names, so that both the ULEN > 1 read and the "PLEN inside the first 4 bytes" read occur;
- one password longer than the name it overwrites;
- four credential pairs: two valid, a wrong password and an unknown name;
- an IPv4 target, a one-letter domain target and an IPv6 target, so that every address type is read;
- CONNECT, BIND and UDP ASSOCIATE.

Every combination of the server's flags runs in one model, 2304 initial states and
40k states in all.

**Fairness.** `FairSpec` gives weak fairness to each side's steps. These are the two
goroutines, plus TCP delivering what was written. The callers' closes get no
fairness.

| run | cfg | expect | checks |
|---|---|---|---|
| `socks5_handshake` | `Socks5.cfg` | pass | `HandshakeAgreement`, `CredentialsChecked`, `HandshakeTerminates` |
| `socks5_zero_nmethods` | `Socks5ZeroNMethods.cfg` | violation | `ZeroNMethodsRejected` (spec §8) |

What the properties say:

- **`HandshakeAgreement`.** Unless the client's caller cut the handshake short, both sides agree whether the request was accepted. If it was, the server returns the client's target and the client returns the address the server sent.
- **`CredentialsChecked`.** STATUS is 0 exactly for the pairs in `userInfoByUsername`.
- **`HandshakeTerminates`.** The handshake always ends, so the two sides never wait on each other.

The mutants are the bugs these properties catch:

- a domain address read one byte short;
- the lookup done after PASSWD overwrote UNAME;
- reading NMETHODS bytes instead of NMETHODS−1 at line 397.

**Finding 5, `ZeroNMethodsRejected`.** The server reads 3 bytes before it checks
NMETHODS. A greeting with NMETHODS = 0 is only `05 00`, after which the client waits
for a reply. So the server never returns `zero-nmethods`, contrary to spec §8. It
either waits until a deadline closes the connection, or returns a short-read error.

### `UDPSessionSendmmsg` (with `MCUDPSessionSendmmsg`): one session in batch mode

The module models one session of the relay with the sendmmsg uplink and the
recvmmsg downlink (`part_001`). It has these actors:

- **Ingress** (`Ingress`): queues each datagram on `natConnSendCh`, or drops it when the channel is full. When the client roams, it first publishes the next version of `clientAddrInfo`. A client address is abstracted to that version number.
- **Session goroutine:** `SessionStart` wins the swap of `entry.state`, spawns the uplink and becomes the downlink, holding the first datagram's address. `SessionSwapLost` finds the serverConn Stop swapped in, closes its natConn and returns. `Teardown` is the deferred close of the channel. It drains the channel only when the uplink never started; otherwise the uplink owns the channel.
- **Stop:** `StopBegin` sets the listener's deadline and waits for ingress. `StopSweep` swaps serverConn into the entry and sets a published natConn's deadline to now. `StopClose` is `wg.Wait()` and closing serverConn.
- **Uplink:** one action per part of its loop, with the code's labels:
  - `UplinkRecv`: the blocking first dequeue;
  - `UplinkPack`: `PackInPlace` with its two failure exits, `continue main` and `goto next`;
  - `UplinkNext`: the non-blocking select;
  - `UplinkFlush`: `WriteMsgvec`, the deadline refresh and the buffers' return to the pool;
  - `UplinkExit`: closes natConn.
- **Downlink:** `DownlinkRecv` is Recvmmsg, or the deadline exit. `DownlinkSend` reloads `clientAddrInfo` and writes the batch.

A packet's `fate` records where its buffer is, and `pooled` the buffers back in
the pool. The session refines `UDPSessionQueue`, with one session. A packet counts
as written when the uplink takes it, because each batch is written in the order
taken.

| run | cfg | expect | checks |
|---|---|---|---|
| `sendmmsg_session` | `UDPSessionSendmmsg.cfg` | pass | `NoPooledBufferInUse`, `WriteBatchNonEmpty`, `RepliesGoToCurrentClient`, `QueuedPacketsWritten`, `RefinesSessionQueue`, `StopReleasesSession` |

What the properties say:

- **`NoPooledBufferInUse`.** No pooled buffer is still in the channel, the batch or the pack in hand.
- **`WriteBatchNonEmpty`.** The failure log reads `dequeuedPackets[count-1]`, so a batch must never be written empty.
- **`RepliesGoToCurrentClient`.** Each reply batch goes to the address published when its Recvmmsg returned, or a newer one.
- **`QueuedPacketsWritten`.** Every queued packet is written without waiting for more traffic or a timeout. The exception is a session that Stop cancelled before its relay started, which drains its packets.
- **`RefinesSessionQueue`.** Packets are taken in order, and teardown discards nothing once the uplink owns the channel.
- **`StopReleasesSession`.** A batch written after Stop's sweep moves the deadline from now back to now+`natTimeout` (`part_001` line 122). Even so, Stop returns and the session is torn down, provided time keeps reaching deadlines. The property states this as `WF_vars(DeadlinePasses) => ...`, so it adds the fairness of time without changing `FairSpec`.

The mutants are the bugs these properties catch:

- a failed pack left in the batch;
- `continue main` dropped;
- no reload of `clientAddrInfo`;
- a blocking second dequeue;
- a teardown that drains;
- a main loop that continues instead of exiting when the first dequeue finds the channel closed, so Stop's `wg.Wait()` never returns.

**Bounds.** `BatchSize` 2, channel capacity 2, 4 datagrams, 2 replies and one roam.
With these bounds the following all occur:

- a full channel;
- a full batch and a partial one;
- a pack failure at either position of a batch;
- a roam between a Recvmmsg and its send;
- teardown with packets still queued;
- Stop before the session starts, between its start and its first batch, and while a batch is in flight.

**Fairness.** `FairSpec` is weakly fair to the session start, the teardown, Stop's
steps once Stop is called, and the uplink and downlink loops. Deadlines and clients get no fairness, so
`QueuedPacketsWritten` holds without any timeout.

## Plan

The order is most important behaviour first.

1. `UDPSessionRelay`: the generic relay. **Done.**
2. `UDPSessionQueue` and the refinement `RefinesSessionQueue`, checked for the batched session. **Done.**
3. `UDPSessionSendmmsg`: the batched uplink and downlink of `part_001`, refining
   `UDPSessionQueue`. **Done.**
4. `Socks5`: client and server composed over byte streams. **Done.**
5. A closer model of the address codec, if the spec allows one: the byte-by-byte
   reads of `AppendFromReader` through `prefixedReader`, checked against a reference
   decode.
6. `ResolveAddr`. **Done.**
7. `MmapReadFile`. **Done.**
8. The relay's life cycle: `NewUDPSessionRelay`, `Start` and Stop's early return,
   and idle eviction as a liveness property. **Done.**
9. Stop in batch mode, with the sendmmsg uplink's deadline refresh (`part_001`
   line 122). **Done.**

## Not modelled, and why

- Ciphers, packers and unpackers, the router, the stats collector and logging. They
  are external collaborators. Only their success or failure is modelled.
- Stop's own `SetReadDeadline` error. It fails only on a closed socket, and
  serverConn is closed only by a Stop that has already returned.
- Buffer contents, headroom and packet sizes (`MaxPacketSizeForAddr`). These are data,
  and no property distinguishes them.
- How long Stop takes. The model has no clock. `StopDeadlineHolds` shows that
  Stop's deadline can be undone, and `StopReleasesEverything` that Stop still returns
  once time reaches the refreshed deadline.
- The SOCKS5 `Client*` wrappers (`ClientConnect`, `ClientUDPAssociate`, ...). They
  only fix the command, which `in.cmd` ranges over.
- `WriteAddrFromConnAddr` and `ConnAddrFromSlice` are taken as the identity on
  addresses given in wire form. The model's targets are already encoded. Failures
  of `rw.Write` are not modelled, because the server ignores them or returns them
  after the reply.
- `setRelayServerConnToNatConnFunc` and `setRelayNatConnToServerConnFunc` only pick
  the batch mode from configuration. `UDPSessionSendmmsg` models one session of batch
  mode. It leaves out the session's router and set-up failures and the `wg.Add`
  window, which are the same code as in `UDPSessionRelay`, where they are modelled.
- In the recvmmsg downlink, Recvmmsg errors other than the deadline loop back with
  no state change. Per-message unpack and pack failures change only which replies
  go out, so the model does not distinguish them.
