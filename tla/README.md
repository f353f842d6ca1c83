# A TLA+ development of librudp

librudp is a C library for reliable, ordered messages over UDP. It is
single-threaded: an event loop (libela) calls it when a socket is readable or a
timer expires, and it calls the application back. What makes it hard is
therefore not threads but the network (loss, duplication, reordering, delay),
timers racing late packets, 16-bit arithmetic, and callbacks that re-enter the
library.

Paths below are relative to the repository (`src/peer.c` is `src/src/peer.c`
in `PROJECT.json`).

## 1. The parts of the system

| Part | State | Operations | Talks to |
|---|---|---|---|
| Peer (`src/peer.c`) | send queue, five 16-bit counters, `state`, `must_ack`, timer, RTT estimate, drop deadline | reset/init/deinit, send reliable / unreliable / connect / close, incoming packet, ACK handling, `peer_service` (timer) | endpoint (send), owner through `handler->handle_packet` and `handler->dropped`, packet pool |
| Client (`src/client.c`) | one peer, one endpoint, `connected` | connect, close, send, endpoint packet, peer dropped | peer, endpoint, application |
| Server (`src/server.c`) | endpoint, list of peers found by address | accept (CONN_REQ from an unknown address), packet for a known peer, send, send_all, client close, close, peer dropped | peers, endpoint, application |
| Endpoint (`src/endpoint.c`) | socket, event source, address | bind, close, recv, send | kernel, owner's `handle_packet` |
| Address (`src/address.c`) | resolver state, address list and cursor, port, cached text | set (four ways), next, get, compare, text | getaddrinfo |
| Packet pool (`src/packet.c`, `src/rudp.c`) | free list, two counters | alloc, free, deinit | everyone who builds a packet |
| Context (`src/rudp.c`) | event loop, allocator, random seed | init, deinit, random | everyone |

How a connection works. `rudp_client_connect` initialises the peer with a
random reliable number and queues a reliable `CONN_REQ`. The server makes a
peer for it, adopts its number, runs, and answers with one *unreliable*
`CONN_RSP`, which carries the ACK. The client adopts the server's number from
that packet. From then on a reliable packet has the next `reliable` number; an
unreliable one repeats the last reliable number and has the next `unreliable`
number after it. A receiver accepts a reliable packet only if it is the next
one, and an unreliable one only if its reliable number is the last accepted and
its unreliable number is larger than the last accepted. Any packet may carry an
ACK. The sender keeps reliable packets in its queue until they are acknowledged
and sends the first of them again when the timer expires; ten seconds without
an accepted packet drop the peer. An idle peer pings.

What each part has to guarantee:

* peer: order, no duplicate, no gap, nothing acknowledged that was not
  accepted, nothing removed from the queue that was not accepted, a window
  that survives the wrap, retransmission until acknowledged, a drop after
  silence and only then;
* client: `connected` means connected, no operation on a peer that is gone;
* server: one peer per address, every announced peer is dropped once, no use of
  a peer after it was freed;
* pool: counters equal to what they count, at most ten free buffers;
* address: no answer from a stale resolution.

The list of what is hard to test, with the line where it bites and the
property that covers it (or the reason none does), is `hazards` in
`PROJECT.json`.

## 2. What is modelled

| Module | Models |
|---|---|
| `SeqNum` | `uint16_t` increments and `int16_t` differences; the width (`Modulus`) is a constant |
| `RudpPeer` | `struct rudp_peer`, the packet header, and each function of `peer.c` as an operator from a peer to the peer it leaves behind |
| `RudpLink` | one session: a client and the server's peer for it, the network, the applications; the specification and its properties |
| `RudpChannel` | the abstract specification of a session: what the two applications may see |
| `RudpLinkInv` | the inductive invariant `IInv` of a session |
| `MCRudpLink` | the constants of the TLC instances |
| `RudpPeerProofs` | lemmas about `SeqNum` and the operators of `RudpPeer`, which the session and the pair share |
| `RudpLinkProofs` | the types of a session; acknowledgement only moves forward; `IInv` is inductive; the theorems that follow, among them that a session implements `RudpChannel` |
| `RudpTimer` | one peer in time: the delay of its timer, retransmission, back-off, ping, drop |
| `RudpTimerProofs` | the invariant of `RudpTimer` is inductive; its safety properties |
| `RudpPair` | two peers in time: the peers of `RudpPeer` with the timers of `RudpTimer` |
| `RudpPairProofs` | each peer of a pair is a peer of `RudpTimer`, and what follows for the pair |
| `RudpEndpoint` | `struct rudp_endpoint`: the descriptor and its event source |
| `RudpServer` | `server.c`: the list of peers, their memory, timers and user data, and the callbacks |
| `RudpServerProofs` | its invariant and all its safety properties |
| `RudpClient` | `client.c`: the life of a client with its endpoint, peer, timer and buffers, and the callbacks |
| `RudpClientProofs` | its safety properties, each under the liberties that it survives |
| `RudpAddress` | `struct rudp_address`: setting, resolving, walking, the cached text |
| `MCRudpAddress` | the constants of its TLC instances |
| `RudpAddressProofs` | its invariant and its properties |
| `PacketPool` | the packet buffers: the free list, its limit and its counters |
| `PacketPoolProofs` | its invariant and its properties |

How they compose. `RudpLink` puts two peers of `RudpPeer` on a network without
time; `RudpPair` puts two of them in time, and each is proved to be a peer of
`RudpTimer` (`EachIsATimer`). In `RudpTimer` the queue of a peer is three
counters; that is right because the transmitted packets are a prefix of the
queue, which is proved for a session (`SendqIsWindow`) and for a pair
(`SentFirst`). `RudpServer` and `RudpClient` use
`RudpEndpoint`, leave the contents of packets to `RudpLink`, and take from
`RudpTimer` that a silent peer is dropped. The sections on state, actions and
bounds that follow are about the session; the other modules come after them.

### State

`peer[x]` is the `rudp_peer` of side `x`. `net[x]` is the set of all the
packets `x` has ever transmitted. Nothing is removed from it, so that a packet
may be received never, once or many times, and in any order; it is the whole of
what `sendto`, UDP and `recvfrom` may do to datagrams (a failing `sendto` is a
loss). `life[x]` says whether the peer object exists and how it ended.
`connected` is `client->connected`. `app` and `log` are history: what each
application sent reliably, and what it was given.

A packet is its header; the payload is not represented. Two packets are told
apart by `pos`, the number of the reliable packet before truncation to 16 bits,
and by the unreliable number. `pos`, and the fields `iss`, `issued` and `rcvd`
of a peer, are history variables: no guard reads them except the bounds.

### Actions and code

| Action | Code |
|---|---|
| `Init` | `rudp_client_connect` |
| `SendReliable`, `SendUnreliable` | `rudp_client_send` (guarded by `connected`), `rudp_server_send` (unguarded) |
| `Service` | `peer_service` → `peer_send_queue` → `peer_service_schedule` |
| `ServiceIdle` | the same with an empty queue and a ping |
| `ServiceTimeout` | the deadline has passed: `dropped` → `rudp_peer_deinit` |
| `ClientClose` | `rudp_client_close`: a CLOSE past the queue, then deinit |
| `ServerClientClose` | `rudp_server_client_close`: no packet at all |
| `Accept` | `server_handle_endpoint_packet`, unknown address |
| `Receive` | `client_handle_endpoint_packet`, or the server's for a known peer |
| `Recv…` | the cases of `rudp_peer_incoming_packet`, each including the ACK handled before and the ACK posted and timer armed after |

`RecvApp` includes the application's callback, which may send a packet from
inside `handle_packet`, that is, before the acknowledgement is posted; the
packet then carries the ACK and no NOOP is queued. A broken ACK makes
`rudp_peer_incoming_packet` return `EINVAL` with nothing changed, so it has no
action.

`peer_send_queue` is stated without its loop: `Visited` are the positions the
loop reaches (up to the first retransmission), `Transmitted` what it puts on the
wire, `Kept` the positions that stay queued, and `Ordered(Kept)` enumerates
them in increasing order.

In a session time is abstracted: a timer may fire at any moment after it was armed, and
whether the drop deadline or the keepalive delay has passed is left open. Every
interleaving of a real clock is one of these, so a safety property shown here
holds for all delays, and the RTT estimator has no influence on it.

### Bounds

`MaxIssued[x]` (reliable packets queued by `x`) and `MaxUnreliable[x]`
(unreliable ones between two reliable ones) are the only bounds of the module;
they are guards in `Put` and in `ClientClose`. The network needs none, because it
is a set of packets with bounded numbers; to keep the instance small its runs
also bound the different packets transmitted (`MaxPackets`, a constraint of
`MCRudpLink`), which the proofs do not. `LinkAssumption` requires that twice the bound
plus two is below `Modulus`: otherwise a datagram delayed for half the number
space is indistinguishable from a new one, and no protocol with 16-bit numbers
can work. In the code that is a limit of about 32 000 packets that an old
datagram may survive; over a network that keeps datagrams for ever, as this one
does, it becomes a limit on the session.

### A peer in time: `RudpTimer`

A packet is only counted: `queue.sent` are the reliable packets transmitted and
not acknowledged, `fresh` and `plain` the reliable and the unreliable ones that
wait. Times are distances to now (`deadline` is `abs_timeout_deadline - now`,
`since` is `now - last_out_time`, `timer` the time until the timer is due), so no
clock has to be bounded. `deadline` stops at -1 and `since` one above
`DROP_TIMEOUT`. The first loses nothing, since every test of it only asks
whether it is negative or smaller than a delay of at least zero. The second
loses nothing either: `since` is compared with `ACTION_TIMEOUT`, and in a
delay it is beaten by the deadline, which is never more than `DROP_TIMEOUT`
away.

| Action | Code |
|---|---|
| `Send` | `rudp_peer_send_reliable`, `rudp_peer_send_unreliable` |
| `IncomingUnsequenced`, `IncomingRetransmitted`, `IncomingSequenced`, `IncomingPong` | the cases of `rudp_peer_incoming_packet`: any part of `sent` may be acknowledged first, an ACK, an answer or an application's packet may be queued, and the timer is armed last |
| `Drop`, `Retransmit`, `Transmit`, `Ping`, `Idle` | the branches of `peer_service` with `peer_send_queue` |
| `Tick` | the clock; the event loop runs a timer at most `MaxLate` ticks late |

`rttvar` is left out because nothing reads it. Fairness: `WF(Tick)`, time goes
on; `WF(Service)`, the event loop runs a timer that is due. Nothing is assumed
of the network or the application.

Bounds: the timeouts are scaled to 5, 10 and 3 ticks and keep their order; the
round trips are 0 and 9, which drive `srtt` to 0 and above `MAX_RTO`;
`QueueSizes`, here 0 and 1, are the numbers of waiting packets of each kind, of
which only "none" and "some" are told apart. The proofs have no such bound, and
`RudpPair` takes all of `Nat`.

### Two peers in time: `RudpPair`

`peer[x]` is the peer of `RudpPeer`, `clock[x]` its times as in `RudpTimer`,
`wire[x]` the packets on their way to `x`. The instance starts after the
handshake, when the client has pinged once and its PONG has just arrived. A
packet that is not lost is delivered within the tick, in order; the round trip
that a PONG reports is a choice from `RttSamples`.

| Action | Code |
|---|---|
| `Send` | `rudp_peer_send_reliable` |
| `Receive` | `rudp_endpoint_recv`, `rudp_peer_incoming_packet` of a running peer: `Handled` its queue and numbers, `Heard` its deadline, `Measured` the RTT |
| `Lose` | UDP |
| `Drop`, `Service` | the branches of `peer_service`, with `peer_send_queue` (`Sent`, `Backoff`) |
| `Tick` | the clock |

Two abstractions keep the instance finite. Only differences of sequence numbers
matter, so `Tick` renames the numbers of each side to start from its
`out_seq_acked`, wherever they occur; the modulus of 8 is then more than the
numbers in use. And a timer runs exactly `Late` ticks after it was due: an event
loop is always a little late, and the code depends on it, as a punctual timer
would never ping (`peer.c:710`, see below).

Bounds: one reliable payload at a time per side, next to the library's own
PINGs, PONGs and ACKs, and one lost packet. Time is coarse: a tick is about
`ACTION_TIMEOUT` / 12, and the lateness of a timer and a round trip, both a
tick or two, are much larger here than in reality. With an `ACTION_TIMEOUT` of
only a few ticks these delays add up to the drop timeout and a connection ends
without any loss, which is an artefact; 12 and 16 ticks are enough.

### The server: `RudpServer`

A peer is a block of memory (`Block`) that is allocated, freed and used again;
`peer_list`, `address`, `user_data` and `timers` (the blocks whose timer is in
the event loop) are what the code keeps about it. `known` are the peers the
application holds a pointer to, by the rules of `server.h`. The library calls
the application in the middle of its functions: `frame` is the call that waits
for a callback to return, with the cursor `tmp` of `rudp_server_close`'s loop,
and every `Return...` action is the rest of that call. `misuse` collects the places where
the library touches a block that is not allocated.

| Action | Code |
|---|---|
| `Bind`, `rudp_server_deinit`, `rudp_server_send`, `rudp_server_send_all`, `rudp_server_peer_data_set`, `rudp_server_client_close`, `rudp_server_close` | the API, between two library calls or from inside a callback |
| `Accept`, `Refuse`, `Deliver`, `Leave`, `Absorb` | `server_handle_endpoint_packet`, by what the packet makes the server do |
| `Serve`, `Expire` | the timer of a peer |
| `ReturnFromPacket`, `ReturnFromNew`, `ReturnFromDropped`, `ReturnFromShutdown` | the rest of a call after `handle_packet`, `peer_new`, `peer_dropped` |

`MayClose` are the calls from inside which the application closes peers other
than the one the callback is about (in `peer_new` also that one). Not
represented: closing the very peer that `handle_packet` or `peer_dropped` is
about, and `rudp_server_close` from inside those two. The code frees memory it
goes on using in these cases, so nothing could be said about what follows. With
`"shutdown"` in `MayClose` (closing another peer while `rudp_server_close` walks
the list) `NoUseAfterFree` fails, because the cursor may point to the peer that
was closed.

Three blocks and three addresses: one peer in a callback, its neighbour as
cursor and a third to close, and a block that is used again.

Fairness: callbacks return (`WF(Return)`), and a timer that is armed again and
again for a silent peer finally finds its deadline passed (`SF(Expire)`); this
is `SilentPeerIsDropped` of `RudpTimer`. Since the model has no time, `Expire`
may also happen early; `SilentClientsAreForgotten` uses the fairness only where
nothing is received or sent any more.

### The client: `RudpClient`

`view` is what the application knows of the client; `peer`, `armed`, `queue`,
`endpoint` and `connected` are the structure's fields; `buffers` counts the
packet chains allocated, and `orphan` says that a timer is in the event loop
that no peer knows any more. `frame` is the callback that is running.

| Action | Code |
|---|---|
| `SetAddress`, `rudp_client_connect`, `rudp_client_send`, `rudp_client_close`, `rudp_client_deinit`, `rudp_client_init` | the API |
| `RecvData`, `RecvConnRsp`, `RecvOther` | `client_handle_endpoint_packet`, up to the first callback |
| `Serve`, `Lose` | the timer; `client_peer_dropped`, by the timer or by a CLOSE |
| `ReturnFromPacket`, `ReturnFromLast` | the rest of the call after a callback |

`Liberty` lists what the application and the server may do beyond the simplest
use. The first two are uses that `client.h` documents, the others are not. The
passing run has `"reconnect"`. Each one alone breaks properties:

| Liberty | Breaks |
|---|---|
| `"reconnect"`: connect a closed client again | `PacketOnlyWhenConnected` (the run `client_reconnected`): `connected` stays set |
| `"close_inside"`: close from `handle_packet` | `NoTimerOfDeadPeer` (the run `client_closed_inside`), `PacketOnlyWhenConnected`, `BuffersAreOwned`: the rest of the call goes on without its peer |
| `"send_closed"`: send on a closed client | `NoTimerOfDeadPeer`, `BuffersAreOwned`: `connected` stays set, and nothing else is looked at |
| `"retry_failed"`: reconnect or deinitialise after a failed connect without closing | `TimerLivesWithPeer`, `SocketLivesWithConnection`, `BuffersAreOwned`, `NoTimerOfDeadPeer`: the old peer's timer stays in the loop |
| `"server_closes"`: the server sends a CLOSE | `NoTimerOfDeadPeer`, `SocketLivesWithConnection`, `BuffersAreOwned`: `connected()` is called after `server_lost()` |

The state of a client is small; `MaxQueue`, 16 packets, is its only bound.
Fairness: callbacks return, and the deadline passes for a client that no packet
has reached since it began to connect, or can reach because its socket was not
bound (`Silent`); this is `SilentPeerIsDropped` of `RudpTimer`. Nothing is assumed
of a client that hears something.

### Addresses: `RudpAddress`

A host is a model value for a family and the bytes of an address; an address is
a host with a port. `heap` holds the lists of `getaddrinfo` that have not been
freed; `wanted` and `nomem` are history. `rudp_address_set_hostname` is four actions, one for
each way it returns, the failures of `strdup` and `getaddrinfo` included.
`LongText` says which hosts have a text longer than the buffer size given to `inet_ntop`
(28 bytes, where a long IPv6 address needs up to 46): such a host has no text.
`MaxLists` bounds the lists alive at once.

### Buffers: `PacketPool`

`heap` is what was allocated and not freed, `held` what callers have, with the
length they asked for. `AllocPooled` and `AllocNew` are the two ways through
`rudp_packet_chain_alloc`, `FreePooled` and `FreeLarge` those through
`rudp_packet_chain_free`; the loop that trims the list is part of the first
(the second finds the list within its limit, because each call leaves it so). A
limit of two and four buffers pass the limit from both sides.

## 3. The runs

The `link_` runs use `MCRudpLink`. Deadlock is checked for the addresses and the
buffers only: a session, a peer, a server and a client really end.

| Run | Instance | Checks | States |
|---|---|---|---|
| `link` | modulus 12, both sides start at 9 so that the client's numbers wrap; the client issues 3 reliable packets and the server 1, with unreliable ones between them; 6 different packets are transmitted | `TypeOK`, `InOrder`, `NoGap`, `NothingLost`, `CloseIsLast`, `IInv`, `InStep`, `AckNeverAhead`, `SendqIsWindow`, `AckNeverMovesBack`, `ImplementsChannel` | 348 000 |
| `link_sentinel_loss` | a server packet numbered as the sentinel | `NothingLost`, violated | |
| `link_connected_early` | an unreliable packet of the server before its CONN_RSP | `ConnectedIsEstablished`, violated | |
| `timer` | any calls at any time, timers up to one tick late | `TypeOK`, `ArmedForDeadline`, `AsapIsNextTick`, `RetransmitNotEarly`, `SilentPeerIsDropped` | 25 000 |
| `pair` | two peers with one payload under way each, `ACTION_TIMEOUT` 12 ticks, one packet may be lost | `StaysWithoutLoss`, `EverythingIsAcked`, `EachIsATimer` | 350 000 |
| `pair_starved` | the same with 16 ticks | `OneLossIsRepaired`, violated | |
| `server` | three clients, three blocks of memory | `KnownIsValid`, `NoUseAfterFree`, `KnowsAll`, `OnePeerPerAddress`, `DataIsOwn`, `ClosedIsQuiet`, `SilentClientsAreForgotten` | 58 000 |
| `client` | one client that is lost, closed and connected again | `NoTimerOfDeadPeer`, `TimerLivesWithPeer`, `SocketLivesWithConnection`, `BuffersAreOwned`, `LostIsInitialized`, `ConnectEnds` | 173 |
| `client_closed_inside` | the application closes the client from `handle_packet` | `NoTimerOfDeadPeer`, violated | |
| `client_reconnected` | the application connects a client again that it has closed | `PacketOnlyWhenConnected`, violated | |
| `address` | three hosts, two ports, answers of one and of three hosts | `WalkInList`, `GetIsLastSet`, `TextIsCurrent` | 11 500 |
| `pool` | four buffers, limit two, requests below, at and above the default size | `CountersExact`, `OneOwner`, `LongEnough`, `DeinitFreesAll` | 700 |

* `InOrder`: packets reach the application in the order in which they were sent
  and none twice.
* `NoGap`: the reliable payloads delivered are a prefix of those sent.
* `NothingLost`: a reliable payload is delivered or still queued, as long as its
  sender lives.
* `CloseIsLast`: a CLOSE overtakes the queue on the wire and yet is honoured
  only after every reliable payload (its `reliable` number sees to it).
* `InStep`: the handshake leaves `in_seq_reliable` of a running peer at the
  number of the last packet accepted.
* `AckNeverAhead`: `out_seq_acked` never claims what the remote did not accept.
* `SendqIsWindow`: the reliable packets queued are those after `out_seq_acked`,
  and the transmitted ones are a prefix of the queue. The early exits of both
  loops, in `peer_send_queue` and in `peer_handle_ack`, are right only because
  of it.
* `AckNeverMovesBack`: a late ACK never undoes a newer one.
* `ImplementsChannel`: the session is the channel of `RudpChannel`. Each
  application submits reliable payloads in order; each is given payloads in
  order, none of them before a reliable one sent earlier; the server sees its
  client leave only with everything delivered. Every step of the peers is one
  step of this, or none.
* `ArmedForDeadline`, `AsapIsNextTick`: the timer is armed for the right one of
  its three delays, whatever happened since.
* `RetransmitNotEarly`: no retransmission within `rto` of the last output, except
  at the deadline.
* `SilentPeerIsDropped` (liveness): a peer that nobody calls any more is dropped;
  its own pings and retransmissions do not keep it alive.
* `StaysWithoutLoss`, `EverythingIsAcked` (liveness): with one reliable payload
  under way on each side, as long as nothing is lost no peer is dropped, and each
  queue is acknowledged completely again and again, although an owed ACK is not
  queued while the queue holds something to ride on. An application that sends
  while its packet waits for an ACK, and so arms the timer anew, is outside both;
  section 4 says what is known of it.
* `EachIsATimer`: each of the two takes only steps of `RudpTimer`, with loss too.
* `KnownIsValid`, `NoUseAfterFree`, `KnowsAll`, `OnePeerPerAddress`, `DataIsOwn`:
  the application's pointers are valid, the library touches only live peers, and
  a block that is used again remembers nothing.
* `ClosedIsQuiet`, `SilentClientsAreForgotten` (liveness): a closed server leaves
  nothing in the event loop, and a server that hears nothing frees everything,
  also the ghost peer that a late duplicate of a CONN_REQ makes.
* `NoTimerOfDeadPeer`, `TimerLivesWithPeer`, `SocketLivesWithConnection`,
  `BuffersAreOwned`, `LostIsInitialized`: timer, socket and chains belong to a
  connection and begin and end with it, over losses, failed binds, closes between
  calls and inside `connected()`, and reconnections after a loss or a close. The
  liberties that the run does not take are outside (the table in section 2).
* `ConnectEnds` (liveness): an attempt to connect that nothing answers ends, also
  after a failed bind.
* `WalkInList`, `GetIsLastSet`, `TextIsCurrent`: an address answers with what was
  last asked for, from a list that still exists, and its text agrees.
* `CountersExact`, `OneOwner`, `LongEnough`, `DeinitFreesAll`: the pool.

Why the bounds are enough: a behaviour that breaks one of these needs two
reliable packets in flight, a duplicate of the older one and an unreliable
packet on each side of a reliable one; the instance has three reliable
packets counting the handshake, unlimited duplicates, and numbers that wrap.
Six different packets (`MaxPackets`; a retransmission counts anew if its ACK has
changed) are a handshake, both payloads with an answer, and a CLOSE or a
retransmission.
For the properties listed below the proofs remove the bounds altogether.

### What the violations show

`link_connected_early`: the client calls `connected()` after any accepted
packet, also one that leaves its peer in `PEER_CONNECTING`.
`include/rudp/client.h:113-115` promises an established connection.

`link_sentinel_loss`: "nothing received yet" is stored as 0xFFFF, which is a
sequence number. A server packet with this number that reaches a client before
the CONN_RSP counts as a retransmission, is acknowledged and freed, and is never
delivered. One initial number in 65 536 for each early packet is exposed.

`pair_starved`: `peer_service_schedule` computes the delay of a retransmission
as `now - last_out_time + rto` (a remaining delay would be
`last_out_time + rto - now`), and every received packet arms the timer with it
anew. In the counterexample one PING of the client is lost while the server has
a reliable packet under way. The server's retransmissions arrive before the
client's timer expires and move it further away each time, so the PING is not
sent again; the ACK of the server's packet would ride on it (`peer_post_ack`
queues none while the queue is not empty); after `DROP_TIMEOUT` the server drops
the client. With `rto - since` in place of `since + rto` in `HeadDelay` the same
instance satisfies `OneLossIsRepaired` in all its 348 000 states.

`client_closed_inside`: `handle_packet` is called in the middle of
`rudp_peer_incoming_packet`. When it closes the client, the peer's event source
is freed and set to NULL, and the rest of the function gives it to the event
loop. `include/rudp/client.h:47-49` allows the call "anytime".

`client_reconnected`: `rudp_client_close` leaves `client->connected` set, which
`client_peer_dropped` resets. A client that is connected again after a close is
therefore not told of its new connection: `connected()` is called only when the
flag is clear (`client.c:135`), and payloads arrive without it.
`rudp_client_send` accepts payloads before the new handshake is over.
`include/rudp/client.h:147-150` says that a closed client "stays initialized" and
may connect.

### Met while modelling, without a run of their own

* An idle peer's timer expires after exactly `ACTION_TIMEOUT`, but a ping needs
  *more* than that since the last output (`peer.c:263`, `peer.c:710`). A punctual
  timer would send no ping, and its next expiry is the drop deadline. Unreliable
  output has the same effect at any time, because it moves `last_out_time`: a
  peer that only sends unreliable packets never pings and drops a remote that has
  nothing to say.
* The send functions return `sendto_err`, the result of some earlier `sendto`
  (`peer.c:571`, `peer.c:592`): an application that repeats a call because of
  this error sends its packet twice.
* After a CLOSE the log statement at `peer.c:398` reads the peer that `dropped`
  has freed; `NoUseAfterFree` admits this one place.
* The length given to `handle_packet` is `pc->len - sizeof(header)` with the
  size of a pointer (`server.c:121`, `client.c:87`): right only where a pointer
  has eight bytes.
* A round trip below a millisecond drives `srtt`, and with it `rto`, to 0, and
  doubling leaves it there (`peer.c:109`, `peer.c:121`). The peer then retransmits
  at every expiry of the shortest delay, and each arrival arms the timer of the
  remote for the same delay anew, before it has sent the ACK it owes. With
  `INITIAL_RTT = 0` and `RttSamples = {0}` `StaysWithoutLoss` fails without any loss,
  with an `ACTION_TIMEOUT` of 12, 24 and 40 ticks alike; an `rto` that starts at 1
  and doubles does not fail, as the intervals soon differ and the ACK gets through.
* All deadlines use `gettimeofday`: a step of the wall clock drops or suspends
  every peer.
* The list of `getaddrinfo` is released only if the address is still in state
  DONE, and only the last one: an address resolved and then set or resolved again
  leaks the earlier list. `client->address` is never deinitialised.
* The port of an address is overwritten before `strdup` can fail, so that a failed
  `rudp_address_set_hostname` leaves an old host with a new port; `GetIsLastSet`
  and `TextIsCurrent` except this case and say so. A failed resolution returns
  `errno`, which `getaddrinfo` sets only for `EAI_SYSTEM`: it may be 0.
* `link_info` is declared in all handlers and never called by `peer.c`.

## 4. The proofs

TLAPS checks all of it, for every value of the constants that satisfies the
assumption of the module (`ModulusAssumption` and `LinkAssumption`,
`TimerAssumption`, `PairAssumption`, `ServerAssumption`, `ClientAssumption`, `AddressAssumption`,
`PoolAssumption`). Every invariant named here was checked by TLC first.

| Module | Theorem | States | Under |
|---|---|---|---|
| `RudpLink` | `TypeCorrect` | `Spec => []TypeOK` | |
| | `AcksMoveForward` | `Spec => AckNeverMovesBack` | |
| | `Inductive` | `Spec => []IInv` | `NoSentinelClash` |
| | `DeliveryInOrder` | `Spec => []InOrder` | the same |
| | `DeliveryNoGap` | `Spec => []NoGap` | the same |
| | `DeliveryNothingLost` | `Spec => []NothingLost` | the same |
| | `DeliveryCloseIsLast` | `Spec => []CloseIsLast` | the same |
| | `HandshakeInStep` | `Spec => []InStep` | the same |
| | `AckedWasAccepted` | `Spec => []AckNeverAhead` | the same |
| | `QueueIsWindow` | `Spec => []SendqIsWindow` | the same |
| | `SessionIsChannel` | `Spec => ImplementsChannel` | the same |
| `RudpTimer` | `TimerInductive` | `Spec => []TimerInv` | |
| | `TimesStayInRange` | `Spec => []TypeOK` | |
| | `DeadlineIsWatched` | `Spec => []ArmedForDeadline` | |
| | `FreshIsSentAsap` | `Spec => []AsapIsNextTick` | |
| | `RetransmissionIsNotEarly` | `Spec => RetransmitNotEarly` | |
| `RudpPair` | `PairInductive` | `Spec => []PairInv` | |
| | `EachPeerIsATimer` | `Spec => EachIsATimer` | |
| | `HeadIsEnough` | `Spec => []HeadDecides` | |
| | `BothTimersInTime` | `Spec => []TimersInTime` | |
| | `NeitherRetransmitsEarly` | `Spec => RetransmitsNotEarly` | |
| `RudpServer` | `ServerInductive` | `Spec => []ServerInv` | `"shutdown" \notin MayClose` |
| | `KnownPeersAreValid` | `Spec => []KnownIsValid` | the same |
| | `FreedIsNotUsed` | `Spec => []NoUseAfterFree` | the same |
| | `ApplicationKnowsAll` | `Spec => []KnowsAll` | the same |
| | `AddressesAreUnique` | `Spec => []OnePeerPerAddress` | the same |
| | `DataIsNotInherited` | `Spec => []DataIsOwn` | the same |
| | `ClosedServerIsQuiet` | `Spec => []ClosedIsQuiet` | the same |
| `RudpClient` | `ClientTypes` | `Spec => [](TypeOK /\ buffers >= queue + Held(frame))` | |
| | `LostLeavesNothing` | `Spec => LostIsInitialized` | |
| | `PeerHasItsTimer` | `Spec => []TimerLivesWithPeer` | no `"retry_failed"` |
| | `SocketIsWatchedForAPeer` | `Spec => []SocketLivesWithConnection` | no `"retry_failed"`, no `"server_closes"` |
| | `PayloadsWhileConnected` | `Spec => []PacketOnlyWhenConnected` | no `"close_inside"`, no `"reconnect"` |
| | `OnlyLivePeersAreArmed` | `Spec => []NoTimerOfDeadPeer` | no liberty but `"reconnect"` |
| | `NoChainIsLost` | `Spec => []BuffersAreOwned` | the same |
| `RudpAddress` | `AddressInductive` | `Spec => []AddressInv` | |
| | `WalkStaysInList` | `Spec => []WalkInList` | |
| | `GetReturnsLastSet` | `Spec => []GetIsLastSet` | |
| | `TextFollowsAddress` | `Spec => []TextIsCurrent` | |
| `PacketPool` | `PoolInductive` | `Spec => []PoolInv` | |
| | `PoolTypeCorrect` | `Spec => []TypeOK` | |
| | `CountersAreExact` | `Spec => []CountersExact` | |
| | `BuffersHaveOneOwner` | `Spec => []OneOwner` | |
| | `BuffersAreLongEnough` | `Spec => []LongEnough` | |
| | `NothingIsLeft` | `Spec => []DeinitFreesAll` | |

### A session

The theorems of a session, except `TypeCorrect` and `AcksMoveForward`, are under
`NoSentinelClash`: the client's `CONN_REQ` is numbered neither 0xFFFF nor 0 and
the server's numbers stay below 0xFFFF.
`link_sentinel_loss` shows that the hypothesis cannot be dropped.

The argument. None of the properties is inductive: what a step does depends on
packets still in the network, perhaps for a long time. `IInv` therefore says
what every packet ever sent looks like, in terms of the unbounded numbers:

* `PacketOK`: the 16-bit number of a packet is `Wrap(iss + pos)`, its `pos` is
  at most what its sender issued, and the ACK it carries is the number of a
  packet its sender has accepted (or the sentinel, before the handshake);
* `SenderOK` / `QueueOK`: the queue is the window after the acknowledged number,
  in order, the transmitted packets first, and a packet never transmitted is
  beyond everything in the network;
* `ReceiverOK`: `in_seq_reliable` is `Wrap(remote iss + rcvd)`, or the peer is
  still connecting and holds the sentinel;
* `LogOK` / `LogInStep`: the log is ordered, holds every payload up to `rcvd`,
  and does not run ahead of `in_seq_unreliable`;
* `HistoryOK`: `rcvd` of one side never exceeds `issued` of the other;
* a CLOSE in the network was the last packet of its sender.

All these numbers lie within half the modulus of each other, so `Delta` on the
16-bit numbers has the sign of the difference of the unbounded ones; those
lemmas of modular arithmetic are proved once, in `RudpPeerProofs`. A step
changes one peer; for each operator there is a lemma on what it does to the
invariant of that peer, and one on what it may do to the facts the other side
relies on, which is only to let `issued`, `rcvd`, `net` and `app` grow. `IInv` is also checked by
TLC, in `link`.

The refinement `SessionIsChannel` needs no further invariant. `IInv` holds before
and after a step, and the log after it tells what the step delivered: in the
longer log the payload is later than all others, and everything accepted up to it
is there (`DeliveryFits`). A CLOSE that the server honours leaves `rcvd` at the
client's `issued` (`RecvCloseEnds`). The mapping is the identity on `life`, `log`
and `app`; peers, packets and network are hidden.

`AcksMoveForward` needs only the types. `peer_handle_ack` compares the ACK with
`out_seq_acked` before it takes it over, and every other function of the peer
leaves that field alone (`AckedIsKept`). The ACK of a CONN_RSP is handled twice, and
the second time changes nothing (`AckHandledTwice`). So the theorem also covers
the sessions that meet the sentinel.

### A peer in time

The proofs about `RudpTimer` hold for all timeouts with
`1 <= MAX_RTO <= ACTION_TIMEOUT`, all round trips and any queue. `TimerInv` is the
conjunction of the type invariant with the three properties of the timer:
`RetransmitNotEarly` needs `WaitsForRto`, and that one is inductive only together
with the fact that a due timer is at most zero and that every call ends by
arming it (`RearmedInv`, which covers all actions but `Tick` and `Drop`).

### Two peers in time

`EachPeerIsATimer` is the refinement that ties the two views of a peer: the
list of packets with flags, numbers and loops in `RudpPeer`, and the three
counters of `RudpTimer`. It holds for every width of the numbers, every
time-out, round trip and lateness that `PairAssumption` admits, any number of
payloads under way and any number of losses. The mapping counts the packets of the
queue by their flags (`Seen`).

It needs an invariant, `PairInv`, because the loops look at less than the
counters say: `peer_service_schedule` looks at the head of the queue,
`peer_send_queue` stops at the first retransmission and `peer_handle_ack` at
the first packet that it may not remove. `SentFirst` (the transmitted packets
come first) and `SentIsReliable` make the head speak for the queue, which
`HeadIsEnough` states as the code's own test. With them `VisitedIs` finds that
the loop of `peer_send_queue` reaches either the head alone or the whole queue,
which are `Retransmit` and `Transmit` of `RudpTimer`; `SuffixSeen` that an
acknowledgement takes packets from `sent` only; and `SeenAppend` that whatever is
queued is counted by its kind. `PongIsPlain`, for the queues and for the
packets under way, is needed because `IncomingPong` queues no ACK.

The invariant of `RudpTimer` then holds for both peers. Its proof is used again
by instantiating `RudpTimerProofs` for each side (`ClientTimer`,
`ServerTimer`); only the initial states differ, since the pair starts after its
handshake. `BothTimersInTime` and `NeitherRetransmitsEarly` are the result.

### The server

`ServerInv` adds to the properties what makes them inductive. `SameSets`: the
blocks allocated, the list and what the application knows are one set, at every
moment and not only between two calls, and timers and user data belong to it.
`ListedOnce`: `rudp_list_remove` takes a peer off the list completely
(`UnlinkedFacts`). `FrameOK`: the peer that a running callback is about still
exists, and `rudp_server_close` stands at the head of the list with its cursor on
the second peer, so that the block it frees next is never the one its cursor
names. Closing another peer in that callback breaks the last fact, which is why
`"shutdown"` is excluded; TLC shows the use after free. `BoundOrEmpty`: a server
without a socket has no peers, so that binding again starts from nothing.

### The client

`Liberty` is a constant, so each theorem says exactly what its property needs, and
TLC finds a violation for each liberty that a theorem excludes. `BaseInv` holds
for all of them: chains may leak, none is freed twice. `TimerInv` ties the timer to
the peer and needs that a failed connect is closed. `SocketInv` ties the socket,
the peer and the application's view together; a CLOSE of the server breaks it,
because `connected()` may follow `server_lost()`. `PacketInv` ties the flag
`connected` to the view and survives everything that the server does; a
reconnection after a close breaks it, so that `PayloadsWhileConnected` excludes
this documented use, and `client_reconnected` shows that it has to. `CarefulInv`
(timers of dead peers, ownership of chains) is inductive only with the first
three, and does not need `PacketInv`.

### Addresses and buffers

`ListInv`: `resolver_state` alone decides whether `addr` is set and whether
`addrinfo` and `cur` may be followed; a list is freed only in state DONE, and that
state is left with it. `GetInv`: a list in use stands for exactly the addresses
that were asked for, with the current port, so that a walk cannot leave them; it
excepts the failed `strdup` (`nomem`), which changes the port first.

`PoolInv`: every buffer has its own memory and one owner (a position of the list
or one caller), only default buffers are listed, and while the context is
initialised the counters are cardinalities. The list is within its limit before
each call, so the loop that trims it runs at most once, and what it frees is the
buffer that was just returned (`FreeEffect`). That the memory is finite bounds
`allocated_packets` (`HeapFits`).

### Only model-checked

* Liveness is beyond the prover: `SilentPeerIsDropped`, `EverythingIsAcked`,
  `SilentClientsAreForgotten` and `ConnectEnds` are TLC's. `RudpLink` states no
  fairness; it is a safety specification.
* `StaysWithoutLoss` of `RudpPair` depends on the time-outs, so there is no theorem
  to prove, and it is confined to one payload under way on each side. Every call and every packet arms the timer anew,
  so what a peer owes may wait for as many calls as the applications make, each
  a little late: with two payloads under way and 12 ticks TLC finds a drop without
  a loss, with 20 ticks none. An `rto` that stays at zero
  fails also with 40 ticks (above), and one that stays at a tick (`MAX_RTO = 1`)
  with 30. How the time-outs have to exceed
  `MaxReliable`, `MAX_RTO` and `Late` is not settled here; the run fixes them.

## 5. What is not modelled, and the plan

Done: the session and its abstract specification, one peer and two peers in
time, the server, the client, the endpoint, addresses, buffers; and a theorem for
each safety property that a passing run checks, except `StaysWithoutLoss`. What is
left is a condition on the time-outs under which the connection stays for any
number of payloads under way, and liveness with a prover that can express it.

Not modelled of the server: closing the peer a callback is about, and
`rudp_server_close` from inside `handle_packet` or `peer_dropped` (above).

Left out for good: logging, `rudp_command_name`, the text of addresses beyond
its caching, the intrusive list's pointers (a queue is a sequence), the kernel
and libela, and the failure of `malloc` inside `peer.c`, which the code does not
check.
