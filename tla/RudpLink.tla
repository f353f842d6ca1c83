------------------------------ MODULE RudpLink ------------------------------
(***************************************************************************)
(* One session: a client (src/src/client.c) and the server's peer for it   *)
(* (src/src/server.c), each a rudp_peer, over UDP.                         *)
(*                                                                         *)
(* The network is the set of all packets ever sent.  A packet stays there, *)
(* so it may be received never (lost), once, or many times (duplicated),   *)
(* and in any order.  A timer may fire at any time after it was armed.     *)
(***************************************************************************)
EXTENDS RudpPeer

CONSTANTS
    RandomSeq,      \* RandomSeq[x]: the values rudp_random may return to x
    MaxIssued,      \* MaxIssued[x] bounds the reliable packets x queues
    MaxUnreliable   \* MaxUnreliable[x]: the unreliable ones between two of them

Client == "client"
Server == "server"
Side == {Client, Server}

Remote(x) == IF x = Client THEN Server ELSE Client

ASSUME LinkAssumption ==
    /\ RandomSeq \in [Side -> SUBSET SeqNo]
    /\ \A x \in Side : RandomSeq[x] # {}
    /\ MaxIssued \in [Side -> Nat] /\ MaxUnreliable \in [Side -> Nat]
    /\ MaxIssued[Client] >= 1                   \* its CONN_REQ
    /\ \A x \in Side : /\ 2 * (MaxIssued[x] + 2) < Modulus
                        /\ 2 * (MaxUnreliable[x] + 2) < Modulus

VARIABLES
    peer,       \* peer[x]: the rudp_peer of x
    life,       \* life[x]: whether the peer exists, and how it ended
    connected,  \* client->connected
    net,        \* net[x]: the packets x has sent
    app,        \* history: pos of the reliable packets x's application sent
    log         \* history: what was handed to x's application, in order

vars == <<peer, life, connected, net, app, log>>

(* "lost": dropped by the timeout; "left": dropped by the remote's CLOSE;  *)
(* "closed": closed by the application.                                    *)
Life == {"unborn", "live", "lost", "left", "closed"}

(* A delivery is known by the numbers of its packet; useq 0 is a reliable. *)
Delivery == [pos : Nat, useq : SeqNo]

TypeOK ==
    /\ peer \in [Side -> rudp_peer]
    /\ life \in [Side -> Life]
    /\ connected \in BOOLEAN
    /\ net \in [Side -> SUBSET Packet]
    /\ app \in [Side -> SUBSET Nat]
    /\ log \in [Side -> Seq(Delivery)]

(* rudp_client_connect calls rudp_peer_init, then rudp_peer_send_connect;  *)
(* the server has no peer for the client yet.                              *)
Init ==
    /\ \E r \in RandomSeq[Client], s \in RandomSeq[Server] :
          peer = [x \in Side |->
                    IF x = Client
                      THEN rudp_peer_send_connect(rudp_peer_init(r))
                      ELSE rudp_peer_reset(s)]
    /\ life = [x \in Side |-> IF x = Client THEN "live" ELSE "unborn"]
    /\ connected = FALSE
    /\ net = [x \in Side |-> {}]
    /\ app = [x \in Side |-> {}]
    /\ log = [x \in Side |-> << >>]

-----------------------------------------------------------------------------
(* p becomes the peer of x; the guards keep the counters within bounds. *)
Put(x, p) ==
    /\ p.issued <= MaxIssued[x]
    /\ p.out_seq_unreliable <= MaxUnreliable[x]
    /\ peer' = [peer EXCEPT ![x] = p]

(* The peer of x is deinitialised: its queue is freed, its timer removed. *)
End(x, how) ==
    /\ \E r \in RandomSeq[x] :
          peer' = [peer EXCEPT ![x] = rudp_peer_deinit(@, r)]
    /\ life' = [life EXCEPT ![x] = how]

(***************************************************************************)
(* rudp_client_send and rudp_server_send.  Only the client's is guarded by *)
(* connected; neither looks at the state of the peer.                      *)
(***************************************************************************)
MaySend(x) == life[x] = "live" /\ (x = Client => connected)

SendReliable(x) ==
    /\ MaySend(x)
    /\ Put(x, rudp_peer_send_reliable(peer[x], "APP"))
    /\ app' = [app EXCEPT ![x] = @ \cup {peer[x].issued + 1}]
    /\ UNCHANGED <<life, connected, net, log>>

SendUnreliable(x) ==
    /\ MaySend(x)
    /\ Put(x, rudp_peer_send_unreliable(peer[x], "APP"))
    /\ UNCHANGED <<life, connected, net, app, log>>

(***************************************************************************)
(* peer_service, the timer of x.  Whether the deadline has passed, and     *)
(* whether an idle peer has been silent for long enough to ping, are left  *)
(* open.                                                                   *)
(***************************************************************************)
Flush(x, p) ==
    /\ Put(x, peer_service_schedule(peer_send_queue(p)))
    /\ net' = [net EXCEPT ![x] = @ \cup Transmitted(p)]
    /\ UNCHANGED <<life, connected, app, log>>

(* The ELA_EVENT_ONCE timer has fired. *)
Fired(x) == [peer[x] EXCEPT !.scheduled = FALSE]

Service(x) ==
    /\ life[x] = "live" /\ peer[x].scheduled
    /\ Flush(x, Fired(x))

ServiceIdle(x) ==
    /\ life[x] = "live" /\ peer[x].scheduled
    /\ peer[x].sendq = << >>
    /\ Flush(x, peer_ping(Fired(x)))

(* client_peer_dropped and server_peer_dropped *)
ServiceTimeout(x) ==
    /\ life[x] = "live" /\ peer[x].scheduled
    /\ End(x, "lost")
    /\ connected' = (x = Server /\ connected)
    /\ UNCHANGED <<net, app, log>>

(* rudp_client_close sends a CLOSE past the queue, and only then forgets.  *)
ClientClose ==
    /\ life[Client] = "live"
    /\ peer[Client].out_seq_unreliable < MaxUnreliable[Client]
    /\ net' = [net EXCEPT ![Client] = @ \cup {ClosePacket(peer[Client])}]
    /\ End(Client, "closed")
    /\ UNCHANGED <<connected, app, log>>

(* rudp_server_client_close sends nothing. *)
ServerClientClose ==
    /\ life[Server] = "live"
    /\ End(Server, "closed")
    /\ UNCHANGED <<connected, net, app, log>>

-----------------------------------------------------------------------------
(***************************************************************************)
(* rudp_peer_incoming_packet(p, pc) for the peer p of x, one action per    *)
(* case; a packet whose ACK is broken changes nothing, so it has none.     *)
(***************************************************************************)
Settle(x, p, pc) ==
    /\ Put(x, Finished(p, pc))
    /\ life' = [life EXCEPT ![x] = "live"]
    /\ connected' = (x = Client \/ connected)   \* client_handle_endpoint_packet
    /\ UNCHANGED net

(* A CONN_REQ on a new peer opens the connection for the server. *)
RecvConnReq(x, p, pc) ==
    LET q == AckHandled(p, pc) IN
    /\ pc.cmd = "CONN_REQ" /\ q.state = "NEW"
    /\ packet_state(q, pc) = "UNSEQUENCED"
    /\ Settle(x, [peer_handle_connreq(q) EXCEPT
                    !.in_seq_reliable = pc.seq, !.state = "RUN",
                    !.rcvd = pc.pos], pc)
    /\ UNCHANGED <<app, log>>

(* Mutant: the number of the CONN_RSP is not taken over. *)
RecvConnRsp_KeepsSeq(x, p, pc) ==
    LET q == AckHandled(p, pc) IN
    /\ pc.cmd = "CONN_RSP" /\ q.state = "CONNECTING"
    /\ packet_state(q, pc) = "UNSEQUENCED"
    /\ Settle(x, [q EXCEPT !.state = "RUN", !.rcvd = pc.pos], pc)
    /\ UNCHANGED <<app, log>>

(* A CONN_RSP on a connecting peer opens it for the client; the second     *)
(* call of peer_handle_ack does not look at the flag, but a CONN_RSP       *)
(* always carries an ACK.                                                  *)
RecvConnRsp(x, p, pc) ==
    LET q == AckHandled(p, pc) IN
    /\ pc.cmd = "CONN_RSP" /\ q.state = "CONNECTING"
    /\ packet_state(q, pc) = "UNSEQUENCED"
    /\ Settle(x, [AckHandled([q EXCEPT !.in_seq_reliable = pc.seq,
                                       !.rcvd = pc.pos], pc)
                    EXCEPT !.state = "RUN"], pc)
    /\ UNCHANGED <<app, log>>

(* Any other packet out of sequence is ignored, its ACK excepted. *)
RecvUnsequenced(x, p, pc) ==
    LET q == AckHandled(p, pc) IN
    /\ packet_state(q, pc) = "UNSEQUENCED"
    /\ ~ (q.state = "NEW" /\ pc.cmd = "CONN_REQ")
    /\ ~ (q.state = "CONNECTING" /\ pc.cmd = "CONN_RSP")
    /\ Settle(x, q, pc)
    /\ UNCHANGED <<app, log>>

RecvRetransmitted(x, p, pc) ==
    LET q == AckHandled(p, pc) IN
    /\ packet_state(q, pc) = "RETRANSMITTED"
    /\ Settle(x, q, pc)
    /\ UNCHANGED <<app, log>>

(* CLOSE: server_peer_dropped.  Only clients send it. *)
RecvClose(x, p, pc) ==
    /\ pc.cmd = "CLOSE" /\ x = Server
    /\ packet_state(AckHandled(p, pc), pc) = "SEQUENCED"
    /\ End(x, "left")
    /\ UNCHANGED <<connected, net, app, log>>

RecvPing(x, p, pc) ==
    LET q == Sequenced(AckHandled(p, pc), pc) IN
    /\ pc.cmd = "PING"
    /\ packet_state(AckHandled(p, pc), pc) = "SEQUENCED"
    /\ Settle(x, IF q.state = "RUN" THEN peer_handle_ping(q, pc) ELSE q, pc)
    /\ UNCHANGED <<app, log>>

(* A PONG feeds the RTT estimator only; the others are empty cases. *)
RecvNothing(x, p, pc) ==
    LET q == Sequenced(AckHandled(p, pc), pc) IN
    /\ pc.cmd \in {"PONG", "NOOP", "CONN_REQ", "CONN_RSP"}
    /\ packet_state(AckHandled(p, pc), pc) = "SEQUENCED"
    /\ Settle(x, q, pc)
    /\ UNCHANGED <<app, log>>

(* A payload for a peer that does not run is accepted and thrown away. *)
RecvAppNotRunning(x, p, pc) ==
    LET q == Sequenced(AckHandled(p, pc), pc) IN
    /\ pc.cmd = "APP" /\ q.state # "RUN"
    /\ packet_state(AckHandled(p, pc), pc) = "SEQUENCED"
    /\ Settle(x, q, pc)
    /\ UNCHANGED <<app, log>>

(***************************************************************************)
(* A payload is handed to handle_packet, which may answer from inside the  *)
(* callback, that is, before the acknowledgement is posted.                *)
(***************************************************************************)
RecvApp(x, p, pc) ==
    LET q == Sequenced(AckHandled(p, pc), pc) IN
    /\ pc.cmd = "APP" /\ q.state = "RUN"
    /\ packet_state(AckHandled(p, pc), pc) = "SEQUENCED"
    /\ log' = [log EXCEPT ![x] = Append(@, [pos |-> pc.pos, useq |-> pc.useq])]
    /\ \/ Settle(x, q, pc) /\ UNCHANGED app
       \/ Settle(x, rudp_peer_send_unreliable(q, "APP"), pc) /\ UNCHANGED app
       \/ /\ Settle(x, rudp_peer_send_reliable(q, "APP"), pc)
          /\ app' = [app EXCEPT ![x] = @ \cup {q.issued + 1}]

Incoming(x, p, pc) ==
    /\ pc.ack # NoAck => ~ BrokenAck(p, pc.ack)
    /\ \/ RecvConnReq(x, p, pc)
       \/ RecvConnRsp(x, p, pc)
       \/ RecvUnsequenced(x, p, pc)
       \/ RecvRetransmitted(x, p, pc)
       \/ RecvClose(x, p, pc)
       \/ RecvPing(x, p, pc)
       \/ RecvNothing(x, p, pc)
       \/ RecvAppNotRunning(x, p, pc)
       \/ RecvApp(x, p, pc)

Receive(x, pc) == life[x] = "live" /\ Incoming(x, peer[x], pc)

(* server_handle_endpoint_packet: a CONN_REQ from an unknown address makes *)
(* a new peer, anything else is garbage.                                   *)
Accept(pc) ==
    /\ life[Server] = "unborn" /\ pc.cmd = "CONN_REQ"
    /\ Incoming(Server, peer_service_schedule(peer[Server]), pc)

-----------------------------------------------------------------------------
Next ==
    \/ \E x \in Side :
          \/ SendReliable(x)
          \/ SendUnreliable(x)
          \/ Service(x)
          \/ ServiceIdle(x)
          \/ ServiceTimeout(x)
          \/ \E pc \in net[Remote(x)] : Receive(x, pc)
    \/ \E pc \in net[Client] : Accept(pc)
    \/ ClientClose
    \/ ServerClientClose

Spec == Init /\ [][Next]_vars

-----------------------------------------------------------------------------
(* Properties *)

(* The reliable payloads handed to the application of x. *)
Delivered(x) == {log[x][i].pos : i \in {j \in DOMAIN log[x] : log[x][j].useq = 0}}

Before(d, e) == d.pos < e.pos \/ (d.pos = e.pos /\ d.useq < e.useq)

(* The application of x receives packets in the order in which they were   *)
(* sent and none twice, whatever the network does: an unreliable packet    *)
(* never overtakes, or is overtaken by, a reliable one                     *)
(* (peer_analyse_reliable, peer_analyse_unreliable).                       *)
InOrder ==
    \A x \in Side : \A i, j \in DOMAIN log[x] :
        i < j => Before(log[x][i], log[x][j])

(* Only payloads that the remote application sent are delivered, and none  *)
(* before every reliable payload sent earlier: what was delivered is a     *)
(* prefix of what was sent.                                                *)
NoGap ==
    \A x \in Side : \A d \in Delivered(x) :
        /\ d \in app[Remote(x)]
        /\ \A a \in app[Remote(x)] : a < d => a \in Delivered(x)

(* A reliable payload leaves the send queue of a live peer only after it   *)
(* was handed to the remote application (peer_handle_ack).                 *)
NothingLost ==
    \A x \in Side : life[x] = "live" =>
        \A a \in app[x] :
            \/ a \in Delivered(Remote(x))
            \/ \E i \in DOMAIN peer[x].sendq :
                   peer[x].sendq[i].rel /\ peer[x].sendq[i].pos = a

(* A CLOSE overtakes the queue (rudp_peer_send_close_noqueue), and yet the *)
(* server honours it only when it has delivered every reliable payload.    *)
CloseIsLast ==
    life[Server] = "left" => app[Client] \subseteq Delivered(Server)

(* out_seq_acked never claims more than the remote has accepted, in the    *)
(* arithmetic of the 16-bit counters.                                      *)
AckNeverAhead ==
    \A x \in Side : life[x] = "live" =>
        Delta(peer[x].out_seq_acked,
              Wrap(peer[x].iss + peer[Remote(x)].rcvd)) <= 0

(* The reliable packets queued are exactly the ones after out_seq_acked,   *)
(* and the ones already transmitted come first: peer_send_queue may stop   *)
(* at the first of those, and peer_handle_ack at the first of the others.  *)
SendqIsWindow ==
    \A x \in Side : life[x] = "live" =>
        LET q == peer[x].sendq IN
        /\ {q[i].pos : i \in {j \in DOMAIN q : q[j].rel}} =
              {k \in 1 .. peer[x].issued :
                  Delta(Wrap(peer[x].iss + k), peer[x].out_seq_acked) > 0}
        /\ \A i, j \in DOMAIN q : i < j /\ q[j].ret => q[i].rel /\ q[i].ret

(* A running peer's 16-bit in_seq_reliable is the number of the last       *)
(* reliable packet it accepted: the handshake left both ends in step.      *)
InStep ==
    \A x \in Side : life[x] = "live" /\ peer[x].state = "RUN" =>
        peer[x].in_seq_reliable =
            Wrap(peer[Remote(x)].iss + peer[x].rcvd)

(* A late acknowledgement never moves out_seq_acked back. *)
AckNeverMovesBack ==
    [][\A x \in Side :
          life[x] = "live" /\ life'[x] = "live" =>
              Delta(peer'[x].out_seq_acked, peer[x].out_seq_acked) >= 0]_vars

(* include/rudp/client.h on connected: "When this handler is called,       *)
(* client is guaranteed to have established a valid connection to the      *)
(* server."  The client knows of a connection when its peer runs.          *)
ConnectedIsEstablished ==
    life[Client] = "live" /\ connected => peer[Client].state = "RUN"

Channel == INSTANCE RudpChannel WITH
    sent <- app, Pos <- 0 .. MaxIssued[Client] + MaxIssued[Server],
    Useq <- SeqNo

(* A session is a channel: whatever the network loses, repeats or delays,  *)
(* each step of the two peers is, to the applications, a step of           *)
(* RudpChannel or none at all.                                             *)
ImplementsChannel == Channel!Spec

=============================================================================
