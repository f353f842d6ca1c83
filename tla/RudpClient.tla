----------------------------- MODULE RudpClient -----------------------------
(***************************************************************************)
(* The life of a client (src/src/client.c) with its endpoint and its one   *)
(* peer: connecting, losing the server, closing and starting again, and    *)
(* what the library touches meanwhile.  What the packets say is the        *)
(* subject of RudpLink; here a packet is only what it makes the client do. *)
(*                                                                         *)
(* The library calls the application in the middle of its functions, and   *)
(* the application may call back: frame is the callback that is running.   *)
(***************************************************************************)
EXTENDS Integers, RudpEndpoint

(***************************************************************************)
(* What the application and the server do beyond the simplest use, as a    *)
(* set.  Two things that include/rudp/client.h lets the application do:    *)
(*   "reconnect": it connects a client again that it has closed;           *)
(*   "close_inside": it calls rudp_client_close from handle_packet;        *)
(* two that it does not mention:                                           *)
(*   "send_closed": the application sends on a closed client;              *)
(*   "retry_failed": after a failed rudp_client_connect it connects again  *)
(*       or deinitialises the client without closing it first;             *)
(* and "server_closes": the server sends a CLOSE, which rudp_server never  *)
(* does.                                                                   *)
(***************************************************************************)
CONSTANTS
    Liberty,
    MaxQueue    \* bounds the send queue

ASSUME ClientAssumption ==
    /\ Liberty \subseteq
          {"reconnect", "close_inside", "send_closed", "retry_failed",
           "server_closes"}
    /\ MaxQueue \in Nat \ {0}

VARIABLES
    endpoint,
    address,    \* whether the address of the server is set
    peer,       \* peer->state, and whether the peer is initialised at all
    armed,      \* peer->scheduled: its timer is in the event loop
    queue,      \* how many packets peer->sendq holds
    buffers,    \* how many packet chains are allocated
    orphan,     \* a timer that the peer has lost is still in the event loop
    connected,  \* client->connected
    frame,      \* the callback that is running
    view,       \* what the application knows of the client
    misuse      \* history: the timer of a peer without one was armed

vars == <<endpoint, address, peer, armed, queue, buffers, orphan, connected,
          frame, view, misuse>>

Running == {"CONNECTING", "RUN"}

(* "dropped" and "left" are server_lost, called by the timer and by CLOSE. *)
Frame == {"idle", "packet", "connected", "dropped", "left"}

View == {"initialized", "connecting", "failed", "connected", "closed", "gone"}

TypeOK ==
    /\ endpoint \in Endpoint
    /\ address \in BOOLEAN /\ armed \in BOOLEAN /\ orphan \in BOOLEAN
    /\ connected \in BOOLEAN /\ misuse \in BOOLEAN
    /\ peer \in Running \cup {"none"}
    /\ queue \in 0 .. MaxQueue /\ buffers \in Nat
    /\ frame \in Frame /\ view \in View

(* rudp_client_init *)
Init ==
    /\ endpoint = rudp_endpoint_init
    /\ address = FALSE
    /\ peer = "none" /\ armed = FALSE /\ orphan = FALSE
    /\ queue = 0 /\ buffers = 0
    /\ connected = FALSE
    /\ frame = "idle" /\ view = "initialized"
    /\ misuse = FALSE

-----------------------------------------------------------------------------
(* peer_service_schedule: without a peer its source is NULL. *)
peer_service_schedule ==
    /\ armed' = (peer \in Running)
    /\ misuse' = (misuse \/ peer \notin Running)

(* The queue of the peer changes, and with it the b chains allocated. *)
Requeue(q, b) ==
    /\ q <= MaxQueue
    /\ queue' = q
    /\ buffers' = b + (q - queue)

(* Mutant: the packets in the queue are not freed. *)
rudp_peer_deinit_Leaks(b) ==
    /\ peer' = "none" /\ armed' = FALSE
    /\ queue' = 0 /\ buffers' = b

(* Mutant: the timer stays in the event loop. *)
rudp_peer_deinit_Armed(b) == peer' = "none" /\ Requeue(0, b) /\ UNCHANGED armed

rudp_peer_deinit(b) == peer' = "none" /\ armed' = FALSE /\ Requeue(0, b)

(* Mutant: connected is not reset. *)
client_peer_dropped_Connected(b) ==
    /\ rudp_peer_deinit(b)
    /\ endpoint' = rudp_endpoint_close(endpoint)
    /\ view' = "initialized"
    /\ UNCHANGED <<address, orphan, connected, misuse>>

(* Mutant: the endpoint is not closed. *)
client_peer_dropped_Open(b) ==
    /\ connected' = FALSE
    /\ rudp_peer_deinit(b)
    /\ view' = "initialized"
    /\ UNCHANGED <<endpoint, address, orphan, misuse>>

client_peer_dropped(b) ==
    /\ connected' = FALSE
    /\ rudp_peer_deinit(b)
    /\ endpoint' = rudp_endpoint_close(endpoint)
    /\ view' = "initialized"
    /\ UNCHANGED <<address, orphan, misuse>>

(* _endpoint_handle_incoming frees the chain that it has received into     *)
(* when the call is over; q and b are as in Requeue.                       *)
Done(q, b) == Requeue(q, b - 1) /\ frame' = "idle"

(* The end of client_handle_endpoint_packet. *)
Announce(q, b) ==
    IF connected
      THEN Done(q, b) /\ UNCHANGED <<connected, view>>
      ELSE /\ Requeue(q, b) /\ frame' = "connected"
           /\ connected' = TRUE /\ view' = "connected"

-----------------------------------------------------------------------------
(* What the application does *)

(* rudp_client_set_hostname, _set_ipv4, _set_ipv6, _set_addr *)
SetAddress ==
    /\ \/ view = "initialized"
       \/ view = "closed" /\ "reconnect" \in Liberty
    /\ address' = TRUE
    /\ UNCHANGED <<endpoint, peer, armed, queue, buffers, orphan, connected,
                   frame, view, misuse>>

MayConnect ==
    \/ view = "initialized"
    \/ view = "closed" /\ "reconnect" \in Liberty
    \/ view = "failed" /\ "retry_failed" \in Liberty

(* Mutant: the timer of the new peer is not armed. *)
rudp_client_connect_Unarmed ==
    /\ address /\ MayConnect /\ frame # "packet"
    /\ peer' = "CONNECTING"
    /\ orphan' = (orphan \/ armed)
    /\ queue' = 1 /\ buffers' = buffers + 1
    /\ endpoint' \in rudp_endpoint_bind(endpoint)
    /\ view' = IF endpoint'.fd THEN "connecting" ELSE "failed"
    /\ UNCHANGED <<address, connected, frame, misuse, armed>>

(* The peer is made, and its CONN_REQ queued, before the socket is bound.  *)
(* rudp_peer_init does not look at what the structure held before.         *)
rudp_client_connect ==
    /\ address /\ MayConnect /\ frame # "packet"
    /\ peer' = "CONNECTING" /\ armed' = TRUE
    /\ orphan' = (orphan \/ armed)
    /\ queue' = 1 /\ buffers' = buffers + 1
    /\ endpoint' \in rudp_endpoint_bind(endpoint)
    /\ view' = IF endpoint'.fd THEN "connecting" ELSE "failed"
    /\ UNCHANGED <<address, connected, frame, misuse>>

(* Only the flag connected is looked at. *)
rudp_client_send ==
    /\ connected
    /\ view \notin {"connecting", "connected"} =>
          view = "closed" /\ "send_closed" \in Liberty
    /\ Requeue(queue + 1, buffers)
    /\ peer_service_schedule
    /\ UNCHANGED <<endpoint, address, peer, orphan, connected, frame, view>>

(* A CLOSE is sent past the queue; connected stays as it is. *)
rudp_client_close ==
    /\ view \in {"connecting", "failed", "connected"}
    /\ frame = "packet" => "close_inside" \in Liberty
    /\ rudp_peer_deinit(buffers)
    /\ endpoint' = rudp_endpoint_close(endpoint)
    /\ view' = "closed"
    /\ UNCHANGED <<address, orphan, connected, frame, misuse>>

rudp_client_deinit ==
    /\ frame # "packet"
    /\ \/ view \in {"initialized", "closed"}
       \/ view = "failed" /\ "retry_failed" \in Liberty
    /\ endpoint' = rudp_endpoint_deinit(endpoint)
    /\ view' = "gone"
    /\ UNCHANGED <<address, peer, armed, queue, buffers, orphan, connected,
                   frame, misuse>>

(* The structure is used again. *)
rudp_client_init ==
    /\ view = "gone" /\ frame = "idle"
    /\ endpoint' = rudp_endpoint_init
    /\ address' = FALSE /\ connected' = FALSE
    /\ view' = "initialized"
    /\ UNCHANGED <<peer, armed, queue, buffers, orphan, frame, misuse>>

Application ==
    \/ SetAddress
    \/ rudp_client_connect
    \/ rudp_client_send
    \/ rudp_client_close
    \/ rudp_client_deinit
    \/ rudp_client_init

-----------------------------------------------------------------------------
(* client_handle_endpoint_packet; a packet with a broken ACK does nothing. *)

Incoming == frame = "idle" /\ Readable(endpoint)

(* peer_handle_ack takes transmitted packets out of the queue. *)
Acked == 0 .. queue

(* A payload in sequence is handed to handle_packet. *)
RecvData ==
    /\ Incoming /\ peer = "RUN"
    /\ \E q \in Acked : Requeue(q, buffers + 1)
    /\ frame' = "packet"
    /\ UNCHANGED <<endpoint, address, peer, armed, orphan, connected, view,
                   misuse>>

(* A CONN_RSP opens the connection. *)
RecvConnRsp ==
    /\ Incoming /\ peer = "CONNECTING"
    /\ peer' = "RUN"
    /\ \E q \in Acked : Announce(q, buffers + 1)
    /\ peer_service_schedule
    /\ UNCHANGED <<endpoint, address, orphan>>

(* Any other packet that is accepted or ignored; it may be answered. *)
RecvOther ==
    /\ Incoming
    /\ \E q \in Acked, answer \in {0, 1} : Announce(q + answer, buffers + 1)
    /\ peer_service_schedule
    /\ UNCHANGED <<endpoint, address, peer, orphan>>

FromNetwork == RecvData \/ RecvConnRsp \/ RecvOther

-----------------------------------------------------------------------------
(* peer_service *)

(* It transmits, or pings if the queue is empty, and arms the timer again. *)
(* A timer that its peer has lost runs with the peer that is there now.    *)
Serve ==
    /\ frame = "idle"
    /\ \E own \in BOOLEAN :
          /\ IF own THEN armed ELSE orphan
          /\ orphan' = (own /\ orphan)
    /\ \E q \in 0 .. queue \cup {1} :
          (q > queue => queue = 0) /\ Requeue(q, buffers)
    /\ peer_service_schedule
    /\ UNCHANGED <<endpoint, address, peer, connected, frame, view>>

(* The server is lost: its deadline has passed, or it has sent a CLOSE. *)
Losses == {"dropped"} \cup (IF "server_closes" \in Liberty THEN {"left"} ELSE {})

Lose(how) ==
    /\ frame = "idle"
    /\ IF how = "dropped"
         THEN armed /\ client_peer_dropped(buffers)
         ELSE Readable(endpoint) /\ client_peer_dropped(buffers + 1)
    /\ frame' = how

-----------------------------------------------------------------------------
(* A callback returns, and the library call goes on. *)

(* handle_packet: an ACK may be posted, and the timer is armed. *)
ReturnFromPacket ==
    /\ frame = "packet"
    /\ \/ Announce(queue, buffers)
       \/ queue = 0 /\ Announce(1, buffers)      \* peer_post_ack
    /\ peer_service_schedule
    /\ UNCHANGED <<endpoint, address, peer, orphan>>

(* connected and server_lost are called last, except that after a CLOSE    *)
(* rudp_peer_incoming_packet returns 0, as for any accepted packet.        *)
ReturnFromLast ==
    /\ frame \in {"connected", "dropped", "left"}
    /\ CASE frame = "connected" ->
              Done(queue, buffers) /\ UNCHANGED <<connected, view>>
         [] frame = "dropped" ->
              frame' = "idle" /\ UNCHANGED <<queue, buffers, connected, view>>
         [] frame = "left" -> Announce(queue, buffers)
    /\ UNCHANGED <<endpoint, address, peer, armed, orphan, misuse>>

Return == ReturnFromPacket \/ ReturnFromLast

-----------------------------------------------------------------------------
Next ==
    \/ Application
    \/ FromNetwork
    \/ Serve
    \/ \E how \in Losses : Lose(how)
    \/ Return

(***************************************************************************)
(* Callbacks return.  A peer that hears nothing expires, which is          *)
(* SilentPeerIsDropped of RudpTimer.  It is assumed of a client that no    *)
(* packet has reached (the first would set connected) or can reach.        *)
(***************************************************************************)
Silent == ~ connected \/ ~ Readable(endpoint)

Fairness == WF_vars(Return) /\ WF_vars(Silent /\ Lose("dropped"))

Spec == Init /\ [][Next]_vars /\ Fairness

-----------------------------------------------------------------------------
(* Properties *)

(* The library never arms the timer of a peer that is not initialised.     *)
(* include/rudp/client.h lets the application close the client "Anytime    *)
(* afer call to rudp_client_connect and until the server_lost handler is   *)
(* called".                                                                *)
NoTimerOfDeadPeer == ~ misuse

(* A peer has a timer in the event loop as long as it lives, or a silent   *)
(* server would never be noticed, and not a moment longer.                 *)
TimerLivesWithPeer ==
    /\ armed => peer \in Running
    /\ frame = "idle" /\ peer \in Running => armed
    /\ ~ orphan

(* The socket is open and watched while the application believes in a      *)
(* connection, and at no other time: no packet reaches a dead peer.        *)
SocketLivesWithConnection ==
    /\ endpoint.watched <=> view \in {"connecting", "connected"}
    /\ endpoint.watched => endpoint.fd /\ endpoint.source /\ peer \in Running

(* Payloads are handed over between connected() and the end of the         *)
(* connection only, also when the client connects again after the server   *)
(* was lost or after it was closed: include/rudp/client.h says that "A     *)
(* closed client context stays initialized", and may connect as at first.  *)
PacketOnlyWhenConnected == frame = "packet" => view = "connected"

(* include/rudp/client.h on server_lost: "client is left in the            *)
(* initialized state": when it is called nothing of the old connection is  *)
(* left, so that the handler may connect or deinitialise at once.          *)
LostIsInitialized ==
    [][frame' \in {"dropped", "left"} /\ frame = "idle" =>
          /\ ~ connected' /\ peer' = "none" /\ ~ armed'
          /\ ~ endpoint'.fd /\ ~ endpoint'.watched]_vars

(* Every packet chain is in the send queue of a live peer or, during a     *)
(* callback, held by _endpoint_handle_incoming: none is lost or freed      *)
(* twice when the connection ends in the middle of a call.                 *)
BuffersAreOwned ==
    /\ buffers = queue + (IF frame \in {"packet", "connected", "left"} THEN 1 ELSE 0)
    /\ queue > 0 => peer \in Running

(* An attempt to connect that is not answered ends with server_lost(), one *)
(* that is with connected(), if the application does not end it before,    *)
(* also when the socket could not be bound.  A client that is connected    *)
(* again after a close counts while no packet can reach it.                *)
ConnectEnds ==
    Silent /\ view \in {"connecting", "failed"}
        ~> view \notin {"connecting", "failed"}

=============================================================================
