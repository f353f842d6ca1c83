-------------------------- MODULE RudpClientProofs --------------------------
(***************************************************************************)
(* Proofs about RudpClient, for any length of the send queue.              *)
(*                                                                         *)
(* What the client promises depends on what the application and the server *)
(* do beyond the simplest use (Liberty).  Each theorem excludes only the   *)
(* liberties that break its property, so the five invariants below say     *)
(* which of them does which harm.                                          *)
(***************************************************************************)
EXTENDS RudpClient, TLAPS

(* The chain that _endpoint_handle_incoming holds during a callback. *)
Held(f) == IF f \in {"packet", "connected", "left"} THEN 1 ELSE 0

(* Whatever is done, no chain is freed twice. *)
BaseInv == TypeOK /\ buffers >= queue + Held(frame)

(* Unless a failed client is used without closing it: a client that may    *)
(* be connected or deinitialised has no peer.                              *)
TimerInv ==
    /\ armed <=> peer \in Running
    /\ ~ orphan
    /\ view \in {"initialized", "closed", "gone"} => peer = "none"

(* If moreover the server sends no CLOSE: the socket, the peer and what    *)
(* the application believes go together.                                   *)
SocketInv ==
    /\ endpoint.fd <=> endpoint.watched
    /\ endpoint.watched <=> view \in {"connecting", "connected"}
    /\ view # "gone" => endpoint.source
    /\ peer \in Running <=> view \in {"connecting", "failed", "connected"}
    /\ peer = "RUN" => connected
    /\ frame = "packet" => connected
    /\ frame # "left"

(* Unless the client is closed inside handle_packet, or connected again    *)
(* after it was closed: the flag connected and the application agree.      *)
PacketInv ==
    /\ connected /\ peer \in Running => view = "connected"
    /\ peer = "RUN" => connected
    /\ frame = "packet" => connected /\ view = "connected"
    /\ view \in {"initialized", "connecting", "failed"} => ~ connected
    /\ view = "closed" => peer = "none"
    /\ view = "gone" /\ connected => peer = "none"

(* With no liberty but to connect a closed client again: chains and timers *)
(* belong to a live peer.                                                  *)
CarefulInv ==
    /\ BuffersAreOwned /\ NoTimerOfDeadPeer
    /\ frame = "packet" => peer \in Running

-----------------------------------------------------------------------------
(* The endpoints that a bind may leave behind. *)
LEMMA BindFacts ==
  ASSUME NEW e \in Endpoint, NEW f \in rudp_endpoint_bind(e)
  PROVE  /\ f \in Endpoint /\ f.source = e.source
         /\ ~ e.fd /\ ~ e.watched => (f.fd <=> f.watched)
  BY DEF rudp_endpoint_bind, Bound, BindFailed, rudp_endpoint_close, Endpoint

LEMMA EndpointFacts ==
  ASSUME NEW e \in Endpoint
  PROVE  /\ rudp_endpoint_init \in Endpoint
         /\ rudp_endpoint_init.source
         /\ ~ rudp_endpoint_init.fd /\ ~ rudp_endpoint_init.watched
         /\ rudp_endpoint_close(e) \in Endpoint
         /\ rudp_endpoint_close(e).source = e.source
         /\ ~ rudp_endpoint_close(e).fd /\ ~ rudp_endpoint_close(e).watched
         /\ rudp_endpoint_deinit(e) \in Endpoint
         /\ rudp_endpoint_deinit(e).fd = e.fd
         /\ rudp_endpoint_deinit(e).watched = e.watched
  BY DEF rudp_endpoint_init, rudp_endpoint_close, rudp_endpoint_deinit, Endpoint

LEMMA MaxQueueType == MaxQueue \in Nat \ {0}
  BY ClientAssumption

(* What a change of the queue does to the numbers. *)
LEMMA RequeueFacts ==
  ASSUME queue \in 0 .. MaxQueue, NEW b \in Int, NEW q \in Nat, Requeue(q, b)
  PROVE  /\ queue' = q /\ queue' \in 0 .. MaxQueue
         /\ buffers' \in Int /\ buffers' - queue' = b - queue
  BY MaxQueueType DEF Requeue

(* ... and the end of client_handle_endpoint_packet. *)
LEMMA AnnounceFacts ==
  ASSUME queue \in 0 .. MaxQueue, NEW b \in Int, NEW q \in Nat, Announce(q, b)
  PROVE  /\ queue' = q /\ queue' \in 0 .. MaxQueue /\ buffers' \in Int
         /\ buffers' - queue' - Held(frame') = b - queue - 1
         /\ frame' = IF connected THEN "idle" ELSE "connected"
         /\ connected' = TRUE \/ connected' = connected
         /\ connected => connected' = connected /\ view' = view
         /\ ~ connected => connected' = TRUE /\ view' = "connected"
<1>1. CASE connected
  <2>1. Requeue(q, b - 1) /\ frame' = "idle" /\ UNCHANGED <<connected, view>>
    BY <1>1 DEF Announce, Done
  <2> QED
    BY <1>1, <2>1, RequeueFacts DEF Held
<1>2. CASE ~ connected
  <2>1. /\ Requeue(q, b) /\ frame' = "connected"
        /\ connected' = TRUE /\ view' = "connected"
    BY <1>2 DEF Announce
  <2> QED
    BY <1>2, <2>1, RequeueFacts DEF Held
<1> QED
  BY <1>1, <1>2

(* What a step does to the numbers: only a connect may lose a chain. *)
NumbersOK ==
    /\ queue' \in 0 .. MaxQueue /\ buffers' \in Int
    /\ \/ buffers' - queue' - Held(frame') = buffers - queue - Held(frame)
       \/ rudp_client_connect

LEMMA NumberStep ==
  ASSUME TypeOK, Next
  PROVE  NumbersOK
<1> USE DEF NumbersOK
<1>1. queue \in 0 .. MaxQueue /\ buffers \in Int /\ queue \in Nat
  BY MaxQueueType DEF TypeOK
<1>2. CASE SetAddress \/ rudp_client_deinit \/ rudp_client_init
  BY <1>1, <1>2 DEF SetAddress, rudp_client_deinit, rudp_client_init
<1>3. CASE rudp_client_connect
  BY <1>1, <1>3, MaxQueueType DEF rudp_client_connect
<1>4. CASE rudp_client_send
  <2>1. Requeue(queue + 1, buffers) /\ frame' = frame
    BY <1>4 DEF rudp_client_send
  <2> QED
    BY <1>1, <2>1, RequeueFacts DEF Held
<1>5. CASE rudp_client_close
  <2>1. Requeue(0, buffers) /\ frame' = frame
    BY <1>5 DEF rudp_client_close, rudp_peer_deinit
  <2> QED
    BY <1>1, <2>1, RequeueFacts DEF Held
<1>6. CASE RecvData
  <2>1. PICK q \in 0 .. queue : Requeue(q, buffers + 1)
    BY <1>6 DEF RecvData, Acked
  <2>2. frame = "idle" /\ frame' = "packet" /\ q \in Nat
    BY <1>1, <1>6 DEF RecvData, Incoming
  <2> QED
    BY <1>1, <2>1, <2>2, RequeueFacts DEF Held
<1>7. CASE RecvConnRsp \/ RecvOther
  <2>1. PICK q \in Nat : Announce(q, buffers + 1)
    BY <1>1, <1>7 DEF RecvConnRsp, RecvOther, Acked
  <2>2. Held(frame) = 0
    BY <1>7 DEF RecvConnRsp, RecvOther, Incoming, Held
  <2>3. /\ queue' \in 0 .. MaxQueue /\ buffers' \in Int
        /\ buffers' - queue' - Held(frame') = (buffers + 1) - queue - 1
    <3>1. buffers + 1 \in Int
      BY <1>1
    <3> QED
      BY <1>1, <2>1, <3>1, AnnounceFacts
  <2> QED
    BY <1>1, <2>2, <2>3
<1>8. CASE Serve
  <2>1. PICK q \in 0 .. queue \cup {1} : Requeue(q, buffers)
    BY <1>8 DEF Serve
  <2>2. frame' = frame /\ q \in Nat
    BY <1>1, <1>8 DEF Serve
  <2> QED
    BY <1>1, <2>1, <2>2, RequeueFacts DEF Held
<1>9. ASSUME NEW how \in Losses, Lose(how)
      PROVE  NumbersOK
  <2>1. frame = "idle" /\ frame' = how
    BY <1>9 DEF Lose
  <2>2. CASE how = "dropped"
    <3>1. Requeue(0, buffers)
      BY <1>9, <2>2 DEF Lose, client_peer_dropped, rudp_peer_deinit
    <3> QED
      BY <1>1, <2>1, <2>2, <3>1, RequeueFacts DEF Held
  <2>3. CASE how = "left"
    <3>1. Requeue(0, buffers + 1)
      BY <1>9, <2>3 DEF Lose, client_peer_dropped, rudp_peer_deinit
    <3> QED
      BY <1>1, <2>1, <2>3, <3>1, RequeueFacts DEF Held
  <2> QED
    BY <2>2, <2>3 DEF Losses
<1>10. CASE ReturnFromPacket
  <2>1. PICK q \in Nat : Announce(q, buffers)
    BY <1>1, <1>10 DEF ReturnFromPacket
  <2>2. Held(frame) = 1
    BY <1>10 DEF ReturnFromPacket, Held
  <2> QED
    BY <1>1, <2>1, <2>2, AnnounceFacts DEF Held
<1>11. CASE ReturnFromLast
  <2>1. CASE frame = "connected"
    <3>1. Requeue(queue, buffers - 1) /\ frame' = "idle"
      BY <1>11, <2>1 DEF ReturnFromLast, Done
    <3> QED
      BY <1>1, <2>1, <3>1, RequeueFacts DEF Held
  <2>2. CASE frame = "dropped"
    BY <1>1, <1>11, <2>2 DEF ReturnFromLast, Held
  <2>3. CASE frame = "left"
    <3>1. Announce(queue, buffers)
      BY <1>11, <2>3 DEF ReturnFromLast
    <3>2. Held(frame) = 1
      BY <2>3 DEF Held
    <3> QED
      BY <1>1, <3>1, <3>2, AnnounceFacts DEF Held
  <2> QED
    BY <1>11, <2>1, <2>2, <2>3 DEF ReturnFromLast
<1> QED
  BY <1>2, <1>3, <1>4, <1>5, <1>6, <1>7, <1>8, <1>9, <1>10, <1>11
     DEF Next, Application, FromNetwork, Return

-----------------------------------------------------------------------------
(* The steps, without the numbers *)

(* The end of client_handle_endpoint_packet. *)
Announced ==
    \/ connected /\ frame' = "idle" /\ UNCHANGED <<connected, view>>
    \/ ~ connected /\ frame' = "connected" /\ connected' = TRUE /\ view' = "connected"

LEMMA AnnounceEffect ==
  ASSUME NEW q, NEW b, Announce(q, b)
  PROVE  Announced
  BY DEF Announce, Done, Announced

(* A packet that is absorbed at once. *)
LEMMA RecvEffect ==
  ASSUME RecvConnRsp \/ RecvOther
  PROVE  /\ frame = "idle" /\ endpoint.watched
         /\ Announced /\ peer_service_schedule
         /\ \/ peer = "CONNECTING" /\ peer' = "RUN"
            \/ peer' = peer
         /\ UNCHANGED <<endpoint, address, orphan>>
<1>1. Announced
  BY AnnounceEffect DEF RecvConnRsp, RecvOther
<1> QED
  BY <1>1 DEF RecvConnRsp, RecvOther, Incoming, Readable

LEMMA ReturnFromPacketEffect ==
  ASSUME ReturnFromPacket
  PROVE  /\ frame = "packet" /\ Announced /\ peer_service_schedule
         /\ UNCHANGED <<endpoint, address, peer, orphan>>
<1>1. Announced
  BY AnnounceEffect DEF ReturnFromPacket
<1> QED
  BY <1>1 DEF ReturnFromPacket

LEMMA ReturnFromLastEffect ==
  ASSUME ReturnFromLast
  PROVE  /\ UNCHANGED <<endpoint, address, peer, armed, orphan, misuse>>
         /\ \/ /\ frame \in {"connected", "dropped"} /\ frame' = "idle"
               /\ UNCHANGED <<connected, view>>
            \/ frame = "left" /\ Announced
<1>1. CASE frame = "connected" \/ frame = "dropped"
  BY <1>1 DEF ReturnFromLast, Done
<1>2. CASE frame = "left"
  BY <1>2, AnnounceEffect DEF ReturnFromLast
<1> QED
  BY <1>1, <1>2 DEF ReturnFromLast

LEMMA ServeEffect ==
  ASSUME Serve
  PROVE  /\ frame = "idle"
         /\ orphan' = orphan \/ orphan' = FALSE
         /\ ~ orphan => armed
         /\ peer_service_schedule
         /\ UNCHANGED <<endpoint, address, peer, connected, frame, view>>
  BY DEF Serve

(* client_peer_dropped, by the timer or by a CLOSE. *)
LEMMA LoseEffect ==
  ASSUME NEW how \in Losses, Lose(how)
  PROVE  /\ how \in {"dropped", "left"}
         /\ how = "left" => "server_closes" \in Liberty
         /\ frame = "idle" /\ frame' = how
         /\ how = "dropped" => armed
         /\ connected' = FALSE /\ peer' = "none" /\ armed' = FALSE
         /\ endpoint' = rudp_endpoint_close(endpoint) /\ view' = "initialized"
         /\ UNCHANGED <<address, orphan, misuse>>
<1>1. how \in {"dropped", "left"} /\ (how = "left" => "server_closes" \in Liberty)
  <2>1. CASE "server_closes" \in Liberty
    BY <2>1 DEF Losses
  <2>2. CASE "server_closes" \notin Liberty
    BY <2>2 DEF Losses
  <2> QED
    BY <2>1, <2>2
<1>2. CASE how = "dropped"
  BY <1>1, <1>2 DEF Lose, client_peer_dropped, rudp_peer_deinit
<1>3. CASE how = "left"
  BY <1>1, <1>3 DEF Lose, client_peer_dropped, rudp_peer_deinit
<1> QED
  BY <1>1, <1>2, <1>3

LEMMA CloseEffect ==
  ASSUME rudp_client_close
  PROVE  /\ view \in {"connecting", "failed", "connected"}
         /\ frame = "packet" => "close_inside" \in Liberty
         /\ peer' = "none" /\ armed' = FALSE
         /\ endpoint' = rudp_endpoint_close(endpoint) /\ view' = "closed"
         /\ UNCHANGED <<address, orphan, connected, frame, misuse>>
  BY DEF rudp_client_close, rudp_peer_deinit

LEMMA RecvDataEffect ==
  ASSUME RecvData
  PROVE  /\ frame = "idle" /\ endpoint.watched /\ peer = "RUN"
         /\ frame' = "packet"
         /\ UNCHANGED <<endpoint, address, peer, armed, orphan, connected, view,
                        misuse>>
  BY DEF RecvData, Incoming, Readable

(* peer_service_schedule leaves flags. *)
LEMMA ScheduleType ==
  ASSUME peer_service_schedule, misuse \in BOOLEAN
  PROVE  /\ armed' \in BOOLEAN /\ misuse' \in BOOLEAN
         /\ armed' <=> peer \in Running
         /\ misuse' <=> (misuse \/ peer \notin Running)
<1>1. armed' \in BOOLEAN /\ misuse' \in BOOLEAN
  BY DEF peer_service_schedule
<1>2. armed' <=> peer \in Running
  BY Zenon DEF peer_service_schedule
<1>3. misuse' <=> (misuse \/ peer \notin Running)
  BY Zenon DEF peer_service_schedule
<1> QED
  BY <1>1, <1>2, <1>3

LEMMA AnnouncedType ==
  ASSUME Announced, connected \in BOOLEAN, view \in View
  PROVE  /\ connected' \in BOOLEAN /\ view' \in View /\ frame' \in Frame
         /\ connected' /\ frame' \in {"idle", "connected"}
         /\ connected => view' = view /\ frame' = "idle"
         /\ ~ connected => view' = "connected"
<1>1. CASE connected
  <2>1. frame' = "idle" /\ connected' = connected /\ view' = view
    BY <1>1 DEF Announced
  <2> QED
    BY <1>1, <2>1 DEF View, Frame
<1>2. CASE ~ connected
  <2>1. frame' = "connected" /\ connected' = TRUE /\ view' = "connected"
    BY <1>2 DEF Announced
  <2> QED
    BY <1>2, <2>1 DEF View, Frame
<1> QED
  BY <1>1, <1>2

(* The part of TypeOK without the numbers. *)
FlagsOK ==
    /\ endpoint \in Endpoint
    /\ address \in BOOLEAN /\ armed \in BOOLEAN /\ orphan \in BOOLEAN
    /\ connected \in BOOLEAN /\ misuse \in BOOLEAN
    /\ peer \in Running \cup {"none"}
    /\ frame \in Frame /\ view \in View

LEMMA FlagStep ==
  ASSUME FlagsOK, Next
  PROVE  FlagsOK'
<1> USE DEF FlagsOK, Running, Frame, View
<1>1. CASE SetAddress
  BY <1>1 DEF SetAddress
<1>2. CASE rudp_client_connect
  BY <1>2, BindFacts DEF rudp_client_connect
<1>3. CASE rudp_client_send
  BY <1>3 DEF rudp_client_send, peer_service_schedule
<1>4. CASE rudp_client_close
  BY <1>4, CloseEffect, EndpointFacts
<1>5. CASE rudp_client_deinit
  BY <1>5, EndpointFacts DEF rudp_client_deinit
<1>6. CASE rudp_client_init
  BY <1>6, EndpointFacts DEF rudp_client_init
<1>7. CASE RecvData
  BY <1>7, RecvDataEffect
<1>8. CASE RecvConnRsp \/ RecvOther
  BY <1>8, RecvEffect, ScheduleType, AnnouncedType
<1>9. CASE Serve
  BY <1>9, ServeEffect, ScheduleType
<1>10. ASSUME NEW how \in Losses, Lose(how)
       PROVE  FlagsOK'
  <2>1. endpoint' \in Endpoint
    <3>1. endpoint' = rudp_endpoint_close(endpoint)
      BY <1>10, LoseEffect
    <3> QED
      BY <3>1, EndpointFacts
  <2>2. /\ connected' = FALSE /\ peer' = "none" /\ armed' = FALSE
        /\ view' = "initialized" /\ frame' \in {"dropped", "left"}
        /\ UNCHANGED <<address, orphan, misuse>>
    BY <1>10, LoseEffect
  <2> QED
    BY <2>1, <2>2
<1>11. CASE ReturnFromPacket
  BY <1>11, ReturnFromPacketEffect, ScheduleType, AnnouncedType
<1>12. CASE ReturnFromLast
  BY <1>12, ReturnFromLastEffect, AnnouncedType
<1> QED
  BY <1>1, <1>2, <1>3, <1>4, <1>5, <1>6, <1>7, <1>8, <1>9, <1>10, <1>11, <1>12
     DEF Next, Application, FromNetwork, Return

LEMMA BaseInit == Init => BaseInv
<1> SUFFICES ASSUME Init
             PROVE  BaseInv
  OBVIOUS
<1>1. endpoint \in Endpoint
  BY DEF Init, rudp_endpoint_init, Endpoint
<1>2. frame \in Frame /\ view \in View /\ peer \in Running \cup {"none"}
  BY DEF Init, Frame, View
<1>3. queue \in 0 .. MaxQueue /\ buffers \in Nat /\ buffers >= queue + Held(frame)
  BY MaxQueueType DEF Init, Held
<1>4. /\ address \in BOOLEAN /\ armed \in BOOLEAN /\ orphan \in BOOLEAN
      /\ connected \in BOOLEAN /\ misuse \in BOOLEAN
  BY DEF Init
<1> QED
  BY <1>1, <1>2, <1>3, <1>4 DEF BaseInv, TypeOK

LEMMA BaseStep == BaseInv /\ [Next]_vars => BaseInv'
<1> SUFFICES ASSUME BaseInv, [Next]_vars
             PROVE  BaseInv'
  OBVIOUS
<1>1. CASE Next
  <2>1. FlagsOK'
    BY <1>1, FlagStep DEF BaseInv, TypeOK, FlagsOK
  <2>2. NumbersOK
    BY <1>1, NumberStep DEF BaseInv
  <2>3. queue \in Nat /\ buffers \in Nat /\ buffers >= queue + Held(frame)
    BY MaxQueueType DEF BaseInv, TypeOK
  <2>4. Held(frame) \in {0, 1} /\ Held(frame') \in {0, 1}
    BY DEF Held
  <2>5. buffers' >= queue' + Held(frame')
    <3>1. CASE rudp_client_connect
      BY <2>3, <2>4, <3>1 DEF rudp_client_connect
    <3>2. CASE ~ rudp_client_connect
      BY <2>2, <2>3, <2>4, <3>2, MaxQueueType DEF NumbersOK
    <3> QED
      BY <3>1, <3>2
  <2>6. queue' \in 0 .. MaxQueue /\ buffers' \in Nat
    BY <2>2, <2>4, <2>5, MaxQueueType DEF NumbersOK
  <2> QED
    BY <2>1, <2>5, <2>6 DEF BaseInv, TypeOK, FlagsOK
<1>2. CASE UNCHANGED vars
  BY <1>2 DEF vars, BaseInv, TypeOK
<1> QED
  BY <1>1, <1>2

-----------------------------------------------------------------------------
(* The timer *)

LEMMA TimerStep ==
  ASSUME "retry_failed" \notin Liberty
  PROVE  BaseInv /\ TimerInv /\ [Next]_vars => TimerInv'
<1> SUFFICES ASSUME BaseInv, TimerInv, [Next]_vars
             PROVE  TimerInv'
  OBVIOUS
<1>0. /\ peer \in Running \cup {"none"} /\ misuse \in BOOLEAN
      /\ connected \in BOOLEAN /\ view \in View
  BY DEF BaseInv, TypeOK
<1> USE DEF TimerInv, Running
<1>1. CASE SetAddress
  BY <1>1 DEF SetAddress
<1>2. CASE rudp_client_connect
  <2>1. peer = "none"
    BY <1>2 DEF rudp_client_connect, MayConnect
  <2>2. /\ peer' = "CONNECTING" /\ armed' = TRUE /\ orphan' = (orphan \/ armed)
        /\ view' \in {"connecting", "failed"}
    BY <1>2 DEF rudp_client_connect
  <2> QED
    BY <2>1, <2>2
<1>3. CASE rudp_client_send
  BY <1>0, <1>3 DEF rudp_client_send, peer_service_schedule
<1>4. CASE rudp_client_close
  BY <1>4, CloseEffect
<1>5. CASE rudp_client_deinit
  BY <1>5 DEF rudp_client_deinit
<1>6. CASE rudp_client_init
  BY <1>6 DEF rudp_client_init
<1>7. CASE RecvData
  BY <1>7, RecvDataEffect
<1>8. CASE RecvConnRsp \/ RecvOther
  <2>1. /\ (peer = "CONNECTING" /\ peer' = "RUN") \/ peer' = peer
        /\ orphan' = orphan
    BY <1>8, RecvEffect
  <2>2. armed' <=> peer \in Running
    BY <1>0, <1>8, RecvEffect, ScheduleType
  <2>3. view' = view \/ view' = "connected"
    BY <1>0, <1>8, RecvEffect, AnnouncedType
  <2> QED
    BY <1>0, <2>1, <2>2, <2>3
<1>9. CASE Serve
  <2>1. peer' = peer /\ view' = view
    BY <1>9, ServeEffect
  <2>2. ~ orphan'
    BY <1>9, ServeEffect
  <2>3. armed' <=> peer \in Running
    BY <1>0, <1>9, ServeEffect, ScheduleType
  <2> QED
    BY <2>1, <2>2, <2>3
<1>10. ASSUME NEW how \in Losses, Lose(how)
       PROVE  TimerInv'
  BY <1>10, LoseEffect
<1>11. CASE ReturnFromPacket
  <2>1. peer' = peer /\ orphan' = orphan
    BY <1>11, ReturnFromPacketEffect
  <2>2. armed' <=> peer \in Running
    BY <1>0, <1>11, ReturnFromPacketEffect, ScheduleType
  <2>3. view' = view \/ view' = "connected"
    BY <1>0, <1>11, ReturnFromPacketEffect, AnnouncedType
  <2> QED
    BY <2>1, <2>2, <2>3
<1>12. CASE ReturnFromLast
  <2>1. peer' = peer /\ orphan' = orphan /\ armed' = armed
    BY <1>12, ReturnFromLastEffect
  <2>2. view' = view \/ view' = "connected"
    BY <1>0, <1>12, ReturnFromLastEffect, AnnouncedType
  <2> QED
    BY <2>1, <2>2
<1>13. CASE UNCHANGED vars
  BY <1>13 DEF vars
<1> QED
  BY <1>1, <1>2, <1>3, <1>4, <1>5, <1>6, <1>7, <1>8, <1>9, <1>10, <1>11, <1>12,
     <1>13 DEF Next, Application, FromNetwork, Return

-----------------------------------------------------------------------------
(* The socket *)

LEMMA SocketStep ==
  ASSUME {"retry_failed", "server_closes"} \cap Liberty = {}
  PROVE  BaseInv /\ TimerInv /\ SocketInv /\ [Next]_vars => SocketInv'
<1> SUFFICES ASSUME BaseInv, TimerInv, SocketInv, [Next]_vars
             PROVE  SocketInv'
  OBVIOUS
<1>0. /\ peer \in Running \cup {"none"} /\ endpoint \in Endpoint
      /\ connected \in BOOLEAN /\ view \in View
  BY DEF BaseInv, TypeOK
<1>h. "retry_failed" \notin Liberty /\ "server_closes" \notin Liberty
  OBVIOUS
<1> USE DEF SocketInv, Running
<1>1. CASE SetAddress
  BY <1>1 DEF SetAddress
<1>2. CASE rudp_client_connect
  <2>1. /\ view \in {"initialized", "closed"} /\ frame # "packet"
        /\ endpoint' \in rudp_endpoint_bind(endpoint)
        /\ peer' = "CONNECTING" /\ frame' = frame
        /\ view' = IF endpoint'.fd THEN "connecting" ELSE "failed"
    BY <1>2, <1>h DEF rudp_client_connect, MayConnect
  <2>2. ~ endpoint.fd /\ ~ endpoint.watched /\ endpoint.source
    BY <2>1
  <2>3. (endpoint'.fd <=> endpoint'.watched) /\ endpoint'.source
    BY <1>0, <2>1, <2>2, BindFacts
  <2> QED
    BY <2>1, <2>3
<1>3. CASE rudp_client_send
  BY <1>3 DEF rudp_client_send
<1>4. CASE rudp_client_close
  <2>1. /\ view # "gone" /\ peer' = "none" /\ view' = "closed"
        /\ endpoint' = rudp_endpoint_close(endpoint)
        /\ connected' = connected /\ frame' = frame
    BY <1>4, CloseEffect
  <2>2. ~ endpoint'.fd /\ ~ endpoint'.watched /\ endpoint'.source
    BY <1>0, <2>1, EndpointFacts
  <2> QED
    BY <2>1, <2>2
<1>5. CASE rudp_client_deinit
  <2>1. /\ view \in {"initialized", "closed"} /\ view' = "gone"
        /\ endpoint' = rudp_endpoint_deinit(endpoint)
        /\ UNCHANGED <<peer, connected, frame>>
    BY <1>5, <1>h DEF rudp_client_deinit
  <2>2. endpoint'.fd = endpoint.fd /\ endpoint'.watched = endpoint.watched
    BY <1>0, <2>1, EndpointFacts
  <2> QED
    BY <2>1, <2>2
<1>6. CASE rudp_client_init
  <2>1. /\ view = "gone" /\ frame = "idle" /\ view' = "initialized"
        /\ endpoint' = rudp_endpoint_init /\ UNCHANGED <<peer, frame>>
    BY <1>6 DEF rudp_client_init
  <2>2. ~ endpoint'.fd /\ ~ endpoint'.watched /\ endpoint'.source
    BY <1>0, <2>1, EndpointFacts
  <2> QED
    BY <2>1, <2>2
<1>7. CASE RecvData
  BY <1>7, RecvDataEffect
<1>8. CASE RecvConnRsp \/ RecvOther
  <2>1. /\ endpoint.watched /\ endpoint' = endpoint
        /\ (peer = "CONNECTING" /\ peer' = "RUN") \/ peer' = peer
    BY <1>8, RecvEffect
  <2>2. /\ connected' /\ frame' \in {"idle", "connected"}
        /\ view' = view \/ view' = "connected"
    BY <1>0, <1>8, RecvEffect, AnnouncedType
  <2> QED
    BY <1>0, <2>1, <2>2
<1>9. CASE Serve
  BY <1>9, ServeEffect
<1>10. ASSUME NEW how \in Losses, Lose(how)
       PROVE  SocketInv'
  <2>1. /\ how = "dropped" /\ armed /\ frame' = how
        /\ peer' = "none" /\ view' = "initialized"
        /\ endpoint' = rudp_endpoint_close(endpoint)
    BY <1>10, <1>h, LoseEffect
  <2>2. view # "gone"
    BY <2>1 DEF TimerInv
  <2>3. ~ endpoint'.fd /\ ~ endpoint'.watched /\ endpoint'.source
    BY <1>0, <2>1, <2>2, EndpointFacts
  <2> QED
    BY <2>1, <2>3
<1>11. CASE ReturnFromPacket
  <2>1. connected /\ UNCHANGED <<endpoint, peer>>
    BY <1>11, ReturnFromPacketEffect
  <2>2. connected' /\ frame' = "idle" /\ view' = view
    BY <1>0, <1>11, <2>1, ReturnFromPacketEffect, AnnouncedType
  <2> QED
    BY <2>1, <2>2
<1>12. CASE ReturnFromLast
  <2>1. frame' = "idle" /\ UNCHANGED <<endpoint, peer, connected, view>>
    BY <1>12, ReturnFromLastEffect
  <2> QED
    BY <2>1
<1>13. CASE UNCHANGED vars
  BY <1>13 DEF vars
<1> QED
  BY <1>1, <1>2, <1>3, <1>4, <1>5, <1>6, <1>7, <1>8, <1>9, <1>10, <1>11, <1>12,
     <1>13 DEF Next, Application, FromNetwork, Return

-----------------------------------------------------------------------------
(* The flag connected *)

LEMMA PacketStep ==
  ASSUME {"reconnect", "close_inside"} \cap Liberty = {}
  PROVE  BaseInv /\ PacketInv /\ [Next]_vars => PacketInv'
<1> SUFFICES ASSUME BaseInv, PacketInv, [Next]_vars
             PROVE  PacketInv'
  OBVIOUS
<1>0. /\ peer \in Running \cup {"none"}
      /\ connected \in BOOLEAN /\ view \in View
  BY DEF BaseInv, TypeOK
<1>h. "close_inside" \notin Liberty /\ "reconnect" \notin Liberty
  OBVIOUS
<1> USE DEF PacketInv, Running
<1>1. CASE SetAddress
  BY <1>1 DEF SetAddress
<1>2. CASE rudp_client_connect
  <2>1. /\ view \in {"initialized", "failed"} /\ frame # "packet"
        /\ peer' = "CONNECTING" /\ view' \in {"connecting", "failed"}
        /\ connected' = connected /\ frame' = frame
    BY <1>2, <1>h DEF rudp_client_connect, MayConnect
  <2> QED
    BY <2>1
<1>3. CASE rudp_client_send
  BY <1>3 DEF rudp_client_send
<1>4. CASE rudp_client_close
  BY <1>4, <1>h, CloseEffect
<1>5. CASE rudp_client_deinit
  <2>1. /\ view \in {"initialized", "closed", "failed"} /\ frame # "packet"
        /\ view' = "gone" /\ UNCHANGED <<peer, connected, frame>>
    BY <1>5 DEF rudp_client_deinit
  <2> QED
    BY <2>1
<1>6. CASE rudp_client_init
  <2>1. /\ view = "gone" /\ frame = "idle" /\ view' = "initialized"
        /\ connected' = FALSE /\ UNCHANGED <<peer, frame>>
    BY <1>6 DEF rudp_client_init
  <2> QED
    BY <1>0, <2>1
<1>7. CASE RecvData
  BY <1>7, RecvDataEffect
<1>8. CASE RecvConnRsp \/ RecvOther
  <2>1. (peer = "CONNECTING" /\ peer' = "RUN") \/ peer' = peer
    BY <1>8, RecvEffect
  <2>2. /\ connected' /\ frame' \in {"idle", "connected"}
        /\ connected => view' = view
        /\ ~ connected => view' = "connected"
    BY <1>0, <1>8, RecvEffect, AnnouncedType
  <2> QED
    BY <1>0, <2>1, <2>2
<1>9. CASE Serve
  BY <1>9, ServeEffect
<1>10. ASSUME NEW how \in Losses, Lose(how)
       PROVE  PacketInv'
  <2>1. /\ frame' \in {"dropped", "left"} /\ connected' = FALSE
        /\ peer' = "none" /\ view' = "initialized"
    BY <1>10, LoseEffect
  <2> QED
    BY <2>1
<1>11. CASE ReturnFromPacket
  <2>1. connected /\ peer' = peer
    BY <1>11, ReturnFromPacketEffect
  <2>2. connected' /\ frame' = "idle" /\ view' = view
    BY <1>0, <1>11, <2>1, ReturnFromPacketEffect, AnnouncedType
  <2> QED
    BY <2>1, <2>2
<1>12. CASE ReturnFromLast
  <2>1. peer' = peer
    BY <1>12, ReturnFromLastEffect
  <2>2. \/ frame' = "idle" /\ connected' = connected /\ view' = view
        \/ /\ connected' /\ frame' \in {"idle", "connected"}
           /\ connected => view' = view
           /\ ~ connected => view' = "connected"
    BY <1>0, <1>12, ReturnFromLastEffect, AnnouncedType
  <2> QED
    BY <1>0, <2>1, <2>2
<1>13. CASE UNCHANGED vars
  BY <1>13 DEF vars
<1> QED
  BY <1>1, <1>2, <1>3, <1>4, <1>5, <1>6, <1>7, <1>8, <1>9, <1>10, <1>11, <1>12,
     <1>13 DEF Next, Application, FromNetwork, Return

-----------------------------------------------------------------------------
(* Careful use *)

(* The timer is armed for a peer that exists. *)
LEMMA ArmedPeerExists ==
  ASSUME Liberty \subseteq {"reconnect"}, BaseInv, TimerInv, SocketInv, CarefulInv, Next
  PROVE  ~ misuse'
<1>0. misuse \in BOOLEAN /\ ~ misuse
  BY DEF BaseInv, TypeOK, CarefulInv, NoTimerOfDeadPeer
<1>1. CASE rudp_client_send
  <2>1. view \in {"connecting", "connected"} /\ peer_service_schedule
    BY <1>1 DEF rudp_client_send
  <2>2. peer \in Running
    BY <2>1 DEF SocketInv
  <2> QED
    BY <1>0, <2>1, <2>2, ScheduleType
<1>2. CASE RecvConnRsp \/ RecvOther
  <2>1. endpoint.watched /\ peer_service_schedule
    BY <1>2, RecvEffect
  <2>2. peer \in Running
    BY <2>1 DEF SocketInv
  <2> QED
    BY <1>0, <2>1, <2>2, ScheduleType
<1>3. CASE Serve
  <2>1. armed /\ peer_service_schedule
    BY <1>3, ServeEffect DEF TimerInv
  <2>2. peer \in Running
    BY <2>1 DEF TimerInv
  <2> QED
    BY <1>0, <2>1, <2>2, ScheduleType
<1>4. CASE ReturnFromPacket
  <2>1. peer \in Running /\ peer_service_schedule
    BY <1>4, ReturnFromPacketEffect DEF CarefulInv
  <2> QED
    BY <1>0, <2>1, ScheduleType
<1>5. ASSUME NEW how \in Losses, Lose(how)
      PROVE  misuse' = misuse
  BY <1>5, LoseEffect
<1>6. SetAddress \/ rudp_client_connect \/ rudp_client_close
      \/ rudp_client_deinit \/ rudp_client_init \/ RecvData \/ ReturnFromLast
        => misuse' = misuse
  BY DEF SetAddress, rudp_client_connect, rudp_client_close, RecvData,
         rudp_client_deinit, rudp_client_init, ReturnFromLast
<1> QED
  BY <1>0, <1>1, <1>2, <1>3, <1>4, <1>5, <1>6
     DEF Next, Application, FromNetwork, Return

(* Packets are queued for a peer that exists. *)
LEMMA QueueOfLivePeer ==
  ASSUME Liberty \subseteq {"reconnect"}, BaseInv, TimerInv, SocketInv, CarefulInv, Next
  PROVE  /\ queue' = 0 \/ peer' \in Running
         /\ frame' = "packet" => peer' \in Running
<1>0. /\ queue = 0 \/ peer \in Running
      /\ frame = "packet" => peer \in Running
  BY MaxQueueType DEF BaseInv, TypeOK, CarefulInv, BuffersAreOwned
<1> USE DEF Running
<1>1. CASE SetAddress
  BY <1>0, <1>1 DEF SetAddress
<1>2. CASE rudp_client_connect
  BY <1>2 DEF rudp_client_connect
<1>3. CASE rudp_client_send
  <2>1. view \in {"connecting", "connected"} /\ peer' = peer
    BY <1>3 DEF rudp_client_send
  <2> QED
    BY <2>1 DEF SocketInv
<1>4. CASE rudp_client_close
  <2>1. queue' = 0
    BY <1>4 DEF rudp_client_close, rudp_peer_deinit, Requeue
  <2>2. frame # "packet" /\ frame' = frame
    BY <1>4, CloseEffect
  <2> QED
    BY <2>1, <2>2
<1>5. CASE rudp_client_deinit
  BY <1>0, <1>5 DEF rudp_client_deinit
<1>6. CASE rudp_client_init
  BY <1>0, <1>6 DEF rudp_client_init
<1>7. CASE RecvData
  BY <1>7, RecvDataEffect
<1>8. CASE RecvConnRsp \/ RecvOther
  <2>1. endpoint.watched /\ ((peer = "CONNECTING" /\ peer' = "RUN") \/ peer' = peer)
    BY <1>8, RecvEffect
  <2> QED
    BY <2>1 DEF SocketInv
<1>9. CASE Serve
  BY <1>9, ServeEffect DEF TimerInv
<1>10. ASSUME NEW how \in Losses, Lose(how)
       PROVE  queue' = 0 /\ frame' # "packet"
  <2>1. how = "dropped" /\ frame' = how
    BY <1>10, LoseEffect
  <2> QED
    BY <1>10, <2>1 DEF Lose, client_peer_dropped, rudp_peer_deinit, Requeue
<1>11. CASE ReturnFromPacket
  BY <1>0, <1>11, ReturnFromPacketEffect
<1>12. CASE ReturnFromLast
  <2>1. frame \in {"connected", "dropped"} /\ frame' = "idle" /\ peer' = peer
    BY <1>12, ReturnFromLastEffect DEF SocketInv
  <2>2. queue' = queue
    BY <1>12, <2>1 DEF ReturnFromLast, Done, Requeue
  <2> QED
    BY <1>0, <2>1, <2>2
<1> QED
  BY <1>1, <1>2, <1>3, <1>4, <1>5, <1>6, <1>7, <1>8, <1>9, <1>10, <1>11, <1>12
     DEF Next, Application, FromNetwork, Return

LEMMA CarefulStep ==
  ASSUME Liberty \subseteq {"reconnect"}
  PROVE  BaseInv /\ TimerInv /\ SocketInv /\ CarefulInv /\ [Next]_vars => CarefulInv'
<1> SUFFICES ASSUME BaseInv, TimerInv, SocketInv, CarefulInv, [Next]_vars
             PROVE  CarefulInv'
  OBVIOUS
<1>1. CASE Next
  <2>0. /\ queue \in Nat /\ buffers \in Nat
        /\ buffers = queue + Held(frame) /\ Held(frame) \in {0, 1}
    BY MaxQueueType DEF BaseInv, TypeOK, CarefulInv, BuffersAreOwned, Held
  <2>1. NumbersOK
    BY <1>1, NumberStep DEF BaseInv
  <2>2. Held(frame') \in {0, 1}
    BY DEF Held
  <2>3. queue' \in Nat /\ buffers' = queue' + Held(frame')
    <3>1. CASE rudp_client_connect
      <4>1. view \in {"initialized", "closed"}
        BY <3>1 DEF rudp_client_connect, MayConnect
      <4>2. peer \notin Running
        BY <4>1 DEF TimerInv, Running
      <4>3. queue = 0
        BY <2>0, <4>2 DEF CarefulInv, BuffersAreOwned
      <4>4. queue' = 1 /\ buffers' = buffers + 1 /\ frame' = frame
        BY <3>1 DEF rudp_client_connect
      <4> QED
        BY <2>0, <4>3, <4>4
    <3>2. CASE ~ rudp_client_connect
      BY <2>0, <2>1, <2>2, <3>2, MaxQueueType DEF NumbersOK
    <3> QED
      BY <3>1, <3>2
  <2>4. /\ queue' = 0 \/ peer' \in Running
        /\ frame' = "packet" => peer' \in Running
    BY <1>1, QueueOfLivePeer
  <2>5. ~ misuse'
    BY <1>1, ArmedPeerExists
  <2>6. BuffersAreOwned'
    BY <2>3, <2>4 DEF BuffersAreOwned, Held
  <2> QED
    BY <2>4, <2>5, <2>6 DEF CarefulInv, NoTimerOfDeadPeer
<1>2. CASE UNCHANGED vars
  BY <1>2 DEF vars, CarefulInv, BuffersAreOwned, NoTimerOfDeadPeer, Running
<1> QED
  BY <1>1, <1>2

LEMMA FlagsInit ==
  ASSUME Init
  PROVE  TimerInv /\ SocketInv /\ PacketInv /\ CarefulInv
<1>1. endpoint.source /\ ~ endpoint.fd /\ ~ endpoint.watched
  BY DEF Init, rudp_endpoint_init
<1>2. /\ peer = "none" /\ armed = FALSE /\ orphan = FALSE /\ connected = FALSE
      /\ frame = "idle" /\ view = "initialized" /\ misuse = FALSE
      /\ queue = 0 /\ buffers = 0
  BY DEF Init
<1>3. TimerInv /\ PacketInv
  BY <1>2 DEF TimerInv, PacketInv, Running
<1>4. SocketInv
  BY <1>1, <1>2 DEF SocketInv, Running
<1>5. CarefulInv
  BY <1>2 DEF CarefulInv, BuffersAreOwned, NoTimerOfDeadPeer
<1> QED
  BY <1>3, <1>4, <1>5

-----------------------------------------------------------------------------
(* The theorems *)

(* Whatever the application and the server do, no flag, number or state    *)
(* leaves its type, and no packet chain is freed twice: there are never    *)
(* fewer of them than the queue and the running callback hold.             *)
THEOREM ClientTypes == Spec => [](TypeOK /\ buffers >= queue + Held(frame))
<1>1. Spec => []BaseInv
  BY BaseInit, BaseStep, PTL DEF Spec
<1>2. BaseInv => TypeOK /\ buffers >= queue + Held(frame)
  BY DEF BaseInv
<1> QED
  BY <1>1, <1>2, PTL

(* client_peer_dropped resets the flag, frees the peer and closes the      *)
(* socket before server_lost is called, also with every liberty taken.     *)
THEOREM LostLeavesNothing == Spec => LostIsInitialized
<1>1. ASSUME BaseInv, [Next]_vars, frame' \in {"dropped", "left"}, frame = "idle"
      PROVE  /\ ~ connected' /\ peer' = "none" /\ ~ armed'
             /\ ~ endpoint'.fd /\ ~ endpoint'.watched
  <2>0. connected \in BOOLEAN /\ view \in View /\ endpoint \in Endpoint
    BY <1>1 DEF BaseInv, TypeOK
  <2>1. ASSUME NEW how \in Losses, Lose(how)
        PROVE  /\ ~ connected' /\ peer' = "none" /\ ~ armed'
               /\ ~ endpoint'.fd /\ ~ endpoint'.watched
    <3>1. /\ connected' = FALSE /\ peer' = "none" /\ armed' = FALSE
          /\ endpoint' = rudp_endpoint_close(endpoint)
      BY <2>1, LoseEffect
    <3> QED
      BY <2>0, <3>1, EndpointFacts
  <2>2. Application \/ Serve \/ UNCHANGED vars => frame' = frame
    BY CloseEffect, ServeEffect
       DEF Application, SetAddress, rudp_client_connect, rudp_client_send,
           rudp_client_deinit, rudp_client_init, vars
  <2>3. FromNetwork => frame' \in {"idle", "connected", "packet"}
    BY <2>0, RecvDataEffect, RecvEffect, AnnouncedType DEF FromNetwork
  <2>4. Return => frame # "idle"
    BY DEF Return, ReturnFromPacket, ReturnFromLast
  <2> QED
    BY <1>1, <2>1, <2>2, <2>3, <2>4 DEF Next
<1>2. Spec => []BaseInv
  BY BaseInit, BaseStep, PTL DEF Spec
<1>3. BaseInv /\ [Next]_vars =>
        [frame' \in {"dropped", "left"} /\ frame = "idle" =>
          /\ ~ connected' /\ peer' = "none" /\ ~ armed'
          /\ ~ endpoint'.fd /\ ~ endpoint'.watched]_vars
  BY <1>1
<1> QED
  BY <1>2, <1>3, PTL DEF Spec, LostIsInitialized

(* Without a retry of a failed client, a timer is in the event loop        *)
(* exactly while its peer lives, at every moment and not only between two  *)
(* callbacks, and no timer is lost.                                        *)
THEOREM PeerHasItsTimer ==
  ASSUME "retry_failed" \notin Liberty
  PROVE  Spec => []TimerLivesWithPeer
<1>1. Init => BaseInv /\ TimerInv
  BY BaseInit, FlagsInit
<1>2. (BaseInv /\ TimerInv) /\ [Next]_vars => (BaseInv /\ TimerInv)'
  BY BaseStep, TimerStep
<1>3. BaseInv /\ TimerInv => TimerLivesWithPeer
  BY DEF TimerInv, TimerLivesWithPeer
<1> QED
  BY <1>1, <1>2, <1>3, PTL DEF Spec

(* If moreover the server sends no CLOSE, the socket is open and watched   *)
(* exactly while the application believes in a connection; then there is a *)
(* peer to receive what arrives.                                           *)
THEOREM SocketIsWatchedForAPeer ==
  ASSUME {"retry_failed", "server_closes"} \cap Liberty = {}
  PROVE  Spec => []SocketLivesWithConnection
<1>0. "retry_failed" \notin Liberty
  OBVIOUS
<1> DEFINE I == BaseInv /\ TimerInv /\ SocketInv
<1>1. Init => I
  BY BaseInit, FlagsInit
<1>2. I /\ [Next]_vars => I'
  BY <1>0, BaseStep, TimerStep, SocketStep
<1>3. I => SocketLivesWithConnection
  BY DEF SocketInv, SocketLivesWithConnection
<1> QED
  BY <1>1, <1>2, <1>3, PTL DEF Spec

(* Payloads are handed over between connected() and server_lost() only, as *)
(* long as the application closes no client inside handle_packet and       *)
(* connects none again that it has closed, whatever else it does and       *)
(* whatever the server sends.  It is the reconnection alone, a use that    *)
(* client.h documents, that breaks this between two callbacks.             *)
THEOREM PayloadsWhileConnected ==
  ASSUME {"reconnect", "close_inside"} \cap Liberty = {}
  PROVE  Spec => []PacketOnlyWhenConnected
<1>1. Init => BaseInv /\ PacketInv
  BY BaseInit, FlagsInit
<1>2. (BaseInv /\ PacketInv) /\ [Next]_vars => (BaseInv /\ PacketInv)'
  BY BaseStep, PacketStep
<1>3. BaseInv /\ PacketInv => PacketOnlyWhenConnected
  BY DEF PacketInv, PacketOnlyWhenConnected
<1> QED
  BY <1>1, <1>2, <1>3, PTL DEF Spec

(* With no liberty but to connect a closed client again, the four          *)
(* invariants hold together.                                               *)
LEMMA CarefulUse ==
  ASSUME Liberty \subseteq {"reconnect"}
  PROVE  Spec => [](BaseInv /\ TimerInv /\ SocketInv /\ CarefulInv)
<1> DEFINE I == BaseInv /\ TimerInv /\ SocketInv /\ CarefulInv
<1>0. /\ "retry_failed" \notin Liberty
      /\ {"retry_failed", "server_closes"} \cap Liberty = {}
  OBVIOUS
<1>1. Init => I
  BY BaseInit, FlagsInit
<1>2. I /\ [Next]_vars => I'
  BY <1>0, BaseStep, TimerStep, SocketStep, CarefulStep
<1> QED
  BY <1>1, <1>2, PTL DEF Spec

(* The timer of a peer that is not initialised is never armed: not by a    *)
(* send, not by a packet and not when a callback returns, also when closed *)
(* clients are connected again.                                            *)
THEOREM OnlyLivePeersAreArmed ==
  ASSUME Liberty \subseteq {"reconnect"}
  PROVE  Spec => []NoTimerOfDeadPeer
<1>1. CarefulInv => NoTimerOfDeadPeer
  BY DEF CarefulInv
<1> QED
  BY <1>1, CarefulUse, PTL

(* Every chain is in the queue of a live peer or held by the running call: *)
(* none leaks, for any number of connections, also of one client that is   *)
(* closed and connected again.                                             *)
THEOREM NoChainIsLost ==
  ASSUME Liberty \subseteq {"reconnect"}
  PROVE  Spec => []BuffersAreOwned
<1>1. CarefulInv => BuffersAreOwned
  BY DEF CarefulInv
<1> QED
  BY <1>1, CarefulUse, PTL

=============================================================================
