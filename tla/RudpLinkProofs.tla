--------------------------- MODULE RudpLinkProofs ---------------------------
(***************************************************************************)
(* The theorems about RudpLink.  TypeCorrect and AcksMoveForward hold for  *)
(* every instance.  The others hold under NoSentinelClash, because IInv is *)
(* an inductive invariant then: the delivery properties follow from it, as *)
(* does the refinement of RudpChannel.                                     *)
(*                                                                         *)
(* In the lemmas on one good peer p is the peer of side x, rp its remote,  *)
(* N what x has sent and A the history of its application.  PeerStep and   *)
(* EndStep say once what a step of x owes to both sides; the lemmas after  *)
(* them show that every action is such a step.                             *)
(***************************************************************************)
EXTENDS RudpLinkInv, RudpPeerProofs

-----------------------------------------------------------------------------
(* The two sides *)

LEMMA RemoteFacts ==
  ASSUME NEW x \in Side
  PROVE  /\ Remote(x) \in Side /\ Remote(x) # x /\ Remote(Remote(x)) = x
         /\ \A y \in Side : y = x \/ y = Remote(x)
  BY DEF Side, Remote, Client, Server

-----------------------------------------------------------------------------
(* Type correctness *)

LEMMA SettleType ==
  ASSUME TypeOK, NEW x \in Side, NEW p \in rudp_peer, NEW pc \in Packet,
         Settle(x, p, pc)
  PROVE  /\ peer' \in [Side -> rudp_peer]
         /\ life' \in [Side -> Life]
         /\ connected' \in BOOLEAN
         /\ net' \in [Side -> SUBSET Packet]
<1>1. Finished(p, pc) \in rudp_peer
  BY FinishedType
<1>2. peer' \in [Side -> rudp_peer]
  BY <1>1 DEF Settle, Put, TypeOK
<1>3. life' \in [Side -> Life]
  BY DEF Settle, TypeOK, Life
<1> QED
  BY <1>2, <1>3 DEF Settle, TypeOK

LEMMA EndType ==
  ASSUME TypeOK, NEW x \in Side, NEW how \in Life, End(x, how)
  PROVE  peer' \in [Side -> rudp_peer] /\ life' \in [Side -> Life]
<1>1. PICK r \in RandomSeq[x] :
         peer' = [peer EXCEPT ![x] = rudp_peer_deinit(peer[x], r)]
  BY DEF End
<1>2. r \in SeqNo /\ peer[x] \in rudp_peer
  BY LinkAssumption DEF TypeOK
<1>3. rudp_peer_deinit(peer[x], r) \in rudp_peer
  BY <1>2, DeinitType
<1> QED
  BY <1>1, <1>3 DEF End, TypeOK

LEMMA FlushType ==
  ASSUME TypeOK, NEW x \in Side, NEW p \in rudp_peer, Flush(x, p)
  PROVE  TypeOK'
<1>1. /\ Put(x, peer_service_schedule(peer_send_queue(p)))
      /\ net' = [net EXCEPT ![x] = @ \cup Transmitted(p)]
      /\ UNCHANGED <<life, connected, app, log>>
  BY DEF Flush
<1>2. /\ peer_service_schedule(peer_send_queue(p)) \in rudp_peer
      /\ Transmitted(p) \subseteq Packet
  BY SendQueueType, ScheduleType
<1>3. peer' \in [Side -> rudp_peer]
  BY <1>1, <1>2 DEF Put, TypeOK
<1>4. net' \in [Side -> SUBSET Packet]
  BY <1>1, <1>2 DEF TypeOK
<1> QED
  BY <1>1, <1>3, <1>4 DEF TypeOK

(* The record that a packet leaves in the log. *)
LEMMA DeliveryType ==
  ASSUME TypeOK, NEW x \in Side, NEW pc \in Packet
  PROVE  [log EXCEPT ![x] = Append(@, [pos |-> pc.pos, useq |-> pc.useq])]
            \in [Side -> Seq(Delivery)]
<1>1. [pos |-> pc.pos, useq |-> pc.useq] \in Delivery
  BY DEF Delivery, Packet
<1>2. Append(log[x], [pos |-> pc.pos, useq |-> pc.useq]) \in Seq(Delivery)
  BY <1>1 DEF TypeOK
<1> QED
  BY <1>2 DEF TypeOK

LEMMA IncomingType ==
  ASSUME TypeOK, NEW x \in Side, NEW p \in rudp_peer, NEW pc \in Packet,
         Incoming(x, p, pc)
  PROVE  TypeOK'
<1> DEFINE a == AckHandled(p, pc)
           q == Sequenced(a, pc)
<1>1. a \in rudp_peer /\ q \in rudp_peer
  BY AckHandledType, SequencedType
<1>2. CASE RecvConnReq(x, p, pc)
  <2> DEFINE h == [peer_handle_connreq(a) EXCEPT
                     !.in_seq_reliable = pc.seq, !.state = "RUN", !.rcvd = pc.pos]
  <2>1. peer_handle_connreq(a) \in rudp_peer
    BY <1>1, SendUnreliableType DEF peer_handle_connreq, Command
  <2>2. h \in rudp_peer
    BY <2>1 DEF rudp_peer, Packet, peer_state
  <2>3. Settle(x, h, pc) /\ UNCHANGED <<app, log>>
    BY <1>2 DEF RecvConnReq
  <2> HIDE DEF h
  <2> QED
    BY <2>2, <2>3, SettleType DEF TypeOK
<1>3. CASE RecvConnRsp(x, p, pc)
  <2> DEFINE g == [a EXCEPT !.in_seq_reliable = pc.seq, !.rcvd = pc.pos]
             h == [AckHandled(g, pc) EXCEPT !.state = "RUN"]
  <2>1. g \in rudp_peer
    BY <1>1 DEF rudp_peer, Packet
  <2>2. AckHandled(g, pc) \in rudp_peer
    BY <2>1, AckHandledType
  <2>3. h \in rudp_peer
    BY <2>2 DEF rudp_peer, peer_state
  <2>4. Settle(x, h, pc) /\ UNCHANGED <<app, log>>
    BY <1>3 DEF RecvConnRsp
  <2> HIDE DEF h
  <2> QED
    BY <2>3, <2>4, SettleType DEF TypeOK
<1>4. CASE RecvUnsequenced(x, p, pc) \/ RecvRetransmitted(x, p, pc)
  <2>1. Settle(x, a, pc) /\ UNCHANGED <<app, log>>
    BY <1>4 DEF RecvUnsequenced, RecvRetransmitted
  <2> QED
    BY <1>1, <2>1, SettleType DEF TypeOK
<1>5. CASE RecvClose(x, p, pc)
  <2>1. End(x, "left") /\ UNCHANGED <<connected, net, app, log>>
    BY <1>5 DEF RecvClose
  <2> QED
    BY <2>1, EndType DEF TypeOK, Life
<1>6. CASE RecvPing(x, p, pc)
  <2>1. peer_handle_ping(q, pc) \in rudp_peer
    BY <1>1, SendUnreliableType DEF peer_handle_ping, Command
  <2>2. PICK h \in rudp_peer : Settle(x, h, pc) /\ UNCHANGED <<app, log>>
    BY <1>1, <1>6, <2>1 DEF RecvPing
  <2> QED
    BY <2>2, SettleType DEF TypeOK
<1>7. CASE RecvNothing(x, p, pc) \/ RecvAppNotRunning(x, p, pc)
  <2>1. Settle(x, q, pc) /\ UNCHANGED <<app, log>>
    BY <1>7 DEF RecvNothing, RecvAppNotRunning
  <2> QED
    BY <1>1, <2>1, SettleType DEF TypeOK
<1>8. CASE RecvApp(x, p, pc)
  <2>1. /\ rudp_peer_send_unreliable(q, "APP") \in rudp_peer
        /\ rudp_peer_send_reliable(q, "APP") \in rudp_peer
    BY <1>1, SendUnreliableType, SendReliableType DEF Command
  <2>2. log' \in [Side -> Seq(Delivery)]
    BY <1>8, DeliveryType DEF RecvApp
  <2>3. q.issued + 1 \in Nat
    BY <1>1, PeerFields
  <2>4. app' \in [Side -> SUBSET Nat]
    BY <1>8, <2>3 DEF RecvApp, TypeOK
  <2>5. PICK h \in rudp_peer : Settle(x, h, pc)
    BY <1>1, <1>8, <2>1 DEF RecvApp
  <2> QED
    BY <2>2, <2>4, <2>5, SettleType DEF TypeOK
<1> QED
  BY <1>2, <1>3, <1>4, <1>5, <1>6, <1>7, <1>8 DEF Incoming

LEMMA TypeStep == TypeOK /\ [Next]_vars => TypeOK'
<1> SUFFICES ASSUME TypeOK, [Next]_vars PROVE TypeOK'
  OBVIOUS
<1>1. \A y \in Side : peer[y] \in rudp_peer /\ net[y] \subseteq Packet
  BY DEF TypeOK
<1>2. ASSUME NEW x \in Side, SendReliable(x) PROVE TypeOK'
  <2>1. rudp_peer_send_reliable(peer[x], "APP") \in rudp_peer
        /\ peer[x].issued + 1 \in Nat
    BY <1>1, SendReliableType, PeerFields DEF Command
  <2>2. peer' \in [Side -> rudp_peer]
    BY <1>2, <2>1 DEF SendReliable, Put, TypeOK
  <2>3. app' \in [Side -> SUBSET Nat]
    BY <1>2, <2>1 DEF SendReliable, TypeOK
  <2> QED
    BY <1>2, <2>2, <2>3 DEF SendReliable, TypeOK
<1>3. ASSUME NEW x \in Side, SendUnreliable(x) PROVE TypeOK'
  <2>1. rudp_peer_send_unreliable(peer[x], "APP") \in rudp_peer
    BY <1>1, SendUnreliableType DEF Command
  <2>2. peer' \in [Side -> rudp_peer]
    BY <1>3, <2>1 DEF SendUnreliable, Put, TypeOK
  <2> QED
    BY <1>3, <2>2 DEF SendUnreliable, TypeOK
<1>4. ASSUME NEW x \in Side, Service(x) \/ ServiceIdle(x) PROVE TypeOK'
  <2>1. Fired(x) \in rudp_peer
    BY <1>1 DEF Fired, rudp_peer
  <2>2. peer_ping(Fired(x)) \in rudp_peer
    BY <2>1, SendReliableType DEF peer_ping, Command
  <2> QED
    BY <1>4, <2>1, <2>2, FlushType DEF Service, ServiceIdle
<1>5. ASSUME NEW x \in Side, ServiceTimeout(x) PROVE TypeOK'
  BY <1>5, EndType DEF ServiceTimeout, TypeOK, Life
<1>6. ASSUME NEW x \in Side, NEW pc \in net[Remote(x)], Receive(x, pc)
      PROVE  TypeOK'
  BY <1>1, <1>6, RemoteFacts, IncomingType DEF Receive
<1>7. ASSUME NEW pc \in net[Client], Accept(pc) PROVE TypeOK'
  <2>1. Client \in Side /\ Server \in Side
    BY DEF Side
  <2>2. peer_service_schedule(peer[Server]) \in rudp_peer
    BY <1>1, <2>1, ScheduleType
  <2> QED
    BY <1>1, <1>7, <2>1, <2>2, IncomingType DEF Accept
<1>8. CASE ClientClose
  <2>1. Client \in Side
    BY DEF Side
  <2>2. peer[Client] \in rudp_peer
    BY <1>1, <2>1
  <2>3. ClosePacket(peer[Client]) \in Packet
    BY <2>2, PeerFields, SuccType DEF ClosePacket, Packet, Command
  <2>4. net' \in [Side -> SUBSET Packet]
    BY <1>8, <2>3 DEF ClientClose, TypeOK
  <2> QED
    BY <1>8, <2>1, <2>4, EndType DEF ClientClose, TypeOK, Life
<1>9. CASE ServerClientClose
  BY <1>9, EndType DEF ServerClientClose, TypeOK, Life, Side
<1>10. CASE UNCHANGED vars
  BY <1>10 DEF vars, TypeOK
<1> QED
  BY <1>2, <1>3, <1>4, <1>5, <1>6, <1>7, <1>8, <1>9, <1>10 DEF Next

LEMMA TypeInit == Init => TypeOK
<1> SUFFICES ASSUME Init PROVE TypeOK
  OBVIOUS
<1>1. PICK r \in RandomSeq[Client], s \in RandomSeq[Server] :
         peer = [x \in Side |-> IF x = Client
                                  THEN rudp_peer_send_connect(rudp_peer_init(r))
                                  ELSE rudp_peer_reset(s)]
  BY DEF Init
<1>2. r \in SeqNo /\ s \in SeqNo
  BY LinkAssumption DEF Side
<1>3. rudp_peer_reset(s) \in rudp_peer /\ rudp_peer_init(r) \in rudp_peer
  BY <1>2, ResetType, ScheduleType DEF rudp_peer_init
<1>4. [rudp_peer_init(r) EXCEPT !.state = "CONNECTING"] \in rudp_peer
  BY <1>3 DEF rudp_peer, peer_state
<1>5. rudp_peer_send_connect(rudp_peer_init(r)) \in rudp_peer
  BY <1>4, SendReliableType DEF rudp_peer_send_connect, Command
<1>6. peer \in [Side -> rudp_peer]
  BY <1>1, <1>3, <1>5
<1>7. log \in [Side -> Seq(Delivery)]
  BY EmptySeq DEF Init
<1>8. life \in [Side -> Life]
  BY DEF Init, Life
<1> QED
  BY <1>6, <1>7, <1>8 DEF Init, TypeOK

(* Every reachable state is well-formed, whatever the bounds and the       *)
(* random numbers: no function of the peer leaves a field outside its C    *)
(* type, and no truncation is missing.                                     *)
THEOREM TypeCorrect == Spec => []TypeOK
  BY TypeInit, TypeStep, PTL DEF Spec

-----------------------------------------------------------------------------
(* Acknowledgements *)

(* A packet that is received moves out_seq_acked as its acknowledgement    *)
(* says, once.                                                             *)
LEMMA IncomingAcked ==
  ASSUME TypeOK, NEW x \in Side, NEW p \in rudp_peer, NEW pc \in Packet,
         Incoming(x, p, pc), life'[x] = "live"
  PROVE  peer'[x].out_seq_acked = AckHandled(p, pc).out_seq_acked
<1> DEFINE a == AckHandled(p, pc)
           q == Sequenced(a, pc)
<1>1. a \in rudp_peer /\ q \in rudp_peer /\ q.out_seq_acked = a.out_seq_acked
  BY AckHandledType, SequencedType, AckedIsKept
<1> HIDE DEF a, q
<1>2. ASSUME NEW h \in rudp_peer, h.out_seq_acked = a.out_seq_acked, Settle(x, h, pc)
      PROVE  peer'[x].out_seq_acked = a.out_seq_acked
  <2>1. peer'[x] = Finished(h, pc)
    BY <1>2 DEF Settle, Put, TypeOK
  <2> QED
    BY <1>2, <2>1, FinishedKeepsAcked
<1>3. CASE RecvConnReq(x, p, pc)
  <2> DEFINE g == peer_handle_connreq(a)
             h == [g EXCEPT !.in_seq_reliable = pc.seq, !.state = "RUN",
                            !.rcvd = pc.pos]
  <2>1. g \in rudp_peer /\ g.out_seq_acked = a.out_seq_acked
    BY <1>1, SendUnreliableType, AckedIsKept DEF peer_handle_connreq, Command
  <2> HIDE DEF g
  <2>2. h \in rudp_peer /\ h.out_seq_acked = a.out_seq_acked
    BY <2>1 DEF rudp_peer, Packet, peer_state
  <2>3. Settle(x, h, pc)
    BY <1>3 DEF RecvConnReq, a, g
  <2> HIDE DEF h
  <2> QED
    BY <1>2, <2>2, <2>3 DEF a
<1>4. CASE RecvConnRsp(x, p, pc)
  <2> DEFINE g == [a EXCEPT !.in_seq_reliable = pc.seq, !.rcvd = pc.pos]
             h == [AckHandled(g, pc) EXCEPT !.state = "RUN"]
  <2>1. /\ g \in rudp_peer /\ g.out_seq_acked = a.out_seq_acked
        /\ g.out_seq_reliable = a.out_seq_reliable
    BY <1>1 DEF rudp_peer, Packet
  <2>2. a.out_seq_reliable = p.out_seq_reliable
    BY DEF a, AckHandled, peer_handle_ack, rudp_peer
  <2>3. Settle(x, h, pc)
    BY <1>4 DEF RecvConnRsp, a
  <2> HIDE DEF g
  <2>4. AckHandled(g, pc) \in rudp_peer
    BY <2>1, AckHandledType
  <2>5. AckHandled(g, pc).out_seq_acked = a.out_seq_acked
    BY <2>1, <2>2, AckHandledTwice DEF a
  <2>6. h \in rudp_peer /\ h.out_seq_acked = a.out_seq_acked
    BY <2>4, <2>5 DEF rudp_peer, peer_state
  <2> HIDE DEF h
  <2> QED
    BY <1>2, <2>3, <2>6 DEF a
<1>5. CASE RecvUnsequenced(x, p, pc) \/ RecvRetransmitted(x, p, pc)
  <2>1. Settle(x, a, pc)
    BY <1>5 DEF RecvUnsequenced, RecvRetransmitted, a
  <2> QED
    BY <1>1, <1>2, <2>1 DEF a
<1>6. CASE RecvClose(x, p, pc)
  BY <1>6 DEF RecvClose, End, TypeOK
<1>7. CASE RecvPing(x, p, pc)
  <2>1. /\ peer_handle_ping(q, pc) \in rudp_peer
        /\ peer_handle_ping(q, pc).out_seq_acked = a.out_seq_acked
    BY <1>1, SendUnreliableType, AckedIsKept DEF peer_handle_ping, Command
  <2>2. Settle(x, q, pc) \/ Settle(x, peer_handle_ping(q, pc), pc)
    BY <1>7 DEF RecvPing, q, a
  <2> QED
    BY <1>1, <1>2, <2>1, <2>2 DEF a
<1>8. CASE RecvNothing(x, p, pc) \/ RecvAppNotRunning(x, p, pc)
  <2>1. Settle(x, q, pc)
    BY <1>8 DEF RecvNothing, RecvAppNotRunning, q, a
  <2> QED
    BY <1>1, <1>2, <2>1 DEF a
<1>9. CASE RecvApp(x, p, pc)
  <2>1. /\ rudp_peer_send_unreliable(q, "APP") \in rudp_peer
        /\ rudp_peer_send_reliable(q, "APP") \in rudp_peer
        /\ rudp_peer_send_unreliable(q, "APP").out_seq_acked = a.out_seq_acked
        /\ rudp_peer_send_reliable(q, "APP").out_seq_acked = a.out_seq_acked
    BY <1>1, SendUnreliableType, SendReliableType, AckedIsKept DEF Command
  <2>2. \/ Settle(x, q, pc)
        \/ Settle(x, rudp_peer_send_unreliable(q, "APP"), pc)
        \/ Settle(x, rudp_peer_send_reliable(q, "APP"), pc)
    BY <1>9 DEF RecvApp, q, a
  <2> QED
    BY <1>1, <1>2, <2>1, <2>2 DEF a
<1> QED
  BY <1>3, <1>4, <1>5, <1>6, <1>7, <1>8, <1>9 DEF Incoming

(* A step moves out_seq_acked of a live peer forward, or not at all. *)
LEMMA AckedStep ==
  ASSUME TypeOK, [Next]_vars, NEW x \in Side, life[x] = "live", life'[x] = "live"
  PROVE  Delta(peer'[x].out_seq_acked, peer[x].out_seq_acked) >= 0
<1> DEFINE p == peer[x]
<1>0. /\ p \in rudp_peer /\ \A y \in Side : net[y] \subseteq Packet
      /\ Delta(p.out_seq_acked, p.out_seq_acked) = 0
      /\ Client \in Side /\ Server \in Side
  <2>1. p \in rudp_peer /\ \A y \in Side : net[y] \subseteq Packet
    BY DEF TypeOK
  <2>2. p.out_seq_acked \in SeqNo
    BY <2>1, PeerFields
  <2>3. Delta(p.out_seq_acked, p.out_seq_acked) = 0
    BY <2>2, DeltaCases, SeqNoInt, ModulusAssumption
  <2> QED
    BY <2>1, <2>3 DEF Side
<1>1. ASSUME peer'[x].out_seq_acked = p.out_seq_acked
      PROVE  Delta(peer'[x].out_seq_acked, p.out_seq_acked) >= 0
  BY <1>0, <1>1
<1>2. ASSUME NEW y \in Side,
             \/ SendReliable(y) \/ SendUnreliable(y)
             \/ Service(y) \/ ServiceIdle(y) \/ ServiceTimeout(y)
      PROVE  peer'[x].out_seq_acked = p.out_seq_acked
  <2>1. CASE x # y
    <3>1. peer'[x] = p
      BY <1>2, <2>1 DEF SendReliable, SendUnreliable, Service, ServiceIdle,
                        ServiceTimeout, Flush, Put, End, TypeOK
    <3> QED
      BY <3>1
  <2>2. CASE x = y
    <3>1. CASE SendReliable(y) \/ SendUnreliable(y)
      <4>1. peer'[x] \in {rudp_peer_send_reliable(p, "APP"),
                          rudp_peer_send_unreliable(p, "APP")}
        BY <2>2, <3>1 DEF SendReliable, SendUnreliable, Put, TypeOK
      <4> QED
        BY <1>0, <4>1, AckedIsKept
    <3>2. CASE Service(y) \/ ServiceIdle(y)
      <4>1. Fired(x) \in rudp_peer /\ Fired(x).out_seq_acked = p.out_seq_acked
        BY <1>0 DEF Fired, rudp_peer
      <4>2. /\ peer_ping(Fired(x)) \in rudp_peer
            /\ peer_ping(Fired(x)).out_seq_acked = p.out_seq_acked
        BY <4>1, SendReliableType, AckedIsKept DEF peer_ping, Command
      <4>3. PICK h \in rudp_peer :
              h.out_seq_acked = p.out_seq_acked /\ Flush(x, h)
        BY <2>2, <3>2, <4>1, <4>2 DEF Service, ServiceIdle
      <4>4. peer'[x] = peer_service_schedule(peer_send_queue(h))
        BY <4>3 DEF Flush, Put, TypeOK
      <4> QED
        BY <4>3, <4>4, SendQueueType, AckedIsKept
    <3>3. CASE ServiceTimeout(y)
      BY <2>2, <3>3 DEF ServiceTimeout, End, TypeOK
    <3> QED
      BY <1>2, <3>1, <3>2, <3>3
  <2> QED
    BY <2>1, <2>2
<1>3. ASSUME NEW y \in Side, NEW pc \in net[Remote(y)], Receive(y, pc)
      PROVE  Delta(peer'[x].out_seq_acked, p.out_seq_acked) >= 0
  <2>1. pc \in Packet /\ Incoming(y, peer[y], pc) /\ peer[y] \in rudp_peer
    BY <1>0, <1>3, RemoteFacts DEF Receive, TypeOK
  <2>2. CASE x = y
    BY <1>0, <2>1, <2>2, IncomingAcked, AckHandledForward
  <2>3. CASE x # y
    <3>1. peer'[x] = p
      BY <2>1, <2>3 DEF Incoming, RecvConnReq, RecvConnRsp, RecvUnsequenced,
            RecvRetransmitted, RecvClose, RecvPing, RecvNothing,
            RecvAppNotRunning, RecvApp, Settle, Put, End, TypeOK
    <3> QED
      BY <1>1, <3>1
  <2> QED
    BY <2>2, <2>3
<1>4. ASSUME NEW pc \in net[Client], Accept(pc)
      PROVE  peer'[x] = p
  <2>1. x # Server /\ Incoming(Server, peer_service_schedule(peer[Server]), pc)
    BY <1>4 DEF Accept
  <2> QED
    BY <1>0, <2>1 DEF Incoming, RecvConnReq, RecvConnRsp, RecvUnsequenced,
            RecvRetransmitted, RecvClose, RecvPing, RecvNothing,
            RecvAppNotRunning, RecvApp, Settle, Put, End, TypeOK
<1>5. CASE ClientClose \/ ServerClientClose
  <2>1. peer'[x] = p
    BY <1>0, <1>5 DEF ClientClose, ServerClientClose, End, TypeOK
  <2> QED
    BY <1>1, <2>1
<1>6. CASE UNCHANGED vars
  BY <1>1, <1>6 DEF vars
<1> QED
  BY <1>1, <1>2, <1>3, <1>4, <1>5, <1>6 DEF Next

(* However late, often or out of order acknowledgements arrive, none moves *)
(* out_seq_acked of a live peer back (peer_handle_ack), for all random     *)
(* numbers: the packets that it freed stay acknowledged.                   *)
THEOREM AcksMoveForward == Spec => AckNeverMovesBack
<1>1. TypeOK /\ [Next]_vars =>
        [\A x \in Side : life[x] = "live" /\ life'[x] = "live" =>
            Delta(peer'[x].out_seq_acked, peer[x].out_seq_acked) >= 0]_vars
  BY AckedStep
<1> QED
  BY <1>1, TypeCorrect, PTL DEF Spec, AckNeverMovesBack

-----------------------------------------------------------------------------
(* What each function of the peer does to one good peer *)

(* A packet stays good while the histories grow. *)
LEMMA PacketFrame ==
  ASSUME NEW x \in Side, NEW p \in rudp_peer, NEW p2 \in rudp_peer,
         NEW rp \in rudp_peer, NEW rp2 \in rudp_peer, NEW A, NEW A2, NEW pc,
         PacketOK(x, p, rp, A, pc),
         p2.iss = p.iss, p.issued <= p2.issued, p.rcvd <= p2.rcvd,
         rp2.iss = rp.iss,
         \A a \in 1 .. p.issued : a \in A2 <=> a \in A
  PROVE  PacketOK(x, p2, rp2, A2, pc)
<1>1. p.issued \in Nat /\ p2.issued \in Nat /\ p.rcvd \in Nat /\ p2.rcvd \in Nat
  BY PeerFields
<1>2. pc.pos \in Nat /\ pc.rel \in BOOLEAN
  BY DEF PacketOK, Packet
<1>3. pc.pos <= p2.issued /\ pc.seq = Wrap(p2.iss + pc.pos)
  BY <1>1, <1>2 DEF PacketOK
<1>4. pc.rel => (pc.cmd = "APP" <=> pc.pos \in A2)
  BY <1>1, <1>2 DEF PacketOK
<1>5. pc.ack # NoAck => AckOK(x, p2, rp2, pc.ack)
  <2>1. 0 .. p.rcvd \subseteq 0 .. p2.rcvd
    BY <1>1
  <2> QED
    BY <2>1 DEF PacketOK, AckOK
<1> QED
  BY <1>3, <1>4, <1>5 DEF PacketOK

(* SenderOK does not depend on the receiving half. *)
LEMMA SenderFrame ==
  ASSUME NEW x \in Side, NEW p \in rudp_peer, NEW p2 \in rudp_peer,
         NEW rp \in rudp_peer, NEW N, NEW A,
         SenderOK(x, p, rp, N, A),
         p2.sendq = p.sendq, p2.issued = p.issued, p2.iss = p.iss,
         p2.out_seq_reliable = p.out_seq_reliable,
         p2.out_seq_unreliable = p.out_seq_unreliable,
         p2.out_seq_acked = p.out_seq_acked, p.rcvd <= p2.rcvd
  PROVE  SenderOK(x, p2, rp, N, A)
<1>1. Acked(p2) = Acked(p)
  BY DEF Acked
<1>2. p.issued <= p2.issued
  BY PeerFields
<1>3. \A i \in 1 .. Len(p.sendq) : PacketOK(x, p2, rp, A, p.sendq[i])
  BY <1>2, PacketFrame DEF SenderOK, QueueOK
<1>4. QueueOK(x, p2, rp, N, A)
  BY <1>1, <1>3 DEF SenderOK, QueueOK
<1> QED
  BY <1>1, <1>4 DEF SenderOK

(* The remote accepts a packet that was sent to it. *)
LEMMA SenderSeesRemote ==
  ASSUME NEW x \in Side, NEW p \in rudp_peer, NEW rp \in rudp_peer,
         NEW rp2 \in rudp_peer, NEW N, NEW A,
         SenderOK(x, p, rp, N, A), rp2.iss = rp.iss,
         \/ rp2.rcvd = rp.rcvd
         \/ /\ rp.rcvd <= rp2.rcvd
            /\ \E pc \in N : pc.rel /\ pc.pos = rp2.rcvd
  PROVE  SenderOK(x, p, rp2, N, A)
<1>1. rp.rcvd \in Nat /\ rp2.rcvd \in Nat /\ p.issued \in Nat /\ p.rcvd \in Nat
      /\ Acked(p) \in Int
  BY PeerFields, DeltaType, SeqNoInt DEF Acked
<1>2. \A i \in 1 .. Len(p.sendq) : PacketOK(x, p, rp2, A, p.sendq[i])
  BY <1>1, PacketFrame DEF SenderOK, QueueOK
<1>3. \A i \in 1 .. Len(p.sendq) :
         p.sendq[i].rel /\ ~ p.sendq[i].ret => rp2.rcvd < p.sendq[i].pos
  BY DEF SenderOK, QueueOK
<1>4. QueueOK(x, p, rp2, N, A)
  BY <1>2, <1>3 DEF SenderOK, QueueOK
<1> QED
  BY <1>1, <1>4 DEF SenderOK

-----------------------------------------------------------------------------
(* Queueing *)

(* The bounds of an instance leave room for the 16-bit arithmetic. *)
LEMMA Bounds ==
  ASSUME NEW x \in Side
  PROVE  /\ MaxIssued[x] \in Nat /\ MaxUnreliable[x] \in Nat
         /\ 2 * (MaxIssued[x] + 2) < Modulus
         /\ 2 * (MaxUnreliable[x] + 2) < Modulus
         /\ Modulus \in Nat /\ Modulus >= 8
         /\ RandomSeq[x] \subseteq SeqNo
  BY LinkAssumption, ModulusAssumption

LEMMA SendUnreliableOK ==
  ASSUME NEW x \in Side, NEW p \in rudp_peer, NEW rp \in rudp_peer,
         NEW N, NEW A, HistoryOK(x, p, rp, A), SenderOK(x, p, rp, N, A),
         NEW c \in {"APP", "PONG", "NOOP", "CONN_RSP"},
         c = "CONN_RSP" => x = Server /\ p.issued = 0,
         rudp_peer_send_unreliable(p, c).out_seq_unreliable <= MaxUnreliable[x]
  PROVE  SenderOK(x, rudp_peer_send_unreliable(p, c), rp, N, A)
<1> DEFINE p2 == rudp_peer_send_unreliable(p, c)
           q  == p.sendq
           u  == Wrap(p.out_seq_unreliable + 1)
           pc == [cmd |-> c, rel |-> FALSE, ret |-> FALSE, ack |-> NoAck,
                  seq |-> p.out_seq_reliable, useq |-> u, pos |-> p.issued]
           q2 == Append(q, pc)
<1>1. c \in Command /\ c \notin {"CONN_REQ", "CLOSE"}
  BY DEF Command
<1>2. p2 \in rudp_peer
  BY <1>1, SendUnreliableType
<1>3. /\ p2.sendq = q2 /\ p2.out_seq_unreliable = u
      /\ p2.out_seq_reliable = p.out_seq_reliable
      /\ p2.out_seq_acked = p.out_seq_acked
      /\ p2.iss = p.iss /\ p2.issued = p.issued /\ p2.rcvd = p.rcvd
  BY <1>1, SendUnreliableFields
<1>4. u \in 1 .. MaxUnreliable[x] /\ u \in SeqNo
  <2>1. p.out_seq_unreliable \in Nat /\ p.out_seq_unreliable <= MaxUnreliable[x]
    BY PeerFields, SeqNoInt DEF SenderOK
  <2>2. u = p.out_seq_unreliable + 1
    BY <2>1, Bounds, WrapCases
  <2>3. u \in SeqNo
    BY PeerFields, SuccType
  <2> QED
    BY <1>3, <2>1, <2>2, <2>3, Bounds
<1>5. q \in Seq(Packet) /\ Len(q) \in Nat
  BY PeerFields
<1>6. pc \in Packet /\ PacketOK(x, p, rp, A, pc)
  <2>1. pc \in Packet
    BY <1>1, <1>4, PeerFields DEF Packet
  <2>2. p.issued <= p.issued
    BY PeerFields
  <2> QED
    BY <1>1, <1>4, <2>1, <2>2 DEF PacketOK, SenderOK
<1> HIDE DEF p2, u, pc
<1>7. /\ Len(q2) = Len(q) + 1
      /\ \A i \in 1 .. Len(q) : q2[i] = q[i]
      /\ q2[Len(q) + 1] = pc
  BY <1>5, <1>6, AppendProperties
<1>8. pc.rel = FALSE /\ pc.ret = FALSE /\ pc.cmd # "CLOSE"
  BY <1>1 DEF pc
<1>9. \A i \in 1 .. Len(q2) : i \in 1 .. Len(q) \/ i = Len(q) + 1
  BY <1>5, <1>7
<1>10. Acked(p2) = Acked(p) /\ p.issued <= p2.issued /\ p.rcvd <= p2.rcvd
  BY <1>3, PeerFields DEF Acked
<1>11. \A i \in 1 .. Len(q2) : PacketOK(x, p2, rp, A, q2[i]) /\ q2[i].cmd # "CLOSE"
  BY <1>2, <1>3, <1>6, <1>7, <1>8, <1>9, <1>10, PacketFrame DEF SenderOK, QueueOK
<1>12. \A i, j \in 1 .. Len(q2) : i < j =>
          /\ q2[j].ret => q2[i].rel /\ q2[i].ret
          /\ q2[i].rel /\ q2[j].rel => q2[i].pos < q2[j].pos
  BY <1>5, <1>7, <1>8, <1>9 DEF SenderOK, QueueOK
<1>13. \A k \in 1 .. p.issued : k > Acked(p) =>
          \E i \in 1 .. Len(q2) : q2[i].rel /\ q2[i].pos = k
  <2>1. 1 .. Len(q) \subseteq 1 .. Len(q2)
    BY <1>5, <1>7
  <2> QED
    BY <1>7, <2>1 DEF SenderOK, QueueOK
<1>14. /\ \A i \in 1 .. Len(q2) : q2[i].rel /\ ~ q2[i].ret =>
             /\ rp.rcvd < q2[i].pos
             /\ \A n \in N : n.rel => n.pos < q2[i].pos
       /\ \A i \in 1 .. Len(q2) : q2[i].rel => q2[i].pos > Acked(p)
  BY <1>7, <1>8, <1>9 DEF SenderOK, QueueOK
<1>15. QueueOK(x, p2, rp, N, A)
  BY <1>3, <1>10, <1>11, <1>12, <1>13, <1>14 DEF QueueOK
<1>16. SenderOK(x, p2, rp, N, A)
  BY <1>3, <1>4, <1>10, <1>15 DEF SenderOK
<1> QED
  BY <1>16 DEF p2

LEMMA SendReliableOK ==
  ASSUME NEW x \in Side, NEW p \in rudp_peer, NEW rp \in rudp_peer,
         NEW N, NEW A, HistoryOK(x, p, rp, A), SenderOK(x, p, rp, N, A),
         rp.rcvd <= p.issued,
         \A n \in N : PacketOK(x, p, rp, A, n),
         NEW c \in {"APP", "PING"}, NEW A2,
         A2 = IF c = "APP" THEN A \cup {p.issued + 1} ELSE A,
         p.issued + 1 <= MaxIssued[x]
  PROVE  /\ SenderOK(x, rudp_peer_send_reliable(p, c), rp, N, A2)
         /\ HistoryOK(x, rudp_peer_send_reliable(p, c), rp, A2)
         /\ \A a \in 1 .. p.issued : a \in A2 <=> a \in A
<1> DEFINE p2 == rudp_peer_send_reliable(p, c)
           q  == p.sendq
           s  == Wrap(p.out_seq_reliable + 1)
           pc == [cmd |-> c, rel |-> TRUE, ret |-> FALSE, ack |-> NoAck,
                  seq |-> s, useq |-> 0, pos |-> p.issued + 1]
           q2 == Append(q, pc)
<1>1. c \in Command /\ c \notin {"CONN_REQ", "CONN_RSP", "CLOSE"}
  BY DEF Command
<1>2. p2 \in rudp_peer
  BY <1>1, SendReliableType
<1>3. /\ p2.sendq = q2 /\ p2.out_seq_unreliable = 0
      /\ p2.out_seq_reliable = s /\ p2.out_seq_acked = p.out_seq_acked
      /\ p2.iss = p.iss /\ p2.issued = p.issued + 1 /\ p2.rcvd = p.rcvd
  BY <1>1, SendReliableFields
<1>4. /\ p.issued \in Nat /\ p.rcvd \in Nat /\ rp.rcvd \in Nat
      /\ p.iss \in SeqNo /\ p.issued <= MaxIssued[x]
      /\ A \subseteq 1 .. p.issued /\ Acked(p) \in Int
  BY PeerFields, DeltaType, SeqNoInt DEF HistoryOK, Acked
<1>5. s = Wrap(p.iss + (p.issued + 1)) /\ s \in SeqNo
  <2>1. 2 * p.issued < Modulus
    BY <1>4, Bounds
  <2>2. s = Wrap(p.iss + p.issued + 1)
    BY <1>4, <2>1, WrapSucc DEF SenderOK
  <2>3. p.iss + p.issued + 1 = p.iss + (p.issued + 1)
    <3>1. p.iss \in Int /\ p.issued \in Int
      BY <1>4, SeqNoInt
    <3> QED
      BY <3>1
  <2> QED
    BY <2>2, <2>3, PeerFields, SuccType
<1>6. \A a \in 1 .. p.issued : a \in A2 <=> a \in A
  BY <1>4
<1>7. p.issued + 1 \notin A
  BY <1>4
<1>8. HistoryOK(x, p2, rp, A2)
  <2>1. A2 \subseteq 1 .. p.issued + 1
    <3>1. 1 .. p.issued \subseteq 1 .. p.issued + 1 /\ p.issued + 1 \in 1 .. p.issued + 1
      BY <1>4
    <3>2. A2 \subseteq A \cup {p.issued + 1}
      OBVIOUS
    <3> QED
      BY <1>4, <3>1, <3>2
  <2>2. x = Client => p.issued + 1 >= 1 /\ 1 \notin A2
    BY <1>4 DEF HistoryOK
  <2> QED
    BY <1>3, <2>1, <2>2 DEF HistoryOK
<1>9. q \in Seq(Packet) /\ Len(q) \in Nat
  BY PeerFields
<1>10. pc \in Packet
  BY <1>1, <1>4, <1>5, SeqNoInt DEF Packet
<1>11. PacketOK(x, p2, rp, A2, pc)
  <2>1. pc.pos <= p2.issued /\ pc.pos >= 1
    BY <1>3, <1>4
  <2>2. pc.cmd = "APP" <=> pc.pos \in A2
    BY <1>7
  <2> QED
    BY <1>1, <1>3, <1>5, <1>10, <2>1, <2>2 DEF PacketOK
<1> HIDE DEF p2, s
<1>12. /\ pc.rel = TRUE /\ pc.ret = FALSE /\ pc.cmd # "CLOSE"
       /\ pc.pos = p.issued + 1
  BY <1>1
<1> HIDE DEF pc
<1>13. /\ Len(q2) = Len(q) + 1
       /\ \A i \in 1 .. Len(q) : q2[i] = q[i]
       /\ q2[Len(q) + 1] = pc
  BY <1>9, <1>10, AppendProperties
<1>14. \A i \in 1 .. Len(q2) : i \in 1 .. Len(q) \/ i = Len(q) + 1
  BY <1>9, <1>13
<1>15. Acked(p2) = Acked(p) /\ p.issued <= p2.issued /\ p.rcvd <= p2.rcvd
  BY <1>3, <1>4 DEF Acked
<1>16. \A i \in 1 .. Len(q) : PacketOK(x, p2, rp, A2, q[i]) /\ q[i].cmd # "CLOSE"
  BY <1>2, <1>3, <1>6, <1>15, PacketFrame DEF SenderOK, QueueOK
<1>17. \A i \in 1 .. Len(q) : q[i].pos \in Nat /\ q[i].pos <= p.issued
  BY DEF SenderOK, QueueOK, PacketOK, Packet
<1>18. \A n \in N : n.pos \in Nat /\ n.pos <= p.issued
  BY DEF PacketOK, Packet
<1>19. \A i, j \in 1 .. Len(q2) : i < j =>
          /\ q2[j].ret => q2[i].rel /\ q2[i].ret
          /\ q2[i].rel /\ q2[j].rel => q2[i].pos < q2[j].pos
  BY <1>4, <1>9, <1>12, <1>13, <1>14, <1>17 DEF SenderOK, QueueOK
<1>20. \A k \in 1 .. p2.issued : k > Acked(p2) =>
          \E i \in 1 .. Len(q2) : q2[i].rel /\ q2[i].pos = k
  <2>1. 1 .. Len(q) \subseteq 1 .. Len(q2) /\ Len(q) + 1 \in 1 .. Len(q2)
    BY <1>9, <1>13
  <2>2. \A k \in 1 .. p2.issued : k \in 1 .. p.issued \/ k = p.issued + 1
    BY <1>3, <1>4
  <2> QED
    BY <1>12, <1>13, <1>15, <2>1, <2>2 DEF SenderOK, QueueOK
<1>21. \A i \in 1 .. Len(q2) : q2[i].rel /\ ~ q2[i].ret =>
             /\ rp.rcvd < q2[i].pos
             /\ \A n \in N : n.rel => n.pos < q2[i].pos
  BY <1>4, <1>12, <1>13, <1>14, <1>18 DEF SenderOK, QueueOK
<1>22. \A i \in 1 .. Len(q2) : q2[i].rel => q2[i].pos > Acked(p2)
  BY <1>4, <1>12, <1>13, <1>14, <1>15 DEF SenderOK, QueueOK
<1>23. QueueOK(x, p2, rp, N, A2)
  <2>1. \A i \in 1 .. Len(q2) : PacketOK(x, p2, rp, A2, q2[i]) /\ q2[i].cmd # "CLOSE"
    BY <1>11, <1>12, <1>13, <1>14, <1>16
  <2> QED
    BY <1>3, <1>19, <1>20, <1>21, <1>22, <2>1 DEF QueueOK
<1>24. SenderOK(x, p2, rp, N, A2)
  BY <1>3, <1>5, <1>15, <1>23, Bounds DEF SenderOK
<1> QED
  BY <1>6, <1>8, <1>24 DEF p2

-----------------------------------------------------------------------------
(* Acknowledgements *)

(* out_seq_acked is the truncation of Acked. *)
LEMMA WrapOfDelta ==
  ASSUME NEW a \in SeqNo, NEW iss \in SeqNo
  PROVE  Wrap(iss + Delta(a, iss)) = a
<1>1. a \in Int /\ iss \in Int /\ 0 <= a /\ a < Modulus /\ 0 <= iss /\ iss < Modulus
  BY SeqNoInt
<1>2. Delta(a, iss) \in {a - iss, a - iss - Modulus, a - iss + Modulus}
  BY <1>1, DeltaCases, ModulusAssumption
<1>3. iss + Delta(a, iss) \in {a, a - Modulus, a + Modulus}
  BY <1>1, <1>2, ModulusAssumption
<1> QED
  BY <1>1, <1>3, WrapCases, ModulusAssumption

LEMMA WrapOfSeqNo == \A n \in SeqNo : Wrap(n) = n /\ Wrap(n + 0) = n
  BY SeqNoInt, WrapCases

(* An acknowledgement that peer_handle_ack may be given. *)
GoodAck(p, rp, ack) ==
    \/ \E j \in -1 .. rp.rcvd : ack = Wrap(p.iss + j)
    \/ AckInPast(p, ack)
    \/ BrokenAck(p, ack)

(* The sentinel that a client acknowledges before its handshake is over is *)
(* ignored, or repeats what out_seq_acked was initialised with.            *)
LEMMA AckIsGood ==
  ASSUME NoSentinelClash, NEW x \in Side, NEW p \in rudp_peer,
         NEW rp \in rudp_peer, NEW N, NEW A,
         HistoryOK(x, p, rp, A), SenderOK(x, p, rp, N, A),
         rp.rcvd <= p.issued,
         NEW ack \in SeqNo, AckOK(Remote(x), rp, p, ack)
  PROVE  GoodAck(p, rp, ack)
<1>1. p.issued \in Nat /\ rp.rcvd \in Nat /\ p.iss \in SeqNo /\ p.iss \in Int
      /\ 0 <= p.iss /\ Acked(p) \in Int /\ p.issued <= MaxIssued[x]
      /\ p.out_seq_acked \in SeqNo /\ p.out_seq_reliable \in SeqNo
  BY PeerFields, SeqNoInt, DeltaType DEF Acked, HistoryOK
<1>2. CASE \E j \in 0 .. rp.rcvd : ack = Wrap(p.iss + j)
  <2>1. 0 .. rp.rcvd \subseteq -1 .. rp.rcvd
    BY <1>1
  <2> QED
    BY <1>2, <2>1 DEF GoodAck
<1>3. CASE Remote(x) = Client /\ ack = Modulus - 1
  <2>1. x = Server
    BY <1>3, RemoteFacts DEF Remote, Side, Client, Server
  <2>2. p.iss + p.issued < Modulus - 1
    BY <1>1, <2>1, Bounds DEF HistoryOK, NoSentinelClash
  <2>3. CASE p.iss = 0
    <3>1. Wrap(p.iss + (-1)) = Modulus - 1
      BY <2>3, WrapCases, Bounds
    <3>2. -1 \in -1 .. rp.rcvd
      BY <1>1
    <3> QED
      BY <1>3, <3>1, <3>2 DEF GoodAck
  <2>4. CASE p.iss > 0
    <3>1. -1 <= Acked(p) /\ Acked(p) <= p.issued
      BY <1>1 DEF SenderOK
    <3>2. p.out_seq_acked = p.iss + Acked(p)
      <4>1. p.out_seq_acked = Wrap(p.iss + Acked(p))
        BY <1>1, WrapOfDelta DEF Acked
      <4>2. 0 <= p.iss + Acked(p) /\ p.iss + Acked(p) < Modulus
            /\ p.iss + Acked(p) \in Int
        BY <1>1, <2>2, <2>4, <3>1, Bounds
      <4> QED
        BY <4>1, <4>2, WrapCases
    <3>3. p.out_seq_reliable = p.iss + p.issued
      <4>1. p.out_seq_reliable = Wrap(p.iss + p.issued)
        BY DEF SenderOK
      <4>2. 0 <= p.iss + p.issued /\ p.iss + p.issued < Modulus
            /\ p.iss + p.issued \in Int
        BY <1>1, <2>2, Bounds
      <4> QED
        BY <4>1, <4>2, WrapCases
    <3> DEFINE d == Modulus - 1 - p.out_seq_acked
               e == Modulus - 1 - p.out_seq_reliable
    <3>4. d \in Int /\ e \in Int /\ 1 <= e /\ e <= d /\ d < Modulus
      BY <1>1, <2>2, <2>4, <3>1, <3>2, <3>3, Bounds
    <3>5. /\ 2 * d < Modulus => Delta(ack, p.out_seq_acked) = d
          /\ 2 * d >= Modulus => Delta(ack, p.out_seq_acked) = d - Modulus
      BY <1>1, <1>3, <3>4, DeltaCases, Bounds
    <3>6. 2 * e < Modulus => Delta(ack, p.out_seq_reliable) = e
      <4>1. ack - p.out_seq_reliable = e
        BY <1>3
      <4>2. Modulus \in Nat /\ - Modulus <= 2 * e
        BY <3>4, Bounds
      <4> HIDE DEF e
      <4> QED
        BY <1>1, <4>1, <4>2, DeltaCases
    <3> HIDE DEF d, e
    <3>7. CASE 2 * d < Modulus
      <4>1. Delta(ack, p.out_seq_reliable) > 0
        BY <3>4, <3>6, <3>7, Bounds
      <4>2. ~ (Delta(ack, p.out_seq_acked) < 0)
        BY <3>4, <3>5, <3>7
      <4> QED
        BY <4>1, <4>2 DEF GoodAck, BrokenAck, AckInPast
    <3>8. CASE ~ (2 * d < Modulus)
      BY <3>4, <3>5, <3>8, Bounds DEF GoodAck, AckInPast
    <3> QED
      BY <3>7, <3>8
  <2> QED
    BY <1>1, <2>3, <2>4
<1> QED
  BY <1>2, <1>3 DEF AckOK

(* peer_handle_ack keeps exactly the packets after the new out_seq_acked. *)
LEMMA HandleAckOK ==
  ASSUME NEW x \in Side, NEW p \in rudp_peer, NEW rp \in rudp_peer,
         NEW N, NEW A, HistoryOK(x, p, rp, A), SenderOK(x, p, rp, N, A),
         rp.rcvd <= p.issued, NEW ack \in SeqNo, GoodAck(p, rp, ack)
  PROVE  SenderOK(x, peer_handle_ack(p, ack), rp, N, A)
<1>1. CASE AckInPast(p, ack) \/ BrokenAck(p, ack)
  BY <1>1 DEF peer_handle_ack
<1>2. CASE ~ (AckInPast(p, ack) \/ BrokenAck(p, ack))
  <2> DEFINE q  == p.sendq
             k  == FirstUnacked(q, ack)
             q2 == SubSeq(q, k, Len(q))
             p2 == peer_handle_ack(p, ack)
  <2>1. /\ p2.sendq = q2 /\ p2.out_seq_acked = ack
        /\ p2.out_seq_unreliable = p.out_seq_unreliable
        /\ p2.out_seq_reliable = p.out_seq_reliable
        /\ p2.iss = p.iss /\ p2.issued = p.issued /\ p2.rcvd = p.rcvd
    BY <1>2 DEF peer_handle_ack, rudp_peer
  <2>2. p2 \in rudp_peer
    BY HandleAckType
  <2>3. PICK j \in -1 .. rp.rcvd : ack = Wrap(p.iss + j)
    BY <1>2 DEF GoodAck
  <2>4. /\ p.issued \in Nat /\ rp.rcvd \in Nat /\ p.iss \in SeqNo
        /\ Acked(p) \in Int /\ j \in Int /\ -1 <= j /\ j <= rp.rcvd
        /\ 2 * (p.issued + 2) < Modulus /\ 2 * j < Modulus
        /\ -1 <= Acked(p) /\ Acked(p) <= rp.rcvd /\ 2 * Acked(p) < Modulus
        /\ p.out_seq_acked \in SeqNo /\ Modulus \in Nat
    <3>1. /\ p.issued \in Nat /\ rp.rcvd \in Nat /\ p.iss \in SeqNo
          /\ p.out_seq_acked \in SeqNo
      BY PeerFields
    <3>2. Acked(p) \in Int /\ -1 <= Acked(p) /\ Acked(p) <= rp.rcvd
      BY <3>1, SeqNoInt, DeltaType DEF Acked, SenderOK
    <3>3. j \in Int /\ -1 <= j /\ j <= rp.rcvd
      BY <2>3, <3>1
    <3>4. 2 * (p.issued + 2) < Modulus /\ Modulus \in Nat
      BY <3>1, Bounds DEF HistoryOK
    <3> QED
      BY <3>1, <3>2, <3>3, <3>4
  <2>5. Acked(p) <= j
    <3>1. p.out_seq_acked = Wrap(p.iss + Acked(p))
      BY <2>4, WrapOfDelta DEF Acked
    <3>2. - Modulus <= 2 * (j - Acked(p)) /\ 2 * (j - Acked(p)) < Modulus
      BY <2>4, Bounds
    <3>3. Delta(ack, p.out_seq_acked) = j - Acked(p)
      BY <2>3, <2>4, <3>1, <3>2, DeltaOfWraps
    <3> QED
      BY <1>2, <2>4, <3>3 DEF AckInPast
  <2>6. Acked(p2) = j
    <3>1. p.iss = Wrap(p.iss + 0)
      BY <2>4, WrapOfSeqNo
    <3>2. - Modulus <= 2 * (j - 0) /\ 2 * (j - 0) < Modulus /\ 2 * 0 < Modulus
      BY <2>4, Bounds
    <3>3. Delta(Wrap(p.iss + j), Wrap(p.iss + 0)) = j - 0
      BY <2>4, <3>2, DeltaOfWraps
    <3> QED
      BY <2>1, <2>3, <2>4, <3>1, <3>3 DEF Acked
  <2>7. q \in Seq(Packet) /\ Len(q) \in Nat
    BY PeerFields
  <2>8. /\ k \in 1 .. Len(q) + 1
        /\ \A i \in 1 .. k - 1 : Acknowledged(q[i], ack)
        /\ k <= Len(q) => ~ Acknowledged(q[k], ack)
    BY <2>7, FirstUnackedIsFirst
  <2> HIDE DEF k, p2
  <2>9. /\ Len(q2) = Len(q) - k + 1
        /\ \A i \in 1 .. Len(q2) : q2[i] = q[i + k - 1]
    <3>1. k \in Int /\ Len(q) \in Int /\ \A i \in k .. Len(q) : q[i] \in Packet
      BY <2>7, <2>8
    <3>2. /\ Len(q2) = IF k <= Len(q) THEN Len(q) - k + 1 ELSE 0
          /\ \A i \in 1 .. Len(q) - k + 1 : q2[i] = q[k + i - 1]
      BY <3>1, SubSeqProperties
    <3> HIDE DEF q2, q
    <3>3. Len(q2) = Len(q) - k + 1
      BY <2>7, <2>8, <3>2
    <3>4. \A i \in 1 .. Len(q2) :
             i \in 1 .. Len(q) - k + 1 /\ k + i - 1 = i + k - 1
      BY <2>7, <2>8, <3>3
    <3> QED
      BY <3>2, <3>3, <3>4
  <2>10. /\ \A i \in 1 .. Len(q2) : i + k - 1 \in k .. Len(q)
                                    /\ i + k - 1 \in 1 .. Len(q)
         /\ \A i \in k .. Len(q) : i - k + 1 \in 1 .. Len(q2)
                                    /\ i - k + 1 + k - 1 = i
    BY <2>7, <2>8, <2>9
  <2>11. \A i \in 1 .. Len(q) :
            /\ q[i].pos \in Nat /\ q[i].pos <= p.issued
            /\ q[i].seq = Wrap(p.iss + q[i].pos)
            /\ ~ q[i].rel => ~ q[i].ret
            /\ q[i].rel \in BOOLEAN /\ q[i].ret \in BOOLEAN
    BY DEF SenderOK, QueueOK, PacketOK, Packet
  <2>12. \A i \in 1 .. Len(q) : Delta(q[i].seq, ack) = q[i].pos - j
    <3> SUFFICES ASSUME NEW i \in 1 .. Len(q)
                 PROVE  Delta(q[i].seq, ack) = q[i].pos - j
      OBVIOUS
    <3> DEFINE m == q[i].pos
    <3>1. m \in Int /\ -1 <= m /\ 2 * m < Modulus
          /\ - Modulus <= 2 * (m - j) /\ 2 * (m - j) < Modulus
      <4>1. m \in Nat /\ m <= p.issued
        BY <2>11
      <4>2. j \in Int /\ -1 <= j /\ j <= p.issued /\ p.issued \in Nat
            /\ 2 * (p.issued + 2) < Modulus /\ Modulus \in Nat
        BY <2>4
      <4> DEFINE t == p.issued
      <4> HIDE DEF m, t
      <4>3. m \in Nat /\ m <= t /\ j \in Int /\ -1 <= j /\ j <= t /\ t \in Nat
            /\ 2 * (t + 2) < Modulus /\ Modulus \in Nat
        BY <4>1, <4>2 DEF t
      <4> QED
        BY <4>3
    <3>2. Delta(Wrap(p.iss + m), Wrap(p.iss + j)) = m - j
      BY <2>4, <3>1, DeltaOfWraps
    <3> QED
      BY <2>3, <2>11, <3>2
  <2>13. \A i \in k .. Len(q) : q[i].rel => q[i].pos > j
    <3> SUFFICES ASSUME NEW i \in k .. Len(q), q[i].rel
                 PROVE  q[i].pos > j
      OBVIOUS
    <3>1. /\ k \in 1 .. Len(q) /\ i \in 1 .. Len(q) /\ (k < i \/ k = i)
          /\ ~ Acknowledged(q[k], ack)
      BY <2>7, <2>8
    <3>2. CASE ~ q[k].ret
      <4>1. ~ q[i].ret
        BY <3>1, <3>2 DEF SenderOK, QueueOK
      <4>2. rp.rcvd < q[i].pos
        BY <3>1, <4>1 DEF SenderOK, QueueOK
      <4> DEFINE m == q[i].pos
                 t == rp.rcvd
      <4>3. m \in Nat /\ t \in Nat /\ j \in Int /\ j <= t /\ t < m
        BY <2>4, <2>11, <3>1, <4>2, PeerFields
      <4> HIDE DEF m, t
      <4>4. m > j
        BY <4>3
      <4> QED
        BY <4>4 DEF m
    <3>3. CASE q[k].ret
      <4>1. q[k].rel /\ q[k].pos > j
        <5>1. q[k].rel
          BY <2>11, <3>1, <3>3
        <5>2. ~ (Delta(q[k].seq, ack) <= 0)
          BY <3>1, <3>3, <5>1 DEF Acknowledged
        <5> DEFINE m == q[k].pos
        <5>3. m \in Nat /\ j \in Int /\ ~ (m - j <= 0)
          BY <2>4, <2>11, <2>12, <3>1, <5>2
        <5> HIDE DEF m
        <5>4. m > j
          BY <5>3
        <5> QED
          BY <5>1, <5>4 DEF m
      <4>2. k < i => q[k].pos < q[i].pos
        BY <3>1, <4>1 DEF SenderOK, QueueOK
      <4> DEFINE m == q[i].pos
                 t == q[k].pos
      <4>3. /\ m \in Nat /\ t \in Nat /\ j \in Int /\ t > j
            /\ t < m \/ t = m
        BY <2>4, <2>11, <3>1, <4>1, <4>2
      <4> HIDE DEF m, t
      <4>4. m > j
        BY <4>3
      <4> QED
        BY <4>4 DEF m
    <3> QED
      BY <3>2, <3>3
  <2>14. \A n \in 1 .. p2.issued : n > Acked(p2) =>
            \E i \in 1 .. Len(q2) : q2[i].rel /\ q2[i].pos = n
    <3> SUFFICES ASSUME NEW n \in 1 .. p.issued, n > j
                 PROVE  \E i \in 1 .. Len(q2) : q2[i].rel /\ q2[i].pos = n
      BY <2>1, <2>6
    <3>1. n > Acked(p)
      BY <2>4, <2>5
    <3>2. PICK i \in 1 .. Len(q) : q[i].rel /\ q[i].pos = n
      BY <3>1 DEF SenderOK, QueueOK
    <3>3. i \in k .. Len(q)
      <4>1. ASSUME i < k PROVE FALSE
        <5>1. Acknowledged(q[i], ack)
          BY <2>7, <2>8, <4>1
        <5>2. n - j <= 0
          BY <2>12, <3>2, <5>1 DEF Acknowledged
        <5>3. n \in Int /\ j \in Int
          BY <2>4
        <5> QED
          BY <5>2, <5>3
      <4> QED
        BY <2>7, <2>8, <4>1
    <3>4. i - k + 1 \in 1 .. Len(q2) /\ q2[i - k + 1] = q[i]
      BY <2>9, <2>10, <3>3
    <3> QED
      BY <3>2, <3>4
  <2>15. \A i \in 1 .. Len(q2) : q2[i].rel => q2[i].pos > Acked(p2)
    BY <2>6, <2>9, <2>10, <2>13
  <2>16. \A i \in 1 .. Len(q2) : PacketOK(x, p2, rp, A, q2[i]) /\ q2[i].cmd # "CLOSE"
    <3>1. p.issued <= p2.issued /\ p.rcvd <= p2.rcvd
      BY <2>1, PeerFields
    <3>2. \A i \in 1 .. Len(q) : PacketOK(x, p2, rp, A, q[i]) /\ q[i].cmd # "CLOSE"
      BY <2>1, <2>2, <3>1, PacketFrame DEF SenderOK, QueueOK
    <3> QED
      BY <2>9, <2>10, <3>2
  <2>17. \A i, m \in 1 .. Len(q2) : i < m =>
            /\ q2[m].ret => q2[i].rel /\ q2[i].ret
            /\ q2[i].rel /\ q2[m].rel => q2[i].pos < q2[m].pos
    <3> SUFFICES ASSUME NEW i \in 1 .. Len(q2), NEW m \in 1 .. Len(q2), i < m
                 PROVE  /\ q2[m].ret => q2[i].rel /\ q2[i].ret
                        /\ q2[i].rel /\ q2[m].rel => q2[i].pos < q2[m].pos
      OBVIOUS
    <3>1. i + k - 1 < m + k - 1
      BY <2>7, <2>8, <2>9
    <3>2. \A a, b \in 1 .. Len(q) : a < b =>
             /\ q[b].ret => q[a].rel /\ q[a].ret
             /\ q[a].rel /\ q[b].rel => q[a].pos < q[b].pos
      BY DEF SenderOK, QueueOK
    <3>3. /\ i + k - 1 \in 1 .. Len(q) /\ m + k - 1 \in 1 .. Len(q)
          /\ q2[i] = q[i + k - 1] /\ q2[m] = q[m + k - 1]
      BY <2>9, <2>10
    <3> HIDE DEF q2, q
    <3> QED
      BY <3>1, <3>2, <3>3
  <2>18. \A i \in 1 .. Len(q2) : q2[i].rel /\ ~ q2[i].ret =>
            /\ rp.rcvd < q2[i].pos
            /\ \A n \in N : n.rel => n.pos < q2[i].pos
    BY <2>9, <2>10 DEF SenderOK, QueueOK
  <2>19. QueueOK(x, p2, rp, N, A)
    BY <2>1, <2>14, <2>15, <2>16, <2>17, <2>18 DEF QueueOK
  <2>20. SenderOK(x, p2, rp, N, A)
    BY <2>1, <2>4, <2>6, <2>19 DEF SenderOK
  <2> QED
    BY <2>20 DEF p2
<1> QED
  BY <1>1, <1>2

-----------------------------------------------------------------------------
(* Transmission *)

(* What a receiver stamps on its packets is an acknowledgement it may send. *)
LEMMA StampedOK ==
  ASSUME NEW x \in Side, NEW p \in rudp_peer, NEW rp \in rudp_peer, NEW A,
         ReceiverOK(x, p, rp), NEW pc, PacketOK(x, p, rp, A, pc)
  PROVE  PacketOK(x, p, rp, A, Stamped(p, pc))
<1>1. pc \in Packet
  BY DEF PacketOK
<1>2. AckOK(x, p, rp, p.in_seq_reliable)
  <2>1. p.rcvd \in 0 .. p.rcvd
    BY PeerFields
  <2> QED
    BY <2>1 DEF ReceiverOK, AckOK
<1>3. Stamped(p, pc) \in Packet
  BY <1>1, StampedType
<1> QED
  BY <1>1, <1>2, <1>3, StampedFields DEF PacketOK

LEMMA RequeuedOK ==
  ASSUME NEW x \in Side, NEW p \in rudp_peer, NEW rp \in rudp_peer, NEW A,
         ReceiverOK(x, p, rp), NEW i \in 1 .. Len(p.sendq),
         i \in Kept(p.sendq), PacketOK(x, p, rp, A, p.sendq[i])
  PROVE  PacketOK(x, p, rp, A, Requeued(p, i))
<1>1. CASE i \in Visited(p.sendq)
  <2> DEFINE st == Stamped(p, p.sendq[i])
  <2>1. PacketOK(x, p, rp, A, st)
    BY StampedOK
  <2>2. st.rel
    BY <1>1, PeerFields, StampedFields DEF Kept
  <2>3. Requeued(p, i) = [st EXCEPT !.ret = TRUE]
    BY <1>1 DEF Requeued
  <2> HIDE DEF st
  <2>4. [st EXCEPT !.ret = TRUE] \in Packet
    BY <2>1 DEF PacketOK, Packet
  <2>5. st \in Packet
    BY <2>1 DEF PacketOK
  <2> DEFINE r == [st EXCEPT !.ret = TRUE]
  <2>6. /\ r.cmd = st.cmd /\ r.rel = st.rel /\ r.ack = st.ack
        /\ r.seq = st.seq /\ r.useq = st.useq /\ r.pos = st.pos
    BY <2>5 DEF Packet
  <2> HIDE DEF r
  <2>7. PacketOK(x, p, rp, A, r)
    BY <2>1, <2>2, <2>4, <2>6 DEF PacketOK, r
  <2> QED
    BY <2>3, <2>7 DEF r
<1>2. CASE i \notin Visited(p.sendq)
  BY <1>2 DEF Requeued
<1> QED
  BY <1>1, <1>2

LEMMA FlushOK ==
  ASSUME NEW x \in Side, NEW p \in rudp_peer, NEW rp \in rudp_peer,
         NEW N, NEW A, HistoryOK(x, p, rp, A), SenderOK(x, p, rp, N, A),
         ReceiverOK(x, p, rp)
  PROVE  /\ SenderOK(x, peer_send_queue(p), rp, N \cup Transmitted(p), A)
         /\ \A n \in Transmitted(p) : PacketOK(x, p, rp, A, n) /\ n.cmd # "CLOSE"
<1> DEFINE q  == p.sendq
           f  == Ordered(Kept(q))
           q2 == [i \in DOMAIN f |-> Requeued(p, f[i])]
           p2 == peer_send_queue(p)
           V  == Visited(q)
           K  == Kept(q)
<1>1. q \in Seq(Packet) /\ Len(q) \in Nat /\ \A i \in 1 .. Len(q) : q[i] \in Packet
  BY PeerFields
<1>2. PICK n \in Nat :
        /\ DOMAIN f = 1 .. n
        /\ \A i \in 1 .. n : f[i] \in K /\ f[i] \in 1 .. Len(q)
        /\ \A i, j \in 1 .. n : i < j => f[i] < f[j]
        /\ \A s \in K : \E i \in 1 .. n : f[i] = s
  BY <1>1, KeptOrdered
<1>3. /\ p2 \in rudp_peer /\ p2.sendq = q2
      /\ p2.out_seq_unreliable = p.out_seq_unreliable
      /\ p2.out_seq_reliable = p.out_seq_reliable
      /\ p2.out_seq_acked = p.out_seq_acked
      /\ p2.iss = p.iss /\ p2.issued = p.issued /\ p2.rcvd = p.rcvd
  BY SendQueueType DEF peer_send_queue, rudp_peer
<1>4. Len(q2) = n /\ \A i \in 1 .. n : q2[i] = Requeued(p, f[i])
  BY <1>2
<1> HIDE DEF f, q2, p2
<1>5. \A i \in 1 .. Len(q) : PacketOK(x, p, rp, A, q[i]) /\ q[i].cmd # "CLOSE"
  BY DEF SenderOK, QueueOK
<1>6. \A t \in Transmitted(p) : \E i \in V : t = Stamped(p, q[i])
  BY DEF Transmitted
<1>7. \A i \in V : i \in 1 .. Len(q)
  BY DEF Visited
<1>8. \A t \in Transmitted(p) : PacketOK(x, p, rp, A, t) /\ t.cmd # "CLOSE"
  BY <1>1, <1>5, <1>6, <1>7, StampedOK, StampedFields
<1>9. \A i \in 1 .. Len(q), j \in 1 .. Len(q) : i \notin V /\ i < j => j \notin V
  <2> SUFFICES ASSUME NEW i \in 1 .. Len(q), NEW j \in 1 .. Len(q),
                      i \notin V, i < j
               PROVE  j \notin V
    OBVIOUS
  <2>1. PICK m \in 1 .. i - 1 : Retransmission(q[m])
    BY DEF Visited
  <2>2. m \in 1 .. j - 1
    BY <1>1
  <2> QED
    BY <2>1, <2>2 DEF Visited
<1>10. \A i \in 1 .. n : LET s == f[i] IN
          /\ q2[i].cmd = q[s].cmd /\ q2[i].rel = q[s].rel /\ q2[i].pos = q[s].pos
          /\ s \in V => q2[i].ret = TRUE /\ q[s].rel
          /\ s \notin V => q2[i] = q[s]
  <2> SUFFICES ASSUME NEW i \in 1 .. n
               PROVE  LET s == f[i] IN
                      /\ q2[i].cmd = q[s].cmd /\ q2[i].rel = q[s].rel
                      /\ q2[i].pos = q[s].pos
                      /\ s \in V => q2[i].ret = TRUE /\ q[s].rel
                      /\ s \notin V => q2[i] = q[s]
    OBVIOUS
  <2>1. f[i] \in 1 .. Len(q) /\ (f[i] \in V => q[f[i]].rel)
    BY <1>2 DEF Kept
  <2>2. q2[i] = Requeued(p, f[i])
    BY <1>4
  <2> DEFINE s == f[i]
  <2>3. s \in 1 .. Len(p.sendq) /\ q2[i] = Requeued(p, s)
    BY <2>1, <2>2
  <2> HIDE DEF s
  <2>4. /\ q2[i].cmd = q[s].cmd /\ q2[i].rel = q[s].rel /\ q2[i].pos = q[s].pos
        /\ s \in V => q2[i].ret = TRUE
        /\ s \notin V => q2[i] = q[s]
    <3>1. /\ Requeued(p, s).cmd = p.sendq[s].cmd
          /\ Requeued(p, s).rel = p.sendq[s].rel
          /\ Requeued(p, s).pos = p.sendq[s].pos
          /\ s \in Visited(p.sendq) => Requeued(p, s).ret = TRUE
          /\ s \notin Visited(p.sendq) => Requeued(p, s) = p.sendq[s]
      BY <2>3, RequeuedFields, Zenon
    <3> QED
      BY <2>3, <3>1, Zenon
  <2> QED
    BY <2>1, <2>4 DEF s
<1>11. \A i \in 1 .. Len(q2) : PacketOK(x, p2, rp, A, q2[i]) /\ q2[i].cmd # "CLOSE"
  <2>1. \A i \in 1 .. n : PacketOK(x, p, rp, A, q2[i])
    BY <1>2, <1>4, <1>5, RequeuedOK
  <2>2. p.issued <= p2.issued /\ p.rcvd <= p2.rcvd
    BY <1>3, PeerFields
  <2> QED
    <3>1. \A i \in 1 .. n : PacketOK(x, p2, rp, A, q2[i])
      BY <1>3, <2>1, <2>2, PacketFrame
    <3>2. ASSUME NEW i \in 1 .. n PROVE q2[i].cmd # "CLOSE"
      <4>1. f[i] \in 1 .. Len(q) /\ q2[i].cmd = q[f[i]].cmd
        BY <1>2, <1>10
      <4>2. q[f[i]].cmd # "CLOSE"
        BY <1>5, <4>1, Zenon
      <4> QED
        BY <4>1, <4>2
    <3> QED
      BY <1>4, <3>1, <3>2
<1>12. \A a, b \in 1 .. Len(q) : a < b =>
          /\ q[b].ret => q[a].rel /\ q[a].ret
          /\ q[a].rel /\ q[b].rel => q[a].pos < q[b].pos
  BY DEF SenderOK, QueueOK
<1>13. \A i, j \in 1 .. Len(q2) : i < j =>
          /\ q2[j].ret => q2[i].rel /\ q2[i].ret
          /\ q2[i].rel /\ q2[j].rel => q2[i].pos < q2[j].pos
  <2> SUFFICES ASSUME NEW i \in 1 .. n, NEW j \in 1 .. n, i < j
               PROVE  /\ q2[j].ret => q2[i].rel /\ q2[i].ret
                      /\ q2[i].rel /\ q2[j].rel => q2[i].pos < q2[j].pos
    BY <1>4
  <2>1. f[i] \in 1 .. Len(q) /\ f[j] \in 1 .. Len(q) /\ f[i] < f[j]
    BY <1>2
  <2>2. CASE f[i] \in V
    BY <1>10, <1>12, <2>1, <2>2
  <2>3. CASE f[i] \notin V
    <3>1. f[j] \notin V
      BY <1>9, <2>1, <2>3
    <3>2. q2[i] = q[f[i]] /\ q2[j] = q[f[j]]
      BY <1>10, <2>3, <3>1
    <3> QED
      BY <1>12, <2>1, <3>2
  <2> QED
    BY <2>2, <2>3
<1>14. \A i \in 1 .. Len(q2) : q2[i].rel /\ ~ q2[i].ret =>
          /\ rp.rcvd < q2[i].pos
          /\ \A t \in N \cup Transmitted(p) : t.rel => t.pos < q2[i].pos
  <2> SUFFICES ASSUME NEW i \in 1 .. n, q2[i].rel, ~ q2[i].ret
               PROVE  /\ rp.rcvd < q2[i].pos
                      /\ \A t \in N \cup Transmitted(p) : t.rel => t.pos < q2[i].pos
    BY <1>4
  <2> DEFINE s == f[i]
  <2>1. s \in 1 .. Len(q) /\ s \notin V /\ q2[i] = q[s]
    BY <1>2, <1>10
  <2> HIDE DEF s
  <2>2. /\ rp.rcvd < q[s].pos
        /\ \A t \in N : t.rel => t.pos < q[s].pos
    BY <2>1 DEF SenderOK, QueueOK
  <2>3. \A v \in V : v < s
    <3> SUFFICES ASSUME NEW v \in V PROVE v < s
      OBVIOUS
    <3>1. v \in 1 .. Len(q) /\ ~ (s < v) /\ s # v
      BY <1>7, <1>9, <2>1
    <3> QED
      BY <1>1, <2>1, <3>1
  <2>4. \A t \in Transmitted(p) : t.rel => t.pos < q[s].pos
    <3> SUFFICES ASSUME NEW t \in Transmitted(p), t.rel PROVE t.pos < q[s].pos
      OBVIOUS
    <3>1. PICK v \in V : t = Stamped(p, q[v])
      BY <1>6
    <3>2. v \in 1 .. Len(q) /\ v < s /\ t.rel = q[v].rel /\ t.pos = q[v].pos
      BY <1>1, <1>7, <2>3, <3>1, StampedFields
    <3> QED
      BY <1>12, <2>1, <3>2
  <2> QED
    BY <2>1, <2>2, <2>4
<1>15. Acked(p2) = Acked(p)
  BY <1>3 DEF Acked
<1>16. \A i \in 1 .. Len(q2) : q2[i].rel => q2[i].pos > Acked(p2)
  <2>1. \A s \in 1 .. Len(q) : q[s].rel => q[s].pos > Acked(p)
    BY DEF SenderOK, QueueOK
  <2> QED
    BY <1>2, <1>4, <1>10, <1>15, <2>1
<1>17. \A k \in 1 .. p2.issued : k > Acked(p2) =>
          \E i \in 1 .. Len(q2) : q2[i].rel /\ q2[i].pos = k
  <2> SUFFICES ASSUME NEW k \in 1 .. p.issued, k > Acked(p)
               PROVE  \E i \in 1 .. n : q2[i].rel /\ q2[i].pos = k
    BY <1>3, <1>4, <1>15
  <2>1. PICK s \in 1 .. Len(q) : q[s].rel /\ q[s].pos = k
    BY DEF SenderOK, QueueOK
  <2>2. s \in K
    BY <2>1 DEF Kept
  <2>3. PICK i \in 1 .. n : f[i] = s
    BY <1>2, <2>2
  <2> QED
    BY <1>10, <2>1, <2>3
<1>18. QueueOK(x, p2, rp, N \cup Transmitted(p), A)
  BY <1>3, <1>11, <1>13, <1>14, <1>16, <1>17 DEF QueueOK
<1>19. SenderOK(x, p2, rp, N \cup Transmitted(p), A)
  BY <1>3, <1>15, <1>18 DEF SenderOK
<1> QED
  BY <1>8, <1>19 DEF p2

-----------------------------------------------------------------------------
(* Reception *)

LEMMA AckHandledFields ==
  ASSUME NEW p \in rudp_peer, NEW pc \in Packet
  PROVE  LET a == AckHandled(p, pc) IN
         /\ a.state = p.state /\ a.in_seq_reliable = p.in_seq_reliable
         /\ a.in_seq_unreliable = p.in_seq_unreliable
         /\ a.iss = p.iss /\ a.issued = p.issued /\ a.rcvd = p.rcvd
         /\ a.out_seq_unreliable = p.out_seq_unreliable
  BY DEF AckHandled, peer_handle_ack, rudp_peer

LEMMA AckHandledOK ==
  ASSUME NoSentinelClash, NEW x \in Side, NEW p \in rudp_peer,
         NEW rp \in rudp_peer, NEW N, NEW A, NEW B,
         HistoryOK(x, p, rp, A), SenderOK(x, p, rp, N, A),
         rp.rcvd <= p.issued, NEW pc, PacketOK(Remote(x), rp, p, B, pc)
  PROVE  SenderOK(x, AckHandled(p, pc), rp, N, A)
<1>1. CASE pc.ack = NoAck
  BY <1>1 DEF AckHandled
<1>2. CASE pc.ack # NoAck
  <2>1. pc.ack \in SeqNo /\ AckOK(Remote(x), rp, p, pc.ack)
    BY <1>2 DEF PacketOK, Packet
  <2>2. GoodAck(p, rp, pc.ack)
    BY <2>1, AckIsGood
  <2> QED
    BY <1>2, <2>1, <2>2, HandleAckOK DEF AckHandled
<1> QED
  BY <1>1, <1>2

(* Before the handshake is over the client finds nothing in sequence. *)
LEMMA ConnectingIgnores ==
  ASSUME NoSentinelClash, NEW p \in rudp_peer, NEW rp \in rudp_peer, NEW B,
         ReceiverOK(Client, p, rp), p.state = "CONNECTING",
         HistoryOK(Server, rp, p, B), NEW pc, PacketOK(Server, rp, p, B, pc)
  PROVE  packet_state(p, pc) = "UNSEQUENCED"
<1>1. p.in_seq_reliable = Modulus - 1
  BY DEF ReceiverOK
<1>2. /\ rp.iss \in Int /\ 0 <= rp.iss /\ rp.issued \in Nat
      /\ rp.iss + rp.issued < Modulus - 1
      /\ Modulus \in Nat /\ Modulus >= 8
  <2>1. Server \in Side
    BY DEF Side
  <2>2. /\ rp.iss \in SeqNo /\ rp.iss \in Int /\ 0 <= rp.iss
        /\ rp.issued \in Nat
    BY PeerFields, SeqNoInt
  <2>3. rp.iss + MaxIssued[Server] < Modulus - 1 /\ rp.issued <= MaxIssued[Server]
    BY DEF HistoryOK, NoSentinelClash
  <2>4. MaxIssued[Server] \in Nat /\ Modulus \in Nat /\ Modulus >= 8
    BY <2>1, Bounds
  <2> QED
    BY <2>2, <2>3, <2>4
<1>3. /\ pc.pos \in Nat /\ pc.pos <= rp.issued /\ pc.rel \in BOOLEAN
      /\ pc.rel => pc.pos >= 1
      /\ pc.seq = Wrap(rp.iss + pc.pos)
  BY DEF PacketOK, Packet
<1>4. pc.seq = rp.iss + pc.pos
  <2>1. 0 <= rp.iss + pc.pos /\ rp.iss + pc.pos < Modulus /\ rp.iss + pc.pos \in Int
    BY <1>2, <1>3
  <2> QED
    BY <1>3, <2>1, WrapCases
<1>5. pc.seq # Modulus - 1 /\ (pc.rel => pc.seq # 0)
  BY <1>2, <1>3, <1>4
<1>6. Wrap(Modulus - 1 + 1) = 0
  <2>1. Modulus - 1 + 1 = Modulus /\ Modulus \in Int
    BY <1>2
  <2> QED
    BY <1>2, <2>1, WrapCases
<1> QED
  BY <1>1, <1>3, <1>5, <1>6
     DEF packet_state, peer_analyse_reliable, peer_analyse_unreliable

(* A running peer accepts the next reliable packet, or an unreliable one   *)
(* that follows the last reliable packet and the last unreliable one.      *)
LEMMA RunAccepts ==
  ASSUME NEW x \in Side, NEW p \in rudp_peer, NEW rp \in rudp_peer, NEW B,
         ReceiverOK(x, p, rp), p.state = "RUN", p.rcvd <= rp.issued,
         HistoryOK(Remote(x), rp, p, B),
         NEW pc, PacketOK(Remote(x), rp, p, B, pc),
         packet_state(p, pc) = "SEQUENCED"
  PROVE  /\ pc.rel => pc.pos = p.rcvd + 1
         /\ ~ pc.rel => pc.pos = p.rcvd /\ p.in_seq_unreliable < pc.useq
<1> DEFINE y == Remote(x)
<1>1. /\ y \in Side /\ rp.iss \in SeqNo /\ rp.issued \in Nat /\ p.rcvd \in Nat
      /\ p.in_seq_unreliable \in SeqNo /\ p.in_seq_unreliable \in Nat
      /\ rp.issued <= MaxIssued[y]
  BY RemoteFacts, PeerFields, SeqNoInt DEF HistoryOK
<1>2. 2 * (rp.issued + 2) < Modulus /\ Modulus \in Nat
  BY <1>1, Bounds
<1>3. /\ pc.pos \in Nat /\ pc.pos <= rp.issued /\ pc.rel \in BOOLEAN
      /\ pc.seq = Wrap(rp.iss + pc.pos) /\ pc.useq \in SeqNo
      /\ ~ pc.rel => pc.useq \in 1 .. MaxUnreliable[y]
  BY DEF PacketOK, Packet
<1>4. p.in_seq_reliable = Wrap(rp.iss + p.rcvd)
      /\ p.in_seq_unreliable <= MaxUnreliable[y]
  BY DEF ReceiverOK
<1>5. CASE pc.rel
  <2>1. Wrap(p.in_seq_reliable + 1) = pc.seq
    BY <1>5 DEF packet_state, peer_analyse_reliable
  <2>2. Wrap(p.in_seq_reliable + 1) = Wrap(rp.iss + (p.rcvd + 1))
    <3>1. p.rcvd \in Int /\ -1 <= p.rcvd /\ 2 * p.rcvd < Modulus
      BY <1>1, <1>2
    <3>2. Wrap(Wrap(rp.iss + p.rcvd) + 1) = Wrap(rp.iss + p.rcvd + 1)
      BY <1>1, <3>1, WrapSucc
    <3>3. rp.iss \in Int
      BY <1>1, SeqNoInt
    <3>4. rp.iss + p.rcvd + 1 = rp.iss + (p.rcvd + 1)
      BY <3>1, <3>3
    <3> QED
      BY <1>4, <3>2, <3>4
  <2>3. Wrap(rp.iss + pc.pos) = Wrap(rp.iss + (p.rcvd + 1))
    BY <1>3, <2>1, <2>2
  <2>4. /\ pc.pos \in Int /\ -1 <= pc.pos /\ 2 * pc.pos < Modulus
        /\ p.rcvd + 1 \in Int /\ -1 <= p.rcvd + 1 /\ 2 * (p.rcvd + 1) < Modulus
    BY <1>1, <1>2, <1>3
  <2>5. pc.pos = p.rcvd + 1
    BY <1>1, <2>3, <2>4, WrapInjective
  <2> QED
    BY <1>5, <2>5
<1>6. CASE ~ pc.rel
  <2>1. p.in_seq_reliable = pc.seq /\ ~ (Delta(pc.useq, p.in_seq_unreliable) <= 0)
    BY <1>6 DEF packet_state, peer_analyse_unreliable
  <2>2. Wrap(rp.iss + pc.pos) = Wrap(rp.iss + p.rcvd)
    BY <1>3, <1>4, <2>1
  <2>3. /\ pc.pos \in Int /\ -1 <= pc.pos /\ 2 * pc.pos < Modulus
        /\ p.rcvd \in Int /\ -1 <= p.rcvd /\ 2 * p.rcvd < Modulus
    BY <1>1, <1>2, <1>3
  <2>4. pc.pos = p.rcvd
    BY <1>1, <2>2, <2>3, WrapInjective
  <2>5. Delta(pc.useq, p.in_seq_unreliable) = pc.useq - p.in_seq_unreliable
    <3>1. pc.useq \in Nat /\ pc.useq <= MaxUnreliable[y]
      BY <1>3, <1>6, SeqNoInt
    <3>2. MaxUnreliable[y] \in Nat /\ 2 * (MaxUnreliable[y] + 2) < Modulus
      BY <1>1, Bounds
    <3>3. - Modulus <= 2 * (pc.useq - p.in_seq_unreliable)
          /\ 2 * (pc.useq - p.in_seq_unreliable) < Modulus
      BY <1>1, <1>2, <1>4, <3>1, <3>2
    <3> QED
      BY <1>1, <1>3, <3>3, DeltaCases
  <2>6. p.in_seq_unreliable < pc.useq
    BY <1>1, <1>3, <2>1, <2>5, SeqNoInt
  <2> QED
    BY <1>6, <2>4, <2>6
<1> QED
  BY <1>5, <1>6

LEMMA LogEntries ==
  ASSUME NEW L \in Seq(Delivery)
  PROVE  /\ DOMAIN L = 1 .. Len(L) /\ Len(L) \in Nat
         /\ \A i \in DOMAIN L : L[i].pos \in Nat /\ L[i].useq \in Nat
<1>1. DOMAIN L = 1 .. Len(L) /\ Len(L) \in Nat
      /\ \A i \in 1 .. Len(L) : L[i] \in Delivery
  OBVIOUS
<1>2. \A d \in Delivery : d.pos \in Nat /\ d.useq \in Nat
  BY SeqNoInt DEF Delivery
<1> QED
  BY <1>1, <1>2

(* The log after an accepted packet that is not a payload. *)
LEMMA LogUnchangedOK ==
  ASSUME NEW x \in Side, NEW p \in rudp_peer, NEW h \in rudp_peer,
         NEW rp \in rudp_peer, NEW B, B \subseteq Nat,
         NEW L \in Seq(Delivery), LogOK(x, p, B, L), LogInStep(p, L),
         NEW pc, PacketOK(Remote(x), rp, p, B, pc), pc.cmd # "APP",
         \/ /\ pc.rel /\ pc.pos = p.rcvd + 1
            /\ h.rcvd = p.rcvd + 1 /\ h.in_seq_unreliable = 0
         \/ /\ ~ pc.rel /\ p.in_seq_unreliable < pc.useq
            /\ h.rcvd = p.rcvd /\ h.in_seq_unreliable = pc.useq
  PROVE  LogOK(x, h, B, L) /\ LogInStep(h, L)
<1>1. p.rcvd \in Nat /\ p.in_seq_unreliable \in Nat /\ pc.useq \in Nat
  BY PeerFields, SeqNoInt DEF PacketOK, Packet
<1>2. \A i \in DOMAIN L : L[i].pos \in Nat /\ L[i].useq \in Nat
  BY LogEntries
<1>3. CASE pc.rel
  <2>1. p.rcvd + 1 \notin B
    BY <1>3 DEF PacketOK
  <2>2. \A i \in DOMAIN L : L[i].pos <= p.rcvd + 1 /\ L[i].pos # p.rcvd + 1
    BY <1>1, <1>2 DEF LogOK
  <2>3. \A a \in B : a \in Nat /\ a <= p.rcvd + 1 => a <= p.rcvd
    BY <1>1, <2>1
  <2>4. \A a \in B : a <= p.rcvd + 1 =>
           \E i \in DOMAIN L : L[i].useq = 0 /\ L[i].pos = a
    BY <2>3 DEF LogOK
  <2> QED
    BY <1>3, <2>2, <2>4 DEF LogOK, LogInStep
<1>4. CASE ~ pc.rel
  BY <1>1, <1>2, <1>4 DEF LogOK, LogInStep
<1> QED
  BY <1>3, <1>4

(* The log after a payload was handed to the application. *)
LEMMA LogAppendOK ==
  ASSUME NEW x \in Side, NEW p \in rudp_peer, NEW h \in rudp_peer,
         NEW rp \in rudp_peer, NEW B, B \subseteq Nat,
         NEW L \in Seq(Delivery), LogOK(x, p, B, L), LogInStep(p, L),
         NEW pc, PacketOK(Remote(x), rp, p, B, pc), pc.cmd = "APP",
         \/ /\ pc.rel /\ pc.pos = p.rcvd + 1
            /\ h.rcvd = p.rcvd + 1 /\ h.in_seq_unreliable = 0
         \/ /\ ~ pc.rel /\ pc.pos = p.rcvd /\ p.in_seq_unreliable < pc.useq
            /\ h.rcvd = p.rcvd /\ h.in_seq_unreliable = pc.useq,
         NEW L2, L2 = Append(L, [pos |-> pc.pos, useq |-> pc.useq])
  PROVE  LogOK(x, h, B, L2) /\ LogInStep(h, L2)
<1> DEFINE d == [pos |-> pc.pos, useq |-> pc.useq]
<1>1. /\ p.rcvd \in Nat /\ p.in_seq_unreliable \in Nat
      /\ pc.useq \in Nat /\ pc.pos \in Nat /\ d \in Delivery
      /\ d.pos = pc.pos /\ d.useq = pc.useq
      /\ pc.rel => pc.useq = 0 /\ pc.pos \in B
      /\ ~ pc.rel => pc.useq # 0
  BY PeerFields, SeqNoInt DEF PacketOK, Packet, Delivery
<1>2. /\ DOMAIN L = 1 .. Len(L) /\ Len(L) \in Nat
      /\ \A i \in 1 .. Len(L) : L[i].pos \in Nat /\ L[i].useq \in Nat
  BY LogEntries
<1> HIDE DEF d
<1>3. /\ L2 \in Seq(Delivery) /\ Len(L2) = Len(L) + 1
      /\ \A i \in 1 .. Len(L) : L2[i] = L[i]
      /\ L2[Len(L) + 1] = d
  BY <1>1, AppendProperties DEF d
<1>4. DOMAIN L2 = 1 .. Len(L) + 1
  BY <1>3
<1>5. \A i \in DOMAIN L2 : i \in 1 .. Len(L) \/ i = Len(L) + 1
  BY <1>2, <1>4
<1>6. \A i \in 1 .. Len(L) : L[i].pos <= p.rcvd
  BY <1>2 DEF LogOK
<1>7. \A i \in 1 .. Len(L) : Before(L[i], d)
  BY <1>1, <1>2, <1>6 DEF LogInStep, Before
<1>8. \A i, j \in DOMAIN L2 : i < j => Before(L2[i], L2[j])
  <2> SUFFICES ASSUME NEW i \in DOMAIN L2, NEW j \in DOMAIN L2, i < j
               PROVE  Before(L2[i], L2[j])
    OBVIOUS
  <2>1. i \in 1 .. Len(L)
    BY <1>2, <1>4
  <2>2. CASE j \in 1 .. Len(L)
    BY <1>2, <1>3, <2>1, <2>2 DEF LogOK
  <2>3. CASE j = Len(L) + 1
    BY <1>3, <1>7, <2>1, <2>3
  <2> QED
    BY <1>5, <2>2, <2>3
<1>9. \A i \in DOMAIN L2 : L2[i].pos <= h.rcvd
  BY <1>1, <1>2, <1>3, <1>5, <1>6
<1>10. \A i \in DOMAIN L2 : L2[i].useq = 0 => L2[i].pos \in B
  BY <1>1, <1>2, <1>3, <1>5 DEF LogOK
<1>11. \A a \in B : a <= h.rcvd =>
          \E i \in DOMAIN L2 : L2[i].useq = 0 /\ L2[i].pos = a
  <2> SUFFICES ASSUME NEW a \in B, a <= h.rcvd
               PROVE  \E i \in DOMAIN L2 : L2[i].useq = 0 /\ L2[i].pos = a
    OBVIOUS
  <2>1. CASE a <= p.rcvd
    <3>1. PICK i \in 1 .. Len(L) : L[i].useq = 0 /\ L[i].pos = a
      BY <1>2, <2>1 DEF LogOK
    <3>2. i \in DOMAIN L2 /\ L2[i] = L[i]
      BY <1>2, <1>3, <1>4
    <3> QED
      BY <3>1, <3>2
  <2>2. CASE ~ (a <= p.rcvd)
    <3>1. pc.rel /\ a = pc.pos
      BY <1>1, <2>2
    <3>2. Len(L) + 1 \in DOMAIN L2
      BY <1>2, <1>4
    <3> QED
      BY <1>1, <1>3, <3>1, <3>2
  <2> QED
    BY <2>1, <2>2
<1>12. \A i \in DOMAIN L2 : L2[i].pos = h.rcvd => L2[i].useq <= h.in_seq_unreliable
  BY <1>1, <1>2, <1>3, <1>5, <1>6 DEF LogInStep
<1> QED
  BY <1>8, <1>9, <1>10, <1>11, <1>12 DEF LogOK, LogInStep

(* The end of rudp_peer_incoming_packet: peer_post_ack and the timer. *)
LEMMA FinishedOK ==
  ASSUME NEW x \in Side, NEW h \in rudp_peer, NEW rp \in rudp_peer,
         NEW N, NEW A, HistoryOK(x, h, rp, A), SenderOK(x, h, rp, N, A),
         ReceiverOK(x, h, rp), NEW pc \in Packet,
         Finished(h, pc).out_seq_unreliable <= MaxUnreliable[x]
  PROVE  LET g == Finished(h, pc) IN
         /\ g \in rudp_peer
         /\ g.iss = h.iss /\ g.issued = h.issued /\ g.rcvd = h.rcvd
         /\ g.in_seq_unreliable = h.in_seq_unreliable
         /\ HistoryOK(x, g, rp, A)
         /\ SenderOK(x, g, rp, N, A)
         /\ ReceiverOK(x, g, rp)
<1> DEFINE m == [h EXCEPT !.must_ack = TRUE]
           s == rudp_peer_send_unreliable(m, "NOOP")
           g == Finished(h, pc)
<1>1. /\ m \in rudp_peer /\ m.sendq = h.sendq /\ m.issued = h.issued
      /\ m.iss = h.iss /\ m.rcvd = h.rcvd /\ m.state = h.state
      /\ m.out_seq_reliable = h.out_seq_reliable
      /\ m.out_seq_unreliable = h.out_seq_unreliable
      /\ m.out_seq_acked = h.out_seq_acked
      /\ m.in_seq_reliable = h.in_seq_reliable
      /\ m.in_seq_unreliable = h.in_seq_unreliable
  BY DEF rudp_peer
<1> HIDE DEF m
<1>2. h.rcvd <= m.rcvd
  BY <1>1, PeerFields
<1>3. SenderOK(x, m, rp, N, A) /\ HistoryOK(x, m, rp, A)
  BY <1>1, <1>2, SenderFrame DEF HistoryOK
<1>4. /\ s \in rudp_peer /\ s.issued = h.issued /\ s.iss = h.iss
      /\ s.rcvd = h.rcvd /\ s.state = h.state
      /\ s.in_seq_reliable = h.in_seq_reliable
      /\ s.in_seq_unreliable = h.in_seq_unreliable
      /\ s.out_seq_unreliable <= MaxUnreliable[x] => SenderOK(x, s, rp, N, A)
  BY <1>1, <1>3, SendUnreliableType, SendUnreliableFields, SendUnreliableOK DEF Command
<1> HIDE DEF s
<1>5. PICK b \in {h, m, s} : g = peer_service_schedule(b)
  BY DEF Finished, peer_post_ack, m, s
<1>6. b \in rudp_peer
  BY <1>1, <1>4, <1>5
<1>7. /\ g \in rudp_peer /\ g.sendq = b.sendq /\ g.issued = b.issued
      /\ g.iss = b.iss /\ g.rcvd = b.rcvd /\ g.state = b.state
      /\ g.out_seq_reliable = b.out_seq_reliable
      /\ g.out_seq_unreliable = b.out_seq_unreliable
      /\ g.out_seq_acked = b.out_seq_acked
      /\ g.in_seq_reliable = b.in_seq_reliable
      /\ g.in_seq_unreliable = b.in_seq_unreliable
  BY <1>5, <1>6 DEF peer_service_schedule, rudp_peer
<1> HIDE DEF g
<1>8. g.out_seq_unreliable <= MaxUnreliable[x]
  BY DEF g
<1>9. SenderOK(x, b, rp, N, A)
  BY <1>3, <1>4, <1>5, <1>7, <1>8
<1>10. b.rcvd <= g.rcvd
  BY <1>6, <1>7, PeerFields
<1>11. SenderOK(x, g, rp, N, A)
  BY <1>6, <1>7, <1>9, <1>10, SenderFrame
<1>12. /\ g.iss = h.iss /\ g.issued = h.issued /\ g.rcvd = h.rcvd
       /\ g.state = h.state /\ g.in_seq_reliable = h.in_seq_reliable
       /\ g.in_seq_unreliable = h.in_seq_unreliable
  BY <1>1, <1>4, <1>5, <1>7
<1>13. HistoryOK(x, g, rp, A) /\ ReceiverOK(x, g, rp)
  BY <1>12 DEF HistoryOK, ReceiverOK
<1> QED
  BY <1>7, <1>11, <1>12, <1>13 DEF g

-----------------------------------------------------------------------------
(* Steps of the composition *)

(* x, live from now on, moves to the good peer g; its remote sees that as   *)
(* growing histories and, at most, one more of its packets accepted.        *)
GoodStep(x, g, N2, A2, L2) ==
  /\ life[x] \in {"live", "unborn"} /\ g \in rudp_peer
  /\ peer' = [peer EXCEPT ![x] = g]
  /\ life' = [life EXCEPT ![x] = "live"]
  /\ net' = [net EXCEPT ![x] = N2]
  /\ app' = [app EXCEPT ![x] = A2]
  /\ log' = [log EXCEPT ![x] = L2]
  /\ HistoryOK(x, g, peer[Remote(x)], A2)
  /\ SenderOK(x, g, peer[Remote(x)], N2, A2)
  /\ ReceiverOK(x, g, peer[Remote(x)])
  /\ LogOK(x, g, app[Remote(x)], L2) /\ LogInStep(g, L2)
  /\ g.iss = peer[x].iss /\ peer[x].issued <= g.issued
  /\ \/ g.rcvd = peer[x].rcvd
     \/ /\ peer[x].rcvd <= g.rcvd
        /\ \E n \in net[Remote(x)] : n.rel /\ n.pos = g.rcvd
  /\ \A a \in 1 .. peer[x].issued : a \in A2 <=> a \in app[x]
  /\ \A n \in N2 : PacketOK(x, g, peer[Remote(x)], A2, n) /\ n.cmd # "CLOSE"

LEMMA PeerStep ==
  ASSUME IInv, NEW x \in Side, NEW g, NEW N2, NEW A2, NEW L2,
         GoodStep(x, g, N2, A2, L2)
  PROVE  SideInv(x)' /\ SideInv(Remote(x))'
<1> USE DEF GoodStep
<1> DEFINE y  == Remote(x)
           p  == peer[x]
           rp == peer[y]
<1>1. /\ y \in Side /\ y # x /\ Remote(y) = x
      /\ p \in rudp_peer /\ rp \in rudp_peer
      /\ app[x] \subseteq Nat /\ log[y] \in Seq(Delivery)
      /\ SideInv(x) /\ SideInv(y) /\ TypeOK
  BY RemoteFacts DEF IInv, TypeOK
<1>2. /\ peer'[x] = g /\ peer'[y] = rp /\ net'[x] = N2 /\ net'[y] = net[y]
      /\ app'[x] = A2 /\ app'[y] = app[y] /\ log'[x] = L2 /\ log'[y] = log[y]
      /\ life'[x] = "live" /\ life'[y] = life[y]
  BY <1>1 DEF TypeOK
<1>3. SideInv(x)'
  BY <1>2 DEF SideInv
<1>4. /\ p.issued \in Nat /\ g.issued \in Nat /\ rp.rcvd \in Nat
      /\ rp.issued \in Nat /\ rp.rcvd <= p.issued /\ rp.rcvd <= g.issued
  <2>1. /\ p.issued \in Nat /\ g.issued \in Nat /\ rp.rcvd \in Nat
        /\ rp.issued \in Nat
    BY <1>1, PeerFields
  <2>2. rp.rcvd <= p.issued
    BY <1>1 DEF SideInv, HistoryOK
  <2> QED
    BY <2>1, <2>2
<1>5. HistoryOK(y, rp, g, app[y])
  BY <1>1, <1>4 DEF SideInv, HistoryOK
<1>6. LogOK(y, rp, A2, log[y])
  <2>1. LogOK(y, rp, app[x], log[y])
    BY <1>1 DEF SideInv
  <2>2. app[x] \subseteq 1 .. p.issued
    BY <1>1 DEF SideInv, HistoryOK
  <2>3. A2 \subseteq 1 .. g.issued
    BY DEF HistoryOK
  <2>4. \A i \in DOMAIN log[y] : log[y][i].useq = 0 => log[y][i].pos \in A2
    BY <2>1, <2>2 DEF LogOK
  <2>5. \A a \in A2 : a <= rp.rcvd => a \in app[x]
    <3> SUFFICES ASSUME NEW a \in A2, a <= rp.rcvd PROVE a \in app[x]
      OBVIOUS
    <3>1. a \in 1 .. p.issued
      BY <1>4, <2>3
    <3> QED
      BY <3>1
  <2> QED
    BY <2>1, <2>4, <2>5 DEF LogOK
<1>7. \A n \in net[y] :
         /\ PacketOK(y, rp, g, app[y], n)
         /\ n.cmd = "CLOSE" => life'[y] = "closed" /\ n.pos = rp.issued
  <2>1. \A n \in net[y] :
           /\ PacketOK(y, rp, p, app[y], n)
           /\ n.cmd = "CLOSE" => life[y] = "closed" /\ n.pos = rp.issued
    BY <1>1 DEF SideInv
  <2>2. rp.issued <= rp.issued /\ rp.rcvd <= rp.rcvd
    BY <1>4
  <2> QED
    BY <1>1, <1>2, <2>1, <2>2, PacketFrame
<1>8. ASSUME life[y] = "live"
      PROVE  /\ SenderOK(y, rp, g, net[y], app[y])
             /\ ReceiverOK(y, rp, g)
             /\ LogInStep(rp, log[y])
  <2>1. /\ SenderOK(y, rp, p, net[y], app[y])
        /\ ReceiverOK(y, rp, p)
        /\ LogInStep(rp, log[y])
    BY <1>1, <1>8 DEF SideInv
  <2>2. SenderOK(y, rp, g, net[y], app[y])
    BY <1>1, <2>1, SenderSeesRemote
  <2>3. ReceiverOK(y, rp, g)
    BY <2>1 DEF ReceiverOK
  <2> QED
    BY <2>1, <2>2, <2>3
<1>9. life[y] # "left"
  BY <1>1 DEF SideInv
<1>10. life[y] = "unborn" =>
          /\ y = Server /\ rp = rudp_peer_reset(rp.iss)
          /\ net[y] = {} /\ app[y] = {} /\ log[y] = << >>
  BY <1>1 DEF SideInv
<1>11. SideInv(y)'
  BY <1>1, <1>2, <1>5, <1>6, <1>7, <1>8, <1>9, <1>10 DEF SideInv
<1> QED
  BY <1>3, <1>11

(* The peer of x is gone, and N2 is what it has sent in its life. *)
LEMMA EndStep ==
  ASSUME IInv, NEW x \in Side, NEW how \in {"lost", "left", "closed"},
         NEW N2, life[x] = "live", End(x, how),
         net' = [net EXCEPT ![x] = N2], app' = app, log' = log,
         \A n \in N2 : /\ PacketOK(x, peer[x], peer[Remote(x)], app[x], n)
                       /\ n.cmd = "CLOSE" =>
                            how = "closed" /\ n.pos = peer[x].issued,
         net[x] \subseteq N2,
         how = "left" => /\ peer[x].rcvd = peer[Remote(x)].issued
                         /\ life[Remote(x)] = "closed"
  PROVE  SideInv(x)' /\ SideInv(Remote(x))'
<1> DEFINE y  == Remote(x)
           p  == peer[x]
           rp == peer[y]
<1>1. /\ y \in Side /\ y # x /\ Remote(y) = x
      /\ p \in rudp_peer /\ rp \in rudp_peer
      /\ SideInv(x) /\ SideInv(y) /\ TypeOK
  BY RemoteFacts DEF IInv, TypeOK
<1>2. PICK r \in RandomSeq[x] : peer' = [peer EXCEPT ![x] = rudp_peer_deinit(p, r)]
  BY DEF End
<1> DEFINE g == rudp_peer_deinit(p, r)
<1>3. g \in rudp_peer /\ g.iss = p.iss /\ g.issued = p.issued /\ g.rcvd = p.rcvd
  <2>1. r \in SeqNo
    BY Bounds
  <2>2. rudp_peer_reset(r) \in rudp_peer
    BY <2>1, ResetType
  <2>3. g \in rudp_peer
    BY <1>1, <2>1, DeinitType
  <2> QED
    BY <2>2, <2>3 DEF rudp_peer_deinit, rudp_peer
<1> HIDE DEF g
<1>4. /\ peer'[x] = g /\ peer'[y] = rp /\ net'[x] = N2 /\ net'[y] = net[y]
      /\ life'[x] = how /\ life'[y] = life[y]
  BY <1>1, <1>2 DEF TypeOK, End, g
<1>5. /\ p.issued \in Nat /\ p.rcvd \in Nat /\ rp.issued \in Nat /\ rp.rcvd \in Nat
      /\ p.issued <= g.issued /\ p.rcvd <= g.rcvd
      /\ rp.issued <= rp.issued /\ rp.rcvd <= rp.rcvd
  BY <1>1, <1>3, PeerFields
<1>6. \A n \in N2 : PacketOK(x, g, rp, app[x], n)
  BY <1>1, <1>3, <1>5, PacketFrame
<1>7. HistoryOK(x, g, rp, app[x]) /\ LogOK(x, g, app[y], log[x])
  BY <1>1, <1>3 DEF SideInv, HistoryOK, LogOK
<1>8. SideInv(x)'
  BY <1>1, <1>3, <1>4, <1>6, <1>7 DEF SideInv
<1>9. HistoryOK(y, rp, g, app[y]) /\ LogOK(y, rp, app[x], log[y])
  BY <1>1, <1>3 DEF SideInv, HistoryOK
<1>10. \A n \in net[y] :
          /\ PacketOK(y, rp, g, app[y], n)
          /\ n.cmd = "CLOSE" => life[y] = "closed" /\ n.pos = rp.issued
  <2>1. \A n \in net[y] :
           /\ PacketOK(y, rp, p, app[y], n)
           /\ n.cmd = "CLOSE" => life[y] = "closed" /\ n.pos = rp.issued
    BY <1>1 DEF SideInv
  <2> QED
    BY <1>1, <1>3, <1>5, <2>1, PacketFrame
<1>11. ASSUME life[y] = "live"
       PROVE  /\ SenderOK(y, rp, g, net[y], app[y])
              /\ ReceiverOK(y, rp, g)
              /\ LogInStep(rp, log[y])
  <2>1. /\ SenderOK(y, rp, p, net[y], app[y])
        /\ ReceiverOK(y, rp, p)
        /\ LogInStep(rp, log[y])
    BY <1>1, <1>11 DEF SideInv
  <2>2. SenderOK(y, rp, g, net[y], app[y])
    BY <1>1, <1>3, <2>1, SenderSeesRemote
  <2>3. ReceiverOK(y, rp, g)
    BY <1>3, <2>1 DEF ReceiverOK
  <2> QED
    BY <2>1, <2>2, <2>3
<1>12. life[y] # "left"
  BY <1>1 DEF SideInv
<1>13. life[y] = "unborn" =>
          /\ y = Server /\ rp = rudp_peer_reset(rp.iss)
          /\ net[y] = {} /\ app[y] = {} /\ log[y] = << >>
  BY <1>1 DEF SideInv
<1>14. SideInv(y)'
  BY <1>1, <1>4, <1>9, <1>10, <1>11, <1>12, <1>13 DEF SideInv
<1> QED
  BY <1>8, <1>14

(* A peer that x may be left with when rudp_peer_incoming_packet settles. *)
GoodPeer(x, h, A2) ==
  /\ h \in rudp_peer
  /\ HistoryOK(x, h, peer[Remote(x)], A2)
  /\ SenderOK(x, h, peer[Remote(x)], net[x], A2)
  /\ ReceiverOK(x, h, peer[Remote(x)])
  /\ h.iss = peer[x].iss /\ peer[x].issued <= h.issued
  /\ \/ h.rcvd = peer[x].rcvd
     \/ /\ peer[x].rcvd <= h.rcvd
        /\ \E n \in net[Remote(x)] : n.rel /\ n.pos = h.rcvd
  /\ \A a \in 1 .. peer[x].issued : a \in A2 <=> a \in app[x]

LEMMA SettleStep ==
  ASSUME IInv, NEW x \in Side, NEW h, NEW A2, NEW L2,
         NEW pc \in Packet, Settle(x, h, pc),
         life[x] \in {"live", "unborn"},
         app' = [app EXCEPT ![x] = A2],
         log' = [log EXCEPT ![x] = L2],
         GoodPeer(x, h, A2),
         LogOK(x, h, app[Remote(x)], L2), LogInStep(h, L2)
  PROVE  SideInv(x)' /\ SideInv(Remote(x))'
<1> USE DEF GoodPeer
<1> DEFINE rp == peer[Remote(x)]
           g  == Finished(h, pc)
<1>1. /\ rp \in rudp_peer /\ peer[x] \in rudp_peer /\ SideInv(x)
      /\ net \in [Side -> SUBSET Packet]
  BY RemoteFacts DEF IInv, TypeOK
<1>2. g.out_seq_unreliable <= MaxUnreliable[x] /\ peer' = [peer EXCEPT ![x] = g]
      /\ life' = [life EXCEPT ![x] = "live"] /\ net' = net
  BY DEF Settle, Put
<1>3. /\ g \in rudp_peer
      /\ g.iss = h.iss /\ g.issued = h.issued /\ g.rcvd = h.rcvd
      /\ g.in_seq_unreliable = h.in_seq_unreliable
      /\ HistoryOK(x, g, rp, A2)
      /\ SenderOK(x, g, rp, net[x], A2)
      /\ ReceiverOK(x, g, rp)
  BY <1>1, <1>2, FinishedOK
<1> HIDE DEF g
<1>4. LogOK(x, g, app[Remote(x)], L2) /\ LogInStep(g, L2)
  BY <1>3 DEF LogOK, LogInStep
<1>5. peer[x].rcvd <= g.rcvd /\ peer[x].issued <= g.issued
  BY <1>1, <1>3, PeerFields
<1>6. \A n \in net[x] : PacketOK(x, g, rp, A2, n) /\ n.cmd # "CLOSE"
  <2>1. \A n \in net[x] : PacketOK(x, peer[x], rp, app[x], n) /\ n.cmd # "CLOSE"
    BY <1>1 DEF SideInv
  <2> QED
    BY <1>1, <1>3, <1>5, <2>1, PacketFrame
<1>7. net' = [net EXCEPT ![x] = net[x]]
  BY <1>1, <1>2
<1>8. /\ HistoryOK(x, g, peer[Remote(x)], A2)
      /\ SenderOK(x, g, peer[Remote(x)], net[x], A2)
      /\ ReceiverOK(x, g, peer[Remote(x)])
      /\ \A n \in net[x] :
            PacketOK(x, g, peer[Remote(x)], A2, n) /\ n.cmd # "CLOSE"
  BY <1>3, <1>6
<1>9. /\ g.iss = peer[x].iss
      /\ \/ g.rcvd = peer[x].rcvd
         \/ /\ peer[x].rcvd <= g.rcvd
            /\ \E n \in net[Remote(x)] : n.rel /\ n.pos = g.rcvd
  BY <1>3
<1> HIDE DEF rp
<1>10. GoodStep(x, g, net[x], A2, L2)
  BY <1>2, <1>3, <1>4, <1>5, <1>7, <1>8, <1>9 DEF GoodStep
<1> QED
  BY <1>10, PeerStep

(* peer_post_ack adds nothing to a queue that holds something. *)
LEMMA FinishedBusy ==
  ASSUME NEW h \in rudp_peer, NEW pc \in Packet, h.sendq # << >>
  PROVE  Finished(h, pc).out_seq_unreliable = h.out_seq_unreliable
<1> DEFINE m == [h EXCEPT !.must_ack = TRUE]
<1>1. m \in rudp_peer /\ m.sendq = h.sendq
      /\ m.out_seq_unreliable = h.out_seq_unreliable
  BY DEF rudp_peer
<1>2. peer_post_ack(h) = m
  BY <1>1 DEF peer_post_ack
<1> HIDE DEF m
<1>3. \A b \in rudp_peer :
         peer_service_schedule(b).out_seq_unreliable = b.out_seq_unreliable
  BY DEF peer_service_schedule, rudp_peer
<1> QED
  BY <1>1, <1>2, <1>3 DEF Finished

LEMMA FinishedIssued ==
  ASSUME NEW h \in rudp_peer, NEW pc \in Packet
  PROVE  Finished(h, pc).issued = h.issued
<1> DEFINE m == [h EXCEPT !.must_ack = TRUE]
           s == rudp_peer_send_unreliable(m, "NOOP")
<1>1. m \in rudp_peer /\ m.issued = h.issued
  BY DEF rudp_peer
<1> HIDE DEF m
<1>2. s \in rudp_peer /\ s.issued = h.issued
  BY <1>1, SendUnreliableType, SendUnreliableFields DEF Command
<1> HIDE DEF s
<1>3. PICK b \in {h, m, s} : Finished(h, pc) = peer_service_schedule(b)
  BY DEF Finished, peer_post_ack, m, s
<1>4. b \in rudp_peer /\ b.issued = h.issued
  BY <1>1, <1>2, <1>3
<1> QED
  BY <1>3, <1>4 DEF peer_service_schedule, rudp_peer

(* The queue is not empty after a packet was queued. *)
LEMMA QueuedBusy ==
  ASSUME NEW p \in rudp_peer, NEW c \in Command
  PROVE  /\ rudp_peer_send_unreliable(p, c).sendq # << >>
         /\ rudp_peer_send_reliable(p, c).sendq # << >>
<1> DEFINE u == [cmd |-> c, rel |-> FALSE, ret |-> FALSE, ack |-> NoAck,
                 seq |-> p.out_seq_reliable,
                 useq |-> Wrap(p.out_seq_unreliable + 1), pos |-> p.issued]
           r == [cmd |-> c, rel |-> TRUE, ret |-> FALSE, ack |-> NoAck,
                 seq |-> Wrap(p.out_seq_reliable + 1),
                 useq |-> 0, pos |-> p.issued + 1]
<1>1. \A q \in Seq(Packet) : \A e \in Packet : Append(q, e) # << >>
  BY AppendProperties
<1>2. 0 \in SeqNo /\ p.issued + 1 \in Nat
  BY ModulusAssumption, PeerFields DEF SeqNo
<1>3. u \in Packet /\ r \in Packet
  BY <1>2, PeerFields, SuccType DEF Packet
<1>4. /\ rudp_peer_send_unreliable(p, c).sendq = Append(p.sendq, u)
      /\ rudp_peer_send_reliable(p, c).sendq = Append(p.sendq, r)
  BY SendUnreliableFields, SendReliableFields
<1> HIDE DEF u, r
<1> QED
  BY <1>1, <1>3, <1>4, PeerFields

-----------------------------------------------------------------------------
(* Reception by a live peer *)

(* An answer queued while a packet is handled. *)
LEMMA AnswerUnreliable ==
  ASSUME IInv, NEW x \in Side, NEW q, GoodPeer(x, q, app[x]),
         NEW pc \in Packet, NEW c \in {"APP", "PONG"},
         Settle(x, rudp_peer_send_unreliable(q, c), pc)
  PROVE  /\ GoodPeer(x, rudp_peer_send_unreliable(q, c), app[x])
         /\ rudp_peer_send_unreliable(q, c).rcvd = q.rcvd
         /\ rudp_peer_send_unreliable(q, c).in_seq_unreliable = q.in_seq_unreliable
<1> DEFINE h  == rudp_peer_send_unreliable(q, c)
           rp == peer[Remote(x)]
<1>1. q \in rudp_peer /\ rp \in rudp_peer /\ c \in Command
  BY RemoteFacts DEF GoodPeer, IInv, TypeOK, Command
<1>2. /\ h \in rudp_peer /\ h.iss = q.iss /\ h.issued = q.issued
      /\ h.rcvd = q.rcvd /\ h.state = q.state
      /\ h.in_seq_reliable = q.in_seq_reliable
      /\ h.in_seq_unreliable = q.in_seq_unreliable
  BY <1>1, SendUnreliableType, SendUnreliableFields
<1>3. h.sendq # << >>
  BY <1>1, QueuedBusy
<1>4. h.out_seq_unreliable <= MaxUnreliable[x]
  BY <1>2, <1>3, FinishedBusy DEF Settle, Put
<1>5. SenderOK(x, h, rp, net[x], app[x])
  BY <1>1, <1>4, SendUnreliableOK DEF GoodPeer
<1> HIDE DEF h
<1>6. HistoryOK(x, h, rp, app[x]) /\ ReceiverOK(x, h, rp)
  BY <1>2 DEF GoodPeer, HistoryOK, ReceiverOK
<1>7. GoodPeer(x, h, app[x])
  BY <1>2, <1>5, <1>6 DEF GoodPeer
<1> QED
  BY <1>2, <1>7 DEF h

LEMMA AnswerReliable ==
  ASSUME IInv, NEW x \in Side, life[x] = "live",
         NEW q, GoodPeer(x, q, app[x]), NEW pc \in Packet,
         Settle(x, rudp_peer_send_reliable(q, "APP"), pc)
  PROVE  /\ GoodPeer(x, rudp_peer_send_reliable(q, "APP"),
                     app[x] \cup {q.issued + 1})
         /\ rudp_peer_send_reliable(q, "APP").rcvd = q.rcvd
         /\ rudp_peer_send_reliable(q, "APP").in_seq_unreliable = q.in_seq_unreliable
<1> DEFINE h  == rudp_peer_send_reliable(q, "APP")
           rp == peer[Remote(x)]
           A2 == app[x] \cup {q.issued + 1}
<1>1. /\ q \in rudp_peer /\ rp \in rudp_peer /\ "APP" \in Command
      /\ peer[x] \in rudp_peer /\ SideInv(x) /\ SideInv(Remote(x))
      /\ Remote(Remote(x)) = x
  BY RemoteFacts DEF GoodPeer, IInv, TypeOK, Command
<1>2. /\ h \in rudp_peer /\ h.iss = q.iss /\ h.issued = q.issued + 1
      /\ h.rcvd = q.rcvd /\ h.state = q.state
      /\ h.in_seq_reliable = q.in_seq_reliable
      /\ h.in_seq_unreliable = q.in_seq_unreliable
  BY <1>1, SendReliableType, SendReliableFields
<1>3. q.issued + 1 <= MaxIssued[x]
  BY <1>2, FinishedIssued DEF Settle, Put
<1>4. /\ q.issued \in Nat /\ peer[x].issued \in Nat /\ q.rcvd \in Nat
      /\ rp.rcvd \in Nat /\ peer[x].rcvd \in Nat /\ peer[x].issued <= q.issued
      /\ peer[x].rcvd <= q.rcvd
  BY <1>1, PeerFields DEF GoodPeer
<1>5. rp.rcvd <= q.issued
  BY <1>1, <1>4 DEF SideInv, HistoryOK
<1>6. \A n \in net[x] : PacketOK(x, q, rp, app[x], n)
  <2>1. \A n \in net[x] : PacketOK(x, peer[x], rp, app[x], n)
    BY <1>1 DEF SideInv
  <2> QED
    BY <1>1, <1>4, <2>1, PacketFrame DEF GoodPeer
<1>7. /\ SenderOK(x, h, rp, net[x], A2) /\ HistoryOK(x, h, rp, A2)
      /\ \A a \in 1 .. q.issued : a \in A2 <=> a \in app[x]
  BY <1>1, <1>3, <1>5, <1>6, SendReliableOK DEF GoodPeer
<1> HIDE DEF h, A2
<1>8. \A a \in 1 .. peer[x].issued : a \in A2 <=> a \in app[x]
  BY <1>4, <1>7
<1>9. ReceiverOK(x, h, rp)
  BY <1>2 DEF GoodPeer, ReceiverOK
<1>10. peer[x].issued <= h.issued
  BY <1>2, <1>4
<1>11. GoodPeer(x, h, A2)
  BY <1>2, <1>7, <1>8, <1>9, <1>10 DEF GoodPeer
<1> QED
  BY <1>2, <1>11 DEF h, A2

(* The acknowledgement in a packet for a live peer leaves it good. *)
LEMMA AckedPeer ==
  ASSUME NoSentinelClash, IInv, NEW x \in Side, life[x] = "live",
         NEW pc \in net[Remote(x)]
  PROVE  /\ pc \in Packet
         /\ PacketOK(Remote(x), peer[Remote(x)], peer[x], app[Remote(x)], pc)
         /\ peer[x] \in rudp_peer /\ peer[Remote(x)] \in rudp_peer
         /\ ReceiverOK(x, peer[x], peer[Remote(x)])
         /\ LogOK(x, peer[x], app[Remote(x)], log[x]) /\ LogInStep(peer[x], log[x])
         /\ HistoryOK(Remote(x), peer[Remote(x)], peer[x], app[Remote(x)])
         /\ peer[x].rcvd <= peer[Remote(x)].issued
         /\ GoodPeer(x, AckHandled(peer[x], pc), app[x])
         /\ AckHandled(peer[x], pc).rcvd = peer[x].rcvd
         /\ AckHandled(peer[x], pc).in_seq_unreliable = peer[x].in_seq_unreliable
         /\ AckHandled(peer[x], pc).state = peer[x].state
         /\ AckHandled(peer[x], pc).in_seq_reliable = peer[x].in_seq_reliable
<1> DEFINE y  == Remote(x)
           p  == peer[x]
           rp == peer[y]
           a  == AckHandled(p, pc)
<1>1. /\ y \in Side /\ Remote(y) = x /\ p \in rudp_peer /\ rp \in rudp_peer
      /\ SideInv(x) /\ SideInv(y)
  BY RemoteFacts DEF IInv, TypeOK
<1>2. PacketOK(y, rp, p, app[y], pc) /\ pc \in Packet
  BY <1>1 DEF SideInv, PacketOK
<1>3. /\ HistoryOK(x, p, rp, app[x]) /\ HistoryOK(y, rp, p, app[y])
      /\ LogOK(x, p, app[y], log[x]) /\ LogInStep(p, log[x])
      /\ SenderOK(x, p, rp, net[x], app[x]) /\ ReceiverOK(x, p, rp)
  BY <1>1 DEF SideInv
<1>4. p.rcvd <= rp.issued /\ rp.rcvd <= p.issued
  BY <1>3 DEF HistoryOK
<1>5. SenderOK(x, a, rp, net[x], app[x])
  BY <1>1, <1>2, <1>3, <1>4, AckHandledOK
<1>6. a \in rudp_peer
  BY <1>1, <1>2, AckHandledType
<1>7. /\ a.state = p.state /\ a.in_seq_reliable = p.in_seq_reliable
      /\ a.in_seq_unreliable = p.in_seq_unreliable
      /\ a.iss = p.iss /\ a.issued = p.issued /\ a.rcvd = p.rcvd
  BY <1>1, <1>2, AckHandledFields
<1> HIDE DEF a
<1>8. HistoryOK(x, a, rp, app[x]) /\ ReceiverOK(x, a, rp)
  BY <1>3, <1>7 DEF HistoryOK, ReceiverOK
<1>9. peer[x].issued <= a.issued
  BY <1>1, <1>7, PeerFields
<1>10. GoodPeer(x, a, app[x])
  BY <1>5, <1>6, <1>7, <1>8, <1>9 DEF GoodPeer
<1> QED
  BY <1>1, <1>2, <1>3, <1>4, <1>7, <1>10 DEF a

(* How far an accepted packet moves the receiving half from p to q. *)
Advanced(p, q, pc) ==
  \/ /\ pc.rel /\ pc.pos = p.rcvd + 1
     /\ q.rcvd = p.rcvd + 1 /\ q.in_seq_unreliable = 0
  \/ /\ ~ pc.rel /\ pc.pos = p.rcvd /\ p.in_seq_unreliable < pc.useq
     /\ q.rcvd = p.rcvd /\ q.in_seq_unreliable = pc.useq

(* Only a running peer finds a packet in sequence, and accepting it leaves *)
(* the peer good.                                                          *)
LEMMA AcceptedPeer ==
  ASSUME NoSentinelClash, IInv, NEW x \in Side, life[x] = "live",
         NEW pc \in net[Remote(x)],
         packet_state(AckHandled(peer[x], pc), pc) = "SEQUENCED"
  PROVE  LET q == Sequenced(AckHandled(peer[x], pc), pc) IN
         /\ GoodPeer(x, q, app[x]) /\ q.state = "RUN"
         /\ Advanced(peer[x], q, pc)
<1> DEFINE y  == Remote(x)
           p  == peer[x]
           rp == peer[y]
           a  == AckHandled(p, pc)
           q  == Sequenced(a, pc)
<1>1. /\ pc \in Packet /\ PacketOK(y, rp, p, app[y], pc)
      /\ p \in rudp_peer /\ rp \in rudp_peer /\ ReceiverOK(x, p, rp)
      /\ HistoryOK(y, rp, p, app[y]) /\ p.rcvd <= rp.issued
      /\ GoodPeer(x, a, app[x]) /\ a.rcvd = p.rcvd
      /\ a.in_seq_unreliable = p.in_seq_unreliable /\ a.state = p.state
      /\ a.in_seq_reliable = p.in_seq_reliable
  BY AckedPeer
<1>2. a \in rudp_peer /\ packet_state(a, pc) = "SEQUENCED"
  BY <1>1 DEF GoodPeer
<1> HIDE DEF a
<1>3. packet_state(p, pc) = "SEQUENCED"
  BY <1>1, <1>2 DEF packet_state, peer_analyse_reliable, peer_analyse_unreliable
<1>4. p.state = "RUN"
  <2>1. CASE p.state = "CONNECTING"
    <3>1. x = Client /\ y = Server
      BY <1>1, <2>1 DEF ReceiverOK, Remote
    <3>2. packet_state(p, pc) = "UNSEQUENCED"
      BY <1>1, <2>1, <3>1, ConnectingIgnores
    <3> QED
      BY <1>3, <3>2
  <2> QED
    BY <1>1, <2>1 DEF ReceiverOK
<1>5. /\ pc.rel => pc.pos = p.rcvd + 1
      /\ ~ pc.rel => pc.pos = p.rcvd /\ p.in_seq_unreliable < pc.useq
  BY <1>1, <1>3, <1>4, RunAccepts
<1>6. /\ pc.rel \in BOOLEAN /\ pc.seq \in SeqNo /\ pc.useq \in SeqNo
      /\ pc.pos \in Nat /\ pc.pos <= rp.issued
      /\ pc.seq = Wrap(rp.iss + pc.pos)
      /\ ~ pc.rel => pc.useq <= MaxUnreliable[y]
  BY <1>1 DEF PacketOK, Packet
<1>7. /\ q \in rudp_peer /\ q.state = a.state /\ q.sendq = a.sendq
      /\ q.iss = a.iss /\ q.issued = a.issued
      /\ q.out_seq_reliable = a.out_seq_reliable
      /\ q.out_seq_unreliable = a.out_seq_unreliable
      /\ q.out_seq_acked = a.out_seq_acked
      /\ pc.rel => /\ q.rcvd = a.rcvd + 1 /\ q.in_seq_unreliable = 0
                   /\ q.in_seq_reliable = pc.seq
      /\ ~ pc.rel => /\ q.rcvd = a.rcvd /\ q.in_seq_unreliable = pc.useq
                     /\ q.in_seq_reliable = a.in_seq_reliable
  <2>1. q \in rudp_peer
    BY <1>1, <1>2, SequencedType
  <2> QED
    BY <1>2, <1>6, <2>1 DEF Sequenced, rudp_peer
<1> HIDE DEF q
<1>8. Advanced(p, q, pc)
  BY <1>1, <1>5, <1>6, <1>7 DEF Advanced
<1>9. p.rcvd \in Nat /\ a.rcvd \in Nat /\ q.rcvd \in Nat /\ rp.issued \in Nat
      /\ 0 <= MaxUnreliable[y]
  BY <1>1, <1>2, <1>7, PeerFields, RemoteFacts, Bounds
<1>10. a.rcvd <= q.rcvd /\ q.rcvd <= rp.issued
  BY <1>1, <1>5, <1>6, <1>7, <1>9
<1>11. SenderOK(x, q, rp, net[x], app[x])
  BY <1>1, <1>2, <1>7, <1>10, SenderFrame DEF GoodPeer
<1>12. HistoryOK(x, q, rp, app[x])
  BY <1>1, <1>7, <1>10 DEF GoodPeer, HistoryOK
<1>13. ReceiverOK(x, q, rp)
  <2>1. q.in_seq_reliable = Wrap(rp.iss + q.rcvd)
    BY <1>1, <1>4, <1>5, <1>6, <1>7 DEF ReceiverOK
  <2>2. q.in_seq_unreliable <= MaxUnreliable[y]
    BY <1>6, <1>7, <1>9
  <2>3. x = Server => q.rcvd >= 1
    BY <1>1, <1>4, <1>9, <1>10 DEF ReceiverOK
  <2> QED
    BY <1>1, <1>4, <1>7, <2>1, <2>2, <2>3 DEF ReceiverOK
<1>14. \/ q.rcvd = p.rcvd
       \/ /\ p.rcvd <= q.rcvd
          /\ \E n \in net[y] : n.rel /\ n.pos = q.rcvd
  BY <1>1, <1>5, <1>7, <1>10
<1>15. GoodPeer(x, q, app[x])
  BY <1>1, <1>7, <1>11, <1>12, <1>13, <1>14 DEF GoodPeer
<1> QED
  BY <1>1, <1>4, <1>7, <1>8, <1>15 DEF q, a

(* Every case of rudp_peer_incoming_packet for a live peer. *)
LEMMA ReceiveStep ==
  ASSUME NoSentinelClash, IInv, NEW x \in Side, NEW pc \in net[Remote(x)],
         Receive(x, pc)
  PROVE  SideInv(x)' /\ SideInv(Remote(x))'
<1> DEFINE y  == Remote(x)
           p  == peer[x]
           rp == peer[y]
           a  == AckHandled(p, pc)
           q  == Sequenced(a, pc)
<1>1. life[x] = "live" /\ life[x] \in {"live", "unborn"} /\ Incoming(x, p, pc)
  BY DEF Receive
<1>2. /\ pc \in Packet /\ PacketOK(y, rp, p, app[y], pc)
      /\ p \in rudp_peer /\ rp \in rudp_peer /\ ReceiverOK(x, p, rp)
      /\ HistoryOK(y, rp, p, app[y]) /\ p.rcvd <= rp.issued
      /\ LogOK(x, p, app[y], log[x]) /\ LogInStep(p, log[x])
      /\ GoodPeer(x, a, app[x]) /\ a.rcvd = p.rcvd
      /\ a.in_seq_unreliable = p.in_seq_unreliable /\ a.state = p.state
      /\ a.in_seq_reliable = p.in_seq_reliable
  BY <1>1, AckedPeer
<1>3. /\ x \in Side /\ y \in Side /\ Remote(y) = x
      /\ app[y] \subseteq Nat /\ log[x] \in Seq(Delivery)
      /\ app \in [Side -> SUBSET Nat] /\ log \in [Side -> Seq(Delivery)]
      /\ net \in [Side -> SUBSET Packet] /\ SideInv(y)
  BY RemoteFacts DEF IInv, TypeOK
<1>4. a \in rudp_peer
  BY <1>2 DEF GoodPeer
<1>5. packet_state(a, pc) = "SEQUENCED" =>
         GoodPeer(x, q, app[x]) /\ q.state = "RUN" /\ Advanced(p, q, pc)
  BY <1>1, AcceptedPeer
<1>6. /\ UNCHANGED app => app' = [app EXCEPT ![x] = app[x]]
      /\ UNCHANGED log => log' = [log EXCEPT ![x] = log[x]]
  BY <1>3
<1> HIDE DEF a, q
<1>7. LogOK(x, a, app[y], log[x]) /\ LogInStep(a, log[x])
  BY <1>2 DEF LogOK, LogInStep
(* An accepted packet that is no payload, whatever h it is answered with. *)
<1>8. ASSUME NEW h, NEW A2, GoodPeer(x, h, A2), Settle(x, h, pc),
             app' = [app EXCEPT ![x] = A2], UNCHANGED log,
             pc.cmd # "APP", GoodPeer(x, q, app[x]), Advanced(p, q, pc),
             h.rcvd = q.rcvd, h.in_seq_unreliable = q.in_seq_unreliable
      PROVE  SideInv(x)' /\ SideInv(y)'
  <2>1. h \in rudp_peer
    BY <1>8 DEF GoodPeer
  <2>2. \/ /\ pc.rel /\ pc.pos = p.rcvd + 1
           /\ h.rcvd = p.rcvd + 1 /\ h.in_seq_unreliable = 0
        \/ /\ ~ pc.rel /\ p.in_seq_unreliable < pc.useq
           /\ h.rcvd = p.rcvd /\ h.in_seq_unreliable = pc.useq
    BY <1>8 DEF Advanced
  <2>3. LogOK(x, h, app[y], log[x]) /\ LogInStep(h, log[x])
    BY <1>2, <1>3, <1>8, <2>1, <2>2, LogUnchangedOK
  <2> QED
    BY <1>1, <1>2, <1>6, <1>8, <2>3, SettleStep
(* And one that is. *)
<1>9. ASSUME NEW h, NEW A2, GoodPeer(x, h, A2), Settle(x, h, pc),
             app' = [app EXCEPT ![x] = A2], pc.cmd = "APP",
             log' = [log EXCEPT ![x] =
                       Append(log[x], [pos |-> pc.pos, useq |-> pc.useq])],
             GoodPeer(x, q, app[x]), Advanced(p, q, pc),
             h.rcvd = q.rcvd, h.in_seq_unreliable = q.in_seq_unreliable
      PROVE  SideInv(x)' /\ SideInv(y)'
  <2>1. h \in rudp_peer
    BY <1>9 DEF GoodPeer
  <2>2. PICK L2 : L2 = Append(log[x], [pos |-> pc.pos, useq |-> pc.useq])
    OBVIOUS
  <2>3. \/ /\ pc.rel /\ pc.pos = p.rcvd + 1
           /\ h.rcvd = p.rcvd + 1 /\ h.in_seq_unreliable = 0
        \/ /\ ~ pc.rel /\ pc.pos = p.rcvd /\ p.in_seq_unreliable < pc.useq
           /\ h.rcvd = p.rcvd /\ h.in_seq_unreliable = pc.useq
    BY <1>9 DEF Advanced
  <2>4. LogOK(x, h, app[y], L2) /\ LogInStep(h, L2)
    BY <1>2, <1>3, <1>9, <2>1, <2>2, <2>3, LogAppendOK
  <2>5. log' = [log EXCEPT ![x] = L2]
    BY <1>9, <2>2
  <2> QED
    BY <1>1, <1>2, <1>9, <2>4, <2>5, SettleStep
<1>10. CASE RecvConnReq(x, p, pc)
  BY <1>2, <1>10 DEF RecvConnReq, ReceiverOK, a
<1>11. CASE RecvConnRsp(x, p, pc)
  <2> DEFINE b == [a EXCEPT !.in_seq_reliable = pc.seq, !.rcvd = pc.pos]
             c == AckHandled(b, pc)
             h == [c EXCEPT !.state = "RUN"]
  <2>1. a.state = "CONNECTING" /\ pc.cmd = "CONN_RSP" /\ Settle(x, h, pc)
        /\ UNCHANGED app /\ UNCHANGED log
    BY <1>11 DEF RecvConnRsp, a
  <2>2. /\ x = Client /\ y = Server /\ pc.pos = 0 /\ pc.seq = Wrap(rp.iss + 0)
        /\ p.rcvd = 0 /\ p.in_seq_unreliable = 0 /\ pc.seq \in SeqNo
    BY <1>2, <2>1 DEF PacketOK, Packet, ReceiverOK, Remote
  <2>3. /\ b \in rudp_peer /\ b.sendq = a.sendq /\ b.issued = a.issued
        /\ b.iss = a.iss /\ b.out_seq_reliable = a.out_seq_reliable
        /\ b.out_seq_unreliable = a.out_seq_unreliable
        /\ b.out_seq_acked = a.out_seq_acked /\ b.rcvd = 0
        /\ b.in_seq_reliable = pc.seq
        /\ b.in_seq_unreliable = a.in_seq_unreliable
    <3>1. pc.pos \in Nat
      BY <2>2
    <3>2. b \in rudp_peer /\ b.rcvd = pc.pos
      BY <1>4, <2>2, <3>1 DEF rudp_peer
    <3> QED
      BY <1>4, <2>2, <3>2 DEF rudp_peer
  <2> HIDE DEF b
  <2>4. a.rcvd <= b.rcvd
    BY <1>2, <2>2, <2>3
  <2>5. SenderOK(x, b, rp, net[x], app[x])
    BY <1>2, <1>4, <2>3, <2>4, SenderFrame DEF GoodPeer
  <2>6. HistoryOK(x, b, rp, app[x])
    BY <1>2, <2>2, <2>3 DEF GoodPeer, HistoryOK
  <2>7. rp.rcvd <= b.issued
    <3>1. rp.rcvd <= p.issued /\ p.issued <= a.issued
      BY <1>2 DEF HistoryOK, GoodPeer
    <3> QED
      BY <1>2, <1>4, <2>3, <3>1, PeerFields
  <2>8. PacketOK(y, rp, b, app[y], pc)
    <3>1. b.iss = p.iss
      BY <1>2, <2>3 DEF GoodPeer
    <3> QED
      BY <1>2, <3>1 DEF PacketOK, AckOK
  <2>9. SenderOK(x, c, rp, net[x], app[x])
    BY <1>2, <2>3, <2>5, <2>6, <2>7, <2>8, AckHandledOK
  <2>10. c \in rudp_peer
    BY <1>2, <2>3, AckHandledType
  <2>11. /\ c.iss = b.iss /\ c.issued = b.issued /\ c.rcvd = b.rcvd
         /\ c.in_seq_reliable = b.in_seq_reliable
         /\ c.in_seq_unreliable = b.in_seq_unreliable
    BY <1>2, <2>3, AckHandledFields
  <2> HIDE DEF c
  <2>12. /\ h \in rudp_peer /\ h.sendq = c.sendq /\ h.issued = c.issued
         /\ h.iss = c.iss /\ h.out_seq_reliable = c.out_seq_reliable
         /\ h.out_seq_unreliable = c.out_seq_unreliable
         /\ h.out_seq_acked = c.out_seq_acked /\ h.rcvd = c.rcvd
         /\ h.in_seq_reliable = c.in_seq_reliable
         /\ h.in_seq_unreliable = c.in_seq_unreliable /\ h.state = "RUN"
    BY <2>10 DEF rudp_peer, peer_state
  <2> HIDE DEF h
  <2>13. c.rcvd <= h.rcvd
    BY <2>10, <2>12, PeerFields
  <2>14. SenderOK(x, h, rp, net[x], app[x])
    BY <1>2, <2>9, <2>10, <2>12, <2>13, SenderFrame
  <2>15. HistoryOK(x, h, rp, app[x])
    BY <2>6, <2>11, <2>12 DEF HistoryOK
  <2>16. ReceiverOK(x, h, rp)
    <3>1. 0 <= MaxUnreliable[y] /\ x # Server
      BY <1>3, <2>2, Bounds DEF Client, Server
    <3> QED
      BY <1>2, <2>2, <2>3, <2>11, <2>12, <3>1 DEF ReceiverOK
  <2>17. GoodPeer(x, h, app[x])
    BY <1>2, <2>2, <2>3, <2>11, <2>12, <2>14, <2>15, <2>16 DEF GoodPeer
  <2>18. LogOK(x, h, app[y], log[x]) /\ LogInStep(h, log[x])
    BY <1>2, <2>2, <2>3, <2>11, <2>12 DEF LogOK, LogInStep
  <2> QED
    BY <1>1, <1>2, <1>6, <2>1, <2>17, <2>18, SettleStep
<1>12. CASE RecvUnsequenced(x, p, pc)
  <2>1. Settle(x, a, pc) /\ UNCHANGED app /\ UNCHANGED log
    BY <1>12 DEF RecvUnsequenced, a
  <2> QED
    BY <1>1, <1>2, <1>6, <1>7, <2>1, SettleStep
<1>13. CASE RecvRetransmitted(x, p, pc)
  <2>1. Settle(x, a, pc) /\ UNCHANGED app /\ UNCHANGED log
    BY <1>13 DEF RecvRetransmitted, a
  <2> QED
    BY <1>1, <1>2, <1>6, <1>7, <2>1, SettleStep
<1>14. CASE RecvClose(x, p, pc)
  <2>1. /\ packet_state(a, pc) = "SEQUENCED" /\ pc.cmd = "CLOSE" /\ End(x, "left")
        /\ net' = net /\ app' = app /\ log' = log
    BY <1>14 DEF RecvClose, a
  <2>2. life[y] = "closed" /\ pc.pos = rp.issued
    BY <1>3, <2>1 DEF SideInv
  <2>3. ~ pc.rel
    BY <1>2, <2>1 DEF PacketOK
  <2>4. p.rcvd = rp.issued
    BY <1>5, <2>1, <2>2, <2>3 DEF Advanced
  <2>5. net' = [net EXCEPT ![x] = net[x]] /\ net[x] \subseteq net[x]
    BY <1>3, <2>1
  <2>6. \A n \in net[x] : /\ PacketOK(x, p, rp, app[x], n)
                          /\ n.cmd = "CLOSE" => "left" = "closed" /\ n.pos = p.issued
    BY <1>1 DEF IInv, SideInv
  <2> QED
    BY <1>1, <2>1, <2>2, <2>4, <2>5, <2>6, EndStep
<1>15. CASE RecvPing(x, p, pc)
  <2>1. /\ packet_state(a, pc) = "SEQUENCED" /\ pc.cmd = "PING"
        /\ Settle(x, IF q.state = "RUN" THEN peer_handle_ping(q, pc) ELSE q, pc)
        /\ UNCHANGED app /\ UNCHANGED log
    BY <1>15 DEF RecvPing, a, q
  <2>2. \/ Settle(x, q, pc)
        \/ Settle(x, rudp_peer_send_unreliable(q, "PONG"), pc)
    BY <1>5, <2>1 DEF peer_handle_ping
  <2>3. CASE Settle(x, q, pc)
    BY <1>5, <1>6, <1>8, <2>1, <2>3
  <2>4. CASE Settle(x, rudp_peer_send_unreliable(q, "PONG"), pc)
    <3> DEFINE h == rudp_peer_send_unreliable(q, "PONG")
    <3>1. GoodPeer(x, h, app[x]) /\ h.rcvd = q.rcvd
          /\ h.in_seq_unreliable = q.in_seq_unreliable
      BY <1>2, <1>5, <2>1, <2>4, AnswerUnreliable
    <3> HIDE DEF h
    <3>2. Settle(x, h, pc)
      BY <2>4 DEF h
    <3> QED
      BY <1>5, <1>6, <1>8, <2>1, <3>1, <3>2
  <2> QED
    BY <2>2, <2>3, <2>4
<1>16. CASE RecvNothing(x, p, pc)
  <2>1. /\ packet_state(a, pc) = "SEQUENCED" /\ pc.cmd # "APP"
        /\ Settle(x, q, pc) /\ UNCHANGED app /\ UNCHANGED log
    BY <1>16 DEF RecvNothing, a, q
  <2> QED
    BY <1>5, <1>6, <1>8, <2>1
<1>17. CASE RecvAppNotRunning(x, p, pc)
  BY <1>5, <1>17 DEF RecvAppNotRunning, a, q
<1>18. CASE RecvApp(x, p, pc)
  <2>1. /\ packet_state(a, pc) = "SEQUENCED" /\ pc.cmd = "APP"
        /\ log' = [log EXCEPT ![x] =
                     Append(log[x], [pos |-> pc.pos, useq |-> pc.useq])]
    BY <1>3, <1>18 DEF RecvApp, a
  <2>2. CASE Settle(x, q, pc) /\ UNCHANGED app
    BY <1>5, <1>6, <1>9, <2>1, <2>2
  <2>3. CASE Settle(x, rudp_peer_send_unreliable(q, "APP"), pc) /\ UNCHANGED app
    <3> DEFINE h == rudp_peer_send_unreliable(q, "APP")
    <3>1. GoodPeer(x, h, app[x]) /\ h.rcvd = q.rcvd
          /\ h.in_seq_unreliable = q.in_seq_unreliable
      BY <1>2, <1>5, <2>1, <2>3, AnswerUnreliable
    <3> HIDE DEF h
    <3>2. Settle(x, h, pc)
      BY <2>3 DEF h
    <3> QED
      BY <1>5, <1>6, <1>9, <2>1, <2>3, <3>1, <3>2
  <2>4. CASE /\ Settle(x, rudp_peer_send_reliable(q, "APP"), pc)
             /\ app' = [app EXCEPT ![x] = @ \cup {q.issued + 1}]
    <3> DEFINE h  == rudp_peer_send_reliable(q, "APP")
               A2 == app[x] \cup {q.issued + 1}
    <3>1. GoodPeer(x, h, A2) /\ h.rcvd = q.rcvd
          /\ h.in_seq_unreliable = q.in_seq_unreliable
      BY <1>1, <1>2, <1>5, <2>1, <2>4, AnswerReliable
    <3>2. app' = [app EXCEPT ![x] = A2] /\ Settle(x, h, pc)
      BY <1>3, <2>4
    <3> HIDE DEF h, A2
    <3> QED
      BY <1>5, <1>9, <2>1, <3>1, <3>2
  <2> QED
    BY <1>18, <2>2, <2>3, <2>4 DEF RecvApp, a, q
<1> QED
  BY <1>1, <1>10, <1>11, <1>12, <1>13, <1>14, <1>15, <1>16, <1>17, <1>18
     DEF Incoming

-----------------------------------------------------------------------------
(* The server's new peer *)

(* A peer just reset owes nothing and has sent nothing. *)
LEMMA ResetOK ==
  ASSUME NEW x \in Side, NEW s \in RandomSeq[x], NEW rp \in rudp_peer,
         NEW p \in rudp_peer,
         p = rudp_peer_reset(s) \/ p = rudp_peer_init(s)
  PROVE  /\ SenderOK(x, p, rp, {}, {})
         /\ p.sendq = << >> /\ p.iss = s /\ p.issued = 0 /\ p.rcvd = 0
         /\ p.state = "NEW" /\ p.in_seq_reliable = Modulus - 1
         /\ p.in_seq_unreliable = 0 /\ p.out_seq_unreliable = 0
         /\ p.out_seq_reliable = s /\ Acked(p) = -1
<1>1. /\ p.sendq = << >> /\ p.iss = s /\ p.issued = 0 /\ p.rcvd = 0
      /\ p.state = "NEW" /\ p.in_seq_reliable = Wrap(-1)
      /\ p.in_seq_unreliable = 0 /\ p.out_seq_unreliable = 0
      /\ p.out_seq_reliable = s /\ p.out_seq_acked = Wrap(s - 1)
  BY DEF rudp_peer_init, peer_service_schedule, rudp_peer_reset
<1>2. s \in SeqNo /\ s \in Int
  BY Bounds, SeqNoInt
<1>3. Wrap(-1) = Modulus - 1
  BY ModulusAssumption, WrapCases
<1>4. Acked(p) = -1
  <2>1. s + -1 = s - 1 /\ s + 0 = s
    BY <1>2
  <2>2. Wrap(s + 0) = s
    BY <1>2, WrapOfSeqNo
  <2>3. Delta(Wrap(s + -1), Wrap(s + 0)) = -1 - 0
    BY <1>2, ModulusAssumption, DeltaOfWraps
  <2>4. Delta(Wrap(s - 1), s) = -1
    BY <2>1, <2>2, <2>3
  <2> QED
    BY <1>1, <2>4 DEF Acked
<1>5. Wrap(p.iss + p.issued) = s
  BY <1>1, <1>2, WrapOfSeqNo
<1>6. rp.rcvd \in Nat /\ MaxUnreliable[x] \in Nat
  BY PeerFields, Bounds
<1>7. QueueOK(x, p, rp, {}, {})
  <2>1. Len(p.sendq) = 0 /\ 1 .. 0 = {}
    BY <1>1
  <2>2. 1 .. Len(p.sendq) = {} /\ 1 .. p.issued = {}
    BY <1>1, <2>1
  <2> QED
    BY <2>2 DEF QueueOK
<1> QED
  BY <1>1, <1>3, <1>4, <1>5, <1>6, <1>7 DEF SenderOK

LEMMA AcceptStep ==
  ASSUME NoSentinelClash, IInv, NEW pc \in net[Client], Accept(pc)
  PROVE  SideInv(Server)' /\ SideInv(Client)'
<1> DEFINE rp == peer[Client]
           p  == peer_service_schedule(peer[Server])
           a  == AckHandled(p, pc)
           c  == peer_handle_connreq(a)
           h  == [c EXCEPT !.in_seq_reliable = pc.seq, !.state = "RUN",
                           !.rcvd = pc.pos]
<1>1. /\ life[Server] = "unborn" /\ life[Server] \in {"live", "unborn"}
      /\ pc.cmd = "CONN_REQ" /\ Incoming(Server, p, pc)
  BY DEF Accept
<1>2. /\ Server \in Side /\ Client \in Side /\ Remote(Server) = Client
      /\ Remote(Client) = Server /\ Server # Client
      /\ rp \in rudp_peer /\ peer[Server] \in rudp_peer
      /\ SideInv(Server) /\ SideInv(Client)
      /\ app \in [Side -> SUBSET Nat] /\ log \in [Side -> Seq(Delivery)]
  BY RemoteFacts DEF IInv, TypeOK, Side, Remote, Server, Client
<1>3. /\ peer[Server] = rudp_peer_reset(peer[Server].iss) /\ net[Server] = {}
      /\ app[Server] = {} /\ log[Server] = << >>
      /\ peer[Server].iss \in RandomSeq[Server]
      /\ HistoryOK(Server, peer[Server], rp, app[Server])
      /\ HistoryOK(Client, rp, peer[Server], app[Client])
      /\ PacketOK(Client, rp, peer[Server], app[Client], pc)
  BY <1>1, <1>2 DEF SideInv, HistoryOK
<1>4. p \in rudp_peer /\ p = rudp_peer_init(peer[Server].iss)
  BY <1>2, <1>3, ScheduleType DEF rudp_peer_init
<1> HIDE DEF p
<1>5. /\ SenderOK(Server, p, rp, {}, {})
      /\ p.iss = peer[Server].iss /\ p.issued = 0 /\ p.rcvd = 0
      /\ p.state = "NEW" /\ p.in_seq_reliable = Modulus - 1
      /\ p.in_seq_unreliable = 0
  BY <1>2, <1>3, <1>4, ResetOK
<1>6. peer[Server].issued = 0 /\ peer[Server].rcvd = 0
  BY <1>2, <1>3, ResetOK
<1>7. /\ rp.issued \in Nat /\ rp.rcvd \in Nat /\ rp.rcvd <= p.issued
      /\ rp.iss \in Int /\ 0 <= rp.iss /\ rp.iss < Modulus - 2
      /\ Modulus \in Nat /\ Modulus >= 8
  <2>1. rp.issued \in Nat /\ rp.rcvd \in Nat /\ rp.iss \in Int /\ 0 <= rp.iss
    BY <1>2, PeerFields, SeqNoInt
  <2>2. rp.rcvd <= p.issued
    BY <1>3, <1>5, <1>6 DEF HistoryOK
  <2>3. rp.iss < Modulus - 2
    BY <1>3 DEF HistoryOK, NoSentinelClash
  <2> QED
    BY <2>1, <2>2, <2>3, ModulusAssumption
<1>8. /\ pc \in Packet /\ pc.rel /\ pc.pos = 1 /\ pc.seq = Wrap(rp.iss + 1)
      /\ pc.seq \in SeqNo /\ 1 <= rp.issued
  BY <1>1, <1>3 DEF PacketOK, Packet
<1>9. pc.seq # Modulus - 1 /\ Wrap(Modulus - 1 + 1) # pc.seq
  <2>1. Wrap(rp.iss + 1) = rp.iss + 1
    BY <1>7, WrapCases
  <2>2. Modulus - 1 + 1 = Modulus
    BY <1>7
  <2>3. Wrap(Modulus) = 0
    BY <1>7, WrapCases
  <2> QED
    BY <1>7, <1>8, <2>1, <2>2, <2>3
<1>10. HistoryOK(Server, p, rp, {})
  BY <1>3, <1>5, <1>6 DEF HistoryOK
<1>11. PacketOK(Client, rp, p, app[Client], pc)
  BY <1>3, <1>5 DEF PacketOK, AckOK
<1>12. SenderOK(Server, a, rp, {}, {})
  BY <1>2, <1>4, <1>5, <1>7, <1>10, <1>11, AckHandledOK
<1>13. a \in rudp_peer
  BY <1>4, <1>8, AckHandledType
<1>14. /\ a.state = "NEW" /\ a.in_seq_reliable = Modulus - 1
       /\ a.in_seq_unreliable = 0 /\ a.iss = p.iss /\ a.issued = 0 /\ a.rcvd = 0
  BY <1>4, <1>5, <1>8, AckHandledFields
<1>15. Incoming(Server, p, pc) => RecvConnReq(Server, p, pc)
  <2>1. packet_state(a, pc) = "UNSEQUENCED"
    BY <1>8, <1>9, <1>14 DEF packet_state, peer_analyse_reliable
  <2> HIDE DEF a
  <2>2. ~ RecvConnRsp(Server, p, pc) /\ ~ RecvUnsequenced(Server, p, pc)
    BY <1>1, <1>14, <2>1 DEF RecvConnRsp, RecvUnsequenced, a
  <2>3. /\ ~ RecvRetransmitted(Server, p, pc) /\ ~ RecvClose(Server, p, pc)
        /\ ~ RecvPing(Server, p, pc) /\ ~ RecvNothing(Server, p, pc)
        /\ ~ RecvAppNotRunning(Server, p, pc) /\ ~ RecvApp(Server, p, pc)
    BY <2>1 DEF RecvRetransmitted, RecvClose, RecvPing, RecvNothing,
                RecvAppNotRunning, RecvApp, a
  <2> QED
    BY <2>2, <2>3 DEF Incoming
<1>16. Settle(Server, h, pc) /\ UNCHANGED app /\ UNCHANGED log
  BY <1>1, <1>15 DEF RecvConnReq
<1> HIDE DEF a
<1>17. /\ c \in rudp_peer /\ c.sendq # << >> /\ c.iss = a.iss
       /\ c.issued = a.issued /\ c.rcvd = a.rcvd
       /\ c.in_seq_unreliable = a.in_seq_unreliable
       /\ c.out_seq_unreliable <= MaxUnreliable[Server] =>
            SenderOK(Server, c, rp, {}, {})
  <2>1. "CONN_RSP" \in Command
    BY DEF Command
  <2>2. HistoryOK(Server, a, rp, {})
    BY <1>5, <1>10, <1>14 DEF HistoryOK
  <2> QED
    BY <1>2, <1>12, <1>13, <1>14, <2>1, <2>2, SendUnreliableType,
       SendUnreliableFields, SendUnreliableOK, QueuedBusy DEF peer_handle_connreq
<1> HIDE DEF c
<1>18. /\ h \in rudp_peer /\ h.sendq = c.sendq /\ h.issued = c.issued
       /\ h.iss = c.iss /\ h.out_seq_reliable = c.out_seq_reliable
       /\ h.out_seq_unreliable = c.out_seq_unreliable
       /\ h.out_seq_acked = c.out_seq_acked /\ h.rcvd = pc.pos
       /\ h.in_seq_reliable = pc.seq
       /\ h.in_seq_unreliable = c.in_seq_unreliable /\ h.state = "RUN"
  <2>1. pc.pos \in Nat
    BY <1>8 DEF Packet
  <2>2. h \in rudp_peer /\ h.rcvd = pc.pos /\ h.in_seq_reliable = pc.seq
        /\ h.state = "RUN"
    BY <1>8, <1>17, <2>1 DEF rudp_peer, peer_state
  <2> QED
    BY <1>17, <2>2 DEF rudp_peer
<1> HIDE DEF h
<1>19. c.out_seq_unreliable <= MaxUnreliable[Server]
  <2>1. Finished(h, pc).out_seq_unreliable = h.out_seq_unreliable
    BY <1>8, <1>17, <1>18, FinishedBusy
  <2> QED
    BY <1>16, <1>18, <2>1 DEF Settle, Put
<1>20. c.rcvd <= h.rcvd
  BY <1>8, <1>14, <1>17, <1>18
<1>21. SenderOK(Server, h, rp, {}, {})
  BY <1>2, <1>17, <1>18, <1>19, <1>20, SenderFrame
<1>22. HistoryOK(Server, h, rp, {})
  BY <1>5, <1>8, <1>10, <1>14, <1>17, <1>18 DEF HistoryOK
<1>23. ReceiverOK(Server, h, rp)
  <2>1. MaxUnreliable[Client] \in Nat
    BY <1>2, Bounds
  <2> QED
    BY <1>2, <1>8, <1>14, <1>17, <1>18, <2>1 DEF ReceiverOK
<1>24. /\ h.iss = peer[Server].iss /\ peer[Server].issued <= h.issued
       /\ peer[Server].rcvd <= h.rcvd /\ 1 .. peer[Server].issued = {}
  BY <1>5, <1>6, <1>8, <1>14, <1>17, <1>18
<1>25. GoodPeer(Server, h, app[Server])
  BY <1>2, <1>3, <1>8, <1>18, <1>21, <1>22, <1>23, <1>24 DEF GoodPeer
<1>26. LogOK(Server, h, app[Client], log[Server]) /\ LogInStep(h, log[Server])
  <2>1. \A k \in app[Client] : ~ (k <= h.rcvd)
    <3>1. app[Client] \subseteq 1 .. rp.issued /\ 1 \notin app[Client]
      BY <1>3 DEF HistoryOK
    <3>2. \A k \in app[Client] : k \in Nat /\ k >= 1 /\ k # 1
      BY <1>7, <3>1
    <3> QED
      BY <1>8, <1>18, <3>2
  <2>2. DOMAIN log[Server] = {}
    BY <1>3
  <2> QED
    BY <2>1, <2>2 DEF LogOK, LogInStep
<1>27. /\ app' = [app EXCEPT ![Server] = app[Server]]
       /\ log' = [log EXCEPT ![Server] = log[Server]]
  BY <1>2, <1>16
<1> QED
  BY <1>1, <1>2, <1>8, <1>16, <1>25, <1>26, <1>27, SettleStep

-----------------------------------------------------------------------------
(* The application and the timer *)

(* A peer that x may be left with by a step that receives nothing. *)
LocalPeer(x, h, N2, A2) ==
  LET p == peer[x]
      rp == peer[Remote(x)]
  IN
  /\ h \in rudp_peer
  /\ HistoryOK(x, h, rp, A2) /\ SenderOK(x, h, rp, N2, A2)
  /\ h.state = p.state /\ h.in_seq_reliable = p.in_seq_reliable
  /\ h.in_seq_unreliable = p.in_seq_unreliable
  /\ h.iss = p.iss /\ h.rcvd = p.rcvd /\ p.issued <= h.issued
  /\ \A a \in 1 .. p.issued : a \in A2 <=> a \in app[x]
  /\ \A n \in N2 : PacketOK(x, h, rp, A2, n) /\ n.cmd # "CLOSE"

LEMMA LocalStep ==
  ASSUME IInv, NEW x \in Side, life[x] = "live", NEW h, NEW N2, NEW A2,
         LocalPeer(x, h, N2, A2),
         peer' = [peer EXCEPT ![x] = h],
         net' = [net EXCEPT ![x] = N2],
         app' = [app EXCEPT ![x] = A2],
         UNCHANGED life, UNCHANGED log
  PROVE  SideInv(x)' /\ SideInv(Remote(x))'
<1>1. /\ life \in [Side -> Life] /\ log \in [Side -> Seq(Delivery)] /\ SideInv(x)
  BY DEF IInv, TypeOK
<1>2. /\ life' = [life EXCEPT ![x] = "live"]
      /\ log' = [log EXCEPT ![x] = log[x]]
      /\ life[x] \in {"live", "unborn"}
  BY <1>1
<1>3. ReceiverOK(x, h, peer[Remote(x)])
  BY <1>1 DEF SideInv, ReceiverOK, LocalPeer
<1>4. LogOK(x, h, app[Remote(x)], log[x]) /\ LogInStep(h, log[x])
  BY <1>1 DEF SideInv, LogOK, LogInStep, LocalPeer
<1>5. GoodStep(x, h, N2, A2, log[x])
  BY <1>2, <1>3, <1>4 DEF GoodStep, LocalPeer
<1> QED
  BY <1>5, PeerStep

(* What IInv says of a live peer and of what it has sent. *)
LEMMA LivePeer ==
  ASSUME IInv, NEW x \in Side, life[x] = "live"
  PROVE  /\ peer[x] \in rudp_peer /\ peer[Remote(x)] \in rudp_peer
         /\ HistoryOK(x, peer[x], peer[Remote(x)], app[x])
         /\ SenderOK(x, peer[x], peer[Remote(x)], net[x], app[x])
         /\ ReceiverOK(x, peer[x], peer[Remote(x)])
         /\ peer[Remote(x)].rcvd <= peer[x].issued
         /\ \A n \in net[x] :
               /\ PacketOK(x, peer[x], peer[Remote(x)], app[x], n)
               /\ n.cmd # "CLOSE"
<1>1. /\ Remote(x) \in Side /\ Remote(Remote(x)) = x
      /\ SideInv(x) /\ SideInv(Remote(x))
      /\ peer[x] \in rudp_peer /\ peer[Remote(x)] \in rudp_peer
  BY RemoteFacts DEF IInv, TypeOK
<1>2. peer[Remote(x)].rcvd <= peer[x].issued
  BY <1>1 DEF SideInv, HistoryOK
<1> QED
  BY <1>1, <1>2 DEF SideInv

LEMMA SendReliableStep ==
  ASSUME IInv, NEW x \in Side, SendReliable(x)
  PROVE  SideInv(x)' /\ SideInv(Remote(x))'
<1> DEFINE p  == peer[x]
           rp == peer[Remote(x)]
           h  == rudp_peer_send_reliable(p, "APP")
           A2 == app[x] \cup {p.issued + 1}
<1>1. /\ life[x] = "live" /\ h.issued <= MaxIssued[x]
      /\ peer' = [peer EXCEPT ![x] = h]
      /\ app' = [app EXCEPT ![x] = A2]
      /\ UNCHANGED life /\ UNCHANGED log /\ UNCHANGED net
  BY DEF SendReliable, MaySend, Put, IInv, TypeOK
<1>2. /\ p \in rudp_peer /\ rp \in rudp_peer /\ HistoryOK(x, p, rp, app[x])
      /\ SenderOK(x, p, rp, net[x], app[x]) /\ rp.rcvd <= p.issued
      /\ \A n \in net[x] : PacketOK(x, p, rp, app[x], n) /\ n.cmd # "CLOSE"
  BY <1>1, LivePeer
<1>3. /\ h \in rudp_peer /\ h.iss = p.iss /\ h.issued = p.issued + 1
      /\ h.rcvd = p.rcvd /\ h.state = p.state
      /\ h.in_seq_reliable = p.in_seq_reliable
      /\ h.in_seq_unreliable = p.in_seq_unreliable
  BY <1>2, SendReliableType, SendReliableFields DEF Command
<1>4. /\ SenderOK(x, h, rp, net[x], A2) /\ HistoryOK(x, h, rp, A2)
      /\ \A a \in 1 .. p.issued : a \in A2 <=> a \in app[x]
  BY <1>1, <1>2, <1>3, SendReliableOK
<1> HIDE DEF h, A2
<1>5. p.issued <= h.issued /\ p.rcvd <= h.rcvd
  BY <1>2, <1>3, PeerFields
<1>6. \A n \in net[x] : PacketOK(x, h, rp, A2, n)
  BY <1>2, <1>3, <1>4, <1>5, PacketFrame
<1>7. LocalPeer(x, h, net[x], A2)
  BY <1>2, <1>3, <1>4, <1>5, <1>6 DEF LocalPeer
<1>8. net' = [net EXCEPT ![x] = net[x]]
  BY <1>1 DEF IInv, TypeOK
<1> QED
  BY <1>1, <1>7, <1>8, LocalStep

LEMMA SendUnreliableStep ==
  ASSUME IInv, NEW x \in Side, SendUnreliable(x)
  PROVE  SideInv(x)' /\ SideInv(Remote(x))'
<1> DEFINE p  == peer[x]
           rp == peer[Remote(x)]
           h  == rudp_peer_send_unreliable(p, "APP")
<1>1. /\ life[x] = "live" /\ h.out_seq_unreliable <= MaxUnreliable[x]
      /\ peer' = [peer EXCEPT ![x] = h]
      /\ UNCHANGED life /\ UNCHANGED log /\ UNCHANGED net /\ UNCHANGED app
  BY DEF SendUnreliable, MaySend, Put
<1>2. /\ p \in rudp_peer /\ rp \in rudp_peer /\ HistoryOK(x, p, rp, app[x])
      /\ SenderOK(x, p, rp, net[x], app[x])
      /\ \A n \in net[x] : PacketOK(x, p, rp, app[x], n) /\ n.cmd # "CLOSE"
  BY <1>1, LivePeer
<1>3. /\ h \in rudp_peer /\ h.iss = p.iss /\ h.issued = p.issued
      /\ h.rcvd = p.rcvd /\ h.state = p.state
      /\ h.in_seq_reliable = p.in_seq_reliable
      /\ h.in_seq_unreliable = p.in_seq_unreliable
  BY <1>2, SendUnreliableType, SendUnreliableFields DEF Command
<1>4. SenderOK(x, h, rp, net[x], app[x])
  BY <1>1, <1>2, SendUnreliableOK
<1> HIDE DEF h
<1>5. p.issued <= h.issued /\ p.rcvd <= h.rcvd
  BY <1>2, <1>3, PeerFields
<1>6. \A n \in net[x] : PacketOK(x, h, rp, app[x], n)
  BY <1>2, <1>3, <1>5, PacketFrame
<1>7. HistoryOK(x, h, rp, app[x])
  BY <1>2, <1>3 DEF HistoryOK
<1>8. LocalPeer(x, h, net[x], app[x])
  BY <1>2, <1>3, <1>4, <1>5, <1>6, <1>7 DEF LocalPeer
<1>9. net' = [net EXCEPT ![x] = net[x]] /\ app' = [app EXCEPT ![x] = app[x]]
  BY <1>1 DEF IInv, TypeOK
<1> QED
  BY <1>1, <1>8, <1>9, LocalStep

(* p is the peer of x at the moment peer_service calls peer_send_queue. *)
LEMMA FlushStep ==
  ASSUME IInv, NEW x \in Side, life[x] = "live", NEW p, Flush(x, p),
         p.issued <= MaxIssued[x] => LocalPeer(x, p, net[x], app[x]),
         p \in rudp_peer
  PROVE  SideInv(x)' /\ SideInv(Remote(x))'
<1> DEFINE rp == peer[Remote(x)]
           N2 == net[x] \cup Transmitted(p)
<1>1. /\ Put(x, peer_service_schedule(peer_send_queue(p)))
      /\ net' = [net EXCEPT ![x] = @ \cup Transmitted(p)]
      /\ UNCHANGED <<life, connected, app, log>>
  BY DEF Flush
<1> DEFINE g == peer_send_queue(p)
           h == peer_service_schedule(g)
<1>2. rp \in rudp_peer /\ g \in rudp_peer /\ ReceiverOK(x, peer[x], rp)
  BY LivePeer, SendQueueType
<1>3. /\ g.state = p.state /\ g.in_seq_reliable = p.in_seq_reliable
      /\ g.in_seq_unreliable = p.in_seq_unreliable
      /\ g.iss = p.iss /\ g.issued = p.issued /\ g.rcvd = p.rcvd
  BY DEF peer_send_queue, rudp_peer
<1> HIDE DEF g
<1>4. /\ h \in rudp_peer /\ h.sendq = g.sendq /\ h.issued = g.issued
      /\ h.iss = g.iss /\ h.rcvd = g.rcvd /\ h.state = g.state
      /\ h.out_seq_reliable = g.out_seq_reliable
      /\ h.out_seq_unreliable = g.out_seq_unreliable
      /\ h.out_seq_acked = g.out_seq_acked
      /\ h.in_seq_reliable = g.in_seq_reliable
      /\ h.in_seq_unreliable = g.in_seq_unreliable
  BY <1>2 DEF peer_service_schedule, rudp_peer
<1>5. h.issued <= MaxIssued[x] /\ peer' = [peer EXCEPT ![x] = h]
  BY <1>1 DEF Put, g
<1> HIDE DEF h
<1>6. LocalPeer(x, p, net[x], app[x])
  BY <1>3, <1>4, <1>5
<1>7. /\ HistoryOK(x, p, rp, app[x]) /\ SenderOK(x, p, rp, net[x], app[x])
      /\ p.state = peer[x].state /\ p.in_seq_reliable = peer[x].in_seq_reliable
      /\ p.in_seq_unreliable = peer[x].in_seq_unreliable
      /\ p.iss = peer[x].iss /\ p.rcvd = peer[x].rcvd
      /\ peer[x].issued <= p.issued
      /\ \A n \in net[x] : PacketOK(x, p, rp, app[x], n) /\ n.cmd # "CLOSE"
  BY <1>6 DEF LocalPeer
<1>8. ReceiverOK(x, p, rp)
  BY <1>2, <1>7 DEF ReceiverOK
<1>9. /\ SenderOK(x, g, rp, N2, app[x])
      /\ \A n \in Transmitted(p) : PacketOK(x, p, rp, app[x], n) /\ n.cmd # "CLOSE"
  BY <1>2, <1>7, <1>8, FlushOK DEF g
<1>10. \A n \in N2 : PacketOK(x, p, rp, app[x], n) /\ n.cmd # "CLOSE"
  BY <1>7, <1>9
<1> HIDE DEF N2
<1>11. g.rcvd <= h.rcvd /\ p.issued <= h.issued /\ p.rcvd <= h.rcvd
  BY <1>2, <1>3, <1>4, PeerFields
<1>12. SenderOK(x, h, rp, N2, app[x])
  BY <1>2, <1>4, <1>9, <1>11, SenderFrame
<1>13. HistoryOK(x, h, rp, app[x])
  BY <1>3, <1>4, <1>7 DEF HistoryOK
<1>14. \A n \in N2 : PacketOK(x, h, rp, app[x], n)
  BY <1>2, <1>3, <1>4, <1>10, <1>11, PacketFrame
<1>15. LocalPeer(x, h, N2, app[x])
  BY <1>3, <1>4, <1>7, <1>10, <1>12, <1>13, <1>14 DEF LocalPeer
<1>16. /\ net' = [net EXCEPT ![x] = N2] /\ app' = [app EXCEPT ![x] = app[x]]
       /\ UNCHANGED life /\ UNCHANGED log
  BY <1>1 DEF N2, IInv, TypeOK
<1> QED
  BY <1>5, <1>15, <1>16, LocalStep

LEMMA ServiceStep ==
  ASSUME IInv, NEW x \in Side, Service(x) \/ ServiceIdle(x)
  PROVE  SideInv(x)' /\ SideInv(Remote(x))'
<1> DEFINE p  == peer[x]
           rp == peer[Remote(x)]
           t  == Fired(x)
           g  == peer_ping(t)
<1>1. life[x] = "live"
  BY DEF Service, ServiceIdle
<1>2. /\ p \in rudp_peer /\ rp \in rudp_peer /\ HistoryOK(x, p, rp, app[x])
      /\ SenderOK(x, p, rp, net[x], app[x]) /\ rp.rcvd <= p.issued
      /\ \A n \in net[x] : PacketOK(x, p, rp, app[x], n) /\ n.cmd # "CLOSE"
  BY <1>1, LivePeer
<1>3. /\ t \in rudp_peer /\ t.sendq = p.sendq /\ t.issued = p.issued
      /\ t.iss = p.iss /\ t.rcvd = p.rcvd /\ t.state = p.state
      /\ t.out_seq_reliable = p.out_seq_reliable
      /\ t.out_seq_unreliable = p.out_seq_unreliable
      /\ t.out_seq_acked = p.out_seq_acked
      /\ t.in_seq_reliable = p.in_seq_reliable
      /\ t.in_seq_unreliable = p.in_seq_unreliable
  BY <1>2 DEF Fired, rudp_peer
<1> HIDE DEF t
<1>4. p.rcvd <= t.rcvd /\ p.issued <= t.issued
  BY <1>2, <1>3, PeerFields
<1>5. SenderOK(x, t, rp, net[x], app[x]) /\ HistoryOK(x, t, rp, app[x])
  BY <1>2, <1>3, <1>4, SenderFrame DEF HistoryOK
<1>6. \A n \in net[x] : PacketOK(x, t, rp, app[x], n)
  BY <1>2, <1>3, <1>4, PacketFrame
<1>7. CASE Service(x)
  <2>1. LocalPeer(x, t, net[x], app[x])
    BY <1>2, <1>3, <1>4, <1>5, <1>6 DEF LocalPeer
  <2> QED
    BY <1>1, <1>3, <1>7, <2>1, FlushStep DEF Service, t
<1>8. CASE ServiceIdle(x)
  <2>1. /\ g \in rudp_peer /\ g.iss = t.iss /\ g.issued = t.issued + 1
        /\ g.rcvd = t.rcvd /\ g.state = t.state
        /\ g.in_seq_reliable = t.in_seq_reliable
        /\ g.in_seq_unreliable = t.in_seq_unreliable
    BY <1>3, SendReliableType, SendReliableFields DEF peer_ping, Command
  <2>2. ASSUME g.issued <= MaxIssued[x]
        PROVE  LocalPeer(x, g, net[x], app[x])
    <3>1. t.issued + 1 <= MaxIssued[x] /\ rp.rcvd <= t.issued
      BY <1>2, <1>3, <2>1, <2>2
    <3>2. SenderOK(x, g, rp, net[x], app[x]) /\ HistoryOK(x, g, rp, app[x])
      BY <1>2, <1>3, <1>5, <1>6, <3>1, SendReliableOK DEF peer_ping
    <3> HIDE DEF g
    <3>3. t.issued <= g.issued /\ t.rcvd <= g.rcvd /\ p.issued <= g.issued
      BY <1>3, <2>1, PeerFields
    <3>4. \A n \in net[x] : PacketOK(x, g, rp, app[x], n)
      BY <1>2, <1>3, <1>6, <2>1, <3>3, PacketFrame
    <3> QED
      BY <1>2, <1>3, <2>1, <3>2, <3>3, <3>4 DEF LocalPeer
  <2>3. Flush(x, g)
    BY <1>8 DEF ServiceIdle, t
  <2> HIDE DEF g
  <2> QED
    BY <1>1, <2>1, <2>2, <2>3, FlushStep
<1> QED
  BY <1>7, <1>8

(* A peer that is dropped by its timer, or closed by its application. *)
LEMMA EndOfLifeStep ==
  ASSUME IInv, NEW x \in Side,
         \/ ServiceTimeout(x)
         \/ x = Client /\ ClientClose
         \/ x = Server /\ ServerClientClose
  PROVE  SideInv(x)' /\ SideInv(Remote(x))'
<1> DEFINE p  == peer[x]
           rp == peer[Remote(x)]
<1>1. life[x] = "live"
  BY DEF ServiceTimeout, ClientClose, ServerClientClose
<1>2. /\ p \in rudp_peer /\ rp \in rudp_peer
      /\ SenderOK(x, p, rp, net[x], app[x])
      /\ \A n \in net[x] : PacketOK(x, p, rp, app[x], n) /\ n.cmd # "CLOSE"
      /\ net \in [Side -> SUBSET Packet]
  BY <1>1, LivePeer DEF IInv, TypeOK
<1>3. CASE ServiceTimeout(x) \/ (x = Server /\ ServerClientClose)
  <2>1. PICK how \in {"lost", "closed"} : End(x, how)
    BY <1>3 DEF ServiceTimeout, ServerClientClose
  <2>2. net' = [net EXCEPT ![x] = net[x]] /\ app' = app /\ log' = log
    BY <1>2, <1>3 DEF ServiceTimeout, ServerClientClose
  <2>3. how \in {"lost", "left", "closed"} /\ how # "left"
    BY <2>1
  <2>4. \A n \in net[x] :
           /\ PacketOK(x, peer[x], peer[Remote(x)], app[x], n)
           /\ n.cmd = "CLOSE" => how = "closed" /\ n.pos = peer[x].issued
    BY <1>2
  <2> QED
    BY <1>1, <2>1, <2>2, <2>3, <2>4, EndStep
<1>4. CASE x = Client /\ ClientClose
  <2> DEFINE c  == ClosePacket(p)
             N2 == net[x] \cup {c}
             u  == Wrap(p.out_seq_unreliable + 1)
  <2>1. /\ End(x, "closed") /\ app' = app /\ log' = log
        /\ net' = [net EXCEPT ![x] = N2]
        /\ p.out_seq_unreliable < MaxUnreliable[x]
    BY <1>4 DEF ClientClose
  <2>2. u \in 1 .. MaxUnreliable[x] /\ u \in SeqNo
    <3>1. p.out_seq_unreliable \in Nat /\ p.out_seq_unreliable \in SeqNo
      BY <1>2, PeerFields, SeqNoInt
    <3>2. u = p.out_seq_unreliable + 1
      BY <2>1, <3>1, Bounds, WrapCases
    <3>3. u \in SeqNo
      BY <3>1, SuccType
    <3> QED
      BY <2>1, <3>1, <3>2, <3>3, Bounds
  <2>3. /\ c.cmd = "CLOSE" /\ c.rel = FALSE /\ c.ret = FALSE /\ c.ack = NoAck
        /\ c.seq = p.out_seq_reliable /\ c.useq = u /\ c.pos = p.issued
        /\ c \in Packet
    BY <1>2, <2>2, PeerFields DEF ClosePacket, Packet, Command
  <2> HIDE DEF c, u
  <2>4. PacketOK(x, p, rp, app[x], c)
    <3>1. p.issued <= p.issued
      BY <1>2, PeerFields
    <3> QED
      BY <1>2, <1>4, <2>2, <2>3, <3>1 DEF PacketOK, SenderOK
  <2>5. \A n \in N2 : /\ PacketOK(x, peer[x], peer[Remote(x)], app[x], n)
                      /\ n.cmd = "CLOSE" =>
                           "closed" = "closed" /\ n.pos = peer[x].issued
    BY <1>2, <2>3, <2>4
  <2>6. net[x] \subseteq N2
    OBVIOUS
  <2> HIDE DEF N2
  <2> QED
    BY <1>1, <2>1, <2>5, <2>6, EndStep
<1> QED
  BY <1>3, <1>4

-----------------------------------------------------------------------------
(* The invariant *)

(* The client has queued its CONN_REQ and the server has no peer. *)
LEMMA InvInit == Init => IInv
<1> SUFFICES ASSUME Init PROVE IInv
  OBVIOUS
<1>1. PICK r \in RandomSeq[Client], s \in RandomSeq[Server] :
         peer = [x \in Side |-> IF x = Client
                                  THEN rudp_peer_send_connect(rudp_peer_init(r))
                                  ELSE rudp_peer_reset(s)]
  BY DEF Init
<1> DEFINE i == rudp_peer_init(r)
           b == [i EXCEPT !.state = "CONNECTING"]
           p == rudp_peer_send_reliable(b, "CONN_REQ")
           sp == rudp_peer_reset(s)
           k == [cmd |-> "CONN_REQ", rel |-> TRUE, ret |-> FALSE,
                 ack |-> NoAck, seq |-> Wrap(b.out_seq_reliable + 1),
                 useq |-> 0, pos |-> b.issued + 1]
<1>2. /\ Client \in Side /\ Server \in Side /\ Client # Server
      /\ Remote(Client) = Server /\ Remote(Server) = Client
      /\ r \in SeqNo /\ s \in SeqNo /\ r \in Int
  BY <1>1, Bounds, SeqNoInt DEF Side, Client, Server, Remote
<1>3. sp \in rudp_peer /\ i \in rudp_peer
  BY <1>2, ResetType, ScheduleType DEF rudp_peer_init
<1>4. /\ peer[Client] = p /\ peer[Server] = sp
      /\ life[Client] = "live" /\ life[Server] = "unborn"
      /\ net[Client] = {} /\ net[Server] = {} /\ app[Client] = {}
      /\ app[Server] = {} /\ log[Client] = << >> /\ log[Server] = << >>
  BY <1>1, <1>2 DEF Init, rudp_peer_send_connect
<1>5. /\ sp.iss = s /\ sp.issued = 0 /\ sp.rcvd = 0
  BY <1>1, <1>2, <1>3, ResetOK
<1>6. /\ i.sendq = << >> /\ i.iss = r /\ i.issued = 0 /\ i.rcvd = 0
      /\ i.in_seq_reliable = Modulus - 1 /\ i.in_seq_unreliable = 0
      /\ i.out_seq_reliable = r /\ Acked(i) = -1
  BY <1>1, <1>2, <1>3, ResetOK
<1> HIDE DEF i, sp
<1>7. /\ b \in rudp_peer /\ b.sendq = << >> /\ b.iss = r /\ b.issued = 0
      /\ b.rcvd = 0 /\ b.state = "CONNECTING"
      /\ b.in_seq_reliable = Modulus - 1 /\ b.in_seq_unreliable = 0
      /\ b.out_seq_reliable = r /\ b.out_seq_acked = i.out_seq_acked
  BY <1>3, <1>6 DEF rudp_peer, peer_state
<1> HIDE DEF b
<1>8. Acked(b) = -1
  BY <1>6, <1>7 DEF Acked
<1>9. /\ p \in rudp_peer /\ p.sendq = Append(b.sendq, k)
      /\ p.out_seq_unreliable = 0 /\ p.state = "CONNECTING"
      /\ p.in_seq_reliable = Modulus - 1 /\ p.in_seq_unreliable = 0
      /\ p.out_seq_reliable = Wrap(r + 1) /\ p.out_seq_acked = b.out_seq_acked
      /\ p.iss = r /\ p.issued = 1 /\ p.rcvd = 0
  <2>1. "CONN_REQ" \in Command
    BY DEF Command
  <2>2. p \in rudp_peer
    BY <1>7, <2>1, SendReliableType
  <2>3. /\ p.sendq = Append(b.sendq, k)
        /\ p.out_seq_unreliable = 0 /\ p.state = b.state
        /\ p.in_seq_reliable = b.in_seq_reliable
        /\ p.in_seq_unreliable = b.in_seq_unreliable
        /\ p.out_seq_reliable = Wrap(b.out_seq_reliable + 1)
        /\ p.out_seq_acked = b.out_seq_acked
        /\ p.iss = b.iss /\ p.issued = b.issued + 1 /\ p.rcvd = b.rcvd
    BY <1>7, <2>1, SendReliableFields
  <2> HIDE DEF p, k
  <2> QED
    BY <1>7, <2>2, <2>3
<1>10. /\ k.cmd = "CONN_REQ" /\ k.rel = TRUE /\ k.ret = FALSE /\ k.ack = NoAck
       /\ k.seq = Wrap(r + 1) /\ k.useq = 0 /\ k.pos = 1 /\ k \in Packet
  <2>1. 0 \in SeqNo /\ Wrap(b.out_seq_reliable + 1) \in SeqNo /\ b.issued + 1 = 1
    BY <1>2, <1>7, SuccType, ModulusAssumption DEF SeqNo
  <2> QED
    BY <1>7, <2>1 DEF Packet, Command
<1> HIDE DEF k, p
<1>11. Len(p.sendq) = 1 /\ p.sendq[1] = k
  <2>1. b.sendq \in Seq(Packet) /\ Len(b.sendq) = 0
    BY <1>7, PeerFields
  <2> QED
    BY <1>9, <1>10, <2>1, AppendProperties
<1>12. Acked(p) = -1
  BY <1>7, <1>8, <1>9 DEF Acked
<1>13. PacketOK(Client, p, sp, {}, k)
  BY <1>2, <1>9, <1>10 DEF PacketOK
<1>14. QueueOK(Client, p, sp, {}, {})
  <2>1. \A n \in 1 .. Len(p.sendq) : n = 1 /\ p.sendq[n] = k
    BY <1>11
  <2>2. \A n \in 1 .. p.issued : n = 1
    BY <1>9
  <2>3. 1 \in 1 .. Len(p.sendq)
    BY <1>11
  <2>4. \A n \in 1 .. p.issued : n > Acked(p) =>
           \E j \in 1 .. Len(p.sendq) : p.sendq[j].rel /\ p.sendq[j].pos = n
    BY <1>10, <2>1, <2>2, <2>3
  <2>5. \A m, n \in 1 .. Len(p.sendq) : ~ (m < n)
    BY <2>1
  <2>6. sp.rcvd < k.pos /\ k.pos > Acked(p) /\ k.cmd # "CLOSE"
    BY <1>5, <1>10, <1>12
  <2> QED
    BY <1>13, <2>1, <2>4, <2>5, <2>6 DEF QueueOK
<1>15. SenderOK(Client, p, sp, {}, {})
  <2>1. 0 <= MaxUnreliable[Client]
    BY <1>2, Bounds
  <2> QED
    BY <1>5, <1>9, <1>12, <1>14, <2>1 DEF SenderOK
<1>16. ReceiverOK(Client, p, sp)
  BY <1>9 DEF ReceiverOK
<1>17. HistoryOK(Client, p, sp, {}) /\ HistoryOK(Server, sp, p, {})
  <2>1. 1 <= MaxIssued[Client] /\ 0 <= MaxIssued[Server]
    BY <1>2, Bounds, LinkAssumption
  <2> QED
    BY <1>1, <1>2, <1>5, <1>9, <2>1 DEF HistoryOK
<1>18. /\ LogOK(Client, p, {}, << >>) /\ LogOK(Server, sp, {}, << >>)
       /\ LogInStep(p, << >>)
  BY DEF LogOK, LogInStep
<1>19. SideInv(Client)
  BY <1>2, <1>4, <1>15, <1>16, <1>17, <1>18 DEF SideInv
<1>20. sp = rudp_peer_reset(sp.iss)
  BY <1>5 DEF sp
<1>21. SideInv(Server)
  BY <1>2, <1>4, <1>17, <1>18, <1>20 DEF SideInv
<1> QED
  BY <1>19, <1>21, TypeInit DEF IInv, Side

LEMMA InvStep ==
  ASSUME NoSentinelClash, IInv, [Next]_vars
  PROVE  IInv'
<1>1. ASSUME NEW x \in Side, SideInv(x)', SideInv(Remote(x))'
      PROVE  \A y \in Side : SideInv(y)'
  <2>1. \A y \in Side : y = x \/ y = Remote(x)
    BY DEF Side, Remote
  <2> QED
    BY <1>1, <2>1
<1>2. TypeOK'
  BY TypeStep DEF IInv
<1>3. Client \in Side /\ Server \in Side
      /\ Remote(Server) = Client /\ Remote(Client) = Server
  BY DEF Side, Remote, Client, Server
<1>4. ASSUME NEW x \in Side, SendReliable(x) PROVE \A y \in Side : SideInv(y)'
  BY <1>1, <1>4, SendReliableStep
<1>5. ASSUME NEW x \in Side, SendUnreliable(x) PROVE \A y \in Side : SideInv(y)'
  BY <1>1, <1>5, SendUnreliableStep
<1>6. ASSUME NEW x \in Side, Service(x) \/ ServiceIdle(x)
      PROVE  \A y \in Side : SideInv(y)'
  BY <1>1, <1>6, ServiceStep
<1>7. ASSUME NEW x \in Side, ServiceTimeout(x) PROVE \A y \in Side : SideInv(y)'
  BY <1>1, <1>7, EndOfLifeStep
<1>8. ASSUME NEW x \in Side, NEW pc \in net[Remote(x)], Receive(x, pc)
      PROVE  \A y \in Side : SideInv(y)'
  BY <1>1, <1>8, ReceiveStep
<1>9. ASSUME NEW pc \in net[Client], Accept(pc)
      PROVE  \A y \in Side : SideInv(y)'
  BY <1>1, <1>3, <1>9, AcceptStep
<1>10. CASE ClientClose
  <2>1. SideInv(Client)' /\ SideInv(Remote(Client))'
    BY <1>3, <1>10, EndOfLifeStep
  <2> QED
    BY <1>1, <1>2, <1>3, <2>1 DEF IInv
<1>11. CASE ServerClientClose
  <2>1. SideInv(Server)' /\ SideInv(Remote(Server))'
    BY <1>3, <1>11, EndOfLifeStep
  <2> QED
    BY <1>1, <1>2, <1>3, <2>1 DEF IInv
<1>12. CASE UNCHANGED vars
  <2>1. ASSUME NEW y \in Side PROVE SideInv(y)'
    <3>1. SideInv(y) /\ peer' = peer /\ life' = life /\ net' = net
          /\ app' = app /\ log' = log
      BY <1>12 DEF vars, IInv
    <3> QED
      BY <3>1 DEF SideInv
  <2> QED
    BY <1>2, <2>1 DEF IInv
<1> QED
  BY <1>2, <1>4, <1>5, <1>6, <1>7, <1>8, <1>9, <1>10, <1>11, <1>12
     DEF Next, IInv

(* IInv holds in every reachable state, for every choice of the bounds and *)
(* of the modulus, unless a sequence number can be mistaken for the        *)
(* sentinel of rudp_peer_reset.                                            *)
THEOREM Inductive ==
  ASSUME NoSentinelClash
  PROVE  Spec => []IInv
<1>1. Init => IInv
  BY InvInit
<1>2. IInv /\ [Next]_vars => IInv'
  BY InvStep
<1> QED
  BY <1>1, <1>2, PTL DEF Spec

(* Deliveries keep the order in which the payloads were sent, and none is  *)
(* made twice (peer_analyse_reliable, peer_analyse_unreliable).            *)
THEOREM DeliveryInOrder ==
  ASSUME NoSentinelClash
  PROVE  Spec => []InOrder
<1>1. IInv => InOrder
  BY DEF IInv, SideInv, LogOK, InOrder
<1> QED
  BY <1>1, Inductive, PTL

(* In a reachable state, what is delivered on a side is a subset of what   *)
(* was sent, with all that the peer accepted, and nothing beyond it.       *)
LEMMA DeliveredIsAccepted ==
  ASSUME IInv, NEW x \in Side
  PROVE  /\ Delivered(x) = {a \in app[Remote(x)] : a <= peer[x].rcvd}
         /\ app[x] \subseteq Nat /\ app[Remote(x)] \subseteq Nat
         /\ peer[x].rcvd \in Nat
<1>1. /\ app[x] \subseteq Nat /\ app[Remote(x)] \subseteq Nat
      /\ peer[x].rcvd \in Nat /\ log[x] \in Seq(Delivery)
  BY RemoteFacts, PeerFields DEF IInv, TypeOK
<1>2. LogOK(x, peer[x], app[Remote(x)], log[x])
  BY DEF IInv, SideInv
<1>3. \A d \in Delivered(x) : d \in app[Remote(x)] /\ d <= peer[x].rcvd
  BY <1>2 DEF LogOK, Delivered
<1>4. \A a \in app[Remote(x)] : a <= peer[x].rcvd => a \in Delivered(x)
  BY <1>2 DEF LogOK, Delivered
<1> QED
  BY <1>1, <1>3, <1>4

(* What was delivered is a prefix of what the remote application sent.     *)
THEOREM DeliveryNoGap ==
  ASSUME NoSentinelClash
  PROVE  Spec => []NoGap
<1>1. IInv => NoGap
  <2> SUFFICES ASSUME IInv, NEW x \in Side, NEW d \in Delivered(x)
               PROVE  /\ d \in app[Remote(x)]
                      /\ \A a \in app[Remote(x)] : a < d => a \in Delivered(x)
    BY DEF NoGap
  <2>1. /\ Delivered(x) = {a \in app[Remote(x)] : a <= peer[x].rcvd}
        /\ app[Remote(x)] \subseteq Nat /\ peer[x].rcvd \in Nat
    BY DeliveredIsAccepted
  <2> QED
    BY <2>1
<1> QED
  BY <1>1, Inductive, PTL

(* A reliable payload leaves the send queue of a live peer only after it   *)
(* was handed to the remote application (peer_handle_ack).                 *)
THEOREM DeliveryNothingLost ==
  ASSUME NoSentinelClash
  PROVE  Spec => []NothingLost
<1>1. IInv => NothingLost
  <2> SUFFICES ASSUME IInv, NEW x \in Side, life[x] = "live", NEW a \in app[x]
               PROVE  \/ a \in Delivered(Remote(x))
                      \/ \E i \in DOMAIN peer[x].sendq :
                             peer[x].sendq[i].rel /\ peer[x].sendq[i].pos = a
    BY DEF NothingLost
  <2>1. /\ peer[x] \in rudp_peer /\ peer[Remote(x)] \in rudp_peer
        /\ HistoryOK(x, peer[x], peer[Remote(x)], app[x])
        /\ SenderOK(x, peer[x], peer[Remote(x)], net[x], app[x])
    BY LivePeer
  <2>2. /\ Remote(x) \in Side /\ Remote(Remote(x)) = x
        /\ DOMAIN peer[x].sendq = 1 .. Len(peer[x].sendq)
        /\ Acked(peer[x]) \in Int /\ peer[Remote(x)].rcvd \in Nat
        /\ peer[x].issued \in Nat
    <3>1. /\ peer[x].sendq \in Seq(Packet) /\ peer[Remote(x)].rcvd \in Nat
          /\ peer[x].issued \in Nat
      BY <2>1, PeerFields
    <3>2. DOMAIN peer[x].sendq = 1 .. Len(peer[x].sendq)
      BY <3>1
    <3>3. Acked(peer[x]) \in Int
      BY <2>1, PeerFields, DeltaType, SeqNoInt DEF Acked
    <3> QED
      BY <3>1, <3>2, <3>3, RemoteFacts
  <2>3. a \in 1 .. peer[x].issued /\ Acked(peer[x]) <= peer[Remote(x)].rcvd
    BY <2>1 DEF HistoryOK, SenderOK
  <2>4. CASE a > Acked(peer[x])
    BY <2>1, <2>2, <2>3, <2>4 DEF SenderOK, QueueOK
  <2>5. CASE ~ (a > Acked(peer[x]))
    <3>1. a <= peer[Remote(x)].rcvd
      BY <2>2, <2>3, <2>5
    <3> QED
      BY <2>2, <3>1, DeliveredIsAccepted
  <2> QED
    BY <2>4, <2>5
<1> QED
  BY <1>1, Inductive, PTL

(* The server honours a CLOSE only when it has delivered every reliable    *)
(* payload of the client, although the CLOSE overtakes the queue           *)
(* (rudp_peer_send_close_noqueue).                                         *)
THEOREM DeliveryCloseIsLast ==
  ASSUME NoSentinelClash
  PROVE  Spec => []CloseIsLast
<1>1. IInv => CloseIsLast
  <2> SUFFICES ASSUME IInv, life[Server] = "left"
               PROVE  app[Client] \subseteq Delivered(Server)
    BY DEF CloseIsLast
  <2>1. /\ Server \in Side /\ Client \in Side /\ Remote(Server) = Client
        /\ Remote(Client) = Server
    BY DEF Side, Remote, Server, Client
  <2>2. peer[Server].rcvd = peer[Client].issued
        /\ app[Client] \subseteq 1 .. peer[Client].issued
    BY <2>1 DEF IInv, SideInv, HistoryOK
  <2>3. /\ Delivered(Server) = {a \in app[Client] : a <= peer[Server].rcvd}
        /\ app[Client] \subseteq Nat /\ peer[Server].rcvd \in Nat
    BY <2>1, DeliveredIsAccepted
  <2> QED
    BY <2>2, <2>3
<1> QED
  BY <1>1, Inductive, PTL

(* The handshake leaves both ends in step: a running peer's 16-bit         *)
(* in_seq_reliable is the number of the last reliable packet it accepted.  *)
THEOREM HandshakeInStep ==
  ASSUME NoSentinelClash
  PROVE  Spec => []InStep
<1>1. IInv => InStep
  <2> SUFFICES ASSUME IInv, NEW x \in Side, life[x] = "live",
                      peer[x].state = "RUN"
               PROVE  peer[x].in_seq_reliable =
                         Wrap(peer[Remote(x)].iss + peer[x].rcvd)
    BY DEF InStep
  <2>1. ReceiverOK(x, peer[x], peer[Remote(x)])
    BY LivePeer
  <2> QED
    BY <2>1 DEF ReceiverOK
<1> QED
  BY <1>1, Inductive, PTL

(* In the arithmetic of the 16-bit counters too, out_seq_acked never runs  *)
(* ahead of what the remote has accepted (peer_handle_ack).                *)
THEOREM AckedWasAccepted ==
  ASSUME NoSentinelClash
  PROVE  Spec => []AckNeverAhead
<1>1. IInv => AckNeverAhead
  <2> SUFFICES ASSUME IInv, NEW x \in Side, life[x] = "live"
               PROVE  Delta(peer[x].out_seq_acked,
                            Wrap(peer[x].iss + peer[Remote(x)].rcvd)) <= 0
    BY DEF AckNeverAhead
  <2> DEFINE p == peer[x]
             k == Acked(p)
             r == peer[Remote(x)].rcvd
  <2>1. /\ p \in rudp_peer /\ peer[Remote(x)] \in rudp_peer
        /\ HistoryOK(x, p, peer[Remote(x)], app[x])
        /\ SenderOK(x, p, peer[Remote(x)], net[x], app[x]) /\ r <= p.issued
    BY LivePeer
  <2>2. /\ p.iss \in SeqNo /\ p.out_seq_acked \in SeqNo /\ r \in Nat
        /\ p.issued \in Nat /\ k \in Int
    BY <2>1, PeerFields, DeltaType, SeqNoInt DEF Acked
  <2>3. -1 <= k /\ k <= r /\ p.issued <= MaxIssued[x]
    BY <2>1 DEF SenderOK, HistoryOK
  <2>4. 2 * (r + 2) < Modulus
    BY <2>1, <2>2, <2>3, Bounds
  <2>5. p.out_seq_acked = Wrap(p.iss + k)
    BY <2>2, WrapOfDelta DEF Acked
  <2> HIDE DEF k, r
  <2>6. /\ 2 * (k - r) < Modulus /\ - Modulus <= 2 * (k - r)
        /\ k - r <= 0 /\ r \in Int /\ -1 <= r
        /\ 2 * k < Modulus /\ 2 * r < Modulus
    BY <2>2, <2>3, <2>4, ModulusAssumption
  <2>7. Delta(Wrap(p.iss + k), Wrap(p.iss + r)) = k - r
    BY <2>2, <2>3, <2>6, DeltaOfWraps
  <2> QED
    BY <2>5, <2>6, <2>7 DEF r
<1> QED
  BY <1>1, Inductive, PTL

(* The send queue is the window after out_seq_acked, its transmitted       *)
(* packets first (peer_send_queue, peer_handle_ack).                       *)
THEOREM QueueIsWindow ==
  ASSUME NoSentinelClash
  PROVE  Spec => []SendqIsWindow
<1>1. IInv => SendqIsWindow
  <2> SUFFICES ASSUME IInv, NEW x \in Side, life[x] = "live"
               PROVE  LET q == peer[x].sendq IN
                      /\ {q[i].pos : i \in {j \in DOMAIN q : q[j].rel}} =
                            {k \in 1 .. peer[x].issued :
                               Delta(Wrap(peer[x].iss + k),
                                     peer[x].out_seq_acked) > 0}
                      /\ \A i, j \in DOMAIN q :
                            i < j /\ q[j].ret => q[i].rel /\ q[i].ret
    BY DEF SendqIsWindow
  <2> DEFINE p == peer[x]
             q == p.sendq
             a == Acked(p)
  <2>1. /\ p \in rudp_peer /\ peer[Remote(x)] \in rudp_peer
        /\ HistoryOK(x, p, peer[Remote(x)], app[x])
        /\ QueueOK(x, p, peer[Remote(x)], net[x], app[x])
        /\ -1 <= a /\ a <= peer[Remote(x)].rcvd
        /\ peer[Remote(x)].rcvd <= p.issued
    BY LivePeer DEF SenderOK
  <2>2. /\ p.iss \in SeqNo /\ p.out_seq_acked \in SeqNo
        /\ peer[Remote(x)].rcvd \in Nat
        /\ p.issued \in Nat /\ a \in Int /\ q \in Seq(Packet)
    BY <2>1, PeerFields, DeltaType, SeqNoInt DEF Acked
  <2>3. DOMAIN q = 1 .. Len(q)
    BY <2>2
  <2>4. p.issued <= MaxIssued[x] /\ 2 * (p.issued + 2) < Modulus
    BY <2>1, <2>2, Bounds DEF HistoryOK
  <2>5. p.out_seq_acked = Wrap(p.iss + a)
    BY <2>2, WrapOfDelta DEF Acked
  <2> HIDE DEF a, p
  <2>6. ASSUME NEW k \in 1 .. p.issued
        PROVE  Delta(Wrap(p.iss + k), p.out_seq_acked) = k - a
    <3>1. /\ 2 * (k - a) < Modulus /\ - Modulus <= 2 * (k - a)
          /\ k \in Int /\ -1 <= k /\ 2 * k < Modulus /\ 2 * a < Modulus
          /\ -1 <= a
      BY <2>1, <2>2, <2>4, ModulusAssumption
    <3>2. Delta(Wrap(p.iss + k), Wrap(p.iss + a)) = k - a
      BY <2>2, <3>1, DeltaOfWraps
    <3> QED
      BY <2>5, <3>2
  <2>7. \A i \in DOMAIN q : q[i].rel => q[i].pos \in 1 .. p.issued /\ q[i].pos > a
    <3>1. \A i \in DOMAIN q : q[i] \in Packet /\ q[i].pos <= p.issued
             /\ (q[i].rel => q[i].pos >= 1 /\ q[i].pos > a)
      BY <2>1, <2>3 DEF QueueOK, PacketOK, a
    <3>2. \A n \in Packet : n.pos \in Nat
      BY DEF Packet
    <3> QED
      BY <2>2, <3>1, <3>2
  <2>8. \A k \in 1 .. p.issued : k > a =>
           \E i \in DOMAIN q : q[i].rel /\ q[i].pos = k
    BY <2>1, <2>3 DEF QueueOK, a
  <2>9. \A i, j \in DOMAIN q : i < j /\ q[j].ret => q[i].rel /\ q[i].ret
    BY <2>1, <2>3 DEF QueueOK
  <2>10. \A k \in 1 .. p.issued :
           Delta(Wrap(p.iss + k), p.out_seq_acked) > 0 <=> k > a
    BY <2>2, <2>6
  <2> HIDE DEF p, q
  <2>11. {q[i].pos : i \in {j \in DOMAIN q : q[j].rel}} =
            {k \in 1 .. p.issued : Delta(Wrap(p.iss + k), p.out_seq_acked) > 0}
    BY <2>7, <2>8, <2>10
  <2> QED
    BY <2>9, <2>11 DEF p, q
<1> QED
  BY <1>1, Inductive, PTL

-----------------------------------------------------------------------------
(***************************************************************************)
(* A session implements the channel of RudpChannel, under NoSentinelClash. *)
(*                                                                         *)
(* The invariant holds before and after a step, so the log after it tells  *)
(* what the step delivered: a delivery fits because the longer log is in   *)
(* order and without a gap.                                                *)
(***************************************************************************)

(* The instance speaks of the same two sides. *)
LEMMA ChannelSides ==
  /\ Channel!Side = Side /\ Client \in Side /\ Server \in Side
  /\ Remote(Server) = Client /\ Client # Server
  /\ \A x \in Side : Channel!Other(x) = Remote(x)
  BY DEF Channel!Side, Side, Remote, Channel!Other, Client, Server

(* The numbers of x are numbers of the channel. *)
LEMMA IssuedIsPos ==
  ASSUME TypeOK, NEW x \in Side, peer[x].issued <= MaxIssued[x],
         NEW k \in Nat, k <= peer[x].issued
  PROVE  k \in 0 .. MaxIssued[Client] + MaxIssued[Server]
<1>1. MaxIssued[Client] \in Nat /\ MaxIssued[Server] \in Nat
  BY LinkAssumption, ChannelSides
<1>2. peer[x].issued \in Nat
  BY PeerFields DEF TypeOK
<1>3. x = Client \/ x = Server
  BY DEF Side
<1> QED
  BY <1>1, <1>2, <1>3

(* A reliable payload that was accepted is in the log. *)
LEMMA AcceptedIsLogged ==
  ASSUME NEW x, NEW p, NEW A, NEW L \in Seq(Delivery), LogOK(x, p, A, L),
         NEW a \in A, a <= p.rcvd
  PROVE  \E i \in DOMAIN L : L[i] = [pos |-> a, useq |-> 0]
<1>1. PICK i \in DOMAIN L : L[i].useq = 0 /\ L[i].pos = a
  BY DEF LogOK
<1>2. L[i] \in Delivery
  OBVIOUS
<1> QED
  BY <1>1, <1>2 DEF Delivery

(* What a submission looks like: the next number, after all before it. *)
LEMMA SubmittedNext ==
  ASSUME IInv, IInv', NEW x \in Side, NEW k, k = peer[x].issued + 1,
         app' = [app EXCEPT ![x] = @ \cup {k}]
  PROVE  Channel!Submitted(x)
<1>1. /\ TypeOK /\ TypeOK' /\ HistoryOK(x, peer[x], peer[Remote(x)], app[x])
      /\ HistoryOK(x, peer[x], peer[Remote(x)], app[x])'
  BY DEF IInv, SideInv
<1>2. peer[x].issued \in Nat /\ peer'[x].issued \in Nat
  BY <1>1, PeerFields DEF TypeOK
<1>3. \A a \in app[x] : a < k
  BY <1>1, <1>2 DEF HistoryOK
<1>4. k \in app'[x]
  BY <1>1 DEF TypeOK
<1>5. k \in Nat /\ k <= peer'[x].issued /\ peer'[x].issued <= MaxIssued[x]
  BY <1>1, <1>2, <1>4 DEF HistoryOK
<1>6. k \in 0 .. MaxIssued[Client] + MaxIssued[Server]
  <2>1. MaxIssued[Client] \in Nat /\ MaxIssued[Server] \in Nat
    BY LinkAssumption, ChannelSides
  <2>2. x = Client \/ x = Server
    BY DEF Side
  <2> QED
    BY <1>2, <1>5, <2>1, <2>2
<1> QED
  BY <1>3, <1>6 DEF Channel!Submitted

(* The log of x grows by d in a step that leaves the remote's payloads     *)
(* alone: d is in order and nothing before it is missing.                  *)
LEMMA DeliveryFits ==
  ASSUME IInv, IInv', NEW x \in Side, NEW d \in Delivery,
         log' = [log EXCEPT ![x] = Append(@, d)],
         app'[Remote(x)] = app[Remote(x)]
  PROVE  Channel!Fits(x, d)
<1> DEFINE n == Len(log[x]) + 1
           L == log'[x]
<1>1. /\ log[x] \in Seq(Delivery) /\ log'[x] = Append(log[x], d)
  BY DEF IInv, TypeOK
<1>2. /\ Len(log[x]) \in Nat /\ DOMAIN log[x] = 1 .. Len(log[x])
      /\ DOMAIN L = 1 .. n /\ L[n] = d
      /\ \A i \in DOMAIN log[x] : L[i] = log[x][i]
  BY <1>1
<1>3. /\ LogOK(x, peer'[x], app[Remote(x)], L)
      /\ app[Remote(x)] \subseteq Nat /\ peer'[x].rcvd \in Nat
      /\ d.pos \in Nat /\ d.useq \in Nat
  <2>1. LogOK(x, peer'[x], app'[Remote(x)], log'[x])
    BY DEF IInv, SideInv
  <2>2. app[Remote(x)] \subseteq Nat /\ peer'[x] \in rudp_peer
    BY RemoteFacts DEF IInv, TypeOK
  <2> QED
    BY <2>1, <2>2, PeerFields, SeqNoInt DEF Delivery
<1> HIDE DEF L, n
<1>4. n \in DOMAIN L /\ \A i \in DOMAIN log[x] : i \in DOMAIN L /\ i < n
  BY <1>2 DEF n
<1>5. \A i \in DOMAIN log[x] : Channel!Earlier(log[x][i], d)
  BY <1>2, <1>3, <1>4 DEF LogOK, Before, Channel!Earlier
<1>6. ASSUME NEW a \in app[Remote(x)],
             Channel!Earlier([pos |-> a, useq |-> 0], d)
      PROVE  Channel!Has(x, a)
  <2>1. a \in Nat /\ a <= d.pos /\ d # [pos |-> a, useq |-> 0]
    BY <1>3, <1>6 DEF Channel!Earlier
  <2>2. a <= peer'[x].rcvd
    BY <1>2, <1>3, <1>4, <2>1 DEF LogOK
  <2>3. L \in Seq(Delivery)
    BY <1>1 DEF L
  <2>4. \E i \in DOMAIN L : L[i] = [pos |-> a, useq |-> 0]
    BY <1>3, <2>2, <2>3, AcceptedIsLogged
  <2>5. PICK i \in DOMAIN L : L[i] = [pos |-> a, useq |-> 0]
    BY <2>4
  <2>6. i \in DOMAIN log[x]
    BY <1>2, <2>1, <2>5 DEF n
  <2> QED
    BY <1>2, <2>5, <2>6 DEF Channel!Has
<1>7. d.useq = 0 => d.pos \in app[Remote(x)]
  BY <1>2, <1>3, <1>4 DEF LogOK
<1> QED
  BY <1>5, <1>6, <1>7, ChannelSides DEF Channel!Fits

(* A packet leaves the log, the life and the submissions alone unless it   *)
(* is a payload or a CLOSE.                                                *)
LEMMA IncomingCases ==
  ASSUME NEW x, NEW p, NEW pc, Incoming(x, p, pc)
  PROVE  \/ life' = [life EXCEPT ![x] = "live"] /\ app' = app /\ log' = log
         \/ RecvClose(x, p, pc)
         \/ RecvApp(x, p, pc)
  BY DEF Incoming, RecvConnReq, RecvConnRsp, RecvUnsequenced,
         RecvRetransmitted, RecvPing, RecvNothing, RecvAppNotRunning, Settle

(* A payload received is a delivery, with or without an answer. *)
LEMMA RecvAppDelivers ==
  ASSUME IInv, IInv', NEW x \in Side, life[x] = "live",
         NEW pc \in net[Remote(x)], RecvApp(x, peer[x], pc)
  PROVE  Channel!Deliver(x)
<1> DEFINE d == [pos |-> pc.pos, useq |-> pc.useq]
           q == Sequenced(AckHandled(peer[x], pc), pc)
<1>1. /\ log' = [log EXCEPT ![x] = Append(@, d)]
      /\ life' = [life EXCEPT ![x] = "live"]
      /\ \/ UNCHANGED app
         \/ app' = [app EXCEPT ![x] = @ \cup {q.issued + 1}]
  BY DEF RecvApp, Settle
<1>2. /\ TypeOK /\ Remote(x) \in Side /\ Remote(x) # x /\ peer[x] \in rudp_peer
      /\ HistoryOK(Remote(x), peer[Remote(x)], peer[x], app[Remote(x)])
      /\ PacketOK(Remote(x), peer[Remote(x)], peer[x], app[Remote(x)], pc)
  BY RemoteFacts DEF IInv, SideInv, TypeOK
<1>3. pc \in Packet /\ pc.pos \in Nat /\ pc.useq \in SeqNo
      /\ pc.pos <= peer[Remote(x)].issued
  BY <1>2 DEF PacketOK, Packet
<1>4. q.issued = peer[x].issued
  <2>1. /\ AckHandled(peer[x], pc) \in rudp_peer
        /\ AckHandled(peer[x], pc).issued = peer[x].issued
    BY <1>2, <1>3, AckHandledFields, AckHandledType
  <2> QED
    BY <2>1 DEF Sequenced, rudp_peer
<1>5. pc.pos \in 0 .. MaxIssued[Client] + MaxIssued[Server]
  BY <1>2, <1>3, IssuedIsPos DEF HistoryOK
<1> HIDE DEF q
<1>6. d \in Delivery
      /\ d \in [pos : 0 .. MaxIssued[Client] + MaxIssued[Server], useq : SeqNo]
  BY <1>3, <1>5 DEF Delivery
<1>7. UNCHANGED app \/ Channel!Submitted(x)
  BY <1>1, <1>4, SubmittedNext
<1>8. app'[Remote(x)] = app[Remote(x)]
  BY <1>1, <1>2 DEF TypeOK
<1> HIDE DEF d
<1>9. Channel!Fits(x, d)
  BY <1>1, <1>6, <1>8, DeliveryFits
<1>10. life' = life
  BY <1>1, <1>2 DEF TypeOK
<1>11. log'[x] # log[x]
  <2>1. log[x] \in Seq(Delivery) /\ log'[x] = Append(log[x], d)
    BY <1>1, <1>2 DEF TypeOK
  <2>2. Len(log'[x]) = Len(log[x]) + 1 /\ Len(log[x]) \in Nat
    BY <1>6, <2>1
  <2> QED
    BY <2>2
<1> QED
  BY <1>1, <1>6, <1>7, <1>9, <1>10, <1>11 DEF Channel!Deliver

(* The CLOSE that the server honours finds everything delivered. *)
LEMMA RecvCloseEnds ==
  ASSUME IInv, IInv', NEW x \in Side, life[x] = "live",
         NEW pc, RecvClose(x, peer[x], pc)
  PROVE  Channel!End(x)
<1>1. /\ x = Server /\ life' = [life EXCEPT ![x] = "left"]
      /\ app' = app /\ log' = log
  BY DEF RecvClose, End
<1>2. life'[Server] = "left" /\ life'[Client] = life[Client]
  BY <1>1, ChannelSides DEF IInv, TypeOK
<1>3. /\ peer'[Server].rcvd = peer'[Client].issued /\ life'[Client] = "closed"
      /\ app'[Client] \subseteq 1 .. peer'[Client].issued
      /\ peer'[Client].issued \in Nat
  <2>1. peer'[Client] \in rudp_peer
    BY ChannelSides DEF IInv, TypeOK
  <2> QED
    BY <1>2, <2>1, ChannelSides, PeerFields DEF IInv, SideInv, HistoryOK
<1>4. ASSUME NEW a \in app[Client] PROVE Channel!Has(Server, a)
  <2>1. LogOK(Server, peer'[Server], app[Client], log[Server])
    BY <1>1, ChannelSides DEF IInv, SideInv
  <2>2. a <= peer'[Server].rcvd
    BY <1>1, <1>3
  <2>3. log[Server] \in Seq(Delivery)
    BY ChannelSides DEF IInv, TypeOK
  <2> QED
    BY <2>1, <2>2, <2>3, AcceptedIsLogged DEF Channel!Has
<1> QED
  BY <1>1, <1>2, <1>3, <1>4 DEF Channel!End

(* Every step of a session is a step of the channel or none. *)
LEMMA ChannelStep ==
  ASSUME IInv, IInv', [Next]_vars
  PROVE  [Channel!Next]_(Channel!vars)
<1> USE ChannelSides
<1>1. ASSUME NEW x \in Side, SendReliable(x) PROVE Channel!Next
  <2>1. /\ life[x] = "live" /\ UNCHANGED <<life, log>>
        /\ app' = [app EXCEPT ![x] = @ \cup {peer[x].issued + 1}]
    BY <1>1 DEF SendReliable, MaySend
  <2>2. Channel!Submit(x)
    BY <2>1, SubmittedNext DEF Channel!Submit
  <2> QED
    BY <2>2 DEF Channel!Next
<1>2. ASSUME NEW x \in Side, SendUnreliable(x) \/ Service(x) \/ ServiceIdle(x)
      PROVE  UNCHANGED Channel!vars
  BY <1>2 DEF SendUnreliable, Service, ServiceIdle, Flush, Channel!vars
<1>3. ASSUME NEW x \in Side, NEW how \in {"lost", "closed"}, life[x] = "live",
             End(x, how), UNCHANGED <<app, log>>
      PROVE  Channel!Next
  <2>1. Channel!End(x)
    BY <1>3 DEF End, Channel!End
  <2> QED
    BY <2>1 DEF Channel!Next
<1>4. ASSUME NEW x \in Side, ServiceTimeout(x) PROVE Channel!Next
  BY <1>3, <1>4 DEF ServiceTimeout
<1>5. CASE ClientClose
  BY <1>3, <1>5 DEF ClientClose
<1>6. CASE ServerClientClose
  BY <1>3, <1>6 DEF ServerClientClose
<1>7. ASSUME NEW x \in Side, NEW pc \in net[Remote(x)], Receive(x, pc)
      PROVE  Channel!Next \/ UNCHANGED Channel!vars
  <2>1. life[x] = "live" /\ Incoming(x, peer[x], pc)
    BY <1>7 DEF Receive
  <2>2. CASE RecvClose(x, peer[x], pc)
    BY <2>1, <2>2, RecvCloseEnds DEF Channel!Next
  <2>3. CASE RecvApp(x, peer[x], pc)
    BY <2>1, <2>3, RecvAppDelivers DEF Channel!Next
  <2>4. CASE /\ life' = [life EXCEPT ![x] = "live"]
             /\ app' = app /\ log' = log
    <3>1. life' = life
      BY <2>1, <2>4 DEF IInv, TypeOK
    <3> QED
      BY <2>4, <3>1 DEF Channel!vars
  <2> QED
    BY <2>1, <2>2, <2>3, <2>4, IncomingCases
<1>8. ASSUME NEW pc \in net[Client], Accept(pc) PROVE Channel!Next
  <2> DEFINE p == peer_service_schedule(peer[Server])
  <2>1. life[Server] = "unborn" /\ pc.cmd = "CONN_REQ" /\ Incoming(Server, p, pc)
    BY <1>8 DEF Accept
  <2>2. ~ RecvClose(Server, p, pc) /\ ~ RecvApp(Server, p, pc)
    BY <2>1 DEF RecvClose, RecvApp
  <2> HIDE DEF p
  <2>3. life' = [life EXCEPT ![Server] = "live"] /\ app' = app /\ log' = log
    BY <2>1, <2>2, IncomingCases
  <2> QED
    BY <2>1, <2>3 DEF Channel!Next, Channel!Open
<1>9. CASE UNCHANGED vars
  BY <1>9 DEF vars, Channel!vars
<1> QED
  BY <1>1, <1>2, <1>4, <1>5, <1>6, <1>7, <1>8, <1>9 DEF Next

(* Whatever the network loses, repeats or delays, a session is a channel   *)
(* to the two applications: every behaviour of the peers is one of         *)
(* RudpChannel, unless a sequence number can be mistaken for the sentinel  *)
(* of rudp_peer_reset.                                                     *)
THEOREM SessionIsChannel ==
  ASSUME NoSentinelClash
  PROVE  Spec => ImplementsChannel
<1>1. Init => Channel!Init
  BY ChannelSides DEF Init, Channel!Init
<1>2. IInv /\ IInv' /\ [Next]_vars => [Channel!Next]_(Channel!vars)
  BY ChannelStep
<1> QED
  BY <1>1, <1>2, Inductive, PTL DEF Spec, ImplementsChannel, Channel!Spec

=============================================================================
