------------------------------ MODULE RudpPeer ------------------------------
(***************************************************************************)
(* One end of a connection: struct rudp_peer and the functions of          *)
(* src/src/peer.c on it, without time (the RTT estimator and the timer's   *)
(* delay).  Every operator takes a peer and returns the peer the C         *)
(* function leaves behind; the send queue is the sequence peer.sendq.      *)
(*                                                                         *)
(* Three fields of a peer and one of a packet are history and take part in *)
(* no decision: iss (the random first number), issued (how many reliable   *)
(* packets were queued), rcvd (how many of the remote's reliable packets   *)
(* were accepted), and pos (the value of issued when a packet was queued,  *)
(* that is, its reliable number before truncation to 16 bits).             *)
(***************************************************************************)
EXTENDS SeqNum, Sequences, FiniteSets

(* A packet whose RUDP_OPT_ACK flag is clear. *)
NoAck == -1

Command == {"CLOSE", "CONN_REQ", "CONN_RSP", "NOOP", "PING", "PONG", "APP"}

peer_state == {"NEW", "RUN", "CONNECTING", "DEAD"}

(* struct rudp_packet_header; ack is reliable_ack together with its flag. *)
Packet == [cmd : Command, rel : BOOLEAN, ret : BOOLEAN,
           ack : SeqNo \cup {NoAck}, seq : SeqNo, useq : SeqNo, pos : Nat]

rudp_peer == [state : peer_state, sendq : Seq(Packet),
              in_seq_reliable : SeqNo, in_seq_unreliable : SeqNo,
              out_seq_reliable : SeqNo, out_seq_unreliable : SeqNo,
              out_seq_acked : SeqNo, must_ack : BOOLEAN, scheduled : BOOLEAN,
              iss : SeqNo, issued : Nat, rcvd : Nat]

-----------------------------------------------------------------------------
(* Object management *)

(* r is the value rudp_random returned. *)
rudp_peer_reset(r) ==
    [state |-> "NEW", sendq |-> << >>,
     in_seq_reliable |-> Wrap(-1), in_seq_unreliable |-> 0,
     out_seq_reliable |-> r, out_seq_unreliable |-> 0,
     out_seq_acked |-> Wrap(r - 1), must_ack |-> FALSE, scheduled |-> FALSE,
     iss |-> r, issued |-> 0, rcvd |-> 0]

peer_service_schedule(peer) == [peer EXCEPT !.scheduled = TRUE]

rudp_peer_init(r) == peer_service_schedule(rudp_peer_reset(r))

(* The history of a peer outlives it. *)
rudp_peer_deinit(peer, r) ==
    [rudp_peer_reset(r) EXCEPT !.iss = peer.iss, !.issued = peer.issued,
                               !.rcvd = peer.rcvd]

-----------------------------------------------------------------------------
(* Sending: a packet is numbered when it is queued. *)

rudp_peer_send_unreliable(peer, cmd) ==
    LET useq == Wrap(peer.out_seq_unreliable + 1)
        pc   == [cmd |-> cmd, rel |-> FALSE, ret |-> FALSE, ack |-> NoAck,
                 seq |-> peer.out_seq_reliable, useq |-> useq,
                 pos |-> peer.issued]
    IN  peer_service_schedule(
            [peer EXCEPT !.out_seq_unreliable = useq,
                         !.sendq = Append(@, pc)])

rudp_peer_send_reliable(peer, cmd) ==
    LET seq == Wrap(peer.out_seq_reliable + 1)
        pc  == [cmd |-> cmd, rel |-> TRUE, ret |-> FALSE, ack |-> NoAck,
                seq |-> seq, useq |-> 0, pos |-> peer.issued + 1]
    IN  peer_service_schedule(
            [peer EXCEPT !.out_seq_reliable = seq, !.out_seq_unreliable = 0,
                         !.issued = @ + 1, !.sendq = Append(@, pc)])

rudp_peer_send_connect(peer) ==
    rudp_peer_send_reliable([peer EXCEPT !.state = "CONNECTING"], "CONN_REQ")

(* The CLOSE that rudp_peer_send_close_noqueue sends past the queue. *)
ClosePacket(peer) ==
    [cmd |-> "CLOSE", rel |-> FALSE, ret |-> FALSE, ack |-> NoAck,
     seq |-> peer.out_seq_reliable,
     useq |-> Wrap(peer.out_seq_unreliable + 1), pos |-> peer.issued]

peer_ping(peer) == rudp_peer_send_reliable(peer, "PING")

-----------------------------------------------------------------------------
(* peer_send_queue: the queue is sent in order, up to and including the    *)
(* first packet that is a retransmission.                                  *)

Retransmission(pc) == pc.rel /\ pc.ret

Visited(q) ==
    {i \in 1 .. Len(q) : \A j \in 1 .. i - 1 : ~ Retransmission(q[j])}

Stamped(peer, pc) ==
    IF peer.must_ack THEN [pc EXCEPT !.ack = peer.in_seq_reliable] ELSE pc

Transmitted(peer) == {Stamped(peer, peer.sendq[i]) : i \in Visited(peer.sendq)}

(* Mutant: a retransmission is not marked as one. *)
Requeued_Unmarked(peer, i) ==
    IF i \in Visited(peer.sendq) THEN Stamped(peer, peer.sendq[i])
                                 ELSE peer.sendq[i]

(* A packet that stays queued, as the loop leaves it. *)
Requeued(peer, i) ==
    IF i \in Visited(peer.sendq)
      THEN [Stamped(peer, peer.sendq[i]) EXCEPT !.ret = TRUE]
      ELSE peer.sendq[i]

(* Mutant: what was sent once is freed, reliable or not. *)
Kept_SentOnce(q) == (1 .. Len(q)) \ Visited(q)

(* The packets that stay queued: those not reached, and the reliable ones. *)
Kept(q) == {i \in 1 .. Len(q) : i \in Visited(q) => q[i].rel}

(* A finite set of numbers in increasing order. *)
Rank(S, s) == Cardinality({t \in S : t <= s})

Ordered(S) == [i \in 1 .. Cardinality(S) |-> CHOOSE s \in S : Rank(S, s) = i]

peer_send_queue(peer) ==
    LET f == Ordered(Kept(peer.sendq))
    IN  [peer EXCEPT !.sendq = [i \in DOMAIN f |-> Requeued(peer, f[i])]]

-----------------------------------------------------------------------------
(* peer_handle_ack *)

(* Mutant: no test for an acknowledgement that was overtaken. *)
AckInPast_Never(peer, ack) == FALSE

AckInPast(peer, ack) == Delta(ack, peer.out_seq_acked) < 0

(* Mutant: an acknowledgement of an unsent number is believed. *)
BrokenAck_Never(peer, ack) == FALSE

BrokenAck(peer, ack) ==
    /\ ~ AckInPast(peer, ack)
    /\ Delta(ack, peer.out_seq_reliable) > 0

(* Mutant: off by one, the packet after the acknowledged one goes too. *)
Acknowledged_OneMore(pc, ack) == pc.rel /\ pc.ret /\ Delta(pc.seq, ack) <= 1

(* The loop stops at the first packet it may not remove. *)
Acknowledged(pc, ack) == pc.rel /\ pc.ret /\ Delta(pc.seq, ack) <= 0

FirstUnacked(q, ack) ==
    CHOOSE k \in 1 .. Len(q) + 1 :
        /\ \A i \in 1 .. k - 1 : Acknowledged(q[i], ack)
        /\ k <= Len(q) => ~ Acknowledged(q[k], ack)

peer_handle_ack(peer, ack) ==
    IF AckInPast(peer, ack) \/ BrokenAck(peer, ack)
      THEN peer
      ELSE [peer EXCEPT
              !.out_seq_acked = ack,
              !.sendq = SubSeq(@, FirstUnacked(@, ack), Len(@))]

-----------------------------------------------------------------------------
(* Receiving *)

(* Mutant: any later packet is in sequence. *)
peer_analyse_reliable_AnyLater(peer, pc) ==
    CASE peer.in_seq_reliable = pc.seq -> "RETRANSMITTED"
      [] Delta(pc.seq, peer.in_seq_reliable) < 0 -> "UNSEQUENCED"
      [] OTHER -> "SEQUENCED"

peer_analyse_reliable(peer, pc) ==
    CASE peer.in_seq_reliable = pc.seq -> "RETRANSMITTED"
      [] peer.in_seq_reliable # pc.seq
           /\ Wrap(peer.in_seq_reliable + 1) # pc.seq -> "UNSEQUENCED"
      [] OTHER -> "SEQUENCED"

(* Mutant: < for <=, a duplicate is in sequence. *)
peer_analyse_unreliable_Again(peer, pc) ==
    IF \/ peer.in_seq_reliable # pc.seq
       \/ Delta(pc.useq, peer.in_seq_unreliable) < 0
      THEN "UNSEQUENCED"
      ELSE "SEQUENCED"

(* Mutant: the reliable number of an unreliable packet is not looked at. *)
peer_analyse_unreliable_AnyReliable(peer, pc) ==
    IF Delta(pc.useq, peer.in_seq_unreliable) <= 0 THEN "UNSEQUENCED"
                                                   ELSE "SEQUENCED"

peer_analyse_unreliable(peer, pc) ==
    IF \/ peer.in_seq_reliable # pc.seq
       \/ Delta(pc.useq, peer.in_seq_unreliable) <= 0
      THEN "UNSEQUENCED"
      ELSE "SEQUENCED"

packet_state(peer, pc) ==
    IF pc.rel THEN peer_analyse_reliable(peer, pc)
              ELSE peer_analyse_unreliable(peer, pc)

(* What the analysis of a SEQUENCED packet leaves in the peer. *)
Sequenced(peer, pc) ==
    IF pc.rel
      THEN [peer EXCEPT !.in_seq_reliable = pc.seq, !.in_seq_unreliable = 0,
                        !.rcvd = @ + 1]
      ELSE [peer EXCEPT !.in_seq_unreliable = pc.useq]

(* The acknowledgement a packet carries is handled before anything else. *)
AckHandled(peer, pc) ==
    IF pc.ack = NoAck THEN peer ELSE peer_handle_ack(peer, pc.ack)

peer_handle_connreq(peer) == rudp_peer_send_unreliable(peer, "CONN_RSP")

peer_handle_ping(peer, pc) ==
    IF pc.ret THEN peer ELSE rudp_peer_send_unreliable(peer, "PONG")

(* Mutant: the ACK is left to the next packet, whenever that comes. *)
peer_post_ack_Rides(peer) == [peer EXCEPT !.must_ack = TRUE]

peer_post_ack(peer) ==
    LET p == [peer EXCEPT !.must_ack = TRUE]
    IN  IF p.sendq # << >> THEN p ELSE rudp_peer_send_unreliable(p, "NOOP")

(* The end of rudp_peer_incoming_packet, on every path but CLOSE. *)
Finished(peer, pc) ==
    peer_service_schedule(IF pc.rel THEN peer_post_ack(peer) ELSE peer)

=============================================================================
