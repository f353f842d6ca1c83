----------------------------- MODULE RudpLinkInv -----------------------------
(***************************************************************************)
(* The inductive invariant behind the safety properties of RudpLink.       *)
(*                                                                         *)
(* It is stated with the unbounded numbers that the 16-bit ones stand for: *)
(* packet pos of x carries Wrap(iss + pos), and Acked is the number that   *)
(* out_seq_acked stands for.                                               *)
(***************************************************************************)
EXTENDS RudpLink

(***************************************************************************)
(* rudp_peer_reset marks "nothing received yet" with in_seq_reliable =     *)
(* 0xFFFF, which is also a sequence number.  The hypothesis under which    *)
(* the two cannot be confused: the client's CONN_REQ is numbered neither   *)
(* 0xFFFF nor 0, and the server's numbers stay below 0xFFFF.               *)
(***************************************************************************)
NoSentinelClash ==
    /\ \A r \in RandomSeq[Client] : r < Modulus - 2
    /\ \A r \in RandomSeq[Server] : r + MaxIssued[Server] < Modulus - 1

Acked(p) == Delta(p.out_seq_acked, p.iss)

(* An acknowledgement that x may have sent: of a packet it accepted, or,   *)
(* before the handshake is over, the sentinel.                             *)
AckOK(x, p, rp, ack) ==
    \/ \E j \in 0 .. p.rcvd : ack = Wrap(rp.iss + j)
    \/ x = Client /\ ack = Modulus - 1

(* A packet of x, whose peer is p and whose remote is rp. *)
PacketOK(x, p, rp, A, pc) ==
    /\ pc \in Packet
    /\ pc.pos <= p.issued
    /\ pc.seq = Wrap(p.iss + pc.pos)
    /\ pc.rel => pc.useq = 0 /\ pc.pos >= 1
    /\ ~ pc.rel => pc.useq \in 1 .. MaxUnreliable[x] /\ ~ pc.ret
    /\ pc.rel => (pc.cmd = "APP" <=> pc.pos \in A)
    /\ pc.cmd = "CONN_REQ" => x = Client /\ pc.rel /\ pc.pos = 1
    /\ pc.cmd = "CONN_RSP" => x = Server /\ ~ pc.rel /\ pc.pos = 0
    /\ pc.cmd = "CLOSE" => x = Client /\ ~ pc.rel
    /\ pc.ack # NoAck => AckOK(x, p, rp, pc.ack)

(* The send queue of a live peer p; N is what x has sent so far. *)
QueueOK(x, p, rp, N, A) ==
    LET q == p.sendq IN
    /\ \A i \in 1 .. Len(q) : PacketOK(x, p, rp, A, q[i]) /\ q[i].cmd # "CLOSE"
    /\ \A i, j \in 1 .. Len(q) : i < j =>
          /\ q[j].ret => q[i].rel /\ q[i].ret
          /\ q[i].rel /\ q[j].rel => q[i].pos < q[j].pos
    /\ \A i \in 1 .. Len(q) : q[i].rel /\ ~ q[i].ret =>
          /\ rp.rcvd < q[i].pos
          /\ \A pc \in N : pc.rel => pc.pos < q[i].pos
    /\ \A i \in 1 .. Len(q) : q[i].rel => q[i].pos > Acked(p)
    /\ \A k \in 1 .. p.issued : k > Acked(p) =>
          \E i \in 1 .. Len(q) : q[i].rel /\ q[i].pos = k

(* The sending half of a live peer. *)
SenderOK(x, p, rp, N, A) ==
    /\ p.out_seq_unreliable <= MaxUnreliable[x]
    /\ p.out_seq_reliable = Wrap(p.iss + p.issued)
    /\ -1 <= Acked(p) /\ Acked(p) <= rp.rcvd
    /\ QueueOK(x, p, rp, N, A)

(* The receiving half of a live peer. *)
ReceiverOK(x, p, rp) ==
    \/ /\ p.state = "RUN"
       /\ p.in_seq_reliable = Wrap(rp.iss + p.rcvd)
       /\ p.in_seq_unreliable <= MaxUnreliable[Remote(x)]
       /\ x = Server => p.rcvd >= 1
    \/ /\ p.state = "CONNECTING" /\ x = Client
       /\ p.in_seq_reliable = Modulus - 1
       /\ p.in_seq_unreliable = 0 /\ p.rcvd = 0

LogOK(x, p, A, L) ==
    /\ \A i, j \in DOMAIN L : i < j => Before(L[i], L[j])
    /\ \A i \in DOMAIN L : L[i].pos <= p.rcvd
    /\ \A i \in DOMAIN L : L[i].useq = 0 => L[i].pos \in A
    /\ \A a \in A : a <= p.rcvd =>
          \E i \in DOMAIN L : L[i].useq = 0 /\ L[i].pos = a

(* The log of a live peer does not run ahead of in_seq_unreliable. *)
LogInStep(p, L) ==
    \A i \in DOMAIN L : L[i].pos = p.rcvd => L[i].useq <= p.in_seq_unreliable

HistoryOK(x, p, rp, A) ==
    /\ p.iss \in RandomSeq[x]
    /\ p.issued <= MaxIssued[x]
    /\ p.rcvd <= rp.issued
    /\ A \subseteq 1 .. p.issued
    /\ x = Client => p.issued >= 1 /\ 1 \notin A

SideInv(x) ==
    LET p  == peer[x]
        rp == peer[Remote(x)]
    IN
    /\ HistoryOK(x, p, rp, app[x])
    /\ LogOK(x, p, app[Remote(x)], log[x])
    /\ \A pc \in net[x] :
          /\ PacketOK(x, p, rp, app[x], pc)
          /\ pc.cmd = "CLOSE" => life[x] = "closed" /\ pc.pos = p.issued
    /\ life[x] = "live" =>
          /\ SenderOK(x, p, rp, net[x], app[x])
          /\ ReceiverOK(x, p, rp)
          /\ LogInStep(p, log[x])
    /\ life[x] = "unborn" =>
          /\ x = Server /\ p = rudp_peer_reset(p.iss)
          /\ net[x] = {} /\ app[x] = {} /\ log[x] = << >>
    /\ life[x] = "left" =>
          p.rcvd = rp.issued /\ life[Remote(x)] = "closed"

IInv == TypeOK /\ \A x \in Side : SideInv(x)

=============================================================================
