------------------------------ MODULE RudpPair ------------------------------
(***************************************************************************)
(* Two peers of an established connection in time: the queues, numbers and *)
(* acknowledgements of RudpPeer, driven by the timers of RudpTimer, over a *)
(* network that delivers within a tick and loses some packets.             *)
(* Only reliable payloads are sent by the applications; the PINGs, PONGs   *)
(* and NOOPs are the library's own.                                        *)
(*                                                                         *)
(* The times are those of RudpTimer, distances to now in ticks.            *)
(***************************************************************************)
EXTENDS RudpPeer

CONSTANTS
    ACTION_TIMEOUT, MAX_RTO, INITIAL_RTT, RttSamples,   \* as in RudpTimer
    Late,           \* a timer runs so many ticks after it was due
    MaxReliable,    \* the reliable payloads an application has under way
    MaxLoss         \* how many packets the network may lose

ASSUME PairAssumption ==
    /\ ACTION_TIMEOUT \in Nat /\ MAX_RTO \in Nat /\ INITIAL_RTT \in Nat
    /\ 1 <= MAX_RTO /\ MAX_RTO <= ACTION_TIMEOUT
    /\ RttSamples \subseteq Nat
    /\ Late \in Nat \ {0} /\ Late < ACTION_TIMEOUT
    /\ MaxReliable \in Nat /\ MaxLoss \in Nat

Side == {"client", "server"}

Remote(x) == IF x = "client" THEN "server" ELSE "client"

VARIABLES
    peer,   \* peer[x]: the rudp_peer of x, without its history fields
    clock,  \* clock[x]: the times of x
    alive,  \* alive[x]: FALSE once handler->dropped was called
    wire,   \* wire[x]: the packets on their way to x, the oldest first
    lost    \* how many packets were lost

vars == <<peer, clock, alive, wire, lost>>

(* What RudpTimer sees of a queue. *)
Count(q, P(_)) == Cardinality({i \in DOMAIN q : P(q[i])})

Seen(q) ==
    [sent  |-> Count(q, LAMBDA pc : pc.rel /\ pc.ret),
     fresh |-> Count(q, LAMBDA pc : pc.rel /\ ~ pc.ret),
     plain |-> Count(q, LAMBDA pc : ~ pc.rel)]

Timer(x) == INSTANCE RudpTimer WITH
    QueueSizes <- Nat, MaxLate <- Late,
    alive <- alive[x], queue <- Seen(peer[x].sendq),
    deadline <- clock[x].deadline, since <- clock[x].since,
    timer <- clock[x].timer, srtt <- clock[x].srtt, rto <- clock[x].rto

DROP_TIMEOUT == 2 * ACTION_TIMEOUT

Least(a, b) == IF a <= b THEN a ELSE b

(* The history that RudpPeer keeps is of no use here, and has no bound. *)
Plain(p) ==
    [p EXCEPT !.iss = 0, !.issued = 0, !.rcvd = 0,
              !.sendq = [i \in DOMAIN @ |-> [@[i] EXCEPT !.pos = 0]]]

(* The timer is armed for the peer p and the times c. *)
Armed(p, c) ==
    [c EXCEPT !.timer =
        Timer("client")!peer_service_schedule(Seen(p.sendq), c.since,
                                              c.deadline, c.rto)]

Put(x, p, c) ==
    /\ peer' = [peer EXCEPT ![x] = Plain(p)]
    /\ clock' = [clock EXCEPT ![x] = Armed(p, c)]

(* Both were connected with first number 0, the client has pinged once,    *)
(* and the PONG, which carried the acknowledgement and measured            *)
(* INITIAL_RTT, has just arrived.                                          *)
Init ==
    /\ peer = [client |-> [rudp_peer_init(0) EXCEPT
                   !.state = "RUN", !.in_seq_reliable = 0,
                   !.in_seq_unreliable = 2, !.out_seq_reliable = 2,
                   !.out_seq_acked = 2],
               server |-> [rudp_peer_init(0) EXCEPT
                   !.state = "RUN", !.in_seq_reliable = 2,
                   !.out_seq_unreliable = 2, !.must_ack = TRUE]]
    /\ clock = [client |-> [deadline |-> DROP_TIMEOUT, since |-> 1 + Late,
                            timer |-> ACTION_TIMEOUT, srtt |-> INITIAL_RTT,
                            rto |-> Least(INITIAL_RTT, MAX_RTO)],
                server |-> [deadline |-> DROP_TIMEOUT - 1 - Late, since |-> 0,
                            timer |-> ACTION_TIMEOUT, srtt |-> INITIAL_RTT,
                            rto |-> MAX_RTO]]
    /\ alive = [x \in Side |-> TRUE]
    /\ wire = [x \in Side |-> << >>]
    /\ lost = 0

(* The times of a peer, with the bounds that RudpTimer gives them. *)
Times == [deadline : -1 .. DROP_TIMEOUT, since : 0 .. DROP_TIMEOUT + 1,
          timer : - Late .. DROP_TIMEOUT, srtt : Nat, rto : 0 .. MAX_RTO]

TypeOK ==
    /\ peer \in [Side -> rudp_peer]
    /\ clock \in [Side -> Times]
    /\ alive \in [Side -> BOOLEAN]
    /\ wire \in [Side -> Seq(Packet)]
    /\ lost \in 0 .. MaxLoss

-----------------------------------------------------------------------------
Outstanding(x) == {i \in DOMAIN peer[x].sendq : peer[x].sendq[i].rel}

Send(x) ==
    /\ alive[x] /\ Cardinality(Outstanding(x)) < MaxReliable
    /\ Put(x, rudp_peer_send_reliable(peer[x], "APP"), clock[x])
    /\ UNCHANGED <<alive, wire, lost>>

(* rudp_peer_incoming_packet for a running peer.  No acknowledgement is    *)
(* broken here: each is of a number that the remote was sent.              *)
Answered(p, pc) == IF pc.cmd = "PING" THEN peer_handle_ping(p, pc) ELSE p

Handled(p, pc) ==
    LET q == AckHandled(p, pc)
    IN  Finished(IF packet_state(q, pc) = "SEQUENCED"
                   THEN Answered(Sequenced(q, pc), pc) ELSE q, pc)

(* Mutant: nothing that arrives is a sign of life. *)
Heard_Never(p, pc, c) == c

(* abs_timeout_deadline after pc: an UNSEQUENCED packet leaves it alone. *)
Heard(p, pc, c) ==
    IF packet_state(AckHandled(p, pc), pc) = "UNSEQUENCED" THEN c
    ELSE [c EXCEPT !.deadline = DROP_TIMEOUT]

(* A PONG that is in sequence: peer_update_rtt *)
Measured(x, pc, c) ==
    IF pc.cmd = "PONG"
       /\ packet_state(AckHandled(peer[x], pc), pc) = "SEQUENCED"
      THEN {[c EXCEPT !.srtt = Timer(x)!NewSrtt(rtt),
                      !.rto = Timer(x)!NewRto(rtt)] : rtt \in RttSamples}
      ELSE {c}

Receive(x) ==
    /\ alive[x] /\ wire[x] # << >>
    /\ LET pc == Head(wire[x]) IN
       \E p \in {Handled(peer[x], pc)},
          c \in Measured(x, pc, Heard(peer[x], pc, clock[x])) :
              Put(x, p, c)
    /\ wire' = [wire EXCEPT ![x] = Tail(@)]
    /\ UNCHANGED <<alive, lost>>

Lose(x) ==
    /\ wire[x] # << >> /\ lost < MaxLoss
    /\ wire' = [wire EXCEPT ![x] = Tail(@)]
    /\ lost' = lost + 1
    /\ UNCHANGED <<peer, clock, alive>>

-----------------------------------------------------------------------------
(* peer_service *)

Due(x) == alive[x] /\ clock[x].timer <= - Late

Drop(x) ==
    /\ Due(x) /\ clock[x].deadline < 0
    /\ alive' = [alive EXCEPT ![x] = FALSE]
    /\ UNCHANGED <<peer, clock, wire, lost>>

(* The packets that peer_send_queue sends, in their order. *)
Sent(p) ==
    [i \in 1 .. Cardinality(Visited(p.sendq)) |->
        [Stamped(p, p.sendq[i]) EXCEPT !.pos = 0]]

(* peer_rto_backoff, when the loop ends with a retransmission *)
Backoff(p, c) ==
    IF \E i \in Visited(p.sendq) : Retransmission(p.sendq[i])
      THEN [c EXCEPT !.rto = Least(2 * @, MAX_RTO)] ELSE c

Flush(x, p) ==
    LET out == Sent(p)
        c   == IF out = << >> THEN clock[x] ELSE [clock[x] EXCEPT !.since = 0]
    IN  /\ \E q \in {peer_service_schedule(peer_send_queue(p))} :
              Put(x, q, Backoff(p, c))
        /\ wire' = [wire EXCEPT ![Remote(x)] = @ \o out]
        /\ UNCHANGED <<alive, lost>>

(* Mutant: an idle peer does not ping. *)
Service_NoPing(x) == Due(x) /\ clock[x].deadline >= 0 /\ Flush(x, peer[x])

Service(x) ==
    /\ Due(x) /\ clock[x].deadline >= 0
    /\ Flush(x, IF peer[x].sendq = << >> /\ clock[x].since > ACTION_TIMEOUT
                  THEN peer_ping(peer[x]) ELSE peer[x])

-----------------------------------------------------------------------------
(* Only differences of sequence numbers matter.  To keep the instance      *)
(* small, x's numbers are counted from its out_seq_acked, wherever they    *)
(* are: in x's fields and packets, and in what the remote says of them.    *)
Base(x) == peer[x].out_seq_acked

Rebased(x, pc) ==
    [pc EXCEPT !.seq = Wrap(@ - Base(x)),
               !.ack = IF @ = NoAck THEN @ ELSE Wrap(@ - Base(Remote(x)))]

RebasedPeer(x) ==
    [peer[x] EXCEPT
        !.out_seq_reliable = Wrap(@ - Base(x)), !.out_seq_acked = 0,
        !.in_seq_reliable = Wrap(@ - Base(Remote(x))),
        !.sendq = [i \in DOMAIN @ |-> Rebased(x, @[i])]]

(* Time passes: every packet has arrived, no timer is overdue. *)
Tick ==
    /\ \A x \in Side : alive[x] /\ ~ Due(x) /\ wire[x] = << >>
    /\ clock' = [x \in Side |->
          [clock[x] EXCEPT !.timer = @ - 1,
             !.deadline = IF @ < 0 THEN @ ELSE @ - 1,
             !.since = Least(@ + 1, DROP_TIMEOUT + 1)]]
    /\ peer' = [x \in Side |-> RebasedPeer(x)]
    /\ UNCHANGED <<alive, wire, lost>>

Library == Tick \/ \E x \in Side : Receive(x) \/ Drop(x) \/ Service(x)

Next == Library \/ \E x \in Side : Send(x) \/ Lose(x)

(* The clock advances, the event loop runs timers, packets arrive. *)
Spec == Init /\ [][Next]_vars /\ WF_vars(Library)

-----------------------------------------------------------------------------
(* Properties *)

(* With one reliable payload under way on each side, a connection that     *)
(* loses nothing stays: an idle peer's PING leaves before the remote's     *)
(* deadline, and an ACK that peer_post_ack does not queue, because a       *)
(* packet waits that it may ride on, gets away in time with that packet.   *)
(* This is said of the time-outs of the instance and of timers that run    *)
(* Late ticks after they were due.  It is not said of applications that    *)
(* send while a packet waits for its ACK, which arms the timer anew.       *)
StaysWithoutLoss ==
    MaxReliable = 1 /\ lost = 0 => \A x \in Side : alive[x]

(* While the network loses nothing, both sides' reliable packets are       *)
(* acknowledged again and again, also when the queue of each waits for the *)
(* other's acknowledgement and peer_post_ack queues none.                  *)
EverythingIsAcked ==
    [](lost = 0) => \A x \in Side : []<>(Outstanding(x) = {})

(* doc/top.mkdoc: "Reliable packets may be lost any time, but must be      *)
(* retransmitted by the Sender until acknowledged."  One lost packet does  *)
(* not end a connection.                                                   *)
OneLossIsRepaired == lost <= 1 => \A x \in Side : alive[x]

(* Each of the two is a peer of RudpTimer, whose theorems hold for it. *)
EachIsATimer ==
    [][\A x \in Side : UNCHANGED Timer(x)!vars \/ Timer(x)!Next]_vars

=============================================================================
