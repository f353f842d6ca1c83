----------------------------- MODULE RudpTimer -----------------------------
(***************************************************************************)
(* One rudp_peer in time: when its timer is armed, when it retransmits,    *)
(* pings, backs off and gives up (src/src/peer.c).  What the packets say   *)
(* is the subject of RudpPeer; here a packet is only counted.  The peer's  *)
(* end by a CLOSE is in RudpLink; here it ends by silence.                 *)
(*                                                                         *)
(* Times are distances to now, in milliseconds in the code and in ticks    *)
(* here, so that no clock has to be bounded.  The distances saturate where *)
(* the code no longer tells them apart.                                    *)
(***************************************************************************)
EXTENDS Integers

CONSTANTS
    ACTION_TIMEOUT,  \* 5000 in the code
    MAX_RTO,         \* 3000
    INITIAL_RTT,     \* 100
    RttSamples,      \* the round trips that a PONG may measure
    QueueSizes,      \* how many packets of a kind may wait in the send queue
    MaxLate          \* how late the event loop may run a timer

ASSUME TimerAssumption ==
    /\ ACTION_TIMEOUT \in Nat /\ MAX_RTO \in Nat /\ INITIAL_RTT \in Nat
    /\ 1 <= MAX_RTO /\ MAX_RTO <= ACTION_TIMEOUT
    /\ RttSamples \subseteq Nat
    /\ QueueSizes \subseteq Nat /\ MaxLate \in Nat

DROP_TIMEOUT == 2 * ACTION_TIMEOUT

VARIABLES
    alive,     \* FALSE once handler->dropped was called
    queue,     \* the send queue: how many packets of each kind
    deadline,  \* abs_timeout_deadline - now, and -1 for all that is past
    since,     \* now - last_out_time, up to DROP_TIMEOUT + 1
    timer,     \* when the timer is due, from now
    srtt, rto

vars == <<alive, queue, deadline, since, timer, srtt, rto>>

(* sent: reliable and transmitted, at the head of the queue; fresh and     *)
(* plain: reliable and unreliable ones not transmitted yet.  RudpLink's    *)
(* SendqIsWindow says that the queue has this form.                        *)
Queue == [sent : Nat, fresh : Nat, plain : Nat]

Empty == [sent |-> 0, fresh |-> 0, plain |-> 0]

Least(a, b) == IF a <= b THEN a ELSE b
Greatest(a, b) == IF a <= b THEN b ELSE a

TypeOK ==
    /\ alive \in BOOLEAN
    /\ queue \in Queue
    /\ deadline \in -1 .. DROP_TIMEOUT
    /\ since \in 0 .. DROP_TIMEOUT + 1
    /\ timer \in - MaxLate .. Greatest(DROP_TIMEOUT, 1)
    /\ srtt \in Nat /\ rto \in 0 .. MAX_RTO

-----------------------------------------------------------------------------
(* Mutant: the RETRANSMITTED flag of the head is not looked at. *)
HeadDelay_Waits(q, s, r) == IF q # Empty THEN s + r ELSE ACTION_TIMEOUT

(* Mutant: a transmitted head is sent again at once. *)
HeadDelay_Asap(q, s, r) == IF q # Empty THEN 0 ELSE ACTION_TIMEOUT

(* The delay after which the head of the queue needs attention. *)
HeadDelay(q, s, r) ==
    IF q.sent > 0 THEN s + r
    ELSE IF q # Empty THEN 0 ELSE ACTION_TIMEOUT

(* Mutant: to_delta is not taken into account. *)
peer_service_schedule_NoDeadline(q, s, d, r) == Greatest(1, HeadDelay(q, s, r))

(* The delay for which the timer is armed: d is to_delta. *)
peer_service_schedule(q, s, d, r) == Greatest(1, Least(HeadDelay(q, s, r), d))

(* rudp_peer_reset and, by rudp_peer_init, the first arming. *)
Init ==
    /\ alive = TRUE
    /\ queue = Empty
    /\ deadline = DROP_TIMEOUT
    /\ since = 0
    /\ srtt = INITIAL_RTT /\ rto = MAX_RTO
    /\ timer = peer_service_schedule(Empty, 0, DROP_TIMEOUT, MAX_RTO)

(* q becomes the queue of a peer last heard d ticks before its deadline. *)
Rearmed(q, s, d, r) ==
    /\ q.fresh \in QueueSizes /\ q.plain \in QueueSizes
    /\ queue' = q /\ since' = s /\ deadline' = d /\ rto' = r
    /\ timer' = peer_service_schedule(q, s, d, r)

Reliable(q) == [q EXCEPT !.fresh = @ + 1]
Unreliable(q) == [q EXCEPT !.plain = @ + 1]

Send ==
    /\ alive
    /\ \E q \in {Reliable(queue), Unreliable(queue)} :
          Rearmed(q, since, deadline, rto)
    /\ UNCHANGED <<alive, srtt>>

-----------------------------------------------------------------------------
(* Receiving: rudp_peer_incoming_packet *)

(* peer_handle_ack removes packets that were transmitted. *)
Acked(q) == {[q EXCEPT !.sent = n] : n \in 0 .. q.sent}

(* peer_post_ack *)
peer_post_ack(q) == IF q = Empty THEN Unreliable(q) ELSE q

(* UNSEQUENCED: the deadline stays; a CONN_REQ is answered. *)
IncomingUnsequenced ==
    /\ alive
    /\ \E q \in Acked(queue) :
          \E a \in {q, peer_post_ack(q), Unreliable(q)} :
              Rearmed(a, since, deadline, rto)
    /\ UNCHANGED <<alive, srtt>>

(* RETRANSMITTED: always reliable, so an ACK is owed. *)
IncomingRetransmitted ==
    /\ alive
    /\ \E q \in Acked(queue) :
          Rearmed(peer_post_ack(q), since, DROP_TIMEOUT, rto)
    /\ UNCHANGED <<alive, srtt>>

(* SEQUENCED: a PING is answered, and handle_packet may send. *)
IncomingSequenced ==
    /\ alive
    /\ \E q \in Acked(queue) :
          \E a \in {q, peer_post_ack(q), Unreliable(q), Reliable(q)} :
              Rearmed(a, since, DROP_TIMEOUT, rto)
    /\ UNCHANGED <<alive, srtt>>

(* peer_update_rtt; rttvar decides nothing and is left out. *)
NewSrtt(rtt) == (7 * srtt + rtt) \div 8

(* Mutant: the test against MAX_RTO is missing. *)
NewRto_Uncapped(rtt) == NewSrtt(rtt)

NewRto(rtt) == Least(NewSrtt(rtt), MAX_RTO)

(* SEQUENCED, a PONG. *)
IncomingPong ==
    /\ alive
    /\ \E q \in Acked(queue), rtt \in RttSamples :
          /\ srtt' = NewSrtt(rtt)
          /\ Rearmed(q, since, DROP_TIMEOUT, NewRto(rtt))
    /\ UNCHANGED alive

-----------------------------------------------------------------------------
(* peer_service *)

Due == alive /\ timer <= 0

Drop ==
    /\ Due /\ deadline < 0
    /\ alive' = FALSE
    /\ UNCHANGED <<queue, deadline, since, timer, srtt, rto>>

(* Mutant: a retransmission counts as a sign of life. *)
Retransmit_Refreshes ==
    /\ Due /\ deadline >= 0
    /\ queue.sent > 0
    /\ Rearmed(queue, 0, DROP_TIMEOUT, Least(2 * rto, MAX_RTO))
    /\ UNCHANGED <<alive, srtt>>

(* peer_send_queue stops at the first packet that is a retransmission. *)
Retransmit ==
    /\ Due /\ deadline >= 0
    /\ queue.sent > 0
    /\ Rearmed(queue, 0, deadline, Least(2 * rto, MAX_RTO))
    /\ UNCHANGED <<alive, srtt>>

(* Otherwise everything is transmitted, and the reliable packets stay. *)
Transmit ==
    /\ Due /\ deadline >= 0
    /\ queue.sent = 0 /\ queue # Empty
    /\ Rearmed([Empty EXCEPT !.sent = queue.fresh], 0, deadline, rto)
    /\ UNCHANGED <<alive, srtt>>

(* An idle peer pings: a reliable packet, transmitted at once. *)
Ping ==
    /\ Due /\ deadline >= 0
    /\ queue = Empty /\ since > ACTION_TIMEOUT
    /\ Rearmed([Empty EXCEPT !.sent = 1], 0, deadline, rto)
    /\ UNCHANGED <<alive, srtt>>

Idle ==
    /\ Due /\ deadline >= 0
    /\ queue = Empty /\ since <= ACTION_TIMEOUT
    /\ Rearmed(queue, since, deadline, rto)
    /\ UNCHANGED <<alive, srtt>>

Service == Drop \/ Retransmit \/ Transmit \/ Ping \/ Idle

-----------------------------------------------------------------------------
(* Time passes; a timer that is due runs at most MaxLate ticks late. *)
Tick ==
    /\ alive /\ timer > - MaxLate
    /\ timer' = timer - 1
    /\ deadline' = Greatest(deadline - 1, -1)
    /\ since' = Least(since + 1, DROP_TIMEOUT + 1)
    /\ UNCHANGED <<alive, queue, srtt, rto>>

Input ==
    \/ Send
    \/ IncomingUnsequenced
    \/ IncomingRetransmitted
    \/ IncomingSequenced
    \/ IncomingPong

Next == Input \/ Service \/ Tick

(* The clock advances, and the event loop runs a timer that is due. *)
Spec == Init /\ [][Next]_vars /\ WF_vars(Tick) /\ WF_vars(Service)

-----------------------------------------------------------------------------
(* Properties *)

(* The timer is never armed past the deadline by more than the one tick of *)
(* its shortest delay: a silent remote is noticed in time unless calls     *)
(* keep re-arming it (peer_service_schedule).                              *)
ArmedForDeadline == alive => timer <= Greatest(deadline, 1)

(* "transmit asap": a queue that waits for no acknowledgement is sent by   *)
(* the next tick, also when an ACK has just uncovered it.                  *)
AsapIsNextTick ==
    alive /\ queue # Empty /\ queue.sent = 0 => timer <= 1

(* A timer armed for a transmitted head runs a full rto after the last     *)
(* output, except when the deadline comes first.                           *)
WaitsForRto ==
    alive /\ queue.sent > 0 =>
        since >= rto \/ since + timer >= rto \/ deadline <= Greatest(timer, 0)

(* peer_service retransmits no earlier than rto after the last output,     *)
(* the deadline excepted, whatever was acknowledged or measured meanwhile. *)
RetransmitNotEarly == [][Retransmit => since >= rto \/ deadline <= 0]_vars

(* A peer that is no longer called, neither by the application nor by the  *)
(* network, gives up: no retransmission, ping or back-off keeps it alive.  *)
SilentPeerIsDropped == <>[][~ Input]_vars => <>(~ alive)

=============================================================================
