-------------------------- MODULE RudpTimerProofs --------------------------
(***************************************************************************)
(* Proofs about RudpTimer, for every value of its time-outs.  Every call   *)
(* but the passage of time ends by arming the timer, so what has to be     *)
(* shown is what arming establishes (ScheduleBounds) and that a tick does  *)
(* not undo it.                                                            *)
(***************************************************************************)
EXTENDS RudpTimer, TLAPS

(* The invariant: RetransmitNotEarly needs its last conjunct. *)
TimerInv == TypeOK /\ ArmedForDeadline /\ AsapIsNextTick /\ WaitsForRto

(* DROP_TIMEOUT is a number that no rto exceeds. *)
LEMMA DropTimeout == DROP_TIMEOUT \in Nat /\ MAX_RTO <= DROP_TIMEOUT
  BY TimerAssumption DEF DROP_TIMEOUT

(* The delay that peer_service_schedule computes. *)
LEMMA ScheduleBounds ==
  ASSUME NEW q \in Queue, NEW s \in Nat, NEW d \in Int, NEW r \in Nat
  PROVE  LET t == peer_service_schedule(q, s, d, r) IN
         /\ t \in Nat /\ 1 <= t /\ t <= Greatest(d, 1)
         /\ q.sent > 0 => s + r <= t \/ d <= t
         /\ q # Empty /\ q.sent = 0 => t <= 1
<1> DEFINE h == HeadDelay(q, s, r)
<1>1. /\ h \in Nat
      /\ q.sent > 0 => h = s + r
      /\ q # Empty /\ q.sent = 0 => h = 0
  BY TimerAssumption DEF HeadDelay, Queue
<1> HIDE DEF h
<1>2. peer_service_schedule(q, s, d, r) = Greatest(1, Least(h, d))
  BY DEF peer_service_schedule, h
<1> QED
  BY <1>1, <1>2 DEF Greatest, Least

(* What a call that ends by arming the timer leaves behind. *)
LEMMA RearmedInv ==
  ASSUME NEW q \in Queue, NEW s \in 0 .. DROP_TIMEOUT + 1,
         NEW d \in -1 .. DROP_TIMEOUT, NEW r \in 0 .. MAX_RTO,
         Rearmed(q, s, d, r),
         alive' \in BOOLEAN, srtt' \in Nat
  PROVE  TimerInv'
<1>1. queue' = q /\ since' = s /\ deadline' = d /\ rto' = r
      /\ timer' = peer_service_schedule(q, s, d, r)
  BY DEF Rearmed
<1>2. s \in Nat /\ d \in Int /\ r \in Nat /\ d <= DROP_TIMEOUT
  BY DropTimeout, TimerAssumption
<1>3. /\ timer' \in Nat /\ 1 <= timer' /\ timer' <= Greatest(d, 1)
      /\ q.sent > 0 => s + r <= timer' \/ d <= timer'
      /\ q # Empty /\ q.sent = 0 => timer' <= 1
  BY <1>1, <1>2, ScheduleBounds
<1>4. timer' \in - MaxLate .. Greatest(DROP_TIMEOUT, 1)
  BY <1>2, <1>3, DropTimeout, TimerAssumption DEF Greatest
<1>5. TypeOK'
  BY <1>1, <1>4 DEF TypeOK
<1>6. ArmedForDeadline' /\ AsapIsNextTick'
  BY <1>1, <1>3 DEF ArmedForDeadline, AsapIsNextTick
<1>7. WaitsForRto'
  BY <1>1, <1>2, <1>3 DEF WaitsForRto, Greatest
<1> QED
  BY <1>5, <1>6, <1>7 DEF TimerInv

(* The queues that the calls leave. *)
LEMMA QueueType ==
  ASSUME NEW q \in Queue
  PROVE  /\ Empty \in Queue
         /\ Reliable(q) \in Queue /\ Unreliable(q) \in Queue
         /\ peer_post_ack(q) \in Queue
         /\ \A a \in Acked(q) : a \in Queue
         /\ \A n \in Nat : [Empty EXCEPT !.sent = n] \in Queue
  BY DEF Queue, Empty, Reliable, Unreliable, peer_post_ack, Acked

(* Back-off and estimation keep rto between 0 and MAX_RTO. *)
LEMMA RtoType ==
  ASSUME TypeOK, NEW rtt \in RttSamples
  PROVE  /\ NewSrtt(rtt) \in Nat /\ NewRto(rtt) \in 0 .. MAX_RTO
         /\ Least(2 * rto, MAX_RTO) \in 0 .. MAX_RTO
<1>1. rtt \in Nat /\ srtt \in Nat /\ rto \in 0 .. MAX_RTO /\ MAX_RTO \in Nat
  BY TimerAssumption DEF TypeOK
<1>2. NewSrtt(rtt) \in Nat
  BY <1>1 DEF NewSrtt
<1> QED
  BY <1>1, <1>2 DEF NewRto, Least

LEMMA BackoffType ==
  ASSUME TypeOK
  PROVE  Least(2 * rto, MAX_RTO) \in 0 .. MAX_RTO
  BY TimerAssumption DEF TypeOK, Least

LEMMA InitInv == Init => TimerInv
<1> SUFFICES ASSUME Init
             PROVE  TimerInv
  OBVIOUS
<1>1. Empty \in Queue
  BY DEF Empty, Queue
<1>2. /\ timer \in Nat /\ 1 <= timer /\ timer <= Greatest(DROP_TIMEOUT, 1)
  BY <1>1, ScheduleBounds, DropTimeout, TimerAssumption DEF Init
<1>3. TypeOK
  <2>1. timer \in - MaxLate .. Greatest(DROP_TIMEOUT, 1)
    BY <1>2, DropTimeout, TimerAssumption DEF Greatest
  <2>2. /\ deadline \in -1 .. DROP_TIMEOUT /\ since \in 0 .. DROP_TIMEOUT + 1
        /\ srtt \in Nat /\ rto \in 0 .. MAX_RTO
    BY DropTimeout, TimerAssumption DEF Init
  <2> QED
    BY <1>1, <2>1, <2>2 DEF Init, TypeOK
<1>4. ArmedForDeadline /\ AsapIsNextTick /\ WaitsForRto
  BY <1>2 DEF Init, ArmedForDeadline, AsapIsNextTick, WaitsForRto, Empty
<1> QED
  BY <1>3, <1>4 DEF TimerInv

(* A tick: the distances all shrink together. *)
LEMMA TickInv ==
  ASSUME TimerInv, Tick
  PROVE  TimerInv'
<1>1. TypeOK
  BY DEF TimerInv
<1>2. /\ timer \in Int /\ deadline \in Int /\ since \in Nat /\ rto \in Nat
      /\ -1 <= deadline /\ deadline <= DROP_TIMEOUT
      /\ since <= DROP_TIMEOUT + 1 /\ rto <= DROP_TIMEOUT
      /\ timer <= Greatest(DROP_TIMEOUT, 1) /\ - MaxLate < timer
      /\ DROP_TIMEOUT \in Nat /\ MaxLate \in Nat
  BY <1>1, DropTimeout, TimerAssumption DEF TypeOK, Tick, Greatest
<1>3. /\ timer' = timer - 1 /\ deadline' = Greatest(deadline - 1, -1)
      /\ since' = Least(since + 1, DROP_TIMEOUT + 1)
      /\ alive' = alive /\ queue' = queue /\ srtt' = srtt /\ rto' = rto
      /\ alive
  BY DEF Tick
<1>4. /\ timer' \in - MaxLate .. Greatest(DROP_TIMEOUT, 1)
      /\ deadline' \in -1 .. DROP_TIMEOUT
      /\ since' \in 0 .. DROP_TIMEOUT + 1
  BY <1>2, <1>3 DEF Greatest, Least
<1>5. TypeOK'
  BY <1>1, <1>3, <1>4 DEF TypeOK
<1>6. ArmedForDeadline'
  BY <1>2, <1>3 DEF TimerInv, ArmedForDeadline, Greatest
<1>7. AsapIsNextTick'
  BY <1>2, <1>3 DEF TimerInv, AsapIsNextTick
<1>8. WaitsForRto'
  <2> SUFFICES ASSUME queue.sent > 0
               PROVE  \/ since' >= rto \/ since' + timer' >= rto
                      \/ deadline' <= Greatest(timer', 0)
    BY <1>3 DEF WaitsForRto
  <2>1. since >= rto \/ since + timer >= rto \/ deadline <= Greatest(timer, 0)
    BY <1>3 DEF TimerInv, WaitsForRto
  <2> QED
    BY <1>2, <1>3, <2>1 DEF Greatest, Least
<1> QED
  BY <1>5, <1>6, <1>7, <1>8 DEF TimerInv

LEMMA StepInv == TimerInv /\ [Next]_vars => TimerInv'
<1> SUFFICES ASSUME TimerInv, [Next]_vars
             PROVE  TimerInv'
  OBVIOUS
<1>1. /\ TypeOK /\ queue \in Queue /\ srtt \in Nat
      /\ alive \in BOOLEAN
      /\ since \in 0 .. DROP_TIMEOUT + 1 /\ deadline \in -1 .. DROP_TIMEOUT
      /\ rto \in 0 .. MAX_RTO
  BY DEF TimerInv, TypeOK
<1>2. 0 \in 0 .. DROP_TIMEOUT + 1 /\ DROP_TIMEOUT \in -1 .. DROP_TIMEOUT
  BY DropTimeout
<1>3. CASE Send
  <2>1. PICK q \in {Reliable(queue), Unreliable(queue)} :
           Rearmed(q, since, deadline, rto)
    BY <1>3 DEF Send
  <2>2. q \in Queue
    BY <1>1, QueueType
  <2> QED
    BY <1>1, <1>3, <2>1, <2>2, RearmedInv DEF Send
<1>4. CASE IncomingUnsequenced
  <2>1. PICK q \in Acked(queue) :
           \E a \in {q, peer_post_ack(q), Unreliable(q)} :
               Rearmed(a, since, deadline, rto)
    BY <1>4 DEF IncomingUnsequenced
  <2>2. q \in Queue
    BY <1>1, QueueType
  <2>3. PICK a \in Queue : Rearmed(a, since, deadline, rto)
    BY <2>1, <2>2, QueueType
  <2> QED
    BY <1>1, <1>4, <2>3, RearmedInv DEF IncomingUnsequenced
<1>5. CASE IncomingRetransmitted
  <2>1. PICK q \in Acked(queue) :
           Rearmed(peer_post_ack(q), since, DROP_TIMEOUT, rto)
    BY <1>5 DEF IncomingRetransmitted
  <2>2. peer_post_ack(q) \in Queue
    BY <1>1, QueueType
  <2> QED
    BY <1>1, <1>2, <1>5, <2>1, <2>2, RearmedInv DEF IncomingRetransmitted
<1>6. CASE IncomingSequenced
  <2>1. PICK q \in Acked(queue) :
           \E a \in {q, peer_post_ack(q), Unreliable(q), Reliable(q)} :
               Rearmed(a, since, DROP_TIMEOUT, rto)
    BY <1>6 DEF IncomingSequenced
  <2>2. q \in Queue
    BY <1>1, QueueType
  <2>3. PICK a \in Queue : Rearmed(a, since, DROP_TIMEOUT, rto)
    BY <2>1, <2>2, QueueType
  <2> QED
    BY <1>1, <1>2, <1>6, <2>3, RearmedInv DEF IncomingSequenced
<1>7. CASE IncomingPong
  <2>1. PICK q \in Acked(queue), rtt \in RttSamples :
           srtt' = NewSrtt(rtt) /\ Rearmed(q, since, DROP_TIMEOUT, NewRto(rtt))
    BY <1>7 DEF IncomingPong
  <2>2. q \in Queue /\ NewSrtt(rtt) \in Nat /\ NewRto(rtt) \in 0 .. MAX_RTO
    BY <1>1, QueueType, RtoType
  <2> QED
    BY <1>1, <1>2, <1>7, <2>1, <2>2, RearmedInv DEF IncomingPong
<1>8. CASE Drop
  BY <1>8 DEF Drop, TimerInv, TypeOK, ArmedForDeadline, AsapIsNextTick,
              WaitsForRto
<1>9. CASE Retransmit
  BY <1>1, <1>2, <1>9, BackoffType, RearmedInv DEF Retransmit
<1>10. CASE Transmit
  <2>1. [Empty EXCEPT !.sent = queue.fresh] \in Queue
    BY <1>1, QueueType DEF Queue
  <2> QED
    BY <1>1, <1>2, <1>10, <2>1, RearmedInv DEF Transmit
<1>11. CASE Ping
  <2>1. [Empty EXCEPT !.sent = 1] \in Queue
    BY <1>1, QueueType
  <2> QED
    BY <1>1, <1>2, <1>11, <2>1, RearmedInv DEF Ping
<1>12. CASE Idle
  BY <1>1, <1>12, RearmedInv DEF Idle
<1>13. CASE Tick
  BY <1>13, TickInv
<1>14. CASE UNCHANGED vars
  BY <1>14 DEF vars, TimerInv, TypeOK, ArmedForDeadline, AsapIsNextTick,
               WaitsForRto
<1> QED
  BY <1>3, <1>4, <1>5, <1>6, <1>7, <1>8, <1>9, <1>10, <1>11, <1>12, <1>13,
     <1>14 DEF Next, Input, Service

(* The invariant holds for all time-outs, queue lengths and round trips. *)
THEOREM TimerInductive == Spec => []TimerInv
  BY InitInv, StepInv, PTL DEF Spec

(* No deadline, delay or rto leaves its range: rto never exceeds MAX_RTO,  *)
(* however often peer_service doubles it, and the timer is never armed     *)
(* beyond the drop time-out.                                               *)
THEOREM TimesStayInRange == Spec => []TypeOK
<1>1. TimerInv => TypeOK
  BY DEF TimerInv
<1> QED
  BY <1>1, TimerInductive, PTL

(* However the calls interleave, the timer that peer_service_schedule arms *)
(* is due at the drop deadline, or one tick later.                         *)
THEOREM DeadlineIsWatched == Spec => []ArmedForDeadline
<1>1. TimerInv => ArmedForDeadline
  BY DEF TimerInv
<1> QED
  BY <1>1, TimerInductive, PTL

(* A queue that waits for no acknowledgement never waits for more than the *)
(* shortest delay of peer_service_schedule.                                *)
THEOREM FreshIsSentAsap == Spec => []AsapIsNextTick
<1>1. TimerInv => AsapIsNextTick
  BY DEF TimerInv
<1> QED
  BY <1>1, TimerInductive, PTL

(* peer_service never retransmits within rto of the last output, unless    *)
(* the drop deadline has been reached.                                     *)
THEOREM RetransmissionIsNotEarly == Spec => RetransmitNotEarly
<1>1. TimerInv /\ [Next]_vars => [Retransmit => since >= rto \/ deadline <= 0]_vars
  <2> SUFFICES ASSUME TimerInv, Retransmit
               PROVE  since >= rto \/ deadline <= 0
    OBVIOUS
  <2>1. /\ since \in Int /\ rto \in Int /\ deadline \in Int /\ timer \in Int
        /\ timer <= 0 /\ alive /\ queue.sent > 0
    BY DropTimeout, TimerAssumption
       DEF TimerInv, TypeOK, Retransmit, Due, Greatest
  <2>2. since >= rto \/ since + timer >= rto \/ deadline <= Greatest(timer, 0)
    BY <2>1 DEF TimerInv, WaitsForRto
  <2> QED
    BY <2>1, <2>2 DEF Greatest
<1> QED
  BY <1>1, TimerInductive, PTL DEF Spec, RetransmitNotEarly

=============================================================================
