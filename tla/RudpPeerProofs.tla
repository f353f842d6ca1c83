--------------------------- MODULE RudpPeerProofs ---------------------------
(***************************************************************************)
(* Lemmas about the operators of SeqNum and RudpPeer, for everything that  *)
(* is built of peers: what the 16-bit arithmetic computes, what each       *)
(* function of src/src/peer.c leaves in the fields of a peer, and that it  *)
(* leaves a well-formed peer.                                              *)
(***************************************************************************)
EXTENDS RudpPeer, SequenceTheorems, FiniteSetTheorems, WellFoundedInduction,
        TLAPS

(* A truncated number is a sequence number. *)
LEMMA WrapType == \A n \in Int : Wrap(n) \in SeqNo
  BY ModulusAssumption DEF Wrap, SeqNo

(* Truncation removes or adds the modulus once, near the range. *)
LEMMA WrapCases ==
  ASSUME NEW n \in Int
  PROVE  /\ 0 <= n /\ n < Modulus => Wrap(n) = n
         /\ Modulus <= n /\ n < 2 * Modulus => Wrap(n) = n - Modulus
         /\ - Modulus <= n /\ n < 0 => Wrap(n) = n + Modulus
  BY ModulusAssumption DEF Wrap

LEMMA DeltaType == \A a, b \in Int : Delta(a, b) \in Int
  BY ModulusAssumption DEF Delta

(* The int16_t difference of two numbers less than a modulus apart. *)
LEMMA DeltaCases ==
  ASSUME NEW a \in SeqNo, NEW b \in SeqNo
  PROVE  /\ - Modulus <= 2 * (a - b) /\ 2 * (a - b) < Modulus
               => Delta(a, b) = a - b
         /\ 2 * (a - b) >= Modulus => Delta(a, b) = a - b - Modulus
         /\ 2 * (a - b) < - Modulus => Delta(a, b) = a - b + Modulus
<1>1. a \in Int /\ b \in Int /\ a - b \in Int
      /\ 0 <= a /\ a < Modulus /\ 0 <= b /\ b < Modulus
  BY ModulusAssumption DEF SeqNo
<1>2. /\ a >= b => (a - b) % Modulus = a - b
      /\ a < b => (a - b) % Modulus = a - b + Modulus
  BY <1>1, ModulusAssumption
<1> QED
  BY <1>1, <1>2, ModulusAssumption DEF Delta

(* The int16_t difference of two truncated numbers is the true difference  *)
(* as long as that is less than half the modulus.                          *)
LEMMA DeltaOfWraps ==
  ASSUME NEW iss \in SeqNo, NEW j \in Int, NEW k \in Int,
         -1 <= j, 2 * j < Modulus, -1 <= k, 2 * k < Modulus,
         - Modulus <= 2 * (j - k), 2 * (j - k) < Modulus
  PROVE  Delta(Wrap(iss + j), Wrap(iss + k)) = j - k
<1>1. iss \in Int /\ 0 <= iss /\ iss < Modulus /\ iss + j \in Int /\ iss + k \in Int
  BY ModulusAssumption DEF SeqNo
<1>2. Wrap(iss + j) \in SeqNo /\ Wrap(iss + k) \in SeqNo
  BY <1>1, WrapType
<1>3. Wrap(iss + j) \in {iss + j, iss + j - Modulus, iss + j + Modulus}
  BY <1>1, WrapCases, ModulusAssumption
<1>4. Wrap(iss + k) \in {iss + k, iss + k - Modulus, iss + k + Modulus}
  BY <1>1, WrapCases, ModulusAssumption
<1> DEFINE a == Wrap(iss + j)
           b == Wrap(iss + k)
<1> HIDE DEF a, b
<1>5. a \in SeqNo /\ b \in SeqNo /\ a \in Int /\ b \in Int
      /\ 0 <= a /\ a < Modulus /\ 0 <= b /\ b < Modulus
  BY <1>2, ModulusAssumption DEF a, b, SeqNo
<1>6. a - b \in {j - k, j - k - Modulus, j - k + Modulus}
  BY <1>1, <1>3, <1>4, <1>5, ModulusAssumption DEF a, b
<1>7. Delta(a, b) = j - k
  BY <1>5, <1>6, DeltaCases, ModulusAssumption
<1> QED
  BY <1>7 DEF a, b

(* Two numbers of one session are told apart after truncation. *)
LEMMA WrapInjective ==
  ASSUME NEW iss \in SeqNo, NEW j \in Int, NEW k \in Int,
         -1 <= j, 2 * j < Modulus, -1 <= k, 2 * k < Modulus,
         Wrap(iss + j) = Wrap(iss + k)
  PROVE  j = k
<1>1. iss \in Int /\ 0 <= iss /\ iss < Modulus /\ iss + j \in Int /\ iss + k \in Int
  BY ModulusAssumption DEF SeqNo
<1>3. /\ iss + j < 0 => Wrap(iss + j) = iss + j + Modulus
      /\ iss + j >= Modulus => Wrap(iss + j) = iss + j - Modulus
      /\ 0 <= iss + j /\ iss + j < Modulus => Wrap(iss + j) = iss + j
  BY <1>1, WrapCases, ModulusAssumption
<1>4. /\ iss + k < 0 => Wrap(iss + k) = iss + k + Modulus
      /\ iss + k >= Modulus => Wrap(iss + k) = iss + k - Modulus
      /\ 0 <= iss + k /\ iss + k < Modulus => Wrap(iss + k) = iss + k
  BY <1>1, WrapCases, ModulusAssumption
<1> QED
  BY <1>1, <1>3, <1>4, ModulusAssumption

(* ++ on a truncated number. *)
LEMMA WrapSucc ==
  ASSUME NEW iss \in SeqNo, NEW j \in Int, -1 <= j, 2 * j < Modulus
  PROVE  Wrap(Wrap(iss + j) + 1) = Wrap(iss + j + 1)
<1>1. iss \in Int /\ 0 <= iss /\ iss < Modulus /\ iss + j \in Int /\ iss + j + 1 \in Int
  BY ModulusAssumption DEF SeqNo
<1>2. /\ iss + j < 0 => Wrap(iss + j) = iss + j + Modulus
      /\ iss + j >= Modulus => Wrap(iss + j) = iss + j - Modulus
      /\ 0 <= iss + j /\ iss + j < Modulus => Wrap(iss + j) = iss + j
  BY <1>1, WrapCases, ModulusAssumption
<1>3. Wrap(iss + j) \in Int /\ 0 <= Wrap(iss + j) /\ Wrap(iss + j) < Modulus
  BY <1>1, WrapType, ModulusAssumption DEF SeqNo
<1>4. Wrap(iss + j) + 1 \in Int
  BY <1>3
<1>5. /\ Wrap(iss + j) + 1 < Modulus => Wrap(Wrap(iss + j) + 1) = Wrap(iss + j) + 1
      /\ Wrap(iss + j) + 1 = Modulus => Wrap(Wrap(iss + j) + 1) = 0
  BY <1>3, <1>4, WrapCases, ModulusAssumption
<1>6. /\ iss + j + 1 >= Modulus => Wrap(iss + j + 1) = iss + j + 1 - Modulus
      /\ 0 <= iss + j + 1 /\ iss + j + 1 < Modulus => Wrap(iss + j + 1) = iss + j + 1
  BY <1>1, WrapCases, ModulusAssumption
<1> QED
  BY <1>1, <1>2, <1>3, <1>5, <1>6, ModulusAssumption

-----------------------------------------------------------------------------
(* A nonempty set of naturals has a least element. *)
LEMMA LeastNat ==
  ASSUME NEW S, S \subseteq Nat, S # {}
  PROVE  \E m \in S : \A n \in S : m <= n
<1>1. IsWellFoundedOn(OpToRel(<, Nat), Nat)
  BY NatLessThanWellFounded
<1>2. PICK m \in S : \A n \in Nat : <<n, m>> \in OpToRel(<, Nat) => n \notin S
  BY <1>1, WFMin, Zenon
<1>3. ASSUME NEW n \in S, ~ (m <= n) PROVE FALSE
  <2>1. n \in Nat /\ m \in Nat /\ n < m
    BY <1>3
  <2>2. <<n, m>> \in OpToRel(<, Nat)
    BY <2>1, Zenon DEF OpToRel
  <2> QED
    BY <1>2, <2>1, <2>2
<1> QED
  BY <1>3

(* peer_handle_ack removes the longest prefix of acknowledged packets. *)
LEMMA FirstUnackedIsFirst ==
  ASSUME NEW q, Len(q) \in Nat, NEW ack
  PROVE  LET k == FirstUnacked(q, ack) IN
         /\ k \in 1 .. Len(q) + 1
         /\ \A i \in 1 .. k - 1 : Acknowledged(q[i], ack)
         /\ k <= Len(q) => ~ Acknowledged(q[k], ack)
<1> DEFINE Stop == {i \in 1 .. Len(q) + 1 :
                      i = Len(q) + 1 \/ ~ Acknowledged(q[i], ack)}
<1>1. Stop \subseteq Nat /\ Stop # {}
  <2>1. Len(q) + 1 \in Stop
    OBVIOUS
  <2> QED
    BY <2>1
<1>2. PICK m \in Stop : \A n \in Stop : m <= n
  BY <1>1, LeastNat
<1>3. m \in 1 .. Len(q) + 1 /\ (m <= Len(q) => ~ Acknowledged(q[m], ack))
  BY <1>2
<1>4. \A i \in 1 .. m - 1 : Acknowledged(q[i], ack)
  BY <1>2, <1>3
<1> DEFINE First(k) == /\ \A i \in 1 .. k - 1 : Acknowledged(q[i], ack)
                       /\ k <= Len(q) => ~ Acknowledged(q[k], ack)
<1>5. \E k \in 1 .. Len(q) + 1 : First(k)
  BY <1>3, <1>4
<1> HIDE DEF First
<1>6. FirstUnacked(q, ack) = CHOOSE k \in 1 .. Len(q) + 1 : First(k)
  BY DEF FirstUnacked, First
<1>7. FirstUnacked(q, ack) \in 1 .. Len(q) + 1 /\ First(FirstUnacked(q, ack))
  BY <1>5, <1>6
<1> QED
  BY <1>7 DEF First

(* Ordered(S) lists a set of numbers completely and in increasing order:   *)
(* the rank is an injection of S into 1 .. Cardinality(S), hence onto.     *)
LEMMA OrderedLists ==
  ASSUME NEW S \in SUBSET Int, IsFiniteSet(S)
  PROVE  LET f == Ordered(S)
             n == Cardinality(S)
         IN  /\ n \in Nat
             /\ DOMAIN f = 1 .. n
             /\ \A i \in 1 .. n : f[i] \in S
             /\ \A i, j \in 1 .. n : i < j => f[i] < f[j]
             /\ \A s \in S : \E i \in 1 .. n : f[i] = s
<1> DEFINE n == Cardinality(S)
           B(s) == {t \in S : t <= s}
           R == [s \in S |-> Rank(S, s)]
           f == Ordered(S)
<1>0. \A s \in S : s \in Int
  OBVIOUS
<1>1. n \in Nat
  BY FS_CardinalityType
<1>2. \A s \in S : Rank(S, s) \in 1 .. n
  <2> SUFFICES ASSUME NEW s \in S
               PROVE  Rank(S, s) \in 1 .. n
    OBVIOUS
  <2>1. IsFiniteSet(B(s)) /\ Cardinality(B(s)) <= n /\ Cardinality(B(s)) \in Nat
    BY FS_Subset, FS_CardinalityType, B(s) \in SUBSET S
  <2>2. Cardinality(B(s)) # 0
    BY <2>1, FS_EmptySet, s \in B(s)
  <2> QED
    BY <1>1, <2>1, <2>2 DEF Rank
<1>3. \A s \in S, t \in S : s < t => Rank(S, s) < Rank(S, t)
  <2> SUFFICES ASSUME NEW s \in S, NEW t \in S, s < t
               PROVE  Rank(S, s) < Rank(S, t)
    OBVIOUS
  <2>1. IsFiniteSet(B(t))
    BY FS_Subset, B(t) \in SUBSET S
  <2>2. B(s) \in SUBSET B(t) /\ t \in B(t) /\ t \notin B(s)
    <3>1. \A u \in S : u <= s => u <= t
      BY <1>0
    <3>2. t <= t /\ ~ (t <= s)
      BY <1>0
    <3> QED
      BY <3>1, <3>2
  <2>3. Cardinality(B(s)) <= Cardinality(B(t)) /\ Cardinality(B(s)) # Cardinality(B(t))
    BY <2>1, <2>2, FS_Subset
  <2>4. Cardinality(B(s)) \in Nat /\ Cardinality(B(t)) \in Nat
    BY <1>2 DEF Rank
  <2> QED
    BY <2>3, <2>4 DEF Rank
<1>4. \A s \in S, t \in S : Rank(S, s) = Rank(S, t) => s = t
  <2> SUFFICES ASSUME NEW s \in S, NEW t \in S, s # t
               PROVE  Rank(S, s) # Rank(S, t)
    OBVIOUS
  <2>1. s < t \/ t < s
    OBVIOUS
  <2> QED
    BY <1>2, <1>3, <2>1
<1>5. R \in Injection(S, 1 .. n)
  BY <1>2, <1>4 DEF Injection, IsInjective
<1>6. IsFiniteSet(1 .. n) /\ Cardinality(1 .. n) = n
  BY <1>1, FS_Interval
<1>7. R \in Surjection(S, 1 .. n)
  BY <1>5, <1>6, FS_Injection
<1>8. \A i \in 1 .. n : \E s \in S : Rank(S, s) = i
  BY <1>7 DEF Surjection
<1>9. \A i \in 1 .. n : f[i] \in S /\ Rank(S, f[i]) = i
  <2> SUFFICES ASSUME NEW i \in 1 .. n
               PROVE  f[i] \in S /\ Rank(S, f[i]) = i
    OBVIOUS
  <2>1. f[i] = CHOOSE s \in S : Rank(S, s) = i
    BY DEF Ordered
  <2> QED
    BY <1>8, <2>1
<1>10. DOMAIN f = 1 .. n
  BY DEF Ordered
<1> HIDE DEF n, f
<1>11. \A i, j \in 1 .. n : i < j => f[i] < f[j]
  <2> SUFFICES ASSUME NEW i \in 1 .. n, NEW j \in 1 .. n, i < j
               PROVE  f[i] < f[j]
    OBVIOUS
  <2>1. f[i] \in S /\ f[j] \in S /\ Rank(S, f[i]) = i /\ Rank(S, f[j]) = j
    BY <1>9
  <2>2. f[i] \in Int /\ f[j] \in Int /\ f[i] # f[j]
    <3>1. i # j
      BY <1>1
    <3> QED
      BY <1>0, <2>1, <3>1
  <2>3. CASE f[j] < f[i]
    <3>1. j < i
      BY <1>3, <2>1, <2>3
    <3> QED
      BY <1>1, <3>1
  <2> QED
    BY <2>2, <2>3
<1>12. \A s \in S : f[Rank(S, s)] = s /\ Rank(S, s) \in 1 .. n
  BY <1>2, <1>4, <1>9
<1> QED
  BY <1>1, <1>9, <1>10, <1>11, <1>12 DEF n, f

(* The packets that stay queued are listed by an increasing function. *)
LEMMA KeptOrdered ==
  ASSUME NEW q, Len(q) \in Nat
  PROVE  LET f == Ordered(Kept(q)) IN
         \E n \in Nat :
            /\ DOMAIN f = 1 .. n
            /\ \A i \in 1 .. n : f[i] \in Kept(q) /\ f[i] \in 1 .. Len(q)
            /\ \A i, j \in 1 .. n : i < j => f[i] < f[j]
            /\ \A s \in Kept(q) : \E i \in 1 .. n : f[i] = s
<1>1. Kept(q) \subseteq 1 .. Len(q)
  BY DEF Kept
<1>2. IsFiniteSet(1 .. Len(q))
  BY FS_Interval
<1>3. IsFiniteSet(Kept(q)) /\ Kept(q) \in SUBSET Int
  BY <1>1, <1>2, FS_Subset
<1> DEFINE f == Ordered(Kept(q))
<1> HIDE DEF f
<1>4. LET n == Cardinality(Kept(q))
      IN  /\ n \in Nat
          /\ DOMAIN f = 1 .. n
          /\ \A i \in 1 .. n : f[i] \in Kept(q)
          /\ \A i, j \in 1 .. n : i < j => f[i] < f[j]
          /\ \A s \in Kept(q) : \E i \in 1 .. n : f[i] = s
  BY <1>3, OrderedLists DEF f
<1> QED
  BY <1>1, <1>4 DEF f

-----------------------------------------------------------------------------
(* Every function of the peer returns a well-formed peer. *)

LEMMA PeerFields ==
  ASSUME NEW p \in rudp_peer
  PROVE  /\ p.state \in peer_state /\ p.sendq \in Seq(Packet)
         /\ p.in_seq_reliable \in SeqNo /\ p.in_seq_unreliable \in SeqNo
         /\ p.out_seq_reliable \in SeqNo /\ p.out_seq_unreliable \in SeqNo
         /\ p.out_seq_acked \in SeqNo /\ p.must_ack \in BOOLEAN
         /\ p.scheduled \in BOOLEAN /\ p.iss \in SeqNo
         /\ p.issued \in Nat /\ p.rcvd \in Nat
         /\ p.issued + 1 \in Nat /\ p.rcvd + 1 \in Nat
  BY DEF rudp_peer

LEMMA SeqNoInt ==
  /\ 0 \in SeqNo
  /\ \A n \in SeqNo : n \in Int /\ n \in Nat /\ 0 <= n /\ n < Modulus
  BY ModulusAssumption DEF SeqNo

LEMMA SuccType == \A n \in SeqNo : Wrap(n + 1) \in SeqNo
  BY WrapType, SeqNoInt

LEMMA ResetType ==
  ASSUME NEW r \in SeqNo
  PROVE  rudp_peer_reset(r) \in rudp_peer
<1>1. Wrap(-1) \in SeqNo /\ Wrap(r - 1) \in SeqNo /\ 0 \in SeqNo
  BY WrapType, ModulusAssumption DEF SeqNo
<1> QED
  BY <1>1 DEF rudp_peer_reset, rudp_peer, peer_state

LEMMA ScheduleType ==
  ASSUME NEW p \in rudp_peer
  PROVE  peer_service_schedule(p) \in rudp_peer
  BY DEF peer_service_schedule, rudp_peer

LEMMA DeinitType ==
  ASSUME NEW p \in rudp_peer, NEW r \in SeqNo
  PROVE  rudp_peer_deinit(p, r) \in rudp_peer
  BY ResetType DEF rudp_peer_deinit, rudp_peer

LEMMA SendUnreliableType ==
  ASSUME NEW p \in rudp_peer, NEW c \in Command
  PROVE  rudp_peer_send_unreliable(p, c) \in rudp_peer
<1> DEFINE u == Wrap(p.out_seq_unreliable + 1)
           pc == [cmd |-> c, rel |-> FALSE, ret |-> FALSE, ack |-> NoAck,
                  seq |-> p.out_seq_reliable, useq |-> u, pos |-> p.issued]
<1>1. u \in SeqNo
  BY SuccType, PeerFields
<1>2. pc \in Packet
  BY <1>1 DEF Packet, rudp_peer
<1> HIDE DEF u, pc
<1>3. Append(p.sendq, pc) \in Seq(Packet)
  BY <1>2 DEF rudp_peer
<1> QED
  BY <1>1, <1>3 DEF rudp_peer_send_unreliable, peer_service_schedule, rudp_peer, u, pc

LEMMA SendReliableType ==
  ASSUME NEW p \in rudp_peer, NEW c \in Command
  PROVE  rudp_peer_send_reliable(p, c) \in rudp_peer
<1> DEFINE s == Wrap(p.out_seq_reliable + 1)
           pc == [cmd |-> c, rel |-> TRUE, ret |-> FALSE, ack |-> NoAck,
                  seq |-> s, useq |-> 0, pos |-> p.issued + 1]
<1>1. s \in SeqNo /\ 0 \in SeqNo /\ p.issued + 1 \in Nat
  BY SuccType, SeqNoInt, PeerFields
<1>2. pc \in Packet
  BY <1>1 DEF Packet, rudp_peer
<1> HIDE DEF s, pc
<1>3. Append(p.sendq, pc) \in Seq(Packet)
  BY <1>2 DEF rudp_peer
<1> DEFINE q == Append(p.sendq, pc)
           n == p.issued + 1
<1>4. rudp_peer_send_reliable(p, c) =
        [[p EXCEPT !.out_seq_reliable = s, !.out_seq_unreliable = 0,
                   !.issued = n, !.sendq = q] EXCEPT !.scheduled = TRUE]
  BY DEF rudp_peer_send_reliable, peer_service_schedule, s, pc
<1>5. q \in Seq(Packet) /\ n \in Nat
  BY <1>1, <1>3
<1> HIDE DEF q, n
<1> QED
  BY <1>1, <1>4, <1>5 DEF rudp_peer

LEMMA StampedType ==
  ASSUME NEW p \in rudp_peer, NEW pc \in Packet
  PROVE  Stamped(p, pc) \in Packet
  BY DEF Stamped, rudp_peer, Packet

LEMMA SendQueueType ==
  ASSUME NEW p \in rudp_peer
  PROVE  /\ peer_send_queue(p) \in rudp_peer
         /\ Transmitted(p) \subseteq Packet
<1> DEFINE f == Ordered(Kept(p.sendq))
<1>1. p.sendq \in Seq(Packet) /\ Len(p.sendq) \in Nat
      /\ \A i \in 1 .. Len(p.sendq) : p.sendq[i] \in Packet
  BY DEF rudp_peer
<1>2. PICK n \in Nat : DOMAIN f = 1 .. n /\ \A i \in 1 .. n : f[i] \in 1 .. Len(p.sendq)
  BY <1>1, KeptOrdered
<1>3. \A i \in 1 .. Len(p.sendq) : Requeued(p, i) \in Packet
  <2> SUFFICES ASSUME NEW i \in 1 .. Len(p.sendq)
               PROVE  Requeued(p, i) \in Packet
    OBVIOUS
  <2>1. Stamped(p, p.sendq[i]) \in Packet
    BY <1>1, StampedType
  <2> DEFINE st == Stamped(p, p.sendq[i])
  <2> HIDE DEF st
  <2>2. [st EXCEPT !.ret = TRUE] \in Packet
    BY <2>1 DEF st, Packet
  <2> QED
    BY <1>1, <2>2 DEF Requeued, st
<1>4. [i \in DOMAIN f |-> Requeued(p, f[i])] \in Seq(Packet)
  BY <1>2, <1>3
<1>5. peer_send_queue(p) \in rudp_peer
  BY <1>4 DEF peer_send_queue, rudp_peer
<1>6. Transmitted(p) \subseteq Packet
  BY <1>1, StampedType DEF Transmitted, Visited
<1> QED
  BY <1>5, <1>6

LEMMA HandleAckType ==
  ASSUME NEW p \in rudp_peer, NEW ack \in SeqNo
  PROVE  peer_handle_ack(p, ack) \in rudp_peer
<1> DEFINE q == p.sendq
           k == FirstUnacked(q, ack)
<1>1. q \in Seq(Packet) /\ Len(q) \in Nat
  BY DEF rudp_peer
<1>2. k \in 1 .. Len(q) + 1
  BY <1>1, FirstUnackedIsFirst
<1> HIDE DEF k
<1>3. SubSeq(q, k, Len(q)) \in Seq(Packet)
  BY <1>1, <1>2, SubSeqProperties
<1> QED
  BY <1>3 DEF peer_handle_ack, rudp_peer, k

LEMMA AckHandledType ==
  ASSUME NEW p \in rudp_peer, NEW pc \in Packet
  PROVE  AckHandled(p, pc) \in rudp_peer
<1>1. pc.ack # NoAck => pc.ack \in SeqNo
  BY DEF Packet
<1> QED
  BY <1>1, HandleAckType DEF AckHandled

LEMMA SequencedType ==
  ASSUME NEW p \in rudp_peer, NEW pc \in Packet
  PROVE  Sequenced(p, pc) \in rudp_peer
<1>1. 0 \in SeqNo /\ pc.seq \in SeqNo /\ pc.useq \in SeqNo
  BY SeqNoInt DEF Packet
<1>2. p.rcvd + 1 \in Nat
  BY PeerFields
<1>3. CASE pc.rel
  BY <1>1, <1>2, <1>3 DEF Sequenced, rudp_peer
<1>4. CASE ~ pc.rel
  BY <1>1, <1>4 DEF Sequenced, rudp_peer
<1> QED
  BY <1>3, <1>4

LEMMA FinishedType ==
  ASSUME NEW p \in rudp_peer, NEW pc \in Packet
  PROVE  Finished(p, pc) \in rudp_peer
<1> DEFINE m == [p EXCEPT !.must_ack = TRUE]
<1>1. m \in rudp_peer /\ m.sendq = p.sendq
  BY DEF rudp_peer
<1> HIDE DEF m
<1>2. rudp_peer_send_unreliable(m, "NOOP") \in rudp_peer
  BY <1>1, SendUnreliableType DEF Command
<1>3. peer_post_ack(p) \in rudp_peer
  BY <1>1, <1>2 DEF peer_post_ack, m
<1> QED
  BY <1>3, ScheduleType DEF Finished

(* What the queueing functions leave in each field. *)

LEMMA SendUnreliableFields ==
  ASSUME NEW p \in rudp_peer, NEW c \in Command
  PROVE  LET p2 == rudp_peer_send_unreliable(p, c) IN
         /\ p2.sendq = Append(p.sendq,
              [cmd |-> c, rel |-> FALSE, ret |-> FALSE, ack |-> NoAck,
               seq |-> p.out_seq_reliable,
               useq |-> Wrap(p.out_seq_unreliable + 1), pos |-> p.issued])
         /\ p2.out_seq_unreliable = Wrap(p.out_seq_unreliable + 1)
         /\ p2.state = p.state /\ p2.in_seq_reliable = p.in_seq_reliable
         /\ p2.in_seq_unreliable = p.in_seq_unreliable
         /\ p2.out_seq_reliable = p.out_seq_reliable
         /\ p2.out_seq_acked = p.out_seq_acked /\ p2.must_ack = p.must_ack
         /\ p2.iss = p.iss /\ p2.issued = p.issued /\ p2.rcvd = p.rcvd
         /\ p2.scheduled = TRUE
  BY DEF rudp_peer_send_unreliable, peer_service_schedule, rudp_peer

LEMMA SendReliableFields ==
  ASSUME NEW p \in rudp_peer, NEW c \in Command
  PROVE  LET p2 == rudp_peer_send_reliable(p, c) IN
         /\ p2.sendq = Append(p.sendq,
              [cmd |-> c, rel |-> TRUE, ret |-> FALSE, ack |-> NoAck,
               seq |-> Wrap(p.out_seq_reliable + 1),
               useq |-> 0, pos |-> p.issued + 1])
         /\ p2.out_seq_unreliable = 0
         /\ p2.state = p.state /\ p2.in_seq_reliable = p.in_seq_reliable
         /\ p2.in_seq_unreliable = p.in_seq_unreliable
         /\ p2.out_seq_reliable = Wrap(p.out_seq_reliable + 1)
         /\ p2.out_seq_acked = p.out_seq_acked /\ p2.must_ack = p.must_ack
         /\ p2.iss = p.iss /\ p2.issued = p.issued + 1 /\ p2.rcvd = p.rcvd
         /\ p2.scheduled = TRUE
  BY DEF rudp_peer_send_reliable, peer_service_schedule, rudp_peer

(* What transmission leaves in a packet. *)

LEMMA StampedFields ==
  ASSUME NEW p \in rudp_peer, NEW pc \in Packet
  PROVE  /\ Stamped(p, pc).cmd = pc.cmd /\ Stamped(p, pc).rel = pc.rel
         /\ Stamped(p, pc).ret = pc.ret /\ Stamped(p, pc).seq = pc.seq
         /\ Stamped(p, pc).useq = pc.useq /\ Stamped(p, pc).pos = pc.pos
         /\ Stamped(p, pc).ack \in {pc.ack, p.in_seq_reliable}
  BY DEF Stamped, Packet

LEMMA RequeuedFields ==
  ASSUME NEW p \in rudp_peer, NEW i \in 1 .. Len(p.sendq)
  PROVE  /\ Requeued(p, i).cmd = p.sendq[i].cmd
         /\ Requeued(p, i).rel = p.sendq[i].rel
         /\ Requeued(p, i).pos = p.sendq[i].pos
         /\ i \in Visited(p.sendq) => Requeued(p, i).ret = TRUE
         /\ i \notin Visited(p.sendq) => Requeued(p, i) = p.sendq[i]
<1>1. p.sendq[i] \in Packet
  BY PeerFields
<1>2. Stamped(p, p.sendq[i]) \in Packet
  BY <1>1, StampedType
<1>3. CASE i \in Visited(p.sendq)
  <2> DEFINE st == Stamped(p, p.sendq[i])
  <2>1. st.cmd = p.sendq[i].cmd /\ st.rel = p.sendq[i].rel
        /\ st.pos = p.sendq[i].pos
    BY <1>1, StampedFields
  <2> HIDE DEF st
  <2>2. Requeued(p, i) = [st EXCEPT !.ret = TRUE]
    BY <1>3 DEF Requeued, st
  <2> QED
    BY <1>2, <1>3, <2>1, <2>2 DEF Packet, st
<1>4. CASE i \notin Visited(p.sendq)
  BY <1>4 DEF Requeued
<1> QED
  BY <1>3, <1>4

-----------------------------------------------------------------------------
(* Acknowledgements *)

(* Nothing but peer_handle_ack writes out_seq_acked. *)
LEMMA AckedIsKept ==
  ASSUME NEW p \in rudp_peer, NEW c, NEW pc
  PROVE  /\ peer_service_schedule(p).out_seq_acked = p.out_seq_acked
         /\ rudp_peer_send_unreliable(p, c).out_seq_acked = p.out_seq_acked
         /\ rudp_peer_send_reliable(p, c).out_seq_acked = p.out_seq_acked
         /\ peer_send_queue(p).out_seq_acked = p.out_seq_acked
         /\ Sequenced(p, pc).out_seq_acked = p.out_seq_acked
  BY DEF rudp_peer, peer_service_schedule, rudp_peer_send_unreliable,
         rudp_peer_send_reliable, peer_send_queue, Sequenced

LEMMA FinishedKeepsAcked ==
  ASSUME NEW p \in rudp_peer, NEW pc
  PROVE  Finished(p, pc).out_seq_acked = p.out_seq_acked
<1> DEFINE m == [p EXCEPT !.must_ack = TRUE]
           n == IF pc.rel THEN peer_post_ack(p) ELSE p
<1>1. m \in rudp_peer /\ m.out_seq_acked = p.out_seq_acked
  BY DEF rudp_peer
<1>2. rudp_peer_send_unreliable(m, "NOOP") \in rudp_peer
  BY <1>1, SendUnreliableType DEF Command
<1>3. n \in rudp_peer /\ n.out_seq_acked = p.out_seq_acked
  <2>1. n = p \/ n = m \/ n = rudp_peer_send_unreliable(m, "NOOP")
    BY DEF peer_post_ack
  <2> HIDE DEF m, n
  <2> QED
    BY <1>1, <1>2, <2>1, AckedIsKept
<1> HIDE DEF n
<1>4. Finished(p, pc) = peer_service_schedule(n)
  BY DEF Finished, n
<1> QED
  BY <1>3, <1>4, AckedIsKept

(* peer_handle_ack takes over an acknowledgement that is not in the past,  *)
(* or nothing.                                                             *)
LEMMA HandleAckForward ==
  ASSUME NEW p \in rudp_peer, NEW ack \in SeqNo
  PROVE  LET a == peer_handle_ack(p, ack).out_seq_acked IN
         /\ a = IF AckInPast(p, ack) \/ BrokenAck(p, ack) THEN p.out_seq_acked ELSE ack
         /\ Delta(a, p.out_seq_acked) >= 0
<1>1. p.out_seq_acked \in SeqNo
  BY PeerFields
<1>2. Delta(p.out_seq_acked, p.out_seq_acked) = 0
  BY <1>1, DeltaCases, SeqNoInt, ModulusAssumption
<1>3. Delta(ack, p.out_seq_acked) \in Int
  BY <1>1, DeltaType, SeqNoInt
<1>4. CASE AckInPast(p, ack) \/ BrokenAck(p, ack)
  <2>1. peer_handle_ack(p, ack) = p
    BY <1>4 DEF peer_handle_ack
  <2> QED
    BY <1>2, <1>4, <2>1
<1>5. CASE ~ (AckInPast(p, ack) \/ BrokenAck(p, ack))
  <2>1. peer_handle_ack(p, ack).out_seq_acked = ack
    BY <1>5 DEF peer_handle_ack, rudp_peer
  <2>2. Delta(ack, p.out_seq_acked) >= 0
    BY <1>3, <1>5 DEF AckInPast
  <2> QED
    BY <1>5, <2>1, <2>2
<1> QED
  BY <1>4, <1>5

LEMMA AckHandledForward ==
  ASSUME NEW p \in rudp_peer, NEW pc \in Packet
  PROVE  Delta(AckHandled(p, pc).out_seq_acked, p.out_seq_acked) >= 0
<1>1. Delta(p.out_seq_acked, p.out_seq_acked) = 0
  BY PeerFields, DeltaCases, SeqNoInt, ModulusAssumption
<1>2. CASE pc.ack = NoAck
  BY <1>1, <1>2 DEF AckHandled
<1>3. CASE pc.ack # NoAck
  <2>1. pc.ack \in SeqNo
    BY <1>3 DEF Packet
  <2> QED
    BY <1>3, <2>1, HandleAckForward DEF AckHandled
<1> QED
  BY <1>2, <1>3

(* The second call of peer_handle_ack for a CONN_RSP changes nothing. *)
LEMMA AckHandledTwice ==
  ASSUME NEW p \in rudp_peer, NEW g \in rudp_peer, NEW pc \in Packet,
         g.out_seq_acked = AckHandled(p, pc).out_seq_acked,
         g.out_seq_reliable = p.out_seq_reliable
  PROVE  AckHandled(g, pc).out_seq_acked = AckHandled(p, pc).out_seq_acked
<1>1. CASE pc.ack = NoAck
  BY <1>1 DEF AckHandled
<1>2. CASE pc.ack # NoAck
  <2> DEFINE k == pc.ack
  <2>1. k \in SeqNo
    BY <1>2 DEF Packet
  <2> HIDE DEF k
  <2>2. /\ AckHandled(p, pc).out_seq_acked =
             IF AckInPast(p, k) \/ BrokenAck(p, k) THEN p.out_seq_acked ELSE k
        /\ AckHandled(g, pc).out_seq_acked =
             IF AckInPast(g, k) \/ BrokenAck(g, k) THEN g.out_seq_acked ELSE k
    BY <1>2, <2>1, HandleAckForward DEF AckHandled, k
  <2>3. CASE AckInPast(p, k) \/ BrokenAck(p, k)
    <3>1. g.out_seq_acked = p.out_seq_acked
      BY <2>2, <2>3
    <3>2. AckInPast(g, k) \/ BrokenAck(g, k)
      BY <2>3, <3>1 DEF AckInPast, BrokenAck
    <3> QED
      BY <2>2, <3>2
  <2>4. CASE ~ (AckInPast(p, k) \/ BrokenAck(p, k))
    BY <2>2, <2>4
  <2> QED
    BY <2>3, <2>4
<1> QED
  BY <1>1, <1>2

=============================================================================
