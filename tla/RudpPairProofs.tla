--------------------------- MODULE RudpPairProofs ---------------------------
(***************************************************************************)
(* Proofs about RudpPair: each of two peers that exchange packets takes    *)
(* only steps of RudpTimer, so that the theorems of RudpTimerProofs hold   *)
(* for it.                                                                 *)
(*                                                                         *)
(* RudpTimer counts the packets of a queue where RudpPeer lists them.      *)
(* What has to be shown is that every function of the peer, loops          *)
(* included, does to the list what RudpTimer does to the counts.  That     *)
(* rests on one fact about the list: the packets that were transmitted     *)
(* come first (SentFirst).                                                 *)
(***************************************************************************)
EXTENDS RudpPair, RudpPeerProofs

(* Transmitted packets come before all others, as peer_send_queue, which   *)
(* stops at the first one, and peer_service_schedule, which looks at the   *)
(* head only, take for granted.                                            *)
SentFirst(q) ==
    \A i, j \in 1 .. Len(q) :
        i < j /\ Retransmission(q[j]) => Retransmission(q[i])

(* A PONG is never reliable, so it is answered by no ACK. *)
PongIsPlain(q) == \A i \in 1 .. Len(q) : q[i].cmd = "PONG" => ~ q[i].rel

(* RUDP_OPT_RETRANSMITTED is set in reliable packets only: the others have *)
(* left the queue.                                                         *)
SentIsReliable(q) == \A i \in 1 .. Len(q) : q[i].ret => q[i].rel

PairInv ==
    /\ TypeOK
    /\ \A x \in Side :
          /\ SentFirst(peer[x].sendq) /\ SentIsReliable(peer[x].sendq)
          /\ PongIsPlain(peer[x].sendq) /\ PongIsPlain(wire[x])

-----------------------------------------------------------------------------
(* Counting the packets of a queue *)

SentAt(q) == {i \in DOMAIN q : q[i].rel /\ q[i].ret}
FreshAt(q) == {i \in DOMAIN q : q[i].rel /\ ~ q[i].ret}
PlainAt(q) == {i \in DOMAIN q : ~ q[i].rel}

LEMMA SeenIs ==
  ASSUME NEW q
  PROVE  Seen(q) = [sent  |-> Cardinality(SentAt(q)),
                    fresh |-> Cardinality(FreshAt(q)),
                    plain |-> Cardinality(PlainAt(q))]
  BY DEF Seen, Count, SentAt, FreshAt, PlainAt

LEMMA QueueFacts ==
  ASSUME NEW q \in Seq(Packet)
  PROVE  /\ Len(q) \in Nat /\ DOMAIN q = 1 .. Len(q)
         /\ \A i \in 1 .. Len(q) : q[i] \in Packet
         /\ q = << >> <=> Len(q) = 0
  OBVIOUS

LEMMA PlacesAreFinite ==
  ASSUME NEW q \in Seq(Packet)
  PROVE  /\ IsFiniteSet(SentAt(q)) /\ Cardinality(SentAt(q)) \in Nat
         /\ IsFiniteSet(FreshAt(q)) /\ Cardinality(FreshAt(q)) \in Nat
         /\ IsFiniteSet(PlainAt(q)) /\ Cardinality(PlainAt(q)) \in Nat
<1>1. IsFiniteSet(DOMAIN q)
  BY QueueFacts, FS_Interval
<1>2. /\ SentAt(q) \in SUBSET DOMAIN q /\ FreshAt(q) \in SUBSET DOMAIN q
      /\ PlainAt(q) \in SUBSET DOMAIN q
  BY DEF SentAt, FreshAt, PlainAt
<1> QED
  BY <1>1, <1>2, FS_Subset, FS_CardinalityType

LEMMA SeenType ==
  ASSUME NEW q \in Seq(Packet)
  PROVE  Seen(q) \in [sent : Nat, fresh : Nat, plain : Nat]
  BY SeenIs, PlacesAreFinite

(* Nothing is counted of an empty queue only. *)
LEMMA SeenEmpty ==
  ASSUME NEW q \in Seq(Packet)
  PROVE  /\ Seen(q) = [sent |-> 0, fresh |-> 0, plain |-> 0] <=> q = << >>
         /\ Seen(q).sent > 0 <=> \E i \in 1 .. Len(q) : Retransmission(q[i])
<1>1. /\ Cardinality(SentAt(q)) = 0 <=> SentAt(q) = {}
      /\ Cardinality(FreshAt(q)) = 0 <=> FreshAt(q) = {}
      /\ Cardinality(PlainAt(q)) = 0 <=> PlainAt(q) = {}
  BY PlacesAreFinite, FS_EmptySet
<1>2. SentAt(q) = {} /\ FreshAt(q) = {} /\ PlainAt(q) = {} <=> DOMAIN q = {}
  BY DEF SentAt, FreshAt, PlainAt
<1>3. DOMAIN q = {} <=> q = << >>
  BY QueueFacts
<1>4. /\ Seen(q).sent = Cardinality(SentAt(q))
      /\ Seen(q).fresh = Cardinality(FreshAt(q))
      /\ Seen(q).plain = Cardinality(PlainAt(q))
  BY SeenIs
<1>5. Seen(q) = [sent |-> 0, fresh |-> 0, plain |-> 0] <=> q = << >>
  <2>1. Seen(q) = [sent |-> 0, fresh |-> 0, plain |-> 0]
          <=> /\ Cardinality(SentAt(q)) = 0 /\ Cardinality(FreshAt(q)) = 0
              /\ Cardinality(PlainAt(q)) = 0
    BY SeenIs
  <2> QED
    BY <1>1, <1>2, <1>3, <2>1
<1>6. SentAt(q) # {} <=> \E i \in 1 .. Len(q) : Retransmission(q[i])
  BY QueueFacts DEF SentAt, Retransmission
<1>7. Seen(q).sent > 0 <=> SentAt(q) # {}
  BY <1>1, <1>4, PlacesAreFinite
<1> QED
  BY <1>5, <1>6, <1>7

(* Only the flags count. *)
LEMMA SeenSameFlags ==
  ASSUME NEW q, NEW r, DOMAIN r = DOMAIN q,
         \A i \in DOMAIN q : r[i].rel = q[i].rel /\ r[i].ret = q[i].ret
  PROVE  Seen(r) = Seen(q)
<1>1. SentAt(r) = SentAt(q) /\ FreshAt(r) = FreshAt(q) /\ PlainAt(r) = PlainAt(q)
  BY DEF SentAt, FreshAt, PlainAt
<1> QED
  BY <1>1, SeenIs

(* A packet that is queued is counted by its kind. *)
LEMMA SeenAppend ==
  ASSUME NEW q \in Seq(Packet), NEW pc \in Packet, ~ pc.ret
  PROVE  Seen(Append(q, pc)) =
           IF pc.rel THEN [Seen(q) EXCEPT !.fresh = @ + 1]
                     ELSE [Seen(q) EXCEPT !.plain = @ + 1]
<1> DEFINE r == Append(q, pc)
           n == Len(q) + 1
<1>1. /\ DOMAIN r = 1 .. n /\ r[n] = pc /\ n \notin 1 .. Len(q)
      /\ \A i \in 1 .. Len(q) : r[i] = q[i] /\ i \in 1 .. n
      /\ \A i \in 1 .. n : i = n \/ i \in 1 .. Len(q)
      /\ n \in 1 .. n
  BY QueueFacts
<1> HIDE DEF r, n
<1>2. DOMAIN q = 1 .. Len(q)
  BY QueueFacts
<1>3. /\ SentAt(r) = SentAt(q)
      /\ FreshAt(r) = IF pc.rel THEN FreshAt(q) \cup {n} ELSE FreshAt(q)
      /\ PlainAt(r) = IF pc.rel THEN PlainAt(q) ELSE PlainAt(q) \cup {n}
      /\ n \notin FreshAt(q) /\ n \notin PlainAt(q)
  BY <1>1, <1>2 DEF SentAt, FreshAt, PlainAt
<1>4. /\ Cardinality(FreshAt(q) \cup {n}) = Cardinality(FreshAt(q)) + 1
      /\ Cardinality(PlainAt(q) \cup {n}) = Cardinality(PlainAt(q)) + 1
  BY <1>3, PlacesAreFinite, FS_AddElement
<1> QED
  BY <1>3, <1>4, SeenIs DEF r

(* A set of numbers that is moved keeps its size. *)
LEMMA ShiftedSize ==
  ASSUME NEW S \in SUBSET Int, IsFiniteSet(S), NEW T \in SUBSET Int, NEW d \in Int,
         \A t \in Int : t \in T <=> t + d \in S
  PROVE  Cardinality(T) = Cardinality(S)
<1> DEFINE f == [s \in S |-> s - d]
<1>1. \A s \in S : s - d \in T
  OBVIOUS
<1>2. f \in [S -> T]
  BY <1>1
<1>3. \A a, b \in S : f[a] = f[b] => a = b
  OBVIOUS
<1>4. \A t \in T : t + d \in S /\ f[t + d] = t
  OBVIOUS
<1>5. f \in Bijection(S, T)
  BY <1>2, <1>3, <1>4, \A t \in T : \E s \in S : f[s] = t
     DEF Bijection, Injection, Surjection, IsInjective
<1>6. ExistsBijection(S, T)
  BY <1>5 DEF ExistsBijection
<1> QED
  BY <1>6, FS_Bijection

-----------------------------------------------------------------------------
(* What the functions of a peer do to the counts of its queue *)

Good(q) == SentFirst(q) /\ PongIsPlain(q) /\ SentIsReliable(q)

(* The flags and commands decide whether a queue is good. *)
LEMMA GoodSameFlags ==
  ASSUME NEW q, NEW r, Good(q), Len(r) = Len(q),
         \A i \in 1 .. Len(q) :
            r[i].rel = q[i].rel /\ r[i].ret = q[i].ret /\ r[i].cmd = q[i].cmd
  PROVE  Good(r)
  BY DEF Good, SentFirst, PongIsPlain, SentIsReliable, Retransmission

LEMMA GoodAppend ==
  ASSUME NEW q \in Seq(Packet), Good(q), NEW pc \in Packet, ~ pc.ret,
         pc.cmd = "PONG" => ~ pc.rel
  PROVE  Good(Append(q, pc))
<1> DEFINE r == Append(q, pc)
           n == Len(q) + 1
<1>1. /\ Len(r) = n /\ r[n] = pc /\ n \in Nat
      /\ \A i \in 1 .. Len(q) : r[i] = q[i]
      /\ \A i \in 1 .. n : i = n \/ i \in 1 .. Len(q)
  BY QueueFacts
<1> HIDE DEF r
<1>2. ~ Retransmission(r[n])
  BY <1>1 DEF Retransmission
<1>3. SentFirst(r)
  <2> SUFFICES ASSUME NEW i \in 1 .. n, NEW j \in 1 .. n, i < j, Retransmission(r[j])
               PROVE  Retransmission(r[i])
    BY <1>1 DEF SentFirst
  <2>1. j \in 1 .. Len(q) /\ i \in 1 .. Len(q)
    BY <1>1, <1>2, QueueFacts
  <2> QED
    BY <1>1, <2>1 DEF Good, SentFirst
<1>4. PongIsPlain(r) /\ SentIsReliable(r)
  BY <1>1 DEF PongIsPlain, SentIsReliable, Good
<1> QED
  BY <1>3, <1>4 DEF Good, r

LEMMA SendUnreliableSeen ==
  ASSUME NEW p \in rudp_peer, NEW c \in Command, Good(p.sendq)
  PROVE  LET r == rudp_peer_send_unreliable(p, c).sendq IN
         /\ Seen(r) = [Seen(p.sendq) EXCEPT !.plain = @ + 1]
         /\ Good(r) /\ r # << >>
<1> DEFINE pc == [cmd |-> c, rel |-> FALSE, ret |-> FALSE, ack |-> NoAck,
                  seq |-> p.out_seq_reliable,
                  useq |-> Wrap(p.out_seq_unreliable + 1), pos |-> p.issued]
<1>1. rudp_peer_send_unreliable(p, c).sendq = Append(p.sendq, pc)
  BY SendUnreliableFields
<1>2. pc \in Packet /\ p.sendq \in Seq(Packet)
  BY PeerFields, SuccType DEF Packet
<1>3. ~ pc.rel /\ ~ pc.ret
  OBVIOUS
<1> HIDE DEF pc
<1>4. Append(p.sendq, pc) # << >>
  BY <1>2
<1> QED
  BY <1>1, <1>2, <1>3, <1>4, SeenAppend, GoodAppend

LEMMA SendReliableSeen ==
  ASSUME NEW p \in rudp_peer, NEW c \in Command, c # "PONG", Good(p.sendq)
  PROVE  LET r == rudp_peer_send_reliable(p, c).sendq IN
         /\ Seen(r) = [Seen(p.sendq) EXCEPT !.fresh = @ + 1]
         /\ Good(r)
<1> DEFINE pc == [cmd |-> c, rel |-> TRUE, ret |-> FALSE, ack |-> NoAck,
                  seq |-> Wrap(p.out_seq_reliable + 1), useq |-> 0,
                  pos |-> p.issued + 1]
<1>1. rudp_peer_send_reliable(p, c).sendq = Append(p.sendq, pc)
  BY SendReliableFields
<1>2. pc \in Packet /\ p.sendq \in Seq(Packet)
  BY PeerFields, SuccType, SeqNoInt DEF Packet
<1>3. pc.rel /\ ~ pc.ret /\ pc.cmd # "PONG"
  OBVIOUS
<1> HIDE DEF pc
<1> QED
  BY <1>1, <1>2, <1>3, SeenAppend, GoodAppend

(* What peer_handle_ack leaves of a queue: a suffix, without packets that  *)
(* were transmitted.                                                       *)
LEMMA SuffixSeen ==
  ASSUME NEW q \in Seq(Packet), Good(q), NEW k \in 1 .. Len(q) + 1,
         \A i \in 1 .. k - 1 : Retransmission(q[i])
  PROVE  LET s == SubSeq(q, k, Len(q)) IN
         /\ \E n \in 0 .. Seen(q).sent : Seen(s) = [Seen(q) EXCEPT !.sent = n]
         /\ Good(s)
<1> DEFINE s == SubSeq(q, k, Len(q))
           d == k - 1
           late == {i \in SentAt(q) : i > d}
<1>1. /\ Len(q) \in Nat /\ DOMAIN q = 1 .. Len(q) /\ d \in Nat
      /\ \A i \in 1 .. Len(q) : q[i] \in Packet
  BY QueueFacts
<1>2. /\ s \in Seq(Packet) /\ Len(s) = Len(q) - d /\ DOMAIN s = 1 .. Len(q) - d
      /\ \A i \in 1 .. Len(q) - d : s[i] = q[i + d]
  BY <1>1, SubSeqProperties
<1> HIDE DEF s
<1>3. \A i \in Int : i \in DOMAIN s <=> i + d \in DOMAIN q /\ i + d > d
  BY <1>1, <1>2
<1>4. \A i \in 1 .. Len(q) : i <= d => q[i].rel /\ q[i].ret
  BY <1>1 DEF Retransmission
<1> HIDE DEF d
<1>5. /\ \A t \in Int : t \in SentAt(s) <=> t + d \in late
      /\ \A t \in Int : t \in FreshAt(s) <=> t + d \in FreshAt(q)
      /\ \A t \in Int : t \in PlainAt(s) <=> t + d \in PlainAt(q)
  BY <1>1, <1>2, <1>3, <1>4 DEF SentAt, FreshAt, PlainAt
<1>6. /\ SentAt(s) \in SUBSET Int /\ FreshAt(s) \in SUBSET Int /\ PlainAt(s) \in SUBSET Int
      /\ late \in SUBSET Int /\ FreshAt(q) \in SUBSET Int /\ PlainAt(q) \in SUBSET Int
      /\ late \in SUBSET SentAt(q)
  BY <1>1, <1>2 DEF SentAt, FreshAt, PlainAt
<1>7. /\ IsFiniteSet(late) /\ Cardinality(late) \in Nat
      /\ Cardinality(late) <= Cardinality(SentAt(q))
  BY <1>6, PlacesAreFinite, FS_Subset, FS_CardinalityType
<1> HIDE DEF late
<1>8. /\ Cardinality(SentAt(s)) = Cardinality(late)
      /\ Cardinality(FreshAt(s)) = Cardinality(FreshAt(q))
      /\ Cardinality(PlainAt(s)) = Cardinality(PlainAt(q))
  <2>0. d \in Int
    BY <1>1
  <2>1. Cardinality(SentAt(s)) = Cardinality(late)
    BY <2>0, <1>5, <1>6, <1>7, ShiftedSize
  <2>2. Cardinality(FreshAt(s)) = Cardinality(FreshAt(q))
    BY <2>0, <1>5, <1>6, PlacesAreFinite, ShiftedSize
  <2>3. Cardinality(PlainAt(s)) = Cardinality(PlainAt(q))
    BY <2>0, <1>5, <1>6, PlacesAreFinite, ShiftedSize
  <2> QED
    BY <2>1, <2>2, <2>3
<1>9. Seen(q).sent = Cardinality(SentAt(q))
  BY SeenIs
<1>10. Cardinality(late) \in 0 .. Seen(q).sent
  BY <1>7, <1>9, PlacesAreFinite
<1>11. Seen(s) = [Seen(q) EXCEPT !.sent = Cardinality(late)]
  BY <1>8, SeenIs
<1>12. Good(s)
  <2>1. SentFirst(s)
    <3> SUFFICES ASSUME NEW i \in 1 .. Len(s), NEW j \in 1 .. Len(s), i < j,
                        Retransmission(s[j])
                 PROVE  Retransmission(s[i])
      BY DEF SentFirst
    <3>1. /\ i + d \in 1 .. Len(q) /\ j + d \in 1 .. Len(q) /\ i + d < j + d
          /\ s[i] = q[i + d] /\ s[j] = q[j + d]
      BY <1>1, <1>2
    <3> QED
      BY <3>1 DEF Good, SentFirst
  <2>2. PongIsPlain(s) /\ SentIsReliable(s)
    <3> SUFFICES ASSUME NEW i \in 1 .. Len(s)
                 PROVE  /\ s[i].cmd = "PONG" => ~ s[i].rel
                        /\ s[i].ret => s[i].rel
      BY DEF PongIsPlain, SentIsReliable
    <3>1. i + d \in 1 .. Len(q) /\ s[i] = q[i + d]
      BY <1>1, <1>2
    <3> QED
      BY <3>1 DEF Good, PongIsPlain, SentIsReliable
  <2> QED
    BY <2>1, <2>2 DEF Good
<1> QED
  BY <1>10, <1>11, <1>12 DEF s

LEMMA AckHandledSeen ==
  ASSUME NEW p \in rudp_peer, NEW pc \in Packet, Good(p.sendq)
  PROVE  LET r == AckHandled(p, pc).sendq IN
         /\ \E n \in 0 .. Seen(p.sendq).sent :
               Seen(r) = [Seen(p.sendq) EXCEPT !.sent = n]
         /\ Good(r)
<1> DEFINE q == p.sendq
           k == FirstUnacked(q, pc.ack)
<1>1. q \in Seq(Packet) /\ Len(q) \in Nat
  BY PeerFields, QueueFacts
<1>2. CASE AckHandled(p, pc).sendq = q
  <2>1. Seen(q).sent \in Nat /\ Seen(q) = [Seen(q) EXCEPT !.sent = Seen(q).sent]
    BY <1>1, SeenType
  <2> QED
    BY <1>2, <2>1
<1>3. CASE AckHandled(p, pc).sendq = SubSeq(q, k, Len(q))
  <2>1. k \in 1 .. Len(q) + 1 /\ \A i \in 1 .. k - 1 : Acknowledged(q[i], pc.ack)
    BY <1>1, FirstUnackedIsFirst
  <2> HIDE DEF k
  <2>2. \A i \in 1 .. k - 1 : Retransmission(q[i])
    BY <2>1 DEF Acknowledged, Retransmission
  <2> QED
    BY <1>1, <1>3, <2>1, <2>2, SuffixSeen
<1> QED
  BY <1>2, <1>3 DEF AckHandled, peer_handle_ack, rudp_peer

(* The end of rudp_peer_incoming_packet queues a NOOP or nothing. *)
LEMMA FinishedSeen ==
  ASSUME NEW p \in rudp_peer, NEW pc \in Packet, Good(p.sendq)
  PROVE  LET r == Finished(p, pc).sendq IN
         /\ Seen(r) = IF pc.rel /\ p.sendq = << >>
                        THEN [Seen(p.sendq) EXCEPT !.plain = @ + 1]
                        ELSE Seen(p.sendq)
         /\ Good(r)
<1> DEFINE m == [p EXCEPT !.must_ack = TRUE]
           u == rudp_peer_send_unreliable(m, "NOOP")
<1>1. m \in rudp_peer /\ m.sendq = p.sendq
  BY DEF rudp_peer
<1> HIDE DEF m
<1>2. u \in rudp_peer
  BY <1>1, SendUnreliableType DEF Command
<1>3. /\ Seen(u.sendq) = [Seen(p.sendq) EXCEPT !.plain = @ + 1]
      /\ Good(u.sendq)
  BY <1>1, SendUnreliableSeen DEF Command
<1> HIDE DEF u
<1>4. CASE pc.rel /\ p.sendq = << >>
  <2>1. Finished(p, pc) = peer_service_schedule(u)
    BY <1>1, <1>4 DEF Finished, peer_post_ack, m, u
  <2>2. Finished(p, pc).sendq = u.sendq
    BY <1>2, <2>1 DEF peer_service_schedule, rudp_peer
  <2> QED
    BY <1>3, <1>4, <2>2
<1>5. CASE ~ (pc.rel /\ p.sendq = << >>)
  <2>1. Finished(p, pc) = peer_service_schedule(p) \/ Finished(p, pc) = peer_service_schedule(m)
    BY <1>1, <1>5 DEF Finished, peer_post_ack, m
  <2>2. Finished(p, pc).sendq = p.sendq
    BY <1>1, <2>1 DEF peer_service_schedule, rudp_peer
  <2> QED
    BY <1>5, <2>2
<1> QED
  BY <1>4, <1>5

(* A packet is received: first its acknowledgement takes transmitted       *)
(* packets off the queue, then a PONG or a NOOP may be queued.  A PONG is  *)
(* answered by nothing.                                                    *)
LEMMA HandledSeen ==
  ASSUME NEW p \in rudp_peer, NEW pc \in Packet, Good(p.sendq),
         pc.cmd = "PONG" => ~ pc.rel
  PROVE  LET h == Handled(p, pc)
             s == packet_state(AckHandled(p, pc), pc)
         IN  /\ h \in rudp_peer /\ Good(h.sendq)
             /\ \E n \in 0 .. Seen(p.sendq).sent :
                  LET q == [Seen(p.sendq) EXCEPT !.sent = n]
                      u == [q EXCEPT !.plain = @ + 1]
                      a == IF q = [sent |-> 0, fresh |-> 0, plain |-> 0] THEN u ELSE q
                  IN  /\ s = "UNSEQUENCED" => Seen(h.sendq) \in {q, a}
                      /\ s = "RETRANSMITTED" => Seen(h.sendq) = a
                      /\ s = "SEQUENCED" /\ pc.cmd # "PONG" => Seen(h.sendq) \in {q, a, u}
                      /\ s = "SEQUENCED" /\ pc.cmd = "PONG" => Seen(h.sendq) = q
<1> DEFINE g == AckHandled(p, pc)
           s == packet_state(g, pc)
           h == Handled(p, pc)
<1>1. g \in rudp_peer
  BY AckHandledType
<1>2. PICK n \in 0 .. Seen(p.sendq).sent : Seen(g.sendq) = [Seen(p.sendq) EXCEPT !.sent = n]
  BY AckHandledSeen
<1>3. Good(g.sendq)
  BY AckHandledSeen
<1> DEFINE q == [Seen(p.sendq) EXCEPT !.sent = n]
           u == [q EXCEPT !.plain = @ + 1]
           zero == [sent |-> 0, fresh |-> 0, plain |-> 0]
           a == IF q = zero THEN u ELSE q
<1>4. q = zero <=> g.sendq = << >>
  BY <1>1, <1>2, PeerFields, SeenEmpty
<1>5. Seen(g.sendq) = q
  BY <1>2
<1> HIDE DEF q, g
<1>6. /\ Finished(g, pc) \in rudp_peer /\ Good(Finished(g, pc).sendq)
      /\ pc.rel => Seen(Finished(g, pc).sendq) = a
      /\ ~ pc.rel => Seen(Finished(g, pc).sendq) = q
  BY <1>1, <1>3, <1>4, <1>5, FinishedType, FinishedSeen
<1>7. CASE s # "SEQUENCED"
  <2>1. h = Finished(g, pc)
    BY <1>7 DEF Handled, g
  <2>2. s = "RETRANSMITTED" => pc.rel
    BY DEF packet_state, peer_analyse_unreliable
  <2> HIDE DEF u, a, s, h
  <2> QED
    BY <1>2, <1>6, <1>7, <2>1, <2>2 DEF q, u, a, s, h, g
<1>8. CASE s = "SEQUENCED"
  <2> DEFINE e == Sequenced(g, pc)
             w == Answered(e, pc)
  <2>1. e \in rudp_peer /\ e.sendq = g.sendq
    BY <1>1, SequencedType DEF Sequenced, rudp_peer
  <2> HIDE DEF e
  <2>2. h = Finished(w, pc)
    BY <1>8 DEF Handled, g, e
  <2>3. CASE pc.cmd = "PING" /\ ~ pc.ret
    <3>1. w = rudp_peer_send_unreliable(e, "PONG")
      BY <2>3 DEF Answered, peer_handle_ping
    <3>2. w \in rudp_peer /\ Seen(w.sendq) = u /\ Good(w.sendq) /\ w.sendq # << >>
      BY <1>3, <1>5, <2>1, <3>1, SendUnreliableType, SendUnreliableSeen DEF Command
    <3> HIDE DEF w
    <3>3. h \in rudp_peer /\ Good(h.sendq) /\ Seen(h.sendq) = u
      BY <2>2, <3>2, FinishedType, FinishedSeen
    <3> HIDE DEF h, u, a, s
    <3> QED
      BY <1>2, <1>8, <2>3, <3>3 DEF q, u, a, s, h, g
  <2>4. CASE ~ (pc.cmd = "PING" /\ ~ pc.ret)
    <3>1. w = e
      BY <2>4 DEF Answered, peer_handle_ping
    <3>2. /\ h \in rudp_peer /\ Good(h.sendq)
          /\ pc.rel => Seen(h.sendq) = a
          /\ ~ pc.rel => Seen(h.sendq) = q
      BY <1>3, <1>4, <1>5, <2>1, <2>2, <3>1, FinishedType, FinishedSeen
    <3> HIDE DEF h, u, a, s, w
    <3> QED
      BY <1>2, <1>8, <2>4, <3>2 DEF q, u, a, s, h, g
  <2> QED
    BY <2>3, <2>4
<1> QED
  BY <1>7, <1>8

-----------------------------------------------------------------------------
(* Sending the queue *)

(* The numbers up to n, listed in order. *)
LEMMA OrderedInterval ==
  ASSUME NEW n \in Nat
  PROVE  Ordered(1 .. n) = [i \in 1 .. n |-> i]
<1>1. Cardinality(1 .. n) = n
  BY FS_Interval
<1>2. \A s \in 1 .. n : Rank(1 .. n, s) = s
  <2> SUFFICES ASSUME NEW s \in 1 .. n
               PROVE  Rank(1 .. n, s) = s
    OBVIOUS
  <2>1. {t \in 1 .. n : t <= s} = 1 .. s
    OBVIOUS
  <2>2. Cardinality(1 .. s) = s
    BY FS_Interval
  <2> QED
    BY <2>1, <2>2 DEF Rank
<1>3. \A i \in 1 .. n : (CHOOSE s \in 1 .. n : Rank(1 .. n, s) = i) = i
  BY <1>2
<1> QED
  BY <1>1, <1>3 DEF Ordered

(* The loop of peer_send_queue reaches the head only, when that was        *)
(* transmitted before, and the whole queue otherwise.                      *)
LEMMA VisitedIs ==
  ASSUME NEW q \in Seq(Packet), SentFirst(q)
  PROVE  /\ (\E i \in 1 .. Len(q) : Retransmission(q[i])) =>
               /\ Visited(q) = 1 .. 1 /\ Kept(q) = 1 .. Len(q)
               /\ Len(q) >= 1 /\ Retransmission(q[1])
         /\ ~ (\E i \in 1 .. Len(q) : Retransmission(q[i])) =>
               /\ Visited(q) = 1 .. Len(q)
               /\ Kept(q) = FreshAt(q)
<1>1. Len(q) \in Nat /\ DOMAIN q = 1 .. Len(q)
  BY QueueFacts
<1>2. ASSUME NEW i \in 1 .. Len(q), Retransmission(q[i])
      PROVE  /\ Visited(q) = 1 .. 1 /\ Kept(q) = 1 .. Len(q)
             /\ Len(q) >= 1 /\ Retransmission(q[1])
  <2>1. 1 \in 1 .. Len(q) /\ Len(q) >= 1
    BY <1>1
  <2>2. Retransmission(q[1])
    <3>1. i = 1 \/ 1 < i
      OBVIOUS
    <3> QED
      BY <1>2, <2>1, <3>1 DEF SentFirst
  <2>3. Visited(q) = 1 .. 1
    <3>1. 1 \in Visited(q)
      BY <2>1 DEF Visited
    <3>2. ASSUME NEW j \in Visited(q), j # 1 PROVE FALSE
      <4>1. j \in 1 .. Len(q) /\ 1 \in 1 .. j - 1
        BY <1>1, <3>2 DEF Visited
      <4> QED
        BY <2>2, <4>1 DEF Visited
    <3> QED
      BY <3>1, <3>2
  <2>4. Kept(q) = 1 .. Len(q)
    BY <2>2, <2>3 DEF Kept, Retransmission
  <2> QED
    BY <2>1, <2>2, <2>3, <2>4
<1>3. ASSUME ~ (\E i \in 1 .. Len(q) : Retransmission(q[i]))
      PROVE  Visited(q) = 1 .. Len(q) /\ Kept(q) = FreshAt(q)
  <2>1. \A i \in 1 .. Len(q) : \A j \in 1 .. i - 1 : j \in 1 .. Len(q)
    BY <1>1
  <2>2. Visited(q) = 1 .. Len(q)
    BY <1>3, <2>1 DEF Visited
  <2> QED
    BY <1>1, <1>3, <2>2 DEF Kept, FreshAt, Retransmission
<1> QED
  BY <1>2, <1>3

(* The queue after peer_send_queue, as RudpTimer counts it. *)
LEMMA SendQueueSeen ==
  ASSUME NEW p \in rudp_peer, Good(p.sendq)
  PROVE  LET q == p.sendq
             r == peer_send_queue(p).sendq
         IN  /\ Good(r)
             /\ Seen(q).sent > 0 => Seen(r) = Seen(q)
             /\ ~ (Seen(q).sent > 0) =>
                  Seen(r) = [sent |-> Seen(q).fresh, fresh |-> 0, plain |-> 0]
<1> DEFINE q == p.sendq
           f == Ordered(Kept(q))
           r == [i \in DOMAIN f |-> Requeued(p, f[i])]
<1>1. /\ q \in Seq(Packet) /\ Len(q) \in Nat /\ DOMAIN q = 1 .. Len(q)
      /\ \A i \in 1 .. Len(q) : q[i] \in Packet
  BY PeerFields, QueueFacts
<1>2. peer_send_queue(p).sendq = r
  BY DEF peer_send_queue, rudp_peer
<1>3. r \in Seq(Packet)
  BY <1>2, SendQueueType, PeerFields
<1>4. Seen(q).sent > 0 <=> \E i \in 1 .. Len(q) : Retransmission(q[i])
  BY <1>1, SeenEmpty
<1>5. CASE Seen(q).sent > 0
  <2>1. /\ Visited(q) = 1 .. 1 /\ Kept(q) = 1 .. Len(q)
        /\ Len(q) >= 1 /\ Retransmission(q[1])
    BY <1>1, <1>4, <1>5, VisitedIs DEF Good
  <2>2. f = [i \in 1 .. Len(q) |-> i]
    BY <1>1, <2>1, OrderedInterval
  <2>3. DOMAIN r = 1 .. Len(q) /\ \A i \in 1 .. Len(q) : r[i] = Requeued(p, i)
    BY <2>2
  <2> HIDE DEF r, f
  <2>4. \A i \in 1 .. Len(q) :
          r[i].rel = q[i].rel /\ r[i].ret = q[i].ret /\ r[i].cmd = q[i].cmd
    <3> SUFFICES ASSUME NEW i \in 1 .. Len(q)
                 PROVE  /\ Requeued(p, i).rel = q[i].rel /\ Requeued(p, i).cmd = q[i].cmd
                        /\ Requeued(p, i).ret = q[i].ret
      BY <2>3
    <3>1. i \in Visited(q) => i = 1
      BY <2>1
    <3>2. i \in Visited(q) => q[i].ret = TRUE
      BY <1>1, <2>1, <3>1 DEF Retransmission, Packet
    <3> QED
      BY <3>2, RequeuedFields
  <2>5. Len(r) = Len(q) /\ DOMAIN r = DOMAIN q
    BY <1>1, <1>3, <2>3, QueueFacts
  <2>6. Seen(r) = Seen(q)
    BY <1>1, <2>4, <2>5, SeenSameFlags
  <2>7. Good(r)
    BY <2>4, <2>5, GoodSameFlags
  <2> QED
    BY <1>2, <1>5, <2>6, <2>7
<1>6. CASE ~ (Seen(q).sent > 0)
  <2>1. Visited(q) = 1 .. Len(q) /\ Kept(q) = FreshAt(q)
    BY <1>1, <1>4, <1>6, VisitedIs DEF Good
  <2> DEFINE n == Cardinality(FreshAt(q))
  <2>2. IsFiniteSet(FreshAt(q)) /\ FreshAt(q) \in SUBSET Int /\ n \in Nat
    <3>1. FreshAt(q) \in SUBSET Int
      BY <1>1 DEF FreshAt
    <3> QED
      BY <1>1, <3>1, PlacesAreFinite
  <2>3. DOMAIN f = 1 .. n /\ \A i \in 1 .. n : f[i] \in FreshAt(q)
    BY <2>1, <2>2, OrderedLists
  <2>4. DOMAIN r = 1 .. n /\ \A i \in 1 .. n : r[i] = Requeued(p, f[i])
    BY <2>3
  <2> HIDE DEF r, f, n
  <2>5. \A i \in 1 .. n : r[i].rel /\ r[i].ret /\ r[i].cmd # "PONG"
    <3> SUFFICES ASSUME NEW i \in 1 .. n
                 PROVE  r[i].rel /\ r[i].ret /\ r[i].cmd # "PONG"
      OBVIOUS
    <3>1. f[i] \in 1 .. Len(q) /\ f[i] \in Visited(q) /\ q[f[i]].rel
      BY <1>1, <2>1, <2>3 DEF FreshAt
    <3>2. q[f[i]].cmd # "PONG"
      BY <3>1 DEF Good, PongIsPlain
    <3>3. r[i] = Requeued(p, f[i])
      BY <2>4
    <3>4. /\ Requeued(p, f[i]).cmd = q[f[i]].cmd /\ Requeued(p, f[i]).rel = q[f[i]].rel
          /\ Requeued(p, f[i]).ret = TRUE
      BY <3>1, RequeuedFields
    <3> QED
      BY <3>1, <3>2, <3>3, <3>4
  <2>6. SentAt(r) = 1 .. n /\ FreshAt(r) = {} /\ PlainAt(r) = {}
    BY <2>4, <2>5 DEF SentAt, FreshAt, PlainAt
  <2>7. Seen(r) = [sent |-> n, fresh |-> 0, plain |-> 0]
    <3>1. Cardinality(1 .. n) = n /\ Cardinality({}) = 0
      BY <2>2, FS_Interval, FS_EmptySet
    <3> QED
      BY <2>6, <3>1, SeenIs
  <2>8. Seen(q).fresh = n
    BY SeenIs DEF n
  <2>9. Good(r)
    <3>1. Len(r) = n
      BY <1>3, <2>2, <2>4
    <3> QED
      BY <2>5, <3>1 DEF Good, SentFirst, PongIsPlain, SentIsReliable, Retransmission
  <2> QED
    BY <1>2, <1>6, <2>7, <2>8, <2>9
<1> QED
  BY <1>5, <1>6

(* What goes on the wire. *)
LEMMA SentFacts ==
  ASSUME NEW p \in rudp_peer, Good(p.sendq)
  PROVE  /\ Sent(p) \in Seq(Packet) /\ PongIsPlain(Sent(p))
         /\ Sent(p) = << >> <=> p.sendq = << >>
         /\ Seen(p.sendq).sent > 0 <=>
              \E i \in Visited(p.sendq) : Retransmission(p.sendq[i])
<1> DEFINE q == p.sendq
           out(i) == [Stamped(p, q[i]) EXCEPT !.pos = 0]
<1>1. /\ q \in Seq(Packet) /\ Len(q) \in Nat
      /\ \A i \in 1 .. Len(q) : q[i] \in Packet
  BY PeerFields, QueueFacts
<1>2. Seen(q).sent > 0 <=> \E i \in 1 .. Len(q) : Retransmission(q[i])
  BY <1>1, SeenEmpty
<1>3. PICK n \in 0 .. Len(q) : /\ Visited(q) = 1 .. n
                               /\ n = 0 <=> Len(q) = 0
                               /\ Seen(q).sent > 0 <=>
                                    \E i \in Visited(q) : Retransmission(q[i])
  <2>1. CASE Seen(q).sent > 0
    <3>1. Visited(q) = 1 .. 1 /\ Len(q) >= 1 /\ Retransmission(q[1])
      BY <1>1, <1>2, <2>1, VisitedIs DEF Good
    <3>2. 1 \in 0 .. Len(q) /\ 1 \in Visited(q)
      BY <1>1, <3>1
    <3> QED
      BY <2>1, <3>1, <3>2
  <2>2. CASE ~ (Seen(q).sent > 0)
    <3>1. Visited(q) = 1 .. Len(q)
      BY <1>1, <1>2, <2>2, VisitedIs DEF Good
    <3> QED
      BY <1>1, <1>2, <2>2, <3>1
  <2> QED
    BY <2>1, <2>2
<1>4. Sent(p) = [i \in 1 .. n |-> out(i)]
  <2>1. n \in Nat
    BY <1>1
  <2>2. Cardinality(1 .. n) = n
    BY <2>1, FS_Interval
  <2> QED
    BY <1>3, <2>2 DEF Sent
<1>5. \A i \in 1 .. n :
        out(i) \in Packet /\ out(i).cmd = q[i].cmd /\ out(i).rel = q[i].rel
  <2> SUFFICES ASSUME NEW i \in 1 .. n
               PROVE  out(i) \in Packet /\ out(i).cmd = q[i].cmd /\ out(i).rel = q[i].rel
    OBVIOUS
  <2> DEFINE st == Stamped(p, q[i])
  <2>1. st \in Packet /\ st.cmd = q[i].cmd /\ st.rel = q[i].rel
    BY <1>1, StampedType, StampedFields
  <2> HIDE DEF st
  <2>2. [st EXCEPT !.pos = 0] \in Packet /\ [st EXCEPT !.pos = 0].cmd = st.cmd
        /\ [st EXCEPT !.pos = 0].rel = st.rel
    BY <2>1 DEF Packet
  <2> QED
    BY <2>1, <2>2 DEF st
<1> HIDE DEF out
<1>6. Sent(p) \in Seq(Packet) /\ Len(Sent(p)) = n /\ \A i \in 1 .. n : Sent(p)[i] = out(i)
  BY <1>4, <1>5
<1>7. PongIsPlain(Sent(p))
  BY <1>5, <1>6 DEF PongIsPlain, Good
<1>8. Sent(p) = << >> <=> q = << >>
  BY <1>1, <1>3, <1>6, QueueFacts
<1> QED
  BY <1>3, <1>6, <1>7, <1>8

-----------------------------------------------------------------------------
(* Steps *)

LEMMA RemoteFacts ==
  ASSUME NEW x \in Side
  PROVE  /\ Remote(x) \in Side /\ Remote(x) # x
         /\ \A y \in Side : y = x \/ y = Remote(x)
  BY DEF Side, Remote

LEMMA DropTimeout == /\ DROP_TIMEOUT \in Nat /\ 1 <= DROP_TIMEOUT
                     /\ ACTION_TIMEOUT + ACTION_TIMEOUT = DROP_TIMEOUT
  BY PairAssumption DEF DROP_TIMEOUT

LEMMA TimesFacts ==
  ASSUME NEW c \in Times
  PROVE  /\ c.deadline \in Int /\ -1 <= c.deadline /\ c.deadline <= DROP_TIMEOUT
         /\ c.since \in Nat /\ c.since <= DROP_TIMEOUT + 1
         /\ c.timer \in Int /\ c.srtt \in Nat
         /\ c.rto \in Nat /\ c.rto <= MAX_RTO
  BY PairAssumption, DropTimeout DEF Times

(* The delay of peer_service_schedule is within the drop time-out. *)
LEMMA DelayType ==
  ASSUME NEW q \in [sent : Nat, fresh : Nat, plain : Nat], NEW c \in Times, NEW x
  PROVE  Timer(x)!peer_service_schedule(q, c.since, c.deadline, c.rto)
            \in - Late .. DROP_TIMEOUT
<1> DEFINE h == Timer(x)!HeadDelay(q, c.since, c.rto)
<1>1. h \in Int
  BY TimesFacts, PairAssumption DEF Timer!HeadDelay
<1> HIDE DEF h
<1>2. Timer(x)!peer_service_schedule(q, c.since, c.deadline, c.rto)
        = Timer(x)!Greatest(1, Timer(x)!Least(h, c.deadline))
  BY DEF Timer!peer_service_schedule, h
<1> QED
  BY <1>1, <1>2, TimesFacts, DropTimeout, PairAssumption
     DEF Timer!Greatest, Timer!Least

(* The history that is dropped is not counted. *)
LEMMA PlainFacts ==
  ASSUME NEW p \in rudp_peer, Good(p.sendq)
  PROVE  /\ Plain(p) \in rudp_peer /\ Good(Plain(p).sendq)
         /\ Seen(Plain(p).sendq) = Seen(p.sendq)
<1> DEFINE q == p.sendq
           e(i) == [q[i] EXCEPT !.pos = 0]
           r == [i \in DOMAIN q |-> e(i)]
<1>1. /\ q \in Seq(Packet) /\ Len(q) \in Nat /\ DOMAIN q = 1 .. Len(q)
      /\ \A i \in 1 .. Len(q) : q[i] \in Packet
  BY PeerFields, QueueFacts
<1>2. Plain(p) = [p EXCEPT !.iss = 0, !.issued = 0, !.rcvd = 0, !.sendq = r]
  BY DEF Plain
<1>3. \A i \in 1 .. Len(q) :
        /\ e(i) \in Packet
        /\ e(i).rel = q[i].rel /\ e(i).ret = q[i].ret /\ e(i).cmd = q[i].cmd
  BY <1>1 DEF Packet
<1> HIDE DEF e
<1>4. r = [i \in 1 .. Len(q) |-> e(i)]
  BY <1>1
<1>5. /\ r \in Seq(Packet) /\ Len(r) = Len(q) /\ DOMAIN r = DOMAIN q
      /\ \A i \in 1 .. Len(q) : r[i] = e(i)
  BY <1>1, <1>3, <1>4
<1> HIDE DEF r
<1>6. Plain(p) \in rudp_peer /\ Plain(p).sendq = r
  BY <1>2, <1>5, SeqNoInt DEF rudp_peer
<1> QED
  BY <1>1, <1>3, <1>5, <1>6, SeenSameFlags, GoodSameFlags

(* A step of x that ends by arming the timer. *)
LEMMA PutFacts ==
  ASSUME PairInv, NEW x \in Side, NEW p \in rudp_peer, Good(p.sendq),
         NEW c \in Times, Put(x, p, c)
  PROVE  /\ peer' \in [Side -> rudp_peer] /\ clock' \in [Side -> Times]
         /\ Good(peer'[x].sendq) /\ Seen(peer'[x].sendq) = Seen(p.sendq)
         /\ clock'[x].deadline = c.deadline /\ clock'[x].since = c.since
         /\ clock'[x].rto = c.rto /\ clock'[x].srtt = c.srtt
         /\ clock'[x].timer = Timer(x)!peer_service_schedule(
                                 Seen(p.sendq), c.since, c.deadline, c.rto)
         /\ \A y \in Side : y # x => peer'[y] = peer[y] /\ clock'[y] = clock[y]
<1> DEFINE t == Timer(x)!peer_service_schedule(Seen(p.sendq), c.since, c.deadline, c.rto)
           d == [c EXCEPT !.timer = t]
<1>1. peer \in [Side -> rudp_peer] /\ clock \in [Side -> Times]
  BY DEF PairInv, TypeOK
<1>2. t \in - Late .. DROP_TIMEOUT
  BY PeerFields, SeenType, DelayType
<1>3. Armed(p, c) = d
  BY DEF Armed, Timer!peer_service_schedule, Timer!HeadDelay, Timer!Greatest,
         Timer!Least, Timer!Empty
<1> HIDE DEF t
<1>4. /\ d \in Times /\ d.timer = t /\ d.deadline = c.deadline
      /\ d.since = c.since /\ d.rto = c.rto /\ d.srtt = c.srtt
  BY <1>2 DEF Times
<1>5. peer' = [peer EXCEPT ![x] = Plain(p)] /\ clock' = [clock EXCEPT ![x] = d]
  BY <1>3 DEF Put
<1> HIDE DEF d
<1>6. /\ peer'[x] = Plain(p) /\ clock'[x] = d
      /\ peer' \in [Side -> rudp_peer] /\ clock' \in [Side -> Times]
      /\ \A y \in Side : y # x => peer'[y] = peer[y] /\ clock'[y] = clock[y]
  BY <1>1, <1>4, <1>5, PlainFacts
<1> QED
  BY <1>4, <1>6, PlainFacts DEF t

(* Such a step is the Rearmed of RudpTimer. *)
LEMMA PutIsRearmed ==
  ASSUME PairInv, NEW x \in Side, NEW p \in rudp_peer, Good(p.sendq),
         NEW c \in Times, Put(x, p, c)
  PROVE  Timer(x)!Rearmed(Seen(p.sendq), c.since, c.deadline, c.rto)
<1>1. Seen(p.sendq).fresh \in Nat /\ Seen(p.sendq).plain \in Nat
  BY PeerFields, SeenType
<1> QED
  BY <1>1, PutFacts DEF Timer!Rearmed

(* A step that leaves y alone. *)
LEMMA Untouched ==
  ASSUME NEW y \in Side, peer'[y] = peer[y], clock'[y] = clock[y],
         alive'[y] = alive[y]
  PROVE  UNCHANGED Timer(y)!vars
  BY DEF Timer!vars

IsTimerStep == \A x \in Side : UNCHANGED Timer(x)!vars \/ Timer(x)!Next

LEMMA InvFacts ==
  ASSUME PairInv, NEW x \in Side
  PROVE  /\ peer[x] \in rudp_peer /\ Good(peer[x].sendq)
         /\ clock[x] \in Times /\ alive[x] \in BOOLEAN
         /\ wire[x] \in Seq(Packet) /\ PongIsPlain(wire[x])
  BY DEF PairInv, TypeOK, Good

(* What is left to show of a step of x that arms its timer. *)
LEMMA StepOf ==
  ASSUME PairInv, NEW x \in Side, NEW p \in rudp_peer, Good(p.sendq),
         NEW c \in Times, Put(x, p, c), alive' = alive,
         wire' \in [Side -> Seq(Packet)], lost' \in 0 .. MaxLoss,
         \A y \in Side : PongIsPlain(wire'[y]),
         Timer(x)!Next
  PROVE  PairInv' /\ IsTimerStep
<1>1. /\ peer' \in [Side -> rudp_peer] /\ clock' \in [Side -> Times]
      /\ Good(peer'[x].sendq)
      /\ \A y \in Side : y # x => peer'[y] = peer[y] /\ clock'[y] = clock[y]
  BY PutFacts
<1>2. \A y \in Side : Good(peer'[y].sendq)
  BY <1>1, InvFacts
<1>3. PairInv'
  BY <1>1, <1>2 DEF PairInv, TypeOK, Good
<1>4. ASSUME NEW y \in Side PROVE UNCHANGED Timer(y)!vars \/ Timer(y)!Next
  <2>1. CASE y = x
    BY <2>1
  <2>2. CASE y # x
    BY <1>1, <2>2, Untouched
  <2> QED
    BY <2>1, <2>2
<1> QED
  BY <1>3, <1>4 DEF IsTimerStep

LEMMA SendStep ==
  ASSUME PairInv, NEW x \in Side, Send(x)
  PROVE  PairInv' /\ IsTimerStep
<1> DEFINE p == rudp_peer_send_reliable(peer[x], "APP")
           q == Seen(peer[x].sendq)
<1>1. /\ p \in rudp_peer /\ Good(p.sendq)
      /\ Seen(p.sendq) = [q EXCEPT !.fresh = @ + 1]
  BY InvFacts, SendReliableType, SendReliableSeen DEF Command
<1>2. /\ clock[x] \in Times /\ Put(x, p, clock[x]) /\ alive[x]
      /\ alive' = alive /\ wire' = wire /\ lost' = lost
  BY InvFacts DEF Send
<1> HIDE DEF p
<1>3. Timer(x)!Rearmed(Seen(p.sendq), clock[x].since, clock[x].deadline, clock[x].rto)
  BY <1>1, <1>2, PutIsRearmed
<1>4. clock'[x].srtt = clock[x].srtt
  BY <1>1, <1>2, PutFacts
<1>5. Timer(x)!Send
  BY <1>1, <1>2, <1>3, <1>4 DEF Timer!Send, Timer!Reliable
<1>6. /\ wire' \in [Side -> Seq(Packet)] /\ lost' \in 0 .. MaxLoss
      /\ \A y \in Side : PongIsPlain(wire'[y])
  BY <1>2 DEF PairInv, TypeOK
<1>7. Timer(x)!Next
  BY <1>5 DEF Timer!Next, Timer!Input
<1> QED
  BY <1>1, <1>2, <1>6, <1>7, StepOf

(* The network takes the oldest packet from a wire. *)
LEMMA TailFacts ==
  ASSUME PairInv, NEW x \in Side, wire[x] # << >>,
         wire' = [wire EXCEPT ![x] = Tail(@)]
  PROVE  /\ wire' \in [Side -> Seq(Packet)]
         /\ \A y \in Side : PongIsPlain(wire'[y])
         /\ Head(wire[x]) \in Packet
         /\ Head(wire[x]).cmd = "PONG" => ~ Head(wire[x]).rel
<1> DEFINE w == wire[x]
           t == Tail(w)
<1>1. wire \in [Side -> Seq(Packet)] /\ w \in Seq(Packet) /\ w # << >>
  BY DEF PairInv, TypeOK
<1>2. /\ t \in Seq(Packet) /\ Len(t) = Len(w) - 1 /\ Len(w) \in Nat /\ Len(w) >= 1
      /\ \A i \in 1 .. Len(t) : t[i] = w[i + 1]
      /\ Head(w) = w[1] /\ Head(w) \in Packet
  BY <1>1
<1>3. PongIsPlain(w)
  BY InvFacts
<1>4. wire'[x] = t /\ \A y \in Side : y # x => wire'[y] = wire[y]
  BY <1>1
<1>5. wire' \in [Side -> Seq(Packet)]
  BY <1>1, <1>2
<1> HIDE DEF w, t
<1>6. PongIsPlain(t)
  <2> SUFFICES ASSUME NEW i \in 1 .. Len(t), t[i].cmd = "PONG"
               PROVE  ~ t[i].rel
    BY DEF PongIsPlain
  <2>1. i + 1 \in 1 .. Len(w) /\ t[i] = w[i + 1]
    BY <1>2
  <2> QED
    BY <1>3, <2>1 DEF PongIsPlain
<1>7. \A y \in Side : PongIsPlain(wire'[y])
  BY <1>4, <1>6, InvFacts
<1>8. Head(w).cmd = "PONG" => ~ Head(w).rel
  <2>1. 1 \in 1 .. Len(w)
    BY <1>2
  <2> QED
    BY <1>2, <1>3, <2>1 DEF PongIsPlain
<1> QED
  BY <1>2, <1>5, <1>7, <1>8 DEF w

LEMMA LoseStep ==
  ASSUME PairInv, NEW x \in Side, Lose(x)
  PROVE  PairInv' /\ IsTimerStep
<1>1. /\ wire' \in [Side -> Seq(Packet)]
      /\ \A y \in Side : PongIsPlain(wire'[y])
  BY TailFacts DEF Lose
<1>2. peer' = peer /\ clock' = clock /\ alive' = alive
  BY DEF Lose
<1>3. lost' \in 0 .. MaxLoss
  BY PairAssumption DEF Lose, PairInv, TypeOK
<1>4. PairInv'
  BY <1>1, <1>2, <1>3 DEF PairInv, TypeOK
<1> QED
  BY <1>2, <1>4, Untouched DEF IsTimerStep

LEMMA DropStep ==
  ASSUME PairInv, NEW x \in Side, Drop(x)
  PROVE  PairInv' /\ IsTimerStep
<1>1. /\ peer' = peer /\ clock' = clock /\ wire' = wire /\ lost' = lost
      /\ alive' = [alive EXCEPT ![x] = FALSE]
      /\ alive[x] /\ clock[x].timer <= - Late /\ clock[x].deadline < 0
  BY DEF Drop, Due
<1>2. alive \in [Side -> BOOLEAN] /\ clock[x].timer \in Int
  BY InvFacts, TimesFacts DEF PairInv, TypeOK
<1>3. /\ alive'[x] = FALSE /\ alive' \in [Side -> BOOLEAN]
      /\ \A y \in Side : y # x => alive'[y] = alive[y]
  BY <1>1, <1>2
<1>4. PairInv'
  BY <1>1, <1>3 DEF PairInv, TypeOK
<1>5. clock[x].timer <= 0
  BY <1>1, <1>2, PairAssumption
<1>6. Timer(x)!Drop
  BY <1>1, <1>3, <1>5 DEF Timer!Drop, Timer!Due
<1>7. Timer(x)!Next
  BY <1>6 DEF Timer!Next, Timer!Service
<1>8. ASSUME NEW y \in Side, y # x PROVE UNCHANGED Timer(y)!vars
  BY <1>1, <1>3, <1>8, Untouched
<1> QED
  BY <1>4, <1>7, <1>8 DEF IsTimerStep

LEMMA PacketStates ==
  ASSUME NEW p, NEW pc
  PROVE  packet_state(p, pc) \in {"UNSEQUENCED", "RETRANSMITTED", "SEQUENCED"}
  BY DEF packet_state, peer_analyse_reliable, peer_analyse_unreliable

LEMMA HeardType ==
  ASSUME NEW c \in Times, NEW p, NEW pc
  PROVE  LET h == Heard(p, pc, c)
             u == packet_state(AckHandled(p, pc), pc) = "UNSEQUENCED"
         IN  /\ h \in Times
             /\ h.since = c.since /\ h.rto = c.rto /\ h.srtt = c.srtt
             /\ u => h.deadline = c.deadline
             /\ ~ u => h.deadline = DROP_TIMEOUT
<1>1. DROP_TIMEOUT \in -1 .. DROP_TIMEOUT
  BY DropTimeout
<1> QED
  BY <1>1 DEF Heard, Times

(* The estimator keeps its bounds. *)
LEMMA RttType ==
  ASSUME PairInv, NEW x \in Side, NEW rtt \in Nat
  PROVE  Timer(x)!NewSrtt(rtt) \in Nat /\ Timer(x)!NewRto(rtt) \in 0 .. MAX_RTO
<1>1. clock[x].srtt \in Nat
  BY InvFacts, TimesFacts
<1>2. Timer(x)!NewSrtt(rtt) \in Nat
  BY <1>1 DEF Timer!NewSrtt
<1> QED
  BY <1>2, PairAssumption DEF Timer!NewRto, Timer!Least

(* What is received as the four cases of RudpTimer. *)
LEMMA ReceiveIsIncoming ==
  ASSUME PairInv, NEW x \in Side, alive[x], alive' = alive, NEW pc \in Packet,
         pc.cmd = "PONG" => ~ pc.rel,
         NEW c \in Measured(x, pc, Heard(peer[x], pc, clock[x])),
         Put(x, Handled(peer[x], pc), c)
  PROVE  c \in Times /\ Timer(x)!Next
<1> DEFINE p == Handled(peer[x], pc)
           s == packet_state(AckHandled(peer[x], pc), pc)
           o == Seen(peer[x].sendq)
           d == Heard(peer[x], pc, clock[x])
<1>1. /\ peer[x] \in rudp_peer /\ Good(peer[x].sendq) /\ clock[x] \in Times
  BY InvFacts
<1>2. p \in rudp_peer /\ Good(p.sendq)
  BY <1>1, HandledSeen
<1>3. PICK n \in 0 .. o.sent :
        LET q == [o EXCEPT !.sent = n]
            u == [q EXCEPT !.plain = @ + 1]
            a == IF q = [sent |-> 0, fresh |-> 0, plain |-> 0] THEN u ELSE q
        IN  /\ s = "UNSEQUENCED" => Seen(p.sendq) \in {q, a}
            /\ s = "RETRANSMITTED" => Seen(p.sendq) = a
            /\ s = "SEQUENCED" /\ pc.cmd # "PONG" => Seen(p.sendq) \in {q, a, u}
            /\ s = "SEQUENCED" /\ pc.cmd = "PONG" => Seen(p.sendq) = q
  BY <1>1, HandledSeen
<1> DEFINE q == [o EXCEPT !.sent = n]
<1>4. /\ q \in Timer(x)!Acked(o)
      /\ s = "UNSEQUENCED" => Seen(p.sendq) \in {q, Timer(x)!peer_post_ack(q)}
      /\ s = "RETRANSMITTED" => Seen(p.sendq) = Timer(x)!peer_post_ack(q)
      /\ s = "SEQUENCED" /\ pc.cmd # "PONG" =>
            Seen(p.sendq) \in {q, Timer(x)!peer_post_ack(q), Timer(x)!Unreliable(q)}
      /\ s = "SEQUENCED" /\ pc.cmd = "PONG" => Seen(p.sendq) = q
  BY <1>3 DEF Timer!Acked, Timer!peer_post_ack, Timer!Unreliable, Timer!Empty
<1>5. /\ d \in Times /\ d.since = clock[x].since /\ d.rto = clock[x].rto
      /\ d.srtt = clock[x].srtt
      /\ s = "UNSEQUENCED" => d.deadline = clock[x].deadline
      /\ s # "UNSEQUENCED" => d.deadline = DROP_TIMEOUT
  BY <1>1, HeardType
<1>6. s \in {"UNSEQUENCED", "RETRANSMITTED", "SEQUENCED"}
  BY PacketStates
<1>7. Timer(x)!DROP_TIMEOUT = DROP_TIMEOUT
  BY DEF Timer!DROP_TIMEOUT, DROP_TIMEOUT
<1>8. CASE pc.cmd = "PONG" /\ s = "SEQUENCED"
  <2>1. PICK rtt \in RttSamples :
          c = [d EXCEPT !.srtt = Timer(x)!NewSrtt(rtt), !.rto = Timer(x)!NewRto(rtt)]
    BY <1>8 DEF Measured
  <2>2. Timer(x)!NewSrtt(rtt) \in Nat /\ Timer(x)!NewRto(rtt) \in 0 .. MAX_RTO
    BY RttType, PairAssumption
  <2> HIDE DEF d, p
  <2>3. /\ c \in Times /\ c.since = clock[x].since /\ c.deadline = DROP_TIMEOUT
        /\ c.srtt = Timer(x)!NewSrtt(rtt) /\ c.rto = Timer(x)!NewRto(rtt)
    BY <1>5, <1>8, <2>1, <2>2 DEF Times
  <2>4. /\ Timer(x)!Rearmed(Seen(p.sendq), c.since, c.deadline, c.rto)
        /\ clock'[x].srtt = c.srtt
    BY <1>2, <2>3, PutIsRearmed, PutFacts DEF p
  <2>5. Timer(x)!Rearmed(q, clock[x].since, DROP_TIMEOUT, Timer(x)!NewRto(rtt))
    BY <1>4, <1>8, <2>3, <2>4
  <2>6. Timer(x)!IncomingPong
    BY <1>4, <1>7, <2>3, <2>4, <2>5 DEF Timer!IncomingPong
  <2> QED
    BY <2>3, <2>6 DEF Timer!Next, Timer!Input
<1>9. CASE ~ (pc.cmd = "PONG" /\ s = "SEQUENCED")
  <2>1. c = d
    BY <1>9 DEF Measured
  <2> HIDE DEF d, p, q, s
  <2>2. /\ Timer(x)!Rearmed(Seen(p.sendq), clock[x].since, c.deadline, clock[x].rto)
        /\ clock'[x].srtt = clock[x].srtt
    BY <1>2, <1>5, <2>1, PutIsRearmed, PutFacts DEF p
  <2>3. CASE s = "UNSEQUENCED"
    <3>1. Timer(x)!IncomingUnsequenced
      BY <1>4, <1>5, <2>1, <2>2, <2>3 DEF Timer!IncomingUnsequenced
    <3> QED
      BY <1>5, <2>1, <3>1 DEF Timer!Next, Timer!Input
  <2>4. CASE s = "RETRANSMITTED"
    <3>1. Timer(x)!IncomingRetransmitted
      BY <1>4, <1>5, <1>7, <2>1, <2>2, <2>4 DEF Timer!IncomingRetransmitted
    <3> QED
      BY <1>5, <2>1, <3>1 DEF Timer!Next, Timer!Input
  <2>5. CASE s = "SEQUENCED"
    <3>1. Timer(x)!IncomingSequenced
      BY <1>4, <1>5, <1>7, <1>9, <2>1, <2>2, <2>5 DEF Timer!IncomingSequenced
    <3> QED
      BY <1>5, <2>1, <3>1 DEF Timer!Next, Timer!Input
  <2> QED
    BY <1>6, <2>3, <2>4, <2>5
<1> QED
  BY <1>8, <1>9

LEMMA ReceiveStep ==
  ASSUME PairInv, NEW x \in Side, Receive(x)
  PROVE  PairInv' /\ IsTimerStep
<1> DEFINE pc == Head(wire[x])
           p == Handled(peer[x], pc)
<1>1. PICK c \in Measured(x, pc, Heard(peer[x], pc, clock[x])) : Put(x, p, c)
  BY DEF Receive
<1>2. /\ alive[x] /\ alive' = alive /\ lost' = lost /\ wire[x] # << >>
      /\ wire' = [wire EXCEPT ![x] = Tail(@)]
  BY DEF Receive
<1>3. /\ wire' \in [Side -> Seq(Packet)]
      /\ \A y \in Side : PongIsPlain(wire'[y])
      /\ pc \in Packet
      /\ pc.cmd = "PONG" => ~ pc.rel
  BY <1>2, TailFacts
<1> HIDE DEF pc
<1>4. c \in Times /\ Timer(x)!Next
  BY <1>1, <1>2, <1>3, ReceiveIsIncoming
<1>5. p \in rudp_peer /\ Good(p.sendq)
  BY <1>3, InvFacts, HandledSeen
<1> HIDE DEF p
<1>6. lost' \in 0 .. MaxLoss
  BY <1>2 DEF PairInv, TypeOK
<1> QED
  BY <1>1, <1>2, <1>3, <1>4, <1>5, <1>6, StepOf

LEMMA BackoffFacts ==
  ASSUME NEW p \in rudp_peer, Good(p.sendq), NEW c \in Times
  PROVE  LET b == Backoff(p, c) IN
         /\ b \in Times /\ b.since = c.since /\ b.deadline = c.deadline
         /\ b.srtt = c.srtt
         /\ b.rto = IF Seen(p.sendq).sent > 0 THEN Least(2 * c.rto, MAX_RTO) ELSE c.rto
<1>1. Least(2 * c.rto, MAX_RTO) \in 0 .. MAX_RTO
  BY TimesFacts, PairAssumption DEF Least
<1>2. [c EXCEPT !.rto = Least(2 * @, MAX_RTO)] = [c EXCEPT !.rto = Least(2 * c.rto, MAX_RTO)]
  BY DEF Times
<1>3. Backoff(p, c) = IF Seen(p.sendq).sent > 0
                        THEN [c EXCEPT !.rto = Least(2 * c.rto, MAX_RTO)] ELSE c
  BY <1>2, SentFacts DEF Backoff
<1> QED
  BY <1>1, <1>3 DEF Times

(* What is transmitted is put on the remote's wire. *)
LEMMA WireFacts ==
  ASSUME PairInv, NEW x \in Side, NEW out \in Seq(Packet), PongIsPlain(out),
         wire' = [wire EXCEPT ![x] = @ \o out]
  PROVE  /\ wire' \in [Side -> Seq(Packet)]
         /\ \A y \in Side : PongIsPlain(wire'[y])
<1> DEFINE w == wire[x]
           v == w \o out
<1>1. wire \in [Side -> Seq(Packet)] /\ w \in Seq(Packet) /\ PongIsPlain(w)
  BY InvFacts DEF PairInv, TypeOK
<1>2. /\ v \in Seq(Packet) /\ Len(v) = Len(w) + Len(out)
      /\ Len(w) \in Nat /\ Len(out) \in Nat
      /\ \A i \in 1 .. Len(v) : v[i] = IF i <= Len(w) THEN w[i] ELSE out[i - Len(w)]
  BY <1>1
<1>3. wire'[x] = v /\ \A y \in Side : y # x => wire'[y] = wire[y]
  BY <1>1
<1>4. wire' \in [Side -> Seq(Packet)]
  BY <1>1, <1>2
<1> HIDE DEF w, v
<1>5. PongIsPlain(v)
  <2> SUFFICES ASSUME NEW i \in 1 .. Len(v), v[i].cmd = "PONG"
               PROVE  ~ v[i].rel
    BY DEF PongIsPlain
  <2>1. CASE i <= Len(w)
    BY <1>1, <1>2, <2>1 DEF PongIsPlain
  <2>2. CASE ~ (i <= Len(w))
    <3>1. i - Len(w) \in 1 .. Len(out) /\ v[i] = out[i - Len(w)]
      BY <1>2, <2>2
    <3> QED
      BY <3>1 DEF PongIsPlain
  <2> QED
    BY <2>1, <2>2
<1> QED
  BY <1>3, <1>4, <1>5, InvFacts

(* The timer runs, and the queue of p is sent. *)
LEMMA FlushFacts ==
  ASSUME PairInv, NEW x \in Side, NEW p \in rudp_peer, Good(p.sendq), Flush(x, p)
  PROVE  LET o == Seen(p.sendq)
             t == clock[x]
             q == IF o.sent > 0 THEN o ELSE [sent |-> o.fresh, fresh |-> 0, plain |-> 0]
             s == IF p.sendq = << >> THEN t.since ELSE 0
             r == IF o.sent > 0 THEN Least(2 * t.rto, MAX_RTO) ELSE t.rto
         IN  /\ Timer(x)!Rearmed(q, s, t.deadline, r)
             /\ clock'[x].srtt = t.srtt /\ alive' = alive
             /\ Timer(x)!Next => PairInv' /\ IsTimerStep
<1> DEFINE g == peer_service_schedule(peer_send_queue(p))
           t == clock[x]
           o == Seen(p.sendq)
           z == IF Sent(p) = << >> THEN t ELSE [t EXCEPT !.since = 0]
           b == Backoff(p, z)
           q == IF o.sent > 0 THEN o ELSE [sent |-> o.fresh, fresh |-> 0, plain |-> 0]
           s == IF p.sendq = << >> THEN t.since ELSE 0
           r == IF o.sent > 0 THEN Least(2 * t.rto, MAX_RTO) ELSE t.rto
<1>1. /\ Put(x, g, b)
      /\ wire' = [wire EXCEPT ![Remote(x)] = @ \o Sent(p)]
      /\ alive' = alive /\ lost' = lost
  BY DEF Flush
<1>2. t \in Times
  BY InvFacts
<1>3. g \in rudp_peer /\ Good(g.sendq) /\ Seen(g.sendq) = q
  <2>1. peer_send_queue(p) \in rudp_peer
    BY SendQueueType
  <2>2. g \in rudp_peer /\ g.sendq = peer_send_queue(p).sendq
    BY <2>1, ScheduleType DEF peer_service_schedule, rudp_peer
  <2> HIDE DEF g
  <2> QED
    BY <2>2, SendQueueSeen
<1>4. /\ z \in Times /\ z.since = s /\ z.deadline = t.deadline
      /\ z.rto = t.rto /\ z.srtt = t.srtt
  <2>1. 0 \in 0 .. DROP_TIMEOUT + 1
    BY DropTimeout
  <2>2. Sent(p) = << >> <=> p.sendq = << >>
    BY SentFacts
  <2> QED
    BY <1>2, <2>1, <2>2 DEF Times
<1> HIDE DEF z, g, q, s, t, o
<1>5. /\ b \in Times /\ b.since = s /\ b.deadline = t.deadline
      /\ b.rto = r /\ b.srtt = t.srtt
  BY <1>4, BackoffFacts DEF o
<1> HIDE DEF b
<1>6. Timer(x)!Rearmed(q, s, t.deadline, r) /\ clock'[x].srtt = t.srtt
  BY <1>1, <1>3, <1>5, PutIsRearmed, PutFacts
<1>7. /\ wire' \in [Side -> Seq(Packet)]
      /\ \A y \in Side : PongIsPlain(wire'[y])
  BY <1>1, RemoteFacts, SentFacts, WireFacts
<1>8. lost' \in 0 .. MaxLoss
  BY <1>1 DEF PairInv, TypeOK
<1>9. Timer(x)!Next => PairInv' /\ IsTimerStep
  BY <1>1, <1>3, <1>5, <1>7, <1>8, StepOf
<1> QED
  BY <1>1, <1>6, <1>9 DEF q, s, t, o

LEMMA ServiceStep ==
  ASSUME PairInv, NEW x \in Side, Service(x)
  PROVE  PairInv' /\ IsTimerStep
<1> DEFINE t == clock[x]
           o == Seen(peer[x].sendq)
           zero == [sent |-> 0, fresh |-> 0, plain |-> 0]
           idle == peer[x].sendq = << >>
           p == IF idle /\ t.since > ACTION_TIMEOUT THEN peer_ping(peer[x]) ELSE peer[x]
<1>1. /\ Flush(x, p) /\ alive[x] /\ t.timer <= - Late /\ t.deadline >= 0
  BY DEF Service, Due
<1>2. /\ peer[x] \in rudp_peer /\ Good(peer[x].sendq) /\ t \in Times
      /\ peer[x].sendq \in Seq(Packet)
  BY InvFacts, PeerFields
<1>3. t.timer <= 0 /\ t.since \in Nat
  BY <1>1, <1>2, TimesFacts, PairAssumption
<1>4. Timer(x)!Due
  BY <1>1, <1>3 DEF Timer!Due
<1>5. /\ o \in [sent : Nat, fresh : Nat, plain : Nat]
      /\ o = zero <=> idle
  BY <1>2, SeenType, SeenEmpty
<1>6. Timer(x)!Empty = zero
  BY DEF Timer!Empty
<1>7. CASE idle /\ t.since > ACTION_TIMEOUT
  <2>1. p = peer_ping(peer[x])
    BY <1>7
  <2>2. /\ p \in rudp_peer /\ Good(p.sendq)
        /\ Seen(p.sendq) = [o EXCEPT !.fresh = @ + 1]
    BY <1>2, <2>1, SendReliableType, SendReliableSeen DEF peer_ping, Command
  <2>3. Seen(p.sendq) = [sent |-> 0, fresh |-> 1, plain |-> 0]
    BY <1>5, <1>7, <2>2
  <2>4. p.sendq # << >>
    BY <2>2, <2>3, PeerFields, SeenEmpty
  <2> HIDE DEF p
  <2>5. /\ Timer(x)!Rearmed([sent |-> 1, fresh |-> 0, plain |-> 0], 0, t.deadline, t.rto)
        /\ clock'[x].srtt = t.srtt /\ alive' = alive
        /\ Timer(x)!Next => PairInv' /\ IsTimerStep
    BY <1>1, <2>2, <2>3, <2>4, FlushFacts
  <2>6. [Timer(x)!Empty EXCEPT !.sent = 1] = [sent |-> 1, fresh |-> 0, plain |-> 0]
    BY <1>6
  <2>7. Timer(x)!Ping
    BY <1>1, <1>4, <1>5, <1>6, <1>7, <2>5, <2>6 DEF Timer!Ping
  <2> QED
    BY <2>5, <2>7 DEF Timer!Next, Timer!Service
<1>8. CASE ~ (idle /\ t.since > ACTION_TIMEOUT)
  <2> DEFINE q == IF o.sent > 0 THEN o ELSE [sent |-> o.fresh, fresh |-> 0, plain |-> 0]
             s == IF idle THEN t.since ELSE 0
             r == IF o.sent > 0 THEN Least(2 * t.rto, MAX_RTO) ELSE t.rto
  <2>1. p = peer[x]
    BY <1>8
  <2>2. /\ Timer(x)!Rearmed(q, s, t.deadline, r)
        /\ clock'[x].srtt = t.srtt /\ alive' = alive
        /\ Timer(x)!Next => PairInv' /\ IsTimerStep
    BY <1>1, <1>2, <2>1, FlushFacts
  <2>3. Timer(x)!Retransmit \/ Timer(x)!Transmit \/ Timer(x)!Idle
    <3>1. CASE o.sent > 0
      <4>1. q = o /\ s = 0 /\ r = Timer(x)!Least(2 * t.rto, MAX_RTO)
        BY <1>5, <3>1 DEF Timer!Least, Least
      <4>2. Timer(x)!Retransmit
        BY <1>1, <1>4, <2>2, <3>1, <4>1 DEF Timer!Retransmit
      <4> QED
        BY <4>2
    <3>2. CASE ~ (o.sent > 0) /\ ~ idle
      <4>1. q = [Timer(x)!Empty EXCEPT !.sent = o.fresh] /\ s = 0 /\ r = t.rto /\ o.sent = 0
        BY <1>5, <1>6, <3>2
      <4>2. Timer(x)!Transmit
        BY <1>1, <1>4, <1>5, <1>6, <2>2, <3>2, <4>1 DEF Timer!Transmit
      <4> QED
        BY <4>2
    <3>3. CASE ~ (o.sent > 0) /\ idle
      <4>1. q = o /\ s = t.since /\ r = t.rto /\ t.since <= ACTION_TIMEOUT
        BY <1>3, <1>5, <1>8, <3>3, PairAssumption
      <4>2. Timer(x)!Idle
        BY <1>1, <1>4, <1>5, <1>6, <2>2, <3>3, <4>1 DEF Timer!Idle
      <4> QED
        BY <4>2
    <3> QED
      BY <3>1, <3>2, <3>3
  <2> QED
    BY <2>2, <2>3 DEF Timer!Next, Timer!Service
<1> QED
  BY <1>7, <1>8

(* Counting the numbers from another base changes no flag. *)
LEMMA RebasedFacts ==
  ASSUME PairInv, NEW x \in Side
  PROVE  LET p == RebasedPeer(x) IN
         /\ p \in rudp_peer /\ Good(p.sendq)
         /\ Seen(p.sendq) = Seen(peer[x].sendq)
<1> DEFINE q == peer[x].sendq
           e(i) == Rebased(x, q[i])
           r == [i \in DOMAIN q |-> e(i)]
           o == Wrap(peer[x].out_seq_reliable - Base(x))
           s == Wrap(peer[x].in_seq_reliable - Base(Remote(x)))
<1>1. /\ q \in Seq(Packet) /\ Len(q) \in Nat /\ DOMAIN q = 1 .. Len(q)
      /\ \A i \in 1 .. Len(q) : q[i] \in Packet
  BY InvFacts, PeerFields, QueueFacts
<1>2. /\ peer[x] \in rudp_peer /\ Good(q)
      /\ Base(x) \in Int /\ Base(Remote(x)) \in Int
  BY InvFacts, RemoteFacts, PeerFields, SeqNoInt DEF Base
<1>3. \A n \in SeqNo : Wrap(n - Base(x)) \in SeqNo /\ Wrap(n - Base(Remote(x))) \in SeqNo
  BY <1>2, SeqNoInt, WrapType
<1>4. \A i \in 1 .. Len(q) :
        /\ e(i) \in Packet
        /\ e(i).rel = q[i].rel /\ e(i).ret = q[i].ret /\ e(i).cmd = q[i].cmd
  <2> SUFFICES ASSUME NEW pc \in Packet
               PROVE  /\ Rebased(x, pc) \in Packet
                      /\ Rebased(x, pc).rel = pc.rel /\ Rebased(x, pc).ret = pc.ret
                      /\ Rebased(x, pc).cmd = pc.cmd
    BY <1>1
  <2>1. /\ Wrap(pc.seq - Base(x)) \in SeqNo
        /\ pc.ack # NoAck => Wrap(pc.ack - Base(Remote(x))) \in SeqNo
    BY <1>3 DEF Packet
  <2> QED
    BY <2>1 DEF Rebased, Packet
<1>5. r = [i \in 1 .. Len(q) |-> e(i)]
  BY <1>1
<1>6. RebasedPeer(x) =
        [peer[x] EXCEPT !.out_seq_reliable = o, !.out_seq_acked = 0,
                        !.in_seq_reliable = s, !.sendq = r]
  BY <1>2 DEF RebasedPeer, rudp_peer
<1> HIDE DEF e
<1>7. /\ r \in Seq(Packet) /\ Len(r) = Len(q) /\ DOMAIN r = DOMAIN q
      /\ \A i \in 1 .. Len(q) : r[i] = e(i)
  BY <1>1, <1>4, <1>5
<1>8. o \in SeqNo /\ s \in SeqNo /\ 0 \in SeqNo
  BY <1>2, <1>3, PeerFields, SeqNoInt
<1> HIDE DEF r, o, s
<1>9. RebasedPeer(x) \in rudp_peer /\ RebasedPeer(x).sendq = r
  BY <1>2, <1>6, <1>7, <1>8 DEF rudp_peer
<1>10. Seen(r) = Seen(q) /\ Good(r)
  BY <1>1, <1>2, <1>4, <1>7, SeenSameFlags, GoodSameFlags
<1> QED
  BY <1>9, <1>10

LEMMA TickStep ==
  ASSUME PairInv, Tick
  PROVE  PairInv' /\ IsTimerStep
<1> DEFINE c(x) == [clock[x] EXCEPT !.timer = @ - 1,
                      !.deadline = IF @ < 0 THEN @ ELSE @ - 1,
                      !.since = Least(@ + 1, DROP_TIMEOUT + 1)]
<1>1. /\ alive' = alive /\ wire' = wire /\ lost' = lost
      /\ clock' = [x \in Side |-> c(x)]
      /\ peer' = [x \in Side |-> RebasedPeer(x)]
      /\ \A x \in Side : alive[x] /\ ~ (clock[x].timer <= - Late)
  BY DEF Tick, Due
<1>2. ASSUME NEW x \in Side
      PROVE  /\ c(x) \in Times
             /\ c(x).timer = clock[x].timer - 1
             /\ c(x).deadline = Timer(x)!Greatest(clock[x].deadline - 1, -1)
             /\ c(x).since = Timer(x)!Least(clock[x].since + 1, DROP_TIMEOUT + 1)
             /\ c(x).srtt = clock[x].srtt /\ c(x).rto = clock[x].rto
             /\ clock[x].timer > - Late
  <2>1. clock[x] \in Times /\ ~ (clock[x].timer <= - Late)
    BY <1>1, InvFacts
  <2>2. /\ clock[x].timer - 1 \in - Late .. DROP_TIMEOUT
        /\ clock[x].timer > - Late
    BY <2>1, DropTimeout, PairAssumption DEF Times
  <2> DEFINE d == IF clock[x].deadline < 0 THEN clock[x].deadline
                                           ELSE clock[x].deadline - 1
             s == Least(clock[x].since + 1, DROP_TIMEOUT + 1)
  <2>3. /\ d \in -1 .. DROP_TIMEOUT
        /\ d = Timer(x)!Greatest(clock[x].deadline - 1, -1)
    BY <2>1, TimesFacts, DropTimeout DEF Timer!Greatest
  <2>4. /\ s \in 0 .. DROP_TIMEOUT + 1
        /\ s = Timer(x)!Least(clock[x].since + 1, DROP_TIMEOUT + 1)
    BY <2>1, TimesFacts, DropTimeout DEF Timer!Least, Least
  <2>5. c(x) = [clock[x] EXCEPT !.timer = clock[x].timer - 1, !.deadline = d, !.since = s]
    BY <2>1 DEF Times
  <2> HIDE DEF c, d, s
  <2> QED
    BY <2>1, <2>2, <2>3, <2>4, <2>5 DEF Times
<1> HIDE DEF c
<1>3. \A x \in Side : peer'[x] = RebasedPeer(x) /\ clock'[x] = c(x)
  BY <1>1
<1>4. /\ peer' \in [Side -> rudp_peer] /\ clock' \in [Side -> Times]
      /\ \A x \in Side : Good(peer'[x].sendq)
  BY <1>1, <1>2, RebasedFacts
<1>5. PairInv'
  BY <1>1, <1>4 DEF PairInv, TypeOK, Good
<1>6. ASSUME NEW x \in Side PROVE Timer(x)!Tick
  <2>1. Seen(peer'[x].sendq) = Seen(peer[x].sendq)
    BY <1>3, RebasedFacts
  <2>2. Timer(x)!DROP_TIMEOUT = DROP_TIMEOUT
    BY DEF Timer!DROP_TIMEOUT, DROP_TIMEOUT
  <2>3. alive[x] /\ alive'[x] = alive[x] /\ clock'[x] = c(x)
    BY <1>1, <1>3
  <2> QED
    BY <1>2, <2>1, <2>2, <2>3 DEF Timer!Tick
<1> QED
  BY <1>5, <1>6 DEF IsTimerStep, Timer!Next

-----------------------------------------------------------------------------
(* The theorems *)

LEMMA PairInit == Init => PairInv
<1> SUFFICES ASSUME Init PROVE PairInv
  OBVIOUS
<1> DEFINE i == rudp_peer_init(0)
           a == [i EXCEPT !.state = "RUN", !.in_seq_reliable = 0,
                          !.in_seq_unreliable = 2, !.out_seq_reliable = 2,
                          !.out_seq_acked = 2]
           b == [i EXCEPT !.state = "RUN", !.in_seq_reliable = 2,
                          !.out_seq_unreliable = 2, !.must_ack = TRUE]
           c == [deadline |-> DROP_TIMEOUT, since |-> 1 + Late,
                 timer |-> ACTION_TIMEOUT, srtt |-> INITIAL_RTT,
                 rto |-> Least(INITIAL_RTT, MAX_RTO)]
           d == [deadline |-> DROP_TIMEOUT - 1 - Late, since |-> 0,
                 timer |-> ACTION_TIMEOUT, srtt |-> INITIAL_RTT, rto |-> MAX_RTO]
<1>1. i \in rudp_peer /\ i.sendq = << >>
  BY ResetType, ScheduleType, SeqNoInt
     DEF rudp_peer_init, peer_service_schedule, rudp_peer_reset
<1>2. 0 \in SeqNo /\ 2 \in SeqNo
  BY ModulusAssumption DEF SeqNo
<1> HIDE DEF i
<1>3. a \in rudp_peer /\ b \in rudp_peer /\ a.sendq = << >> /\ b.sendq = << >>
  BY <1>1, <1>2 DEF rudp_peer, peer_state
<1>4. c \in Times /\ d \in Times
  BY PairAssumption, DropTimeout DEF Times, Least
<1>5. /\ peer = [client |-> a, server |-> b] /\ clock = [client |-> c, server |-> d]
      /\ alive = [x \in Side |-> TRUE] /\ wire = [x \in Side |-> << >>] /\ lost = 0
  BY DEF Init, i
<1> HIDE DEF a, b, c, d
<1>6. /\ peer \in [Side -> rudp_peer] /\ clock \in [Side -> Times]
      /\ \A x \in Side : peer[x].sendq = << >>
  BY <1>3, <1>4, <1>5 DEF Side
<1>7. /\ alive \in [Side -> BOOLEAN] /\ wire \in [Side -> Seq(Packet)]
      /\ lost \in 0 .. MaxLoss
  BY <1>5, PairAssumption
<1>8. \A x \in Side : wire[x] = << >>
  BY <1>5
<1>9. SentFirst(<< >>) /\ PongIsPlain(<< >>) /\ SentIsReliable(<< >>)
  BY DEF SentFirst, PongIsPlain, SentIsReliable
<1> QED
  BY <1>6, <1>7, <1>8, <1>9 DEF PairInv, TypeOK

LEMMA PairStep ==
  ASSUME PairInv, [Next]_vars
  PROVE  PairInv' /\ IsTimerStep
<1>1. CASE Tick
  BY <1>1, TickStep
<1>2. ASSUME NEW x \in Side, Send(x) PROVE PairInv' /\ IsTimerStep
  BY <1>2, SendStep
<1>3. ASSUME NEW x \in Side, Lose(x) PROVE PairInv' /\ IsTimerStep
  BY <1>3, LoseStep
<1>4. ASSUME NEW x \in Side, Receive(x) PROVE PairInv' /\ IsTimerStep
  BY <1>4, ReceiveStep
<1>5. ASSUME NEW x \in Side, Drop(x) PROVE PairInv' /\ IsTimerStep
  BY <1>5, DropStep
<1>6. ASSUME NEW x \in Side, Service(x) PROVE PairInv' /\ IsTimerStep
  BY <1>6, ServiceStep
<1>7. CASE UNCHANGED vars
  <2>1. peer' = peer /\ clock' = clock /\ alive' = alive /\ wire' = wire /\ lost' = lost
    BY <1>7 DEF vars
  <2>2. PairInv'
    BY <2>1 DEF PairInv, TypeOK
  <2> QED
    BY <2>1, <2>2, Untouched DEF IsTimerStep
<1> QED
  BY <1>1, <1>2, <1>3, <1>4, <1>5, <1>6, <1>7 DEF Next, Library

(* The inductive invariant of the pair: in both queues what was            *)
(* transmitted comes first and is reliable (peer_send_queue marks from the *)
(* head on, peer_handle_ack removes from the head on, and packets are      *)
(* queued at the end), and no PONG, queued or under way, asks for an       *)
(* acknowledgement.                                                        *)
THEOREM PairInductive == Spec => []PairInv
<1>1. PairInv /\ [Next]_vars => PairInv'
  BY PairStep
<1> QED
  BY <1>1, PairInit, PTL DEF Spec

(* The flag of the packet at the head, which is all that                   *)
(* peer_service_schedule looks at, says whether any packet of the queue    *)
(* was transmitted, which is what the delay depends on in RudpTimer.       *)
HeadDecides ==
    \A x \in Side : LET q == peer[x].sendq IN
        Seen(q).sent > 0 <=> q # << >> /\ q[1].ret

(* Looking at the head alone is enough, whatever was sent, acknowledged    *)
(* and lost.                                                               *)
THEOREM HeadIsEnough == Spec => []HeadDecides
<1>1. ASSUME PairInv, NEW x \in Side
      PROVE  LET q == peer[x].sendq IN Seen(q).sent > 0 <=> q # << >> /\ q[1].ret
  <2> DEFINE q == peer[x].sendq
  <2>1. q \in Seq(Packet) /\ SentFirst(q) /\ SentIsReliable(q)
    BY <1>1, InvFacts, PeerFields DEF Good
  <2>2. Len(q) \in Nat /\ (q = << >> <=> Len(q) = 0)
    BY <2>1, QueueFacts
  <2>3. Seen(q).sent > 0 <=> \E i \in 1 .. Len(q) : Retransmission(q[i])
    BY <2>1, SeenEmpty
  <2> HIDE DEF q
  <2>4. Seen(q).sent > 0 => q # << >> /\ q[1].ret
    BY <2>1, <2>2, <2>3, VisitedIs DEF Retransmission
  <2>5. ASSUME q # << >>, q[1].ret PROVE Seen(q).sent > 0
    <3>1. 1 \in 1 .. Len(q)
      BY <2>2, <2>5
    <3> QED
      BY <2>1, <2>3, <2>5, <3>1 DEF SentIsReliable, Retransmission
  <2> QED
    BY <2>4, <2>5 DEF q
<1>2. PairInv => HeadDecides
  BY <1>1 DEF HeadDecides
<1> QED
  BY <1>2, PairInductive, PTL

(* Each of two connected peers takes only steps of RudpTimer, whatever is  *)
(* sent and lost: what RudpTimer makes of a packet that arrives, of a      *)
(* queue that is sent and of a timer that is armed is what the functions   *)
(* of the peer do.                                                         *)
THEOREM EachPeerIsATimer == Spec => EachIsATimer
<1>1. PairInv /\ [Next]_vars =>
        [\A x \in Side : UNCHANGED Timer(x)!vars \/ Timer(x)!Next]_vars
  BY PairStep DEF IsTimerStep
<1> QED
  BY <1>1, PairInductive, PTL DEF Spec, EachIsATimer

-----------------------------------------------------------------------------
(* What the theorems of RudpTimer say of the two.  An instance that has a  *)
(* parameter cannot be cited in a proof; these two say the same as         *)
(* Timer("client") and Timer("server").                                    *)

ClientTimer == INSTANCE RudpTimerProofs WITH
    QueueSizes <- Nat, MaxLate <- Late,
    alive <- alive["client"], queue <- Seen(peer["client"].sendq),
    deadline <- clock["client"].deadline, since <- clock["client"].since,
    timer <- clock["client"].timer, srtt <- clock["client"].srtt,
    rto <- clock["client"].rto

ServerTimer == INSTANCE RudpTimerProofs WITH
    QueueSizes <- Nat, MaxLate <- Late,
    alive <- alive["server"], queue <- Seen(peer["server"].sendq),
    deadline <- clock["server"].deadline, since <- clock["server"].since,
    timer <- clock["server"].timer, srtt <- clock["server"].srtt,
    rto <- clock["server"].rto

LEMMA ClientTimerStep ==
  ASSUME ClientTimer!TimerInv, IsTimerStep
  PROVE  ClientTimer!TimerInv'
<1>1. Timer("client")!Next => ClientTimer!Next
  BY DEF Timer!Next, Timer!Input, Timer!Send, Timer!IncomingUnsequenced,
         Timer!IncomingRetransmitted, Timer!IncomingSequenced,
         Timer!IncomingPong, Timer!Service, Timer!Drop, Timer!Retransmit,
         Timer!Transmit, Timer!Ping, Timer!Idle, Timer!Tick, Timer!Due,
         Timer!Rearmed, Timer!Reliable, Timer!Unreliable, Timer!Acked,
         Timer!peer_post_ack, Timer!NewSrtt, Timer!NewRto, Timer!Least,
         Timer!Greatest, Timer!Empty, Timer!HeadDelay,
         Timer!peer_service_schedule, Timer!DROP_TIMEOUT, ClientTimer!Next,
         ClientTimer!Input, ClientTimer!Send,
         ClientTimer!IncomingUnsequenced, ClientTimer!IncomingRetransmitted,
         ClientTimer!IncomingSequenced, ClientTimer!IncomingPong,
         ClientTimer!Service, ClientTimer!Drop, ClientTimer!Retransmit,
         ClientTimer!Transmit, ClientTimer!Ping, ClientTimer!Idle,
         ClientTimer!Tick, ClientTimer!Due, ClientTimer!Rearmed,
         ClientTimer!Reliable, ClientTimer!Unreliable, ClientTimer!Acked,
         ClientTimer!peer_post_ack, ClientTimer!NewSrtt, ClientTimer!NewRto,
         ClientTimer!Least, ClientTimer!Greatest, ClientTimer!Empty,
         ClientTimer!HeadDelay, ClientTimer!peer_service_schedule,
         ClientTimer!DROP_TIMEOUT
<1>2. UNCHANGED Timer("client")!vars => UNCHANGED ClientTimer!vars
  BY DEF Timer!vars, ClientTimer!vars
<1>3. "client" \in Side
  BY DEF Side
<1> QED
  BY <1>1, <1>2, <1>3, ClientTimer!StepInv, PairAssumption DEF IsTimerStep

LEMMA ServerTimerStep ==
  ASSUME ServerTimer!TimerInv, IsTimerStep
  PROVE  ServerTimer!TimerInv'
<1>1. Timer("server")!Next => ServerTimer!Next
  BY DEF Timer!Next, Timer!Input, Timer!Send, Timer!IncomingUnsequenced,
         Timer!IncomingRetransmitted, Timer!IncomingSequenced,
         Timer!IncomingPong, Timer!Service, Timer!Drop, Timer!Retransmit,
         Timer!Transmit, Timer!Ping, Timer!Idle, Timer!Tick, Timer!Due,
         Timer!Rearmed, Timer!Reliable, Timer!Unreliable, Timer!Acked,
         Timer!peer_post_ack, Timer!NewSrtt, Timer!NewRto, Timer!Least,
         Timer!Greatest, Timer!Empty, Timer!HeadDelay,
         Timer!peer_service_schedule, Timer!DROP_TIMEOUT, ServerTimer!Next,
         ServerTimer!Input, ServerTimer!Send,
         ServerTimer!IncomingUnsequenced, ServerTimer!IncomingRetransmitted,
         ServerTimer!IncomingSequenced, ServerTimer!IncomingPong,
         ServerTimer!Service, ServerTimer!Drop, ServerTimer!Retransmit,
         ServerTimer!Transmit, ServerTimer!Ping, ServerTimer!Idle,
         ServerTimer!Tick, ServerTimer!Due, ServerTimer!Rearmed,
         ServerTimer!Reliable, ServerTimer!Unreliable, ServerTimer!Acked,
         ServerTimer!peer_post_ack, ServerTimer!NewSrtt, ServerTimer!NewRto,
         ServerTimer!Least, ServerTimer!Greatest, ServerTimer!Empty,
         ServerTimer!HeadDelay, ServerTimer!peer_service_schedule,
         ServerTimer!DROP_TIMEOUT
<1>2. UNCHANGED Timer("server")!vars => UNCHANGED ServerTimer!vars
  BY DEF Timer!vars, ServerTimer!vars
<1>3. "server" \in Side
  BY DEF Side
<1> QED
  BY <1>1, <1>2, <1>3, ServerTimer!StepInv, PairAssumption DEF IsTimerStep

LEMMA ClientTimerInit ==
  ASSUME Init
  PROVE  ClientTimer!TimerInv
<1> DEFINE c == clock["client"]
<1>1. /\ alive["client"] = TRUE /\ peer["client"].sendq = << >>
      /\ c.deadline = DROP_TIMEOUT /\ c.timer = ACTION_TIMEOUT
  BY DEF Init, Side, rudp_peer_init, peer_service_schedule, rudp_peer_reset
<1>2. Seen(<< >>) = [sent |-> 0, fresh |-> 0, plain |-> 0]
  BY SeenEmpty, << >> \in Seq(Packet)
<1>3. c \in Times
  BY PairInit, InvFacts DEF Side
<1> HIDE DEF c
<1>4. ClientTimer!TypeOK
  <2>1. ClientTimer!DROP_TIMEOUT = DROP_TIMEOUT /\ ClientTimer!Greatest(DROP_TIMEOUT, 1) = DROP_TIMEOUT
    BY DropTimeout DEF ClientTimer!DROP_TIMEOUT, DROP_TIMEOUT, ClientTimer!Greatest
  <2>2. Seen(peer["client"].sendq) \in ClientTimer!Queue
    BY <1>1, <1>2 DEF ClientTimer!Queue
  <2>3. /\ c.deadline \in -1 .. DROP_TIMEOUT /\ c.since \in 0 .. DROP_TIMEOUT + 1
        /\ c.timer \in - Late .. DROP_TIMEOUT /\ c.srtt \in Nat /\ c.rto \in 0 .. MAX_RTO
    BY <1>3 DEF Times
  <2> QED
    BY <1>1, <2>1, <2>2, <2>3 DEF ClientTimer!TypeOK, c
<1>5. ClientTimer!ArmedForDeadline
  BY <1>1, DropTimeout, PairAssumption DEF ClientTimer!ArmedForDeadline, ClientTimer!Greatest, c
<1>6. ClientTimer!AsapIsNextTick /\ ClientTimer!WaitsForRto
  BY <1>1, <1>2 DEF ClientTimer!AsapIsNextTick, ClientTimer!WaitsForRto, ClientTimer!Empty
<1> QED
  BY <1>4, <1>5, <1>6 DEF ClientTimer!TimerInv

LEMMA ServerTimerInit ==
  ASSUME Init
  PROVE  ServerTimer!TimerInv
<1> DEFINE c == clock["server"]
<1>1. /\ alive["server"] = TRUE /\ peer["server"].sendq = << >>
      /\ c.deadline = DROP_TIMEOUT - 1 - Late /\ c.timer = ACTION_TIMEOUT
  BY DEF Init, Side, rudp_peer_init, peer_service_schedule, rudp_peer_reset
<1>2. Seen(<< >>) = [sent |-> 0, fresh |-> 0, plain |-> 0]
  BY SeenEmpty, << >> \in Seq(Packet)
<1>3. c \in Times
  BY PairInit, InvFacts DEF Side
<1> HIDE DEF c
<1>4. ServerTimer!TypeOK
  <2>1. ServerTimer!DROP_TIMEOUT = DROP_TIMEOUT /\ ServerTimer!Greatest(DROP_TIMEOUT, 1) = DROP_TIMEOUT
    BY DropTimeout DEF ServerTimer!DROP_TIMEOUT, DROP_TIMEOUT, ServerTimer!Greatest
  <2>2. Seen(peer["server"].sendq) \in ServerTimer!Queue
    BY <1>1, <1>2 DEF ServerTimer!Queue
  <2>3. /\ c.deadline \in -1 .. DROP_TIMEOUT /\ c.since \in 0 .. DROP_TIMEOUT + 1
        /\ c.timer \in - Late .. DROP_TIMEOUT /\ c.srtt \in Nat /\ c.rto \in 0 .. MAX_RTO
    BY <1>3 DEF Times
  <2> QED
    BY <1>1, <2>1, <2>2, <2>3 DEF ServerTimer!TypeOK, c
<1>5. ServerTimer!ArmedForDeadline
  BY <1>1, DropTimeout, PairAssumption DEF ServerTimer!ArmedForDeadline, ServerTimer!Greatest, c
<1>6. ServerTimer!AsapIsNextTick /\ ServerTimer!WaitsForRto
  BY <1>1, <1>2 DEF ServerTimer!AsapIsNextTick, ServerTimer!WaitsForRto, ServerTimer!Empty
<1> QED
  BY <1>4, <1>5, <1>6 DEF ServerTimer!TimerInv

(* Both timers are as RudpTimer says: armed for the deadline, for the next *)
(* tick while something waits that was not transmitted, and otherwise a    *)
(* full rto after the last output (peer_service_schedule).                 *)
TimersInTime ==
    \A x \in Side : /\ Timer(x)!ArmedForDeadline
                    /\ Timer(x)!AsapIsNextTick
                    /\ Timer(x)!WaitsForRto

LEMMA TimersAreInTime ==
  ASSUME ClientTimer!TimerInv, ServerTimer!TimerInv
  PROVE  TimersInTime
<1>1. /\ Timer("client")!ArmedForDeadline /\ Timer("client")!AsapIsNextTick
      /\ Timer("client")!WaitsForRto
  BY DEF ClientTimer!TimerInv, ClientTimer!ArmedForDeadline,
         ClientTimer!AsapIsNextTick, ClientTimer!WaitsForRto,
         ClientTimer!Greatest, ClientTimer!Empty, Timer!ArmedForDeadline,
         Timer!AsapIsNextTick, Timer!WaitsForRto, Timer!Greatest, Timer!Empty
<1>2. /\ Timer("server")!ArmedForDeadline /\ Timer("server")!AsapIsNextTick
      /\ Timer("server")!WaitsForRto
  BY DEF ServerTimer!TimerInv, ServerTimer!ArmedForDeadline,
         ServerTimer!AsapIsNextTick, ServerTimer!WaitsForRto,
         ServerTimer!Greatest, ServerTimer!Empty, Timer!ArmedForDeadline,
         Timer!AsapIsNextTick, Timer!WaitsForRto, Timer!Greatest, Timer!Empty
<1> QED
  BY <1>1, <1>2 DEF TimersInTime, Side

(* Between two peers that talk to each other, over a network that loses    *)
(* packets, neither timer is armed past the drop deadline, keeps a fresh   *)
(* queue waiting or retransmits before its rto.                            *)
THEOREM BothTimersInTime == Spec => []TimersInTime
<1> DEFINE Inv == PairInv /\ ClientTimer!TimerInv /\ ServerTimer!TimerInv
<1>1. Init => Inv
  BY PairInit, ClientTimerInit, ServerTimerInit
<1>2. Inv /\ [Next]_vars => Inv'
  BY PairStep, ClientTimerStep, ServerTimerStep
<1>3. Inv => TimersInTime
  BY TimersAreInTime
<1> HIDE DEF Inv
<1> QED
  BY <1>1, <1>2, <1>3, PTL DEF Spec

(* peer_service sends a packet again no earlier than rto after the last    *)
(* output, unless the deadline has come, whatever arrived meanwhile.       *)
RetransmitsNotEarly ==
    [][\A x \in Side :
          Service(x) /\ (\E i \in DOMAIN peer[x].sendq : Retransmission(peer[x].sendq[i]))
          => clock[x].since >= clock[x].rto \/ clock[x].deadline <= 0]_vars

(* No retransmission of either of two connected peers is early: the time   *)
(* that peer_service_schedule chose holds when the timer runs.             *)
THEOREM NeitherRetransmitsEarly == Spec => RetransmitsNotEarly
<1>1. ASSUME PairInv, TimersInTime, NEW x \in Side, Service(x),
             \E i \in DOMAIN peer[x].sendq : Retransmission(peer[x].sendq[i])
      PROVE  clock[x].since >= clock[x].rto \/ clock[x].deadline <= 0
  <2> DEFINE c == clock[x]
  <2>1. alive[x] /\ c.timer <= - Late
    BY <1>1 DEF Service, Due
  <2>2. Seen(peer[x].sendq).sent > 0
    BY <1>1, InvFacts, PeerFields, QueueFacts, SeenEmpty
  <2>3. \/ c.since >= c.rto \/ c.since + c.timer >= c.rto
        \/ c.deadline <= Timer(x)!Greatest(c.timer, 0)
    BY <1>1, <2>1, <2>2 DEF TimersInTime, Timer!WaitsForRto
  <2>4. c \in Times
    BY <1>1, InvFacts
  <2> HIDE DEF c
  <2>5. c.since >= c.rto \/ c.deadline <= 0
    BY <2>1, <2>3, <2>4, TimesFacts, PairAssumption DEF Timer!Greatest
  <2> QED
    BY <2>5 DEF c
<1>2. PairInv /\ TimersInTime /\ [Next]_vars =>
        [\A x \in Side :
          Service(x) /\ (\E i \in DOMAIN peer[x].sendq : Retransmission(peer[x].sendq[i]))
          => clock[x].since >= clock[x].rto \/ clock[x].deadline <= 0]_vars
  BY <1>1
<1> QED
  BY <1>2, PairInductive, BothTimersInTime, PTL DEF Spec, RetransmitsNotEarly

=============================================================================
