-------------------------- MODULE RudpServerProofs --------------------------
(***************************************************************************)
(* Proofs about RudpServer, for any number of peers, addresses and data.   *)
(* They hold for an application that closes no other peer while            *)
(* rudp_server_close calls peer_dropped; where else it does, MayClose      *)
(* leaves open.                                                            *)
(*                                                                         *)
(* The allocated blocks, the list and what the application knows are the   *)
(* same set at every moment, also while a callback runs (SameSets): every  *)
(* other property rests on that.                                           *)
(***************************************************************************)
EXTENDS RudpServer, SequenceTheorems, TLAPS

(* Three views of the peers that exist agree, and only they have timers. *)
SameSets ==
    /\ live = Listed /\ known = live
    /\ timers \subseteq live /\ stored \subseteq known

(* A peer is listed once. *)
ListedOnce ==
    \A i, j \in DOMAIN peer_list : peer_list[i] = peer_list[j] => i = j

(* The callback that is running is about a peer that exists, and the loop  *)
(* of rudp_server_close is at the head of the list with its cursor on the  *)
(* next one.                                                               *)
FrameOK ==
    /\ frame.call = "idle" => frame = Idle
    /\ frame.call \notin {"idle", "new"} => frame.peer \in live
    /\ frame.call = "shutdown" =>
          /\ peer_list # << >> /\ frame.peer = peer_list[1]
          /\ frame.tmp = IF Len(peer_list) > 1 THEN peer_list[2] ELSE NULL

(* Without a socket there is no peer. *)
BoundOrEmpty == ~ endpoint.fd => live = {} /\ ~ endpoint.watched

ServerInv ==
    /\ TypeOK
    /\ SameSets /\ ListedOnce /\ FrameOK /\ BoundOrEmpty
    /\ OnePeerPerAddress /\ DataIsOwn /\ NoUseAfterFree

-----------------------------------------------------------------------------
(* The list *)

LEMMA ListFacts ==
  ASSUME TypeOK
  PROVE  /\ Len(peer_list) \in Nat /\ DOMAIN peer_list = 1 .. Len(peer_list)
         /\ \A i \in 1 .. Len(peer_list) : peer_list[i] \in Block
         /\ \A i \in 1 .. Len(peer_list) : peer_list[i] \in Listed
         /\ Listed \subseteq Block
         /\ peer_list = << >> <=> Len(peer_list) = 0
         /\ Listed = {} <=> Len(peer_list) = 0
<1>1. peer_list \in Seq(Block)
  BY DEF TypeOK
<1>2. /\ Len(peer_list) \in Nat /\ DOMAIN peer_list = 1 .. Len(peer_list)
      /\ \A i \in 1 .. Len(peer_list) : peer_list[i] \in Block
      /\ peer_list = << >> <=> Len(peer_list) = 0
  BY <1>1
<1> QED
  BY <1>2 DEF Listed

(* rudp_list_remove takes b off, and nothing else. *)
LEMMA UnlinkedFacts ==
  ASSUME TypeOK, ListedOnce, NEW b \in Listed
  PROVE  LET l == Unlinked(b) IN
         /\ l \in Seq(Block)
         /\ Len(l) = Len(peer_list) - 1
         /\ {l[i] : i \in DOMAIN l} = Listed \ {b}
         /\ \A i, j \in DOMAIN l : l[i] = l[j] => i = j
         /\ b = peer_list[1] =>
               \A i \in 1 .. Len(l) : l[i] = peer_list[i + 1]
<1> DEFINE n == Len(peer_list)
           k == CHOOSE j \in DOMAIN peer_list : peer_list[j] = b
           front == SubSeq(peer_list, 1, k - 1)
           back == SubSeq(peer_list, k + 1, n)
           l == Unlinked(b)
<1>1. /\ n \in Nat /\ DOMAIN peer_list = 1 .. n
      /\ \A i \in 1 .. n : peer_list[i] \in Block
  BY ListFacts
<1>2. k \in 1 .. n /\ peer_list[k] = b
  BY <1>1 DEF Listed
<1>3. l = front \o back
  BY DEF Unlinked
<1>4. \A i, j \in 1 .. n : peer_list[i] = peer_list[j] => i = j
  BY <1>1 DEF ListedOnce
<1>5. Listed = {peer_list[i] : i \in 1 .. n}
  BY <1>1 DEF Listed
<1> HIDE DEF n, k, l
<1>6. /\ front \in Seq(Block) /\ Len(front) = k - 1
      /\ \A i \in 1 .. k - 1 : front[i] = peer_list[i]
  BY <1>1, <1>2, SubSeqProperties
<1>7. /\ back \in Seq(Block) /\ Len(back) = n - k
      /\ \A i \in 1 .. n - k : back[i] = peer_list[k + i]
  BY <1>1, <1>2, SubSeqProperties
<1> HIDE DEF front, back
<1>8. /\ l \in Seq(Block) /\ Len(l) = n - 1 /\ DOMAIN l = 1 .. n - 1
      /\ \A i \in 1 .. n - 1 :
            l[i] = IF i < k THEN peer_list[i] ELSE peer_list[i + 1]
  <2>1. /\ l \in Seq(Block) /\ Len(l) = (k - 1) + (n - k)
        /\ \A i \in 1 .. (k - 1) + (n - k) :
              l[i] = IF i <= k - 1 THEN front[i] ELSE back[i - (k - 1)]
    BY <1>3, <1>6, <1>7, ConcatProperties
  <2>2. (k - 1) + (n - k) = n - 1
    BY <1>1, <1>2
  <2>3. ASSUME NEW i \in 1 .. n - 1
        PROVE  l[i] = IF i < k THEN peer_list[i] ELSE peer_list[i + 1]
    <3>1. CASE i < k
      BY <1>1, <1>2, <1>6, <2>1, <2>2, <3>1
    <3>2. CASE ~ (i < k)
      <4>1. i - (k - 1) \in 1 .. n - k /\ k + (i - (k - 1)) = i + 1
        BY <1>1, <1>2, <3>2
      <4>2. l[i] = back[i - (k - 1)]
        BY <1>1, <1>2, <2>1, <2>2, <3>2
      <4> QED
        BY <1>7, <3>2, <4>1, <4>2
    <3> QED
      BY <3>1, <3>2
  <2> QED
    BY <2>1, <2>2, <2>3, LenProperties
<1>9. {l[i] : i \in DOMAIN l} = Listed \ {b}
  <2>1. ASSUME NEW i \in 1 .. n - 1
        PROVE  l[i] \in Listed /\ l[i] # b
    BY <1>1, <1>2, <1>4, <1>5, <1>8
  <2>2. ASSUME NEW c \in Listed, c # b
        PROVE  \E i \in 1 .. n - 1 : l[i] = c
    <3>1. PICK j \in 1 .. n : peer_list[j] = c
      BY <1>5
    <3>2. CASE j < k
      BY <1>1, <1>2, <1>8, <3>1, <3>2
    <3>3. CASE j > k
      <4>1. j - 1 \in 1 .. n - 1 /\ ~ (j - 1 < k) /\ (j - 1) + 1 = j
        BY <1>1, <1>2, <3>3
      <4> QED
        BY <1>8, <3>1, <4>1
    <3> QED
      BY <1>1, <1>2, <2>2, <3>1, <3>2, <3>3
  <2> QED
    BY <1>8, <2>1, <2>2
<1>10. ASSUME NEW i \in 1 .. n - 1, NEW j \in 1 .. n - 1, l[i] = l[j]
       PROVE  i = j
  <2> DEFINE at(m) == IF m < k THEN m ELSE m + 1
  <2>1. /\ at(i) \in 1 .. n /\ at(j) \in 1 .. n
        /\ l[i] = peer_list[at(i)] /\ l[j] = peer_list[at(j)]
    BY <1>1, <1>2, <1>8
  <2>2. at(i) = at(j)
    BY <1>4, <1>10, <2>1
  <2> QED
    BY <1>1, <1>2, <2>2
<1>11. b = peer_list[1] => \A i \in 1 .. Len(l) : l[i] = peer_list[i + 1]
  <2> SUFFICES ASSUME b = peer_list[1], NEW i \in 1 .. n - 1
               PROVE  l[i] = peer_list[i + 1]
    BY <1>8
  <2>1. k = 1
    BY <1>1, <1>2, <1>4
  <2> QED
    BY <1>1, <1>8, <2>1
<1> QED
  BY <1>8, <1>9, <1>10, <1>11 DEF l, n

(* Packets from a known address find its one peer. *)
LEMMA LookupFacts ==
  ASSUME ServerInv, NEW a
  PROVE  LET b == rudp_server_peer_lookup(a) IN
         /\ b # NULL => b \in Listed /\ address[b] = a
         /\ b = NULL => \A c \in Listed : address[c] # a
<1> DEFINE hits == {i \in DOMAIN peer_list : address[peer_list[i]] = a}
<1>1. TypeOK /\ ListedOnce /\ OnePeerPerAddress
  BY DEF ServerInv
<1>2. \A i, j \in hits : i = j
  BY <1>1 DEF ListedOnce, OnePeerPerAddress, Listed
<1>3. \A i \in hits : i \in Nat /\ peer_list[i] \in Listed /\ peer_list[i] # NULL
  BY <1>1, ListFacts, ServerAssumption
<1>4. CASE hits = {}
  BY <1>1, <1>4 DEF rudp_server_peer_lookup, Listed
<1>5. CASE hits # {}
  <2>1. PICK i \in hits : \A j \in hits : i <= j
    BY <1>2, <1>3, <1>5
  <2>2. (CHOOSE k \in hits : \A j \in hits : k <= j) = i
    BY <1>2, <2>1
  <2>3. rudp_server_peer_lookup(a) = peer_list[i]
    BY <1>5, <2>2 DEF rudp_server_peer_lookup
  <2> QED
    BY <1>3, <2>1, <2>3
<1> QED
  BY <1>4, <1>5

(* The cursor that rudp_list_for_each_safe reads at the head of the list. *)
LEMMA FollowingHead ==
  ASSUME TypeOK, ListedOnce, peer_list # << >>
  PROVE  /\ Head(peer_list) = peer_list[1] /\ peer_list[1] \in Listed
         /\ Following(peer_list[1]) =
               IF Len(peer_list) > 1 THEN peer_list[2] ELSE NULL
<1> DEFINE after == {i \in DOMAIN peer_list :
                        i > 1 /\ peer_list[i - 1] = peer_list[1]}
<1>1. /\ Len(peer_list) \in Nat \ {0} /\ DOMAIN peer_list = 1 .. Len(peer_list)
      /\ peer_list[1] \in Listed
  BY ListFacts
<1>2. \A i \in after : i = 2
  BY <1>1 DEF ListedOnce
<1>3. Len(peer_list) > 1 => 2 \in after
  BY <1>1
<1>4. Len(peer_list) > 1 => (CHOOSE i \in after : TRUE) = 2
  BY <1>2, <1>3
<1>5. ~ (Len(peer_list) > 1) => after = {}
  BY <1>1, <1>2
<1>6. Head(peer_list) = peer_list[1]
  BY DEF TypeOK
<1>7. Following(peer_list[1]) =
         IF after = {} THEN NULL ELSE peer_list[CHOOSE i \in after : TRUE]
  BY Zenon DEF Following
<1> HIDE DEF after
<1> QED
  BY <1>1, <1>3, <1>4, <1>5, <1>6, <1>7

-----------------------------------------------------------------------------
(* Steps *)

LEMMA InitInv == Init => ServerInv
<1> SUFFICES ASSUME Init
             PROVE  ServerInv
  OBVIOUS
<1>1. TypeOK
  BY DEF Init, TypeOK, rudp_endpoint_init, Endpoint, Idle, Frame, Call
<1>2. Listed = {}
  BY DEF Init, Listed
<1> QED
  BY <1>1, <1>2 DEF Init, ServerInv, SameSets, ListedOnce, FrameOK,
     BoundOrEmpty, OnePeerPerAddress, DataIsOwn, NoUseAfterFree, Idle,
     rudp_endpoint_init

(* The memory that an action uses is allocated. *)
LEMMA TouchLive ==
  ASSUME ServerInv, NEW B, B \subseteq live, NEW site, Touch(B, site)
  PROVE  misuse' = misuse
  BY DEF Touch

(* server_peer_forget on a peer that exists. *)
LEMMA ForgetStep ==
  ASSUME ServerInv, NEW b \in live, server_peer_forget(b), Forgotten(b),
         UNCHANGED <<address, user_data>>
  PROVE  /\ peer_list' = Unlinked(b) /\ peer_list' \in Seq(Block)
         /\ Listed' = Listed \ {b} /\ live' = live \ {b}
         /\ SameSets' /\ ListedOnce' /\ OnePeerPerAddress' /\ DataIsOwn'
         /\ live' \subseteq Block /\ timers' \subseteq Block
         /\ known' \subseteq Block /\ stored' \subseteq Block
<1>1. TypeOK /\ SameSets /\ ListedOnce /\ OnePeerPerAddress /\ DataIsOwn
  BY DEF ServerInv
<1>2. b \in Listed
  BY <1>1 DEF SameSets
<1>3. peer_list' = Unlinked(b)
  BY DEF server_peer_forget
<1>4. /\ peer_list' \in Seq(Block)
      /\ {peer_list'[i] : i \in DOMAIN peer_list'} = Listed \ {b}
      /\ \A i, j \in DOMAIN peer_list' : peer_list'[i] = peer_list'[j] => i = j
  BY <1>1, <1>2, <1>3, UnlinkedFacts
<1>5. Listed' = Listed \ {b} /\ ListedOnce'
  BY <1>4 DEF Listed, ListedOnce
<1>6. /\ live' = live \ {b} /\ timers' = timers \ {b}
      /\ known' = known \ {b} /\ stored' = stored \ {b}
      /\ address' = address /\ user_data' = user_data
  BY DEF server_peer_forget, Forgotten
<1>7. SameSets'
  BY <1>1, <1>5, <1>6 DEF SameSets
<1>8. OnePeerPerAddress'
  BY <1>1, <1>5, <1>6 DEF OnePeerPerAddress
<1>9. DataIsOwn'
  BY <1>1, <1>6 DEF DataIsOwn
<1> QED
  BY <1>1, <1>3, <1>4, <1>5, <1>6, <1>7, <1>8, <1>9 DEF TypeOK

(* A step that changes neither the peers nor their data. *)
LEMMA CallStep ==
  ASSUME ServerInv,
         UNCHANGED <<peer_list, live, address, user_data, known, stored>>,
         timers' \subseteq live, misuse' = misuse,
         frame' \in Frame, FrameOK', endpoint' \in Endpoint, BoundOrEmpty'
  PROVE  ServerInv'
<1>1. Listed' = Listed
  BY DEF Listed
<1>2. TypeOK'
  BY DEF ServerInv, TypeOK
<1>3. SameSets' /\ ListedOnce' /\ OnePeerPerAddress' /\ DataIsOwn'
  BY <1>1 DEF ServerInv, SameSets, ListedOnce, OnePeerPerAddress, DataIsOwn
<1> QED
  BY <1>2, <1>3 DEF ServerInv, NoUseAfterFree

(* A callback about b begins. *)
LEMMA InType ==
  ASSUME NEW call \in Call, NEW b \in Block
  PROVE  In(call, b) \in Frame /\ In(call, b).call = call /\ In(call, b).peer = b
  BY DEF In, Frame

(* The facts about the state that most steps use. *)
LEMMA Facts ==
  ASSUME ServerInv
  PROVE  /\ TypeOK /\ live = Listed /\ known = live /\ timers \subseteq live
         /\ stored \subseteq live /\ live \subseteq Block
         /\ frame \in Frame /\ endpoint \in Endpoint /\ FrameOK /\ BoundOrEmpty
         /\ frame.call = "idle" <=> frame = Idle
         /\ Readable(endpoint) => endpoint.fd
<1>1. TypeOK /\ SameSets /\ FrameOK /\ BoundOrEmpty
  BY DEF ServerInv
<1> QED
  BY <1>1 DEF SameSets, TypeOK, FrameOK, Idle, BoundOrEmpty, Readable, Endpoint

-----------------------------------------------------------------------------
(* Packets: server_handle_endpoint_packet *)

(* The block that server_peer_new was given is listed first. *)
LEMMA AcceptStep ==
  ASSUME ServerInv, NEW a \in Addr, Accept(a)
  PROVE  ServerInv'
<1>1. PICK b \in Block \ live :
         /\ server_peer_new(b, a)
         /\ live' = live \cup {b}
         /\ peer_list' = <<b>> \o peer_list
         /\ timers' = timers \cup {b}
         /\ known' = known \cup {b}
         /\ frame' = In("new", b)
  BY DEF Accept
<1>2. /\ Incoming /\ rudp_server_peer_lookup(a) = NULL
      /\ Touch(Listed, "lookup") /\ UNCHANGED <<endpoint, stored>>
  BY DEF Accept
<1>3. /\ address' = [address EXCEPT ![b] = a]
      /\ user_data' = [user_data EXCEPT ![b] = NULL]
  BY <1>1 DEF server_peer_new
<1>4. \A c \in Listed : address[c] # a
  BY <1>2, LookupFacts
<1>5. misuse' = misuse
  BY <1>2, Facts, TouchLive
<1>6. /\ peer_list' \in Seq(Block)
      /\ Len(peer_list') = Len(peer_list) + 1
      /\ DOMAIN peer_list' = 1 .. Len(peer_list) + 1
      /\ peer_list'[1] = b
      /\ \A i \in 2 .. Len(peer_list) + 1 : peer_list'[i] = peer_list[i - 1]
  <2>1. <<b>> \in Seq(Block) /\ Len(<<b>>) = 1 /\ <<b>>[1] = b
    OBVIOUS
  <2>2. peer_list \in Seq(Block) /\ Len(peer_list) \in Nat
    BY Facts, ListFacts DEF TypeOK
  <2>3. /\ peer_list' \in Seq(Block) /\ Len(peer_list') = 1 + Len(peer_list)
        /\ \A i \in 1 .. 1 + Len(peer_list) :
              peer_list'[i] = IF i <= 1 THEN <<b>>[i] ELSE peer_list[i - 1]
    BY <1>1, <2>1, <2>2, ConcatProperties
  <2> QED
    BY <2>1, <2>2, <2>3, LenProperties
<1>7. Listed' = Listed \cup {b}
  <2>1. DOMAIN peer_list = 1 .. Len(peer_list) /\ Len(peer_list) \in Nat
    BY Facts, ListFacts
  <2>2. ASSUME NEW c \in Listed
        PROVE  c \in Listed'
    <3>1. PICK i \in 1 .. Len(peer_list) : peer_list[i] = c
      BY <2>1 DEF Listed
    <3>2. i + 1 \in 2 .. Len(peer_list) + 1 /\ (i + 1) - 1 = i
      BY <2>1
    <3>3. i + 1 \in DOMAIN peer_list' /\ peer_list'[i + 1] = c
      BY <1>6, <2>1, <3>1, <3>2
    <3> QED
      BY <3>3 DEF Listed
  <2>3. ASSUME NEW c \in Listed', c # b
        PROVE  c \in Listed
    <3>1. PICK i \in 1 .. Len(peer_list) + 1 : peer_list'[i] = c
      BY <1>6 DEF Listed
    <3>2. i - 1 \in 1 .. Len(peer_list) /\ c = peer_list[i - 1]
      BY <1>6, <2>1, <2>3, <3>1
    <3> QED
      BY <2>1, <3>2 DEF Listed
  <2>4. b \in Listed'
    BY <1>6, <2>1 DEF Listed
  <2> QED
    BY <2>2, <2>3, <2>4
<1>8. b \notin Listed
  BY <1>1, Facts
<1>9. ListedOnce'
  <2>1. DOMAIN peer_list = 1 .. Len(peer_list) /\ Len(peer_list) \in Nat
    BY Facts, ListFacts
  <2>2. \A i \in 2 .. Len(peer_list) + 1 : peer_list'[i] # b
    BY <1>6, <1>8, <2>1 DEF Listed
  <2>3. ASSUME NEW i \in 2 .. Len(peer_list) + 1,
               NEW j \in 2 .. Len(peer_list) + 1, peer_list'[i] = peer_list'[j]
        PROVE  i = j
    <3>1. i - 1 \in DOMAIN peer_list /\ j - 1 \in DOMAIN peer_list
      BY <2>1
    <3>2. i - 1 = j - 1
      BY <1>6, <2>3, <3>1 DEF ServerInv, ListedOnce
    <3> QED
      BY <2>1, <3>2
  <2> QED
    BY <1>6, <2>1, <2>2, <2>3 DEF ListedOnce
<1>10. TypeOK'
  <2>1. frame' \in Frame
    BY <1>1, InType DEF Call
  <2> QED
    BY <1>1, <1>2, <1>3, <1>5, <1>6, <2>1 DEF ServerInv, TypeOK
<1>11. SameSets'
  BY <1>1, <1>2, <1>7, Facts DEF SameSets
<1>12. FrameOK'
  BY <1>1, InType DEF FrameOK, Call
<1>13. BoundOrEmpty'
  BY <1>2, Facts DEF BoundOrEmpty, Incoming
<1>14. OnePeerPerAddress'
  BY <1>3, <1>4, <1>7, <1>8, Facts DEF ServerInv, OnePeerPerAddress, TypeOK
<1>15. DataIsOwn'
  BY <1>1, <1>2, <1>3, Facts DEF ServerInv, DataIsOwn, TypeOK
<1> QED
  BY <1>5, <1>9, <1>10, <1>11, <1>12, <1>13, <1>14, <1>15
     DEF ServerInv, NoUseAfterFree

(* Memory that no peer lives in is overwritten. *)
LEMMA RefuseStep ==
  ASSUME ServerInv, NEW a \in Addr, Refuse(a)
  PROVE  ServerInv'
<1>1. PICK b \in Block \ live : server_peer_new(b, a)
  BY DEF Refuse
<1>2. /\ UNCHANGED <<endpoint, peer_list, live, timers, frame, known, stored>>
      /\ Touch(Listed, "lookup")
  BY DEF Refuse
<1>3. misuse' = misuse
  BY <1>2, Facts, TouchLive
<1>4. /\ address' = [address EXCEPT ![b] = a]
      /\ user_data' = [user_data EXCEPT ![b] = NULL]
  BY <1>1 DEF server_peer_new
<1>5. Listed' = Listed
  BY <1>2 DEF Listed
<1>6. TypeOK'
  BY <1>2, <1>3, <1>4 DEF ServerInv, TypeOK
<1>7. OnePeerPerAddress' /\ DataIsOwn'
  BY <1>1, <1>2, <1>4, <1>5, Facts
     DEF ServerInv, OnePeerPerAddress, DataIsOwn, TypeOK
<1> QED
  BY <1>2, <1>3, <1>5, <1>6, <1>7
     DEF ServerInv, SameSets, ListedOnce, FrameOK, BoundOrEmpty, NoUseAfterFree

(* A packet from a known address starts a callback, or arms the timer. *)
LEMMA KnownPacketStep ==
  ASSUME ServerInv, NEW a \in Addr, Deliver(a) \/ Leave(a) \/ Absorb(a)
  PROVE  ServerInv'
<1> DEFINE b == rudp_server_peer_lookup(a)
<1>1. /\ Incoming /\ b # NULL /\ Touch(Listed, "lookup")
      /\ UNCHANGED <<endpoint, peer_list, live, address, user_data, known,
                     stored>>
      /\ \/ frame' = In("packet", b) /\ timers' = timers
         \/ frame' = In("left", b) /\ timers' = timers
         \/ frame' = frame /\ timers' = timers \cup {b}
  BY DEF Deliver, Leave, Absorb
<1>2. b \in live /\ b \in Block
  BY <1>1, LookupFacts, Facts
<1> HIDE DEF b
<1>3. misuse' = misuse
  BY <1>1, Facts, TouchLive
<1>4. timers' \subseteq live /\ endpoint' \in Endpoint
  BY <1>1, <1>2, Facts
<1>5. BoundOrEmpty'
  BY <1>1, Facts DEF BoundOrEmpty
<1>6. frame' \in Frame /\ FrameOK'
  <2>1. CASE frame' = frame
    BY <1>1, <2>1, Facts DEF FrameOK, Incoming, Idle
  <2>2. CASE frame' = In("packet", b)
    BY <1>1, <1>2, <2>2, InType DEF FrameOK, Call
  <2>3. CASE frame' = In("left", b)
    BY <1>1, <1>2, <2>3, InType DEF FrameOK, Call
  <2> QED
    BY <1>1, <2>1, <2>2, <2>3
<1> QED
  BY <1>1, <1>3, <1>4, <1>5, <1>6, CallStep

-----------------------------------------------------------------------------
(* The timer *)

LEMMA TimerStep ==
  ASSUME ServerInv, NEW b \in Block, Serve(b) \/ Expire(b)
  PROVE  ServerInv'
<1>1. /\ b \in timers /\ Touch({b}, "timer") /\ timers' \subseteq timers
      /\ UNCHANGED <<endpoint, peer_list, live, address, user_data, known,
                     stored>>
      /\ frame' = frame \/ frame' = In("expired", b)
  BY DEF Serve, Expire
<1>2. b \in live
  BY <1>1, Facts
<1>3. misuse' = misuse
  BY <1>1, <1>2, TouchLive
<1>4. timers' \subseteq live /\ endpoint' \in Endpoint /\ BoundOrEmpty'
  BY <1>1, Facts DEF BoundOrEmpty
<1>5. frame' \in Frame /\ FrameOK'
  <2>1. CASE frame' = frame
    BY <1>1, <2>1, Facts DEF FrameOK
  <2>2. CASE frame' = In("expired", b)
    BY <1>1, <1>2, <2>2, InType DEF FrameOK, Call
  <2> QED
    BY <1>1, <2>1, <2>2
<1> QED
  BY <1>1, <1>3, <1>4, <1>5, CallStep

-----------------------------------------------------------------------------
(* What the application calls *)

LEMMA BindStep ==
  ASSUME ServerInv, Bind
  PROVE  ServerInv'
<1>1. /\ endpoint' \in rudp_endpoint_bind(endpoint) /\ ~ endpoint.fd
      /\ UNCHANGED <<peer_list, live, address, user_data, timers, frame, known,
                     stored, misuse>>
  BY DEF Bind
<1>2. /\ endpoint' \in Endpoint
      /\ endpoint'.watched => endpoint'.fd \/ endpoint.watched
  BY <1>1, Facts DEF rudp_endpoint_bind, Bound, BindFailed,
                     rudp_endpoint_close, Endpoint
<1>3. BoundOrEmpty' /\ FrameOK' /\ timers' \subseteq live /\ frame' \in Frame
  BY <1>1, <1>2, Facts DEF BoundOrEmpty, FrameOK
<1> QED
  BY <1>1, <1>2, <1>3, CallStep

LEMMA SendStep ==
  ASSUME ServerInv,
         rudp_server_send_all \/ \E b \in Block : rudp_server_send(b)
  PROVE  ServerInv'
<1>1. PICK B \in SUBSET live, site \in Site :
         /\ timers' = timers \cup B /\ Touch(B, site)
         /\ UNCHANGED <<endpoint, peer_list, live, address, user_data, frame,
                        known, stored>>
  <2>1. CASE rudp_server_send_all
    BY <2>1, Facts DEF rudp_server_send_all, Site
  <2>2. ASSUME NEW b \in Block, rudp_server_send(b)
        PROVE  /\ {b} \in SUBSET live
               /\ timers' = timers \cup {b} /\ Touch({b}, "send")
               /\ UNCHANGED <<endpoint, peer_list, live, address, user_data,
                              frame, known, stored>>
    BY <2>2, Facts DEF rudp_server_send
  <2> QED
    BY <2>1, <2>2 DEF Site
<1>2. misuse' = misuse
  BY <1>1, TouchLive
<1>3. /\ timers' \subseteq live /\ endpoint' \in Endpoint /\ frame' \in Frame
      /\ BoundOrEmpty' /\ FrameOK'
  BY <1>1, Facts DEF BoundOrEmpty, FrameOK
<1> QED
  BY <1>1, <1>2, <1>3, CallStep

LEMMA DataSetStep ==
  ASSUME ServerInv, NEW b \in Block, rudp_server_peer_data_set(b)
  PROVE  ServerInv'
<1>1. /\ b \in known /\ stored' = stored \cup {b} /\ Touch({b}, "send")
      /\ UNCHANGED <<endpoint, peer_list, live, address, timers, frame, known>>
  BY DEF rudp_server_peer_data_set
<1>2. PICK d \in Data : user_data' = [user_data EXCEPT ![b] = d]
  BY DEF rudp_server_peer_data_set
<1>3. misuse' = misuse
  BY <1>1, Facts, TouchLive
<1>4. Listed' = Listed
  BY <1>1 DEF Listed
<1>5. TypeOK'
  BY <1>1, <1>2, <1>3 DEF ServerInv, TypeOK
<1>6. SameSets' /\ DataIsOwn'
  BY <1>1, <1>2, <1>4, Facts DEF ServerInv, SameSets, DataIsOwn, TypeOK
<1> QED
  BY <1>1, <1>3, <1>4, <1>5, <1>6
     DEF ServerInv, ListedOnce, FrameOK, BoundOrEmpty, OnePeerPerAddress,
         NoUseAfterFree

(* Any peer but the one a running callback is about. *)
LEMMA ClientCloseStep ==
  ASSUME ServerInv, "shutdown" \notin MayClose,
         NEW b \in Block, rudp_server_client_close(b)
  PROVE  ServerInv'
<1>1. /\ b \in live /\ frame.call # "shutdown"
      /\ frame.call \notin {"idle", "new"} => b # frame.peer
      /\ server_peer_forget(b) /\ Forgotten(b) /\ Touch({b}, "free")
      /\ UNCHANGED <<endpoint, address, user_data, frame>>
  BY Facts DEF rudp_server_client_close
<1>2. misuse' = misuse
  BY <1>1, TouchLive
<1>3. /\ peer_list' \in Seq(Block) /\ live' = live \ {b}
      /\ SameSets' /\ ListedOnce' /\ OnePeerPerAddress' /\ DataIsOwn'
      /\ live' \subseteq Block /\ timers' \subseteq Block
      /\ known' \subseteq Block /\ stored' \subseteq Block
  BY <1>1, ForgetStep
<1>4. TypeOK'
  BY <1>1, <1>2, <1>3 DEF ServerInv, TypeOK
<1>5. FrameOK' /\ BoundOrEmpty'
  BY <1>1, <1>3, Facts DEF FrameOK, BoundOrEmpty
<1> QED
  BY <1>2, <1>3, <1>4, <1>5 DEF ServerInv, NoUseAfterFree

(* rudp_server_close: the socket is closed, or the loop begins. *)
LEMMA CloseStep ==
  ASSUME ServerInv, rudp_server_close
  PROVE  ServerInv'
<1>1. /\ Touch(Listed, "shutdown")
      /\ UNCHANGED <<peer_list, live, address, user_data, timers, known, stored>>
  BY DEF rudp_server_close
<1>2. misuse' = misuse
  BY <1>1, Facts, TouchLive
<1>3. CASE peer_list = << >>
  <2>1. frame' = Idle /\ endpoint' = rudp_endpoint_close(endpoint)
    BY <1>3 DEF rudp_server_close
  <2>2. frame' \in Frame /\ FrameOK'
    BY <2>1 DEF Idle, Frame, Call, FrameOK
  <2>3. endpoint' \in Endpoint /\ ~ endpoint'.watched
    BY <2>1, Facts DEF rudp_endpoint_close, Endpoint
  <2>4. live = {}
    BY <1>3, Facts, ListFacts
  <2>5. BoundOrEmpty'
    BY <1>1, <2>3, <2>4 DEF BoundOrEmpty
  <2> QED
    BY <1>1, <1>2, <2>2, <2>3, <2>5, Facts, CallStep
<1>4. CASE peer_list # << >>
  <2>1. /\ frame' = [call |-> "shutdown", peer |-> Head(peer_list),
                     tmp |-> Following(Head(peer_list))]
        /\ endpoint' = endpoint
    BY <1>4 DEF rudp_server_close
  <2>2. /\ Head(peer_list) = peer_list[1] /\ peer_list[1] \in Listed
        /\ Following(peer_list[1]) =
              IF Len(peer_list) > 1 THEN peer_list[2] ELSE NULL
    BY <1>4, FollowingHead DEF ServerInv
  <2>3. Len(peer_list) > 1 => peer_list[2] \in Block
    BY Facts, ListFacts
  <2>4. frame' \in Frame
    BY <2>1, <2>2, <2>3, Facts DEF Frame, Call
  <2>5. FrameOK'
    BY <1>1, <1>4, <2>1, <2>2, Facts DEF FrameOK
  <2>6. endpoint' \in Endpoint /\ BoundOrEmpty' /\ timers' \subseteq live
    BY <1>1, <2>1, Facts DEF BoundOrEmpty
  <2> QED
    BY <1>1, <1>2, <2>4, <2>5, <2>6, CallStep
<1> QED
  BY <1>3, <1>4

(* The list that rudp_server_deinit forgets is empty. *)
LEMMA DeinitStep ==
  ASSUME ServerInv, rudp_server_deinit
  PROVE  ServerInv'
<1>1. /\ ~ endpoint.fd /\ endpoint' = rudp_endpoint_deinit(endpoint)
      /\ peer_list' = << >> /\ frame = Idle
      /\ UNCHANGED <<live, address, user_data, timers, frame, known, stored,
                     misuse>>
  BY DEF rudp_server_deinit
<1>2. live = {} /\ ~ endpoint.watched
  BY <1>1, Facts DEF BoundOrEmpty
<1>3. peer_list' = peer_list
  BY <1>1, <1>2, Facts, ListFacts
<1>4. endpoint' \in Endpoint /\ BoundOrEmpty'
  BY <1>1, <1>2, Facts DEF rudp_endpoint_deinit, Endpoint, BoundOrEmpty
<1>5. FrameOK' /\ frame' \in Frame /\ timers' \subseteq live
  BY <1>1, <1>3, Facts DEF FrameOK
<1> QED
  BY <1>1, <1>3, <1>4, <1>5, CallStep

-----------------------------------------------------------------------------
(* Callbacks return *)

LEMMA ReturnFromCallStep ==
  ASSUME ServerInv, ReturnFromPacket \/ ReturnFromNew
  PROVE  ServerInv'
<1>1. /\ frame' = Idle
      /\ UNCHANGED <<endpoint, peer_list, live, address, user_data, known,
                     stored>>
  BY DEF ReturnFromPacket, ReturnFromNew
<1>2. misuse' = misuse /\ timers' \subseteq live
  <2>1. CASE ReturnFromNew
    BY <2>1, Facts DEF ReturnFromNew
  <2>2. CASE ReturnFromPacket
    <3>1. frame.peer \in live
      BY <2>2, Facts DEF ReturnFromPacket, FrameOK
    <3> QED
      BY <2>2, <3>1, Facts, TouchLive DEF ReturnFromPacket
  <2> QED
    BY <2>1, <2>2
<1>3. frame' \in Frame /\ FrameOK' /\ endpoint' \in Endpoint /\ BoundOrEmpty'
  BY <1>1, Facts DEF Idle, Frame, Call, FrameOK, BoundOrEmpty
<1> QED
  BY <1>1, <1>2, <1>3, CallStep

LEMMA ReturnFromDroppedStep ==
  ASSUME ServerInv, ReturnFromDropped
  PROVE  ServerInv'
<1> DEFINE b == frame.peer
<1>1. /\ server_peer_forget(b) /\ Forgotten(b) /\ frame' = Idle
      /\ UNCHANGED <<endpoint, address, user_data>>
  BY DEF ReturnFromDropped
<1>2. b \in live
  BY Facts DEF ReturnFromDropped, FrameOK
<1>3. misuse' \subseteq misuse \cup {"log"}
  BY <1>2 DEF ReturnFromDropped
<1> HIDE DEF b
<1>4. /\ peer_list' \in Seq(Block) /\ live' = live \ {b}
      /\ SameSets' /\ ListedOnce' /\ OnePeerPerAddress' /\ DataIsOwn'
      /\ live' \subseteq Block /\ timers' \subseteq Block
      /\ known' \subseteq Block /\ stored' \subseteq Block
  BY <1>1, <1>2, ForgetStep
<1>5. frame' \in Frame /\ FrameOK' /\ BoundOrEmpty'
  BY <1>1, <1>4, Facts DEF Idle, Frame, Call, FrameOK, BoundOrEmpty
<1>6. NoUseAfterFree' /\ misuse' \subseteq Site
  BY <1>3 DEF ServerInv, NoUseAfterFree, Site
<1>7. TypeOK'
  BY <1>1, <1>4, <1>5, <1>6 DEF ServerInv, TypeOK
<1> QED
  BY <1>4, <1>5, <1>6, <1>7 DEF ServerInv

(* The cursor is on the head of what remains of the list. *)
LEMMA ReturnFromShutdownStep ==
  ASSUME ServerInv, ReturnFromShutdown
  PROVE  ServerInv'
<1> DEFINE b == frame.peer
           n == Len(peer_list)
<1>1. /\ server_peer_forget(b) /\ Forgotten(b) /\ AfterClosed(frame.tmp)
      /\ UNCHANGED <<address, user_data>>
  BY DEF ReturnFromShutdown
<1>2. /\ b \in live /\ b \in Listed /\ b = peer_list[1] /\ peer_list # << >>
      /\ frame.tmp = IF n > 1 THEN peer_list[2] ELSE NULL
      /\ frame.call = "shutdown" /\ frame \in Frame
  BY Facts DEF ReturnFromShutdown, FrameOK
<1>3. /\ n \in Nat \ {0} /\ DOMAIN peer_list = 1 .. n
      /\ \A i \in 1 .. n : peer_list[i] \in Block /\ peer_list[i] \in Listed
      /\ \A i \in 1 .. n : peer_list[i] # NULL
  BY <1>2, Facts, ListFacts, ServerAssumption
<1> HIDE DEF b
<1>4. /\ peer_list' = Unlinked(b) /\ peer_list' \in Seq(Block)
      /\ Listed' = Listed \ {b} /\ live' = live \ {b}
      /\ SameSets' /\ ListedOnce' /\ OnePeerPerAddress' /\ DataIsOwn'
      /\ live' \subseteq Block /\ timers' \subseteq Block
      /\ known' \subseteq Block /\ stored' \subseteq Block
  BY <1>1, <1>2, ForgetStep
<1>5. Len(peer_list') = n - 1 /\ \A i \in 1 .. n - 1 : peer_list'[i] = peer_list[i + 1]
  BY <1>2, <1>4, Facts, UnlinkedFacts DEF ServerInv
<1>6. misuse' = misuse
  <2>1. {b} \cup ({frame.tmp} \ {NULL}) \subseteq live
    BY <1>2, <1>3, Facts
  <2>2. Touch({b} \cup ({frame.tmp} \ {NULL}), "shutdown")
    BY <1>1 DEF AfterClosed, b
  <2> QED
    BY <2>1, <2>2, TouchLive
<1>7. CASE n = 1
  <2>1. frame' = Idle /\ endpoint' = rudp_endpoint_close(endpoint)
    BY <1>1, <1>2, <1>7 DEF AfterClosed
  <2>2. peer_list' = << >> /\ Listed' = {}
    BY <1>4, <1>5, <1>7 DEF Listed
  <2>3. live' = {}
    BY <1>4, <2>2 DEF SameSets
  <2>4. endpoint' \in Endpoint /\ ~ endpoint'.watched
    BY <2>1, Facts DEF rudp_endpoint_close, Endpoint
  <2>5. frame' \in Frame /\ FrameOK' /\ BoundOrEmpty'
    BY <2>1, <2>3, <2>4 DEF Idle, Frame, Call, FrameOK, BoundOrEmpty
  <2>6. TypeOK'
    BY <1>1, <1>4, <1>6, <2>4, <2>5 DEF ServerInv, TypeOK
  <2> QED
    BY <1>4, <1>6, <2>5, <2>6 DEF ServerInv, NoUseAfterFree
<1>8. CASE n > 1
  <2>1. /\ frame.tmp = peer_list[2] /\ frame.tmp # NULL
        /\ frame' = [frame EXCEPT !.peer = peer_list[2],
                                  !.tmp = Following(peer_list[2])]
        /\ endpoint' = endpoint
    BY <1>1, <1>2, <1>3, <1>8 DEF AfterClosed
  <2>2. Following(peer_list[2]) = IF n > 2 THEN peer_list[3] ELSE NULL
    <3> DEFINE after == {i \in DOMAIN peer_list :
                            i > 1 /\ peer_list[i - 1] = peer_list[2]}
    <3>1. \A i \in after : i = 3
      BY <1>3, <1>8 DEF ServerInv, ListedOnce
    <3>2. n > 2 => 3 \in after /\ (CHOOSE i \in after : TRUE) = 3
      BY <1>3, <3>1
    <3>3. ~ (n > 2) => after = {}
      BY <1>3, <3>1
    <3>4. Following(peer_list[2]) =
            IF after = {} THEN NULL ELSE peer_list[CHOOSE i \in after : TRUE]
      BY Zenon DEF Following
    <3> HIDE DEF after
    <3> QED
      BY <3>2, <3>3, <3>4
  <2>3. /\ frame'.call = "shutdown" /\ frame'.peer = peer_list[2]
        /\ frame'.tmp = (IF n > 2 THEN peer_list[3] ELSE NULL)
        /\ frame' \in Frame
    <3> DEFINE t == IF n > 2 THEN peer_list[3] ELSE NULL
    <3>1. peer_list[2] \in Block /\ t \in Block \cup {NULL}
      BY <1>3, <1>8
    <3> HIDE DEF t
    <3>2. frame' = [frame EXCEPT !.peer = peer_list[2], !.tmp = t]
      BY <2>1, <2>2 DEF t
    <3>3. /\ frame'.call = "shutdown" /\ frame'.peer = peer_list[2]
          /\ frame'.tmp = t /\ frame' \in Frame
      BY <1>2, <3>1, <3>2 DEF Frame
    <3> QED
      BY <3>3 DEF t
  <2>4. /\ peer_list' # << >> /\ peer_list'[1] = peer_list[2]
        /\ Len(peer_list') > 1 <=> n > 2
        /\ n > 2 => peer_list'[2] = peer_list[3]
    BY <1>3, <1>5, <1>8
  <2>5. peer_list[2] \in live'
    BY <1>2, <1>3, <1>4, <1>8, Facts DEF ServerInv, ListedOnce
  <2>6. FrameOK'
    BY <2>3, <2>4, <2>5 DEF FrameOK
  <2>7. endpoint' \in Endpoint /\ BoundOrEmpty'
    BY <1>4, <2>1, Facts DEF BoundOrEmpty
  <2>8. TypeOK'
    BY <1>1, <1>4, <1>6, <2>3, <2>7 DEF ServerInv, TypeOK
  <2> QED
    BY <1>4, <1>6, <2>6, <2>7, <2>8 DEF ServerInv, NoUseAfterFree
<1> QED
  BY <1>3, <1>7, <1>8

-----------------------------------------------------------------------------
LEMMA StepInv ==
  ASSUME "shutdown" \notin MayClose
  PROVE  ServerInv /\ [Next]_vars => ServerInv'
<1> SUFFICES ASSUME ServerInv, [Next]_vars
             PROVE  ServerInv'
  OBVIOUS
<1>1. CASE FromNetwork
  BY <1>1, AcceptStep, RefuseStep, KnownPacketStep DEF FromNetwork
<1>2. CASE \E b \in Block : Serve(b) \/ Expire(b)
  BY <1>2, TimerStep
<1>3. CASE Application
  BY <1>3, BindStep, SendStep, CloseStep, DeinitStep, DataSetStep,
     ClientCloseStep DEF Application
<1>4. CASE Return
  BY <1>4, ReturnFromCallStep, ReturnFromDroppedStep, ReturnFromShutdownStep
     DEF Return
<1>5. CASE UNCHANGED vars
  <2>1. /\ UNCHANGED <<peer_list, live, address, user_data, known, stored>>
        /\ timers' = timers /\ misuse' = misuse /\ frame' = frame
        /\ endpoint' = endpoint
    BY <1>5 DEF vars
  <2>2. /\ FrameOK' /\ BoundOrEmpty' /\ timers' \subseteq live
        /\ frame' \in Frame /\ endpoint' \in Endpoint
    BY <2>1, Facts DEF FrameOK, BoundOrEmpty
  <2> QED
    BY <2>1, <2>2, CallStep
<1> QED
  BY <1>1, <1>2, <1>3, <1>4, <1>5 DEF Next

(* The invariant holds for any number of peers, unless peers are closed    *)
(* inside the callbacks of rudp_server_close.                              *)
THEOREM ServerInductive ==
  ASSUME "shutdown" \notin MayClose
  PROVE  Spec => []ServerInv
  BY InitInv, StepInv, PTL DEF Spec

(* include/rudp/server.h: a peer stays valid until peer_dropped is called  *)
(* or the application closes it.                                           *)
THEOREM KnownPeersAreValid ==
  ASSUME "shutdown" \notin MayClose
  PROVE  Spec => []KnownIsValid
<1>1. ServerInv => KnownIsValid
  BY Facts DEF KnownIsValid
<1> QED
  BY <1>1, ServerInductive, PTL

(* No function of server.c uses the memory of a peer that was freed, but   *)
(* for the log statement after a CLOSE.                                    *)
THEOREM FreedIsNotUsed ==
  ASSUME "shutdown" \notin MayClose
  PROVE  Spec => []NoUseAfterFree
<1>1. ServerInv => NoUseAfterFree
  BY DEF ServerInv
<1> QED
  BY <1>1, ServerInductive, PTL

(* Every peer was announced by peer_new and not yet taken back, and every  *)
(* callback is about such a peer.                                          *)
THEOREM ApplicationKnowsAll ==
  ASSUME "shutdown" \notin MayClose
  PROVE  Spec => []KnowsAll
<1>1. ServerInv => KnowsAll
  BY Facts DEF KnowsAll, FrameOK
<1> QED
  BY <1>1, ServerInductive, PTL

(* rudp_server_peer_lookup has at most one peer to find. *)
THEOREM AddressesAreUnique ==
  ASSUME "shutdown" \notin MayClose
  PROVE  Spec => []OnePeerPerAddress
<1>1. ServerInv => OnePeerPerAddress
  BY DEF ServerInv
<1> QED
  BY <1>1, ServerInductive, PTL

(* A peer never starts with the data of the one whose memory it got. *)
THEOREM DataIsNotInherited ==
  ASSUME "shutdown" \notin MayClose
  PROVE  Spec => []DataIsOwn
<1>1. ServerInv => DataIsOwn
  BY DEF ServerInv
<1> QED
  BY <1>1, ServerInductive, PTL

(* After rudp_server_close no peer, timer or socket is left behind. *)
THEOREM ClosedServerIsQuiet ==
  ASSUME "shutdown" \notin MayClose
  PROVE  Spec => []ClosedIsQuiet
<1>1. ServerInv => ClosedIsQuiet
  BY Facts DEF ClosedIsQuiet, BoundOrEmpty
<1> QED
  BY <1>1, ServerInductive, PTL

=============================================================================
