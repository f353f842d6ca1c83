-------------------------- MODULE PacketPoolProofs --------------------------
(***************************************************************************)
(* Proofs about PacketPool, for any limit of the pool, any sizes and any   *)
(* finite memory.                                                          *)
(***************************************************************************)
EXTENDS PacketPool, FiniteSetTheorems, FunctionTheorems, TLAPS

Lease == [buffer : Buffer, len : Size]

PoolTypes ==
    /\ initialized \in BOOLEAN
    /\ free_packet_list \in Seq(Buffer)
    /\ heap \subseteq Buffer /\ held \subseteq Lease

(* Every buffer has a place of its own, and one owner: one position of the *)
(* list or one caller.                                                     *)
OwnerInv ==
    /\ \A b, c \in heap : b.at = c.at => b = c
    /\ \A i, j \in DOMAIN free_packet_list :
          free_packet_list[i] = free_packet_list[j] => i = j
    /\ \A g, h \in held : g.buffer = h.buffer => g = h
    /\ \A i \in DOMAIN free_packet_list, h \in held : free_packet_list[i] # h.buffer
    /\ \A i \in DOMAIN free_packet_list : free_packet_list[i] \in heap
    /\ \A h \in held : h.buffer \in heap
    /\ \A b \in heap : b \in Listed \cup Lent

(* Only default buffers are pooled. *)
SizeInv ==
    /\ \A i \in DOMAIN free_packet_list :
          free_packet_list[i].alloc_size = DEFAULT_ALLOC_SIZE
    /\ \A h \in held : h.len <= h.buffer.alloc_size

(* The counters are exact while the context is initialised; without it     *)
(* there is nothing.                                                       *)
CountInv ==
    /\ IsFiniteSet(heap) /\ IsFiniteSet(held)
    /\ initialized =>
          /\ free_packets = Len(free_packet_list)
          /\ free_packets <= FREE_PACKET_POOL
          /\ allocated_packets = Cardinality(heap)
          /\ Len(free_packet_list) + Cardinality(held) = Cardinality(heap)
    /\ ~ initialized => free_packet_list = << >> /\ heap = {} /\ held = {}

PoolInv == PoolTypes /\ OwnerInv /\ SizeInv /\ CountInv

-----------------------------------------------------------------------------
LEMMA PoolConstants == DEFAULT_ALLOC_SIZE \in Nat /\ FREE_PACKET_POOL \in Nat /\ Size \subseteq Nat
  BY PoolAssumption

(* A buffer is as long as was asked for, and a default one at least. *)
LEMMA AllocSizeFacts ==
  ASSUME NEW asked \in Size
  PROVE  /\ AllocSize(asked) \in Nat /\ asked \in Nat
         /\ asked <= AllocSize(asked) /\ DEFAULT_ALLOC_SIZE <= AllocSize(asked)
  BY PoolConstants DEF AllocSize, Greatest

LEMMA BufferFacts ==
  ASSUME NEW b \in Buffer
  PROVE  b.at \in Memory /\ b.alloc_size \in Nat
  BY AllocSizeFacts DEF Buffer

(* The list without its head. *)
LEMMA TailFacts ==
  ASSUME free_packet_list \in Seq(Buffer), free_packet_list # << >>,
         free_packet_list' = Tail(free_packet_list)
  PROVE  /\ free_packet_list' \in Seq(Buffer)
         /\ Len(free_packet_list) \in Nat \ {0}
         /\ Len(free_packet_list') = Len(free_packet_list) - 1
         /\ 1 \in DOMAIN free_packet_list
         /\ Head(free_packet_list) = free_packet_list[1]
         /\ \A i \in DOMAIN free_packet_list' :
               /\ i + 1 \in DOMAIN free_packet_list
               /\ free_packet_list'[i] = free_packet_list[i + 1]
         /\ \A i \in DOMAIN free_packet_list :
               i # 1 => /\ i - 1 \in DOMAIN free_packet_list'
                        /\ free_packet_list'[i - 1] = free_packet_list[i]
  OBVIOUS

(* The list with a buffer in front, cut where rudp_packet_chain_free stops. *)
LEMMA PushFacts ==
  ASSUME NEW l \in Seq(Buffer), NEW b \in Buffer
  PROVE  /\ <<b>> \o l \in Seq(Buffer)
         /\ Len(<<b>> \o l) = Len(l) + 1 /\ Len(l) \in Nat
         /\ (<<b>> \o l)[1] = b
         /\ \A i \in DOMAIN l : i + 1 \in DOMAIN (<<b>> \o l) /\ (<<b>> \o l)[i + 1] = l[i]
         /\ \A i \in DOMAIN (<<b>> \o l) :
               i # 1 => i - 1 \in DOMAIN l /\ (<<b>> \o l)[i] = l[i - 1]
         /\ SubSeq(<<b>> \o l, 1, Len(<<b>> \o l)) = <<b>> \o l
         /\ SubSeq(<<b>> \o l, 2, Len(<<b>> \o l)) = l
<1> DEFINE m == <<b>> \o l
<1>1. /\ m \in Seq(Buffer) /\ Len(m) = Len(l) + 1 /\ Len(l) \in Nat
      /\ m[1] = b /\ \A i \in 1 .. Len(m) : i # 1 => m[i] = l[i - 1]
  OBVIOUS
<1>2. SubSeq(m, 1, Len(m)) = m
  BY <1>1
<1>3. SubSeq(m, 2, Len(m)) = l
  BY <1>1
<1> QED
  BY <1>1, <1>2, <1>3

-----------------------------------------------------------------------------
(* rudp_packet_chain_free: what is done with the buffer of the caller h *)

Kept(h) ==
    /\ free_packets < FREE_PACKET_POOL
    /\ h.buffer.alloc_size = DEFAULT_ALLOC_SIZE
    /\ held' = held \ {h}
    /\ free_packet_list' = <<h.buffer>> \o free_packet_list
    /\ free_packets' = free_packets + 1
    /\ UNCHANGED <<initialized, allocated_packets, heap>>

Released(h) ==
    /\ held' = held \ {h}
    /\ heap' = heap \ {h.buffer}
    /\ allocated_packets' = allocated_packets - 1
    /\ UNCHANGED <<initialized, free_packet_list, free_packets>>

(* The loop runs at most once, and then frees the buffer just pooled. *)
LEMMA FreeEffect ==
  ASSUME PoolInv, NEW h \in held, FreePooled(h) \/ FreeLarge(h)
  PROVE  initialized /\ (Kept(h) \/ Released(h))
<1>0. /\ initialized /\ free_packet_list \in Seq(Buffer) /\ h.buffer \in Buffer
      /\ free_packets = Len(free_packet_list) /\ free_packets <= FREE_PACKET_POOL
      /\ allocated_packets = Cardinality(heap) /\ Cardinality(heap) \in Nat
  BY FS_CardinalityType DEF FreePooled, FreeLarge, PoolInv, PoolTypes, CountInv, Lease
<1>1. CASE FreeLarge(h)
  BY <1>0, <1>1 DEF FreeLarge, Released
<1>2. CASE FreePooled(h)
  <2> DEFINE l == free_packet_list
             m == <<h.buffer>> \o l
             n == Excess(free_packets + 1)
  <2>1. /\ h.buffer.alloc_size = DEFAULT_ALLOC_SIZE
        /\ held' = held \ {h}
        /\ l' = SubSeq(m, n + 1, Len(m))
        /\ free_packets' = free_packets + 1 - n
        /\ allocated_packets' = allocated_packets - n
        /\ heap' = heap \ {m[i] : i \in 1 .. n}
        /\ initialized' = initialized
    BY <1>2 DEF FreePooled
  <2>2. free_packets \in Nat
    BY <1>0
  <2>3. SubSeq(m, 1, Len(m)) = m /\ SubSeq(m, 2, Len(m)) = l /\ m[1] = h.buffer
    BY <1>0, PushFacts
  <2>4. CASE free_packets < FREE_PACKET_POOL
    <3>1. n = 0
      BY <2>2, <2>4, PoolConstants DEF Excess, Greatest
    <3> HIDE DEF m, n
    <3>2. heap' = heap
      BY <2>1, <3>1
    <3>3. l' = m
      BY <2>1, <2>3, <3>1
    <3> QED
      BY <1>0, <2>1, <2>2, <2>4, <3>1, <3>2, <3>3 DEF Kept, m
  <2>5. CASE free_packets = FREE_PACKET_POOL
    <3>1. n = 1
      BY <2>2, <2>5, PoolConstants DEF Excess, Greatest
    <3> HIDE DEF m, n
    <3>2. heap' = heap \ {h.buffer}
      <4>1. {m[i] : i \in 1 .. n} = {h.buffer}
        BY <2>3, <3>1
      <4> QED
        BY <2>1, <4>1
    <3>3. l' = l
      BY <2>1, <2>3, <3>1
    <3> QED
      BY <1>0, <2>1, <2>2, <3>1, <3>2, <3>3 DEF Released
  <2> QED
    BY <1>0, <2>2, <2>4, <2>5, PoolConstants
<1> QED
  BY <1>1, <1>2

-----------------------------------------------------------------------------
LEMMA PoolInit == Init => PoolInv
<1> SUFFICES ASSUME Init
             PROVE  PoolInv
  OBVIOUS
<1>1. PoolTypes /\ OwnerInv /\ SizeInv
  BY DEF Init, PoolTypes, OwnerInv, SizeInv
<1>2. CountInv
  BY FS_EmptySet, PoolConstants DEF Init, CountInv
<1> QED
  BY <1>1, <1>2 DEF PoolInv

(* A pooled buffer is given away. *)
LEMMA AllocPooledStep ==
  ASSUME PoolInv, NEW asked \in Size, AllocPooled(asked)
  PROVE  PoolInv'
<1> DEFINE l == free_packet_list
           new == [buffer |-> Head(l), len |-> asked]
<1>0. /\ initialized /\ AllocSize(asked) = DEFAULT_ALLOC_SIZE /\ l # << >>
      /\ l' = Tail(l) /\ free_packets' = free_packets - 1
      /\ held' = held \cup {new}
      /\ UNCHANGED <<initialized, allocated_packets, heap>>
  BY DEF AllocPooled, FromPool
<1>1. /\ PoolTypes /\ OwnerInv /\ SizeInv /\ CountInv
      /\ l \in Seq(Buffer)
  BY DEF PoolInv, PoolTypes
<1>2. /\ l' \in Seq(Buffer) /\ Len(l) \in Nat \ {0} /\ Len(l') = Len(l) - 1
      /\ 1 \in DOMAIN l /\ Head(l) = l[1]
      /\ \A i \in DOMAIN l' : i + 1 \in DOMAIN l /\ l'[i] = l[i + 1]
      /\ \A i \in DOMAIN l : i # 1 => i - 1 \in DOMAIN l' /\ l'[i - 1] = l[i]
  BY <1>0, <1>1, TailFacts
<1>3. Head(l) \in Buffer /\ Head(l) \in heap
  BY <1>1, <1>2 DEF OwnerInv, PoolTypes
<1>4. new.buffer = Head(l) /\ new.len = asked /\ new \in Lease
  BY <1>3 DEF Lease
<1>5. \A h \in held : h.buffer # Head(l)
  BY <1>1, <1>2 DEF OwnerInv
<1>6. \A i \in DOMAIN l' : l'[i] # Head(l)
  <2> SUFFICES ASSUME NEW i \in DOMAIN l', l'[i] = Head(l)
               PROVE  FALSE
    OBVIOUS
  <2>1. i + 1 \in DOMAIN l /\ l[i + 1] = l[1] /\ i \in 1 .. Len(l')
    BY <1>2
  <2>2. i + 1 = 1
    BY <1>1, <1>2, <2>1 DEF OwnerInv
  <2> QED
    BY <2>1, <2>2
<1> HIDE DEF new
<1>7. PoolTypes'
  BY <1>0, <1>1, <1>2, <1>4 DEF PoolTypes
<1>8. OwnerInv'
  <2>1. \A b, c \in heap' : b.at = c.at => b = c
    BY <1>0, <1>1 DEF OwnerInv
  <2>2. \A i, j \in DOMAIN l' : l'[i] = l'[j] => i = j
    <3> SUFFICES ASSUME NEW i \in DOMAIN l', NEW j \in DOMAIN l', l'[i] = l'[j]
                 PROVE  i = j
      OBVIOUS
    <3>1. i + 1 = j + 1
      BY <1>1, <1>2 DEF OwnerInv
    <3>2. i \in Nat /\ j \in Nat
      BY <1>2
    <3> QED
      BY <3>1, <3>2
  <2>3. \A g, h \in held' : g.buffer = h.buffer => g = h
    BY <1>0, <1>1, <1>4, <1>5 DEF OwnerInv
  <2>4. \A i \in DOMAIN l', h \in held' : l'[i] # h.buffer
    <3> SUFFICES ASSUME NEW i \in DOMAIN l', NEW h \in held'
                 PROVE  l'[i] # h.buffer
      OBVIOUS
    <3>1. CASE h = new
      BY <1>4, <1>6, <3>1
    <3>2. CASE h \in held
      BY <1>1, <1>2, <3>2 DEF OwnerInv
    <3> QED
      BY <1>0, <3>1, <3>2
  <2>5. \A i \in DOMAIN l' : l'[i] \in heap'
    BY <1>0, <1>1, <1>2 DEF OwnerInv
  <2>6. \A h \in held' : h.buffer \in heap'
    BY <1>0, <1>1, <1>3, <1>4 DEF OwnerInv
  <2>7. \A b \in heap' : b \in (Listed \cup Lent)'
    <3> SUFFICES ASSUME NEW b \in heap
                 PROVE  (\E i \in DOMAIN l' : l'[i] = b) \/ (\E h \in held' : h.buffer = b)
      BY <1>0 DEF Listed, Lent
    <3>1. CASE \E h \in held : h.buffer = b
      BY <1>0, <3>1
    <3>2. CASE b = Head(l)
      BY <1>0, <1>4, <3>2
    <3>3. ASSUME NEW i \in DOMAIN l, l[i] = b, b # Head(l)
          PROVE  \E j \in DOMAIN l' : l'[j] = b
      <4>1. i # 1
        BY <1>2, <3>3
      <4> QED
        BY <1>2, <3>3, <4>1
    <3> QED
      BY <1>1, <3>1, <3>2, <3>3 DEF OwnerInv, Listed, Lent
  <2> QED
    BY <2>1, <2>2, <2>3, <2>4, <2>5, <2>6, <2>7 DEF OwnerInv
<1>9. SizeInv'
  <2>1. Head(l).alloc_size = DEFAULT_ALLOC_SIZE /\ asked <= DEFAULT_ALLOC_SIZE
    BY <1>0, <1>1, <1>2, AllocSizeFacts DEF SizeInv
  <2> QED
    BY <1>0, <1>1, <1>2, <1>4, <2>1 DEF SizeInv
<1>10. CountInv'
  <2>1. new \notin held
    BY <1>4, <1>5
  <2>2. IsFiniteSet(held') /\ Cardinality(held') = Cardinality(held) + 1
    BY <1>0, <1>1, <2>1, FS_AddElement DEF CountInv
  <2>3. Cardinality(held) \in Nat /\ Cardinality(heap) \in Nat
    BY <1>1, FS_CardinalityType DEF CountInv
  <2> QED
    BY <1>0, <1>1, <1>2, <2>2, <2>3, PoolConstants DEF CountInv
<1> QED
  BY <1>7, <1>8, <1>9, <1>10 DEF PoolInv

(* A buffer is made where there is none. *)
LEMMA AllocNewStep ==
  ASSUME PoolInv, NEW asked \in Size, AllocNew(asked)
  PROVE  PoolInv'
<1>0. PICK m \in Memory :
        /\ \A h \in heap : h.at # m
        /\ heap' = heap \cup {[at |-> m, alloc_size |-> AllocSize(asked)]}
        /\ held' = held \cup
             {[buffer |-> [at |-> m, alloc_size |-> AllocSize(asked)], len |-> asked]}
  BY DEF AllocNew
<1> DEFINE b == [at |-> m, alloc_size |-> AllocSize(asked)]
           new == [buffer |-> b, len |-> asked]
<1>1. /\ initialized /\ allocated_packets' = allocated_packets + 1
      /\ UNCHANGED <<initialized, free_packet_list, free_packets>>
      /\ heap' = heap \cup {b} /\ held' = held \cup {new}
  BY <1>0 DEF AllocNew
<1>2. PoolTypes /\ OwnerInv /\ SizeInv /\ CountInv
  BY DEF PoolInv
<1>3. /\ b \in Buffer /\ b.at = m /\ b.alloc_size = AllocSize(asked)
      /\ new \in Lease /\ new.buffer = b /\ new.len = asked
  BY DEF Buffer, Lease
<1>4. \A c \in heap : c.at # b.at
  BY <1>0, <1>3
<1> HIDE DEF b, new
<1>5. b \notin heap /\ \A h \in held : h.buffer # b
  BY <1>2, <1>4 DEF OwnerInv
<1>6. PoolTypes'
  BY <1>1, <1>2, <1>3 DEF PoolTypes
<1>7. OwnerInv'
  <2>1. \A c, d \in heap' : c.at = d.at => c = d
    BY <1>1, <1>2, <1>4 DEF OwnerInv
  <2>2. \A g, h \in held' : g.buffer = h.buffer => g = h
    BY <1>1, <1>2, <1>3, <1>5 DEF OwnerInv
  <2>3. \A i \in DOMAIN free_packet_list', h \in held' : free_packet_list'[i] # h.buffer
    BY <1>1, <1>2, <1>3, <1>5 DEF OwnerInv
  <2>4. /\ \A i \in DOMAIN free_packet_list' : free_packet_list'[i] \in heap'
        /\ \A i, j \in DOMAIN free_packet_list' :
              free_packet_list'[i] = free_packet_list'[j] => i = j
    BY <1>1, <1>2 DEF OwnerInv
  <2>5. \A h \in held' : h.buffer \in heap'
    BY <1>1, <1>2, <1>3 DEF OwnerInv
  <2>6. \A c \in heap' : c \in (Listed \cup Lent)'
    BY <1>1, <1>2, <1>3 DEF OwnerInv, Listed, Lent
  <2> QED
    BY <2>1, <2>2, <2>3, <2>4, <2>5, <2>6 DEF OwnerInv
<1>8. SizeInv'
  BY <1>1, <1>2, <1>3, AllocSizeFacts DEF SizeInv
<1>9. CountInv'
  <2>1. new \notin held
    BY <1>3, <1>5
  <2>2. /\ IsFiniteSet(held') /\ Cardinality(held') = Cardinality(held) + 1
        /\ IsFiniteSet(heap') /\ Cardinality(heap') = Cardinality(heap) + 1
    BY <1>1, <1>2, <1>5, <2>1, FS_AddElement DEF CountInv
  <2>3. /\ Cardinality(held) \in Nat /\ Cardinality(heap) \in Nat
        /\ Len(free_packet_list) \in Nat
    BY <1>2, FS_CardinalityType DEF CountInv, PoolTypes
  <2> QED
    BY <1>1, <1>2, <2>2, <2>3 DEF CountInv
<1> QED
  BY <1>6, <1>7, <1>8, <1>9 DEF PoolInv

(* What a caller held goes to the list. *)
LEMMA KeptStep ==
  ASSUME PoolInv, initialized, NEW h \in held, Kept(h)
  PROVE  PoolInv'
<1> DEFINE l == free_packet_list
<1>0. /\ free_packets < FREE_PACKET_POOL
      /\ h.buffer.alloc_size = DEFAULT_ALLOC_SIZE
      /\ held' = held \ {h} /\ l' = <<h.buffer>> \o l
      /\ free_packets' = free_packets + 1
      /\ UNCHANGED <<initialized, allocated_packets, heap>>
  BY DEF Kept
<1>1. /\ PoolTypes /\ OwnerInv /\ SizeInv /\ CountInv
      /\ l \in Seq(Buffer) /\ h.buffer \in Buffer
  BY DEF PoolInv, PoolTypes, Lease
<1>2. /\ l' \in Seq(Buffer) /\ Len(l') = Len(l) + 1 /\ Len(l) \in Nat
      /\ l'[1] = h.buffer
      /\ \A i \in DOMAIN l : i + 1 \in DOMAIN l' /\ l'[i + 1] = l[i]
      /\ \A i \in DOMAIN l' : i # 1 => i - 1 \in DOMAIN l /\ l'[i] = l[i - 1]
  BY <1>0, <1>1, PushFacts
<1>3. \A i \in DOMAIN l : l[i] # h.buffer
  BY <1>1 DEF OwnerInv
<1>4. \A g \in held' : g \in held /\ g.buffer # h.buffer
  BY <1>0, <1>1 DEF OwnerInv
<1>5. PoolTypes'
  BY <1>0, <1>1, <1>2 DEF PoolTypes
<1>6. OwnerInv'
  <2>1. \A i, j \in DOMAIN l' : l'[i] = l'[j] => i = j
    <3> SUFFICES ASSUME NEW i \in DOMAIN l', NEW j \in DOMAIN l', l'[i] = l'[j]
                 PROVE  i = j
      OBVIOUS
    <3>1. CASE i = 1 \/ j = 1
      BY <1>2, <1>3, <3>1
    <3>2. CASE i # 1 /\ j # 1
      <4>1. i - 1 = j - 1
        BY <1>1, <1>2, <3>2 DEF OwnerInv
      <4>2. i \in Nat /\ j \in Nat
        BY <1>2
      <4> QED
        BY <4>1, <4>2
    <3> QED
      BY <3>1, <3>2
  <2>2. \A i \in DOMAIN l', g \in held' : l'[i] # g.buffer
    <3> SUFFICES ASSUME NEW i \in DOMAIN l', NEW g \in held'
                 PROVE  l'[i] # g.buffer
      OBVIOUS
    <3>1. CASE i = 1
      BY <1>2, <1>4, <3>1
    <3>2. CASE i # 1
      BY <1>1, <1>2, <1>4, <3>2 DEF OwnerInv
    <3> QED
      BY <3>1, <3>2
  <2>3. \A i \in DOMAIN l' : l'[i] \in heap'
    BY <1>0, <1>1, <1>2 DEF OwnerInv
  <2>4. /\ \A b, c \in heap' : b.at = c.at => b = c
        /\ \A f, g \in held' : f.buffer = g.buffer => f = g
        /\ \A g \in held' : g.buffer \in heap'
    BY <1>0, <1>1, <1>4 DEF OwnerInv
  <2>5. \A b \in heap' : b \in (Listed \cup Lent)'
    <3> SUFFICES ASSUME NEW b \in heap
                 PROVE  (\E i \in DOMAIN l' : l'[i] = b) \/ (\E g \in held' : g.buffer = b)
      BY <1>0 DEF Listed, Lent
    <3>1. CASE b = h.buffer
      BY <1>2, <3>1
    <3>2. ASSUME NEW i \in DOMAIN l, l[i] = b
          PROVE  \E j \in DOMAIN l' : l'[j] = b
      BY <1>2, <3>2
    <3>3. ASSUME NEW g \in held, g.buffer = b, b # h.buffer
          PROVE  g \in held'
      BY <1>0, <3>3
    <3> QED
      BY <1>1, <3>1, <3>2, <3>3 DEF OwnerInv, Listed, Lent
  <2> QED
    BY <2>1, <2>2, <2>3, <2>4, <2>5 DEF OwnerInv
<1>7. SizeInv'
  <2>1. \A i \in DOMAIN l' : l'[i].alloc_size = DEFAULT_ALLOC_SIZE
    BY <1>0, <1>1, <1>2 DEF SizeInv
  <2> QED
    BY <1>1, <1>4, <2>1 DEF SizeInv
<1>8. CountInv'
  <2>1. IsFiniteSet(held') /\ Cardinality(held') = Cardinality(held) - 1
    BY <1>0, <1>1, FS_RemoveElement DEF CountInv
  <2>2. Cardinality(held) \in Nat /\ Cardinality(heap) \in Nat
    BY <1>1, FS_CardinalityType DEF CountInv
  <2>3. /\ free_packets = Len(l) /\ allocated_packets = Cardinality(heap)
        /\ Len(l) + Cardinality(held) = Cardinality(heap)
        /\ initialized' /\ IsFiniteSet(heap')
    BY <1>0, <1>1 DEF CountInv
  <2>4. free_packets' = Len(l') /\ free_packets' <= FREE_PACKET_POOL
    BY <1>0, <1>2, <2>3, PoolConstants
  <2>5. Len(l') + Cardinality(held') = Cardinality(heap')
    BY <1>0, <1>2, <2>1, <2>2, <2>3
  <2> QED
    BY <1>0, <2>1, <2>3, <2>4, <2>5 DEF CountInv
<1> QED
  BY <1>5, <1>6, <1>7, <1>8 DEF PoolInv

(* What a caller held goes back to malloc. *)
LEMMA ReleasedStep ==
  ASSUME PoolInv, initialized, NEW h \in held, Released(h)
  PROVE  PoolInv'
<1>0. /\ held' = held \ {h} /\ heap' = heap \ {h.buffer}
      /\ allocated_packets' = allocated_packets - 1
      /\ UNCHANGED <<initialized, free_packet_list, free_packets>>
  BY DEF Released
<1>1. PoolTypes /\ OwnerInv /\ SizeInv /\ CountInv
  BY DEF PoolInv
<1>2. \A g \in held' : g \in held /\ g.buffer # h.buffer
  BY <1>0, <1>1 DEF OwnerInv
<1>3. PoolTypes' /\ SizeInv'
  BY <1>0, <1>1 DEF PoolTypes, SizeInv
<1>4. OwnerInv'
  <2>1. /\ \A b, c \in heap' : b.at = c.at => b = c
        /\ \A f, g \in held' : f.buffer = g.buffer => f = g
        /\ \A g \in held' : g.buffer \in heap'
    BY <1>0, <1>1, <1>2 DEF OwnerInv
  <2>2. /\ \A i, j \in DOMAIN free_packet_list' :
              free_packet_list'[i] = free_packet_list'[j] => i = j
        /\ \A i \in DOMAIN free_packet_list', g \in held' :
              free_packet_list'[i] # g.buffer
        /\ \A i \in DOMAIN free_packet_list' : free_packet_list'[i] \in heap'
    BY <1>0, <1>1, <1>2 DEF OwnerInv
  <2>3. \A b \in heap' : b \in (Listed \cup Lent)'
    BY <1>0, <1>1 DEF OwnerInv, Listed, Lent
  <2> QED
    BY <2>1, <2>2, <2>3 DEF OwnerInv
<1>5. CountInv'
  <2>1. h.buffer \in heap
    BY <1>1 DEF OwnerInv
  <2>2. /\ IsFiniteSet(held') /\ Cardinality(held') = Cardinality(held) - 1
        /\ IsFiniteSet(heap') /\ Cardinality(heap') = Cardinality(heap) - 1
    BY <1>0, <1>1, <2>1, FS_RemoveElement DEF CountInv
  <2>3. /\ Cardinality(held) \in Nat /\ Cardinality(heap) \in Nat
        /\ Len(free_packet_list) \in Nat
    BY <1>1, FS_CardinalityType DEF CountInv, PoolTypes
  <2> QED
    BY <1>0, <1>1, <2>2, <2>3 DEF CountInv
<1> QED
  BY <1>3, <1>4, <1>5 DEF PoolInv

LEMMA DeinitStep ==
  ASSUME PoolInv, rudp_deinit
  PROVE  PoolInv'
<1>0. /\ held = {} /\ held' = {} /\ initialized' = FALSE
      /\ heap' = heap \ Listed /\ free_packet_list' = << >>
  BY DEF rudp_deinit
<1>1. heap' = {}
  BY <1>0 DEF PoolInv, OwnerInv, Lent
<1>2. PoolTypes'
  <2>1. initialized' \in BOOLEAN
    BY <1>0
  <2>2. free_packet_list' \in Seq(Buffer) /\ heap' \subseteq Buffer /\ held' \subseteq Lease
    BY <1>0, <1>1
  <2> QED
    BY <2>1, <2>2 DEF PoolTypes
<1>3. OwnerInv' /\ SizeInv'
  BY <1>0, <1>1 DEF OwnerInv, SizeInv
<1>4. CountInv'
  BY <1>0, <1>1, FS_EmptySet DEF CountInv
<1> QED
  BY <1>2, <1>3, <1>4 DEF PoolInv

LEMMA InitAgainStep ==
  ASSUME PoolInv, rudp_init
  PROVE  PoolInv'
<1>0. /\ held' = {} /\ heap' = {} /\ initialized' = TRUE
      /\ free_packet_list' = << >> /\ free_packets' = 0 /\ allocated_packets' = 0
  BY DEF rudp_init, PoolInv, CountInv
<1>1. PoolTypes' /\ OwnerInv' /\ SizeInv'
  BY <1>0 DEF PoolTypes, OwnerInv, SizeInv
<1>2. CountInv'
  BY <1>0, FS_EmptySet, PoolConstants DEF CountInv
<1> QED
  BY <1>1, <1>2 DEF PoolInv

LEMMA PoolStep == PoolInv /\ [Next]_vars => PoolInv'
<1> SUFFICES ASSUME PoolInv, [Next]_vars
             PROVE  PoolInv'
  OBVIOUS
<1>1. CASE rudp_init \/ rudp_deinit
  BY <1>1, InitAgainStep, DeinitStep
<1>2. ASSUME NEW asked \in Size, AllocPooled(asked) \/ AllocNew(asked)
      PROVE  PoolInv'
  BY <1>2, AllocPooledStep, AllocNewStep
<1>3. ASSUME NEW h \in held, FreePooled(h) \/ FreeLarge(h)
      PROVE  PoolInv'
  BY <1>3, FreeEffect, KeptStep, ReleasedStep
<1>4. CASE UNCHANGED vars
  <2>1. PoolTypes' /\ SizeInv'
    BY <1>4 DEF vars, PoolInv, PoolTypes, SizeInv
  <2>2. OwnerInv'
    BY <1>4 DEF vars, PoolInv, OwnerInv, Listed, Lent
  <2>3. CountInv'
    BY <1>4 DEF vars, PoolInv, CountInv
  <2> QED
    BY <2>1, <2>2, <2>3 DEF PoolInv
<1> QED
  BY <1>1, <1>2, <1>3, <1>4 DEF Next

-----------------------------------------------------------------------------
(* Every reachable state satisfies the invariant. *)
THEOREM PoolInductive == Spec => []PoolInv
  BY PoolInit, PoolStep, PTL DEF Spec

(* There are no more buffers than places for them. *)
LEMMA HeapFits ==
  ASSUME PoolInv
  PROVE  Cardinality(heap) <= Cardinality(Memory)
<1> DEFINE f == [b \in heap |-> b.at]
<1>1. f \in Injection(heap, Memory)
  <2>1. f \in [heap -> Memory]
    BY BufferFacts DEF PoolInv, PoolTypes
  <2>2. \A b, c \in heap : f[b] = f[c] => b = c
    BY DEF PoolInv, OwnerInv
  <2> QED
    BY <2>1, <2>2 DEF Injection, IsInjective
<1> QED
  BY <1>1, FS_Injection, PoolAssumption

LEMMA CountersFit == PoolInv /\ initialized => TypeOK
<1> SUFFICES ASSUME PoolInv, initialized
             PROVE  TypeOK
  OBVIOUS
<1>1. /\ Len(free_packet_list) \in Nat /\ Cardinality(heap) \in Nat
      /\ Cardinality(heap) <= Cardinality(Memory) /\ Cardinality(Memory) \in Nat
  BY HeapFits, FS_CardinalityType, PoolAssumption DEF PoolInv, PoolTypes, CountInv
<1>2. /\ free_packets \in 0 .. FREE_PACKET_POOL
      /\ allocated_packets \in 0 .. Cardinality(Memory)
  BY <1>1, PoolConstants DEF PoolInv, CountInv
<1> QED
  BY <1>2 DEF PoolInv, PoolTypes, TypeOK, Lease

(* Every reachable state is well-formed: no counter goes below 0 or past   *)
(* what memory can hold, and each keeps a valid value after rudp_deinit.   *)
THEOREM PoolTypeCorrect == Spec => []TypeOK
<1>1. Init => TypeOK
  BY PoolInit, CountersFit DEF Init
<1>2. PoolInv' /\ initialized' => TypeOK'
  BY CountersFit, PTL
<1>3. PoolInv /\ TypeOK /\ PoolInv' /\ [Next]_vars => TypeOK'
  <2> SUFFICES ASSUME PoolInv, TypeOK, PoolInv', [Next]_vars, ~ initialized'
               PROVE  TypeOK'
    BY <1>2
  <2>1. ~ rudp_init
    BY DEF rudp_init
  <2>2. ASSUME NEW asked \in Size, AllocPooled(asked) \/ AllocNew(asked)
        PROVE  FALSE
    BY <2>2 DEF AllocPooled, AllocNew
  <2>3. ASSUME NEW h \in held, FreePooled(h) \/ FreeLarge(h)
        PROVE  FALSE
    BY <2>3 DEF FreePooled, FreeLarge
  <2>4. free_packets' = free_packets /\ allocated_packets' = allocated_packets
    BY <2>1, <2>2, <2>3 DEF Next, rudp_deinit, vars
  <2> QED
    BY <2>4 DEF PoolInv, PoolTypes, TypeOK, Lease
<1> QED
  BY <1>1, <1>3, PoolInductive, PTL DEF Spec

(* The counters are exact after any sequence of calls, for any limit: the  *)
(* loop of rudp_packet_chain_free, which looks at free_packets only, never *)
(* runs on an empty list and never leaves more than the limit.             *)
THEOREM CountersAreExact == Spec => []CountersExact
<1>1. PoolInv => CountersExact
  BY DEF PoolInv, CountInv, CountersExact
<1> QED
  BY <1>1, PoolInductive, PTL

(* No buffer is lost and none is handed to two callers. *)
THEOREM BuffersHaveOneOwner == Spec => []OneOwner
<1>1. PoolInv => OneOwner
  <2> SUFFICES ASSUME PoolInv, initialized
               PROVE  /\ Listed \cup Lent = heap
                      /\ Len(free_packet_list) + Cardinality(held) = Cardinality(heap)
    BY DEF OneOwner
  <2>1. Listed \cup Lent = heap
    BY DEF PoolInv, OwnerInv, Listed, Lent
  <2> QED
    BY <2>1 DEF PoolInv, CountInv
<1> QED
  BY <1>1, PoolInductive, PTL

(* A caller gets as many bytes as it asked for, from malloc and from the   *)
(* pool.                                                                   *)
THEOREM BuffersAreLongEnough == Spec => []LongEnough
<1>1. PoolInv => LongEnough
  BY DEF PoolInv, SizeInv, LongEnough
<1> QED
  BY <1>1, PoolInductive, PTL

(* rudp_deinit leaves no buffer: what is not held is on the list. *)
THEOREM NothingIsLeft == Spec => []DeinitFreesAll
<1>1. PoolInv => DeinitFreesAll
  BY DEF PoolInv, CountInv, DeinitFreesAll
<1> QED
  BY <1>1, PoolInductive, PTL

=============================================================================
