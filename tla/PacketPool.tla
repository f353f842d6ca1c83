----------------------------- MODULE PacketPool -----------------------------
(***************************************************************************)
(* The packet buffers of a rudp context (src/src/packet.c, src/src/rudp.c):*)
(* rudp_packet_chain_alloc and rudp_packet_chain_free with the free list   *)
(* and its two counters.  A buffer is where malloc put it and alloc_size;  *)
(* what is in it is not represented.                                       *)
(***************************************************************************)
EXTENDS Integers, Sequences, FiniteSets

CONSTANTS
    DEFAULT_ALLOC_SIZE,  \* 4096 in the code
    FREE_PACKET_POOL,    \* 10
    Size,                \* the sizes that are asked for
    Memory               \* the places of a buffer: bounds those that exist

ASSUME PoolAssumption ==
    /\ DEFAULT_ALLOC_SIZE \in Nat /\ FREE_PACKET_POOL \in Nat
    /\ Size \subseteq Nat
    /\ IsFiniteSet(Memory)

VARIABLES
    initialized,         \* between rudp_init and rudp_deinit
    free_packet_list,
    free_packets, allocated_packets,
    heap,                \* the buffers that malloc gave and free did not take
    held                 \* what callers hold: buffers with the len they asked

vars == <<initialized, free_packet_list, free_packets, allocated_packets,
          heap, held>>

Greatest(a, b) == IF a <= b THEN b ELSE a

(* rudp_packet_chain_alloc allocates at least a default buffer. *)
AllocSize(asked) == Greatest(asked, DEFAULT_ALLOC_SIZE)

Buffer == [at : Memory, alloc_size : {AllocSize(s) : s \in Size}]

Listed == {free_packet_list[i] : i \in DOMAIN free_packet_list}
Lent == {h.buffer : h \in held}

TypeOK ==
    /\ initialized \in BOOLEAN
    /\ free_packet_list \in Seq(Buffer)
    /\ free_packets \in 0 .. FREE_PACKET_POOL
    /\ allocated_packets \in 0 .. Cardinality(Memory)
    /\ heap \subseteq Buffer
    /\ held \subseteq [buffer : Buffer, len : Size]

(* rudp_init *)
Init ==
    /\ initialized = TRUE
    /\ free_packet_list = << >> /\ free_packets = 0 /\ allocated_packets = 0
    /\ heap = {} /\ held = {}

rudp_init ==
    /\ ~ initialized /\ initialized' = TRUE
    /\ free_packet_list' = << >> /\ free_packets' = 0 /\ allocated_packets' = 0
    /\ UNCHANGED <<heap, held>>

(* Mutant: any request is served from the pool. *)
FromPool_AnySize(asked) == free_packet_list # << >>

(* Only a request for the default size is served from the pool. *)
FromPool(asked) ==
    AllocSize(asked) = DEFAULT_ALLOC_SIZE /\ free_packet_list # << >>

(* Mutant: one end of the list is given away, the other taken off. *)
AllocPooled_OtherEnd(asked) ==
    /\ initialized /\ FromPool(asked)
    /\ free_packet_list' = SubSeq(free_packet_list, 1, Len(free_packet_list) - 1)
    /\ free_packets' = free_packets - 1
    /\ held' = held \cup {[buffer |-> Head(free_packet_list), len |-> asked]}
    /\ UNCHANGED <<initialized, allocated_packets, heap>>

(* The first buffer of the list is used again. *)
AllocPooled(asked) ==
    /\ initialized /\ FromPool(asked)
    /\ free_packet_list' = Tail(free_packet_list)
    /\ free_packets' = free_packets - 1
    /\ held' = held \cup {[buffer |-> Head(free_packet_list), len |-> asked]}
    /\ UNCHANGED <<initialized, allocated_packets, heap>>

(* rudp_alloc; where it returns NULL nothing changes. *)
AllocNew(asked) ==
    /\ initialized /\ ~ FromPool(asked)
    /\ \E m \in Memory :
          LET b == [at |-> m, alloc_size |-> AllocSize(asked)] IN
          /\ \A h \in heap : h.at # m
          /\ heap' = heap \cup {b}
          /\ held' = held \cup {[buffer |-> b, len |-> asked]}
    /\ allocated_packets' = allocated_packets + 1
    /\ UNCHANGED <<initialized, free_packet_list, free_packets>>

(* How often the loop of rudp_packet_chain_free runs for n free packets. *)
Excess(n) == Greatest(n - FREE_PACKET_POOL, 0)

(* Mutant: the buffers taken off the list are not counted off. *)
FreePooled_KeepsAllocated(h) ==
    LET list == <<h.buffer>> \o free_packet_list
        n == Excess(free_packets + 1)
    IN
    /\ initialized /\ h.buffer.alloc_size = DEFAULT_ALLOC_SIZE
    /\ held' = held \ {h}
    /\ free_packet_list' = SubSeq(list, n + 1, Len(list))
    /\ free_packets' = free_packets + 1 - n
    /\ heap' = heap \ {list[i] : i \in 1 .. n}
    /\ UNCHANGED <<initialized, allocated_packets>>

(* A default buffer goes to the front of the list, from where the loop     *)
(* takes buffers to free until the limit is met.                           *)
FreePooled(h) ==
    LET list == <<h.buffer>> \o free_packet_list
        n == Excess(free_packets + 1)
    IN
    /\ initialized /\ h.buffer.alloc_size = DEFAULT_ALLOC_SIZE
    /\ held' = held \ {h}
    /\ free_packet_list' = SubSeq(list, n + 1, Len(list))
    /\ free_packets' = free_packets + 1 - n
    /\ allocated_packets' = allocated_packets - n
    /\ heap' = heap \ {list[i] : i \in 1 .. n}
    /\ UNCHANGED initialized

(* A larger one is freed; the loop finds the list within its limit. *)
FreeLarge(h) ==
    /\ initialized /\ h.buffer.alloc_size # DEFAULT_ALLOC_SIZE
    /\ held' = held \ {h}
    /\ heap' = heap \ {h.buffer}
    /\ allocated_packets' = allocated_packets - 1
    /\ UNCHANGED <<initialized, free_packet_list, free_packets>>

(* Mutant: only the first buffer of the list is freed. *)
rudp_deinit_FirstOnly ==
    /\ initialized /\ held = {}
    /\ initialized' = FALSE
    /\ heap' = heap \ {free_packet_list[i] : i \in DOMAIN free_packet_list \cap {1}}
    /\ free_packet_list' = << >>
    /\ UNCHANGED <<free_packets, allocated_packets, held>>

(* The list is freed, the counters stay.  "deinitialize and free the       *)
(* objects" comes first (include/rudp/rudp.h), so no one holds a buffer.   *)
rudp_deinit ==
    /\ initialized /\ held = {}
    /\ initialized' = FALSE
    /\ heap' = heap \ Listed
    /\ free_packet_list' = << >>
    /\ UNCHANGED <<free_packets, allocated_packets, held>>

Next ==
    \/ rudp_init
    \/ \E asked \in Size : AllocPooled(asked) \/ AllocNew(asked)
    \/ \E h \in held : FreePooled(h) \/ FreeLarge(h)
    \/ rudp_deinit

Spec == Init /\ [][Next]_vars

-----------------------------------------------------------------------------
(* Properties *)

(* free_packets is the length of the list and allocated_packets the number *)
(* of buffers that exist; the loop of rudp_packet_chain_free ends because  *)
(* of the first, and leaves no more than the limit.                        *)
CountersExact ==
    initialized =>
        /\ free_packets = Len(free_packet_list)
        /\ free_packets <= FREE_PACKET_POOL
        /\ allocated_packets = Cardinality(heap)

(* A buffer is on the list once or held by one caller, and never both; no  *)
(* buffer is lost (rudp_packet_chain_alloc, rudp_packet_chain_free).       *)
OneOwner ==
    initialized =>
        /\ Listed \cup Lent = heap
        /\ Len(free_packet_list) + Cardinality(held) = Cardinality(heap)

(* What a caller was given is at least as long as it asked for, also when  *)
(* it was used before for something shorter.                               *)
LongEnough == \A h \in held : h.len <= h.buffer.alloc_size

(* After rudp_deinit no buffer is left, whatever the pool went through.    *)
DeinitFreesAll == ~ initialized => heap = {}

=============================================================================
