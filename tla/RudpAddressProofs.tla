------------------------- MODULE RudpAddressProofs -------------------------
(***************************************************************************)
(* Proofs about RudpAddress, for any hosts, ports and answers of           *)
(* getaddrinfo.                                                            *)
(***************************************************************************)
EXTENDS RudpAddress, TLAPS

(* The addresses that a resolved list stands for. *)
Resolved(list, p) == {[host |-> list.hosts[i], port |-> p] : i \in DOMAIN list.hosts}

(* The state alone says whether there is an address, and whether there is  *)
(* a list and a place in it.                                               *)
ListInv ==
    /\ resolver_state \in {"ADDR", "DONE"} => addr \in Address /\ port \in Port
    /\ resolver_state = "DONE" => addrinfo \in heap /\ cur \in DOMAIN addrinfo.hosts

(* What can be got was asked for, with the port that the next walk and the *)
(* text will use; and a walk can only lead to what was asked for.          *)
GetInv ==
    ~ nomem =>
        /\ resolver_state \in {"ADDR", "DONE"} => addr \in wanted /\ addr.port = port
        /\ resolver_state = "DONE" => wanted = Resolved(addrinfo, port)

AddressInv == TypeOK /\ ListInv /\ GetInv /\ TextIsCurrent

-----------------------------------------------------------------------------
(* A list that getaddrinfo returns has a first host. *)
LEMMA AnswerIsNotEmpty ==
  ASSUME NEW list \in List
  PROVE  /\ list.hosts \in Seq(Host) /\ Len(list.hosts) \in Nat \ {0}
         /\ DOMAIN list.hosts = 1 .. Len(list.hosts)
         /\ \A i \in DOMAIN list.hosts : list.hosts[i] \in Host
<1>1. list.hosts \in Seq(Host) /\ list.hosts # << >>
  BY AddressAssumption DEF List
<1> QED
  BY <1>1

(* The next host is in the list, from NULL, from the middle and from the end. *)
LEMMA FollowingInList ==
  ASSUME NEW list \in List, NEW i \in 0 .. Len(list.hosts)
  PROVE  Following(i, list.hosts) \in DOMAIN list.hosts
  BY AnswerIsNotEmpty DEF Following

(* What is taken from a list is an address that the list stands for. *)
LEMMA TakenIsResolved ==
  ASSUME NEW list \in List, NEW i \in DOMAIN list.hosts, NEW p \in Port \cup {0}
  PROVE  /\ Taken(i, list.hosts, p) \in Resolved(list, p)
         /\ Taken(i, list.hosts, p).port = p
         /\ p \in Port => Taken(i, list.hosts, p) \in Address
         /\ p \in Port => Resolved(list, p) \subseteq Address
  BY AnswerIsNotEmpty DEF Taken, Resolved, Address

LEMMA AddressInit == Init => AddressInv
<1> SUFFICES ASSUME Init
             PROVE  AddressInv
  OBVIOUS
<1>1. cur \in 0 .. Len(addrinfo.hosts)
  <2>1. Len(addrinfo.hosts) = 0
    BY DEF Init, NoList
  <2> QED
    BY <2>1 DEF Init
<1>2. TypeOK
  BY <1>1 DEF Init, TypeOK, ResolverState
<1>3. ListInv /\ GetInv /\ TextIsCurrent
  BY DEF Init, ListInv, GetInv, TextIsCurrent, Gettable
<1> QED
  BY <1>2, <1>3 DEF AddressInv

LEMMA AddressStep == AddressInv /\ [Next]_vars => AddressInv'
<1> SUFFICES ASSUME AddressInv, [Next]_vars
             PROVE  AddressInv'
  OBVIOUS
<1> USE DEF AddressInv
<1>1. CASE rudp_address_init
  <2>1. cur' \in 0 .. Len(addrinfo'.hosts)
    <3>1. Len(addrinfo'.hosts) = 0
      BY <1>1 DEF rudp_address_init, NoList
    <3> QED
      BY <1>1, <3>1 DEF rudp_address_init
  <2>2. TypeOK'
    BY <1>1, <2>1 DEF rudp_address_init, TypeOK, ResolverState
  <2>3. ListInv' /\ GetInv' /\ TextIsCurrent'
    BY <1>1 DEF rudp_address_init, ListInv, GetInv, TextIsCurrent, Gettable
  <2> QED
    BY <2>2, <2>3
<1>2. CASE rudp_address_deinit
  <2>1. TypeOK'
    BY <1>2 DEF rudp_address_deinit, TypeOK, ResolverState, history
  <2>2. ListInv' /\ GetInv' /\ TextIsCurrent'
    BY <1>2 DEF rudp_address_deinit, ListInv, GetInv, TextIsCurrent, Gettable
  <2> QED
    BY <2>1, <2>2
<1>3. ASSUME NEW a \in Address, rudp_address_set(a)
      PROVE  AddressInv'
  <2>1. a.port \in Port
    BY DEF Address
  <2>2. TypeOK'
    BY <1>3, <2>1 DEF rudp_address_set, TypeOK, ResolverState
  <2>3. ListInv' /\ GetInv' /\ TextIsCurrent'
    BY <1>3, <2>1 DEF rudp_address_set, ListInv, GetInv, TextIsCurrent
  <2> QED
    BY <2>2, <2>3
<1>4. CASE rudp_address_next
  <2>1. /\ resolver_state = "DONE" /\ addrinfo \in List /\ port \in Port
        /\ cur \in 0 .. Len(addrinfo.hosts)
    BY <1>4 DEF rudp_address_next, ListInv, TypeOK
  <2>2. cur' \in DOMAIN addrinfo.hosts
    BY <1>4, <2>1, FollowingInList DEF rudp_address_next
  <2>3. /\ addr' \in Resolved(addrinfo, port) /\ addr'.port = port
        /\ addr' \in Address
    BY <1>4, <2>1, <2>2, TakenIsResolved DEF rudp_address_next
  <2>4. text' = Unset /\ UNCHANGED <<initialized, resolver_state, port, addrinfo,
                                     heap, err, wanted, nomem>>
    BY <1>4 DEF rudp_address_next, history
  <2>5. cur' \in 0 .. Len(addrinfo.hosts)
    BY <2>1, <2>2, AnswerIsNotEmpty
  <2>6. TypeOK'
    BY <2>3, <2>4, <2>5 DEF TypeOK
  <2>7. ListInv' /\ TextIsCurrent'
    BY <2>1, <2>2, <2>3, <2>4 DEF ListInv, TextIsCurrent
  <2>8. GetInv'
    BY <2>1, <2>3, <2>4 DEF GetInv
  <2> QED
    BY <2>6, <2>7, <2>8
<1>5. CASE NextElsewhere \/ NullHostname
  <2>1. /\ text' = Unset /\ err' \in {err, "EINVAL"}
        /\ UNCHANGED <<initialized, resolver_state, addr, port, addrinfo, cur,
                       heap, wanted, nomem>>
    BY <1>5 DEF NextElsewhere, NullHostname, history
  <2>2. TypeOK'
    BY <2>1 DEF TypeOK
  <2>3. ListInv' /\ GetInv' /\ TextIsCurrent'
    BY <2>1 DEF ListInv, GetInv, TextIsCurrent
  <2> QED
    BY <2>2, <2>3
<1>6. ASSUME NEW p \in Port, HostnameNoMemory(p)
      PROVE  AddressInv'
  <2>1. TypeOK'
    BY <1>6 DEF HostnameNoMemory, TypeOK
  <2>2. ListInv' /\ GetInv' /\ TextIsCurrent'
    BY <1>6 DEF HostnameNoMemory, ListInv, GetInv, TextIsCurrent
  <2> QED
    BY <2>1, <2>2
<1>7. ASSUME NEW p \in Port, HostnameUnresolved(p)
      PROVE  AddressInv'
  <2>1. cur' \in 0 .. Len(addrinfo'.hosts)
    BY <1>7 DEF HostnameUnresolved, TypeOK
  <2>2. TypeOK'
    BY <1>7, <2>1 DEF HostnameUnresolved, TypeOK, ResolverState, history
  <2>3. ListInv' /\ GetInv' /\ TextIsCurrent'
    BY <1>7 DEF HostnameUnresolved, ListInv, GetInv, TextIsCurrent
  <2> QED
    BY <2>2, <2>3
<1>8. ASSUME NEW p \in Port, NEW list \in List, HostnameResolved(p, list)
      PROVE  AddressInv'
  <2>1. cur' \in DOMAIN list.hosts
    BY <1>8, AnswerIsNotEmpty, FollowingInList DEF HostnameResolved
  <2>2. /\ addr' \in Resolved(list, p) /\ addr'.port = p
        /\ addr' \in Address /\ Resolved(list, p) \subseteq Address
    BY <1>8, <2>1, TakenIsResolved DEF HostnameResolved
  <2>3. /\ heap' = heap \cup {list} /\ addrinfo' = list /\ resolver_state' = "DONE"
        /\ port' = p /\ text' = Unset /\ err' = "0" /\ nomem' = FALSE
        /\ wanted' = Resolved(list, p) /\ initialized' = initialized
    BY <1>8 DEF HostnameResolved, Resolved
  <2>4. cur' \in 0 .. Len(list.hosts)
    BY <2>1, AnswerIsNotEmpty
  <2>5. TypeOK'
    BY <2>2, <2>3, <2>4 DEF TypeOK, ResolverState
  <2>6. ListInv' /\ TextIsCurrent'
    BY <2>1, <2>2, <2>3 DEF ListInv, TextIsCurrent
  <2>7. GetInv'
    BY <2>2, <2>3 DEF GetInv
  <2> QED
    BY <2>5, <2>6, <2>7
<1>9. CASE rudp_address_text
  <2>1. /\ resolver_state \in {"ADDR", "DONE"} /\ initialized
        /\ addr \in Address /\ port \in Port
    BY <1>9 DEF rudp_address_text, Gettable, ListInv
  <2>2. /\ UNCHANGED <<initialized, resolver_state, addr, port, addrinfo, cur,
                       heap, err, wanted, nomem>>
        /\ text' \in {text, [host |-> addr.host, port |-> port]}
    BY <1>9 DEF rudp_address_text, history
  <2>3. TypeOK'
    BY <2>1, <2>2 DEF TypeOK, Address
  <2>4. ListInv' /\ GetInv'
    BY <2>2 DEF ListInv, GetInv
  <2>5. TextIsCurrent'
    <3>1. CASE nomem
      BY <2>2, <3>1 DEF TextIsCurrent
    <3>2. CASE ~ nomem
      <4>1. [host |-> addr.host, port |-> port] = addr
        BY <2>1, <3>2 DEF GetInv, Address
      <4> QED
        BY <2>1, <2>2, <4>1 DEF TextIsCurrent, Gettable
    <3> QED
      BY <3>1, <3>2
  <2> QED
    BY <2>3, <2>4, <2>5
<1>10. CASE UNCHANGED vars
  <2>1. TypeOK'
    BY <1>10 DEF vars, TypeOK
  <2>2. ListInv' /\ GetInv' /\ TextIsCurrent'
    BY <1>10 DEF vars, ListInv, GetInv, TextIsCurrent, Gettable
  <2> QED
    BY <2>1, <2>2
<1> QED
  BY <1>1, <1>2, <1>3, <1>4, <1>5, <1>6, <1>7, <1>8, <1>9, <1>10 DEF Next

-----------------------------------------------------------------------------
(* Every reachable state satisfies the invariant. *)
THEOREM AddressInductive == Spec => []AddressInv
  BY AddressInit, AddressStep, PTL DEF Spec

(* rudp_address_next never reads a list that was freed, nor a place        *)
(* outside it: a list is freed in state DONE only, and that state is left  *)
(* with it.                                                                *)
THEOREM WalkStaysInList == Spec => []WalkInList
<1>1. AddressInv => WalkInList
  BY DEF AddressInv, ListInv, WalkInList
<1> QED
  BY <1>1, AddressInductive, PTL

(* rudp_address_get answers with an address of the last successful call,   *)
(* after any number of walks and failed resolutions.                       *)
THEOREM GetReturnsLastSet == Spec => []GetIsLastSet
<1>1. AddressInv => GetIsLastSet
  BY DEF AddressInv, GetInv, GetIsLastSet, Gettable
<1> QED
  BY <1>1, AddressInductive, PTL

(* The cached text shows what rudp_address_get returns: every operation    *)
(* that changes the address forgets the text.                              *)
THEOREM TextFollowsAddress == Spec => []TextIsCurrent
<1>1. AddressInv => TextIsCurrent
  BY DEF AddressInv
<1> QED
  BY <1>1, AddressInductive, PTL

=============================================================================
