---------------------------- MODULE RudpAddress ----------------------------
(***************************************************************************)
(* struct rudp_address (src/src/address.c): an address set directly or     *)
(* resolved from a host name, its list of resolved hosts, and the cached   *)
(* text.  A host is a model value and stands for a family with the bytes   *)
(* of an address; an address is a host with a port.                        *)
(***************************************************************************)
EXTENDS Integers, Sequences

CONSTANTS
    Host, Port,
    LongText,     \* the hosts whose text does not fit: see rudp_address_text
    Answer,       \* what getaddrinfo may find: non-empty sequences of hosts
    MaxLists      \* bounds the lists of getaddrinfo that are allocated

ASSUME AddressAssumption ==
    /\ LongText \subseteq Host /\ Answer \subseteq Seq(Host) \ {<< >>}
    /\ MaxLists \in Nat

VARIABLES
    initialized,     \* between rudp_address_init and rudp_address_deinit
    resolver_state,
    addr,            \* the sockaddr_storage
    port,
    addrinfo,        \* the list last returned by getaddrinfo
    cur,             \* position in it, 0 for NULL
    text,            \* the cached text, by the address it shows
    heap,            \* the lists of getaddrinfo not freed yet
    err,             \* what the last rudp_address_set_hostname returned
    wanted,          \* history: the addresses the last successful call asked for
    nomem            \* history: strdup has failed since that call

history == <<wanted, nomem>>
vars == <<initialized, resolver_state, addr, port, addrinfo, cur, text, heap,
          err, wanted, nomem>>

Unset == [host |-> "none", port |-> 0]
Address == [host : Host, port : Port]

(* A list has an identity, as memory has; 0 is NULL. *)
List == [id : 1 .. MaxLists, hosts : Answer]
NoList == [id |-> 0, hosts |-> << >>]

(* RUDP_RESOLV_FAILED is never assigned. *)
ResolverState == {"NONE", "ADDR", "ERROR", "DONE"}

TypeOK ==
    /\ initialized \in BOOLEAN
    /\ resolver_state \in ResolverState
    /\ addr \in Address \cup {Unset}
    /\ port \in Port \cup {0}
    /\ addrinfo \in List \cup {NoList}
    /\ cur \in 0 .. Len(addrinfo.hosts)
    /\ text \in Address \cup {Unset}
    /\ heap \subseteq List
    /\ err \in {"0", "EINVAL", "ENOMEM", "errno"}
    /\ wanted \subseteq Address /\ nomem \in BOOLEAN

Init ==
    /\ initialized = TRUE
    /\ resolver_state = "NONE"
    /\ addr = Unset /\ port = 0
    /\ addrinfo = NoList /\ cur = 0
    /\ text = Unset
    /\ heap = {} /\ err = "0" /\ wanted = {} /\ nomem = FALSE

rudp_address_init ==
    /\ ~ initialized /\ initialized' = TRUE
    /\ resolver_state' = "NONE"
    /\ addr' = Unset /\ port' = 0
    /\ addrinfo' = NoList /\ cur' = 0
    /\ text' = Unset
    /\ wanted' = {} /\ nomem' = FALSE
    /\ UNCHANGED <<heap, err>>

(* The list is freed in state DONE only; addrinfo and cur keep their value. *)
rudp_address_deinit ==
    /\ initialized /\ initialized' = FALSE
    /\ heap' = IF resolver_state = "DONE" THEN heap \ {addrinfo} ELSE heap
    /\ resolver_state' = "NONE"
    /\ text' = Unset
    /\ UNCHANGED <<addr, port, addrinfo, cur, err, history>>

(* Mutant: the cached text is not cleared. *)
rudp_address_set_KeepsText(a) ==
    /\ initialized
    /\ resolver_state' = "ADDR"
    /\ addr' = a /\ port' = a.port
    /\ wanted' = {a} /\ nomem' = FALSE
    /\ UNCHANGED <<initialized, addrinfo, cur, text, heap, err>>

(* Mutant: a resolved address stays in state DONE. *)
rudp_address_set_KeepsState(a) ==
    /\ initialized
    /\ resolver_state' = IF resolver_state = "DONE" THEN "DONE" ELSE "ADDR"
    /\ addr' = a /\ port' = a.port
    /\ text' = Unset
    /\ wanted' = {a} /\ nomem' = FALSE
    /\ UNCHANGED <<initialized, addrinfo, cur, heap, err>>

(* rudp_address_set for a supported family, rudp_address_set_ipv4 and      *)
(* rudp_address_set_ipv6; for another family nothing changes.              *)
rudp_address_set(a) ==
    /\ initialized
    /\ resolver_state' = "ADDR"
    /\ addr' = a /\ port' = a.port
    /\ text' = Unset
    /\ wanted' = {a} /\ nomem' = FALSE
    /\ UNCHANGED <<initialized, addrinfo, cur, heap, err>>

(* rudp_address_next: the host after position i, the first one at the end. *)
Following(i, hosts) == IF i = 0 \/ i = Len(hosts) THEN 1 ELSE i + 1

(* The entry is copied and given the port. *)
Taken(i, hosts, p) == [host |-> hosts[i], port |-> p]

rudp_address_next ==
    /\ initialized
    /\ resolver_state = "DONE"
    /\ cur' = Following(cur, addrinfo.hosts)
    /\ addr' = Taken(cur', addrinfo.hosts, port)
    /\ text' = Unset
    /\ UNCHANGED <<initialized, resolver_state, port, addrinfo, heap, err,
                   history>>

(* In any other state it only forgets the text. *)
NextElsewhere ==
    /\ initialized
    /\ resolver_state # "DONE"
    /\ text' = Unset
    /\ UNCHANGED <<initialized, resolver_state, addr, port, addrinfo, cur,
                   heap, err, history>>

-----------------------------------------------------------------------------
(* rudp_address_set_hostname *)

NullHostname ==
    /\ initialized
    /\ text' = Unset /\ err' = "EINVAL"
    /\ UNCHANGED <<initialized, resolver_state, addr, port, addrinfo, cur,
                   heap, history>>

(* The port has been overwritten by then. *)
HostnameNoMemory(p) ==
    /\ initialized
    /\ text' = Unset /\ port' = p /\ err' = "ENOMEM"
    /\ nomem' = TRUE
    /\ UNCHANGED <<initialized, resolver_state, addr, addrinfo, cur, heap,
                   wanted>>

(* Mutant: the failure is returned and the state left as it was. *)
HostnameUnresolved_KeepsState(p) ==
    /\ initialized
    /\ text' = Unset /\ port' = p /\ cur' = 0
    /\ err' \in {"0", "errno"}
    /\ UNCHANGED <<initialized, resolver_state, addr, addrinfo, heap, history>>

(* errno is returned, which getaddrinfo need not set when it fails. *)
HostnameUnresolved(p) ==
    /\ initialized
    /\ text' = Unset /\ port' = p /\ cur' = 0
    /\ resolver_state' = "ERROR"
    /\ err' \in {"0", "errno"}
    /\ UNCHANGED <<initialized, addr, addrinfo, heap, history>>

(* The first host is taken by rudp_address_next. *)
HostnameResolved(p, list) ==
    /\ initialized
    /\ \A l \in heap : l.id # list.id
    /\ heap' = heap \cup {list} /\ addrinfo' = list
    /\ resolver_state' = "DONE"
    /\ port' = p
    /\ cur' = Following(0, list.hosts)
    /\ addr' = Taken(cur', list.hosts, p)
    /\ text' = Unset
    /\ err' = "0"
    /\ wanted' = {[host |-> list.hosts[i], port |-> p] : i \in DOMAIN list.hosts}
    /\ nomem' = FALSE
    /\ UNCHANGED initialized

-----------------------------------------------------------------------------
(* rudp_address_get succeeds in two states. *)
Gettable == initialized /\ resolver_state \in {"ADDR", "DONE"}

(* The text is made from the bytes of addr and from port, and then cached. *)
(* inet_ntop is given the size of the sockaddr, 28 bytes for IPv6, and     *)
(* writes nothing if the text is longer.                                   *)
rudp_address_text ==
    /\ Gettable
    /\ text' = IF text # Unset \/ addr.host \in LongText THEN text
               ELSE [host |-> addr.host, port |-> port]
    /\ UNCHANGED <<initialized, resolver_state, addr, port, addrinfo, cur,
                   heap, err, history>>

Next ==
    \/ rudp_address_init
    \/ rudp_address_deinit
    \/ \E a \in Address : rudp_address_set(a)
    \/ rudp_address_next
    \/ NextElsewhere
    \/ NullHostname
    \/ \E p \in Port :
          \/ HostnameNoMemory(p)
          \/ HostnameUnresolved(p)
          \/ \E list \in List : HostnameResolved(p, list)
    \/ rudp_address_text

Spec == Init /\ [][Next]_vars

-----------------------------------------------------------------------------
(* Properties *)

(* The walk pointer of a resolved address stays inside a list that has not *)
(* been freed, whatever was set, resolved or released before.              *)
WalkInList ==
    initialized /\ resolver_state = "DONE" =>
        addrinfo \in heap /\ cur \in DOMAIN addrinfo.hosts

(* rudp_address_get never answers with an address that the last successful *)
(* call did not ask for, also after walks and failed resolutions.  The one *)
(* exception is a failed strdup, after which the next walk takes the port  *)
(* of the failed call.                                                     *)
GetIsLastSet == Gettable /\ ~ nomem => addr \in wanted

(* A cached text shows the address that rudp_address_get returns; again a  *)
(* failed strdup excepted, after which it shows the port of that call.     *)
TextIsCurrent == Gettable /\ ~ nomem /\ text # Unset => text = addr

=============================================================================
