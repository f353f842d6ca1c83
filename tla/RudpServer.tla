----------------------------- MODULE RudpServer -----------------------------
(***************************************************************************)
(* A server and its peers (src/src/server.c): which peers exist, what the  *)
(* application has been told of them, and what memory the library touches. *)
(* What the packets of one peer say is the subject of RudpLink, and when   *)
(* its timer runs that of RudpTimer; here a packet is only what it makes   *)
(* the server do.                                                          *)
(*                                                                         *)
(* A peer is a block of memory that is allocated, freed and used again.    *)
(* The library calls the application in the middle of its functions, and   *)
(* the application may call back into the library: frame is the library    *)
(* function that waits for its callback to return.                         *)
(***************************************************************************)
EXTENDS Sequences, FiniteSets, Naturals, RudpEndpoint

CONSTANTS
    Block,      \* the memory blocks that may hold a peer
    Addr,       \* the addresses of clients
    Data,       \* the user data the application stores
    MayClose,   \* the calls inside which the application closes other peers
    NULL

Call == {"idle", "packet", "new", "left", "expired", "shutdown"}

ASSUME ServerAssumption == MayClose \subseteq Call /\ NULL \notin Block

VARIABLES
    endpoint,
    peer_list,
    live,       \* the blocks that are allocated
    address,    \* address[b]: peer->address
    user_data,  \* user_data[b], which outlives the allocation of b
    timers,     \* the blocks whose service_source is in the event loop
    frame,      \* the library call that waits for a callback
    known,      \* the peers that the application holds a pointer to
    stored,     \* history: the known peers whose data was set
    misuse      \* history: where the library touched a block that was freed

vars == <<endpoint, peer_list, live, address, user_data, timers, frame,
          known, stored, misuse>>

(* tmp is the cursor of rudp_list_for_each_safe; NULL is the list's head. *)
Frame == [call : Call, peer : Block \cup {NULL}, tmp : Block \cup {NULL}]

Idle == [call |-> "idle", peer |-> NULL, tmp |-> NULL]

In(call, b) == [call |-> call, peer |-> b, tmp |-> NULL]

Site == {"lookup", "send_all", "send", "timer", "return", "shutdown", "log",
         "free"}

TypeOK ==
    /\ endpoint \in Endpoint
    /\ peer_list \in Seq(Block)
    /\ live \subseteq Block /\ timers \subseteq Block
    /\ known \subseteq Block /\ stored \subseteq Block
    /\ address \in [Block -> Addr \cup {NULL}]
    /\ user_data \in [Block -> Data \cup {NULL}]
    /\ frame \in Frame
    /\ misuse \subseteq Site

(* rudp_server_init; before it, memory holds anything. *)
Init ==
    /\ endpoint = rudp_endpoint_init
    /\ peer_list = << >>
    /\ live = {} /\ timers = {} /\ known = {} /\ stored = {} /\ misuse = {}
    /\ address = [b \in Block |-> NULL]
    /\ user_data \in [Block -> Data \cup {NULL}]
    /\ frame = Idle

-----------------------------------------------------------------------------
Listed == {peer_list[i] : i \in DOMAIN peer_list}

(* The blocks in B are used at a place of the code. *)
Touch(B, site) ==
    misuse' = misuse \cup (IF B \subseteq live THEN {} ELSE {site})

(* The element after b; a block that was unlinked leads nowhere. *)
Following(b) ==
    LET after == {i \in DOMAIN peer_list : i > 1 /\ peer_list[i - 1] = b}
    IN  IF after = {} THEN NULL ELSE peer_list[CHOOSE i \in after : TRUE]

(* rudp_list_remove: the neighbours of b are linked to each other. *)
Unlinked(b) ==
    LET i == CHOOSE j \in DOMAIN peer_list : peer_list[j] = b
    IN  IF b \in Listed
          THEN SubSeq(peer_list, 1, i - 1)
                 \o SubSeq(peer_list, i + 1, Len(peer_list))
          ELSE peer_list

(* Mutant: the timer stays in the event loop. *)
server_peer_forget_Armed(b) ==
    /\ peer_list' = Unlinked(b)
    /\ live' = live \ {b}
    /\ UNCHANGED timers

(* rudp_peer_deinit removes the timer. *)
server_peer_forget(b) ==
    /\ peer_list' = Unlinked(b)
    /\ timers' = timers \ {b}
    /\ live' = live \ {b}

(* The peer b is no longer of the application's concern. *)
Forgotten(b) == known' = known \ {b} /\ stored' = stored \ {b}

-----------------------------------------------------------------------------
(* rudp_server_bind *)
Bind ==
    /\ frame = Idle /\ endpoint.source /\ ~ endpoint.fd
    /\ endpoint' \in rudp_endpoint_bind(endpoint)
    /\ UNCHANGED <<peer_list, live, address, user_data, timers, frame, known,
                   stored, misuse>>

-----------------------------------------------------------------------------
(* server_handle_endpoint_packet for a packet that comes from a *)

Incoming == frame = Idle /\ Readable(endpoint)

(* Mutant: the list is not searched. *)
rudp_server_peer_lookup_Not(a) == NULL

rudp_server_peer_lookup(a) ==
    LET hits == {i \in DOMAIN peer_list : address[peer_list[i]] = a}
    IN  IF hits = {} THEN NULL
        ELSE peer_list[CHOOSE i \in hits : \A j \in hits : i <= j]

(* Mutant: user_data keeps what the memory held before. *)
server_peer_new_OldData(b, a) ==
    /\ address' = [address EXCEPT ![b] = a]
    /\ UNCHANGED user_data

(* server_peer_new on the block b that rudp_alloc found. *)
server_peer_new(b, a) ==
    /\ address' = [address EXCEPT ![b] = a]
    /\ user_data' = [user_data EXCEPT ![b] = NULL]

(* Mutant: the timer of a new peer is not armed. *)
Accept_Unarmed(a) ==
    /\ Incoming /\ rudp_server_peer_lookup(a) = NULL
    /\ \E b \in Block \ live :
          /\ server_peer_new(b, a)
          /\ live' = live \cup {b}
          /\ peer_list' = <<b>> \o peer_list
          /\ known' = known \cup {b}
          /\ frame' = In("new", b)
    /\ Touch(Listed, "lookup")
    /\ UNCHANGED <<endpoint, stored, timers>>

(* A CONN_REQ from an unknown address; any other packet is garbage.  The   *)
(* peer is listed, its timer armed, and it has answered before peer_new.   *)
Accept(a) ==
    /\ Incoming /\ rudp_server_peer_lookup(a) = NULL
    /\ \E b \in Block \ live :
          /\ server_peer_new(b, a)
          /\ live' = live \cup {b}
          /\ peer_list' = <<b>> \o peer_list
          /\ timers' = timers \cup {b}
          /\ known' = known \cup {b}
          /\ frame' = In("new", b)
    /\ Touch(Listed, "lookup")
    /\ UNCHANGED <<endpoint, stored>>

(* Mutant: the peer is kept although peer_new was not called. *)
Refuse_Keeps(a) ==
    /\ Incoming /\ rudp_server_peer_lookup(a) = NULL
    /\ \E b \in Block \ live :
          /\ server_peer_new(b, a)
          /\ live' = live \cup {b}
          /\ peer_list' = <<b>> \o peer_list
          /\ timers' = timers \cup {b}
    /\ Touch(Listed, "lookup")
    /\ UNCHANGED <<endpoint, frame, known, stored>>

(* The CONN_REQ carries an ACK that is broken for the new peer, which is   *)
(* forgotten at once: only the memory it was made in has changed.          *)
Refuse(a) ==
    /\ Incoming /\ rudp_server_peer_lookup(a) = NULL
    /\ \E b \in Block \ live : server_peer_new(b, a)
    /\ Touch(Listed, "lookup")
    /\ UNCHANGED <<endpoint, peer_list, live, timers, frame, known, stored>>

(* For a known peer, rudp_peer_incoming_packet: a payload in sequence is   *)
(* handed to the application, ...                                          *)
Deliver(a) ==
    LET b == rudp_server_peer_lookup(a) IN
    /\ Incoming /\ b # NULL
    /\ frame' = In("packet", b)
    /\ Touch(Listed, "lookup")
    /\ UNCHANGED <<endpoint, peer_list, live, address, user_data, timers,
                   known, stored>>

(* ... a CLOSE in sequence drops the peer (server_peer_dropped), ...       *)
Leave(a) ==
    LET b == rudp_server_peer_lookup(a) IN
    /\ Incoming /\ b # NULL
    /\ frame' = In("left", b)
    /\ Touch(Listed, "lookup")
    /\ UNCHANGED <<endpoint, peer_list, live, address, user_data, timers,
                   known, stored>>

(* ... and every other one ends with peer_service_schedule.                *)
Absorb(a) ==
    LET b == rudp_server_peer_lookup(a) IN
    /\ Incoming /\ b # NULL
    /\ timers' = timers \cup {b}
    /\ Touch(Listed, "lookup")
    /\ UNCHANGED <<endpoint, peer_list, live, address, user_data, frame,
                   known, stored>>

FromNetwork ==
    \E a \in Addr : Accept(a) \/ Refuse(a) \/ Deliver(a) \/ Leave(a) \/ Absorb(a)

-----------------------------------------------------------------------------
(* peer_service: the ELA_EVENT_ONCE timer of b has fired. *)

(* It transmits what is queued, or pings, and arms the timer again. *)
Serve(b) ==
    /\ frame = Idle /\ b \in timers
    /\ Touch({b}, "timer")
    /\ UNCHANGED <<endpoint, peer_list, live, address, user_data, timers,
                   frame, known, stored>>

(* Mutant: the peer is forgotten before peer_dropped is called. *)
Expire_FreesFirst(b) ==
    /\ frame = Idle /\ b \in timers
    /\ server_peer_forget(b)
    /\ frame' = In("expired", b)
    /\ Touch({b}, "timer")
    /\ UNCHANGED <<endpoint, address, user_data, known, stored>>

(* The deadline has passed: server_peer_dropped. *)
Expire(b) ==
    /\ frame = Idle /\ b \in timers
    /\ timers' = timers \ {b}
    /\ frame' = In("expired", b)
    /\ Touch({b}, "timer")
    /\ UNCHANGED <<endpoint, peer_list, live, address, user_data, known,
                   stored>>

-----------------------------------------------------------------------------
(* What the application does: outside and, where frame is not Idle, inside *)
(* a callback.                                                             *)

rudp_server_send(b) ==
    /\ b \in known
    /\ timers' = timers \cup {b}
    /\ Touch({b}, "send")
    /\ UNCHANGED <<endpoint, peer_list, live, address, user_data, frame,
                   known, stored>>

rudp_server_send_all ==
    /\ endpoint.source
    /\ timers' = timers \cup Listed
    /\ Touch(Listed, "send_all")
    /\ UNCHANGED <<endpoint, peer_list, live, address, user_data, frame,
                   known, stored>>

rudp_server_peer_data_set(b) ==
    /\ b \in known
    /\ \E d \in Data : user_data' = [user_data EXCEPT ![b] = d]
    /\ stored' = stored \cup {b}
    /\ Touch({b}, "send")
    /\ UNCHANGED <<endpoint, peer_list, live, address, timers, frame, known>>

(* Outside the callbacks and in peer_new, any peer; in the other callbacks *)
(* any but the one the callback is about.                                  *)
rudp_server_client_close(b) ==
    /\ b \in known
    /\ frame.call \in MayClose
    /\ frame.call \notin {"idle", "new"} => b # frame.peer
    /\ server_peer_forget(b)
    /\ Forgotten(b)
    /\ Touch({b}, "free")
    /\ UNCHANGED <<endpoint, address, user_data, frame>>

(* rudp_server_close: the first peer_dropped, if there is a peer. *)
rudp_server_close ==
    /\ frame.call \in {"idle", "new"} /\ endpoint.fd
    /\ IF peer_list = << >>
         THEN frame' = Idle /\ endpoint' = rudp_endpoint_close(endpoint)
         ELSE /\ frame' = [call |-> "shutdown", peer |-> Head(peer_list),
                           tmp |-> Following(Head(peer_list))]
              /\ UNCHANGED endpoint
    /\ Touch(Listed, "shutdown")
    /\ UNCHANGED <<peer_list, live, address, user_data, timers, known, stored>>

rudp_server_deinit ==
    /\ frame = Idle /\ endpoint.source /\ ~ endpoint.fd
    /\ endpoint' = rudp_endpoint_deinit(endpoint)
    /\ peer_list' = << >>
    /\ UNCHANGED <<live, address, user_data, timers, frame, known, stored,
                   misuse>>

-----------------------------------------------------------------------------
(* The application's callback returns, and the library call goes on. *)

(* handle_packet: an ACK may be posted, and the timer is armed. *)
ReturnFromPacket ==
    /\ frame.call = "packet"
    /\ timers' = timers \cup {frame.peer}
    /\ frame' = Idle
    /\ Touch({frame.peer}, "return")
    /\ UNCHANGED <<endpoint, peer_list, live, address, user_data, known,
                   stored>>

ReturnFromNew ==
    /\ frame.call = "new"
    /\ frame' = Idle
    /\ UNCHANGED <<endpoint, peer_list, live, address, user_data, timers,
                   known, stored, misuse>>

(* peer_dropped: server_peer_dropped frees the peer, and after a CLOSE the *)
(* log statement of rudp_peer_incoming_packet still reads peer->rudp.      *)
ReturnFromDropped ==
    /\ frame.call \in {"left", "expired"}
    /\ server_peer_forget(frame.peer)
    /\ Forgotten(frame.peer)
    /\ frame' = Idle
    /\ misuse' = misuse
         \cup (IF frame.peer \in live THEN {} ELSE {"free"})
         \cup (IF frame.call = "left" THEN {"log"} ELSE {})
    /\ UNCHANGED <<endpoint, address, user_data>>

(* Mutant: only the first peer is dropped. *)
AfterClosed_FirstOnly(tmp) ==
    /\ frame' = Idle /\ endpoint' = rudp_endpoint_close(endpoint)
    /\ Touch({frame.peer}, "free")

(* The loop of rudp_server_close goes on with tmp. *)
AfterClosed(tmp) ==
    /\ IF tmp = NULL
         THEN frame' = Idle /\ endpoint' = rudp_endpoint_close(endpoint)
         ELSE /\ frame' = [frame EXCEPT !.peer = tmp, !.tmp = Following(tmp)]
              /\ UNCHANGED endpoint
    /\ Touch({frame.peer} \cup ({tmp} \ {NULL}), "shutdown")

ReturnFromShutdown ==
    /\ frame.call = "shutdown"
    /\ server_peer_forget(frame.peer)
    /\ Forgotten(frame.peer)
    /\ AfterClosed(frame.tmp)
    /\ UNCHANGED <<address, user_data>>

Return ==
    \/ ReturnFromPacket
    \/ ReturnFromNew
    \/ ReturnFromDropped
    \/ ReturnFromShutdown

-----------------------------------------------------------------------------
Application ==
    \/ Bind
    \/ rudp_server_send_all
    \/ rudp_server_close
    \/ rudp_server_deinit
    \/ \E b \in Block :
          \/ rudp_server_send(b)
          \/ rudp_server_peer_data_set(b)
          \/ rudp_server_client_close(b)

Next ==
    \/ FromNetwork
    \/ \E b \in Block : Serve(b) \/ Expire(b)
    \/ Application
    \/ Return

(***************************************************************************)
(* Callbacks return.  A peer that is no longer called expires, which is    *)
(* SilentPeerIsDropped of RudpTimer; the fairness of Expire matters only   *)
(* where nothing is received or sent any more.                             *)
(***************************************************************************)
Fairness == WF_vars(Return) /\ \A b \in Block : SF_vars(Expire(b))

Spec == Init /\ [][Next]_vars /\ Fairness

-----------------------------------------------------------------------------
(* Properties *)

(* include/rudp/server.h on peer_new: "Handler code may retain pointer     *)
(* references to peer" and "Peer will stay valid until peer_dropped is     *)
(* called", whatever is closed, dropped or allocated meanwhile.            *)
KnownIsValid == known \subseteq live /\ known \subseteq Listed

(* The library never uses the memory of a peer it has freed, neither from  *)
(* the event loop, nor from a list, nor when a callback returns.  The one  *)
(* exception is the log statement after a CLOSE.                           *)
NoUseAfterFree == misuse \subseteq {"log"}

(* Between two library calls the application knows every peer there is:    *)
(* none is created without peer_new, or freed without peer_dropped or      *)
(* rudp_server_client_close.  And a callback is about a peer it knows; in  *)
(* peer_new the application may have closed that peer meanwhile.           *)
KnowsAll ==
    /\ frame = Idle => known = live
    /\ frame.call \notin {"idle", "new"} => frame.peer \in known

(* Packets of a client find one peer: two peers never share an address.    *)
OnePeerPerAddress ==
    \A b, c \in Listed : address[b] = address[c] => b = c

(* include/rudp/server.h on rudp_server_peer_data_get: "the latest user    *)
(* pointer set for this peer (NULL if never set before)", also when the    *)
(* memory belonged to another peer before.                                 *)
DataIsOwn == \A b \in known : b \notin stored => user_data[b] = NULL

(* rudp_server_close drops all peers: nothing of a server that is not      *)
(* bound stays in the event loop.                                          *)
ClosedIsQuiet ==
    frame = Idle /\ ~ endpoint.fd =>
        live = {} /\ timers = {} /\ ~ endpoint.watched

Sending == rudp_server_send_all \/ \E b \in Block : rudp_server_send(b)

(* When nothing is received or sent any more every peer is dropped and its *)
(* memory reclaimed, also that of the peer which a late duplicate of a     *)
(* CONN_REQ has made for a client that is gone.                            *)
SilentClientsAreForgotten ==
    <>[][~ (FromNetwork \/ Sending)]_vars => <>[](live = {} /\ known = {})

=============================================================================
