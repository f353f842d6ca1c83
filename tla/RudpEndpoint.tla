---------------------------- MODULE RudpEndpoint ----------------------------
(***************************************************************************)
(* The socket of a client or a server: struct rudp_endpoint and the        *)
(* functions of src/src/endpoint.c on it.  Every operator takes an         *)
(* endpoint and returns the endpoint, or the set of endpoints, that the C  *)
(* function may leave behind.  What is sent and received is the subject of *)
(* the modules that use this one; the address of the socket is in          *)
(* RudpAddress.                                                            *)
(***************************************************************************)

(* fd: whether socket_fd is a descriptor; source: whether ela_source is    *)
(* allocated; watched: whether the event loop watches it.                  *)
Endpoint == [fd : BOOLEAN, source : BOOLEAN, watched : BOOLEAN]

rudp_endpoint_init == [fd |-> FALSE, source |-> TRUE, watched |-> FALSE]

rudp_endpoint_deinit(e) == [e EXCEPT !.source = FALSE]

rudp_endpoint_close(e) == [e EXCEPT !.fd = FALSE, !.watched = FALSE]

Bound(e) == [e EXCEPT !.fd = TRUE, !.watched = TRUE]

(* The address or socket() fails and nothing has changed yet; or bind() or *)
(* the event loop fails and the socket is closed again.                    *)
BindFailed(e) == {e, rudp_endpoint_close([e EXCEPT !.fd = TRUE])}

rudp_endpoint_bind(e) == {Bound(e)} \cup BindFailed(e)

(* _endpoint_handle_incoming runs when the loop finds the socket readable. *)
Readable(e) == e.watched

=============================================================================
