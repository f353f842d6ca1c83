---------------------------- MODULE RudpChannel ----------------------------
(***************************************************************************)
(* What one session promises the two applications: no peers, no packets,   *)
(* no network.  Each application submits reliable payloads, and receives   *)
(* payloads until its end of the session is over.                          *)
(*                                                                         *)
(* A payload is known by its place: pos counts the reliable packets of its *)
(* sender, useq the unreliable ones since the last of them.  Reliable      *)
(* payloads have useq 0; their numbers may have gaps, as the library's own *)
(* reliable packets are counted too.                                       *)
(***************************************************************************)
EXTENDS Integers, Sequences

CONSTANTS
    Client, Server,
    Pos, Useq       \* the numbers that may occur

Side == {Client, Server}

Other(x) == IF x = Client THEN Server ELSE Client

VARIABLES
    life,   \* life[x]: whether x's end of the session exists
    sent,   \* sent[x]: the reliable payloads that x submitted
    log     \* log[x]: what was delivered to x, in order

vars == <<life, sent, log>>

Init ==
    /\ life = [x \in Side |-> IF x = Client THEN "live" ELSE "unborn"]
    /\ sent = [x \in Side |-> {}]
    /\ log = [x \in Side |-> << >>]

Earlier(d, e) == d.pos < e.pos \/ (d.pos = e.pos /\ d.useq < e.useq)

Has(x, a) == \E i \in DOMAIN log[x] : log[x][i] = [pos |-> a, useq |-> 0]

(* The server's end comes into being. *)
Open ==
    /\ life[Server] = "unborn"
    /\ life' = [life EXCEPT ![Server] = "live"]
    /\ UNCHANGED <<sent, log>>

(* k comes after all that x submitted before. *)
Submitted(x) ==
    \E k \in Pos :
        /\ sent' = [sent EXCEPT ![x] = @ \cup {k}]
        /\ \A a \in sent[x] : a < k

Submit(x) ==
    /\ life[x] = "live"
    /\ Submitted(x)
    /\ UNCHANGED <<life, log>>

(* d is later than all that x has, and no reliable payload is left out. *)
Fits(x, d) ==
    /\ \A i \in DOMAIN log[x] : Earlier(log[x][i], d)
    /\ \A a \in sent[Other(x)] :
          Earlier([pos |-> a, useq |-> 0], d) => Has(x, a)
    /\ d.useq = 0 => d.pos \in sent[Other(x)]

(* x may submit a payload while it is given d. *)
Deliver(x) ==
    /\ life[x] = "live"
    /\ log'[x] # log[x]
    /\ \E d \in [pos : Pos, useq : Useq] :
          /\ log' = [log EXCEPT ![x] = Append(@, d)]
          /\ Fits(x, d)
    /\ UNCHANGED sent \/ Submitted(x)
    /\ UNCHANGED life

(* The server sees its client leave only with everything delivered. *)
End(x) ==
    /\ life[x] = "live"
    /\ \/ life' = [life EXCEPT ![x] = "lost"]
       \/ life' = [life EXCEPT ![x] = "closed"]
       \/ /\ life' = [life EXCEPT ![x] = "left"]
          /\ x = Server /\ life[Client] = "closed"
          /\ \A a \in sent[Client] : Has(Server, a)
    /\ UNCHANGED <<sent, log>>

Next == Open \/ \E x \in Side : Submit(x) \/ Deliver(x) \/ End(x)

Spec == Init /\ [][Next]_vars

=============================================================================
