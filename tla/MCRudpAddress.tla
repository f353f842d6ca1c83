--------------------------- MODULE MCRudpAddress ---------------------------
(* Instances of RudpAddress for TLC. *)
EXTENDS RudpAddress

CONSTANTS h1, h2, h3

(* One host, and three of them. *)
MCAnswer == {<<h1>>, <<h1, h2, h3>>}

=============================================================================
