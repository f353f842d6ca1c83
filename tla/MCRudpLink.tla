----------------------------- MODULE MCRudpLink -----------------------------
(* Instances of RudpLink for TLC. *)
EXTENDS RudpLinkInv, FiniteSets

CONSTANTS ClientSeq, ServerSeq, ClientIssued, ServerIssued,
          ClientUnreliable, ServerUnreliable,
          MaxPackets    \* bounds the different packets transmitted

Pair(c, s) == [x \in Side |-> IF x = Client THEN c ELSE s]

MCRandomSeq == Pair(ClientSeq, ServerSeq)
MCMaxIssued == Pair(ClientIssued, ServerIssued)
MCMaxUnreliable == Pair(ClientUnreliable, ServerUnreliable)

(* A packet transmitted again counts anew if its ACK has changed. *)
FewPackets == Cardinality(net[Client]) + Cardinality(net[Server]) <= MaxPackets

=============================================================================
