------------------------------- MODULE SeqNum -------------------------------
(***************************************************************************)
(* The sequence numbers of librudp.  A number is a uint16_t; the code      *)
(* increments it with ++ and compares two of them by storing their         *)
(* difference in an int16_t (src/src/peer.c).  The width is a parameter:   *)
(* Modulus is 2^16 in the code and a small even number under TLC.          *)
(***************************************************************************)
EXTENDS Integers

CONSTANT Modulus

ASSUME ModulusAssumption ==
    /\ Modulus \in Nat
    /\ Modulus >= 8
    /\ Modulus % 2 = 0

SeqNo == 0 .. Modulus - 1

(* Mutant: a missing truncation. *)
Wrap_Untruncated(n) == n

(* Conversion of an integer to uint16_t. *)
Wrap(n) == n % Modulus

(* int16_t delta = a - b : the difference read in two's complement. *)
Delta(a, b) ==
    LET d == (a - b) % Modulus
    IN  IF 2 * d < Modulus THEN d ELSE d - Modulus

=============================================================================
