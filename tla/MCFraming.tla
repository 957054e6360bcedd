------------------------------ MODULE MCFraming ------------------------------
(* A small instance of Framing: bytes of three bits.  One frame has a prefix in its    *)
(* body, and its sum is a prefix too; the other has none but the first byte.           *)
EXTENDS Framing

CONSTANT none

F(c, h, l, b) == [cmd |-> c, len |-> Len(b), hi |-> h, lo |-> l, body |-> b]
MCFrames == {F(6, 0, 0, <<7, 0>>), F(2, 1, 0, <<0>>)}
=============================================================================
