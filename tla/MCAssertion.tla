---------------------------- MODULE MCAssertion ----------------------------
(* Narrow integers for TLC: int has 2 bits, size_t 3.  The client has a    *)
(* type that becomes int, unsigned int, and both kinds of size_t.          *)
EXTENDS Assertion

Signed(bits)   == [count |-> 2^bits, signed |-> TRUE]
Unsigned(bits) == [count |-> 2^bits, signed |-> FALSE]

Int2     == Signed(2)
Size3    == Unsigned(3)
MCTypes  == {Signed(1), Unsigned(2), Signed(3), Size3}
===========================================================================
