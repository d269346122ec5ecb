-------------------------- MODULE MCBitStreamBuffer --------------------------
(* BitStreamBuffer with a stack of two bytes: streams shorter than it, as     *)
(* long and longer, and writes that are a bit, a byte and more than the stack.*)
EXTENDS BitStreamBuffer

MCLengths == {0, 1, 2, 3}
MCWrites == {1, 8, 20}
=============================================================================
