-------------------------- MODULE MCHandleAllocator -------------------------
(* A handle space of ten for TLC: two literals, six handles to mint.         *)
EXTENDS HandleAllocator

TwoLiterals == {1, 2}
=============================================================================
