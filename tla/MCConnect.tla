----------------------------- MODULE MCConnect -----------------------------
(* A player with two memory blocks, as many as a read and a reply take.    *)
EXTENDS Connect

TwoAddrs == 1 .. 2
=============================================================================
