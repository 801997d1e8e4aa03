---------------------------- MODULE MCController ----------------------------
(* A controller with an input buffer of two bytes.                         *)
EXTENDS Controller

\* None, one that fits, and one that is cut and makes the buffer grow.
MCLengths == {0, 1, 3}
=============================================================================
