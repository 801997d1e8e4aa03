------------------------------ MODULE MCJitter ------------------------------
(* The jitter buffer alone on a ring of three slots, fed with packets in   *)
(* every order and repetition: numbers from 0, one that is too big for a   *)
(* slot, and in memory the timestamp of another one.                       *)
EXTENDS Jitter

Pkt(s, t, m, n, b) ==
  [seqnum |-> s, timestamp |-> t, marker |-> m, nonref |-> n,
   nbytes |-> b, data |-> s]

MCInputs ==
  {Pkt(0, 1, 0, 0, 1), Pkt(1, 1, 1, 0, 1), Pkt(2, 2, 1, 1, 1),
   Pkt(3, 2, 1, 1, 1), Pkt(4, 3, 1, 1, 2)}

MCData == 0 .. 4

\* Memory that once held something else.  Zeroed memory is in MCStream.
MCGarbage ==
  {[seqnum |-> 3, timestamp |-> 2, marker |-> 0, nonref |-> 1,
    nbytes |-> 0, data |-> NoData]}
=============================================================================
