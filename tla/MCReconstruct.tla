--------------------------- MODULE MCReconstruct ---------------------------
(* Reconstruct on a ring of three slots.  Three frames, the first split over *)
(* two packets, number 4 lost for good, a packet too big for a slot; every *)
(* order and repetition.                                                   *)
EXTENDS Reconstruct

Pkt(s, t, m, n, b) ==
  [seqnum |-> s, timestamp |-> t, marker |-> m, nonref |-> n,
   nbytes |-> b, data |-> s]

MCInputs ==
  {Pkt(1, 1, 0, 0, 1), Pkt(2, 1, 1, 0, 1),
   Pkt(3, 2, 1, 1, 1),
   Pkt(5, 3, 1, 1, 1),
   Pkt(6, 4, 1, 1, 2)}

MCData == 1 .. 6

\* Zeroed memory, and memory that once held something else.
MCGarbage ==
  {[seqnum |-> 0, timestamp |-> 0, marker |-> 0, nonref |-> 0,
    nbytes |-> 0, data |-> NoData],
   [seqnum |-> 4, timestamp |-> 5, marker |-> 0, nonref |-> 1,
    nbytes |-> 0, data |-> NoData]}
=============================================================================
