------------------------------ MODULE MCStream ------------------------------
(* The video path with a ring of four slots, frames of one or two packets. *)
EXTENDS Stream

\* One packet, or a partition of its own in front.
MCLayouts == {<<1>>, <<2, 1>>}

MCData == 1 .. 2 * MaxFrames

OnePacket == {<<1>>}

\* Zeroed memory.
MCGarbage ==
  {[seqnum |-> 0, timestamp |-> 0, marker |-> 0, nonref |-> 0,
    nbytes |-> 0, data |-> NoData]}

Setting(r, l, c, s, p) ==
  [reorder |-> r, losses |-> l, copies |-> c, seqnum |-> s, pts |-> p]

\* The first sequence number is 1, or 0.
Lossy == {Setting(FALSE, 2, 0, 1, 0), Setting(FALSE, 1, 0, 0, 0)}

Overtaking == {Setting(TRUE, 0, 0, 1, 0)}

\* The third sequence number is 0.
Wrapping == {Setting(FALSE, 1, 0, NSeqnums - 2, 0)}

\* The third timestamp is 0.
Faulty ==
  {Setting(TRUE, 1, 0, 0, 0), Setting(FALSE, 1, 1, 1, 0),
   Setting(FALSE, 1, 0, 1, NTimestamps - 3)} \cup Wrapping

\* Memory that happens to hold a number which packets will carry.
MCStale ==
  {[seqnum |-> 2, timestamp |-> 0, marker |-> 0, nonref |-> 0,
    nbytes |-> 0, data |-> NoData]}
=============================================================================
