------------------------------ MODULE MCWebcam ------------------------------
(* A streamer whose counters are about to wrap around.                     *)
EXTENDS Webcam

\* A packet, or a partition of its own in front of a frame of two packets; the
\* last one never fills its last packet exactly.
MCLayouts == {<<2>>, <<2, 4>>}

\* The last one may.
FullLayouts == {<<1>>, <<3>>}

\* Negative, as rand() may leave it, and close to the highest one.
MCStartIds == {-1, 32766}
=============================================================================
