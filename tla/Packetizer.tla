---------------------------- MODULE Packetizer -----------------------------
(***************************************************************************)
(* rxs_packetizer.c: splits one packet of the VP8 encoder into RTP packets *)
(* of at most PayloadSize bytes.  vpx is the C struct of that name; one    *)
(* EmitPacket is one turn of the while loop of rxs_packetizer_wrap, which  *)
(* ends in the on_packet callback with the packet that CurrentPacket       *)
(* describes.                                                              *)
(*                                                                         *)
(* The encoder is asked to output partitions, so one video frame may come  *)
(* as several encoder packets, all but the last flagged as fragments.      *)
(***************************************************************************)
EXTENDS Integers, Sequences

CONSTANTS
  PayloadSize,     \* RXS_RTP_PAYLOAD_SIZE
  NSeqnums,        \* uint16_t seqnum: 65536
  NTimestamps,     \* uint32_t timestamp: 2^32, some 13 hours
  PictureIdMax,    \* 32767
  TicksPerPts      \* 90: pts are milliseconds, RTP runs at 90 kHz

ASSUME PayloadSizeAssumption == PayloadSize \in Nat \ {0}
ASSUME NSeqnumsAssumption == NSeqnums \in Nat \ {0}
ASSUME NTimestampsAssumption == NTimestamps \in Nat \ {0}
ASSUME PictureIdMaxAssumption == PictureIdMax \in Nat \ {0}
ASSUME TicksPerPtsAssumption == TicksPerPts \in Nat \ {0}

VARIABLES vpx, fragment     \* fragment: VPX_FRAME_IS_FRAGMENT of the input

vars == <<vpx, fragment>>

(* What vpx_codec_get_cx_data returns.                                     *)
EncoderPacket ==
  [sz : Nat, pts : Nat, key : BOOLEAN, fragment : BOOLEAN]

Vpx == [frame_len : Nat, frame_dx : Nat, timestamp : 0 .. NTimestamps - 1,
        nonref : {0, 1}, pstart : {0, 1}, marker : {0, 1},
        seqnum : 0 .. NSeqnums - 1,
        picture_id : -(PictureIdMax + 1) .. PictureIdMax]

(* rxs_packetizer_init: both counters start at a random value.             *)
Init(seqnum, picture_id) ==
  /\ vpx = [frame_len |-> 0, frame_dx |-> 0, timestamp |-> 0, nonref |-> 0,
            pstart |-> 0, marker |-> 0,
            seqnum |-> seqnum, picture_id |-> picture_id]
  /\ fragment = FALSE

Idle == vpx.frame_len = 0

(* rxs_packetizer_wrap up to its loop: reset clears all but the counters.  *)
Wrap(pkt) ==
  /\ Idle
  /\ vpx' = [vpx EXCEPT !.frame_len = pkt.sz, !.frame_dx = 0,
                        !.timestamp = (pkt.pts * TicksPerPts) % NTimestamps,
                        !.nonref = IF pkt.key THEN 0 ELSE 1,
                        !.pstart = 1, !.marker = 0]
  /\ fragment' = pkt.fragment

(* packetizer_calc_payload_size *)
FrameSize ==
  IF vpx.frame_len >= PayloadSize THEN PayloadSize ELSE vpx.frame_len

(* Mutation: the last packet of every partition gets the marker.           *)
MarkerPerPartition == IF vpx.frame_len < PayloadSize THEN 1 ELSE 0

(* The marker needs a payload shorter than PayloadSize.                    *)
Marker == IF vpx.frame_len < PayloadSize /\ ~fragment THEN 1 ELSE 0

(* packetizer_wrap_rtp and packetizer_wrap_vp8: what the packet says.  The *)
(* id is an int16_t of which 15 bits are written; it starts at random and  *)
(* may be negative.                                                        *)
CurrentPacket ==
  [seqnum |-> vpx.seqnum, timestamp |-> vpx.timestamp, marker |-> Marker,
   nonref |-> vpx.nonref, pstart |-> vpx.pstart,
   picture_id |-> vpx.picture_id % (PictureIdMax + 1),
   from |-> vpx.frame_dx, nbytes |-> FrameSize]

(* Mutation: the picture id is never taken back to 0.                      *)
NextIdUnbounded == vpx.picture_id

(* packetizer_wrap_vp8 falls back to 0 as soon as it has written the       *)
(* highest id, before the frame is over.                                   *)
NextId == IF vpx.picture_id = PictureIdMax THEN 0 ELSE vpx.picture_id

(* Mutation: pstart stays set after the first packet of a partition.       *)
EmitPacketKeepsStart ==
  /\ ~Idle
  /\ vpx' = [vpx EXCEPT !.marker = Marker,
                        !.frame_dx = @ + FrameSize,
                        !.frame_len = @ - FrameSize,
                        !.seqnum = (@ + 1) % NSeqnums,
                        !.picture_id = NextId + Marker]
  /\ UNCHANGED fragment

EmitPacket ==
  /\ ~Idle
  /\ vpx' = [vpx EXCEPT !.marker = Marker,
                        !.frame_dx = @ + FrameSize,
                        !.frame_len = @ - FrameSize,
                        !.pstart = 0,
                        !.seqnum = (@ + 1) % NSeqnums,
                        !.picture_id = NextId + Marker]
  /\ UNCHANGED fragment
=============================================================================
