--------------------------------- MODULE Rtp ---------------------------------
(***************************************************************************)
(* The headers in front of a VP8 payload: what packetizer_wrap_rtp and     *)
(* packetizer_wrap_vp8 write for a packet of Packetizer, and what          *)
(* rxs_depacketizer_unwrap makes of a datagram.  Of the payload only its   *)
(* length is looked at.                                                    *)
(***************************************************************************)
EXTENDS Bytes

(* Numbers as wide as a picture id, a sequence number and a timestamp.     *)
U15 == {v \in Nat : v < 32768}
U16 == {v \in Nat : v < 65536}
U32 == {v \in Nat : v \div 65536 < 65536}

CONSTANT Ssrc     \* a random number, the same in all packets of a program

ASSUME SsrcAssumption == Ssrc \in U32

(* packetizer_wrap_rtp: version 2, no padding, extension or CSRC; payload  *)
(* type 98.  packetizer_wrap_vp8: the extension (X) says that a picture id *)
(* follows (I), and the M bit that it takes two bytes.  pid is the index   *)
(* of the partition.  The byte with the I bit is only ever or-ed into:     *)
(* it is that bit alone because the rxs_packetizer of each program is a    *)
(* global, zero at first, and nothing else is written at this offset.      *)
Wrapped(pkt, pid) ==
  << 2 * 64, 128 * pkt.marker + 98, Hi(pkt.seqnum), Lo(pkt.seqnum),
     Hi(Hi16(pkt.timestamp)), Lo(Hi16(pkt.timestamp)),
     Hi(Lo16(pkt.timestamp)), Lo(Lo16(pkt.timestamp)),
     Hi(Hi16(Ssrc)), Lo(Hi16(Ssrc)), Hi(Lo16(Ssrc)), Lo(Lo16(Ssrc)),
     128 + 32 * pkt.nonref + 16 * pkt.pstart + (pid % 8), 128,
     128 + (Hi(pkt.picture_id) % 128), Lo(pkt.picture_id) >>

-----------------------------------------------------------------------------
(* depacketizer_unwrap_rtp returns an error for fewer bytes than its       *)
(* header has, and ends the program if there are CSRCs.                    *)
Understood(d, nbytes) == nbytes >= 12 /\ d[1] % 16 = 0

Extension(d) == IF Bit(d[13], 128) = 1 THEN d[14] ELSE 0

Descriptor(d) == 13 + Bit(d[13], 128)   \* index of its last byte so far

(* The M bit, looked at if there is a picture id.                          *)
LongPictureId(d) ==
  Bit(Extension(d), 128) = 1 /\ Bit(d[Descriptor(d) + 1], 128) = 1

(* Mutation: the second byte of a long id is not counted off.              *)
HeaderLenShort(d) ==
  Descriptor(d)
    + Bit(Extension(d), 128)
    + Bit(Extension(d), 64)
    + (IF Bit(Extension(d), 32) = 1 \/ Bit(Extension(d), 16) = 1 THEN 1 ELSE 0)

(* depacketizer_unwrap_vp8 counts the optional fields off, whatever there  *)
(* is left: PictureID, TL0PICIDX, and TID with KEYIDX.                     *)
HeaderLen(d) ==
  Descriptor(d)
    + Bit(Extension(d), 128) + (IF LongPictureId(d) THEN 1 ELSE 0)
    + Bit(Extension(d), 64)
    + (IF Bit(Extension(d), 32) = 1 \/ Bit(Extension(d), 16) = 1 THEN 1 ELSE 0)

(* The fields, as the packetizer names them (nonref is N, pstart is S),    *)
(* of the datagram d of nbytes bytes.  len may become negative.            *)
Unwrapped(d, nbytes) ==
  [seqnum |-> Read16(d, 3), timestamp |-> Read32(d, 5),
   marker |-> Bit(d[2], 128),
   nonref |-> Bit(d[13], 32), pstart |-> Bit(d[13], 16),
   picture_id |-> IF LongPictureId(d) THEN Read16(d, Descriptor(d) + 1) % 32768
                                      ELSE 0,
   len |-> nbytes - HeaderLen(d)]

(* What a receiver may make of a packet, here of the first partition.      *)
Received(pkt) ==
  {Unwrapped(d, Len(d) + pkt.nbytes) : d \in {Wrapped(pkt, 0)}}

-----------------------------------------------------------------------------
(* Packets whose fields fit into the headers.                              *)
WirePacket ==
  [seqnum : U16, timestamp : U32,
   marker : {0, 1}, nonref : {0, 1}, pstart : {0, 1},
   picture_id : U15, from : Nat, nbytes : Nat]

(* The depacketizer finds in a datagram what the packetizer put into it:   *)
(* every field, whatever its value and that of the ones next to it, and    *)
(* the payload with its exact length.                                      *)
Agreement(pkt, pid) ==
  LET d == Wrapped(pkt, pid)
      dep == Unwrapped(d, Len(d) + pkt.nbytes)
  IN  /\ d \in Seq(Byte) /\ Understood(d, Len(d) + pkt.nbytes)
      /\ dep.len = pkt.nbytes
      /\ \A field \in DOMAIN dep \ {"len"} : dep[field] = pkt[field]
=============================================================================
