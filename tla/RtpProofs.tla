------------------------------ MODULE RtpProofs ------------------------------
(***************************************************************************)
(* What the packetizer writes into the headers of a datagram the           *)
(* depacketizer reads back, for every value of every field: Agreement of   *)
(* Rtp, which HeadersUnderstood of MCWebcam checks for the packets of the  *)
(* video path.                                                             *)
(***************************************************************************)
EXTENDS Rtp, TLAPS

(* The bytes that packetizer_write_u16 writes give the number again.       *)
LEMMA TwoBytes ==
  ASSUME NEW v \in U16
  PROVE  Hi(v) \in Byte /\ Lo(v) \in Byte /\ 256 * Hi(v) + Lo(v) = v
<1>1. v \in Nat /\ v < 65536
  BY SMT DEF U16
<1>2. /\ v \div 256 \in Nat /\ v \div 256 < 256
      /\ v % 256 \in Nat /\ v % 256 < 256
      /\ v = 256 * (v \div 256) + (v % 256)
  BY <1>1, SMT
<1>3. (v \div 256) % 256 = v \div 256
  BY <1>1, <1>2, SMT
<1> QED BY <1>1, <1>2, <1>3, SMT DEF Hi, Lo, Byte

(* The halves that packetizer_write_u32 writes give the number again.      *)
LEMMA TwoHalves ==
  ASSUME NEW v \in U32
  PROVE  Hi16(v) \in U16 /\ Lo16(v) \in U16 /\ 65536 * Hi16(v) + Lo16(v) = v
<1>1. v \in Nat /\ v \div 65536 < 65536
  BY SMT DEF U32
<1>2. v \div 65536 \in Nat /\ v % 65536 \in Nat /\ v % 65536 < 65536
  BY <1>1, SMT
<1>3. 65536 * (v \div 65536) + (v % 65536) = v
  BY <1>1, SMT
<1> QED BY <1>1, <1>2, <1>3, SMT DEF Hi16, Lo16, U16

(* The bits of the two bytes that hold flags: each flag is found where the *)
(* packetizer puts it, whatever the ones next to it are.                   *)
LEMMA Flags ==
  ASSUME NEW n \in {0, 1}, NEW s \in {0, 1}, NEW m \in {0, 1},
         NEW p \in Nat, p < 8
  PROVE  /\ 128 + 32 * n + 16 * s + p \in Byte
         /\ Bit(128 + 32 * n + 16 * s + p, 128) = 1
         /\ Bit(128 + 32 * n + 16 * s + p, 32) = n
         /\ Bit(128 + 32 * n + 16 * s + p, 16) = s
         /\ 128 * m + 98 \in Byte /\ Bit(128 * m + 98, 128) = m
BY SMT DEF Bit, Byte

(* A picture id has 15 bits: the M bit in front of it, and nothing else,   *)
(* is lost when the depacketizer masks it off.                             *)
LEMMA PictureIdBytes ==
  ASSUME NEW v \in U15
  PROVE  /\ 128 + (Hi(v) % 128) \in Byte /\ Lo(v) \in Byte
         /\ Bit(128 + (Hi(v) % 128), 128) = 1
         /\ (256 * (128 + (Hi(v) % 128)) + Lo(v)) % 32768 = v
<1> DEFINE h == Hi(v)
           l == Lo(v)
<1>1. v \in Nat /\ v < 32768
  BY SMT DEF U15
<1>2. v \in U16
  BY <1>1, SMT DEF U16
<1>3. h \in Byte /\ l \in Byte /\ 256 * h + l = v
  BY <1>2, TwoBytes
<1> HIDE DEF h, l
<1>4. h \in Nat /\ l \in Nat /\ h < 128
  BY <1>1, <1>3, SMT DEF Byte
<1>5. h % 128 = h
  BY <1>4, SMT
<1>6. 256 * (128 + h) + l = 32768 + v
  BY <1>3, <1>4, SMT
<1>7. (32768 + v) % 32768 = v
  BY <1>1, SMT
<1>8. Bit(128 + h, 128) = 1 /\ 128 + h \in Byte
  BY <1>4, SMT DEF Bit, Byte
<1> QED BY <1>3, <1>5, <1>6, <1>7, <1>8 DEF h, l

(* What the packetizer writes, the depacketizer reads: all fields of a     *)
(* packet, their neighbours having any value, and the exact length of the  *)
(* payload behind the headers.                                             *)
THEOREM RoundTrip ==
  ASSUME NEW pkt \in WirePacket, NEW pid \in Nat
  PROVE  Agreement(pkt, pid)
<1> DEFINE dgram == Wrapped(pkt, pid)
           dep == Unwrapped(dgram, Len(dgram) + pkt.nbytes)
<1>1. /\ pkt.seqnum \in U16 /\ pkt.timestamp \in U32
      /\ pkt.marker \in {0, 1} /\ pkt.nonref \in {0, 1}
      /\ pkt.pstart \in {0, 1} /\ pkt.picture_id \in U15
      /\ pkt.nbytes \in Nat
  BY SMT DEF WirePacket
<1>2. pid % 8 \in Nat /\ pid % 8 < 8
  BY SMT
<1>3. /\ Len(dgram) = 16
      /\ dgram[1] = 128 /\ dgram[2] = 128 * pkt.marker + 98
      /\ dgram[3] = Hi(pkt.seqnum) /\ dgram[4] = Lo(pkt.seqnum)
      /\ dgram[5] = Hi(Hi16(pkt.timestamp))
      /\ dgram[6] = Lo(Hi16(pkt.timestamp))
      /\ dgram[7] = Hi(Lo16(pkt.timestamp))
      /\ dgram[8] = Lo(Lo16(pkt.timestamp))
      /\ dgram[13] = 128 + 32 * pkt.nonref + 16 * pkt.pstart + (pid % 8)
      /\ dgram[14] = 128
      /\ dgram[15] = 128 + (Hi(pkt.picture_id) % 128)
      /\ dgram[16] = Lo(pkt.picture_id)
  BY SMT DEF Wrapped
<1> HIDE DEF dgram
<1>4. Read16(dgram, 3) = pkt.seqnum
  <2>1. 256 * Hi(pkt.seqnum) + Lo(pkt.seqnum) = pkt.seqnum
    BY <1>1, TwoBytes, Zenon
  <2>2. Read16(dgram, 3) = 256 * dgram[3] + dgram[4]
    BY SMT DEF Read16
  <2> QED BY <1>3, <2>1, <2>2
<1>5. Read32(dgram, 5) = pkt.timestamp
  <2>1. /\ Hi16(pkt.timestamp) \in U16 /\ Lo16(pkt.timestamp) \in U16
        /\ 65536 * Hi16(pkt.timestamp) + Lo16(pkt.timestamp) = pkt.timestamp
    BY <1>1, TwoHalves
  <2>2. 256 * dgram[5] + dgram[6] = Hi16(pkt.timestamp)
    BY <1>3, <2>1, TwoBytes
  <2>3. 256 * dgram[7] + dgram[8] = Lo16(pkt.timestamp)
    BY <1>3, <2>1, TwoBytes
  <2>4. /\ Read16(dgram, 5) = 256 * dgram[5] + dgram[6]
        /\ Read16(dgram, 7) = 256 * dgram[7] + dgram[8]
    BY SMT DEF Read16
  <2>5. Read32(dgram, 5) = 65536 * Read16(dgram, 5) + Read16(dgram, 7)
    BY SMT DEF Read32
  <2> QED BY <2>1, <2>2, <2>3, <2>4, <2>5
<1>6. /\ Bit(dgram[2], 128) = pkt.marker
      /\ Bit(dgram[13], 128) = 1 /\ Bit(dgram[13], 32) = pkt.nonref
      /\ Bit(dgram[13], 16) = pkt.pstart
  BY <1>1, <1>2, <1>3, Flags
<1>7. Extension(dgram) = 128 /\ Descriptor(dgram) = 14
  BY <1>3, <1>6, SMT DEF Extension, Descriptor
<1>8. /\ Bit(128, 128) = 1 /\ Bit(128, 64) = 0
      /\ Bit(128, 32) = 0 /\ Bit(128, 16) = 0
  BY SMT DEF Bit
<1>9. /\ LongPictureId(dgram) /\ Read16(dgram, 15) % 32768 = pkt.picture_id
  <2>1. /\ Bit(dgram[15], 128) = 1
        /\ (256 * dgram[15] + dgram[16]) % 32768 = pkt.picture_id
    BY <1>1, <1>3, PictureIdBytes
  <2>2. Descriptor(dgram) + 1 = 15
    BY <1>7, SMT
  <2>3. LongPictureId(dgram)
    BY <1>7, <1>8, <2>1, <2>2, SMT DEF LongPictureId
  <2>4. Read16(dgram, 15) = 256 * dgram[15] + dgram[16]
    BY SMT DEF Read16
  <2> QED BY <2>1, <2>3, <2>4
<1>10. HeaderLen(dgram) = 16
  BY <1>7, <1>8, <1>9, SMT DEF HeaderLen
<1>11. Understood(dgram, Len(dgram) + pkt.nbytes)
  BY <1>1, <1>3, SMT DEF Understood
<1>12. dgram \in Seq(Byte)
  <2>1. /\ 128 \in Byte /\ 128 * pkt.marker + 98 \in Byte
        /\ 128 + 32 * pkt.nonref + 16 * pkt.pstart + (pid % 8) \in Byte
    BY <1>1, <1>2, Flags, SMT DEF Byte
  <2>2. /\ Hi(pkt.seqnum) \in Byte /\ Lo(pkt.seqnum) \in Byte
        /\ 128 + (Hi(pkt.picture_id) % 128) \in Byte
        /\ Lo(pkt.picture_id) \in Byte
    BY <1>1, TwoBytes, PictureIdBytes
  <2>3. \A v \in U32 : /\ Hi(Hi16(v)) \in Byte /\ Lo(Hi16(v)) \in Byte
                      /\ Hi(Lo16(v)) \in Byte /\ Lo(Lo16(v)) \in Byte
    BY TwoHalves, TwoBytes
  <2>4. 2 * 64 \in Byte
    BY <2>1, SMT
  <2>5. Wrapped(pkt, pid) \in Seq(Byte)
    BY <1>1, <2>1, <2>2, <2>3, <2>4, SsrcAssumption, SMT DEF Wrapped
  <2> QED BY <2>5 DEF dgram
<1>13. /\ dep.len = pkt.nbytes
       /\ \A field \in DOMAIN dep \ {"len"} : dep[field] = pkt[field]
  <2>1. /\ DOMAIN dep = {"seqnum", "timestamp", "marker", "nonref", "pstart",
                         "picture_id", "len"}
        /\ dep.seqnum = Read16(dgram, 3) /\ dep.timestamp = Read32(dgram, 5)
        /\ dep.marker = Bit(dgram[2], 128) /\ dep.nonref = Bit(dgram[13], 32)
        /\ dep.pstart = Bit(dgram[13], 16)
    BY SMT DEF Unwrapped
  <2>2. dep.picture_id = IF LongPictureId(dgram)
                         THEN Read16(dgram, Descriptor(dgram) + 1) % 32768
                         ELSE 0
    BY SMT DEF Unwrapped
  <2>3. dep.picture_id = pkt.picture_id
    <3>1. Descriptor(dgram) + 1 = 15
      BY <1>7, SMT
    <3> QED BY <1>9, <2>2, <3>1
  <2>4. dep.len = pkt.nbytes
    BY <1>1, <1>3, <1>10, SMT DEF Unwrapped
  <2> HIDE DEF dep
  <2> QED BY <1>4, <1>5, <1>6, <2>1, <2>3, <2>4, SMT
<1> QED BY <1>11, <1>12, <1>13, Zenon DEF Agreement, dgram, dep
=============================================================================
