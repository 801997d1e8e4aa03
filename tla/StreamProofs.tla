---------------------------- MODULE StreamProofs ----------------------------
(***************************************************************************)
(* Proofs about Stream, for any number and size of frames, rings of any    *)
(* size, counters of any width up to that of their fields, and a network   *)
(* that loses and doubles datagrams and lets them overtake each other.     *)
(*                                                                         *)
(* Inv says what each part of the path keeps for itself: it is enough for  *)
(* the types and the books of the receiver.  Every further theorem adds    *)
(* what it needs: how packets are numbered (Numbered, Rising), cut and     *)
(* marked (Cutting, MarkerEnds), where payloads are (Once, Passing), how   *)
(* playback moves (Dry, Forward), what became of requests (Requests).      *)
(***************************************************************************)
EXTENDS Stream, JitterProofs, RtpProofs, SequenceTheorems, WellFoundedInduction

(* A remainder is below its divisor.                                       *)
LEMMA Remainder ==
  ASSUME NEW a \in Int, NEW n \in Nat \ {0}
  PROVE  a % n \in 0 .. n - 1
BY SMT

(* The types of the constants, one by one.                                 *)
LEMMA ConstantTypes ==
  /\ PayloadSize \in Nat \ {0} /\ NTimestamps \in Nat \ {0}
  /\ PictureIdMax \in Nat \ {0} /\ TicksPerPts \in Nat \ {0}
  /\ NSeqnums \in Nat \ {0} /\ NHistory \in Nat \ {0}
BY StreamAssumption, NSeqnumsAssumption

-----------------------------------------------------------------------------
(* The packetizer *)

Ticks == 0 .. NTimestamps - 1
PictureIds == -(PictureIdMax + 1) .. PictureIdMax

(* The fields of the packetizer struct and their sets.                     *)
LEMMA VpxFields ==
  Tx!Vpx = [frame_len : Nat, frame_dx : Nat, timestamp : Ticks,
            nonref : {0, 1}, pstart : {0, 1}, marker : {0, 1},
            seqnum : Seqnums, picture_id : PictureIds]
BY Zenon DEF Tx!Vpx, Ticks, Seqnums, PictureIds

(* A field of the struct may take any value of its set.                    *)
LEMMA VpxUpdates ==
  ASSUME NEW r \in Tx!Vpx
  PROVE  /\ \A v \in Nat : /\ [r EXCEPT !.frame_len = v] \in Tx!Vpx
                           /\ [r EXCEPT !.frame_dx = v] \in Tx!Vpx
         /\ \A v \in Ticks : [r EXCEPT !.timestamp = v] \in Tx!Vpx
         /\ \A v \in {0, 1} : /\ [r EXCEPT !.nonref = v] \in Tx!Vpx
                              /\ [r EXCEPT !.pstart = v] \in Tx!Vpx
                              /\ [r EXCEPT !.marker = v] \in Tx!Vpx
         /\ \A v \in Seqnums : [r EXCEPT !.seqnum = v] \in Tx!Vpx
         /\ \A v \in PictureIds : [r EXCEPT !.picture_id = v] \in Tx!Vpx
BY VpxFields, SMT

(* A packet that the packetizer describes fits into its headers.           *)
LEMMA CurrentPacketFits ==
  ASSUME vpx \in Tx!Vpx
  PROVE  Tx!CurrentPacket \in WirePacket
<1>1. /\ vpx.frame_len \in Nat /\ vpx.frame_dx \in Nat
      /\ vpx.timestamp \in Ticks
      /\ vpx.nonref \in {0, 1} /\ vpx.pstart \in {0, 1}
      /\ vpx.seqnum \in Seqnums
      /\ vpx.picture_id \in Int
  BY VpxFields, ConstantTypes, SMT DEF PictureIds
<1>2. vpx.seqnum \in U16
  BY <1>1, NSeqnumsAssumption, WidthsAssumption, SMT DEF U16, Seqnums
<1>3. vpx.timestamp \in U32
  BY <1>1, ConstantTypes, WidthsAssumption, SMT DEF U32, Ticks
<1>4. vpx.picture_id % (PictureIdMax + 1) \in U15
  <2>1. PictureIdMax + 1 \in Nat \ {0}
    BY ConstantTypes, SMT
  <2>2. vpx.picture_id % (PictureIdMax + 1) \in 0 .. (PictureIdMax + 1) - 1
    BY <1>1, <2>1, Remainder
  <2> QED BY <2>2, ConstantTypes, WidthsAssumption, SMT DEF U15
<1>5. Tx!Marker \in {0, 1}
  BY DEF Tx!Marker
<1>6. Tx!FrameSize \in Nat
  BY <1>1, ConstantTypes DEF Tx!FrameSize
<1> QED
  BY <1>1, <1>2, <1>3, <1>4, <1>5, <1>6, SMT DEF Tx!CurrentPacket, WirePacket

(* One turn of the loop of rxs_packetizer_wrap.                            *)
LEMMA VpxEmits ==
  ASSUME vpx \in Tx!Vpx, Tx!EmitPacket
  PROVE  /\ vpx' \in Tx!Vpx
         /\ vpx'.seqnum = (vpx.seqnum + 1) % NSeqnums
         /\ vpx'.timestamp = vpx.timestamp /\ vpx'.nonref = vpx.nonref
         /\ Tx!Marker = 1 => vpx'.frame_len = 0 /\ ~fragment
<1> DEFINE n == Tx!FrameSize
           m == Tx!Marker
           seqnum == (vpx.seqnum + 1) % NSeqnums
           id == Tx!NextId + m
<1>1. /\ vpx.frame_len \in Nat /\ vpx.frame_dx \in Nat
      /\ vpx.seqnum \in Seqnums /\ vpx.picture_id \in PictureIds
  BY VpxFields, SMT
<1>2. m \in {0, 1}
  BY DEF Tx!Marker
<1>3. /\ n \in Nat /\ vpx.frame_len - n \in Nat
      /\ vpx.frame_dx + n \in Nat
      /\ m = 1 => vpx.frame_len - n = 0 /\ ~fragment
  BY <1>1, ConstantTypes, SMT DEF Tx!FrameSize, Tx!Marker
<1>4. seqnum \in Seqnums
  <2>1. vpx.seqnum + 1 \in Int
    BY <1>1, NSeqnumsAssumption, SMT DEF Seqnums
  <2> QED BY <2>1, NSeqnumsAssumption, Remainder DEF Seqnums
<1>5. id \in PictureIds
  BY <1>1, <1>2, ConstantTypes, SMT DEF Tx!NextId, PictureIds
<1> DEFINE len == vpx.frame_len - n
           pos == vpx.frame_dx + n
<1>6. vpx' = [vpx EXCEPT !.marker = m, !.frame_dx = pos, !.frame_len = len,
                         !.pstart = 0, !.seqnum = seqnum, !.picture_id = id]
  BY Zenon DEF Tx!EmitPacket
<1> HIDE DEF n, m, seqnum, id, len, pos
<1> DEFINE r1 == [vpx EXCEPT !.marker = m]
           r2 == [r1 EXCEPT !.frame_dx = pos]
           r3 == [r2 EXCEPT !.frame_len = len]
           r4 == [r3 EXCEPT !.pstart = 0]
           r5 == [r4 EXCEPT !.seqnum = seqnum]
           r6 == [r5 EXCEPT !.picture_id = id]
<1>7. vpx' = r6
  BY <1>6, SMT
<1>8. r1 \in Tx!Vpx
  BY <1>2, VpxUpdates
<1>9. r2 \in Tx!Vpx
  BY <1>3, <1>8, VpxUpdates DEF pos
<1>10. r3 \in Tx!Vpx
  BY <1>3, <1>9, VpxUpdates DEF len
<1>11. r4 \in Tx!Vpx
  BY <1>10, VpxUpdates
<1>12. r5 \in Tx!Vpx
  BY <1>4, <1>11, VpxUpdates
<1>13. r6 \in Tx!Vpx
  BY <1>5, <1>12, VpxUpdates
<1>14. /\ vpx'.seqnum = seqnum /\ vpx'.frame_len = len
       /\ vpx'.timestamp = vpx.timestamp /\ vpx'.nonref = vpx.nonref
  BY <1>6, VpxFields, SMT
<1>15. m = 1 => len = 0 /\ ~fragment
  BY <1>3 DEF len
<1> QED BY <1>7, <1>13, <1>14, <1>15, Zenon DEF m, seqnum

(* The struct for a new partition.                                         *)
LEMMA VpxWraps ==
  ASSUME vpx \in Tx!Vpx, NEW sz \in Nat, NEW pts \in Nat, NEW key, NEW frag,
         Tx!Wrap([sz |-> sz, pts |-> pts, key |-> key, fragment |-> frag])
  PROVE  /\ vpx' \in Tx!Vpx /\ fragment' = frag
         /\ vpx'.timestamp = (pts * TicksPerPts) % NTimestamps
         /\ vpx'.nonref = IF key THEN 0 ELSE 1
         /\ vpx'.seqnum = vpx.seqnum
         /\ vpx'.frame_len = sz
<1> DEFINE ticks == (pts * TicksPerPts) % NTimestamps
           nonref == IF key THEN 0 ELSE 1
<1>1. ticks \in Ticks
  <2>1. pts * TicksPerPts \in Int
    BY ConstantTypes, SMT
  <2> QED BY <2>1, ConstantTypes, Remainder DEF Ticks
<1>2. nonref \in {0, 1}
  OBVIOUS
<1>3. vpx' = [vpx EXCEPT !.frame_len = sz, !.frame_dx = 0,
                         !.timestamp = ticks, !.nonref = nonref,
                         !.pstart = 1, !.marker = 0]
      /\ fragment' = frag
  BY DEF Tx!Wrap
<1> HIDE DEF ticks, nonref
<1> DEFINE r1 == [vpx EXCEPT !.frame_len = sz]
           r2 == [r1 EXCEPT !.frame_dx = 0]
           r3 == [r2 EXCEPT !.timestamp = ticks]
           r4 == [r3 EXCEPT !.nonref = nonref]
           r5 == [r4 EXCEPT !.pstart = 1]
           r6 == [r5 EXCEPT !.marker = 0]
<1>4. vpx' = r6
  BY <1>3, SMT
<1>5. r1 \in Tx!Vpx
  BY VpxUpdates
<1>6. r2 \in Tx!Vpx
  BY <1>5, VpxUpdates
<1>7. r3 \in Tx!Vpx
  BY <1>1, <1>6, VpxUpdates
<1>8. r4 \in Tx!Vpx
  BY <1>2, <1>7, VpxUpdates
<1>9. r5 \in Tx!Vpx
  BY <1>8, VpxUpdates
<1>10. r6 \in Tx!Vpx
  BY <1>9, VpxUpdates
<1>11. /\ vpx'.timestamp = ticks /\ vpx'.nonref = nonref
       /\ vpx'.seqnum = vpx.seqnum /\ vpx'.frame_len = sz
  BY <1>3, VpxFields, SMT
<1> QED BY <1>3, <1>4, <1>10, <1>11, Zenon DEF ticks, nonref

-----------------------------------------------------------------------------
(* Rows of datagrams *)

(* What arrives of a row is no longer than the row, and in its order.      *)
LEMMA Selected ==
  ASSUME NEW n \in Nat, NEW s \in Selections(n)
  PROVE  /\ s \in Seq(1 .. n) /\ Len(s) <= n
         /\ \A a, b \in DOMAIN s : a < b => s[a] < s[b]
<1>1. PICK m \in 0 .. n : s \in [1 .. m -> 1 .. n]
  BY DEF Selections
<1>2. s \in Seq(1 .. n) /\ Len(s) = m
  BY <1>1
<1> QED BY <1>2 DEF Selections

(* The datagrams that arrive of a row stay in its order.                   *)
LEMMA Transmitted ==
  ASSUME net \in Seq(Nat), losses \in Nat, setting \in Settings,
         NEW row \in Seq(Nat), Transmit(row)
  PROVE  /\ net' \in Seq(Nat) /\ losses' \in 0 .. setting.losses
         /\ \A a \in DOMAIN net : a \in DOMAIN net' /\ net'[a] = net[a]
         /\ \E kept \in Selections(Len(row)) :
              /\ Len(net') = Len(net) + Len(kept)
              /\ \A b \in DOMAIN kept : net'[Len(net) + b] = row[kept[b]]
<1>1. PICK kept \in Selections(Len(row)) :
        /\ losses' = losses + Len(row) - Len(kept)
        /\ losses' <= setting.losses
        /\ net' = net \o [k \in DOMAIN kept |-> row[kept[k]]]
  BY DEF Transmit
<1>2. Len(row) \in Nat
  OBVIOUS
<1>3. /\ kept \in Seq(1 .. Len(row)) /\ Len(kept) <= Len(row)
      /\ Len(kept) \in Nat /\ DOMAIN kept = 1 .. Len(kept)
  BY <1>2, Selected
<1>4. \A k \in 1 .. Len(kept) : kept[k] \in 1 .. Len(row)
  BY <1>3
<1>5. \A k \in 1 .. Len(kept) : row[kept[k]] \in Nat
  BY <1>4
<1> DEFINE new == [k \in DOMAIN kept |-> row[kept[k]]]
<1>6. new \in Seq(Nat) /\ Len(new) = Len(kept)
  BY <1>3, <1>5
<1>7. \A k \in DOMAIN kept : new[k] = row[kept[k]]
  OBVIOUS
<1> HIDE DEF new
<1>8. net' = net \o new
  BY <1>1 DEF new
<1>9. /\ net' \in Seq(Nat) /\ Len(net') = Len(net) + Len(kept)
      /\ \A a \in 1 .. Len(net) : net'[a] = net[a]
      /\ \A b \in 1 .. Len(kept) : net'[Len(net) + b] = new[b]
  <2>1. /\ net' \in Seq(Nat) /\ Len(net') = Len(net) + Len(new)
        /\ \A i \in 1 .. Len(net) + Len(new) :
             net'[i] = IF i <= Len(net) THEN net[i] ELSE new[i - Len(net)]
    BY <1>6, <1>8, ConcatProperties, Zenon
  <2>2. /\ Len(net) \in Nat /\ Len(kept) \in Nat
    BY <1>3
  <2>3. ASSUME NEW b \in 1 .. Len(kept) PROVE net'[Len(net) + b] = new[b]
    <3>1. /\ Len(net) + b \in 1 .. Len(net) + Len(new)
          /\ ~(Len(net) + b <= Len(net)) /\ Len(net) + b - Len(net) = b
      BY <1>6, <2>2
    <3> QED BY <2>1, <3>1
  <2>4. ASSUME NEW a \in 1 .. Len(net) PROVE net'[a] = net[a]
    BY <1>6, <2>1, <2>2
  <2> QED BY <1>6, <2>1, <2>3, <2>4, Zenon
<1>10. losses' \in 0 .. setting.losses
  <2>1. setting.losses \in Nat
    BY SettingsAssumption
  <2> QED BY <1>1, <1>2, <1>3, <2>1
<1>11. \A a \in DOMAIN net : a \in DOMAIN net' /\ net'[a] = net[a]
  <2>1. /\ Len(net) \in Nat /\ Len(kept) \in Nat
        /\ DOMAIN net = 1 .. Len(net) /\ DOMAIN net' = 1 .. Len(net')
    BY <1>3, <1>9
  <2> QED BY <1>9, <2>1
<1> QED BY <1>1, <1>3, <1>7, <1>9, <1>10, <1>11

(* What is left of a row without one of its entries.                       *)
LEMMA RemovedFacts ==
  ASSUME NEW S, NEW s \in Seq(S), NEW k \in 1 .. Len(s)
  PROVE  /\ RemoveAt(s, k) \in Seq(S)
         /\ Len(RemoveAt(s, k)) = Len(s) - 1
         /\ \A i \in 1 .. Len(s) - 1 :
              RemoveAt(s, k)[i] = IF i < k THEN s[i] ELSE s[i + 1]
<1> DEFINE a == SubSeq(s, 1, k - 1)
           b == SubSeq(s, k + 1, Len(s))
<1>1. Len(s) \in Nat /\ k \in Nat /\ k >= 1 /\ k <= Len(s)
  OBVIOUS
<1>2. \A i \in 1 .. Len(s) : s[i] \in S
  BY <1>1
<1>3. /\ a \in Seq(S) /\ Len(a) = k - 1
      /\ \A i \in 1 .. k - 1 : a[i] = s[i]
  BY <1>1, <1>2, SubSeqProperties
<1>4. /\ b \in Seq(S) /\ Len(b) = Len(s) - k
      /\ \A i \in 1 .. Len(s) - k : b[i] = s[k + i]
  BY <1>1, <1>2, SubSeqProperties
<1> HIDE DEF a, b
<1>5. RemoveAt(s, k) = a \o b
  BY DEF RemoveAt, a, b
<1>6. /\ a \o b \in Seq(S) /\ Len(a \o b) = Len(s) - 1
      /\ \A i \in 1 .. Len(s) - 1 :
           (a \o b)[i] = IF i <= k - 1 THEN a[i] ELSE b[i - (k - 1)]
  BY <1>1, <1>3, <1>4
<1>7. ASSUME NEW i \in 1 .. Len(s) - 1
      PROVE  (a \o b)[i] = IF i < k THEN s[i] ELSE s[i + 1]
  <2>1. CASE i < k
    BY <1>1, <1>3, <1>6, <2>1
  <2>2. CASE ~(i < k)
    <3>1. i - (k - 1) \in 1 .. Len(s) - k /\ k + (i - (k - 1)) = i + 1
      BY <1>1, <2>2
    <3> QED BY <1>1, <1>4, <1>6, <2>2, <3>1
  <2> QED BY <2>1, <2>2
<1> QED BY <1>5, <1>6, <1>7

(* A row with an entry doubled.                                            *)
LEMMA InsertedFacts ==
  ASSUME NEW s \in Seq(Nat), NEW k \in 1 .. Len(s), NEW e \in Nat
  PROVE  /\ InsertAt(s, k, e) \in Seq(Nat)
         /\ Len(InsertAt(s, k, e)) = Len(s) + 1
         /\ \A i \in 1 .. Len(s) + 1 :
              /\ i < k => InsertAt(s, k, e)[i] = s[i]
              /\ i = k => InsertAt(s, k, e)[i] = e
              /\ i > k => InsertAt(s, k, e)[i] = s[i - 1]
<1> DEFINE a == SubSeq(s, 1, k - 1)
           b == SubSeq(s, k, Len(s))
<1>1. Len(s) \in Nat /\ k \in Nat /\ k >= 1 /\ k <= Len(s)
  OBVIOUS
<1>2. \A i \in 1 .. Len(s) : s[i] \in Nat
  BY <1>1
<1>3. /\ a \in Seq(Nat) /\ Len(a) = k - 1
      /\ \A i \in 1 .. k - 1 : a[i] = s[i]
  BY <1>1, <1>2, SubSeqProperties
<1>4. /\ b \in Seq(Nat) /\ Len(b) = Len(s) - k + 1
      /\ \A i \in 1 .. Len(s) - k + 1 : b[i] = s[k + i - 1]
  BY <1>1, <1>2, SubSeqProperties
<1> HIDE DEF a, b
<1> DEFINE c == a \o <<e>>
<1>5. InsertAt(s, k, e) = c \o b
  BY DEF InsertAt, a, b
<1>6. /\ c \in Seq(Nat) /\ Len(c) = k
      /\ \A i \in 1 .. k : c[i] = IF i < k THEN s[i] ELSE e
  BY <1>1, <1>3
<1> HIDE DEF c
<1> DEFINE d == c \o b
<1>7. /\ d \in Seq(Nat) /\ Len(d) = Len(c) + Len(b)
      /\ \A i \in 1 .. Len(c) + Len(b) :
           d[i] = IF i <= Len(c) THEN c[i] ELSE b[i - Len(c)]
  BY <1>4, <1>6, ConcatProperties, Zenon
<1> HIDE DEF d
<1>9. /\ Len(d) = Len(s) + 1
      /\ \A i \in 1 .. Len(s) + 1 : d[i] = IF i <= k THEN c[i] ELSE b[i - k]
  BY <1>1, <1>4, <1>6, <1>7
<1>8. ASSUME NEW i \in 1 .. Len(s) + 1
      PROVE  /\ i < k => d[i] = s[i]
             /\ i = k => d[i] = e
             /\ i > k => d[i] = s[i - 1]
  <2>1. CASE i <= k
    BY <1>1, <1>6, <1>9, <2>1
  <2>2. CASE ~(i <= k)
    <3>1. i - k \in 1 .. Len(s) - k + 1 /\ k + (i - k) - 1 = i - 1
      BY <1>1, <2>2
    <3>2. d[i] = b[i - k]
      BY <1>9, <2>2
    <3>3. b[i - k] = s[i - 1]
      BY <1>4, <3>1
    <3> QED BY <1>1, <2>2, <3>2, <3>3
  <2> QED BY <2>1, <2>2
<1> QED BY <1>5, <1>7, <1>8, <1>9, Zenon DEF d

-----------------------------------------------------------------------------
(* Commands *)

(* The bytes of the numbers in a request.                                  *)
LEMMA WrittenBytes ==
  ASSUME NEW vs \in Seq(U16)
  PROVE  /\ Written(vs) \in Seq(Byte) /\ Len(Written(vs)) = 2 * Len(vs)
         /\ \A k \in 1 .. Len(vs) :
              256 * Written(vs)[2 * k - 1] + Written(vs)[2 * k] = vs[k]
<1>1. \A k \in 1 .. Len(vs) : vs[k] \in U16
  OBVIOUS
<1>2. \A k \in 1 .. Len(vs) : /\ Hi(vs[k]) \in Byte /\ Lo(vs[k]) \in Byte
                              /\ 256 * Hi(vs[k]) + Lo(vs[k]) = vs[k]
  BY <1>1, TwoBytes
<1>3. PICK n \in Nat : n = Len(vs)
  OBVIOUS
<1>4. ASSUME NEW k \in 1 .. 2 * n
      PROVE  (IF k % 2 = 1 THEN Hi(vs[(k + 1) \div 2]) ELSE Lo(vs[k \div 2]))
               \in Byte
  <2>1. CASE k % 2 = 1
    <3>1. (k + 1) \div 2 \in 1 .. n
      BY <2>1
    <3> QED BY <1>2, <1>3, <2>1, <3>1
  <2>2. CASE k % 2 # 1
    <3>1. k \div 2 \in 1 .. n
      BY <2>2
    <3> QED BY <1>2, <1>3, <2>2, <3>1
  <2> QED BY <2>1, <2>2
<1>5. PICK w : w = [k \in 1 .. 2 * n |-> IF k % 2 = 1 THEN Hi(vs[(k + 1) \div 2])
                                                   ELSE Lo(vs[k \div 2])]
  OBVIOUS
<1>6. w = Written(vs)
  BY <1>3, <1>5, Zenon DEF Written
<1>7. w \in Seq(Byte) /\ Len(w) = 2 * n
  BY <1>4, <1>5
<1>8. ASSUME NEW k \in 1 .. n
      PROVE  256 * w[2 * k - 1] + w[2 * k] = vs[k]
  <2>1. 2 * k - 1 \in 1 .. 2 * n /\ 2 * k \in 1 .. 2 * n
    OBVIOUS
  <2>2. /\ (2 * k - 1) % 2 = 1 /\ ((2 * k - 1) + 1) \div 2 = k
        /\ (2 * k) % 2 = 0 /\ (2 * k) \div 2 = k
    OBVIOUS
  <2>3. w[2 * k - 1] = Hi(vs[k]) /\ w[2 * k] = Lo(vs[k])
    BY <1>5, <2>1, <2>2
  <2> QED BY <1>2, <1>3, <2>3
<1> QED BY <1>3, <1>6, <1>7, <1>8

(* Three bytes and the ones that follow them.                              *)
LEMMA Headed ==
  ASSUME NEW a \in Byte, NEW b \in Byte, NEW c \in Byte, NEW t \in Seq(Byte)
  PROVE  /\ <<a, b, c>> \o t \in Seq(Byte) /\ Heard(<<a, b, c>> \o t)
         /\ (<<a, b, c>> \o t)[3] = c
         /\ \A k \in 1 .. Len(t) : (<<a, b, c>> \o t)[k + 3] = t[k]
<1> DEFINE h == <<a, b, c>>
           d == h \o t
<1>1. h \in Seq(Byte) /\ Len(h) = 3 /\ h[3] = c
  BY SMT
<1> HIDE DEF h
<1>2. PICK m \in Nat : m = Len(t)
  OBVIOUS
<1>3. /\ d \in Seq(Byte) /\ Len(d) = Len(h) + Len(t)
      /\ \A i \in 1 .. Len(h) + Len(t) :
           d[i] = IF i <= Len(h) THEN h[i] ELSE t[i - Len(h)]
  BY <1>1, ConcatProperties, Zenon
<1> HIDE DEF d
<1>4. \A i \in 1 .. 3 + m : d[i] = IF i <= 3 THEN h[i] ELSE t[i - 3]
  BY <1>1, <1>2, <1>3, SMT
<1>5. d[3] = c
  BY <1>1, <1>4, SMT
<1>6. ASSUME NEW k \in 1 .. m PROVE d[k + 3] = t[k]
  <2>1. k + 3 \in 1 .. 3 + m /\ ~(k + 3 <= 3) /\ (k + 3) - 3 = k
    BY SMT
  <2> QED BY <1>4, <2>1, SMT
<1>7. Heard(d)
  BY <1>1, <1>2, <1>3, SMT DEF Heard
<1> QED BY <1>2, <1>3, <1>5, <1>6, <1>7, Zenon DEF h, d

(* The sender hears a request and reads from it the numbers that the       *)
(* receiver wrote.                                                         *)
LEMMA RequestRead ==
  ASSUME nr \in U16, NEW vs \in Seq(U16), Len(vs) < ControlMax
  PROVE  /\ PacketsRequest(vs) \in Seq(Byte) /\ Heard(PacketsRequest(vs))
         /\ SeqnumsOf(PacketsRequest(vs)) = [k \in 1 .. Len(vs) |-> vs[k]]
<1>1. PICK n \in Nat : n = Len(vs)
  OBVIOUS
<1>2. n < 15
  BY <1>1, ControlMaxAssumption
<1>3. Hi(nr) \in Byte /\ Lo(nr) \in Byte
  BY TwoBytes
<1> DEFINE tl == Written(vs)
           hd == <<Hi(nr), Lo(nr), 32 + n>>
           d == hd \o tl
<1>4. /\ tl \in Seq(Byte) /\ Len(tl) = 2 * n
      /\ \A k \in 1 .. n : 256 * tl[2 * k - 1] + tl[2 * k] = vs[k]
  BY <1>1, WrittenBytes, Zenon
<1>5. 32 + n \in Byte
  BY <1>2, SMT DEF Byte
<1>6. CommandByte(ResendCommand, n) = 32 + n
  BY <1>2, SMT DEF CommandByte, ResendCommand
<1>7. d = PacketsRequest(vs)
  BY <1>1, <1>6, Zenon DEF PacketsRequest
<1>8. n \in Nat /\ n = Len(vs)
  BY <1>1
<1> HIDE DEF tl
<1>9. /\ d \in Seq(Byte) /\ Heard(d)
      /\ d[3] = 32 + n
      /\ \A k \in 1 .. 2 * n : d[k + 3] = tl[k]
  <2>1. tl \in Seq(Byte)
    BY <1>4
  <2>2. /\ d \in Seq(Byte) /\ Heard(d) /\ d[3] = 32 + n
        /\ \A k \in 1 .. Len(tl) : d[k + 3] = tl[k]
    BY <1>3, <1>5, <2>1, Headed
  <2> QED BY <1>4, <2>2, Zenon
<1> HIDE DEF hd, d
<1>10. d[3] % 16 = n /\ Command(d) = ResendCommand
  BY <1>2, <1>9, SMT DEF Command, ResendCommand
<1>11. SeqnumsOf(d) = [k \in 1 .. n |-> Read16(d, 2 * k + 2)]
  BY <1>10, Zenon DEF SeqnumsOf
<1>12. ASSUME NEW k \in 1 .. n PROVE Read16(d, 2 * k + 2) = vs[k]
  <2>1. 2 * k - 1 \in 1 .. 2 * n /\ 2 * k \in 1 .. 2 * n
    OBVIOUS
  <2>2. /\ (2 * k - 1) + 3 = 2 * k + 2
        /\ 2 * k + 3 = 2 * k + 2 + 1
    OBVIOUS
  <2>3. d[2 * k + 2] = tl[2 * k - 1] /\ d[2 * k + 2 + 1] = tl[2 * k]
    BY <1>9, <2>1, <2>2
  <2> QED BY <1>4, <2>3, SMT DEF Read16
<1>13. SeqnumsOf(d) = [k \in 1 .. n |-> vs[k]]
  BY <1>11, <1>12, Zenon
<1> QED BY <1>7, <1>8, <1>9, <1>13, SMT

-----------------------------------------------------------------------------
(* The invariant, in parts *)

(* The sender.                                                             *)
Sending ==
  /\ setting \in Settings /\ serves \in BOOLEAN
  /\ vpx \in Tx!Vpx
  /\ todo \in Seq(Nat) /\ nframes \in Nat
  /\ hdx \in Hist!Slots
  /\ sent \in Seq(WirePacket)
  /\ \A i \in DOMAIN sent : i \in Data /\ sent[i].seqnum \in Seqnums

(* What the history of the sender has under a number carries that number.  *)
Remembering ==
  /\ history \in [Hist!Slots -> [seqnum : Seqnums, data : Data \cup {NoData}]]
  /\ \A h \in Hist!Slots :
       history[h].data # NoData =>
         /\ history[h].data \in DOMAIN sent
         /\ sent[history[h].data].seqnum = history[h].seqnum

(* A packet in the ring of the receiver is as it was sent.                 *)
AsSent(p) ==
  /\ p.data \in DOMAIN sent
  /\ p.seqnum = sent[p.data].seqnum
  /\ p.timestamp = ToNs(sent[p.data].timestamp)
  /\ p.marker = sent[p.data].marker
  /\ p.nonref = sent[p.data].nonref

(* The receiver.                                                           *)
Receiving ==
  /\ TypeOK /\ PlayInv /\ SeqInv /\ Filled
  /\ \A p \in added : AsSent(p) /\ p.seqnum \in received
  /\ \A s \in received : \E p \in added : p.seqnum = s
  /\ added # {} => first_seqnum \in received
  /\ added = {} => prev_seqnum = 0

(* The way there, and the way back: a request names reported numbers only. *)
Underway ==
  /\ net \in Seq(Nat)
  /\ \A k \in DOMAIN net : net[k] \in DOMAIN sent
  /\ losses \in 0 .. setting.losses

Asking ==
  /\ ctl \in Seq(Seq(Byte)) /\ nr \in U16
  /\ \A k \in DOMAIN ctl : \A n \in DOMAIN SeqnumsOf(ctl[k]) :
       SeqnumsOf(ctl[k])[n] \in reported

(* What FrameFromOneTimestamp says of the last frame made.                 *)
Clean(f) ==
  /\ f # <<>>
  /\ f[Len(f)] \in added /\ f[Len(f)].marker = 1
  /\ \A k \in DOMAIN f : /\ f[k] \in added \cup Garbage
                         /\ f[k].timestamp = f[Len(f)].timestamp
  /\ \A j, k \in DOMAIN f : j < k => f[j].seqnum <= f[k].seqnum

Showing ==
  /\ shown \in Seq(Seq(Slot))
  /\ \A n \in DOMAIN shown : Clean(shown[n])

Inv == Sending /\ Remembering /\ Receiving /\ Underway /\ Asking /\ Showing

(* What was sent is never taken back.                                      *)
Grown == \A i \in DOMAIN sent : i \in DOMAIN sent' /\ sent'[i] = sent[i]

(* The parts of the invariant that a step leaves alone.                    *)
LEMMA SendingKept ==
  Sending /\ UNCHANGED <<setting, senderVars>> => Sending' /\ Grown
BY DEF Sending, senderVars, Grown

(* The history stays as it was.                                            *)
LEMMA RememberingKept ==
  Remembering /\ UNCHANGED history /\ Grown => Remembering'
BY DEF Remembering, Grown

(* The receiver stays as it was.                                           *)
LEMMA ReceivingKept ==
  ASSUME Receiving, UNCHANGED jvars, Grown
  PROVE  Receiving'
<1>1. UNCHANGED vars /\ UNCHANGED jitterVars
  BY DEF jvars
<1>2. TypeOK'
  BY <1>1, TypeStep DEF Receiving
<1>3. PlayInv'
  BY <1>1 DEF Receiving, PlayInv, jitterVars, playVars, Half
<1>4. SeqInv' /\ Filled'
  BY <1>1 DEF Receiving, SeqInv, HighestSoFar, GapsAccounted, Unwatched,
              Filled, vars, seqVars, ringVars
<1>5. /\ added' = added /\ received' = received
      /\ first_seqnum' = first_seqnum /\ prev_seqnum' = prev_seqnum
  BY <1>1 DEF vars, seqVars, ringVars
<1>6. \A p \in added : AsSent(p) => AsSent(p)'
  BY DEF AsSent, Grown
<1> QED BY <1>2, <1>3, <1>4, <1>5, <1>6, Zenon DEF Receiving

(* The way there stays as it was.                                          *)
LEMMA UnderwayKept ==
  Underway /\ UNCHANGED <<setting, net, losses>> /\ Grown => Underway'
BY DEF Underway, Grown

(* The way back stays as it was: numbers once reported stay reported.      *)
LEMMA AskingKept ==
  Asking /\ UNCHANGED <<ctl, nr>> /\ reported \subseteq reported' => Asking'
BY DEF Asking

(* What was shown stays shown.                                             *)
LEMMA ShowingKept ==
  Showing /\ UNCHANGED shown /\ added \subseteq added' => Showing'
<1> SUFFICES ASSUME Showing, UNCHANGED shown, added \subseteq added'
             PROVE  Showing'
  OBVIOUS
<1>1. \A n \in DOMAIN shown : Clean(shown[n])'
  BY DEF Clean, Showing
<1> QED BY <1>1 DEF Showing

-----------------------------------------------------------------------------
(* What arrives *)

(* The depacketizer hands to the jitter buffer what the packetizer wrote.  *)
LEMMA DeliveredPacket ==
  ASSUME NEW pkt \in WirePacket, pkt.seqnum \in Seqnums,
         NEW i \in Data, NEW dep \in Received(pkt)
  PROVE  /\ Depacketized(i, dep) \in Packet
         /\ Depacketized(i, dep).data = i
         /\ Depacketized(i, dep).seqnum = pkt.seqnum
         /\ Depacketized(i, dep).timestamp = pkt.timestamp
         /\ Depacketized(i, dep).marker = pkt.marker
         /\ Depacketized(i, dep).nonref = pkt.nonref
<1> DEFINE d == Wrapped(pkt, 0)
<1>1. dep = Unwrapped(d, Len(d) + pkt.nbytes)
  BY DEF Received
<1>2. Agreement(pkt, 0)
  BY RoundTrip
<1>3. /\ dep.len = pkt.nbytes
      /\ \A field \in DOMAIN dep \ {"len"} : dep[field] = pkt[field]
  BY <1>1, <1>2, Zenon DEF Agreement
<1>4. DOMAIN dep = {"seqnum", "timestamp", "marker", "nonref", "pstart",
                    "picture_id", "len"}
  BY <1>1 DEF Unwrapped
<1>5. /\ dep.seqnum = pkt.seqnum /\ dep.timestamp = pkt.timestamp
      /\ dep.marker = pkt.marker /\ dep.nonref = pkt.nonref
  BY <1>3, <1>4
<1>6. /\ pkt.timestamp \in Nat /\ pkt.marker \in {0, 1}
      /\ pkt.nonref \in {0, 1} /\ pkt.nbytes \in Nat
  BY DEF WirePacket, U32
<1> QED BY <1>3, <1>5, <1>6 DEF Depacketized, Packet

(* What rxs_reconstruct_add_packet stores of a packet.                     *)
LEMMA StoredFields ==
  ASSUME NEW p \in Packet
  PROVE  /\ Stored(p).data = p.data /\ Stored(p).seqnum = p.seqnum
         /\ Stored(p).timestamp = ToNs(p.timestamp)
         /\ Stored(p).marker = p.marker /\ Stored(p).nonref = p.nonref
BY DEF Stored, Packet

(* A datagram arrives: what it does to the receiver, from outside.         *)
Arrives(i, p) ==
  /\ Alive
  /\ p \in Packet /\ AsSent(p) /\ p.data = i
  /\ packets' = [packets EXCEPT ![dx] = p] /\ dx' = NextDx(dx)
  /\ added' = added \cup {p}
  /\ CheckSeqnum(p.seqnum)
  /\ UNCHANGED <<mergeVars, playVars>>
  /\ npackets' = IF npackets < Half THEN npackets + 1 ELSE Half

(* on_data, from outside: the packet is in the ring, its number checked,   *)
(* and what it skipped is asked for.                                       *)
LEMMA Delivery ==
  ASSUME Sending, Underway, Receiving, NEW k \in DOMAIN net, Deliver(k)
  PROVE  /\ \E p : Arrives(net[k], p)
         /\ TypeOK' /\ PlayInv' /\ SeqInv' /\ Filled'
         /\ net' = RemoveAt(net, k)
         /\ \/ setting.reorder \/ k = 1
         /\ Request([n \in 1 .. Cardinality(missing') |-> prev_seqnum + n])
         /\ missing' \cap (received \cup reported) = {}
         /\ UNCHANGED <<setting, senderVars, copied, shown>>
<1> DEFINE i == net[k]
<1>1. i \in DOMAIN sent
  BY DEF Underway
<1>2. sent[i] \in WirePacket /\ sent[i].seqnum \in Seqnums /\ i \in Data
  BY <1>1 DEF Sending
<1>3. PICK dep \in Received(sent[i]) : JitterAdd(Depacketized(i, dep))
  BY DEF Deliver
<1> DEFINE q == Depacketized(i, dep)
           p == Stored(q)
<1>4. /\ q \in Packet /\ q.data = i
      /\ q.seqnum = sent[i].seqnum /\ q.timestamp = sent[i].timestamp
      /\ q.marker = sent[i].marker /\ q.nonref = sent[i].nonref
  BY <1>2, DeliveredPacket
<1>5. JitterAdd(q)
  BY <1>3
<1> HIDE DEF q, i
<1>6. Alive /\ Receive(q) /\ UNCHANGED playVars
      /\ npackets' = IF npackets < Half THEN npackets + 1 ELSE Half
  BY <1>5 DEF JitterAdd
<1>7. p \in Packet /\ AsSent(p) /\ p.data = i /\ p.seqnum = q.seqnum
  BY <1>1, <1>4, StoredType, StoredFields DEF AsSent
<1>8. Arrives(i, p)
  BY <1>6, <1>7 DEF Arrives, Receive, AddPacket
<1>9. TypeOK'
  BY <1>4, <1>6, ReceiveType DEF Receiving
<1>10. PlayInv'
  BY <1>5, AddKeepsPlay DEF Receiving
<1>11. q.seqnum \in Seqnums /\ CheckSeqnum(q.seqnum)
  BY <1>2, <1>4, <1>6 DEF Receive
<1>12. SeqInv' /\ missing' \cap (received \cup reported) = {}
  BY <1>11, CheckSeqnumKeepsBooks, CheckSeqnumReportsNew DEF Receiving
<1>13. Filled'
  BY <1>6, AddFills DEF Receiving, Receive
<1>14. /\ net' = RemoveAt(net, k)
       /\ setting.reorder \/ k = 1
       /\ Request([n \in 1 .. Cardinality(missing') |-> prev_seqnum + n])
       /\ UNCHANGED <<setting, senderVars, copied, shown>>
  BY DEF Deliver
<1> QED BY <1>8, <1>9, <1>10, <1>12, <1>13, <1>14 DEF i

(* A packet that arrives leaves the receiver in order.                     *)
LEMMA ArrivalBooks ==
  ASSUME Receiving, NEW i, NEW p, Arrives(i, p), TypeOK', PlayInv', SeqInv',
         Filled', Grown
  PROVE  Receiving'
<1>1. /\ added' = added \cup {p}
      /\ received' = received \cup {p.seqnum}
      /\ first_seqnum' = IF received = {} THEN p.seqnum ELSE first_seqnum
  BY DEF Arrives, CheckSeqnum, FirstOnes
<1>2. \A r \in added' : AsSent(r)'
  BY <1>1 DEF AsSent, Grown, Receiving, Arrives
<1>3. \A r \in added' : r.seqnum \in received'
  BY <1>1 DEF Receiving
<1>4. \A s \in received' : \E r \in added' : r.seqnum = s
  BY <1>1 DEF Receiving
<1>5. first_seqnum' \in received'
  BY <1>1 DEF Receiving
<1>6. added' # {}
  BY <1>1
<1> QED BY <1>2, <1>3, <1>4, <1>5, <1>6, Zenon DEF Receiving

(* The numbers that a packet skips, as they are asked for.                 *)
LEMMA SkippedRow ==
  ASSUME TypeOK, NEW s \in Seqnums, CheckSeqnum(s)
  PROVE  /\ Cardinality(missing') \in Nat
         /\ \A n \in 1 .. Cardinality(missing') : prev_seqnum + n \in missing'
         /\ reported' = reported \cup missing'
<1>1. prev_seqnum \in Nat /\ s \in Nat
  BY DEF TypeOK, Seqnums
<1>2. missing' = Skipped(s) /\ reported' = reported \cup missing'
  BY DEF CheckSeqnum
<1>3. CASE Skipped(s) = {}
  <2>1. Cardinality(missing') = 0
    BY <1>2, <1>3, FS_EmptySet
  <2> QED BY <1>2, <2>1
<1>4. CASE Skipped(s) # {}
  <2>1. Skipped(s) = prev_seqnum + 1 .. s - 1
    BY <1>4 DEF Skipped
  <2>2. PICK a \in Int, b \in Int : a = prev_seqnum + 1 /\ b = s - 1
    BY <1>1
  <2>3. Skipped(s) = a .. b /\ a <= b
    BY <1>4, <2>1, <2>2
  <2>4. Cardinality(a .. b) = b - a + 1
    BY <2>2, <2>3, FS_Interval
  <2>5. Cardinality(missing') = s - 1 - prev_seqnum
    BY <1>1, <1>2, <2>2, <2>3, <2>4
  <2>6. s - 1 - prev_seqnum \in Nat
    BY <1>1, <2>2, <2>3
  <2>7. ASSUME NEW n \in 1 .. s - 1 - prev_seqnum
        PROVE  prev_seqnum + n \in missing'
    BY <1>1, <1>2, <2>1
  <2> QED BY <1>2, <2>5, <2>6, <2>7
<1> QED BY <1>3, <1>4

(* A request that the receiver sends names numbers just reported.          *)
LEMMA Requested ==
  ASSUME Asking, Sending, Underway, TypeOK, NEW s \in Seqnums, CheckSeqnum(s),
         TypeOK', UNCHANGED setting,
         Request([n \in 1 .. Cardinality(missing') |-> prev_seqnum + n])
  PROVE  Asking' /\ losses' \in 0 .. setting'.losses
<1>1. /\ Cardinality(missing') \in Nat
      /\ \A n \in 1 .. Cardinality(missing') : prev_seqnum + n \in missing'
      /\ reported' = reported \cup missing'
  BY SkippedRow
<1>2. missing' \subseteq U16
  <2>1. Seqnums \subseteq U16
    BY NSeqnumsAssumption, WidthsAssumption, SMT DEF Seqnums, U16
  <2> QED BY <2>1 DEF TypeOK
<1> DEFINE m == Cardinality(missing')
           row == [n \in 1 .. m |-> prev_seqnum + n]
<1>3. row \in Seq(U16) /\ Len(row) = m
  BY <1>1, <1>2
<1>4. \A n \in 1 .. m : row[n] \in missing'
  BY <1>1
<1>5. Request(row)
  OBVIOUS
<1> HIDE DEF row, m
<1>6. setting.losses \in Nat
  BY SettingsAssumption DEF Sending
<1>7. CASE Refused(row)
  <2>1. UNCHANGED <<ctl, nr, losses>>
    BY <1>5, <1>7 DEF Request
  <2> QED BY <1>1, <2>1, AskingKept DEF Underway
<1>8. CASE ~Refused(row)
  <2>1. CommandSent
    BY <1>5, <1>8 DEF Request
  <2>2. nr' \in U16
    BY <2>1, SMT DEF CommandSent, Asking, U16
  <2>3. CASE ctl' = Append(ctl, PacketsRequest(row)) /\ UNCHANGED losses
    <3>1. /\ PacketsRequest(row) \in Seq(Byte)
          /\ SeqnumsOf(PacketsRequest(row)) = [k \in 1 .. Len(row) |-> row[k]]
      <4>1. Len(row) < ControlMax
        BY <1>1, <1>3, <1>8, ControlMaxAssumption DEF Refused, m
      <4> QED BY <1>3, <4>1, RequestRead DEF Asking
    <3>2. \A n \in DOMAIN SeqnumsOf(PacketsRequest(row)) :
            SeqnumsOf(PacketsRequest(row))[n] \in reported'
      BY <1>1, <1>3, <1>4, <3>1
    <3> DEFINE d == PacketsRequest(row)
    <3> HIDE DEF d
    <3>3. /\ ctl' \in Seq(Seq(Byte))
          /\ \A k \in DOMAIN ctl' : \/ k \in DOMAIN ctl /\ ctl'[k] = ctl[k]
                                    \/ ctl'[k] = d
      <4>1. ctl' = Append(ctl, d) /\ ctl \in Seq(Seq(Byte)) /\ d \in Seq(Byte)
        BY <2>3, <3>1 DEF Asking, d
      <4> QED BY <4>1
    <3>4. \A k \in DOMAIN ctl' : \A n \in DOMAIN SeqnumsOf(ctl'[k]) :
            SeqnumsOf(ctl'[k])[n] \in reported'
      <4>1. \A n \in DOMAIN SeqnumsOf(d) : SeqnumsOf(d)[n] \in reported'
        BY <3>2 DEF d
      <4>2. \A k \in DOMAIN ctl : \A n \in DOMAIN SeqnumsOf(ctl[k]) :
              SeqnumsOf(ctl[k])[n] \in reported'
        BY <1>1, Zenon DEF Asking
      <4> QED BY <3>3, <4>1, <4>2, Zenon
    <3>5. Asking'
      BY <2>2, <3>3, <3>4, Zenon DEF Asking
    <3> QED BY <2>3, <3>5 DEF Underway
  <2>4. CASE losses < setting.losses /\ losses' = losses + 1 /\ UNCHANGED ctl
    <3>1. losses' \in 0 .. setting'.losses
      BY <1>6, <2>4 DEF Underway
    <3>2. Asking'
      BY <1>1, <2>2, <2>4 DEF Asking
    <3> QED BY <3>1, <3>2
  <2> QED BY <1>5, <1>8, <2>3, <2>4 DEF Request
<1> QED BY <1>7, <1>8

-----------------------------------------------------------------------------
(* What is sent *)

(* A packet is sent: what it adds to the row of those sent.                *)
LEMMA Emission ==
  ASSUME Sending, Emit
  PROVE  /\ Grown /\ Sending'
         /\ sent' \in Seq(WirePacket) /\ Len(sent) \in Nat
         /\ Len(sent') = Len(sent) + 1
         /\ Len(sent') \in Data
         /\ sent'[Len(sent')] = Tx!CurrentPacket
         /\ Tx!CurrentPacket.seqnum = vpx.seqnum
<1>1. Tx!EmitPacket /\ Len(sent) + 1 \in Data
      /\ sent' = Append(sent, Tx!CurrentPacket)
      /\ hdx' = Hist!NextDx(hdx)
      /\ UNCHANGED <<setting, serves, todo, nframes>>
  BY DEF Emit
<1>2. vpx' \in Tx!Vpx
  BY <1>1, VpxEmits DEF Sending
<1>3. Tx!CurrentPacket \in WirePacket /\ Tx!CurrentPacket.seqnum = vpx.seqnum
  BY CurrentPacketFits DEF Sending, Tx!CurrentPacket
<1>4. vpx.seqnum \in Seqnums
  BY VpxFields DEF Sending
<1>5. /\ sent' \in Seq(WirePacket) /\ Len(sent) \in Nat
      /\ Len(sent') = Len(sent) + 1
      /\ sent'[Len(sent')] = Tx!CurrentPacket
      /\ \A i \in DOMAIN sent : i \in DOMAIN sent' /\ sent'[i] = sent[i]
      /\ \A i \in DOMAIN sent' : i \in DOMAIN sent \/ i = Len(sent')
  BY <1>1, <1>3 DEF Sending
<1>6. \A i \in DOMAIN sent' : i \in Data /\ sent'[i].seqnum \in Seqnums
  BY <1>1, <1>3, <1>4, <1>5 DEF Sending
<1>7. hdx' \in Hist!Slots
  BY <1>1, StreamAssumption, SMT DEF Sending, Hist!NextDx, Hist!Slots
<1>8. Sending'
  BY <1>1, <1>2, <1>5, <1>6, <1>7 DEF Sending
<1> QED BY <1>1, <1>3, <1>5, <1>8 DEF Grown

(* on_rtp_packet keeps the packet under its own number.                    *)
LEMMA EmissionKept ==
  ASSUME Sending, Remembering, Emit
  PROVE  Remembering'
<1> DEFINE n == Len(sent')
<1>1. /\ Grown /\ n \in Data /\ n \in DOMAIN sent'
      /\ sent'[n].seqnum = vpx.seqnum
  BY Emission
<1>2. vpx.seqnum \in Seqnums
  BY VpxFields DEF Sending
<1>3. history' = [history EXCEPT ![hdx] = [seqnum |-> vpx.seqnum, data |-> n]]
  BY DEF Emit
<1> HIDE DEF n
<1>4. /\ history' \in [Hist!Slots -> [seqnum : Seqnums, data : Data \cup {NoData}]]
      /\ \A h \in Hist!Slots :
           history'[h] = IF h = hdx THEN [seqnum |-> vpx.seqnum, data |-> n]
                                    ELSE history[h]
  BY <1>1, <1>2, <1>3 DEF Remembering
<1>5. ASSUME NEW h \in Hist!Slots, history'[h].data # NoData
      PROVE  /\ history'[h].data \in DOMAIN sent'
             /\ sent'[history'[h].data].seqnum = history'[h].seqnum
  BY <1>1, <1>4, <1>5 DEF Remembering, Grown
<1> QED BY <1>4, <1>5 DEF Remembering

(* The count of a command that is long enough.                             *)
LEMMA ThirdByte ==
  ASSUME NEW d \in Seq(Byte), Heard(d)
  PROVE  d[3] % 16 \in Nat
<1>1. PICK b \in Byte : b = d[3]
  BY DEF Heard
<1>2. b % 16 \in Nat
  BY SMT DEF Byte
<1> QED BY <1>1, <1>2, Zenon

(* An answer to a command consists of packets with the numbers it names.   *)
LEMMA Answered ==
  ASSUME Sending, Remembering, Asking, OnCommand
  PROVE  /\ Asking'
         /\ \E row \in Seq(Nat) :
              /\ \A k \in DOMAIN row : /\ row[k] \in DOMAIN sent
                                       /\ sent[row[k]].seqnum \in reported
              /\ IF serves THEN Transmit(row) ELSE UNCHANGED <<net, losses>>
<1>1. ctl # <<>> /\ ctl' = Tail(ctl) /\ UNCHANGED <<nr, reported>>
  BY DEF OnCommand, jvars, vars, seqVars
<1>2. /\ ctl' \in Seq(Seq(Byte))
      /\ \A k \in DOMAIN ctl' : k + 1 \in DOMAIN ctl /\ ctl'[k] = ctl[k + 1]
  BY <1>1 DEF Asking
<1>3. Asking'
  <2>1. \A k \in DOMAIN ctl' : \A n \in DOMAIN SeqnumsOf(ctl'[k]) :
          SeqnumsOf(ctl'[k])[n] \in reported'
    BY <1>1, <1>2 DEF Asking
  <2> QED BY <1>1, <1>2, <2>1 DEF Asking
<1> DEFINE d == Head(ctl)
<1>4. d \in Seq(Byte) /\ d = ctl[1] /\ 1 \in DOMAIN ctl
  BY <1>1 DEF Asking
<1>5. PICK asked \in {IF Heard(d) THEN SeqnumsOf(d) ELSE <<>>} :
        \E found \in Selections(Len(asked)) :
          /\ ToSet(found) = {k \in DOMAIN asked : Kept(asked[k]) # {}}
          /\ IF serves
             THEN Transmit([k \in DOMAIN found |->
                              CHOOSE e \in Kept(asked[found[k]]) : TRUE])
             ELSE UNCHANGED <<net, losses>>
  BY DEF OnCommand
<1>14. PICK found \in Selections(Len(asked)) :
         /\ ToSet(found) = {k \in DOMAIN asked : Kept(asked[k]) # {}}
         /\ IF serves
            THEN Transmit([k \in DOMAIN found |->
                             CHOOSE e \in Kept(asked[found[k]]) : TRUE])
            ELSE UNCHANGED <<net, losses>>
  BY <1>5, Zenon
<1>15. asked = IF Heard(d) THEN SeqnumsOf(d) ELSE <<>>
  OBVIOUS
<1> HIDE DEF d
<1>6. asked \in Seq(reported)
  <2>1. CASE ~Heard(d)
    BY <1>15, <2>1
  <2>2. CASE Heard(d) /\ Command(d) # ResendCommand
    BY <1>15, <2>2 DEF SeqnumsOf
  <2>3. CASE Heard(d) /\ Command(d) = ResendCommand
    <3>1. PICK n \in Nat : n = d[3] % 16
      BY <1>4, <2>3, ThirdByte
    <3>2. asked = [k \in 1 .. n |-> Read16(d, 2 * k + 2)]
      BY <1>15, <2>3, <3>1 DEF SeqnumsOf
    <3>3. \A k \in DOMAIN asked : asked[k] \in reported
      BY <1>4, <1>15, <2>3 DEF Asking
    <3>4. \A k \in 1 .. n : Read16(d, 2 * k + 2) \in reported
      BY <3>2, <3>3
    <3> QED BY <3>2, <3>4
  <2> QED BY <2>1, <2>2, <2>3
<1>7. Len(asked) \in Nat /\ \A k \in DOMAIN asked : asked[k] \in reported
  BY <1>6
<1>8. found \in Seq(1 .. Len(asked))
  BY <1>7, Selected
<1> DEFINE e(k) == CHOOSE x \in Kept(asked[found[k]]) : TRUE
           row == [k \in DOMAIN found |-> e(k)]
<1>9. ASSUME NEW k \in DOMAIN found
      PROVE  e(k) \in DOMAIN sent /\ sent[e(k)].seqnum \in reported
  <2>1. found[k] \in ToSet(found)
    BY <1>8 DEF ToSet
  <2>2. found[k] \in DOMAIN asked /\ Kept(asked[found[k]]) # {}
    BY <1>14, <2>1
  <2>3. PICK s \in reported : s = asked[found[k]]
    BY <1>7, <2>2
  <2>4. e(k) \in Kept(s)
    BY <2>2, <2>3
  <2> HIDE DEF e
  <2>5. PICK h \in Hist!FindSeqnum(history, s) :
          e(k) = history[h].data /\ e(k) # NoData
    BY <2>4 DEF Kept
  <2>6. h \in Hist!Slots /\ history[h].seqnum = s
    BY DEF Hist!FindSeqnum
  <2> QED BY <2>5, <2>6 DEF Remembering
<1>10. \A i \in DOMAIN sent : i \in Nat
  BY DEF Sending
<1> HIDE DEF e
<1>11. row \in Seq(Nat) /\ DOMAIN row = DOMAIN found
  <2>1. PICK m \in Nat : DOMAIN found = 1 .. m
    BY <1>8
  <2>2. \A k \in 1 .. m : e(k) \in Nat
    BY <1>9, <1>10, <2>1
  <2>3. row = [k \in 1 .. m |-> e(k)]
    BY <2>1
  <2> QED BY <2>1, <2>2, <2>3
<1>12. IF serves THEN Transmit(row) ELSE UNCHANGED <<net, losses>>
  BY <1>14 DEF e
<1>13. \A k \in DOMAIN row : row[k] \in DOMAIN sent
                             /\ sent[row[k]].seqnum \in reported
  BY <1>9
<1> HIDE DEF row
<1> QED BY <1>3, <1>11, <1>12, <1>13

(* Packets that were sent are on the way afterwards, if they are not lost. *)
LEMMA TransmittedKept ==
  ASSUME Underway, Sending, UNCHANGED setting, NEW row \in Seq(Nat),
         Transmit(row), Grown, \A k \in DOMAIN row : row[k] \in DOMAIN sent'
  PROVE  Underway'
<1>1. /\ net' \in Seq(Nat) /\ losses' \in 0 .. setting.losses
      /\ \A a \in DOMAIN net : a \in DOMAIN net' /\ net'[a] = net[a]
  BY Transmitted DEF Underway, Sending
<1>2. PICK kept \in Selections(Len(row)) :
        /\ Len(net') = Len(net) + Len(kept)
        /\ \A b \in DOMAIN kept : net'[Len(net) + b] = row[kept[b]]
  BY Transmitted DEF Underway, Sending
<1>3. Len(row) \in Nat /\ Len(net) \in Nat
  BY DEF Underway
<1>4. /\ kept \in Seq(1 .. Len(row)) /\ Len(kept) \in Nat
      /\ DOMAIN kept = 1 .. Len(kept)
      /\ \A b \in DOMAIN kept : kept[b] \in DOMAIN row
  BY <1>3, Selected
<1>5. ASSUME NEW a \in DOMAIN net' PROVE net'[a] \in DOMAIN sent'
  <2>1. CASE a \in DOMAIN net
    BY <1>1, <2>1 DEF Underway, Grown
  <2>2. CASE a \notin DOMAIN net
    <3>1. PICK b \in 1 .. Len(kept) : a = Len(net) + b
      <4>1. a \in 1 .. Len(net) + Len(kept) /\ a \notin 1 .. Len(net)
        BY <1>1, <1>2, <2>2 DEF Underway
      <4>2. a - Len(net) \in 1 .. Len(kept) /\ a = Len(net) + (a - Len(net))
        BY <1>3, <1>4, <4>1
      <4> QED BY <4>2
    <3> QED BY <1>2, <1>4, <3>1
  <2> QED BY <2>1, <2>2
<1> QED BY <1>1, <1>5 DEF Underway

-----------------------------------------------------------------------------
(* What is shown *)

(* A call of rxs_jitter_update, from outside: the ring and the books stay, *)
(* and a frame, if there is one, is clean.                                 *)
LEMMA Polled ==
  ASSUME Receiving, Poll
  PROVE  /\ Receiving'
         /\ UNCHANGED <<ringVars, seqVars, senderVars, netVars>>
         /\ \/ shown' = shown /\ frame' = <<>>
            \/ shown' = Append(shown, frame') /\ Clean(frame)'
         /\ frame' \in Seq(Slot)
<1>1. /\ Update
      /\ shown' = IF frame' = <<>> THEN shown ELSE Append(shown, frame')
      /\ UNCHANGED <<senderVars, netVars>>
  BY DEF Poll
<1>2. PICK i \in Slots : Merge(packets[i].timestamp)
  BY <1>1, UpdateKeepsPlay DEF Receiving
<1>3. PlayInv'
  BY <1>1, UpdateKeepsPlay DEF Receiving
<1>4. TypeOK' /\ MergePackets(packets[i].timestamp)
      /\ UNCHANGED <<ringVars, seqVars>>
  BY <1>2, MergeType DEF Receiving, Merge
<1>5. Receiving'
  <2>1. SeqInv' /\ Filled'
    BY <1>4 DEF Receiving, SeqInv, HighestSoFar, GapsAccounted, Unwatched,
                Filled, seqVars, ringVars
  <2>2. /\ added' = added /\ received' = received /\ sent' = sent
        /\ first_seqnum' = first_seqnum /\ prev_seqnum' = prev_seqnum
    BY <1>1, <1>4 DEF seqVars, ringVars, senderVars
  <2>3. \A p \in added : AsSent(p) => AsSent(p)'
    BY <2>2 DEF AsSent
  <2> QED BY <1>3, <1>4, <2>1, <2>2, <2>3, Zenon DEF Receiving
<1>6. ASSUME frame' # <<>> PROVE Clean(frame)'
  <2>1. /\ frame' \in Seq(Slot) /\ frame'[Len(frame')] \in added
        /\ frame'[Len(frame')].marker = 1
        /\ \A k \in DOMAIN frame' : /\ frame'[k] \in added \cup Garbage
                                    /\ frame'[k].timestamp = packets[i].timestamp
        /\ \A j, k \in DOMAIN frame' :
             j < k => frame'[j].seqnum <= frame'[k].seqnum
    BY <1>4, <1>6, MergedFrame DEF Receiving
  <2>2. Len(frame') \in DOMAIN frame' /\ added' = added
    BY <1>4, <1>6, <2>1 DEF ringVars
  <2> QED BY <1>6, <2>1, <2>2, Zenon DEF Clean
<1> QED BY <1>1, <1>4, <1>5, <1>6 DEF TypeOK

(* What rxs_jitter_update does to the playback state.                      *)
LEMMA Handled ==
  ASSUME Receiving, Poll
  PROVE  \E i \in Slots, start \in Nat :
           /\ i = IF timeout = 0 THEN 0 ELSE curr_pkt
           /\ start = IF timeout = 0 THEN packets[0].timestamp
                                     ELSE timestamp_start
           /\ timestamp_start' = start
           /\ Merge(packets[i].timestamp)
           /\ Alive /\ npackets >= Half /\ npackets' = npackets
           /\ \/ /\ NextPacket(i) = {} /\ exited'
                 /\ UNCHANGED <<timeout, curr_pkt>>
              \/ \E j \in NextPacket(i) :
                   /\ j \in Slots /\ packets[j].timestamp > packets[i].timestamp
                   /\ timeout' = (packets[j].timestamp - start) % TimeMod
                   /\ curr_pkt' = j /\ exited' = exited
<1>1. Update
  BY DEF Poll
<1>2. \A i : \A j \in NextPacket(i) : /\ j \in Slots
                                      /\ packets[j].timestamp > packets[i].timestamp
  BY DEF NextPacket
<1>3. CASE UpdateStart
  <2>1. 0 \in Slots
    BY NPacketsAssumption DEF Slots
  <2>2. packets[0].timestamp \in Nat
    BY <2>1, SlotTimeType DEF Receiving
  <2>3. /\ Alive /\ npackets >= Half /\ timeout = 0
        /\ PlayFrom(0, packets[0].timestamp)
    BY <1>3 DEF UpdateStart
  <2> QED BY <1>2, <2>1, <2>2, <2>3 DEF PlayFrom
<1>4. CASE UpdatePlay
  <2>1. /\ Alive /\ npackets >= Half /\ timeout # 0
        /\ PlayFrom(curr_pkt, timestamp_start)
    BY <1>4 DEF UpdatePlay
  <2>2. curr_pkt \in Slots /\ timestamp_start \in Nat
    BY <2>1 DEF Receiving, PlayInv
  <2> QED BY <1>2, <2>1, <2>2 DEF PlayFrom
<1> QED BY <1>1, <1>3, <1>4 DEF Update

-----------------------------------------------------------------------------
(* Every step keeps the invariant *)

(* on_vp8_packet prepares the packetizer for a partition.                  *)
LEMMA StepPartition ==
  ASSUME Inv, Partition
  PROVE  /\ Sending'
         /\ UNCHANGED <<jvars, serves, nframes, history, hdx, sent, netVars,
                        shown>>
         /\ todo # <<>> /\ Tx!Idle /\ todo' = Tail(todo)
         /\ fragment' = (Len(todo) > 1)
         /\ vpx'.timestamp = ((setting.pts + nframes) * TicksPerPts) % NTimestamps
         /\ vpx'.nonref = IF nframes \in KeyFrames THEN 0 ELSE 1
         /\ vpx'.seqnum = vpx.seqnum
<1> DEFINE sz == Head(todo)
           pts == setting.pts + nframes
           key == nframes \in KeyFrames
           frag == Len(todo) > 1
<1>1. /\ todo # <<>> /\ todo' = Tail(todo)
      /\ UNCHANGED <<jvars, serves, nframes, history, hdx, sent, netVars, shown>>
      /\ Tx!Wrap([sz |-> sz, pts |-> pts, key |-> key, fragment |-> frag])
  BY DEF Partition
<1>2. sz \in Nat /\ pts \in Nat /\ vpx \in Tx!Vpx
  BY <1>1, SettingsAssumption DEF Inv, Sending
<1> HIDE DEF sz, pts, key, frag
<1>3. /\ vpx' \in Tx!Vpx /\ fragment' = frag
      /\ vpx'.timestamp = (pts * TicksPerPts) % NTimestamps
      /\ vpx'.nonref = IF key THEN 0 ELSE 1
      /\ vpx'.seqnum = vpx.seqnum
  BY <1>1, <1>2, VpxWraps
<1>4. Tx!Idle
  BY <1>1 DEF Tx!Wrap
<1>5. todo' \in Seq(Nat)
  BY <1>1 DEF Inv, Sending
<1>6. Sending'
  BY <1>1, <1>3, <1>5 DEF Inv, Sending, netVars
<1> QED BY <1>1, <1>3, <1>4, <1>6 DEF pts, key, frag

(* Emit keeps the invariant.                                               *)
LEMMA StepEmit ==
  ASSUME Inv, Emit
  PROVE  Inv'
<1>1. PICK n \in Nat : n = Len(sent') /\ n \in DOMAIN sent'
  BY Emission DEF Inv
<1>2. Transmit(<<n>>) /\ UNCHANGED <<jvars, setting, ctl, nr, shown>>
  BY <1>1 DEF Emit
<1>3. Grown /\ Sending' /\ Remembering'
  BY Emission, EmissionKept DEF Inv
<1>4. <<n>> \in Seq(Nat) /\ \A k \in DOMAIN <<n>> : <<n>>[k] \in DOMAIN sent'
  BY <1>1
<1>5. Underway'
  BY <1>2, <1>3, <1>4, TransmittedKept DEF Inv
<1>6. Receiving'
  BY <1>2, <1>3, ReceivingKept DEF Inv
<1>7. reported' = reported /\ added' = added
  BY <1>2 DEF jvars, vars, seqVars, ringVars
<1> QED BY <1>2, <1>3, <1>5, <1>6, <1>7, AskingKept, ShowingKept DEF Inv

(* OnCommand keeps the invariant.                                          *)
LEMMA StepOnCommand ==
  ASSUME Inv, OnCommand
  PROVE  Inv'
<1>1. UNCHANGED <<jvars, setting, senderVars, shown>>
  BY DEF OnCommand
<1>2. Sending' /\ Grown
  BY <1>1, SendingKept DEF Inv
<1>3. Asking'
  BY Answered DEF Inv
<1>4. PICK row \in Seq(Nat) :
        /\ \A k \in DOMAIN row : row[k] \in DOMAIN sent
        /\ IF serves THEN Transmit(row) ELSE UNCHANGED <<net, losses>>
  BY Answered DEF Inv
<1>5. \A k \in DOMAIN row : row[k] \in DOMAIN sent'
  BY <1>2, <1>4 DEF Grown
<1>6. Underway'
  BY <1>1, <1>2, <1>4, <1>5, TransmittedKept, UnderwayKept DEF Inv
<1>7. Receiving'
  BY <1>1, <1>2, ReceivingKept DEF Inv
<1>8. UNCHANGED <<history, added>>
  BY <1>1 DEF jvars, vars, ringVars, senderVars
<1> QED BY <1>1, <1>2, <1>3, <1>6, <1>7, <1>8, RememberingKept, ShowingKept DEF Inv

(* Duplicate keeps the invariant.                                          *)
LEMMA StepDuplicate ==
  ASSUME Inv, NEW k \in DOMAIN net, Duplicate(k)
  PROVE  Inv'
<1>1. /\ net' = InsertAt(net, k, net[k])
      /\ UNCHANGED <<jvars, setting, senderVars, ctl, nr, losses, shown>>
  BY DEF Duplicate
<1>2. Sending' /\ Grown
  BY <1>1, SendingKept DEF Inv
<1>3. net \in Seq(Nat) /\ k \in 1 .. Len(net) /\ net[k] \in Nat
  BY DEF Inv, Underway
<1>4. PICK m \in Nat : m = Len(net)
  BY <1>3
<1>5. /\ net' \in Seq(Nat) /\ Len(net') = Len(net) + 1
      /\ \A i \in 1 .. Len(net) + 1 :
           /\ i < k => net'[i] = net[i]
           /\ i = k => net'[i] = net[k]
           /\ i > k => net'[i] = net[i - 1]
  BY <1>1, <1>3, InsertedFacts, Zenon
<1>6. ASSUME NEW i \in 1 .. m + 1 PROVE net'[i] \in DOMAIN sent'
  <2>1. \A j \in 1 .. m : net[j] \in DOMAIN sent'
    BY <1>2, <1>4 DEF Inv, Underway, Grown
  <2>2. k \in 1 .. m /\ (i > k => i - 1 \in 1 .. m) /\ (i < k => i \in 1 .. m)
    BY <1>3, <1>4
  <2>3. /\ i < k => net'[i] = net[i]
        /\ i = k => net'[i] = net[k]
        /\ i > k => net'[i] = net[i - 1]
    BY <1>4, <1>5
  <2>4. i < k \/ i = k \/ i > k
    BY <1>3
  <2> QED BY <2>1, <2>2, <2>3, <2>4, Zenon
<1>7. Underway'
  BY <1>1, <1>4, <1>5, <1>6 DEF Inv, Underway
<1>8. Receiving'
  BY <1>1, <1>2, ReceivingKept DEF Inv
<1>9. UNCHANGED <<history, added, reported>>
  BY <1>1 DEF jvars, vars, ringVars, senderVars, seqVars
<1> QED
  BY <1>1, <1>2, <1>7, <1>8, <1>9, RememberingKept, AskingKept, ShowingKept DEF Inv

(* Deliver keeps the invariant.                                            *)
LEMMA StepDeliver ==
  ASSUME Inv, NEW k \in DOMAIN net, Deliver(k)
  PROVE  Inv'
<1>1. PICK p : Arrives(net[k], p)
  BY Delivery DEF Inv
<1>2. /\ TypeOK' /\ PlayInv' /\ SeqInv' /\ Filled'
      /\ net' = RemoveAt(net, k)
      /\ Request([n \in 1 .. Cardinality(missing') |-> prev_seqnum + n])
      /\ UNCHANGED <<setting, senderVars, copied, shown>>
  BY Delivery DEF Inv
<1>3. Sending' /\ Grown
  BY <1>2, SendingKept DEF Inv
<1>4. Receiving'
  BY <1>1, <1>2, <1>3, ArrivalBooks DEF Inv
<1>5. CheckSeqnum(p.seqnum) /\ p.seqnum \in Seqnums /\ added' = added \cup {p}
  BY <1>1 DEF Arrives, Packet
<1>6. Asking' /\ losses' \in 0 .. setting'.losses
  BY <1>2, <1>5, Requested DEF Inv, Receiving
<1>7. net \in Seq(Nat) /\ k \in 1 .. Len(net)
  BY DEF Inv, Underway
<1>8. PICK m \in Nat : m = Len(net)
  BY <1>7
<1>9. /\ net' \in Seq(Nat) /\ Len(net') = m - 1
      /\ \A i \in 1 .. m - 1 : net'[i] = IF i < k THEN net[i] ELSE net[i + 1]
  BY <1>2, <1>7, <1>8, RemovedFacts, Zenon
<1>10. ASSUME NEW i \in 1 .. m - 1 PROVE net'[i] \in DOMAIN sent'
  <2>1. \A j \in 1 .. m : net[j] \in DOMAIN sent'
    BY <1>3, <1>8 DEF Inv, Underway, Grown
  <2> QED BY <1>9, <2>1
<1>11. Underway'
  BY <1>6, <1>9, <1>10 DEF Underway
<1> QED
  BY <1>2, <1>3, <1>4, <1>5, <1>6, <1>11, RememberingKept, ShowingKept
     DEF Inv, senderVars

(* Poll keeps the invariant.                                               *)
LEMMA StepPoll ==
  ASSUME Inv, Poll
  PROVE  Inv'
<1>1. Receiving' /\ UNCHANGED <<ringVars, seqVars, senderVars, netVars>>
  BY Polled DEF Inv
<1>2. UNCHANGED <<setting, history, added, reported, net, losses, ctl, nr>>
  BY <1>1 DEF ringVars, seqVars, senderVars, netVars
<1>3. Sending' /\ Grown
  BY <1>1, <1>2, SendingKept DEF Inv
<1>4. Showing'
  <2>1. CASE shown' = shown
    BY <1>2, <2>1, ShowingKept DEF Inv
  <2>2. CASE shown' = Append(shown, frame') /\ Clean(frame)'
    <3>1. frame' \in Seq(Slot)
      BY Polled DEF Inv
    <3>2. /\ shown' \in Seq(Seq(Slot))
          /\ \A n \in DOMAIN shown' : \/ n \in DOMAIN shown /\ shown'[n] = shown[n]
                                      \/ shown'[n] = frame'
      BY <2>2, <3>1 DEF Inv, Showing
    <3>3. \A n \in DOMAIN shown : Clean(shown[n])
      BY DEF Inv, Showing
    <3>4. ASSUME NEW n \in DOMAIN shown' PROVE Clean(shown[n])'
      <4>1. CASE n \in DOMAIN shown /\ shown'[n] = shown[n]
        BY <1>2, <3>3, <4>1 DEF Clean
      <4>2. CASE shown'[n] = frame'
        BY <2>2, <4>2 DEF Clean
      <4> QED BY <3>2, <4>1, <4>2
    <3> QED BY <3>2, <3>4 DEF Showing
  <2> QED BY <2>1, <2>2, Polled DEF Inv
<1> QED
  BY <1>1, <1>2, <1>3, <1>4, RememberingKept, UnderwayKept, AskingKept DEF Inv

(* The steps that neither send, deliver nor show keep the invariant.       *)
LEMMA StepQuiet ==
  ASSUME Inv, \/ Encode \/ Partition \/ TimePasses \/ UNCHANGED streamVars
  PROVE  Inv' /\ Grown
<1>1. Sending' /\ Grown /\ UNCHANGED <<setting, history, sent, net, losses, ctl, nr, shown>>
  <2>1. CASE Encode
    <3>1. todo' \in Seq(Nat) /\ nframes' \in Nat
      BY <2>1, StreamAssumption DEF Encode, Inv, Sending
    <3> QED BY <2>1, <3>1 DEF Encode, Inv, Sending, Grown, netVars
  <2>2. CASE Partition
    BY <2>2, StepPartition DEF netVars, Grown
  <2>3. CASE TimePasses \/ UNCHANGED streamVars
    <3>1. UNCHANGED <<senderVars, netVars, shown>>
      BY <2>3 DEF TimePasses, streamVars
    <3> QED BY <3>1, SendingKept DEF Inv, netVars, senderVars
  <2> QED BY <2>1, <2>2, <2>3
<1>2. Receiving' /\ added' = added /\ reported' = reported
  <2>1. CASE UNCHANGED jvars
    BY <1>1, <2>1, ReceivingKept DEF Inv, jvars, vars, ringVars, seqVars
  <2>2. CASE TimePasses
    <3>1. Tick /\ UNCHANGED vars
      BY <2>2 DEF TimePasses, Tick
    <3>2. PlayInv'
      BY <3>1, TickKeepsPlay DEF Inv, Receiving
    <3>3. TypeOK'
      BY <3>1, TypeStep DEF Inv, Receiving
    <3>4. SeqInv' /\ Filled'
      BY <3>1 DEF Inv, Receiving, SeqInv, HighestSoFar, GapsAccounted,
                  Unwatched, Filled, vars, seqVars, ringVars
    <3>5. /\ added' = added /\ received' = received /\ reported' = reported
          /\ first_seqnum' = first_seqnum /\ prev_seqnum' = prev_seqnum
      BY <3>1 DEF vars, seqVars, ringVars
    <3>6. \A p \in added : AsSent(p) => AsSent(p)'
      BY <1>1 DEF AsSent
    <3>7. Receiving
      BY DEF Inv
    <3> QED BY <3>2, <3>3, <3>4, <3>5, <3>6, <3>7, Zenon DEF Receiving
  <2> QED BY <2>1, <2>2 DEF Encode, Partition, streamVars
<1> QED
  BY <1>1, <1>2, RememberingKept, UnderwayKept, AskingKept, ShowingKept DEF Inv

(* Every step keeps the invariant.                                         *)
LEMMA InvStep == Inv /\ [StreamNext]_streamVars => Inv'
<1> SUFFICES ASSUME Inv, [StreamNext]_streamVars PROVE Inv'
  OBVIOUS
<1>1. CASE Emit
  BY <1>1, StepEmit
<1>2. CASE OnCommand
  BY <1>2, StepOnCommand
<1>3. ASSUME NEW k \in DOMAIN net, Duplicate(k) PROVE Inv'
  BY <1>3, StepDuplicate
<1>4. ASSUME NEW k \in DOMAIN net, Deliver(k) PROVE Inv'
  BY <1>4, StepDeliver
<1>5. CASE Poll
  BY <1>5, StepPoll
<1>6. CASE \/ Encode \/ Partition \/ TimePasses \/ UNCHANGED streamVars
  BY <1>6, StepQuiet
<1> QED BY <1>1, <1>2, <1>3, <1>4, <1>5, <1>6, Zenon DEF StreamNext

(* It holds at the start.                                                  *)
LEMMA InvInit == StreamInit => Inv
<1> SUFFICES ASSUME StreamInit PROVE Inv
  OBVIOUS
<1>1. /\ JitterInit /\ setting \in Settings /\ Tx!Init(setting.seqnum, 0)
      /\ serves \in Servers /\ todo = <<>> /\ nframes = 0 /\ hdx = 0
      /\ sent = <<>> /\ net = <<>> /\ ctl = <<>> /\ nr = 0 /\ losses = 0
      /\ shown = <<>>
  BY DEF StreamInit, ControlInit
<1>2. setting.seqnum \in Seqnums /\ setting.losses \in Nat
  BY <1>1, SettingsAssumption
<1>3. vpx \in Tx!Vpx
  <2>1. /\ 0 \in Ticks /\ 0 \in PictureIds
    BY ConstantTypes, SMT DEF Ticks, PictureIds
  <2>2. vpx = [frame_len |-> 0, frame_dx |-> 0, timestamp |-> 0, nonref |-> 0,
               pstart |-> 0, marker |-> 0,
               seqnum |-> setting.seqnum, picture_id |-> 0]
    BY <1>1 DEF Tx!Init
  <2> QED BY <1>2, <2>1, <2>2, VpxFields, SMT
<1>4. Sending
  <2>1. 0 \in Hist!Slots
    BY StreamAssumption, SMT DEF Hist!Slots
  <2>2. serves \in BOOLEAN
    BY <1>1, StreamAssumption
  <2>3. todo \in Seq(Nat) /\ sent \in Seq(WirePacket) /\ DOMAIN sent = {}
    BY <1>1
  <2> QED BY <1>1, <1>3, <2>1, <2>2, <2>3 DEF Sending
<1>5. Remembering
  <2>1. history \in [Hist!Slots ->
                       {[seqnum |-> g.seqnum, data |-> NoData] : g \in Garbage}]
    BY DEF StreamInit
  <2>2. \A g \in Garbage : g.seqnum \in Seqnums
    BY GarbageAssumption DEF UninitSlot
  <2> QED BY <2>1, <2>2 DEF Remembering
<1>6. Receiving
  <2>1. TypeOK /\ Filled /\ PlayInv
    BY <1>1, JitterInitInv
  <2>2. added = {} /\ received = {} /\ reported = {} /\ prev_seqnum = 0
        /\ first_seqnum = 0
    BY <1>1 DEF JitterInit, Init
  <2>3. SeqInv
    BY <2>2 DEF SeqInv, HighestSoFar, GapsAccounted
  <2> QED BY <2>1, <2>2, <2>3 DEF Receiving
<1>7. Underway
  BY <1>1, <1>2 DEF Underway
<1>8. Asking
  <2>1. nr \in U16
    BY <1>1, SMT DEF U16
  <2>2. ctl \in Seq(Seq(Byte)) /\ DOMAIN ctl = {}
    BY <1>1
  <2> QED BY <2>1, <2>2 DEF Asking
<1>9. Showing
  BY <1>1 DEF Showing
<1> QED BY <1>4, <1>5, <1>6, <1>7, <1>8, <1>9 DEF Inv

(* Inv is an invariant of the video path.                                  *)
LEMMA InvInvariant == StreamSpec => []Inv
BY InvInit, InvStep, PTL DEF StreamSpec

(* Every variable of the path keeps its type: what is on the way has been  *)
(* sent, a command is made of bytes, the network loses no more than it may,*)
(* and whatever is lost, doubled or overtaken leaves the ring, the indices *)
(* and the counters of both ends in their ranges.                          *)
THEOREM StreamTypes == StreamSpec => []StreamTypeOK
<1>1. Inv => StreamTypeOK
  <2> SUFFICES ASSUME Inv PROVE StreamTypeOK
    OBVIOUS
  <2>1. JitterTypeOK
    BY DEF Inv, Receiving, PlayInv, JitterTypeOK
  <2>2. /\ serves \in BOOLEAN /\ vpx \in Tx!Vpx /\ hdx \in Hist!Slots
        /\ history \in [Hist!Slots -> [seqnum : Seqnums, data : Data \cup {NoData}]]
        /\ ctl \in Seq(Seq(Byte)) /\ losses \in 0 .. setting.losses
        /\ shown \in Seq(Seq(Slot))
    BY DEF Inv, Sending, Remembering, Underway, Asking, Showing
  <2>3. net \in Seq(DOMAIN sent)
    BY DEF Inv, Underway
  <2>4. nr \in U16
    BY DEF Inv, Asking
  <2> QED BY <2>1, <2>2, <2>3, <2>4, Zenon DEF StreamTypeOK
<1> QED BY <1>1, InvInvariant, PTL

(* End to end, too, every number between the first one to arrive and the   *)
(* highest one has arrived or been reported, but for what lies between a   *)
(* first number 0 and the next higher one, and no number is reported that  *)
(* has come or been reported before: however the network treats the        *)
(* datagrams, and although the sender answers the reports.                 *)
THEOREM StreamKeepsTheBooks ==
  StreamSpec => []GapsAccounted /\ ReportsAreNew
<1>1. Inv => GapsAccounted
  BY DEF Inv, Receiving, SeqInv
<1>2. Inv /\ [StreamNext]_streamVars
        => [missing' \cap (received \cup reported) = {}]_vars
  <2> SUFFICES ASSUME Inv, [StreamNext]_streamVars
               PROVE  \/ missing' \cap (received \cup reported) = {}
                      \/ UNCHANGED vars
    OBVIOUS
  <2>1. ASSUME NEW k \in DOMAIN net, Deliver(k)
        PROVE  missing' \cap (received \cup reported) = {}
    BY <2>1, Delivery DEF Inv
  <2>2. CASE Poll
    <3>1. PICK i \in Slots : Merge(packets[i].timestamp)
      BY <2>2, UpdateKeepsPlay DEF Inv, Receiving, Poll
    <3> QED BY <3>1 DEF Merge
  <2>3. CASE TimePasses
    BY <2>3 DEF TimePasses, Tick
  <2>4. CASE \/ Encode \/ Partition \/ Emit \/ OnCommand
             \/ (\E k \in DOMAIN net : Duplicate(k)) \/ UNCHANGED streamVars
    BY <2>4 DEF Encode, Partition, Emit, OnCommand, Duplicate, streamVars, jvars
  <2> QED BY <2>1, <2>2, <2>3, <2>4, Zenon DEF StreamNext
<1> QED BY <1>1, <1>2, InvInvariant, PTL DEF StreamSpec, ReportsAreNew

-----------------------------------------------------------------------------
(* The numbers of the packets *)

(* Packets are numbered one after the other, and within a full turn of the *)
(* numbers two packets lie as far apart as their numbers, or a turn less.  *)
Numbered ==
  /\ sent # <<>> => vpx.seqnum = (sent[Len(sent)].seqnum + 1) % NSeqnums
  /\ \A i, k \in DOMAIN sent :
       i < k /\ k - i < NSeqnums =>
         \/ sent[k].seqnum = sent[i].seqnum + (k - i)
         \/ sent[k].seqnum = sent[i].seqnum + (k - i) - NSeqnums

(* As long as the numbers have not started again they lie as far apart as  *)
(* the packets.                                                            *)
Rising ==
  ~Fell(1, Len(sent)) =>
    \A i, k \in DOMAIN sent : sent[k].seqnum - sent[i].seqnum = k - i

(* The number after s.                                                     *)
LEMMA OneMore ==
  ASSUME NEW s \in Seqnums
  PROVE  (s + 1) % NSeqnums = IF s = NSeqnums - 1 THEN 0 ELSE s + 1
<1>1. NSeqnums \in Nat \ {0}
  BY NSeqnumsAssumption
<1>2. CASE s = NSeqnums - 1
  BY <1>1, <1>2, SMT
<1>3. CASE s # NSeqnums - 1
  <2>1. s + 1 \in 0 .. NSeqnums - 1
    BY <1>1, <1>3, SMT DEF Seqnums
  <2> QED BY <1>1, <1>3, <2>1, SMT
<1> QED BY <1>2, <1>3

(* Only Emit sends packets and moves the counter on.                       *)
LEMMA SentChanges ==
  ASSUME Inv, [StreamNext]_streamVars
  PROVE  Emit \/ (sent' = sent /\ vpx'.seqnum = vpx.seqnum /\ serves' = serves
                  /\ setting' = setting)
<1>1. CASE Partition
  BY <1>1, StepPartition DEF netVars
<1>2. CASE Encode
  BY <1>2 DEF Encode, netVars
<1>3. CASE \/ OnCommand \/ (\E k \in DOMAIN net : Duplicate(k) \/ Deliver(k))
           \/ TimePasses \/ UNCHANGED streamVars
  BY <1>3 DEF OnCommand, Duplicate, Deliver, TimePasses, streamVars, senderVars,
              netVars
<1>4. CASE Poll
  BY <1>4 DEF Poll, senderVars, netVars
<1> QED BY <1>1, <1>2, <1>3, <1>4, Zenon DEF StreamNext

(* Every step keeps Numbered.                                              *)
LEMMA NumberedStep ==
  ASSUME Inv, Numbered, [StreamNext]_streamVars
  PROVE  Numbered'
<1>1. CASE Emit
  <2>1. /\ sent \in Seq(WirePacket) /\ vpx.seqnum \in Seqnums
        /\ \A i \in DOMAIN sent : sent[i].seqnum \in Seqnums
    BY VpxFields DEF Inv, Sending
  <2>2. PICK n \in Nat : n = Len(sent)
    BY <2>1
  <2>3. /\ \A i \in 1 .. n : sent'[i] = sent[i]
        /\ Len(sent') = n + 1 /\ sent'[n + 1].seqnum = vpx.seqnum
        /\ DOMAIN sent' = 1 .. n + 1
    BY <1>1, <2>1, <2>2, Emission DEF Inv, Grown
  <2>4. vpx'.seqnum = (vpx.seqnum + 1) % NSeqnums
    BY <1>1, VpxEmits DEF Emit, Inv, Sending
  <2>5. NSeqnums \in Nat \ {0}
    BY NSeqnumsAssumption
  <2>6. ASSUME NEW i \in 1 .. n, n + 1 - i < NSeqnums
        PROVE  \/ sent'[n + 1].seqnum = sent'[i].seqnum + (n + 1 - i)
               \/ sent'[n + 1].seqnum = sent'[i].seqnum + (n + 1 - i) - NSeqnums
    <3> DEFINE a == sent[i].seqnum
               b == sent[n].seqnum
    <3>1. n \in 1 .. n /\ n >= 1
      BY <2>2
    <3>2. a \in Seqnums /\ b \in Seqnums
      BY <2>1, <2>2, <3>1
    <3>3. vpx.seqnum = IF b = NSeqnums - 1 THEN 0 ELSE b + 1
      <4>1. sent # <<>>
        BY <2>1, <2>2, <3>1
      <4> QED BY <2>2, <3>2, <4>1, OneMore DEF Numbered
    <3>4. i # n => b = a + (n - i) \/ b = a + (n - i) - NSeqnums
      <4>1. i # n => i < n /\ n - i < NSeqnums
        BY <2>2, <2>5, <2>6, <3>1
      <4>2. DOMAIN sent = 1 .. n
        BY <2>1, <2>2
      <4> QED BY <3>1, <4>1, <4>2 DEF Numbered
    <3>5. i = n => a = b
      OBVIOUS
    <3>6. sent'[n + 1].seqnum = vpx.seqnum /\ sent'[i].seqnum = a
      BY <2>3
    <3> HIDE DEF a, b
    <3>7. /\ a \in Nat /\ b \in Nat /\ a <= NSeqnums - 1 /\ b <= NSeqnums - 1
      BY <2>5, <3>2 DEF Seqnums
    <3> QED BY <2>2, <2>5, <2>6, <3>3, <3>4, <3>5, <3>6, <3>7
  <2>7. DOMAIN sent = 1 .. n
    BY <2>1, <2>2
  <2>8. ASSUME NEW i \in DOMAIN sent', NEW k \in DOMAIN sent', i < k,
               k - i < NSeqnums
        PROVE  \/ sent'[k].seqnum = sent'[i].seqnum + (k - i)
               \/ sent'[k].seqnum = sent'[i].seqnum + (k - i) - NSeqnums
    <3>1. CASE k = n + 1
      BY <2>2, <2>3, <2>6, <2>8, <3>1
    <3>2. CASE k # n + 1
      <4>1. i \in 1 .. n /\ k \in 1 .. n
        BY <2>2, <2>3, <2>8, <3>2
      <4> QED BY <2>3, <2>7, <2>8, <4>1 DEF Numbered
    <3> QED BY <3>1, <3>2
  <2>9. vpx'.seqnum = (sent'[Len(sent')].seqnum + 1) % NSeqnums
    BY <2>3, <2>4
  <2> QED BY <2>8, <2>9 DEF Numbered
<1>2. CASE sent' = sent /\ vpx'.seqnum = vpx.seqnum
  BY <1>2 DEF Numbered
<1> QED BY <1>1, <1>2, SentChanges

(* Every step keeps Rising.                                                *)
LEMMA RisingStep ==
  ASSUME NSeqnums > 1, Inv, Numbered, Rising, [StreamNext]_streamVars
  PROVE  Rising'
<1>1. CASE Emit
  <2>1. /\ sent \in Seq(WirePacket) /\ vpx.seqnum \in Seqnums
        /\ \A i \in DOMAIN sent : sent[i].seqnum \in Seqnums
    BY VpxFields DEF Inv, Sending
  <2>2. PICK n \in Nat : n = Len(sent)
    BY <2>1
  <2>3. /\ \A i \in 1 .. n : sent'[i] = sent[i]
        /\ Len(sent') = n + 1 /\ sent'[n + 1].seqnum = vpx.seqnum
        /\ DOMAIN sent' = 1 .. n + 1 /\ DOMAIN sent = 1 .. n
    BY <1>1, <2>1, <2>2, Emission DEF Inv, Grown
  <2>4. SUFFICES ASSUME ~Fell(1, Len(sent))'
                 PROVE  \A i, k \in DOMAIN sent' :
                          sent'[k].seqnum - sent'[i].seqnum = k - i
    BY DEF Rising
  <2>5. \A m \in 1 .. n : ~(sent'[m + 1].seqnum < sent'[m].seqnum)
    BY <2>2, <2>3, <2>4 DEF Fell
  <2>6. ~Fell(1, Len(sent))
    <3>1. \A m \in 1 .. n - 1 : m \in 1 .. n /\ m + 1 \in 1 .. n
      BY <2>2
    <3> QED BY <2>2, <2>3, <2>5, <3>1 DEF Fell
  <2>7. \A i, k \in 1 .. n : sent[k].seqnum - sent[i].seqnum = k - i
    BY <2>3, <2>6 DEF Rising
  <2>8. CASE n = 0
    BY <2>3, <2>8, <2>1, NSeqnumsAssumption DEF Seqnums
  <2>9. CASE n # 0
    <3>1. n \in 1 .. n
      BY <2>2, <2>9
    <3>2. vpx.seqnum = IF sent[n].seqnum = NSeqnums - 1 THEN 0
                                                  ELSE sent[n].seqnum + 1
      <4>1. sent # <<>>
        BY <2>1, <2>2, <2>9
      <4>2. vpx.seqnum = (sent[n].seqnum + 1) % NSeqnums
        BY <2>2, <4>1 DEF Numbered
      <4>3. sent[n].seqnum \in Seqnums
        BY <2>1, <2>3, <3>1
      <4> QED BY <4>2, <4>3, OneMore
    <3>3. ~(vpx.seqnum < sent[n].seqnum)
      BY <2>3, <2>5, <3>1
    <3>4. \A i \in 1 .. n : sent[i].seqnum \in Nat
      BY <2>1, <2>3, NSeqnumsAssumption DEF Seqnums
    <3>5. vpx.seqnum = sent[n].seqnum + 1
      BY <3>1, <3>2, <3>3, <3>4, NSeqnumsAssumption
    <3>6. \A i \in 1 .. n : /\ sent'[n + 1].seqnum - sent'[i].seqnum = n + 1 - i
                            /\ sent'[i].seqnum - sent'[n + 1].seqnum = i - (n + 1)
      <4> SUFFICES ASSUME NEW i \in 1 .. n
                   PROVE  /\ sent'[n + 1].seqnum - sent'[i].seqnum = n + 1 - i
                          /\ sent'[i].seqnum - sent'[n + 1].seqnum = i - (n + 1)
        OBVIOUS
      <4>1. sent[n].seqnum - sent[i].seqnum = n - i
        BY <2>7, <3>1
      <4>2. sent'[n + 1].seqnum = sent[n].seqnum + 1 /\ sent'[i] = sent[i]
        BY <2>3, <3>5
      <4> QED BY <3>1, <3>4, <4>1, <4>2
    <3>7. sent'[n + 1].seqnum - sent'[n + 1].seqnum = (n + 1) - (n + 1)
      BY <2>3, <3>1, <3>4, <3>5
    <3>8. \A i \in 1 .. n + 1 : i \in 1 .. n \/ i = n + 1
      OBVIOUS
    <3>9. ASSUME NEW i \in 1 .. n + 1, NEW k \in 1 .. n + 1
          PROVE  sent'[k].seqnum - sent'[i].seqnum = k - i
      <4>1. CASE i \in 1 .. n /\ k \in 1 .. n
        BY <2>3, <2>7, <4>1
      <4>2. CASE i = n + 1 \/ k = n + 1
        BY <3>6, <3>7, <3>8, <4>2
      <4> QED BY <3>8, <4>1, <4>2
    <3> QED BY <2>3, <3>9
  <2> QED BY <2>8, <2>9
<1>2. CASE sent' = sent
  BY <1>2 DEF Rising, Fell
<1> QED BY <1>1, <1>2, SentChanges

(* Both hold at the start, when nothing has been sent.                     *)
LEMMA NumbersInit == StreamInit => Numbered /\ Rising
BY DEF StreamInit, Numbered, Rising

-----------------------------------------------------------------------------
(* Losses *)

(* At most one datagram has been lost, and the numbers have not started    *)
(* again.                                                                  *)
OneLoss == losses <= 1 /\ ~Fell(1, Len(sent))

(* Losses are never made good, nor does a fall in the numbers go away.     *)
LEMMA OneLossBefore ==
  ASSUME Inv, [StreamNext]_streamVars
  PROVE  /\ losses' >= losses /\ losses \in Nat /\ losses' \in Nat
         /\ Fell(1, Len(sent)) => Fell(1, Len(sent))'
         /\ OneLoss' => OneLoss
<1>1. losses \in Nat /\ net \in Seq(Nat) /\ setting \in Settings
  BY SettingsAssumption DEF Inv, Sending, Underway
<1>2. ASSUME NEW row \in Seq(Nat), Transmit(row)
      PROVE  losses' >= losses /\ losses' \in Nat
  <2>1. PICK kept \in Selections(Len(row)) :
          losses' = losses + Len(row) - Len(kept)
    BY <1>2 DEF Transmit
  <2>2. kept \in Seq(1 .. Len(row)) /\ Len(kept) <= Len(row)
    BY Selected
  <2> QED BY <1>1, <2>1, <2>2
<1>3. losses' >= losses /\ losses' \in Nat
  <2>1. CASE Emit
    <3>1. PICK n \in Nat : n = Len(sent')
      BY <2>1, Emission DEF Inv
    <3>2. Transmit(<<n>>) /\ <<n>> \in Seq(Nat)
      BY <2>1, <3>1 DEF Emit
    <3> QED BY <1>2, <3>2
  <2>2. CASE OnCommand
    <3>1. PICK row \in Seq(Nat) :
            IF serves THEN Transmit(row) ELSE UNCHANGED <<net, losses>>
      BY <2>2, Answered DEF Inv
    <3> QED BY <1>1, <1>2, <3>1
  <2>3. ASSUME NEW k \in DOMAIN net, Deliver(k)
        PROVE  losses' >= losses /\ losses' \in Nat
    <3>1. Request([n \in 1 .. Cardinality(missing') |-> prev_seqnum + n])
      BY <2>3, Delivery DEF Inv
    <3>2. losses' = losses \/ losses' = losses + 1
      BY <3>1 DEF Request
    <3> QED BY <1>1, <3>2
  <2>4. CASE losses' = losses
    BY <1>1, <2>4
  <2>5. CASE Encode \/ Partition \/ TimePasses \/ UNCHANGED streamVars
    BY <2>4, <2>5 DEF Encode, Partition, TimePasses, streamVars, netVars
  <2>6. ASSUME NEW k \in DOMAIN net, Duplicate(k)
        PROVE  losses' = losses
    BY <2>6 DEF Duplicate
  <2>7. CASE Poll
    BY <2>4, <2>7, Polled DEF Inv, netVars
  <2> QED BY <2>1, <2>2, <2>3, <2>4, <2>5, <2>6, <2>7, Zenon DEF StreamNext
<1>4. Fell(1, Len(sent)) => Fell(1, Len(sent))'
  <2>1. CASE Emit
    <3>1. PICK n \in Nat : n = Len(sent) /\ DOMAIN sent = 1 .. n
      BY DEF Inv, Sending
    <3>2. Len(sent') = n + 1 /\ \A i \in 1 .. n : sent'[i] = sent[i]
      BY <2>1, <3>1, Emission DEF Inv, Grown
    <3>3. \A m \in 1 .. n - 1 : m \in 1 .. n /\ m + 1 \in 1 .. n
                                /\ m \in 1 .. (n + 1) - 1
      BY <3>1
    <3> QED BY <3>1, <3>2, <3>3 DEF Fell
  <2> QED BY <2>1, SentChanges DEF Fell
<1> QED BY <1>1, <1>3, <1>4 DEF OneLoss

(* While the numbers rise, a number stands for one packet.                 *)
LEMMA OnePerNumber ==
  ASSUME Inv, Rising, ~Fell(1, Len(sent)), NEW i \in DOMAIN sent
  PROVE  /\ sent[i].seqnum \in received => \E p \in added : p.data = i
         /\ \A k \in DOMAIN sent : i <= k => sent[i].seqnum <= sent[k].seqnum
<1>1. \A k \in DOMAIN sent : /\ sent[k].seqnum \in Int /\ k \in Nat
                             /\ sent[k].seqnum - sent[i].seqnum = k - i
  <2>1. \A k \in DOMAIN sent : sent[k].seqnum \in Seqnums /\ k \in Nat
    BY DEF Inv, Sending
  <2> QED BY <2>1, NSeqnumsAssumption DEF Rising, Seqnums
<1>2. ASSUME sent[i].seqnum \in received PROVE \E p \in added : p.data = i
  <2>1. PICK p \in added : p.seqnum = sent[i].seqnum
    BY <1>2 DEF Inv, Receiving
  <2>2. p.data \in DOMAIN sent /\ sent[p.data].seqnum = sent[i].seqnum
    BY <2>1 DEF Inv, Receiving, AsSent
  <2> QED BY <1>1, <2>2
<1>3. \A k \in DOMAIN sent : i <= k => sent[i].seqnum <= sent[k].seqnum
  BY <1>1
<1> QED BY <1>2, <1>3

(* A packet between the first to arrive and another that arrived arrives   *)
(* or is reported, as long as the numbers have not started again, unless   *)
(* the first one has the number 0 and it lies before the next higher one.  *)
(* With a single number (NSeqnums = 1) there would be nothing to tell      *)
(* packets apart by.                                                       *)
THEOREM NoLossInSilence ==
  ASSUME NSeqnums > 1
  PROVE  StreamSpec => []LossesReportedUntilWrap
<1>1. Inv /\ Rising => LossesReportedUntilWrap
  <2> SUFFICES ASSUME Inv, Rising, ~Fell(1, Len(sent)),
                      NEW j \in LostInSilence
               PROVE  Unwatched(sent[j].seqnum)
    BY DEF LossesReportedUntilWrap
  <2>1. /\ j \in DOMAIN sent /\ j \notin Arrived
        /\ sent[j].seqnum \notin reported
    BY DEF LostInSilence
  <2>2. PICK q \in added, r \in added :
          q.data < j /\ j < r.data /\ sent[q.data].seqnum = first_seqnum
    BY DEF LostInSilence, Arrived
  <2>3. q.data \in DOMAIN sent /\ r.data \in DOMAIN sent
    BY DEF Inv, Receiving, AsSent
  <2>4. /\ first_seqnum \in Nat /\ prev_seqnum \in Nat
        /\ \A i \in DOMAIN sent : sent[i].seqnum \in Nat /\ i \in Nat
    BY NSeqnumsAssumption DEF Inv, Sending, Receiving, TypeOK, Seqnums
  <2>5. first_seqnum < sent[j].seqnum /\ sent[j].seqnum < sent[r.data].seqnum
    <3>1. /\ sent[j].seqnum - sent[q.data].seqnum = j - q.data
          /\ sent[r.data].seqnum - sent[j].seqnum = r.data - j
      BY <2>1, <2>3 DEF Rising
    <3> QED BY <2>1, <2>2, <2>3, <2>4, <3>1
  <2>6. sent[r.data].seqnum <= prev_seqnum
    <3>1. r.seqnum \in received /\ r.seqnum = sent[r.data].seqnum
      BY DEF Inv, Receiving, AsSent
    <3> QED BY <3>1 DEF Inv, Receiving, SeqInv, HighestSoFar
  <2>7. sent[j].seqnum \in first_seqnum + 1 .. prev_seqnum
    BY <2>1, <2>3, <2>4, <2>5, <2>6
  <2>8. sent[j].seqnum \notin received
    BY <2>1, OnePerNumber DEF Arrived
  <2> QED BY <2>1, <2>7, <2>8 DEF Inv, Receiving, SeqInv, GapsAccounted
<1>2. Inv /\ Numbered /\ Rising /\ [StreamNext]_streamVars
        => Numbered' /\ Rising'
  BY NumberedStep, RisingStep
<1> QED BY <1>1, <1>2, NumbersInit, InvInvariant, PTL DEF StreamSpec

-----------------------------------------------------------------------------
(* Repetitions *)

(* The network has doubled the payload, or it may have been sent again.    *)
Excused(i) == i \in copied \/ (serves /\ sent[i].seqnum \in reported)

(* A payload that is not excused is in one place: on the way or in a slot. *)
OnePlace(i) ==
  /\ \A a, b \in DOMAIN net : net[a] = i /\ net[b] = i => a = b
  /\ \A a, b \in Slots : packets[a].data = i /\ packets[b].data = i => a = b
  /\ \A a \in DOMAIN net : \A b \in Slots : ~(net[a] = i /\ packets[b].data = i)

Once == \A i \in DOMAIN sent : ~Excused(i) => OnePlace(i)

(* What was sent, doubled, reported or stored is never taken back.         *)
LEMMA Monotone ==
  ASSUME Inv, [StreamNext]_streamVars
  PROVE  /\ Grown /\ serves' = serves
         /\ copied \subseteq copied' /\ reported \subseteq reported'
         /\ added \subseteq added'
<1>1. Grown /\ serves' = serves
  <2>1. CASE Emit
    BY <2>1, Emission DEF Inv, Emit
  <2>2. CASE sent' = sent /\ serves' = serves
    BY <2>2 DEF Grown
  <2> QED BY <2>1, <2>2, SentChanges
<1>2. copied \subseteq copied' /\ reported \subseteq reported' /\ added \subseteq added'
  <2>1. CASE Encode \/ Partition \/ Emit \/ OnCommand \/ UNCHANGED streamVars
    <3>1. UNCHANGED <<jvars, copied>>
      BY <2>1 DEF Encode, Partition, Emit, OnCommand, streamVars, netVars
    <3> QED BY <3>1 DEF jvars, vars, ringVars, seqVars
  <2>2. ASSUME NEW k \in DOMAIN net, Duplicate(k)
        PROVE  copied \subseteq copied' /\ UNCHANGED jvars
    BY <2>2 DEF Duplicate
  <2>3. ASSUME NEW k \in DOMAIN net, Deliver(k)
        PROVE  /\ copied \subseteq copied' /\ reported \subseteq reported'
               /\ added \subseteq added'
    <3>1. PICK p : Arrives(net[k], p)
      BY <2>3, Delivery DEF Inv
    <3>2. copied' = copied
      BY <2>3, Delivery DEF Inv
    <3> QED BY <3>1, <3>2 DEF Arrives, CheckSeqnum
  <2>4. CASE Poll
    BY <2>4, Polled DEF Inv, netVars, ringVars, seqVars
  <2>5. CASE TimePasses
    BY <2>5 DEF TimePasses, Tick, netVars, vars, ringVars, seqVars
  <2>6. UNCHANGED jvars => UNCHANGED <<reported, added>>
    BY DEF jvars, vars, ringVars, seqVars
  <2> QED BY <2>1, <2>2, <2>3, <2>4, <2>5, <2>6, Zenon DEF StreamNext
<1> QED BY <1>1, <1>2

(* A payload that is excused once is excused for ever.                     *)
LEMMA StaysExcused ==
  ASSUME Inv, [StreamNext]_streamVars, NEW i \in DOMAIN sent, Excused(i)
  PROVE  Excused(i)'
BY Monotone DEF Excused, Grown

(* What is in a slot has been sent, or nobody has written to the slot.     *)
LEMMA SlotPayloads ==
  ASSUME Inv, NEW b \in Slots
  PROVE  packets[b].data \in DOMAIN sent \/ packets[b].data = NoData
<1>1. packets[b] \in added \/ packets[b] \in Garbage
  BY DEF Inv, Receiving, Filled
<1>2. \A g \in Garbage : g.data = NoData
  BY GarbageAssumption DEF UninitSlot
<1> QED BY <1>1, <1>2 DEF Inv, Receiving, AsSent

(* Where the entries of the way come from after a transmission.            *)
LEMMA OnTheWay ==
  ASSUME Inv, NEW row \in Seq(Nat), Transmit(row)
  PROVE  \A a \in DOMAIN net' :
           \/ a \in DOMAIN net /\ net'[a] = net[a]
           \/ /\ a \notin DOMAIN net
              /\ \E k \in DOMAIN row : net'[a] = row[k]
              /\ Len(row) = 1 => a = Len(net) + 1
<1>1. /\ net \in Seq(Nat) /\ net' \in Seq(Nat)
      /\ \A a \in DOMAIN net : a \in DOMAIN net' /\ net'[a] = net[a]
  BY Transmitted DEF Inv, Underway, Sending
<1>2. PICK kept \in Selections(Len(row)) :
        /\ Len(net') = Len(net) + Len(kept)
        /\ \A b \in DOMAIN kept : net'[Len(net) + b] = row[kept[b]]
  BY Transmitted DEF Inv, Underway, Sending
<1>3. Len(row) \in Nat
  OBVIOUS
<1>4. /\ kept \in Seq(1 .. Len(row)) /\ Len(kept) <= Len(row)
      /\ Len(kept) \in Nat /\ DOMAIN kept = 1 .. Len(kept)
      /\ \A b \in DOMAIN kept : kept[b] \in DOMAIN row
  BY <1>3, Selected
<1> SUFFICES ASSUME NEW a \in DOMAIN net', a \notin DOMAIN net
             PROVE  /\ \E k \in DOMAIN row : net'[a] = row[k]
                    /\ Len(row) = 1 => a = Len(net) + 1
  BY <1>1
<1>5. PICK n \in Nat : n = Len(net)
  BY <1>1
<1>6. a \in 1 .. n + Len(kept) /\ a \notin 1 .. n
  BY <1>1, <1>2, <1>5
<1>7. a - n \in 1 .. Len(kept) /\ a = n + (a - n)
  BY <1>4, <1>5, <1>6
<1>8. net'[a] = row[kept[a - n]] /\ kept[a - n] \in DOMAIN row
  BY <1>2, <1>4, <1>5, <1>7
<1>9. Len(row) = 1 => a = n + 1
  BY <1>3, <1>4, <1>7
<1> QED BY <1>5, <1>8, <1>9

(* A new payload is in one place, if it is not lost.                       *)
LEMMA OnceEmit ==
  ASSUME Inv, Once, Emit
  PROVE  Once'
<1>1. PICK n \in Nat : n = Len(sent')
  BY Emission DEF Inv
<1>2. /\ Grown /\ DOMAIN sent' = 1 .. n /\ n \in Data
      /\ DOMAIN sent = 1 .. n - 1
  BY <1>1, Emission DEF Inv, Sending
<1>3. Transmit(<<n>>) /\ UNCHANGED <<jvars, copied, serves>>
  BY <1>1 DEF Emit
<1>4. packets' = packets /\ reported' = reported
  BY <1>3 DEF jvars, vars, ringVars, seqVars
<1>5. <<n>> \in Seq(Nat) /\ Len(<<n>>) = 1 /\ DOMAIN <<n>> = {1} /\ <<n>>[1] = n
  OBVIOUS
<1>6. \A a \in DOMAIN net' : \/ a \in DOMAIN net /\ net'[a] = net[a]
                             \/ a = Len(net) + 1 /\ net'[a] = n
  BY <1>3, <1>5, OnTheWay
<1>7. \A a \in DOMAIN net : net[a] \in DOMAIN sent
  BY DEF Inv, Underway
<1>8. \A b \in Slots : packets[b].data # n
  BY <1>2, SlotPayloads, StreamAssumption
<1>9. n \notin DOMAIN sent
  BY <1>2
<1>10. ASSUME NEW i \in DOMAIN sent', ~Excused(i)' PROVE OnePlace(i)'
  <2>1. CASE i = n
    BY <1>4, <1>6, <1>7, <1>8, <1>9, <2>1 DEF OnePlace
  <2>2. CASE i # n
    <3>1. i \in DOMAIN sent
      BY <1>2, <2>2
    <3>2. ~Excused(i)
      BY <1>2, <1>3, <1>4, <1>10, <3>1 DEF Excused, Grown
    <3>3. OnePlace(i)
      BY <3>1, <3>2 DEF Once
    <3> QED BY <1>4, <1>6, <2>2, <3>3 DEF OnePlace
  <2> QED BY <2>1, <2>2
<1> QED BY <1>10 DEF Once

(* What is sent again is excused.                                          *)
LEMMA OnceOnCommand ==
  ASSUME Inv, Once, OnCommand
  PROVE  Once'
<1>1. UNCHANGED <<jvars, copied, senderVars>>
  BY DEF OnCommand
<1>2. UNCHANGED <<packets, reported, serves, sent>>
  BY <1>1 DEF jvars, vars, ringVars, seqVars, senderVars
<1>3. PICK row \in Seq(Nat) :
        /\ \A k \in DOMAIN row : /\ row[k] \in DOMAIN sent
                                 /\ sent[row[k]].seqnum \in reported
        /\ IF serves THEN Transmit(row) ELSE UNCHANGED <<net, losses>>
  BY Answered DEF Inv
<1>4. \A a \in DOMAIN net' : \/ a \in DOMAIN net /\ net'[a] = net[a]
                             \/ serves /\ sent[net'[a]].seqnum \in reported
  <2>1. CASE serves
    BY <1>3, <2>1, OnTheWay
  <2>2. CASE ~serves
    BY <1>3, <2>2
  <2> QED BY <2>1, <2>2
<1>5. ASSUME NEW i \in DOMAIN sent', ~Excused(i)' PROVE OnePlace(i)'
  <2>1. ~Excused(i) /\ i \in DOMAIN sent
    BY <1>1, <1>2, <1>5 DEF Excused
  <2>2. \A a \in DOMAIN net' : net'[a] = i => a \in DOMAIN net /\ net[a] = i
    BY <1>4, <2>1 DEF Excused
  <2>3. OnePlace(i)
    BY <2>1 DEF Once
  <2> QED BY <1>2, <2>2, <2>3 DEF OnePlace
<1> QED BY <1>5 DEF Once

(* What the network doubles is excused.                                    *)
LEMMA OnceDuplicate ==
  ASSUME Inv, Once, NEW k \in DOMAIN net, Duplicate(k)
  PROVE  Once'
<1>1. /\ net' = InsertAt(net, k, net[k]) /\ copied' = copied \cup {net[k]}
      /\ UNCHANGED <<jvars, senderVars>>
  BY DEF Duplicate
<1>2. UNCHANGED <<packets, reported, serves, sent>>
  BY <1>1 DEF jvars, vars, ringVars, seqVars, senderVars
<1>3. net \in Seq(Nat) /\ k \in 1 .. Len(net) /\ net[k] \in Nat
  BY DEF Inv, Underway
<1>4. PICK m \in Nat : m = Len(net) /\ DOMAIN net = 1 .. m
  BY <1>3
<1>5. /\ net' \in Seq(Nat) /\ Len(net') = Len(net) + 1
      /\ \A i \in 1 .. Len(net) + 1 :
           /\ i < k => net'[i] = net[i]
           /\ i = k => net'[i] = net[k]
           /\ i > k => net'[i] = net[i - 1]
  BY <1>1, <1>3, InsertedFacts, Zenon
<1>6. DOMAIN net' = 1 .. m + 1
  BY <1>4, <1>5
<1> DEFINE from(a) == IF a < k THEN a ELSE a - 1
<1>7. ASSUME NEW i, i # net[k]
      PROVE  \A a \in DOMAIN net' :
               net'[a] = i => /\ from(a) \in DOMAIN net /\ net[from(a)] = i
                              /\ a # k
  <2> SUFFICES ASSUME NEW a \in 1 .. m + 1, net'[a] = i
               PROVE  from(a) \in DOMAIN net /\ net[from(a)] = i /\ a # k
    BY <1>6
  <2>1. /\ a < k => net'[a] = net[a]
        /\ a = k => net'[a] = net[k]
        /\ a > k => net'[a] = net[a - 1]
    BY <1>4, <1>5
  <2>2. a # k
    BY <1>7, <2>1
  <2>3. /\ a < k => a \in 1 .. m
        /\ a > k => a - 1 \in 1 .. m
    BY <1>3, <1>4
  <2> QED BY <1>3, <1>4, <2>1, <2>2, <2>3
<1>8. \A a, b \in 1 .. m + 1 : a # k /\ b # k /\ from(a) = from(b) => a = b
  BY <1>3, <1>4
<1> HIDE DEF from
<1>9. ASSUME NEW i \in DOMAIN sent', ~Excused(i)' PROVE OnePlace(i)'
  <2>1. ~Excused(i) /\ i \in DOMAIN sent /\ i # net[k]
    BY <1>1, <1>2, <1>9 DEF Excused
  <2>2. OnePlace(i)
    BY <2>1 DEF Once
  <2>3. \A a \in DOMAIN net' :
          net'[a] = i => from(a) \in DOMAIN net /\ net[from(a)] = i /\ a # k
    BY <1>7, <2>1
  <2> QED BY <1>2, <1>6, <1>8, <2>2, <2>3 DEF OnePlace
<1> QED BY <1>9 DEF Once

(* A payload that arrives leaves the way and enters one slot.              *)
LEMMA OnceDeliver ==
  ASSUME Inv, Once, NEW k \in DOMAIN net, Deliver(k)
  PROVE  Once'
<1>1. PICK p : Arrives(net[k], p)
  BY Delivery DEF Inv
<1>2. /\ net' = RemoveAt(net, k) /\ UNCHANGED senderVars
      /\ copied' = copied
  BY Delivery DEF Inv
<1>3. /\ p.data = net[k] /\ reported \subseteq reported'
      /\ sent' = sent /\ serves' = serves
  BY <1>1, <1>2 DEF Arrives, CheckSeqnum, senderVars
<1>4. \A b \in Slots : packets'[b] = IF b = dx THEN p ELSE packets[b]
  BY <1>1 DEF Arrives, Inv, Receiving, TypeOK
<1>5. net \in Seq(Nat) /\ k \in 1 .. Len(net)
  BY DEF Inv, Underway
<1>6. PICK m \in Nat : m = Len(net) /\ DOMAIN net = 1 .. m
  BY <1>5
<1>7. /\ net' \in Seq(Nat) /\ Len(net') = Len(net) - 1
      /\ \A i \in 1 .. Len(net) - 1 :
           net'[i] = IF i < k THEN net[i] ELSE net[i + 1]
  BY <1>2, <1>5, RemovedFacts, Zenon
<1>8. DOMAIN net' = 1 .. m - 1
  BY <1>6, <1>7
<1> DEFINE from(a) == IF a < k THEN a ELSE a + 1
<1>9. \A a \in DOMAIN net' : /\ from(a) \in DOMAIN net /\ net'[a] = net[from(a)]
                             /\ from(a) # k
  <2> SUFFICES ASSUME NEW a \in 1 .. m - 1
               PROVE  /\ from(a) \in DOMAIN net /\ net'[a] = net[from(a)]
                      /\ from(a) # k
    BY <1>8
  <2>1. net'[a] = net[from(a)]
    BY <1>6, <1>7
  <2> QED BY <1>5, <1>6, <2>1
<1>10. \A a, b \in DOMAIN net' : from(a) = from(b) => a = b
  BY <1>5, <1>8
<1> HIDE DEF from
<1>11. ASSUME NEW i \in DOMAIN sent', ~Excused(i)' PROVE OnePlace(i)'
  <2>1. ~Excused(i) /\ i \in DOMAIN sent
    BY <1>2, <1>3, <1>11 DEF Excused
  <2>2. OnePlace(i)
    BY <2>1 DEF Once
  <2>3. \A a, b \in DOMAIN net' : net'[a] = i /\ net'[b] = i => a = b
    BY <1>9, <1>10, <2>2 DEF OnePlace
  <2>4. \A a, b \in Slots : packets'[a].data = i /\ packets'[b].data = i => a = b
    BY <1>3, <1>4, <2>2 DEF OnePlace
  <2>5. \A a \in DOMAIN net' : \A b \in Slots :
          ~(net'[a] = i /\ packets'[b].data = i)
    BY <1>3, <1>4, <1>9, <2>2 DEF OnePlace
  <2> QED BY <2>3, <2>4, <2>5 DEF OnePlace
<1> QED BY <1>11 DEF Once

(* The steps that neither send nor deliver nor show.                       *)
LEMMA OnceStep ==
  ASSUME Inv, Once, [StreamNext]_streamVars
  PROVE  Once'
<1>1. CASE Emit
  BY <1>1, OnceEmit
<1>2. CASE OnCommand
  BY <1>2, OnceOnCommand
<1>3. ASSUME NEW k \in DOMAIN net, Duplicate(k) PROVE Once'
  BY <1>3, OnceDuplicate
<1>4. ASSUME NEW k \in DOMAIN net, Deliver(k) PROVE Once'
  BY <1>4, OnceDeliver
<1>5. CASE UNCHANGED <<net, packets, sent, serves, copied, reported>>
  BY <1>5 DEF Once, OnePlace, Excused
<1>6. CASE Encode \/ Partition \/ UNCHANGED streamVars
  <2>1. UNCHANGED <<jvars, serves, sent, net, copied>>
    BY <1>6 DEF Encode, Partition, streamVars, senderVars, netVars
  <2> QED BY <1>5, <2>1 DEF jvars, vars, ringVars, seqVars
<1>7. CASE TimePasses
  <2>1. UNCHANGED <<vars, senderVars, netVars>>
    BY <1>7 DEF TimePasses, Tick
  <2> QED BY <1>5, <2>1 DEF vars, ringVars, seqVars, senderVars, netVars
<1>8. CASE Poll
  <2>1. UNCHANGED <<ringVars, seqVars, senderVars, netVars>>
    BY <1>8, Polled DEF Inv
  <2> QED BY <1>5, <2>1 DEF ringVars, seqVars, senderVars, netVars
<1> QED BY <1>1, <1>2, <1>3, <1>4, <1>6, <1>7, <1>8, Zenon DEF StreamNext

(* Where the frame of a call of rxs_jitter_update comes from: from slots   *)
(* of one timestamp, each of them read once.                               *)
LEMMA FromSlots ==
  ASSUME Inv, Poll, shown' # shown
  PROVE  /\ shown' = Append(shown, frame') /\ Clean(frame)'
         /\ frame' \in Seq(Slot) /\ found_keyframe'
         /\ \E i \in Slots : \E q \in Seq(Slots) :
              /\ i = IF timeout = 0 THEN 0 ELSE curr_pkt
              /\ q # <<>>
              /\ \A j, k \in DOMAIN q : j < k => q[j] # q[k]
              /\ \A k \in DOMAIN q : packets[q[k]].timestamp = packets[i].timestamp
              /\ packets[q[Len(q)]].marker = 1
              /\ found_keyframe \/ \E k \in DOMAIN q : packets[q[k]].nonref = 0
              /\ frame' = [k \in 1 .. Len(q) |-> packets[q[k]]]
<1>1. /\ shown' = Append(shown, frame') /\ Clean(frame)' /\ frame' \in Seq(Slot)
      /\ frame' # <<>>
  BY Polled DEF Inv, Clean
<1>2. PICK i \in Slots : /\ i = IF timeout = 0 THEN 0 ELSE curr_pkt
                         /\ Merge(packets[i].timestamp)
  BY Handled DEF Inv
<1> DEFINE t == packets[i].timestamp
           S == FindTimestamp(packets, t)
<1>3. PICK q \in Seq(Slots) :
        /\ q # <<>> /\ q \in SortedBySeqnum(packets, S)
        /\ packets[q[Len(q)]].marker = 1 /\ HasKey(q) /\ found_keyframe'
        /\ frame' = [k \in 1 .. Len(q) |-> packets[q[k]]]
  BY <1>1, <1>2, MergeOutcome DEF Merge, Inv, Receiving
<1>4. \A k \in DOMAIN q : packets[q[k]].timestamp = t
  BY <1>3, SortedType
<1>5. \A j, k \in DOMAIN q : j < k => q[j] # q[k]
  <2>1. /\ DOMAIN q = 1 .. Cardinality(S)
        /\ \A j, k \in 1 .. Cardinality(S) : j < k => q[j] # q[k]
    BY <1>3 DEF SortedBySeqnum
  <2> QED BY <2>1
<1> QED BY <1>1, <1>2, <1>3, <1>4, <1>5 DEF HasKey

(* Nothing is decoded twice by mistake: a payload that stands twice in a   *)
(* frame was doubled by the network, or was asked for and sent again.      *)
THEOREM RepeatsAreExcused == StreamSpec => []RepeatedOnlyIfCopied
<1>1. StreamInit => Once /\ RepeatedOnlyIfCopied
  BY DEF StreamInit, Once, RepeatedOnlyIfCopied
<1>2. Inv /\ Once /\ RepeatedOnlyIfCopied /\ [StreamNext]_streamVars
        => RepeatedOnlyIfCopied'
  <2> SUFFICES ASSUME Inv, Once, RepeatedOnlyIfCopied, [StreamNext]_streamVars
               PROVE  RepeatedOnlyIfCopied'
    OBVIOUS
  <2> DEFINE Excuse(f) == \A j, k \in DOMAIN f :
               j # k /\ f[j].data # NoData /\ f[j].data = f[k].data
                 => Excused(f[j].data)
  <2>1. \A n \in DOMAIN shown : Excuse(shown[n])
    BY DEF RepeatedOnlyIfCopied, Excused
  <2>2. ASSUME NEW n \in DOMAIN shown,
               NEW j \in DOMAIN shown[n], shown[n][j].data # NoData
        PROVE  shown[n][j].data \in DOMAIN sent
    <3>1. shown[n][j] \in added \cup Garbage
      BY <2>2 DEF Inv, Showing, Clean
    <3>2. shown[n][j] \in added
      BY <2>2, <3>1, GarbageAssumption DEF UninitSlot
    <3> QED BY <3>2 DEF Inv, Receiving, AsSent
  <2>3. \A i \in DOMAIN sent : Excused(i) => Excused(i)'
    BY StaysExcused
  <2>4. ASSUME NEW n \in DOMAIN shown,
               NEW j \in DOMAIN shown[n], NEW k \in DOMAIN shown[n],
               NEW i, j # k, i # NoData, i = shown[n][j].data, i = shown[n][k].data
        PROVE  Excused(i)'
    BY <2>1, <2>2, <2>3, <2>4
  <2>5. CASE shown' = shown
    BY <2>4, <2>5 DEF RepeatedOnlyIfCopied, Excused
  <2>6. CASE Poll /\ shown' # shown
    <3>1. PICK t \in Slots, q \in Seq(Slots) :
            /\ \A j, k \in DOMAIN q : j < k => q[j] # q[k]
            /\ frame' = [k \in 1 .. Len(q) |-> packets[q[k]]]
            /\ shown' = Append(shown, frame')
      BY <2>6, FromSlots
    <3>2. DOMAIN q = 1 .. Len(q) /\ \A k \in DOMAIN q : q[k] \in Slots
      OBVIOUS
    <3>3. UNCHANGED <<sent, serves, copied, reported>>
      BY <2>6, Polled DEF Inv, ringVars, seqVars, senderVars, netVars
    <3>4. ASSUME NEW j \in DOMAIN frame', NEW k \in DOMAIN frame',
                 j # k, frame'[j].data # NoData, frame'[j].data = frame'[k].data
          PROVE  Excused(frame'[j].data)
      <4>1. /\ j \in DOMAIN q /\ k \in DOMAIN q /\ j \in Int /\ k \in Int
            /\ frame'[j] = packets[q[j]] /\ frame'[k] = packets[q[k]]
        BY <3>1, <3>2, <3>4
      <4>2. q[j] # q[k]
        <5>1. j < k \/ k < j
          BY <3>4, <4>1
        <5> QED BY <3>1, <4>1, <5>1
      <4>3. q[j] \in Slots /\ q[k] \in Slots /\ packets[q[j]].data \in DOMAIN sent
        BY <3>2, <3>4, <4>1, SlotPayloads
      <4> QED BY <3>4, <4>1, <4>2, <4>3 DEF Once, OnePlace
    <3>5. \A n \in DOMAIN shown' : \/ n \in DOMAIN shown /\ shown'[n] = shown[n]
                                   \/ shown'[n] = frame'
      BY <2>6, <3>1, Polled DEF Inv, Showing
    <3>6. ASSUME NEW n \in DOMAIN shown',
                 NEW j \in DOMAIN shown'[n], NEW k \in DOMAIN shown'[n],
                 NEW i, j # k, i # NoData, i = shown'[n][j].data,
                 i = shown'[n][k].data
          PROVE  Excused(i)'
      <4>1. CASE n \in DOMAIN shown /\ shown'[n] = shown[n]
        BY <2>4, <3>6, <4>1
      <4>2. CASE shown'[n] = frame'
        BY <3>3, <3>4, <3>6, <4>2 DEF Excused
      <4> QED BY <3>5, <4>1, <4>2
    <3> QED BY <3>6 DEF RepeatedOnlyIfCopied, Excused
  <2>7. shown' = shown \/ Poll
    BY DEF StreamNext, Encode, Partition, Emit, OnCommand, Duplicate, Deliver,
           TimePasses, streamVars
  <2> QED BY <2>5, <2>6, <2>7
<1>3. Inv /\ Once /\ [StreamNext]_streamVars => Once'
  BY OnceStep
<1> QED BY <1>1, <1>2, <1>3, InvInvariant, PTL DEF StreamSpec

-----------------------------------------------------------------------------
(* The packets of a frame *)

(* The RTP time and the kind of the f-th frame.                            *)
FrameTime(s, f) == ((s.pts + f) * TicksPerPts) % NTimestamps
Kind(f) == IF f \in KeyFrames THEN 0 ELSE 1

(* No two frames have the same RTP time: less than 2^32 ticks, some 13     *)
(* hours, are encoded.                                                     *)
TimesApart ==
  \A s \in Settings : \A f, g \in 1 .. MaxFrames :
    FrameTime(s, f) = FrameTime(s, g) => f = g

(* No slot that malloc hands out happens to hold the time of a frame: the  *)
(* ring is a large block, that is zeroed memory, and frames count from 1.  *)
MemoryApart ==
  \A s \in Settings : \A f \in 1 .. MaxFrames : \A g \in Garbage :
    g.timestamp # ToNs(FrameTime(s, f))

(* What the sender cuts is the frame encoded last, and every packet sent   *)
(* carries the time and the kind of the frame that it was cut from.        *)
Cutting ==
  /\ nframes \in 0 .. MaxFrames
  /\ todo # <<>> => nframes >= 1
  /\ ~Tx!Idle => /\ nframes >= 1
                 /\ vpx.timestamp = FrameTime(setting, nframes)
                 /\ vpx.nonref = Kind(nframes)
                 /\ fragment <=> todo # <<>>
  /\ \A i \in DOMAIN sent : \E f \in 1 .. nframes :
       /\ sent[i].timestamp = FrameTime(setting, f)
       /\ sent[i].nonref = Kind(f)

(* A packet with the marker is the last of its frame.                      *)
MarkerEnds ==
  /\ \A i, k \in DOMAIN sent :
       sent[i].marker = 1 /\ sent[k].timestamp = sent[i].timestamp => k <= i
  /\ \A i \in DOMAIN sent :
       sent[i].marker = 1 /\ sent[i].timestamp = FrameTime(setting, nframes)
         => Tx!Idle /\ todo = <<>>

(* The steps in which the sender changes at all.                           *)
LEMMA SenderSteps ==
  ASSUME Inv, [StreamNext]_streamVars
  PROVE  /\ setting' = setting
         /\ Encode \/ Partition \/ Emit \/ UNCHANGED senderVars
<1>1. CASE Emit \/ Encode
  BY <1>1 DEF Emit, Encode, netVars
<1>2. CASE Partition
  BY <1>2, StepPartition DEF netVars
<1>3. CASE \/ OnCommand \/ (\E k \in DOMAIN net : Duplicate(k) \/ Deliver(k))
           \/ TimePasses \/ UNCHANGED streamVars
  BY <1>3 DEF OnCommand, Duplicate, Deliver, TimePasses, streamVars, netVars
<1>4. CASE Poll
  BY <1>4, Polled DEF Inv, netVars
<1> QED BY <1>1, <1>2, <1>3, <1>4 DEF StreamNext

(* What a packet says of its frame when it is sent.                        *)
LEMMA EmittedFields ==
  ASSUME Inv, Emit
  PROVE  LET n == Len(sent) + 1
         IN  /\ n \in Nat /\ DOMAIN sent = 1 .. n - 1 /\ DOMAIN sent' = 1 .. n
             /\ \A i \in DOMAIN sent : sent'[i] = sent[i]
             /\ sent'[n].timestamp = vpx.timestamp
             /\ sent'[n].nonref = vpx.nonref
             /\ sent'[n].marker = 1 => vpx'.frame_len = 0 /\ ~fragment
             /\ ~Tx!Idle
             /\ vpx'.timestamp = vpx.timestamp /\ vpx'.nonref = vpx.nonref
             /\ UNCHANGED <<todo, nframes, fragment, setting>>
<1>1. Tx!EmitPacket /\ UNCHANGED <<todo, nframes, setting>>
  BY DEF Emit
<1>2. ~Tx!Idle /\ fragment' = fragment
  BY <1>1 DEF Tx!EmitPacket
<1>3. PICK n \in Nat : n = Len(sent) + 1
  BY Emission DEF Inv
<1>4. /\ Len(sent') = n /\ sent'[n] = Tx!CurrentPacket
      /\ sent' \in Seq(WirePacket) /\ sent \in Seq(WirePacket)
      /\ \A i \in DOMAIN sent : sent'[i] = sent[i]
  BY <1>3, Emission DEF Inv, Sending, Grown
<1>5. DOMAIN sent = 1 .. n - 1 /\ DOMAIN sent' = 1 .. n
  BY <1>3, <1>4
<1>6. /\ vpx'.timestamp = vpx.timestamp /\ vpx'.nonref = vpx.nonref
      /\ Tx!Marker = 1 => vpx'.frame_len = 0 /\ ~fragment
  BY <1>1, VpxEmits DEF Inv, Sending
<1>7. /\ Tx!CurrentPacket.timestamp = vpx.timestamp
      /\ Tx!CurrentPacket.nonref = vpx.nonref
      /\ Tx!CurrentPacket.marker = Tx!Marker
  BY DEF Tx!CurrentPacket
<1> QED BY <1>1, <1>2, <1>3, <1>4, <1>5, <1>6, <1>7

(* Every step keeps Cutting.                                               *)
LEMMA CuttingStep ==
  ASSUME Inv, Cutting, [StreamNext]_streamVars
  PROVE  Cutting'
<1>1. MaxFrames \in Nat /\ nframes \in Nat
  BY StreamAssumption DEF Cutting
<1>2. CASE Encode
  <2>1. /\ Tx!Idle /\ nframes < MaxFrames /\ nframes' = nframes + 1
        /\ UNCHANGED <<vpx, fragment, sent, setting>>
    BY <1>2 DEF Encode, netVars
  <2>2. Tx!Idle'
    BY <2>1 DEF Tx!Idle
  <2>3. nframes' \in 0 .. MaxFrames /\ nframes' >= 1
    BY <1>1, <2>1
  <2>4. \A f \in 1 .. nframes : f \in 1 .. nframes'
    BY <1>1, <2>1
  <2> QED BY <2>1, <2>2, <2>3, <2>4 DEF Cutting
<1>3. CASE Partition
  <2>1. /\ UNCHANGED <<nframes, sent, setting>>
        /\ todo # <<>> /\ todo' = Tail(todo) /\ todo \in Seq(Nat)
        /\ fragment' = (Len(todo) > 1)
        /\ vpx'.timestamp = FrameTime(setting, nframes)
        /\ vpx'.nonref = Kind(nframes)
    BY <1>3, StepPartition DEF netVars, FrameTime, Kind, Inv, Sending
  <2>2. fragment' <=> todo' # <<>>
    <3>1. todo' \in Seq(Nat) /\ Len(todo') = Len(todo) - 1 /\ Len(todo) \in Nat
      BY <2>1
    <3>2. (Len(todo') = 0) <=> (todo' = <<>>)
      BY <3>1, EmptySeq, Zenon
    <3>3. Len(todo) # 0
      BY <2>1, EmptySeq
    <3>4. (Len(todo) > 1) <=> (Len(todo') # 0)
      BY <3>1, <3>3
    <3> QED BY <2>1, <3>2, <3>4, Zenon
  <2> QED BY <2>1, <2>2 DEF Cutting
<1>4. CASE Emit
  <2>1. PICK n \in Nat : n = Len(sent) + 1
    BY <1>4, EmittedFields
  <2>2. /\ DOMAIN sent = 1 .. n - 1 /\ DOMAIN sent' = 1 .. n
        /\ \A i \in DOMAIN sent : sent'[i] = sent[i]
        /\ sent'[n].timestamp = vpx.timestamp
        /\ sent'[n].nonref = vpx.nonref
        /\ ~Tx!Idle
        /\ vpx'.timestamp = vpx.timestamp /\ vpx'.nonref = vpx.nonref
        /\ UNCHANGED <<todo, nframes, fragment, setting>>
    BY <1>4, <2>1, EmittedFields
  <2>3. /\ nframes \in 1 .. nframes
        /\ vpx.timestamp = FrameTime(setting, nframes)
        /\ vpx.nonref = Kind(nframes)
        /\ fragment <=> todo # <<>>
    BY <1>1, <2>2 DEF Cutting
  <2>4. ASSUME NEW i \in DOMAIN sent'
        PROVE  \E f \in 1 .. nframes :
                 /\ sent'[i].timestamp = FrameTime(setting, f)
                 /\ sent'[i].nonref = Kind(f)
    <3>1. CASE i = n
      BY <2>2, <2>3, <3>1
    <3>2. CASE i \in DOMAIN sent
      BY <2>2, <3>2 DEF Cutting
    <3> QED BY <2>2, <3>1, <3>2
  <2>5. \A f : FrameTime(setting, f)' = FrameTime(setting, f)
    BY <2>2 DEF FrameTime
  <2> QED BY <2>2, <2>3, <2>4, <2>5 DEF Cutting, FrameTime
<1>5. CASE UNCHANGED <<setting, senderVars>>
  BY <1>5 DEF senderVars, Cutting, Tx!Idle
<1> QED BY <1>2, <1>3, <1>4, <1>5, SenderSteps

(* Every step keeps MarkerEnds, if no two frames share a timestamp.        *)
LEMMA MarkerStep ==
  ASSUME TimesApart, Inv, Cutting, MarkerEnds, [StreamNext]_streamVars
  PROVE  MarkerEnds'
<1>1. CASE Encode
  <2>1. /\ nframes < MaxFrames /\ nframes' = nframes + 1 /\ nframes \in Nat
        /\ MaxFrames \in Nat /\ UNCHANGED <<sent, setting>>
    BY <1>1, StreamAssumption DEF Encode, netVars, Cutting
  <2>2. setting \in Settings
    BY DEF Inv, Sending
  <2>3. ASSUME NEW i \in DOMAIN sent
        PROVE  sent[i].timestamp # FrameTime(setting, nframes + 1)
    <3>1. PICK f \in 1 .. nframes : sent[i].timestamp = FrameTime(setting, f)
      BY DEF Cutting
    <3>2. f \in 1 .. MaxFrames /\ nframes + 1 \in 1 .. MaxFrames /\ f # nframes + 1
      BY <2>1
    <3> QED BY <2>2, <3>1, <3>2 DEF TimesApart
  <2> QED BY <2>1, <2>3 DEF MarkerEnds
<1>2. CASE Partition
  <2>1. todo # <<>> /\ UNCHANGED <<nframes, sent, setting>>
    BY <1>2, StepPartition DEF netVars
  <2> QED BY <2>1 DEF MarkerEnds
<1>3. CASE Emit
  <2>1. PICK n \in Nat : n = Len(sent) + 1
    BY <1>3, EmittedFields
  <2>2. /\ DOMAIN sent = 1 .. n - 1 /\ DOMAIN sent' = 1 .. n
        /\ \A i \in DOMAIN sent : sent'[i] = sent[i]
        /\ sent'[n].timestamp = vpx.timestamp
        /\ sent'[n].marker = 1 => vpx'.frame_len = 0 /\ ~fragment
        /\ ~Tx!Idle /\ UNCHANGED <<todo, nframes, setting>>
    BY <1>3, <2>1, EmittedFields
  <2>3. /\ vpx.timestamp = FrameTime(setting, nframes)
        /\ fragment <=> todo # <<>>
    BY <2>2 DEF Cutting
  <2>4. \A i \in DOMAIN sent : ~(/\ sent[i].marker = 1
                                /\ sent[i].timestamp = vpx.timestamp)
    BY <2>2, <2>3 DEF MarkerEnds
  <2>5. ASSUME NEW i \in 1 .. n, NEW k \in 1 .. n, sent'[i].marker = 1,
               sent'[k].timestamp = sent'[i].timestamp
        PROVE  k <= i
    <3>1. CASE i = n
      BY <3>1
    <3>2. CASE i # n /\ k = n
      <4>1. i \in DOMAIN sent
        BY <2>1, <2>2, <3>2
      <4> QED BY <2>2, <2>4, <2>5, <3>2, <4>1
    <3>3. CASE i # n /\ k # n
      <4>1. i \in DOMAIN sent /\ k \in DOMAIN sent
        BY <2>1, <2>2, <3>3
      <4> QED BY <2>2, <2>5, <4>1 DEF MarkerEnds
    <3> QED BY <3>1, <3>2, <3>3
  <2>6. ASSUME NEW i \in 1 .. n, sent'[i].marker = 1,
               sent'[i].timestamp = FrameTime(setting, nframes)
        PROVE  Tx!Idle' /\ todo' = <<>>
    <3>1. i = n
      BY <2>1, <2>2, <2>3, <2>4, <2>6
    <3> QED BY <2>2, <2>3, <2>6, <3>1 DEF Tx!Idle
  <2> QED BY <2>2, <2>5, <2>6 DEF MarkerEnds, FrameTime
<1>4. CASE UNCHANGED <<setting, senderVars>>
  BY <1>4 DEF senderVars, MarkerEnds, Tx!Idle
<1> QED BY <1>1, <1>2, <1>3, <1>4, SenderSteps

(* Both hold at the start, when nothing has been sent.                     *)
LEMMA CuttingInit == StreamInit => Cutting /\ MarkerEnds
<1> SUFFICES ASSUME StreamInit PROVE Cutting /\ MarkerEnds
  OBVIOUS
<1>1. sent = <<>> /\ todo = <<>> /\ nframes = 0 /\ vpx.frame_len = 0
  BY DEF StreamInit, Tx!Init
<1>2. 0 \in 0 .. MaxFrames
  BY StreamAssumption
<1> QED BY <1>1, <1>2 DEF Cutting, MarkerEnds, Tx!Idle

(* The three parts together are an invariant.                              *)
LEMMA CuttingInvariant ==
  ASSUME TimesApart
  PROVE  StreamSpec => [](Inv /\ Cutting /\ MarkerEnds)
<1>1. Inv /\ Cutting /\ MarkerEnds /\ [StreamNext]_streamVars
        => Cutting' /\ MarkerEnds'
  BY CuttingStep, MarkerStep
<1> QED BY <1>1, CuttingInit, InvInvariant, PTL DEF StreamSpec

-----------------------------------------------------------------------------
(* The frames that are shown *)

(* Different RTP times differ in nanoseconds.                              *)
LEMMA ToNsOneToOne ==
  ASSUME NEW a \in Nat, NEW b \in Nat, ToNs(a) = ToNs(b)
  PROVE  a = b
<1>1. PICK n \in Nat \ {0} : n = NsPerTick
  BY NsPerTickAssumption
<1>2. a * n = b * n
  BY <1>1 DEF ToNs
<1>3. (a - b) * n = 0
  BY <1>1, <1>2
<1> QED BY <1>1, <1>3

(* The conversion to nanoseconds keeps the order.                          *)
LEMMA ToNsOrder ==
  ASSUME NEW a \in Nat, NEW b \in Nat, ToNs(a) < ToNs(b)
  PROVE  a < b
<1>1. PICK n \in Nat \ {0} : n = NsPerTick
  BY NsPerTickAssumption
<1>2. a * n < b * n
  BY <1>1 DEF ToNs
<1>3. (b - a) * n > 0
  BY <1>1, <1>2
<1> QED BY <1>1, <1>3

(* An RTP time is a natural number.                                        *)
LEMMA SentTimes ==
  ASSUME Inv, NEW i \in DOMAIN sent
  PROVE  sent[i].timestamp \in Nat
<1>1. sent[i] \in WirePacket
  BY DEF Inv, Sending
<1>2. \A x \in WirePacket : x.timestamp \in U32
  BY DEF WirePacket
<1>3. \A v \in U32 : v \in Nat
  BY SMT DEF U32
<1> QED BY <1>1, <1>2, <1>3

(* A frame that was shown, seen from the row of packets sent.              *)
LEMMA ShownFrame ==
  ASSUME Inv, Cutting, MarkerEnds, NEW n \in DOMAIN shown
  PROVE  LET f == shown[n]
             m == f[Len(f)].data
         IN  /\ f \in Seq(Slot) /\ 1 \in DOMAIN f /\ Len(f) \in DOMAIN f
             /\ f[Len(f)] \in added /\ m \in WholeFrame(f)
             /\ \A i \in WholeFrame(f) : sent[i].timestamp = sent[m].timestamp
             /\ m = Max(WholeFrame(f))
             /\ \A i \in WholeFrame(f) : i <= m
             /\ \A k \in DOMAIN f :
                  f[k] \in added => f[k].data \in WholeFrame(f)
             /\ MemoryApart => \A k \in DOMAIN f : f[k] \in added
<1> DEFINE f == shown[n]
           m == f[Len(f)].data
<1>1. /\ f \in Seq(Slot) /\ f # <<>>
      /\ f[Len(f)] \in added /\ f[Len(f)].marker = 1
      /\ \A k \in DOMAIN f : /\ f[k] \in added \cup Garbage
                             /\ f[k].timestamp = f[Len(f)].timestamp
  BY DEF Inv, Showing, Clean
<1>2. 1 \in DOMAIN f /\ Len(f) \in DOMAIN f
  BY <1>1, EmptySeq
<1>3. \A p \in added : AsSent(p)
  BY DEF Inv, Receiving
<1>4. /\ m \in DOMAIN sent /\ sent[m].marker = 1
      /\ f[1].timestamp = ToNs(sent[m].timestamp)
  BY <1>1, <1>2, <1>3 DEF AsSent
<1>5. m \in WholeFrame(f)
  BY <1>4 DEF WholeFrame
<1>6. \A i \in DOMAIN sent : sent[i].timestamp \in Nat
  BY SentTimes
<1>7. ASSUME NEW i \in WholeFrame(f) PROVE sent[i].timestamp = sent[m].timestamp
  <2>1. i \in DOMAIN sent /\ ToNs(sent[i].timestamp) = ToNs(sent[m].timestamp)
    BY <1>4 DEF WholeFrame
  <2> QED BY <1>4, <1>6, <2>1, ToNsOneToOne
<1>8. \A i \in WholeFrame(f) : i <= m
  BY <1>4, <1>7 DEF MarkerEnds, WholeFrame
<1>9. WholeFrame(f) \subseteq Int
  BY DEF WholeFrame, Inv, Sending
<1>10. m = Max(WholeFrame(f))
  <2> DEFINE W == WholeFrame(f)
  <2>1. m \in W /\ W \subseteq Int /\ \A i \in W : i <= m
    BY <1>5, <1>8, <1>9
  <2> HIDE DEF W, m, f
  <2>2. \A i \in W : m >= i
    BY <2>1
  <2>3. \A x \in W : (\A y \in W : x >= y) => x = m
    BY <2>1
  <2>4. Max(W) = m
    BY <2>1, <2>2, <2>3 DEF Max
  <2> QED BY <2>4 DEF W
<1>11. \A k \in DOMAIN f : f[k] \in added => f[k].data \in WholeFrame(f)
  BY <1>1, <1>2, <1>3 DEF AsSent, WholeFrame
<1>12. ASSUME MemoryApart, NEW k \in DOMAIN f PROVE f[k] \in added
  <2>1. PICK g \in 1 .. nframes : sent[m].timestamp = FrameTime(setting, g)
    BY <1>4 DEF Cutting
  <2>2. g \in 1 .. MaxFrames /\ setting \in Settings
    BY StreamAssumption DEF Cutting, Inv, Sending
  <2>3. f[k].timestamp = ToNs(FrameTime(setting, g))
    BY <1>1, <1>2, <1>4, <2>1
  <2>4. f[k] \notin Garbage
    BY <1>12, <2>2, <2>3 DEF MemoryApart
  <2> QED BY <1>1, <2>4
<1> QED BY <1>1, <1>2, <1>5, <1>7, <1>8, <1>10, <1>11, <1>12

(* The packets of one frame are fewer than there are sequence numbers.     *)
ShortFrames ==
  \A i, k \in DOMAIN sent :
    sent[i].timestamp = sent[k].timestamp => k - i < NSeqnums

(* Two numbers within a frame lie as far apart as the packets, if the last *)
(* one is the highest.                                                     *)
LEMMA NumbersWithin ==
  ASSUME Inv, Numbered, NEW i \in DOMAIN sent, NEW m \in DOMAIN sent,
         i <= m, m - i < NSeqnums, sent[i].seqnum <= sent[m].seqnum
  PROVE  sent[m].seqnum = sent[i].seqnum + (m - i)
<1>1. /\ i \in Nat /\ m \in Nat /\ NSeqnums \in Nat
      /\ sent[i].seqnum \in Nat /\ sent[m].seqnum \in Nat
  BY NSeqnumsAssumption DEF Inv, Sending, Seqnums
<1>2. CASE i = m
  BY <1>1, <1>2
<1>3. CASE i < m
  <2> DEFINE a == sent[i].seqnum
             b == sent[m].seqnum
             d == m - i
  <2>1. b = a + d \/ b = a + d - NSeqnums
    BY <1>3 DEF Numbered
  <2>2. /\ a \in Nat /\ b \in Nat /\ d \in Nat
        /\ d < NSeqnums /\ a <= b
    BY <1>1, <1>3
  <2> HIDE DEF a, b, d
  <2>3. b = a + d
    BY <1>1, <2>1, <2>2
  <2> QED BY <2>3 DEF a, b, d
<1> QED BY <1>1, <1>2, <1>3

(* A frame that is shown consists of packets of one frame of the encoder,  *)
(* in the order in which they were sent, and ends with the last of them,   *)
(* whatever was lost, doubled or overtaken in between.                     *)
THEOREM ShownFramesAreUnmixed ==
  ASSUME TimesApart, MemoryApart
  PROVE  StreamSpec => [](ShortFrames => FramesNotMixed)
<1>1. Inv /\ Numbered /\ Cutting /\ MarkerEnds
        => (ShortFrames => FramesNotMixed)
  <2> SUFFICES ASSUME Inv, Numbered, Cutting, MarkerEnds, ShortFrames,
                      NEW n \in DOMAIN shown
               PROVE  LET f == shown[n]
                      IN  /\ Parts(f) \subseteq WholeFrame(f)
                          /\ f[Len(f)].data = Max(WholeFrame(f))
                          /\ \A j, k \in DOMAIN f : j < k => f[j].data <= f[k].data
    BY DEF FramesNotMixed
  <2> DEFINE f == shown[n]
             m == f[Len(f)].data
  <2>1. /\ m \in WholeFrame(f) /\ m = Max(WholeFrame(f)) /\ Len(f) \in DOMAIN f
        /\ \A i \in WholeFrame(f) : /\ sent[i].timestamp = sent[m].timestamp
                                    /\ i <= m
        /\ \A k \in DOMAIN f : f[k] \in added /\ f[k].data \in WholeFrame(f)
        /\ f \in Seq(Slot)
    BY ShownFrame
  <2>2. Parts(f) \subseteq WholeFrame(f)
    BY <2>1 DEF Parts
  <2>3. \A p \in added : p.seqnum = sent[p.data].seqnum
    BY DEF Inv, Receiving, AsSent
  <2>4. \A j, k \in DOMAIN f : j < k => f[j].seqnum <= f[k].seqnum
    BY DEF Inv, Showing, Clean
  <2> HIDE DEF f, m
  <2>5. ASSUME NEW j \in DOMAIN f
        PROVE  /\ f[j].data \in DOMAIN sent
               /\ sent[m].seqnum = sent[f[j].data].seqnum + (m - f[j].data)
    <3>1. /\ f[j].data \in DOMAIN sent /\ m \in DOMAIN sent
          /\ f[j].data <= m /\ m - f[j].data < NSeqnums
      BY <2>1 DEF WholeFrame, ShortFrames
    <3>2. f[j].seqnum <= f[Len(f)].seqnum
      <4>1. j = Len(f) \/ j < Len(f)
        BY <2>1
      <4>2. f[j].seqnum \in Nat
        BY <2>1, <2>3, <3>1, NSeqnumsAssumption DEF Inv, Sending, Seqnums
      <4> QED BY <2>1, <2>4, <4>1, <4>2
    <3>3. sent[f[j].data].seqnum <= sent[m].seqnum
      BY <2>1, <2>3, <3>2 DEF m
    <3> QED BY <3>1, <3>3, NumbersWithin
  <2>6. ASSUME NEW j \in DOMAIN f, NEW k \in DOMAIN f, j < k
        PROVE  f[j].data <= f[k].data
    <3>1. sent[f[j].data].seqnum <= sent[f[k].data].seqnum
      BY <2>1, <2>3, <2>4, <2>6
    <3>2. /\ f[j].data \in DOMAIN sent /\ f[k].data \in DOMAIN sent
          /\ sent[m].seqnum = sent[f[j].data].seqnum + (m - f[j].data)
          /\ sent[m].seqnum = sent[f[k].data].seqnum + (m - f[k].data)
      BY <2>5
    <3>3. \A i \in DOMAIN sent : i \in Nat /\ sent[i].seqnum \in Nat
      BY NSeqnumsAssumption DEF Inv, Sending, Seqnums
    <3>4. m \in DOMAIN sent
      BY <2>1 DEF WholeFrame
    <3> QED BY <3>1, <3>2, <3>3, <3>4
  <2> QED BY <2>1, <2>2, <2>6 DEF f, m
<1>2. Inv /\ Numbered /\ [StreamNext]_streamVars => Numbered'
  BY NumberedStep
<1> QED BY <1>1, <1>2, NumbersInit, InvInvariant, CuttingInvariant, PTL
         DEF StreamSpec

(* The packets of a frame follow one another, and none of a later frame    *)
(* has been sent before the frame that is being cut.                       *)
Contiguous ==
  /\ \A i, j, k \in DOMAIN sent :
       i <= j /\ j <= k /\ sent[i].timestamp = sent[k].timestamp
         => sent[j].timestamp = sent[i].timestamp
  /\ \A i, j \in DOMAIN sent :
       i <= j /\ sent[i].timestamp = FrameTime(setting, nframes)
         => sent[j].timestamp = sent[i].timestamp

(* Every step keeps Contiguous, if no two frames share a timestamp.        *)
LEMMA ContiguousStep ==
  ASSUME TimesApart, Inv, Cutting, Contiguous, [StreamNext]_streamVars
  PROVE  Contiguous'
<1>1. CASE Encode
  <2>1. /\ nframes < MaxFrames /\ nframes' = nframes + 1 /\ nframes \in Nat
        /\ MaxFrames \in Nat /\ UNCHANGED <<sent, setting>>
    BY <1>1, StreamAssumption DEF Encode, netVars, Cutting
  <2>2. setting \in Settings
    BY DEF Inv, Sending
  <2>3. ASSUME NEW i \in DOMAIN sent
        PROVE  sent[i].timestamp # FrameTime(setting, nframes + 1)
    <3>1. PICK f \in 1 .. nframes : sent[i].timestamp = FrameTime(setting, f)
      BY DEF Cutting
    <3>2. f \in 1 .. MaxFrames /\ nframes + 1 \in 1 .. MaxFrames /\ f # nframes + 1
      BY <2>1
    <3> QED BY <2>2, <3>1, <3>2 DEF TimesApart
  <2> QED BY <2>1, <2>3 DEF Contiguous
<1>2. CASE Emit
  <2>1. PICK n \in Nat : n = Len(sent) + 1
    BY <1>2, EmittedFields
  <2>2. /\ DOMAIN sent = 1 .. n - 1 /\ DOMAIN sent' = 1 .. n
        /\ \A i \in DOMAIN sent : sent'[i] = sent[i]
        /\ sent'[n].timestamp = vpx.timestamp
        /\ ~Tx!Idle /\ UNCHANGED <<nframes, setting>>
    BY <1>2, <2>1, EmittedFields
  <2>3. vpx.timestamp = FrameTime(setting, nframes)
    BY <2>2 DEF Cutting
  <2>4. \A i \in 1 .. n : i # n => i \in DOMAIN sent
    BY <2>1, <2>2
  <2>5. ASSUME NEW i \in 1 .. n, NEW j \in 1 .. n, i <= j,
               sent'[i].timestamp = FrameTime(setting, nframes)
        PROVE  sent'[j].timestamp = sent'[i].timestamp
    <3>1. CASE j = n
      BY <2>2, <2>3, <2>5, <3>1
    <3>2. CASE j # n
      <4>1. i \in DOMAIN sent /\ j \in DOMAIN sent
        BY <2>1, <2>4, <2>5, <3>2
      <4> QED BY <2>2, <2>5, <4>1 DEF Contiguous
    <3> QED BY <3>1, <3>2
  <2>6. ASSUME NEW i \in 1 .. n, NEW j \in 1 .. n, NEW k \in 1 .. n,
               i <= j, j <= k, sent'[i].timestamp = sent'[k].timestamp
        PROVE  sent'[j].timestamp = sent'[i].timestamp
    <3>1. CASE k = n
      BY <2>2, <2>3, <2>5, <2>6, <3>1
    <3>2. CASE k # n
      <4>1. i \in DOMAIN sent /\ j \in DOMAIN sent /\ k \in DOMAIN sent
        BY <2>1, <2>4, <2>6, <3>2
      <4> QED BY <2>2, <2>6, <4>1 DEF Contiguous
    <3> QED BY <3>1, <3>2
  <2>7. FrameTime(setting, nframes)' = FrameTime(setting, nframes)
    BY <2>2 DEF FrameTime
  <2> QED BY <2>2, <2>5, <2>6, <2>7 DEF Contiguous
<1>3. CASE UNCHANGED <<sent, nframes, setting>>
  BY <1>3 DEF Contiguous
<1>4. CASE Partition
  BY <1>3, <1>4, StepPartition DEF netVars
<1>5. CASE UNCHANGED <<setting, senderVars>>
  BY <1>3, <1>5 DEF senderVars
<1> QED BY <1>1, <1>2, <1>4, <1>5, SenderSteps

(* In order, nothing comes or is reported that was sent before the first   *)
(* packet to arrive, and nothing of that kind is on the way.               *)
NothingBefore ==
  ~setting.reorder /\ ~Fell(1, Len(sent)) =>
    /\ added = {} => /\ reported = {}
                     /\ \A a, b \in DOMAIN net : a < b => net[a] <= net[b]
    /\ added # {} =>
         /\ \A a \in DOMAIN net : first_seqnum <= sent[net[a]].seqnum
         /\ \A s \in received \cup reported : first_seqnum <= s

(* The row of payloads on the way, one of them doubled.                    *)
LEMMA Doubled ==
  ASSUME Inv, NEW k \in DOMAIN net, Duplicate(k)
  PROVE  /\ net' \in Seq(Nat) /\ Len(net') = Len(net) + 1
         /\ \A i \in 1 .. Len(net) + 1 :
              /\ i < k => net'[i] = net[i]
              /\ i = k => net'[i] = net[k]
              /\ i > k => net'[i] = net[i - 1]
<1>1. net' = InsertAt(net, k, net[k])
  BY DEF Duplicate
<1>2. net \in Seq(Nat) /\ k \in 1 .. Len(net) /\ net[k] \in Nat
  BY DEF Inv, Underway
<1> QED BY <1>1, <1>2, InsertedFacts, Zenon

(* Every step keeps NothingBefore.                                         *)
LEMMA NothingBeforeStep ==
  ASSUME NSeqnums > 1, Inv, Numbered, Rising, NothingBefore,
         [StreamNext]_streamVars
  PROVE  NothingBefore'
<1> SUFFICES ASSUME ~setting'.reorder, ~Fell(1, Len(sent))'
             PROVE  NothingBefore'
  BY DEF NothingBefore
<1>1. /\ net \in Seq(Nat) /\ \A a \in DOMAIN net : net[a] \in DOMAIN sent
      /\ \A i \in DOMAIN sent : sent[i].seqnum \in Nat
      /\ first_seqnum \in Nat /\ prev_seqnum \in Nat
  BY NSeqnumsAssumption
     DEF Inv, Sending, Underway, Receiving, TypeOK, Seqnums
<1>2. PICK m \in Nat : m = Len(net) /\ DOMAIN net = 1 .. m
  BY <1>1
<1>3. /\ setting' = setting /\ ~setting.reorder /\ ~Fell(1, Len(sent))
      /\ added = {} => /\ reported = {}
                       /\ \A a, b \in DOMAIN net : a < b => net[a] <= net[b]
      /\ added # {} =>
           /\ \A a \in DOMAIN net : first_seqnum <= sent[net[a]].seqnum
           /\ \A s \in received \cup reported : first_seqnum <= s
  BY SenderSteps, OneLossBefore DEF NothingBefore
<1>4. CASE Emit
  <2>1. PICK n \in Nat : n = Len(sent')
    BY <1>4, Emission DEF Inv
  <2>2. /\ DOMAIN sent = 1 .. n - 1 /\ DOMAIN sent' = 1 .. n
        /\ \A i \in DOMAIN sent : sent'[i] = sent[i]
    BY <1>4, <2>1, Emission DEF Inv, Sending, Grown
  <2>3. Transmit(<<n>>) /\ UNCHANGED <<added, received, reported, first_seqnum>>
    BY <1>4, <2>1 DEF Emit, jvars, vars, ringVars, seqVars
  <2>4. <<n>> \in Seq(Nat) /\ Len(<<n>>) = 1 /\ DOMAIN <<n>> = {1} /\ <<n>>[1] = n
    OBVIOUS
  <2>5. \A a \in DOMAIN net' : \/ a \in 1 .. m /\ net'[a] = net[a]
                               \/ a = m + 1 /\ net'[a] = n
    BY <1>2, <2>3, <2>4, OnTheWay
  <2>6. ASSUME added = {}, NEW a \in DOMAIN net', NEW b \in DOMAIN net', a < b
        PROVE  net'[a] <= net'[b]
    <3>1. CASE b \in 1 .. m
      <4>1. a \in 1 .. m
        BY <2>5, <2>6, <3>1
      <4> QED BY <1>2, <1>3, <2>5, <2>6, <3>1, <4>1
    <3>2. CASE b = m + 1
      <4>1. a \in 1 .. m /\ net'[a] = net[a] /\ net'[b] = n
        BY <2>5, <2>6, <3>2
      <4>2. net[a] \in 1 .. n - 1
        BY <1>1, <1>2, <2>2, <4>1
      <4> QED BY <4>1, <4>2
    <3> QED BY <2>5, <3>1, <3>2
  <2>7. ASSUME added # {}, NEW a \in DOMAIN net'
        PROVE  first_seqnum <= sent'[net'[a]].seqnum
    <3>1. CASE a \in 1 .. m
      BY <1>1, <1>2, <1>3, <2>2, <2>5, <2>7, <3>1
    <3>2. CASE a = m + 1
      <4>1. PICK q \in added : q.seqnum = first_seqnum
        BY <2>7 DEF Inv, Receiving
      <4>2. q.data \in 1 .. n - 1 /\ sent'[q.data].seqnum = first_seqnum
        BY <2>2, <4>1 DEF Inv, Receiving, AsSent
      <4>3. n \in 1 .. n /\ q.data \in 1 .. n
        BY <4>2
      <4>4. sent'[n].seqnum - sent'[q.data].seqnum = n - q.data
        BY <2>2, <4>3, RisingStep DEF Rising
      <4>5. sent'[n].seqnum \in Nat
        <5>1. vpx.seqnum \in Seqnums /\ sent'[n].seqnum = vpx.seqnum
          BY <1>4, <2>1, Emission, VpxFields DEF Inv, Sending
        <5> QED BY <5>1, NSeqnumsAssumption DEF Seqnums
      <4>6. net'[a] = n
        BY <2>5, <3>2
      <4> QED BY <1>1, <4>2, <4>3, <4>4, <4>5, <4>6
    <3> QED BY <2>5, <3>1, <3>2
  <2> QED BY <1>3, <2>3, <2>6, <2>7 DEF NothingBefore
<1>5. ASSUME NEW k \in DOMAIN net, Deliver(k) PROVE NothingBefore'
  <2>1. PICK p : Arrives(net[k], p)
    BY <1>5, Delivery DEF Inv
  <2>2. k = 1 /\ net' = RemoveAt(net, k) /\ sent' = sent
    BY <1>3, <1>5, Delivery DEF Inv, senderVars
  <2>3. /\ DOMAIN net' = 1 .. m - 1
        /\ \A a \in 1 .. m - 1 : net'[a] = net[a + 1]
    <3>1. k \in 1 .. Len(net)
      BY <1>2
    <3>2. /\ net' \in Seq(Nat) /\ Len(net') = Len(net) - 1
          /\ \A i \in 1 .. Len(net) - 1 :
               net'[i] = IF i < k THEN net[i] ELSE net[i + 1]
      BY <1>1, <2>2, <3>1, RemovedFacts, Zenon
    <3> QED BY <1>2, <2>2, <3>2
  <2>4. /\ 1 \in 1 .. m
        /\ \A a \in 1 .. m - 1 : a + 1 \in 1 .. m /\ 1 < a + 1
    BY <1>2, <2>2
  <2>5. /\ added' = added \cup {p} /\ p.seqnum = sent[net[1]].seqnum
        /\ received' = received \cup {p.seqnum}
        /\ reported' = reported \cup Skipped(p.seqnum)
        /\ first_seqnum' = IF received = {} THEN p.seqnum ELSE first_seqnum
    BY <2>1, <2>2 DEF Arrives, AsSent, CheckSeqnum, FirstOnes
  <2>6. net[1] \in DOMAIN sent /\ p.seqnum \in Nat
    BY <1>1, <1>2, <2>4, <2>5
  <2>7. CASE added = {}
    <3>1. received = {} /\ prev_seqnum = 0 /\ reported = {}
      BY <1>3, <2>7 DEF Inv, Receiving
    <3>2. reported' = {} /\ received' = {p.seqnum} /\ first_seqnum' = p.seqnum
      BY <2>5, <3>1 DEF Skipped
    <3>3. ASSUME NEW a \in 1 .. m - 1 PROVE p.seqnum <= sent[net[a + 1]].seqnum
      <4>1. net[1] <= net[a + 1] /\ net[a + 1] \in DOMAIN sent
        BY <1>1, <1>2, <1>3, <2>4, <2>7
      <4> QED BY <1>3, <2>5, <2>6, <4>1, OnePerNumber
    <3>4. added' # {}
      BY <2>5
    <3>5. \A a \in DOMAIN net' : first_seqnum' <= sent'[net'[a]].seqnum
      BY <2>2, <2>3, <3>2, <3>3
    <3>6. \A s \in received' \cup reported' : first_seqnum' <= s
      BY <2>6, <3>2
    <3> QED BY <3>4, <3>5, <3>6 DEF NothingBefore
  <2>8. CASE added # {}
    <3>1. first_seqnum \in received
      BY <2>8 DEF Inv, Receiving
    <3>2. first_seqnum' = first_seqnum /\ first_seqnum <= p.seqnum
      BY <1>2, <1>3, <2>4, <2>5, <2>8, <3>1
    <3>3. first_seqnum <= prev_seqnum
      BY DEF Inv, Receiving, SeqInv, HighestSoFar
    <3>4. \A s \in Skipped(p.seqnum) : first_seqnum <= s
      BY <1>1, <2>6, <3>3 DEF Skipped
    <3>5. \A a \in 1 .. m - 1 : first_seqnum <= sent[net[a + 1]].seqnum
      BY <1>2, <1>3, <2>4, <2>8
    <3> QED BY <1>3, <2>2, <2>3, <2>5, <2>8, <3>2, <3>4, <3>5 DEF NothingBefore
  <2> QED BY <2>7, <2>8
<1>6. CASE OnCommand
  <2>1. PICK row \in Seq(Nat) :
          /\ \A k \in DOMAIN row : sent[row[k]].seqnum \in reported
          /\ IF serves THEN Transmit(row) ELSE UNCHANGED <<net, losses>>
    BY <1>6, Answered DEF Inv
  <2>2. UNCHANGED <<sent, added, received, reported, first_seqnum>>
    BY <1>6 DEF OnCommand, senderVars, jvars, vars, ringVars, seqVars
  <2>3. \A a \in DOMAIN net' :
          \/ a \in 1 .. m /\ net'[a] = net[a]
          \/ a \notin 1 .. m /\ sent[net'[a]].seqnum \in reported
    BY <1>2, <2>1, OnTheWay
  <2> QED BY <1>2, <1>3, <2>2, <2>3 DEF NothingBefore
<1>7. ASSUME NEW k \in DOMAIN net, Duplicate(k) PROVE NothingBefore'
  <2>1. /\ net' = InsertAt(net, k, net[k])
        /\ UNCHANGED <<sent, added, received, reported, first_seqnum>>
    BY <1>7 DEF Duplicate, senderVars, jvars, vars, ringVars, seqVars
  <2>2. net[k] \in Nat /\ k \in 1 .. m
    BY <1>1, <1>2
  <2>3. /\ DOMAIN net' = 1 .. m + 1
        /\ \A i \in 1 .. m + 1 :
             /\ i < k => net'[i] = net[i]
             /\ i = k => net'[i] = net[k]
             /\ i > k => net'[i] = net[i - 1]
    <3>1. /\ net' \in Seq(Nat) /\ Len(net') = Len(net) + 1
          /\ \A i \in 1 .. Len(net) + 1 :
               /\ i < k => net'[i] = net[i]
               /\ i = k => net'[i] = net[k]
               /\ i > k => net'[i] = net[i - 1]
      BY <1>7, Doubled, Zenon
    <3>2. DOMAIN net' = 1 .. m + 1
      BY <1>2, <3>1
    <3> QED BY <1>2, <3>1, <3>2, Zenon
  <2> DEFINE From(i) == IF i <= k THEN i ELSE i - 1
  <2>4. ASSUME NEW i \in 1 .. m + 1
        PROVE  From(i) \in 1 .. m /\ net'[i] = net[From(i)]
    <3>1. i <= k => From(i) = i /\ i \in 1 .. m
      BY <2>2
    <3>2. i > k => From(i) = i - 1 /\ i - 1 \in 1 .. m
      BY <2>2
    <3> HIDE DEF From
    <3>3. i < k \/ i = k \/ i > k
      BY <2>2
    <3> QED BY <2>2, <2>3, <3>1, <3>2, <3>3
  <2>5. \A a, b \in 1 .. m + 1 : a < b => From(a) = From(b) \/ From(a) < From(b)
    BY <2>2
  <2> HIDE DEF From
  <2>6. \A a \in 1 .. m : net[a] \in Nat
    BY <1>1, <1>2
  <2>7. ASSUME added = {}, NEW a \in 1 .. m + 1, NEW b \in 1 .. m + 1, a < b
        PROVE  net'[a] <= net'[b]
    <3>1. PICK c \in 1 .. m, d \in 1 .. m :
            net'[a] = net[c] /\ net'[b] = net[d] /\ (c = d \/ c < d)
      BY <2>4, <2>5, <2>7
    <3>2. c < d => net[c] <= net[d]
      BY <1>2, <1>3, <2>7
    <3> QED BY <2>6, <3>1, <3>2
  <2>8. ASSUME added # {}, NEW a \in 1 .. m + 1
        PROVE  first_seqnum <= sent[net'[a]].seqnum
    BY <1>2, <1>3, <2>4, <2>8
  <2> QED BY <1>3, <2>1, <2>3, <2>7, <2>8 DEF NothingBefore
<1>8. CASE UNCHANGED <<sent, net, added, received, reported, first_seqnum>>
  BY <1>3, <1>8 DEF NothingBefore
<1>9. CASE Encode \/ UNCHANGED streamVars
  BY <1>8, <1>9 DEF Encode, streamVars, senderVars, netVars, jvars, vars,
                    ringVars, seqVars
<1>10. CASE Partition
  BY <1>8, <1>10 DEF Partition, netVars, jvars, vars, ringVars, seqVars
<1>11. CASE TimePasses
  BY <1>8, <1>11 DEF TimePasses, Tick, senderVars, netVars, vars, ringVars, seqVars
<1>12. CASE Poll
  BY <1>8, <1>12, Polled DEF Inv, senderVars, netVars, ringVars, seqVars
<1> QED BY <1>4, <1>5, <1>6, <1>7, <1>9, <1>10, <1>11, <1>12, Zenon DEF StreamNext

(* Both hold at the start, when nothing has been sent.                     *)
LEMMA NothingBeforeInit == StreamInit => Contiguous /\ NothingBefore
<1> SUFFICES ASSUME StreamInit PROVE Contiguous /\ NothingBefore
  OBVIOUS
<1>1. sent = <<>> /\ net = <<>> /\ added = {} /\ reported = {}
  BY DEF StreamInit, JitterInit, Init
<1> QED BY <1>1 DEF Contiguous, NothingBefore

(* As long as the numbers rise, a packet that a shown frame lacks has been *)
(* reported, or has come too late, or lies in front of the first packet to *)
(* arrive and, if packets come in order, in the same frame, or before the  *)
(* first packet after number 0.                                            *)
THEOREM HolesAreKnown ==
  ASSUME TimesApart, NSeqnums > 1
  PROVE  StreamSpec => [](~Fell(1, Len(sent)) => HolesReported)
<1>1. Inv /\ Rising /\ Cutting /\ MarkerEnds /\ Contiguous /\ NothingBefore
        => (~Fell(1, Len(sent)) => HolesReported)
  <2> SUFFICES ASSUME Inv, Rising, Cutting, MarkerEnds, Contiguous,
                      NothingBefore, ~Fell(1, Len(sent))
               PROVE  HolesReported
    OBVIOUS
  <2> SUFFICES ASSUME NEW n \in DOMAIN shown,
                      NEW i \in WholeFrame(shown[n]) \ Parts(shown[n])
               PROVE  \/ sent[i].seqnum \in received \cup reported
                      \/ Unwatched(sent[i].seqnum)
                      \/ \E k \in i + 1 .. Len(sent) :
                           /\ sent[k].seqnum = first_seqnum
                           /\ k \in WholeFrame(shown[n]) \/ setting.reorder
    BY DEF HolesReported
  <2> DEFINE f == shown[n]
             p == f[Len(f)]
             m == p.data
  <2>1. /\ p \in added /\ m \in DOMAIN sent /\ i \in DOMAIN sent /\ i <= m
        /\ m \in WholeFrame(f) /\ sent[i].timestamp = sent[m].timestamp
    BY ShownFrame DEF WholeFrame
  <2>2. sent[i].seqnum <= sent[m].seqnum
    BY <2>1, OnePerNumber
  <2>3. sent[m].seqnum = p.seqnum /\ p.seqnum \in received
        /\ p.seqnum <= prev_seqnum /\ first_seqnum \in received
    BY <2>1 DEF Inv, Receiving, AsSent, SeqInv, HighestSoFar
  <2>4. /\ \A j \in DOMAIN sent : sent[j].seqnum \in Nat /\ j \in Nat
        /\ prev_seqnum \in Nat /\ first_seqnum \in Nat
    BY NSeqnumsAssumption DEF Inv, Sending, Receiving, TypeOK, Seqnums
  <2>5. i \in WholeFrame(f)
    OBVIOUS
  <2> HIDE DEF m, p, f
  <2>6. CASE first_seqnum <= sent[i].seqnum
    <3>1. CASE sent[i].seqnum = first_seqnum
      BY <2>3, <3>1
    <3>2. CASE sent[i].seqnum # first_seqnum
      <4>1. sent[i].seqnum \in first_seqnum + 1 .. prev_seqnum
        BY <2>1, <2>2, <2>3, <2>4, <2>6, <3>2
      <4> QED BY <4>1 DEF Inv, Receiving, SeqInv, GapsAccounted
    <3> QED BY <3>1, <3>2
  <2>7. CASE sent[i].seqnum < first_seqnum
    <3>1. PICK q \in added : q.seqnum = first_seqnum
      BY <2>3 DEF Inv, Receiving
    <3>2. PICK k \in DOMAIN sent : sent[k].seqnum = first_seqnum
      BY <3>1 DEF Inv, Receiving, AsSent
    <3>3. sent[k].seqnum - sent[i].seqnum = k - i
          /\ sent[m].seqnum - sent[k].seqnum = m - k
      BY <2>1, <3>2 DEF Rising
    <3>4. i < k
      BY <2>1, <2>4, <2>7, <3>2, <3>3
    <3>5. k \in i + 1 .. Len(sent)
      <4>1. PICK l \in Nat : l = Len(sent) /\ DOMAIN sent = 1 .. l
        BY DEF Inv, Sending
      <4> QED BY <2>1, <3>2, <3>4, <4>1
    <3>6. ASSUME ~setting.reorder PROVE k \in WholeFrame(f)
      <4>1. first_seqnum <= sent[m].seqnum
        BY <2>1, <2>3, <3>6 DEF NothingBefore
      <4>2. k <= m
        BY <2>1, <2>4, <3>2, <3>3, <4>1
      <4>3. sent[k].timestamp = sent[i].timestamp
        BY <2>1, <2>4, <3>2, <3>4, <4>2 DEF Contiguous
      <4> QED BY <2>5, <3>2, <4>3 DEF WholeFrame
    <3> QED BY <3>2, <3>5, <3>6 DEF f
  <2> QED BY <2>1, <2>4, <2>6, <2>7
<1>2. Inv /\ Numbered /\ Rising /\ [StreamNext]_streamVars
        => Numbered' /\ Rising'
  BY NumberedStep, RisingStep
<1>3. Inv /\ Cutting /\ Numbered /\ Rising /\ Contiguous /\ NothingBefore
        /\ [StreamNext]_streamVars => Contiguous' /\ NothingBefore'
  BY ContiguousStep, NothingBeforeStep
<1> QED BY <1>1, <1>2, <1>3, NumbersInit, NothingBeforeInit, InvInvariant,
           CuttingInvariant, PTL DEF StreamSpec

-----------------------------------------------------------------------------
(* Key frames *)

(* The key frame has been found with the first frame that was shown, which *)
(* holds a packet that says so.                                            *)
KeyFirst ==
  /\ found_keyframe <=> shown # <<>>
  /\ shown # <<>> => \E k \in DOMAIN shown[1] : shown[1][k].nonref = 0

(* A step that shows nothing finds no key frame.                           *)
LEMMA NothingShown ==
  ASSUME Inv, [StreamNext]_streamVars, shown' = shown
  PROVE  found_keyframe' = found_keyframe
<1>1. CASE Poll
  <2>1. frame' = <<>>
    <3>1. shown \in Seq(Seq(Slot)) /\ frame' \in Seq(Slot)
      BY <1>1, Polled DEF Inv, Showing
    <3>2. Len(Append(shown, frame')) = Len(shown) + 1 /\ Len(shown) \in Nat
      BY <3>1
    <3>3. shown' # Append(shown, frame')
      BY <3>2
    <3> QED BY <1>1, <3>3, Polled DEF Inv
  <2>2. PICK i \in Slots : Merge(packets[i].timestamp)
    BY <1>1, UpdateKeepsPlay DEF Poll, Inv, Receiving
  <2>3. ASSUME NEW q \in Seq(Slots), q # <<>>,
               frame' = [k \in 1 .. Len(q) |-> packets[q[k]]]
        PROVE  FALSE
    <3>1. Len(q) \in Nat \ {0}
      BY <2>3, EmptySeq
    <3>2. 1 \in DOMAIN frame'
      BY <2>3, <3>1
    <3> QED BY <2>1, <3>2
  <2> QED BY <2>2, <2>3, MergeOutcome DEF Merge, Inv, Receiving
<1>2. ASSUME NEW k \in DOMAIN net, Deliver(k)
      PROVE  UNCHANGED mergeVars
  BY <1>2, Delivery DEF Inv, Arrives
<1>3. CASE TimePasses
  BY <1>3 DEF TimePasses, Tick, vars, mergeVars
<1>4. CASE \/ Encode \/ Partition \/ Emit \/ OnCommand
           \/ (\E k \in DOMAIN net : Duplicate(k)) \/ UNCHANGED streamVars
  BY <1>4 DEF Encode, Partition, Emit, OnCommand, Duplicate, streamVars, jvars,
              vars, mergeVars
<1> QED BY <1>1, <1>2, <1>3, <1>4 DEF StreamNext, mergeVars

(* Every step keeps KeyFirst.                                              *)
LEMMA KeyStep ==
  ASSUME Inv, KeyFirst, [StreamNext]_streamVars
  PROVE  KeyFirst'
<1>1. CASE shown' = shown
  BY <1>1, NothingShown DEF KeyFirst
<1>2. CASE shown' # shown
  <2>1. Poll
    BY <1>2 DEF StreamNext, Encode, Partition, Emit, OnCommand, Duplicate,
                Deliver, TimePasses, streamVars
  <2>2. /\ shown' = Append(shown, frame') /\ found_keyframe'
        /\ frame' \in Seq(Slot)
    BY <1>2, <2>1, FromSlots
  <2>3. PICK t \in Slots, q \in Seq(Slots) :
          /\ found_keyframe \/ \E k \in DOMAIN q : packets[q[k]].nonref = 0
          /\ frame' = [k \in 1 .. Len(q) |-> packets[q[k]]]
    BY <1>2, <2>1, FromSlots
  <2>4. shown \in Seq(Seq(Slot))
    BY DEF Inv, Showing
  <2>5. shown' # <<>>
    BY <2>2, <2>4
  <2>6. CASE shown # <<>>
    <3>1. shown'[1] = shown[1]
      <4>1. Len(shown) \in Nat \ {0}
        BY <2>4, <2>6, EmptySeq
      <4> QED BY <2>2, <2>4, <4>1
    <3> QED BY <2>2, <2>5, <2>6, <3>1 DEF KeyFirst
  <2>7. CASE shown = <<>>
    <3>1. shown'[1] = frame'
      BY <2>2, <2>7
    <3>2. PICK k \in DOMAIN q : packets[q[k]].nonref = 0
      BY <2>3, <2>7 DEF KeyFirst
    <3>3. k \in DOMAIN frame' /\ frame'[k] = packets[q[k]]
      BY <2>3
    <3> QED BY <2>2, <2>5, <3>1, <3>2, <3>3 DEF KeyFirst
  <2> QED BY <2>6, <2>7
<1> QED BY <1>1, <1>2

(* The decoder is never started on anything but packets of a key frame,    *)
(* however the packets of that frame have arrived.                         *)
THEOREM DecoderGetsKeyFirst ==
  ASSUME TimesApart, MemoryApart
  PROVE  StreamSpec => []DecoderStartsOnKey
<1>1. Inv /\ Cutting /\ MarkerEnds /\ KeyFirst => DecoderStartsOnKey
  <2> SUFFICES ASSUME Inv, Cutting, MarkerEnds, KeyFirst, shown # <<>>,
                      NEW i \in Parts(shown[1])
               PROVE  sent[i].nonref = 0
    BY DEF DecoderStartsOnKey
  <2> DEFINE f == shown[1]
             m == f[Len(f)].data
  <2>1. 1 \in DOMAIN shown
    <3>1. shown \in Seq(Seq(Slot))
      BY DEF Inv, Showing
    <3> QED BY <3>1, EmptySeq
  <2>2. /\ \A j \in WholeFrame(f) : sent[j].timestamp = sent[m].timestamp
        /\ \A k \in DOMAIN f : f[k] \in added /\ f[k].data \in WholeFrame(f)
    BY <2>1, ShownFrame
  <2>3. PICK k \in DOMAIN f : f[k].nonref = 0
    BY KeyFirst DEF KeyFirst
  <2> DEFINE j == f[k].data
  <2>4. j \in WholeFrame(f) /\ sent[j].nonref = 0
    BY <2>2, <2>3 DEF Inv, Receiving, AsSent
  <2>5. i \in WholeFrame(f)
    BY <2>2 DEF Parts
  <2>6. /\ i \in DOMAIN sent /\ j \in DOMAIN sent
        /\ sent[i].timestamp = sent[j].timestamp
    BY <2>2, <2>4, <2>5 DEF WholeFrame
  <2> HIDE DEF j
  <2>7. PICK a \in 1 .. nframes : /\ sent[i].timestamp = FrameTime(setting, a)
                                  /\ sent[i].nonref = Kind(a)
    BY <2>6 DEF Cutting
  <2>8. PICK b \in 1 .. nframes : /\ sent[j].timestamp = FrameTime(setting, b)
                                  /\ sent[j].nonref = Kind(b)
    BY <2>6 DEF Cutting
  <2>9. a \in 1 .. MaxFrames /\ b \in 1 .. MaxFrames /\ setting \in Settings
    BY StreamAssumption DEF Cutting, Inv, Sending
  <2>10. a = b
    BY <2>6, <2>7, <2>8, <2>9 DEF TimesApart
  <2> QED BY <2>4, <2>7, <2>8, <2>10
<1>2. StreamInit => KeyFirst
  BY DEF StreamInit, JitterInit, Init, KeyFirst
<1>3. Inv /\ KeyFirst /\ [StreamNext]_streamVars => KeyFirst'
  BY KeyStep
<1> QED BY <1>1, <1>2, <1>3, InvInvariant, CuttingInvariant, PTL DEF StreamSpec

-----------------------------------------------------------------------------
(* The end of playback *)

(* A set of natural numbers has a least element.                           *)
LEMMA LeastElement ==
  ASSUME NEW T, T \subseteq Nat, T # {}
  PROVE  \E m \in T : \A k \in T : m <= k
<1>1. PICK m \in T : \A y \in T : ~ (<<y, m>> \in OpToRel(<, Nat))
  BY NatLessThanWellFounded, WFMin
<1>2. \A k \in T : k \in Nat /\ ~ (k < m)
  BY <1>1 DEF OpToRel
<1> QED BY <1>2, SMT

(* jitter_next_packet finds a slot as long as one has a later timestamp,   *)
(* and no other slot then lies in between.                                 *)
LEMMA NoLater ==
  ASSUME TypeOK, NEW i \in Slots, NextPacket(i) = {}
  PROVE  \A j \in Slots : packets[j].timestamp <= packets[i].timestamp
<1> DEFINE later == {j \in Slots : packets[j].timestamp > packets[i].timestamp}
<1>1. \A j \in Slots : packets[j].timestamp \in Nat
  BY SlotTimeType
<1> SUFFICES ASSUME later # {} PROVE FALSE
  BY <1>1
<1> DEFINE T == {packets[j].timestamp : j \in later}
<1>2. T \subseteq Nat /\ T # {}
  BY <1>1
<1>3. PICK t \in T : \A u \in T : t <= u
  BY <1>2, LeastElement
<1> DEFINE J == {j \in later : packets[j].timestamp = t}
<1>4. J \subseteq Nat /\ J # {}
  BY NPacketsAssumption DEF Slots
<1>5. PICK j \in J : \A k \in J : j <= k
  BY <1>4, LeastElement
<1>6. j \in later /\ packets[j].timestamp = t
  OBVIOUS
<1>7. ASSUME NEW k \in later
      PROVE  \/ packets[j].timestamp < packets[k].timestamp
             \/ packets[j].timestamp = packets[k].timestamp /\ j <= k
  <2>1. t <= packets[k].timestamp /\ t \in Nat /\ packets[k].timestamp \in Nat
    BY <1>1, <1>2, <1>3
  <2>2. packets[k].timestamp = t => j <= k
    BY <1>5
  <2> QED BY <1>6, <2>1, <2>2
<1>8. j \in NextPacket(i)
  BY <1>6, <1>7 DEF NextPacket
<1> QED BY <1>8

(* The slot that the last call of rxs_jitter_update has handled, or the    *)
(* next one will.                                                          *)
Played == packets[IF timeout = 0 THEN 0 ELSE curr_pkt]

(* Playback ends at the latest of the times in the ring, and not before    *)
(* something has arrived.                                                  *)
Dry ==
  /\ exited => /\ npackets >= Half
               /\ \A j \in Slots : packets[j].timestamp <= Played.timestamp
  /\ npackets > 0 => \E j \in Slots : packets[j].data # NoData

(* Every step keeps Dry.                                                   *)
LEMMA DryStep ==
  ASSUME Inv, Dry, [StreamNext]_streamVars
  PROVE  Dry'
<1>1. ASSUME NEW k \in DOMAIN net, Deliver(k) PROVE Dry'
  <2>1. PICK p : Arrives(net[k], p)
    BY <1>1, Delivery DEF Inv
  <2>2. /\ ~exited' /\ dx \in Slots /\ packets'[dx] = p /\ p.data \in Data
    BY <2>1 DEF Arrives, Alive, playVars, Inv, Receiving, TypeOK, AsSent, Sending
  <2>3. p.data # NoData
    BY <2>2, StreamAssumption
  <2> QED BY <2>2, <2>3 DEF Dry
<1>2. CASE Poll
  <2>1. PICK i \in Slots, start \in Nat :
          /\ i = IF timeout = 0 THEN 0 ELSE curr_pkt
          /\ Alive /\ npackets >= Half /\ npackets' = npackets
          /\ \/ NextPacket(i) = {} /\ UNCHANGED <<timeout, curr_pkt>>
             \/ exited' = exited
    BY <1>2, Handled DEF Inv
  <2>2. packets' = packets
    BY <1>2, Polled DEF Inv, ringVars
  <2>3. CASE exited'
    <3>1. NextPacket(i) = {} /\ UNCHANGED <<timeout, curr_pkt>>
      BY <2>1, <2>3 DEF Alive
    <3>2. \A j \in Slots : packets[j].timestamp <= packets[i].timestamp
      BY <3>1, NoLater DEF Inv, Receiving
    <3>3. Played' = packets[i]
      BY <2>1, <2>2, <3>1 DEF Played
    <3> QED BY <2>1, <2>2, <3>2, <3>3 DEF Dry, Half
  <2>4. CASE ~exited'
    BY <2>1, <2>2, <2>4 DEF Dry
  <2> QED BY <2>3, <2>4
<1>3. CASE TimePasses
  <2>1. /\ ~exited /\ UNCHANGED <<packets, npackets, exited>>
    BY <1>3 DEF TimePasses, Tick, Alive, vars, ringVars
  <2> QED BY <2>1 DEF Dry
<1>4. CASE UNCHANGED jvars
  BY <1>4 DEF jvars, jitterVars, playVars, vars, ringVars, Dry, Played, Half
<1>5. CASE \/ Encode \/ Partition \/ Emit \/ OnCommand
           \/ (\E k \in DOMAIN net : Duplicate(k)) \/ UNCHANGED streamVars
  BY <1>4, <1>5 DEF Encode, Partition, Emit, OnCommand, Duplicate, streamVars
<1> QED BY <1>1, <1>2, <1>3, <1>5 DEF StreamNext

(* Memory that malloc hands out in large blocks is zeroed.                 *)
ZeroedMemory == \A g \in Garbage : g.timestamp = 0

(* A ring with a packet in it has a newest one, which Newest chooses.      *)
LEMMA NewestExists ==
  ASSUME Inv, \E j \in Slots : packets[j].data # NoData
  PROVE  /\ Newest \in Slots /\ packets[Newest].data # NoData
         /\ \A j \in Slots : packets[j].data # NoData =>
              packets[j].data <= packets[Newest].data
<1> DEFINE written == {j \in Slots : packets[j].data # NoData}
<1>1. PICK n \in Nat : DOMAIN sent = 1 .. n
  BY DEF Inv, Sending
<1>2. \A j \in written : packets[j].data \in 1 .. n
  BY <1>1, SlotPayloads
<1> DEFINE T == {n - packets[j].data : j \in written}
<1>3. T \subseteq Nat /\ T # {}
  <2>1. \A j \in written : n - packets[j].data \in Nat
    BY <1>2
  <2>2. written # {}
    OBVIOUS
  <2> HIDE DEF written
  <2> QED BY <2>1, <2>2, Zenon
<1>4. PICK t \in T : \A u \in T : t <= u
  BY <1>3, LeastElement
<1>5. PICK i \in written : t = n - packets[i].data
  OBVIOUS
<1>6. ASSUME NEW j \in written PROVE packets[j].data <= packets[i].data
  <2>1. n - packets[j].data \in T
    OBVIOUS
  <2>2. n - packets[i].data <= n - packets[j].data
    BY <1>4, <1>5, <2>1
  <2> QED BY <1>2, <2>2
<1>7. /\ i \in Slots /\ packets[i].data # NoData
      /\ \A j \in Slots : packets[j].data # NoData =>
           packets[j].data <= packets[i].data
  BY <1>6
<1> HIDE DEF written, T
<1> QED BY <1>7, Zenon DEF Newest

(* The program ends only when there is nothing left to play: the frame it  *)
(* has just handled is the newest in the ring, or time has fallen back     *)
(* before that one.  NPackets > 1: a ring of one slot would be played      *)
(* before anything is in it.                                               *)
THEOREM NoEarlyExit ==
  ASSUME ZeroedMemory, NPackets > 1
  PROVE  StreamSpec => []ExitsWhenDry
<1>1. Inv /\ Dry => ExitsWhenDry
  <2> SUFFICES ASSUME Inv, Dry, exited PROVE ExitsWhenDry
    BY DEF ExitsWhenDry
  <2>1. npackets > 0
    <3>1. Half > 0 /\ npackets \in Nat /\ Half \in Nat
      BY NPacketsAssumption, HalfType DEF Half, Inv, Receiving, PlayInv
    <3> QED BY <3>1 DEF Dry
  <2>2. PICK w \in Slots :
          /\ w = Newest /\ packets[w].data # NoData
          /\ \A j \in Slots : packets[j].data # NoData =>
               packets[j].data <= packets[w].data
    BY <2>1, NewestExists DEF Dry
  <2>3. PICK i \in Slots : i = IF timeout = 0 THEN 0 ELSE curr_pkt
    BY NPacketsAssumption DEF Inv, Receiving, PlayInv, Slots
  <2>4. \A j \in Slots : /\ packets[j].timestamp <= packets[i].timestamp
                         /\ packets[j].timestamp \in Nat
    BY <2>3, SlotTimeType DEF Dry, Played, Inv, Receiving
  <2>5. ASSUME packets[i].timestamp # packets[w].timestamp
        PROVE  \E k \in 1 .. packets[w].data - 1 :
                 sent[k].timestamp > sent[packets[w].data].timestamp
    <3>1. packets[w].timestamp < packets[i].timestamp
      BY <2>4, <2>5
    <3>2. packets[i] \notin Garbage
      BY <2>4, <3>1 DEF ZeroedMemory
    <3>3. packets[i] \in added /\ packets[w] \in added
      <4>1. packets[w] \notin Garbage
        BY <2>2, GarbageAssumption DEF UninitSlot
      <4> QED BY <3>2, <4>1 DEF Inv, Receiving, Filled
    <3>4. AsSent(packets[i]) /\ AsSent(packets[w])
      BY <3>3 DEF Inv, Receiving
    <3> DEFINE k == packets[i].data
               l == packets[w].data
    <3>5. /\ k \in DOMAIN sent /\ l \in DOMAIN sent /\ k \in Nat /\ l \in Nat
          /\ k >= 1 /\ ToNs(sent[l].timestamp) < ToNs(sent[k].timestamp)
          /\ k \in Data
      BY <3>1, <3>4 DEF AsSent, Inv, Sending
    <3>6. k <= l
      BY <2>2, <3>5, StreamAssumption
    <3> HIDE DEF k, l
    <3>7. k # l
      BY <2>4, <3>1, <3>4, <3>5 DEF AsSent, k, l
    <3>8. sent[l].timestamp < sent[k].timestamp
      BY <3>5, SentTimes, ToNsOrder
    <3>9. k \in 1 .. l - 1
      BY <3>5, <3>6, <3>7
    <3> QED BY <3>8, <3>9 DEF l
  <2> QED BY <2>2, <2>3, <2>5 DEF ExitsWhenDry
<1>2. StreamInit => Dry
  BY DEF StreamInit, JitterInit, Dry
<1>3. Inv /\ Dry /\ [StreamNext]_streamVars => Dry'
  BY DryStep
<1> QED BY <1>1, <1>2, <1>3, InvInvariant, PTL DEF StreamSpec

-----------------------------------------------------------------------------
(* Playback *)

(* The network keeps the order, frame times rise until the last frame, and *)
(* in nanoseconds they do not exceed 64 bits.                              *)
InOrder == \A s \in Settings : ~s.reorder /\ s.copies = 0

TimesAscend ==
  \A s \in Settings : \A f, g \in 1 .. MaxFrames :
    f < g => FrameTime(s, f) < FrameTime(s, g)

TimesInReach ==
  \A s \in Settings : \A f \in 1 .. MaxFrames : ToNs(FrameTime(s, f)) < TimeMod

(* What is on the way comes after what has arrived, unless something is    *)
(* sent again.                                                             *)
Passing ==
  /\ copied = {}
  /\ ~serves =>
       /\ \A a, b \in DOMAIN net : a < b => net[a] < net[b]
       /\ \A p \in added : \A a \in DOMAIN net : p.data < net[a]

Ascending ==
  \A i, k \in DOMAIN sent : i < k => sent[i].timestamp <= sent[k].timestamp

(* Playback is ahead of what it has shown and of the time it counts from.  *)
Forward ==
  ~serves =>
    /\ timeout # 0 => timestamp_start <= packets[curr_pkt].timestamp
    /\ timeout = 0 => exited \/ shown = <<>>
    /\ timeout # 0 /\ ~exited =>
         \A n \in DOMAIN shown : shown[n][1].timestamp < packets[curr_pkt].timestamp

(* Every step keeps Passing.                                               *)
LEMMA PassingStep ==
  ASSUME InOrder, Inv, Passing, [StreamNext]_streamVars
  PROVE  Passing'
<1>1. /\ setting \in Settings /\ net \in Seq(Nat)
      /\ \A a \in DOMAIN net : net[a] \in DOMAIN sent
      /\ \A p \in added : p.data \in DOMAIN sent
  BY DEF Inv, Sending, Underway, Receiving, AsSent
<1>2. PICK m \in Nat : m = Len(net) /\ DOMAIN net = 1 .. m
  BY <1>1
<1>3. CASE Emit
  <2>1. PICK n \in Nat : n = Len(sent')
    BY <1>3, Emission DEF Inv
  <2>2. DOMAIN sent = 1 .. n - 1
    BY <1>3, <2>1, Emission DEF Inv, Sending
  <2>3. Transmit(<<n>>) /\ UNCHANGED <<jvars, copied, serves>>
    BY <1>3, <2>1 DEF Emit
  <2>4. <<n>> \in Seq(Nat) /\ Len(<<n>>) = 1 /\ DOMAIN <<n>> = {1} /\ <<n>>[1] = n
    OBVIOUS
  <2>5. \A a \in DOMAIN net' : \/ a \in 1 .. m /\ net'[a] = net[a]
                               \/ a = m + 1 /\ net'[a] = n
    BY <1>2, <2>3, <2>4, OnTheWay
  <2>6. \A i \in DOMAIN sent : i < n
    BY <2>1, <2>2
  <2>7. added' = added
    BY <2>3 DEF jvars, vars, ringVars
  <2>8. ASSUME ~serves, NEW a \in DOMAIN net', NEW b \in DOMAIN net', a < b
        PROVE  net'[a] < net'[b]
    <3>1. CASE b \in 1 .. m
      <4>1. a \in 1 .. m
        BY <2>5, <2>8, <3>1
      <4> QED BY <1>2, <2>5, <2>8, <3>1, <4>1 DEF Passing
    <3>2. CASE b = m + 1
      <4>1. a \in 1 .. m /\ net'[a] = net[a]
        BY <2>5, <2>8, <3>2
      <4>2. net'[b] = n
        BY <2>5, <3>2
      <4> QED BY <1>1, <1>2, <2>6, <4>1, <4>2
    <3> QED BY <2>5, <3>1, <3>2
  <2>9. ASSUME ~serves, NEW p \in added, NEW a \in DOMAIN net'
        PROVE  p.data < net'[a]
    BY <1>1, <1>2, <2>5, <2>6, <2>9 DEF Passing
  <2> QED BY <2>3, <2>7, <2>8, <2>9 DEF Passing
<1>4. ASSUME NEW k \in DOMAIN net, Deliver(k) PROVE Passing'
  <2>1. PICK p : Arrives(net[k], p)
    BY <1>4, Delivery DEF Inv
  <2>2. /\ k = 1 /\ net' = RemoveAt(net, k) /\ copied' = copied
        /\ serves' = serves
    BY <1>1, <1>4, Delivery DEF Inv, InOrder, senderVars
  <2>3. /\ net' \in Seq(Nat) /\ Len(net') = m - 1
        /\ \A i \in 1 .. m - 1 : net'[i] = net[i + 1]
    <3>1. k \in 1 .. Len(net)
      BY <1>2
    <3>2. /\ net' \in Seq(Nat) /\ Len(net') = Len(net) - 1
          /\ \A i \in 1 .. Len(net) - 1 :
               net'[i] = IF i < k THEN net[i] ELSE net[i + 1]
      BY <1>1, <2>2, <3>1, RemovedFacts, Zenon
    <3> QED BY <1>2, <2>2, <3>2
  <2>4. DOMAIN net' = 1 .. m - 1 /\ \A i \in 1 .. m - 1 : i + 1 \in 1 .. m
    BY <1>2, <2>3
  <2>5. added' = added \cup {p} /\ p.data = net[1]
    BY <2>1, <2>2 DEF Arrives
  <2>6. 1 \in 1 .. m
    BY <1>2, <2>2
  <2> SUFFICES ASSUME ~serves
               PROVE  /\ \A a, b \in DOMAIN net' : a < b => net'[a] < net'[b]
                      /\ \A r \in added' : \A a \in DOMAIN net' : r.data < net'[a]
    BY <2>2 DEF Passing
  <2>7. \A a, b \in 1 .. m : a < b => net[a] < net[b]
    BY <1>2 DEF Passing
  <2>8. \A a \in 1 .. m - 1 : net[1] < net[a + 1]
    BY <2>4, <2>6, <2>7
  <2>9. \A a, b \in 1 .. m - 1 : a < b => net[a + 1] < net[b + 1]
    BY <2>4, <2>7
  <2>10. \A r \in added : \A a \in 1 .. m - 1 : r.data < net[a + 1]
    BY <1>2, <2>4 DEF Passing
  <2> QED BY <2>3, <2>4, <2>5, <2>8, <2>9, <2>10
<1>5. CASE OnCommand
  <2>1. /\ UNCHANGED <<jvars, senderVars, copied>>
        /\ ~serves => net' = net
    BY <1>5 DEF OnCommand
  <2> QED BY <2>1 DEF jvars, vars, ringVars, senderVars, Passing
<1>6. ASSUME NEW k \in DOMAIN net, Duplicate(k) PROVE FALSE
  <2>1. Cardinality(copied) < setting.copies /\ setting.copies = 0
    BY <1>1, <1>6 DEF Duplicate, InOrder
  <2>2. Cardinality(copied) = 0
    BY FS_EmptySet DEF Passing
  <2> QED BY <2>1, <2>2
<1>7. CASE UNCHANGED <<net, added, serves, copied>>
  BY <1>7 DEF Passing
<1>8. CASE Encode \/ Partition \/ UNCHANGED streamVars
  <2>1. UNCHANGED <<jvars, serves, net, copied>>
    BY <1>8 DEF Encode, Partition, streamVars, senderVars, netVars
  <2> QED BY <1>7, <2>1 DEF jvars, vars, ringVars
<1>9. CASE TimePasses
  <2>1. UNCHANGED <<vars, senderVars, netVars>>
    BY <1>9 DEF TimePasses, Tick
  <2> QED BY <1>7, <2>1 DEF vars, ringVars, senderVars, netVars
<1>10. CASE Poll
  <2>1. UNCHANGED <<ringVars, senderVars, netVars>>
    BY <1>10, Polled DEF Inv
  <2> QED BY <1>7, <2>1 DEF ringVars, senderVars, netVars
<1> QED BY <1>3, <1>4, <1>5, <1>6, <1>8, <1>9, <1>10, Zenon DEF StreamNext

(* Every step keeps Ascending.                                             *)
LEMMA AscendingStep ==
  ASSUME TimesAscend, Inv, Cutting, Ascending, [StreamNext]_streamVars
  PROVE  Ascending'
<1>1. CASE Emit
  <2>1. PICK n \in Nat : n = Len(sent) + 1
    BY <1>1, EmittedFields
  <2>2. /\ DOMAIN sent = 1 .. n - 1 /\ DOMAIN sent' = 1 .. n
        /\ \A i \in DOMAIN sent : sent'[i] = sent[i]
        /\ sent'[n].timestamp = vpx.timestamp /\ ~Tx!Idle
    BY <1>1, <2>1, EmittedFields
  <2>3. ASSUME NEW i \in DOMAIN sent
        PROVE  sent[i].timestamp <= vpx.timestamp
    <3>1. PICK f \in 1 .. nframes : sent[i].timestamp = FrameTime(setting, f)
      BY DEF Cutting
    <3>2. /\ nframes \in 1 .. MaxFrames /\ f \in 1 .. MaxFrames
          /\ vpx.timestamp = FrameTime(setting, nframes)
          /\ setting \in Settings
      BY <2>2, StreamAssumption DEF Cutting, Inv, Sending
    <3>3. f = nframes \/ f < nframes
      BY <3>2
    <3>4. sent[i].timestamp \in Nat /\ vpx.timestamp \in Nat
      BY SentTimes, VpxFields, ConstantTypes DEF Inv, Sending, Ticks
    <3>5. CASE f = nframes
      BY <3>1, <3>2, <3>4, <3>5
    <3>6. CASE f < nframes
      BY <3>1, <3>2, <3>4, <3>6 DEF TimesAscend
    <3> QED BY <3>3, <3>5, <3>6
  <2>4. ASSUME NEW i \in 1 .. n, NEW k \in 1 .. n, i < k
        PROVE  sent'[i].timestamp <= sent'[k].timestamp
    <3>1. i \in DOMAIN sent
      BY <2>1, <2>2, <2>4
    <3>2. k = n \/ k \in DOMAIN sent
      BY <2>1, <2>2
    <3> QED BY <2>2, <2>3, <2>4, <3>1, <3>2 DEF Ascending
  <2> QED BY <2>2, <2>4 DEF Ascending
<1>2. CASE sent' = sent
  BY <1>2 DEF Ascending
<1> QED BY <1>1, <1>2, SentChanges

(* Times that rise are different.                                          *)
LEMMA AscendingApart == TimesAscend => TimesApart
<1> SUFFICES ASSUME TimesAscend, NEW s \in Settings,
                    NEW f \in 1 .. MaxFrames, NEW g \in 1 .. MaxFrames,
                    FrameTime(s, f) = FrameTime(s, g)
             PROVE  f = g
  BY DEF TimesApart
<1>1. FrameTime(s, f) \in Int /\ FrameTime(s, g) \in Int
  <2>1. s.pts + f \in Int /\ s.pts + g \in Int
    BY SettingsAssumption
  <2>2. (s.pts + f) * TicksPerPts \in Int /\ (s.pts + g) * TicksPerPts \in Int
    BY <2>1, ConstantTypes
  <2> DEFINE a == (s.pts + f) * TicksPerPts
             b == (s.pts + g) * TicksPerPts
  <2> HIDE DEF a, b
  <2>3. a % NTimestamps \in Int /\ b % NTimestamps \in Int
    BY <2>2, ConstantTypes DEF a, b
  <2> QED BY <2>3 DEF FrameTime, a, b
<1>2. ~(f < g) /\ ~(g < f)
  BY <1>1 DEF TimesAscend
<1> QED BY <1>2

(* What is in the ring is a time that a timeout can be a difference of.    *)
LEMMA RingTimes ==
  ASSUME TimesInReach, ZeroedMemory, Inv, Cutting, NEW b \in Slots
  PROVE  packets[b].timestamp \in Nat /\ packets[b].timestamp < TimeMod
<1>1. packets[b].timestamp \in Nat
  BY SlotTimeType DEF Inv, Receiving
<1>2. CASE packets[b] \in Garbage
  BY <1>2, TimeModAssumption, MaxElapsedAssumption DEF ZeroedMemory
<1>3. CASE packets[b] \in added
  <2>1. /\ packets[b].data \in DOMAIN sent
        /\ packets[b].timestamp = ToNs(sent[packets[b].data].timestamp)
    BY <1>3 DEF Inv, Receiving, AsSent
  <2>2. PICK f \in 1 .. nframes :
          sent[packets[b].data].timestamp = FrameTime(setting, f)
    BY <2>1 DEF Cutting
  <2>3. f \in 1 .. MaxFrames /\ setting \in Settings
    BY StreamAssumption DEF Cutting, Inv, Sending
  <2> QED BY <1>1, <2>1, <2>2, <2>3 DEF TimesInReach
<1> QED BY <1>1, <1>2, <1>3 DEF Inv, Receiving, Filled

(* As long as packets come in order a slot that is used again is used for  *)
(* a time that is no earlier.                                              *)
LEMMA RingAdvances ==
  ASSUME ZeroedMemory, Inv, Passing, Ascending, ~serves,
         NEW k \in DOMAIN net, NEW p, Arrives(net[k], p), NEW b \in Slots
  PROVE  /\ packets[b].timestamp <= packets'[b].timestamp
         /\ packets[b].timestamp \in Nat /\ packets'[b].timestamp \in Nat
<1>1. /\ packets[b].timestamp \in Nat
      /\ packets'[b] = IF b = dx THEN p ELSE packets[b]
  BY SlotTimeType DEF Arrives, Inv, Receiving, TypeOK
<1>2. /\ p.timestamp \in Nat /\ p.timestamp = ToNs(sent[net[k]].timestamp)
      /\ net[k] \in DOMAIN sent
  BY DEF Arrives, AsSent, Packet
<1>3. CASE packets[b] \in Garbage
  BY <1>1, <1>2, <1>3 DEF ZeroedMemory
<1>4. CASE packets[b] \in added
  <2> DEFINE i == packets[b].data
  <2>1. /\ i \in DOMAIN sent /\ packets[b].timestamp = ToNs(sent[i].timestamp)
        /\ i < net[k]
    BY <1>4 DEF Inv, Receiving, AsSent, Passing
  <2> HIDE DEF i
  <2>2. sent[i].timestamp <= sent[net[k]].timestamp
    BY <1>2, <2>1 DEF Ascending
  <2>3. sent[i].timestamp \in Nat /\ sent[net[k]].timestamp \in Nat
    BY <1>2, <2>1, SentTimes
  <2>4. ~(ToNs(sent[net[k]].timestamp) < ToNs(sent[i].timestamp))
    BY <2>2, <2>3, ToNsOrder
  <2> QED BY <1>1, <1>2, <2>1, <2>4
<1> QED BY <1>3, <1>4 DEF Inv, Receiving, Filled

(* A difference within the width of a counter does not wrap around.        *)
LEMMA Difference ==
  ASSUME NEW m \in Nat, NEW a \in Nat, NEW b \in Nat, a < b, b < m
  PROVE  (b - a) % m = b - a
<1>1. PICK d \in Nat : d = b - a
  OBVIOUS
<1>2. 0 < d /\ d < m
  BY <1>1
<1>3. d % m = d
  BY <1>2, SMT
<1> QED BY <1>1, <1>3

(* Every step keeps Forward and PlaybackInOrder.                           *)
LEMMA ForwardStep ==
  ASSUME TimesInReach, ZeroedMemory, Inv, Cutting, Passing, Ascending,
         Forward, PlaybackInOrder, [StreamNext]_streamVars
  PROVE  Forward' /\ PlaybackInOrder'
<1>1. serves' = serves
  BY Monotone
<1> SUFFICES ASSUME ~serves PROVE Forward' /\ PlaybackInOrder'
  BY <1>1 DEF Forward, PlaybackInOrder
<1>2. timeout # 0 => curr_pkt \in Slots
  BY DEF Inv, Receiving, PlayInv
<1>3. ASSUME NEW n \in DOMAIN shown PROVE shown[n][1].timestamp \in Nat
  <2>1. /\ shown[n] \in Seq(Slot) /\ shown[n] # <<>>
    BY DEF Inv, Showing, Clean
  <2>2. shown[n][1] \in Slot
    BY <2>1, EmptySeq
  <2> QED BY <2>2 DEF Slot, Packet, UninitSlot
<1>4. ASSUME NEW k \in DOMAIN net, Deliver(k) PROVE Forward' /\ PlaybackInOrder'
  <2>1. PICK p : Arrives(net[k], p)
    BY <1>4, Delivery DEF Inv
  <2>2. UNCHANGED playVars /\ shown' = shown
    BY <1>4, <2>1, Delivery DEF Inv, Arrives
  <2>3. \A b \in Slots : /\ packets[b].timestamp <= packets'[b].timestamp
                         /\ packets[b].timestamp \in Nat
                         /\ packets'[b].timestamp \in Nat
    BY <2>1, RingAdvances
  <2>4. timestamp_start \in Nat
    BY DEF Inv, Receiving, PlayInv
  <2>5. /\ timeout' = timeout /\ timestamp_start' = timestamp_start
        /\ curr_pkt' = curr_pkt /\ exited' = exited
    BY <2>2 DEF playVars
  <2>6. timeout # 0 => timestamp_start <= packets'[curr_pkt].timestamp
    BY <1>2, <2>3, <2>4 DEF Forward
  <2>7. ASSUME timeout # 0, ~exited, NEW n \in DOMAIN shown
        PROVE  shown[n][1].timestamp < packets'[curr_pkt].timestamp
    <3>1. shown[n][1].timestamp < packets[curr_pkt].timestamp
      BY <2>7 DEF Forward
    <3> QED BY <1>2, <1>3, <2>3, <2>7, <3>1
  <2>8. timeout = 0 => exited \/ shown = <<>>
    BY DEF Forward
  <2>9. Forward'
    BY <2>2, <2>5, <2>6, <2>7, <2>8 DEF Forward
  <2> QED BY <1>1, <2>2, <2>9 DEF PlaybackInOrder
<1>5. CASE Poll
  <2>1. PICK i \in Slots, start \in Nat :
          /\ i = IF timeout = 0 THEN 0 ELSE curr_pkt
          /\ start = IF timeout = 0 THEN packets[0].timestamp
                                    ELSE timestamp_start
          /\ timestamp_start' = start /\ Alive
          /\ \/ exited' /\ UNCHANGED <<timeout, curr_pkt>>
             \/ \E j \in NextPacket(i) :
                  /\ j \in Slots /\ packets[j].timestamp > packets[i].timestamp
                  /\ timeout' = (packets[j].timestamp - start) % TimeMod
                  /\ curr_pkt' = j /\ exited' = exited
    BY <1>5, Handled DEF Inv
  <2>2. packets' = packets
    BY <1>5, Polled DEF Inv, ringVars
  <2>3. ~exited /\ start <= packets[i].timestamp
    <3>1. packets[i].timestamp \in Nat
      BY RingTimes
    <3> QED BY <2>1, <3>1 DEF Alive, Forward
  <2>4. ASSUME NEW n \in DOMAIN shown
        PROVE  shown[n][1].timestamp < packets[i].timestamp
    <3>1. timeout # 0
      BY <2>3 DEF Forward
    <3> QED BY <2>1, <2>3, <3>1 DEF Forward
  <2>5. \/ shown' = shown
        \/ shown' # shown /\ shown' = Append(shown, frame')
           /\ frame'[1].timestamp = packets[i].timestamp
    <3>1. CASE shown' = shown
      BY <3>1
    <3>2. CASE shown' # shown
      <4>1. shown' = Append(shown, frame')
        BY <1>5, <3>2, FromSlots
      <4>2. PICK q \in Seq(Slots) :
              /\ q # <<>>
              /\ \A k \in DOMAIN q : packets[q[k]].timestamp = packets[i].timestamp
              /\ frame' = [k \in 1 .. Len(q) |-> packets[q[k]]]
        BY <1>5, <2>1, <3>2, FromSlots
      <4>3. 1 \in DOMAIN q /\ 1 \in 1 .. Len(q)
        BY <4>2, EmptySeq
      <4> QED BY <3>2, <4>1, <4>2, <4>3
    <3> QED BY <3>1, <3>2
  <2>6. /\ shown \in Seq(Seq(Slot)) /\ Len(shown) \in Nat
        /\ DOMAIN shown = 1 .. Len(shown)
    BY DEF Inv, Showing
  <2>7. \A n \in DOMAIN shown' :
          \/ n \in DOMAIN shown /\ shown'[n] = shown[n]
          \/ n = Len(shown) + 1 /\ shown'[n] = frame'
             /\ frame'[1].timestamp = packets[i].timestamp
    <3>1. CASE shown' = shown
      BY <3>1
    <3>2. CASE shown' # shown
      <4>1. frame' \in Seq(Slot)
        BY <1>5, Polled DEF Inv
      <4> QED BY <2>5, <2>6, <3>2, <4>1
    <3> QED BY <3>1, <3>2
  <2>8. PlaybackInOrder'
    <3> SUFFICES ASSUME NEW m \in DOMAIN shown', NEW n \in DOMAIN shown', m < n
                 PROVE  shown'[m][1].timestamp < shown'[n][1].timestamp
      BY DEF PlaybackInOrder
    <3>1. m \in DOMAIN shown /\ shown'[m] = shown[m]
      BY <2>6, <2>7
    <3>2. CASE n \in DOMAIN shown /\ shown'[n] = shown[n]
      BY <3>1, <3>2 DEF PlaybackInOrder
    <3>3. CASE shown'[n] = frame' /\ frame'[1].timestamp = packets[i].timestamp
      BY <2>4, <3>1, <3>3
    <3> QED BY <2>7, <3>2, <3>3
  <2>9. ASSUME exited', UNCHANGED <<timeout, curr_pkt>> PROVE Forward'
    BY <2>1, <2>2, <2>3, <2>9 DEF Forward
  <2>10. ASSUME NEW j \in Slots, packets[j].timestamp > packets[i].timestamp,
                timeout' = (packets[j].timestamp - start) % TimeMod,
                curr_pkt' = j
         PROVE  Forward'
    <3>1. /\ packets[i].timestamp \in Nat /\ packets[j].timestamp \in Nat
          /\ packets[j].timestamp < TimeMod /\ TimeMod \in Nat
      BY RingTimes, TimeModAssumption
    <3>2. start < packets[j].timestamp
      BY <2>3, <2>10, <3>1
    <3>3. timeout' # 0
      <4>1. (packets[j].timestamp - start) % TimeMod = packets[j].timestamp - start
        BY <3>1, <3>2, Difference
      <4> QED BY <2>10, <3>1, <3>2, <4>1
    <3>4. \A n \in DOMAIN shown' : shown'[n][1].timestamp < packets[j].timestamp
      BY <1>3, <2>4, <2>7, <2>10, <3>1
    <3>5. timestamp_start' <= packets'[curr_pkt'].timestamp
      BY <2>1, <2>2, <2>10, <3>1, <3>2
    <3> QED BY <2>2, <2>10, <3>3, <3>4, <3>5 DEF Forward
  <2> QED BY <2>1, <2>8, <2>9, <2>10
<1>6. CASE UNCHANGED <<packets, shown, timeout, timestamp_start, curr_pkt, exited>>
  BY <1>1, <1>6 DEF Forward, PlaybackInOrder
<1>7. CASE TimePasses
  BY <1>6, <1>7 DEF TimePasses, Tick, vars, ringVars
<1>8. CASE \/ Encode \/ Partition \/ Emit \/ OnCommand
           \/ (\E k \in DOMAIN net : Duplicate(k)) \/ UNCHANGED streamVars
  <2>1. UNCHANGED <<jvars, shown>>
    BY <1>8 DEF Encode, Partition, Emit, OnCommand, Duplicate, streamVars
  <2> QED BY <1>6, <2>1 DEF jvars, vars, ringVars, jitterVars, playVars
<1> QED BY <1>4, <1>5, <1>7, <1>8 DEF StreamNext

(* Every frame is shown at most once and never after a later one, as long  *)
(* as packets come in order and nothing is sent again, whatever is lost.   *)
THEOREM NeverBackwards ==
  ASSUME InOrder, TimesAscend, TimesInReach, ZeroedMemory
  PROVE  StreamSpec => []PlaybackInOrder
<1>1. StreamInit => Passing /\ Ascending /\ Forward /\ PlaybackInOrder
  <2> SUFFICES ASSUME StreamInit
               PROVE  Passing /\ Ascending /\ Forward /\ PlaybackInOrder
    OBVIOUS
  <2>1. /\ copied = {} /\ net = <<>> /\ sent = <<>> /\ shown = <<>>
        /\ timeout = 0
    BY DEF StreamInit, JitterInit
  <2> QED BY <2>1 DEF Passing, Ascending, Forward, PlaybackInOrder
<1>2. TimesApart
  BY AscendingApart
<1>3. Inv /\ Passing /\ [StreamNext]_streamVars => Passing'
  BY PassingStep
<1>4. Inv /\ Cutting /\ Ascending /\ [StreamNext]_streamVars => Ascending'
  BY AscendingStep
<1>5. Inv /\ Cutting /\ Passing /\ Ascending /\ Forward /\ PlaybackInOrder
        /\ [StreamNext]_streamVars => Forward' /\ PlaybackInOrder'
  BY ForwardStep
<1>6. StreamSpec => [](Inv /\ Cutting /\ MarkerEnds)
  BY <1>2, CuttingInvariant
<1> QED BY <1>1, <1>3, <1>4, <1>5, <1>6, PTL DEF StreamSpec

-----------------------------------------------------------------------------
(* Requests *)

(* A row of which nothing is lost arrives as a whole.                      *)
LEMMA NothingLeftOut ==
  ASSUME NEW n \in Nat, NEW s \in Selections(n), Len(s) = n
  PROVE  \A k \in 1 .. n : k \in DOMAIN s /\ s[k] = k
<1>1. /\ DOMAIN s = 1 .. n /\ \A k \in 1 .. n : s[k] \in 1 .. n
      /\ \A a, b \in 1 .. n : a < b => s[a] < s[b]
  <2>1. s \in Seq(1 .. n) /\ \A a, b \in DOMAIN s : a < b => s[a] < s[b]
    BY Selected
  <2>2. \A k \in 1 .. Len(s) : s[k] \in 1 .. n
    BY <2>1
  <2>3. DOMAIN s = 1 .. Len(s)
    BY <2>1
  <2> QED BY <2>1, <2>2, <2>3
<1>2. \A k \in 1 .. n : s[k] >= k
  <2> DEFINE T == {k \in 1 .. n : s[k] < k}
  <2>1. ASSUME T # {} PROVE FALSE
    <3>1. T \subseteq Nat
      OBVIOUS
    <3>2. PICK m \in T : \A k \in T : m <= k
      BY <2>1, <3>1, LeastElement
    <3>3. m \in 1 .. n /\ s[m] < m
      OBVIOUS
    <3>4. m # 1
      BY <1>1, <3>3
    <3>5. m - 1 \in 1 .. n /\ m - 1 \notin T
      BY <3>2, <3>3, <3>4
    <3>6. s[m - 1] >= m - 1 /\ s[m - 1] < s[m]
      BY <1>1, <3>3, <3>5
    <3> QED BY <1>1, <3>3, <3>5, <3>6
  <2> QED BY <1>1, <2>1
<1>3. \A k \in 1 .. n : s[k] <= k
  <2> DEFINE T == {k \in 0 .. n - 1 : s[n - k] > n - k}
  <2>1. ASSUME T # {} PROVE FALSE
    <3>1. T \subseteq Nat
      OBVIOUS
    <3>2. PICK m \in T : \A k \in T : m <= k
      BY <2>1, <3>1, LeastElement
    <3>3. m \in 0 .. n - 1 /\ s[n - m] > n - m
      OBVIOUS
    <3>4. m # 0
      BY <1>1, <3>3
    <3>5. m - 1 \in 0 .. n - 1 /\ m - 1 \notin T
      BY <3>2, <3>3, <3>4
    <3>6. n - (m - 1) \in 1 .. n /\ n - m \in 1 .. n
      BY <3>3, <3>5
    <3>7. s[n - (m - 1)] <= n - (m - 1)
      BY <1>1, <3>5, <3>6
    <3>8. s[n - m] < s[n - (m - 1)]
      BY <1>1, <3>3, <3>6
    <3> QED BY <1>1, <3>3, <3>6, <3>7, <3>8
  <2>2. ASSUME NEW k \in 1 .. n PROVE s[k] <= k
    <3>1. n - k \in 0 .. n - 1 /\ n - (n - k) = k
      OBVIOUS
    <3>2. n - k \notin T
      BY <2>1
    <3>3. ~(s[n - (n - k)] > n - (n - k))
      BY <3>1, <3>2
    <3> QED BY <1>1, <3>1, <3>3
  <2> QED BY <2>2
<1> QED BY <1>1, <1>2, <1>3

(* If the count of losses stays, the whole row is on its way.              *)
LEMMA NothingLost ==
  ASSUME Inv, NEW row \in Seq(Nat), Transmit(row), losses' <= losses
  PROVE  \A k \in DOMAIN row : \E a \in DOMAIN net' : net'[a] = row[k]
<1>1. net \in Seq(Nat) /\ losses \in Nat
  BY SettingsAssumption DEF Inv, Sending, Underway
<1>2. PICK kept \in Selections(Len(row)) :
        /\ losses' = losses + Len(row) - Len(kept)
        /\ net' = net \o [k \in DOMAIN kept |-> row[kept[k]]]
  BY DEF Transmit
<1>3. PICK n \in Nat : n = Len(row) /\ DOMAIN row = 1 .. n
  OBVIOUS
<1>4. kept \in Seq(1 .. n) /\ Len(kept) <= n
  BY <1>2, <1>3, Selected
<1>5. Len(kept) = n
  BY <1>1, <1>2, <1>3, <1>4
<1>6. \A k \in 1 .. n : k \in DOMAIN kept /\ kept[k] = k
  BY <1>2, <1>3, <1>5, NothingLeftOut
<1> DEFINE t == [k \in DOMAIN kept |-> row[kept[k]]]
<1>7. t \in Seq(Nat) /\ Len(t) = n /\ \A k \in 1 .. n : t[k] = row[k]
  <2>1. DOMAIN kept = 1 .. n
    BY <1>4, <1>5
  <2>2. t = [k \in 1 .. n |-> row[k]]
    BY <1>6, <2>1
  <2> QED BY <1>3, <2>2
<1>8. net' = net \o t
  BY <1>2
<1> HIDE DEF t
<1>9. \A k \in 1 .. n : /\ Len(net) + k \in DOMAIN net'
                        /\ net'[Len(net) + k] = t[k]
  BY <1>1, <1>7, <1>8
<1> QED BY <1>3, <1>7, <1>9

(* A packet that has got lost, as far as anybody knows.                    *)
OnWay(i) == \E a \in DOMAIN net : net[a] = i
Astray(i) == sent[i].seqnum \notin received /\ ~OnWay(i)

(* A packet that went astray is the one that was lost.                     *)
Strays ==
  OneLoss =>
    /\ \A i, k \in DOMAIN sent : Astray(i) /\ Astray(k) => i = k
    /\ losses = 0 => \A i \in DOMAIN sent : ~Astray(i)

(* Packets overtake each other only where they are sent again.             *)
Queue ==
  \A a, b \in DOMAIN net :
    a < b => net[a] < net[b] \/ sent[net[b]].seqnum \in reported

(* As long as the history is not full, packet n is in its slot n - 1.      *)
Fresh ==
  (\E h \in Hist!Slots : history[h].data = NoData) =>
    hdx = Len(sent) /\ \A g \in 0 .. hdx - 1 : history[g].data = g + 1

(* What is reported was sent, and the highest number is one that came.     *)
Known ==
  /\ added # {} => prev_seqnum \in received
  /\ ~Fell(1, Len(sent)) =>
       \A s \in reported : \E i \in DOMAIN sent : sent[i].seqnum = s

AllHeard == \A k \in DOMAIN ctl : Heard(ctl[k])

Requests == Strays /\ Queue /\ Fresh /\ Known /\ AllHeard

(* What the history has under a number was sent under it.                  *)
LEMMA KeptIsSent ==
  ASSUME Inv, NEW s, NEW d \in Kept(s)
  PROVE  d \in DOMAIN sent /\ sent[d].seqnum = s
<1>1. PICK h \in Hist!FindSeqnum(history, s) : d = history[h].data /\ d # NoData
  BY DEF Kept
<1>2. h \in Hist!Slots /\ history[h].seqnum = s
  BY DEF Hist!FindSeqnum
<1> QED BY <1>1, <1>2 DEF Inv, Remembering

(* A number that was sent and is not in the history any more is not in any *)
(* slot: what malloc left there does not get in the way of the search.     *)
LEMMA KeptOrGone ==
  ASSUME Inv, Fresh, NEW i \in DOMAIN sent, Kept(sent[i].seqnum) = {}
  PROVE  \A h \in Hist!Slots : history[h].seqnum # sent[i].seqnum
<1> DEFINE s == sent[i].seqnum
           T == {h \in Hist!Slots : history[h].seqnum = s}
<1>1. SUFFICES ASSUME T # {} PROVE FALSE
  OBVIOUS
<1>2. \A h \in Hist!Slots : h \in Nat /\ \A g \in 0 .. h : g \in Hist!Slots
  BY StreamAssumption DEF Hist!Slots
<1>3. PICK m \in T : \A h \in T : m <= h
  <2>1. T \subseteq Nat
    BY <1>2
  <2> QED BY <1>1, <2>1, LeastElement
<1>4. m \in Hist!Slots /\ m \in Nat /\ history[m].seqnum = s
  BY <1>2
<1>5. \A g \in 0 .. m - 1 : history[g].seqnum # s
  <2>1. \A g \in 0 .. m - 1 : g \in Hist!Slots /\ ~(m <= g)
    BY <1>2, <1>4
  <2> QED BY <1>3, <2>1
<1>6. history[m].data = NoData
  BY <1>4, <1>5 DEF Kept, Hist!FindSeqnum
<1>7. /\ DOMAIN sent = 1 .. hdx /\ hdx \in Hist!Slots
      /\ \A g \in 0 .. hdx - 1 : history[g].data = g + 1
  <2>1. hdx = Len(sent) /\ \A g \in 0 .. hdx - 1 : history[g].data = g + 1
    BY <1>4, <1>6 DEF Fresh
  <2>2. sent \in Seq(WirePacket) /\ hdx \in Hist!Slots
    BY DEF Inv, Sending
  <2> QED BY <2>1, <2>2
<1>8. hdx \in Nat /\ i \in 1 .. hdx /\ \A g \in 1 .. hdx : g # NoData
  BY <1>2, <1>7, StreamAssumption DEF Inv, Sending
<1>9. i - 1 \in 0 .. hdx - 1 /\ i - 1 \in Hist!Slots
  BY <1>2, <1>7, <1>8
<1>10. history[i - 1].data = i
  BY <1>7, <1>8, <1>9
<1>11. i - 1 \in T
  BY <1>8, <1>9, <1>10 DEF Inv, Remembering
<1>12. m <= i - 1
  BY <1>3, <1>11
<1>13. m \in 0 .. hdx - 1 /\ m + 1 \in 1 .. hdx
  BY <1>4, <1>8, <1>12
<1> QED BY <1>6, <1>7, <1>8, <1>13

(* A number between those of two packets is that of a packet between them. *)
LEMMA Between ==
  ASSUME NEW n \in Nat, NEW o \in 1 .. n, NEW i \in 1 .. n,
         NEW t \in Int, NEW v \in Int, NEW u \in Int,
         t - v = i - o, v < u, u < t
  PROVE  o + (u - v) \in 1 .. n /\ o + (u - v) < i
OBVIOUS

(* What a packet skips was sent before it, and has gone astray.            *)
LEMMA SkippedIsAstray ==
  ASSUME InOrder, Inv, Rising, Queue, Known, ~Fell(1, Len(sent)),
         NEW k \in DOMAIN net, Deliver(k), NEW s \in missing'
  PROVE  \E j \in DOMAIN sent : sent[j].seqnum = s /\ Astray(j)
<1> DEFINE i == net[k]
<1>1. PICK p : Arrives(i, p)
  BY Delivery DEF Inv
<1>2. missing' \cap (received \cup reported) = {} /\ k = 1
  BY Delivery DEF Inv, Sending, InOrder
<1>3. i \in DOMAIN sent /\ p.seqnum = sent[i].seqnum
  BY <1>1 DEF Arrives, AsSent, Inv, Underway
<1>4. s \in Skipped(p.seqnum)
  BY <1>1 DEF Arrives, CheckSeqnum
<1>5. s \in prev_seqnum + 1 .. p.seqnum - 1 /\ prev_seqnum # 0
  BY <1>4 DEF Skipped
<1>6. PICK q \in added : q.seqnum = prev_seqnum
  <2>1. prev_seqnum \in received
    BY <1>5 DEF Known, Inv, Receiving
  <2> QED BY <2>1 DEF Inv, Receiving
<1>7. q.data \in DOMAIN sent /\ sent[q.data].seqnum = prev_seqnum
  BY <1>6 DEF Inv, Receiving, AsSent
<1>8. PICK n \in Nat : n = Len(sent) /\ DOMAIN sent = 1 .. n
  BY DEF Inv, Sending
<1>9. PICK o \in 1 .. n : o = q.data
  BY <1>7, <1>8
<1>10. /\ \A a \in 1 .. n : sent[a].seqnum \in Nat
       /\ \A a, b \in 1 .. n : sent[b].seqnum - sent[a].seqnum = b - a
  <2>1. \A a \in DOMAIN sent : sent[a].seqnum \in Seqnums
    BY DEF Inv, Sending
  <2>2. \A r \in Seqnums : r \in Nat
    BY NSeqnumsAssumption DEF Seqnums
  <2>3. \A a, b \in DOMAIN sent : sent[b].seqnum - sent[a].seqnum = b - a
    BY DEF Rising
  <2> QED BY <1>8, <2>1, <2>2, <2>3
<1> HIDE DEF i
<1>11. i \in 1 .. n /\ sent[i].seqnum - prev_seqnum = i - o /\ prev_seqnum \in Nat
       /\ sent[i].seqnum \in Nat
  BY <1>3, <1>7, <1>8, <1>9, <1>10
<1>12. s \in Int /\ prev_seqnum < s /\ s < sent[i].seqnum
  BY <1>3, <1>5, <1>11
<1> DEFINE j == o + (s - prev_seqnum)
<1>13. j \in 1 .. n /\ j < i
  <2>1. PICK t \in Nat, v \in Nat, u \in Int :
          t = sent[i].seqnum /\ v = prev_seqnum /\ u = s
    BY <1>11, <1>12
  <2>2. t - v = i - o /\ v < u /\ u < t /\ i \in 1 .. n
    BY <1>11, <1>12, <2>1
  <2>3. o + (u - v) \in 1 .. n /\ o + (u - v) < i
    BY <2>1, <2>2, Between
  <2> QED BY <2>1, <2>3
<1>14. sent[j].seqnum = s
  <2>1. sent[j].seqnum - sent[o].seqnum = j - o /\ sent[j].seqnum \in Nat
    BY <1>10, <1>13
  <2>2. sent[o].seqnum = prev_seqnum
    BY <1>7, <1>9
  <2>3. PICK t \in Nat, v \in Nat, u \in Int :
          t = sent[j].seqnum /\ v = prev_seqnum /\ u = s
    BY <1>11, <1>12, <2>1
  <2>4. t - v = (o + (u - v)) - o
    BY <2>1, <2>2, <2>3
  <2>5. o \in Nat
    BY <1>8, <1>9
  <2> QED BY <2>3, <2>4, <2>5
<1> HIDE DEF j
<1>15. ASSUME NEW a \in DOMAIN net, net[a] = j PROVE FALSE
  <2>1. a # k
    BY <1>11, <1>13, <1>15 DEF i
  <2>2. k < a
    BY <1>2, <2>1 DEF Inv, Underway
  <2>3. i < j \/ sent[j].seqnum \in reported
    BY <1>15, <2>2 DEF Queue, i
  <2> QED BY <1>2, <1>11, <1>13, <1>14, <2>3
<1> QED BY <1>2, <1>8, <1>13, <1>14, <1>15 DEF Astray, OnWay

(* Every step keeps Strays: a packet goes astray only as a loss is         *)
(* counted.                                                                *)
LEMMA StraysStep ==
  ASSUME Inv, Strays, [StreamNext]_streamVars
  PROVE  Strays'
<1>1. /\ losses \in Nat /\ losses' \in Nat /\ losses <= losses'
      /\ OneLoss' => OneLoss
  BY OneLossBefore
<1>2. CASE \A i \in DOMAIN sent' : Astray(i)' => i \in DOMAIN sent /\ Astray(i)
  <2>1. losses' = 0 => losses = 0
    BY <1>1
  <2> QED BY <1>1, <1>2, <2>1 DEF Strays
<1>3. \A a \in DOMAIN net : net[a] \in DOMAIN sent
  BY DEF Inv, Underway
<1>4. net \in Seq(Nat) /\ losses \in Nat /\ setting \in Settings
  BY SettingsAssumption DEF Inv, Sending, Underway
<1>5. CASE sent' = sent /\ received' = received
             /\ \A a \in DOMAIN net : a \in DOMAIN net' /\ net'[a] = net[a]
  BY <1>2, <1>5 DEF Astray, OnWay
<1>6. CASE Emit
  <2>1. PICK n \in Nat : n = Len(sent')
    BY <1>6, Emission DEF Inv
  <2>2. /\ DOMAIN sent = 1 .. n - 1 /\ DOMAIN sent' = 1 .. n
        /\ \A i \in DOMAIN sent : sent'[i] = sent[i]
    BY <1>6, <2>1, Emission DEF Inv, Sending, Grown
  <2>3. Transmit(<<n>>) /\ received' = received
    BY <1>6, <2>1 DEF Emit, jvars, vars, seqVars
  <2>4. <<n>> \in Seq(Nat) /\ DOMAIN <<n>> = {1} /\ <<n>>[1] = n
    OBVIOUS
  <2>5. \A a \in DOMAIN net : a \in DOMAIN net' /\ net'[a] = net[a]
    BY <1>4, <2>3, <2>4, Transmitted
  <2>6. \A i \in DOMAIN sent : Astray(i)' => Astray(i)
    BY <2>2, <2>3, <2>5 DEF Astray, OnWay
  <2>7. CASE losses' <= losses
    <3>1. \E a \in DOMAIN net' : net'[a] = n
      BY <2>3, <2>4, <2>7, NothingLost
    <3>2. ~Astray(n)'
      BY <3>1 DEF Astray, OnWay
    <3> QED BY <1>2, <2>2, <2>6, <3>2
  <2>8. CASE ~(losses' <= losses)
    <3>1. losses' # 0
      BY <1>1, <2>8
    <3>2. OneLoss' => losses = 0
      BY <1>1, <2>8 DEF OneLoss
    <3>3. OneLoss' => \A i \in DOMAIN sent : ~Astray(i)'
      BY <1>1, <2>6, <3>2 DEF Strays
    <3>4. OneLoss' => \A i \in DOMAIN sent' : Astray(i)' => i = n
      BY <2>2, <3>3
    <3> QED BY <3>1, <3>4 DEF Strays
  <2> QED BY <2>7, <2>8
<1>7. CASE OnCommand
  <2>1. PICK row \in Seq(Nat) :
          IF serves THEN Transmit(row) ELSE UNCHANGED <<net, losses>>
    BY <1>7, Answered DEF Inv
  <2>2. \A a \in DOMAIN net : a \in DOMAIN net' /\ net'[a] = net[a]
    BY <1>4, <2>1, Transmitted
  <2>3. sent' = sent /\ received' = received
    BY <1>7 DEF OnCommand, senderVars, jvars, vars, seqVars
  <2> QED BY <1>5, <2>2, <2>3
<1>8. ASSUME NEW k \in DOMAIN net, Deliver(k) PROVE Strays'
  <2>1. PICK p : Arrives(net[k], p)
    BY <1>8, Delivery DEF Inv
  <2>2. received' = received \cup {p.seqnum} /\ p.seqnum = sent[net[k]].seqnum
    BY <2>1 DEF Arrives, CheckSeqnum, AsSent
  <2>3. sent' = sent /\ net' = RemoveAt(net, k)
    BY <1>8, Delivery DEF Inv, senderVars
  <2>4. PICK m \in Nat : m = Len(net) /\ DOMAIN net = 1 .. m
    BY <1>4
  <2>5. /\ DOMAIN net' = 1 .. m - 1
        /\ \A a \in 1 .. m - 1 :
             net'[a] = IF a < k THEN net[a] ELSE net[a + 1]
    <3>1. k \in 1 .. Len(net)
      BY <2>4
    <3>2. /\ net' \in Seq(Nat) /\ Len(net') = Len(net) - 1
          /\ \A a \in 1 .. Len(net) - 1 :
               net'[a] = IF a < k THEN net[a] ELSE net[a + 1]
      BY <1>4, <2>3, <3>1, RemovedFacts, Zenon
    <3> QED BY <2>4, <3>2
  <2>6. ASSUME NEW a \in DOMAIN net, a # k
        PROVE  \E b \in DOMAIN net' : net'[b] = net[a]
    <3>1. CASE a < k
      <4>1. a \in 1 .. m - 1
        BY <2>4, <3>1
      <4> QED BY <2>5, <3>1, <4>1
    <3>2. CASE a > k
      <4>1. a - 1 \in 1 .. m - 1 /\ ~(a - 1 < k) /\ (a - 1) + 1 = a
        BY <2>4, <3>2
      <4> QED BY <2>5, <4>1
    <3> QED BY <2>4, <2>6, <3>1, <3>2
  <2>7. \A i \in DOMAIN sent : Astray(i)' => Astray(i)
    <3> SUFFICES ASSUME NEW i \in DOMAIN sent, Astray(i)', OnWay(i)
                 PROVE  FALSE
      BY <2>2, <2>3 DEF Astray
    <3>1. PICK a \in DOMAIN net : net[a] = i
      BY DEF OnWay
    <3>2. a # k
      BY <2>2, <2>3, <3>1 DEF Astray
    <3> QED BY <2>6, <3>1, <3>2 DEF Astray, OnWay
  <2> QED BY <1>2, <2>3, <2>7
<1>9. ASSUME NEW k \in DOMAIN net, Duplicate(k) PROVE Strays'
  <2>1. net' = InsertAt(net, k, net[k]) /\ UNCHANGED <<jvars, senderVars>>
    BY <1>9 DEF Duplicate
  <2>2. PICK m \in Nat : m = Len(net) /\ DOMAIN net = 1 .. m
    BY <1>4
  <2>3. /\ Len(net') = m + 1 /\ net' \in Seq(Nat)
        /\ \A a \in 1 .. m + 1 : /\ a < k => net'[a] = net[a]
                                 /\ a > k => net'[a] = net[a - 1]
    <3>1. k \in 1 .. Len(net) /\ net[k] \in Nat
      BY <1>4, <2>2
    <3> QED BY <1>4, <2>1, <2>2, <3>1, InsertedFacts
  <2>4. ASSUME NEW a \in DOMAIN net
        PROVE  \E b \in DOMAIN net' : net'[b] = net[a]
    <3>1. CASE a < k
      <4>1. a \in 1 .. m + 1
        BY <2>2
      <4> QED BY <2>3, <3>1, <4>1
    <3>2. CASE ~(a < k)
      <4>1. a + 1 \in 1 .. m + 1 /\ a + 1 > k /\ (a + 1) - 1 = a
        BY <2>2, <3>2
      <4> QED BY <2>3, <4>1
    <3> QED BY <3>1, <3>2
  <2>5. sent' = sent /\ received' = received
    BY <2>1 DEF senderVars, jvars, vars, seqVars
  <2>6. \A i \in DOMAIN sent : OnWay(i) => OnWay(i)'
    BY <2>4 DEF OnWay
  <2> QED BY <1>2, <2>5, <2>6 DEF Astray
<1>10. CASE Encode \/ Partition \/ TimePasses \/ UNCHANGED streamVars
  <2>1. sent' = sent /\ received' = received /\ net' = net
    BY <1>10 DEF Encode, Partition, TimePasses, Tick, streamVars, senderVars,
                 netVars, jvars, vars, seqVars
  <2> QED BY <1>5, <2>1
<1>11. CASE Poll
  <2>1. sent' = sent /\ received' = received /\ net' = net
    BY <1>11, Polled DEF Inv, senderVars, netVars, seqVars
  <2> QED BY <1>5, <2>1
<1> QED BY <1>6, <1>7, <1>8, <1>9, <1>10, <1>11, Zenon DEF StreamNext

(* Every step keeps Queue.                                                 *)
LEMMA QueueStep ==
  ASSUME InOrder, Inv, Passing, Queue, [StreamNext]_streamVars
  PROVE  Queue'
<1>1. /\ net \in Seq(Nat) /\ \A a \in DOMAIN net : net[a] \in DOMAIN sent
      /\ setting \in Settings
  BY DEF Inv, Sending, Underway
<1>2. PICK m \in Nat : m = Len(net) /\ DOMAIN net = 1 .. m
  BY <1>1
<1>3. Grown /\ reported \subseteq reported'
  BY Monotone
<1>4. \A a, b \in 1 .. m :
        a < b => net[a] < net[b] \/ sent'[net[b]].seqnum \in reported'
  BY <1>1, <1>2, <1>3 DEF Queue, Grown
<1>5. CASE Emit
  <2>1. PICK n \in Nat : n = Len(sent')
    BY <1>5, Emission DEF Inv
  <2>2. DOMAIN sent = 1 .. n - 1
    BY <1>5, <2>1, Emission DEF Inv, Sending
  <2>3. Transmit(<<n>>)
    BY <1>5, <2>1 DEF Emit
  <2>4. <<n>> \in Seq(Nat) /\ Len(<<n>>) = 1 /\ DOMAIN <<n>> = {1} /\ <<n>>[1] = n
    OBVIOUS
  <2>5. \A a \in DOMAIN net' : \/ a \in 1 .. m /\ net'[a] = net[a]
                               \/ a = m + 1 /\ net'[a] = n
    BY <1>2, <2>3, <2>4, OnTheWay
  <2>6. \A i \in DOMAIN sent : i < n
    BY <2>1, <2>2
  <2> SUFFICES ASSUME NEW a \in DOMAIN net', NEW b \in DOMAIN net', a < b
               PROVE  net'[a] < net'[b] \/ sent'[net'[b]].seqnum \in reported'
    BY DEF Queue
  <2>7. CASE b \in 1 .. m
    <3>1. a \in 1 .. m
      BY <2>5, <2>7
    <3> QED BY <1>2, <1>4, <2>5, <2>7, <3>1
  <2>8. CASE b = m + 1
    <3>1. a \in 1 .. m /\ net'[a] = net[a]
      BY <2>5, <2>8
    <3>2. net'[b] = n
      BY <2>5, <2>8
    <3> QED BY <1>1, <1>2, <2>6, <3>1, <3>2
  <2> QED BY <2>5, <2>7, <2>8
<1>6. CASE OnCommand
  <2>1. PICK row \in Seq(Nat) :
          /\ \A k \in DOMAIN row : sent[row[k]].seqnum \in reported
          /\ IF serves THEN Transmit(row) ELSE UNCHANGED <<net, losses>>
    BY <1>6, Answered DEF Inv
  <2>2. sent' = sent /\ reported' = reported
    BY <1>6 DEF OnCommand, senderVars, jvars, vars, seqVars
  <2>3. CASE serves
    <3>1. \A a \in DOMAIN net' :
            \/ a \in 1 .. m /\ net'[a] = net[a]
            \/ a \notin 1 .. m /\ sent[net'[a]].seqnum \in reported
      BY <1>2, <2>1, <2>3, OnTheWay
    <3>2. net' \in Seq(Nat)
      BY <1>1, <2>1, <2>3, SettingsAssumption, Transmitted DEF Inv, Underway
    <3>3. \A a, b \in DOMAIN net' : a < b /\ b \in 1 .. m => a \in 1 .. m
      BY <1>2, <3>2
    <3> QED BY <1>4, <2>2, <3>1, <3>3, Zenon DEF Queue
  <2>4. CASE ~serves
    BY <2>1, <2>2, <2>4 DEF Queue
  <2> QED BY <2>3, <2>4
<1>7. ASSUME NEW k \in DOMAIN net, Deliver(k) PROVE Queue'
  <2>1. k = 1 /\ net' = RemoveAt(net, k) /\ sent' = sent
    BY <1>1, <1>7, Delivery DEF Inv, InOrder, senderVars
  <2>2. /\ DOMAIN net' = 1 .. m - 1
        /\ \A a \in 1 .. m - 1 : net'[a] = net[a + 1]
    <3>1. k \in 1 .. Len(net)
      BY <1>2
    <3>2. /\ net' \in Seq(Nat) /\ Len(net') = Len(net) - 1
          /\ \A i \in 1 .. Len(net) - 1 :
               net'[i] = IF i < k THEN net[i] ELSE net[i + 1]
      BY <1>1, <2>1, <3>1, RemovedFacts, Zenon
    <3> QED BY <1>2, <2>1, <3>2
  <2>3. \A a, b \in 1 .. m - 1 :
          a < b => a + 1 \in 1 .. m /\ b + 1 \in 1 .. m /\ a + 1 < b + 1
    BY <1>2
  <2> QED BY <1>4, <2>2, <2>3 DEF Queue
<1>8. ASSUME NEW k \in DOMAIN net, Duplicate(k) PROVE FALSE
  <2>1. Cardinality(copied) < setting.copies /\ setting.copies = 0
    BY <1>1, <1>8 DEF Duplicate, InOrder
  <2>2. Cardinality(copied) = 0
    BY FS_EmptySet DEF Passing
  <2> QED BY <2>1, <2>2
<1>9. CASE net' = net /\ sent' = sent
  BY <1>2, <1>4, <1>9 DEF Queue
<1>10. CASE Encode \/ Partition \/ TimePasses \/ UNCHANGED streamVars
  <2>1. net' = net /\ sent' = sent
    BY <1>10 DEF Encode, Partition, TimePasses, streamVars, senderVars, netVars
  <2> QED BY <1>9, <2>1
<1>11. CASE Poll
  BY <1>9, <1>11, Polled DEF Inv, senderVars, netVars
<1> QED BY <1>5, <1>6, <1>7, <1>8, <1>10, <1>11, Zenon DEF StreamNext

(* Every step keeps Fresh.                                                 *)
LEMMA FreshStep ==
  ASSUME Inv, Fresh, [StreamNext]_streamVars
  PROVE  Fresh'
<1>1. CASE Emit
  <2>1. PICK n \in Nat : n = Len(sent)
    BY <1>1, Emission DEF Inv
  <2>2. Len(sent') = n + 1 /\ n + 1 \in Data
    BY <1>1, <2>1, Emission DEF Inv
  <2>3. /\ history' = [history EXCEPT ![hdx] = [seqnum |-> vpx.seqnum,
                                                data |-> n + 1]]
        /\ hdx' = (hdx + 1) % NHistory
    BY <1>1, <2>2 DEF Emit, Hist!NextDx
  <2>4. \A h \in Hist!Slots :
          history'[h].data = IF h = hdx THEN n + 1 ELSE history[h].data
    BY <2>3 DEF Inv, Remembering
  <2>5. /\ hdx \in 0 .. NHistory - 1 /\ NHistory \in Nat \ {0}
        /\ Hist!Slots = 0 .. NHistory - 1 /\ NoData # n + 1
    BY <2>2, StreamAssumption DEF Inv, Sending, Hist!Slots
  <2> SUFFICES ASSUME NEW h \in Hist!Slots, history'[h].data = NoData
               PROVE  /\ hdx' = n + 1
                      /\ \A g \in 0 .. hdx' - 1 : history'[g].data = g + 1
    BY <2>2 DEF Fresh
  <2>6. h # hdx /\ history[h].data = NoData
    BY <2>4, <2>5
  <2>7. hdx = n /\ \A g \in 0 .. hdx - 1 : history[g].data = g + 1
    BY <2>1, <2>6 DEF Fresh
  <2>8. ~(h < hdx)
    <3>1. SUFFICES ASSUME h < hdx PROVE FALSE
      OBVIOUS
    <3>2. h \in 0 .. hdx - 1
      BY <2>5, <3>1
    <3>3. h + 1 \in 1 .. n
      BY <2>1, <2>7, <3>2
    <3>4. h + 1 \in DOMAIN sent
      BY <2>1, <3>3 DEF Inv, Sending
    <3>5. h + 1 \in Data
      BY <3>4 DEF Inv, Sending
    <3> QED BY <2>6, <2>7, <3>2, <3>5, StreamAssumption
  <2>9. hdx + 1 <= NHistory - 1
    BY <2>5, <2>6, <2>8
  <2>10. hdx' = hdx + 1
    BY <2>3, <2>5, <2>9
  <2>11. ASSUME NEW g \in 0 .. hdx' - 1 PROVE history'[g].data = g + 1
    <3>1. g \in Hist!Slots /\ (g = hdx \/ g \in 0 .. hdx - 1)
      BY <2>5, <2>9, <2>10
    <3> QED BY <2>4, <2>7, <3>1
  <2> QED BY <2>7, <2>10, <2>11
<1>2. CASE UNCHANGED <<history, hdx, sent>>
  BY <1>2 DEF Fresh
<1>3. CASE Encode \/ Partition \/ OnCommand \/ TimePasses \/ UNCHANGED streamVars
  BY <1>2, <1>3 DEF Encode, Partition, OnCommand, TimePasses, streamVars,
                    senderVars
<1>4. ASSUME NEW k \in DOMAIN net, Deliver(k) \/ Duplicate(k)
      PROVE  UNCHANGED <<history, hdx, sent>>
  BY <1>4 DEF Deliver, Duplicate, senderVars
<1>5. CASE Poll
  BY <1>2, <1>5, Polled DEF Inv, senderVars
<1> QED BY <1>1, <1>2, <1>3, <1>4, <1>5, Zenon DEF StreamNext

(* Every step keeps Known.                                                 *)
LEMMA KnownStep ==
  ASSUME InOrder, Inv, Rising, Queue, Known, [StreamNext]_streamVars
  PROVE  Known'
<1>1. Fell(1, Len(sent)) => Fell(1, Len(sent))'
  BY OneLossBefore
<1>2. Grown
  BY Monotone
<1>3. CASE UNCHANGED <<added, prev_seqnum, received, reported>>
  <2>1. added' # {} => prev_seqnum' \in received'
    BY <1>3 DEF Known
  <2>2. ASSUME ~Fell(1, Len(sent))', NEW s \in reported'
        PROVE  \E i \in DOMAIN sent' : sent'[i].seqnum = s
    <3>1. PICK i \in DOMAIN sent : sent[i].seqnum = s
      BY <1>1, <1>3, <2>2 DEF Known
    <3> QED BY <1>2, <3>1 DEF Grown
  <2> QED BY <2>1, <2>2 DEF Known
<1>4. ASSUME NEW k \in DOMAIN net, Deliver(k) PROVE Known'
  <2>1. PICK p : Arrives(net[k], p)
    BY <1>4, Delivery DEF Inv
  <2>2. /\ CheckSeqnum(p.seqnum) /\ p.seqnum \in Nat /\ prev_seqnum \in Nat
        /\ added = {} => prev_seqnum = 0
    BY <2>1, NSeqnumsAssumption
       DEF Arrives, Packet, Seqnums, Inv, Receiving, TypeOK
  <2>3. prev_seqnum' \in received'
    BY <2>2 DEF CheckSeqnum, Known
  <2>4. sent' = sent /\ reported' = reported \cup missing'
    BY <1>4, <2>2, Delivery DEF Inv, senderVars, CheckSeqnum
  <2>5. ASSUME ~Fell(1, Len(sent))', NEW s \in reported'
        PROVE  \E i \in DOMAIN sent' : sent'[i].seqnum = s
    <3>1. ~Fell(1, Len(sent))
      BY <1>1, <2>5
    <3>2. CASE s \in reported
      BY <2>4, <3>1, <3>2 DEF Known
    <3>3. CASE s \in missing'
      BY <1>4, <2>4, <3>1, <3>3, SkippedIsAstray
    <3> QED BY <2>4, <3>2, <3>3
  <2> QED BY <2>3, <2>5 DEF Known
<1>5. CASE Encode \/ Partition \/ Emit \/ OnCommand \/ TimePasses
             \/ UNCHANGED streamVars
  <2>1. UNCHANGED vars
    BY <1>5 DEF Encode, Partition, Emit, OnCommand, TimePasses, Tick,
                streamVars, jvars
  <2> QED BY <1>3, <2>1 DEF vars, ringVars, seqVars
<1>6. ASSUME NEW k \in DOMAIN net, Duplicate(k) PROVE Known'
  BY <1>3, <1>6 DEF Duplicate, jvars, vars, ringVars, seqVars
<1>7. CASE Poll
  BY <1>3, <1>7, Polled DEF Inv, ringVars, seqVars
<1> QED BY <1>4, <1>5, <1>6, <1>7, Zenon DEF StreamNext

(* The row of numbers in the request that a packet gives rise to.          *)
MissingRow == [n \in 1 .. Cardinality(missing') |-> prev_seqnum + n]

(* What a packet makes the receiver send: a datagram that is heard and     *)
(* carries the row of numbers.                                             *)
LEMMA RequestSent ==
  ASSUME Inv, NEW k \in DOMAIN net, Deliver(k)
  PROVE  \/ Refused(MissingRow) /\ UNCHANGED <<ctl, losses>>
         \/ losses' = losses + 1 /\ ctl' = ctl
         \/ \E d \in Seq(Byte) :
              /\ ctl' = Append(ctl, d) /\ Heard(d)
              /\ SeqnumsOf(d) = MissingRow
<1>1. PICK p : Arrives(net[k], p)
  BY Delivery DEF Inv
<1>2. /\ TypeOK /\ TypeOK' /\ p.seqnum \in Seqnums /\ CheckSeqnum(p.seqnum)
      /\ nr \in U16
  BY <1>1, Delivery DEF Inv, Receiving, Asking, Arrives, Packet
<1>3. /\ Cardinality(missing') \in Nat
      /\ \A n \in 1 .. Cardinality(missing') : prev_seqnum + n \in missing'
  BY <1>2, SkippedRow
<1>4. missing' \subseteq U16
  <2>1. Seqnums \subseteq U16
    BY NSeqnumsAssumption, WidthsAssumption, SMT DEF Seqnums, U16
  <2> QED BY <1>2, <2>1 DEF TypeOK
<1>5. MissingRow \in Seq(U16) /\ Len(MissingRow) = Cardinality(missing')
  BY <1>3, <1>4 DEF MissingRow
<1>6. Request(MissingRow)
  BY Delivery DEF Inv, MissingRow
<1>7. CASE Refused(MissingRow)
  BY <1>6, <1>7 DEF Request
<1>8. CASE ~Refused(MissingRow)
  <2>1. \/ ctl' = Append(ctl, PacketsRequest(MissingRow))
        \/ losses' = losses + 1 /\ ctl' = ctl
    BY <1>6, <1>8 DEF Request
  <2>2. Len(MissingRow) < ControlMax
    BY <1>3, <1>5, <1>8, ControlMaxAssumption DEF Refused
  <2>3. /\ PacketsRequest(MissingRow) \in Seq(Byte)
        /\ Heard(PacketsRequest(MissingRow))
        /\ SeqnumsOf(PacketsRequest(MissingRow))
             = [n \in 1 .. Len(MissingRow) |-> MissingRow[n]]
    BY <1>2, <1>5, <2>2, RequestRead
  <2>4. [n \in 1 .. Len(MissingRow) |-> MissingRow[n]] = MissingRow
    BY <1>5 DEF MissingRow
  <2> QED BY <2>1, <2>3, <2>4
<1> QED BY <1>7, <1>8

(* Every step keeps AllHeard.                                              *)
LEMMA HeardStep ==
  ASSUME Inv, AllHeard, [StreamNext]_streamVars
  PROVE  AllHeard'
<1>1. ctl \in Seq(Seq(Byte))
  BY DEF Inv, Asking
<1>2. CASE ctl' = ctl
  BY <1>2 DEF AllHeard
<1>3. CASE OnCommand
  <2>1. ctl # <<>> /\ ctl' = Tail(ctl)
    BY <1>3 DEF OnCommand
  <2>2. \A k \in DOMAIN ctl' : k + 1 \in DOMAIN ctl /\ ctl'[k] = ctl[k + 1]
    BY <1>1, <2>1
  <2> QED BY <2>2 DEF AllHeard
<1>4. ASSUME NEW k \in DOMAIN net, Deliver(k) PROVE AllHeard'
  <2>1. CASE \E d \in Seq(Byte) : ctl' = Append(ctl, d) /\ Heard(d)
    <3>1. PICK d \in Seq(Byte) : ctl' = Append(ctl, d) /\ Heard(d)
      BY <2>1
    <3>2. \A j \in DOMAIN ctl' : \/ j \in DOMAIN ctl /\ ctl'[j] = ctl[j]
                                 \/ ctl'[j] = d
      BY <1>1, <3>1
    <3> QED BY <3>1, <3>2 DEF AllHeard
  <2> QED BY <1>2, <1>4, <2>1, RequestSent
<1>5. CASE Encode \/ Partition \/ Emit \/ TimePasses \/ UNCHANGED streamVars
  BY <1>2, <1>5 DEF Encode, Partition, Emit, TimePasses, streamVars, netVars
<1>6. ASSUME NEW k \in DOMAIN net, Duplicate(k) PROVE AllHeard'
  BY <1>2, <1>6 DEF Duplicate
<1>7. CASE Poll
  BY <1>2, <1>7, Polled DEF Inv, netVars
<1> QED BY <1>3, <1>4, <1>5, <1>6, <1>7, Zenon DEF StreamNext

(* Where a number that was reported is, until it arrives.                  *)
Asked(s) == \E k \in DOMAIN ctl : s \in ToSet(SeqnumsOf(ctl[k]))
Coming(s) == \E k \in DOMAIN net : sent[net[k]].seqnum = s
Gone(s) == \A i \in Hist!Slots : history[i].seqnum # s

Sight ==
  OneLoss /\ serves =>
    \A s \in reported \ received : Asked(s) \/ Coming(s) \/ Gone(s)

(* A report of the receiver names a single number, and asks for it.        *)
LEMMA SightOfMissing ==
  ASSUME InOrder, ControlMax > 1, Inv, Rising, Strays, Queue, Known,
         OneLoss, OneLoss', NEW k \in DOMAIN net, Deliver(k), NEW s \in missing'
  PROVE  Asked(s)'
<1>1. \A r \in missing' : \E j \in DOMAIN sent : sent[j].seqnum = r /\ Astray(j)
  BY SkippedIsAstray DEF OneLoss
<1>2. \A r \in missing' : r = s
  BY <1>1 DEF Strays
<1>3. missing' = {s}
  BY <1>2
<1>4. Cardinality(missing') = 1
  BY <1>3, FS_Singleton
<1>5. losses \in Nat /\ losses # 0
  BY <1>1, SettingsAssumption DEF Strays, Inv, Sending, Underway
<1>6. ~(losses' = losses + 1)
  BY <1>5 DEF OneLoss
<1>7. PICK p : Arrives(net[k], p)
  BY Delivery DEF Inv
<1>8. \A n \in 1 .. Cardinality(missing') : prev_seqnum + n \in missing'
  BY <1>7, SkippedRow DEF Inv, Receiving, Arrives, Packet
<1>9. MissingRow = [n \in 1 .. 1 |-> prev_seqnum + n] /\ prev_seqnum + 1 = s
  BY <1>3, <1>4, <1>8 DEF MissingRow
<1>10. /\ Len(MissingRow) = 1 /\ MissingRow # <<>>
       /\ DOMAIN MissingRow = {1} /\ MissingRow[1] = s
  BY <1>9
<1>11. ~Refused(MissingRow)
  BY <1>10, ControlMaxAssumption DEF Refused
<1>12. PICK d \in Seq(Byte) :
         ctl' = Append(ctl, d) /\ SeqnumsOf(d) = MissingRow
  BY <1>6, <1>11, RequestSent
<1>13. s \in ToSet(SeqnumsOf(d))
  BY <1>10, <1>12 DEF ToSet
<1>14. ctl \in Seq(Seq(Byte))
  BY DEF Inv, Asking
<1>15. PICK n \in DOMAIN ctl' : ctl'[n] = d
  <2>1. d \in Seq(Byte) /\ ctl' = Append(ctl, d)
    BY <1>12
  <2>2. Len(ctl) + 1 \in DOMAIN ctl' /\ ctl'[Len(ctl) + 1] = d
    BY <1>14, <2>1
  <2> QED BY <2>2
<1> QED BY <1>13, <1>15 DEF Asked

(* A number that was asked for is sent again, or is not there any more.    *)
LEMMA SightOfAnswer ==
  ASSUME Inv, Requests, Sight, OneLoss, OneLoss', serves, OnCommand,
         NEW s \in reported \ received
  PROVE  Asked(s)' \/ Coming(s)' \/ Gone(s)'
<1>1. UNCHANGED <<sent, history>>
  BY DEF OnCommand, senderVars
<1>2. net \in Seq(Nat) /\ losses \in Nat /\ setting \in Settings
  BY SettingsAssumption DEF Inv, Sending, Underway
<1>3. PICK asked \in {IF Heard(Head(ctl)) THEN SeqnumsOf(Head(ctl)) ELSE <<>>} :
        \E found \in Selections(Len(asked)) :
          /\ ToSet(found) = {k \in DOMAIN asked : Kept(asked[k]) # {}}
          /\ IF serves
             THEN Transmit([k \in DOMAIN found |->
                              CHOOSE d \in Kept(asked[found[k]]) : TRUE])
             ELSE UNCHANGED <<net, losses>>
  BY DEF OnCommand
<1>4. PICK found \in Selections(Len(asked)) :
        /\ ToSet(found) = {k \in DOMAIN asked : Kept(asked[k]) # {}}
        /\ Transmit([k \in DOMAIN found |->
                       CHOOSE d \in Kept(asked[found[k]]) : TRUE])
  BY <1>3, Zenon
<1>5. ctl # <<>> /\ ctl' = Tail(ctl) /\ ctl \in Seq(Seq(Byte))
  BY DEF OnCommand, Inv, Asking
<1>6. asked = SeqnumsOf(ctl[1])
  BY <1>5 DEF Requests, AllHeard
<1> DEFINE row == [k \in DOMAIN found |->
                     CHOOSE d \in Kept(asked[found[k]]) : TRUE]
<1>7. /\ DOMAIN row = DOMAIN found /\ row \in Seq(Nat)
      /\ \A k \in DOMAIN found : row[k] \in Kept(asked[found[k]])
  <2>1. \A k \in DOMAIN found : found[k] \in ToSet(found)
    BY DEF ToSet
  <2>2. \A k \in DOMAIN found : Kept(asked[found[k]]) # {}
    BY <1>4, <2>1
  <2>3. \A k \in DOMAIN found : row[k] \in Kept(asked[found[k]])
    BY <2>2
  <2>4. \A k \in DOMAIN found : row[k] \in Nat
    <3>1. \A i \in DOMAIN sent : i \in Nat
      BY DEF Inv, Sending
    <3> HIDE DEF row
    <3> QED BY <2>3, <3>1, KeptIsSent
  <2>5. PICK n \in Nat : DOMAIN found = 1 .. n
    BY Selected DEF Selections
  <2>6. row = [k \in DOMAIN found |-> row[k]]
    OBVIOUS
  <2> HIDE DEF row
  <2>7. row \in Seq(Nat)
    <3>1. row = [k \in 1 .. n |-> row[k]] /\ \A k \in 1 .. n : row[k] \in Nat
      BY <2>4, <2>5, <2>6
    <3> QED BY <3>1
  <2>8. DOMAIN row = DOMAIN found
    BY <2>6
  <2> QED BY <2>3, <2>7, <2>8
<1>8. Transmit(row)
  BY <1>4
<1> HIDE DEF row
<1>9. \A a \in DOMAIN net : a \in DOMAIN net' /\ net'[a] = net[a]
  BY <1>2, <1>7, <1>8, Transmitted
<1>10. CASE Coming(s)
  BY <1>1, <1>9, <1>10 DEF Coming
<1>11. CASE Gone(s)
  BY <1>1, <1>11 DEF Gone
<1>12. CASE Asked(s) /\ ~Coming(s)
  <2>1. PICK k \in DOMAIN ctl : s \in ToSet(SeqnumsOf(ctl[k]))
    BY <1>12 DEF Asked
  <2>2. CASE k # 1
    <3>1. k - 1 \in DOMAIN ctl' /\ ctl'[k - 1] = ctl[k]
      BY <1>5, <2>2
    <3> QED BY <2>1, <3>1 DEF Asked
  <2>3. CASE k = 1
    <3>1. PICK n \in DOMAIN asked : asked[n] = s
      BY <1>6, <2>1, <2>3 DEF ToSet
    <3>2. PICK i \in DOMAIN sent : sent[i].seqnum = s
      BY DEF Requests, Known, OneLoss
    <3>3. CASE Kept(s) = {}
      BY <1>1, <3>2, <3>3, KeptOrGone DEF Requests, Gone
    <3>4. CASE Kept(s) # {}
      <4>1. PICK b \in DOMAIN found : found[b] = n
        BY <1>4, <3>1, <3>4 DEF ToSet
      <4>2. row[b] \in Kept(s)
        BY <1>7, <3>1, <4>1
      <4>3. Astray(i)
        BY <1>12, <3>2 DEF Astray, OnWay, Coming
      <4>4. losses # 0
        BY <4>3 DEF Requests, Strays
      <4>5. losses' <= losses
        <5>1. losses <= 1 /\ losses' <= 1 /\ losses' \in Nat
          BY <1>2, <1>7, <1>8, Transmitted DEF OneLoss
        <5> QED BY <1>2, <4>4, <5>1
      <4>6. PICK a \in DOMAIN net' : net'[a] = row[b]
        BY <1>7, <1>8, <4>5, NothingLost
      <4>7. sent[row[b]].seqnum = s
        BY <4>2, KeptIsSent
      <4> QED BY <1>1, <4>6, <4>7 DEF Coming
    <3> QED BY <3>3, <3>4
  <2> QED BY <2>2, <2>3
<1> QED BY <1>10, <1>11, <1>12 DEF Sight

(* Every step keeps Sight.                                                 *)
LEMMA SightStep ==
  ASSUME InOrder, ControlMax > 1, NSeqnums > 1, Inv, Numbered, Rising, Passing,
         Requests, Sight, [StreamNext]_streamVars
  PROVE  Sight'
<1>1. (OneLoss' => OneLoss) /\ serves' = serves /\ Grown
  BY OneLossBefore, Monotone
<1> SUFFICES ASSUME OneLoss', OneLoss, serves', serves,
                    NEW s \in reported' \ received'
             PROVE  Asked(s)' \/ Coming(s)' \/ Gone(s)'
  BY <1>1 DEF Sight
<1>2. s \in reported \ received => Asked(s) \/ Coming(s) \/ Gone(s)
  BY DEF Sight
<1>3. /\ net \in Seq(Nat) /\ losses \in Nat /\ setting \in Settings
      /\ \A a \in DOMAIN net : net[a] \in DOMAIN sent
      /\ ctl \in Seq(Seq(Byte))
  BY SettingsAssumption DEF Inv, Sending, Underway, Asking
<1>4. CASE UNCHANGED <<reported, received, ctl, net, sent, history>>
  BY <1>2, <1>4 DEF Asked, Coming, Gone
<1>5. CASE Emit
  <2>1. PICK n \in Nat : n = Len(sent')
    BY <1>5, Emission DEF Inv
  <2>2. /\ DOMAIN sent = 1 .. n - 1 /\ n \in DOMAIN sent'
        /\ sent'[n].seqnum = vpx.seqnum
    BY <1>5, <2>1, Emission DEF Inv, Sending
  <2>3. /\ Transmit(<<n>>) /\ ctl' = ctl /\ UNCHANGED jvars
        /\ history' = [history EXCEPT ![hdx] = [seqnum |-> vpx.seqnum,
                                                data |-> n]]
    BY <1>5, <2>1 DEF Emit
  <2>4. s \in reported \ received
    BY <2>3 DEF jvars, vars, seqVars
  <2>5. \A a \in DOMAIN net : a \in DOMAIN net' /\ net'[a] = net[a]
    <3>1. <<n>> \in Seq(Nat)
      OBVIOUS
    <3> QED BY <1>3, <2>3, <3>1, Transmitted
  <2>6. CASE Asked(s)
    BY <2>3, <2>6 DEF Asked
  <2>7. CASE Coming(s)
    BY <1>1, <1>3, <2>5, <2>7 DEF Coming, Grown
  <2>8. CASE Gone(s)
    <3>1. PICK i \in DOMAIN sent : sent[i].seqnum = s
      BY <2>4 DEF Requests, Known, OneLoss
    <3>2. i \in DOMAIN sent' /\ sent'[i].seqnum = s /\ i # n
      BY <1>1, <2>1, <2>2, <3>1 DEF Grown
    <3>3. Rising' /\ Sending'
      BY <1>5, RisingStep, Emission DEF Inv
    <3>4. sent'[n].seqnum - sent'[i].seqnum = n - i
      BY <2>2, <3>2, <3>3 DEF Rising, OneLoss
    <3>5. sent'[n].seqnum # s
      <4>1. sent'[i].seqnum \in Nat /\ i \in Nat
        BY <3>2, <3>3, NSeqnumsAssumption DEF Sending, Seqnums
      <4> QED BY <2>1, <3>2, <3>4, <4>1
    <3>6. \A h \in Hist!Slots :
            history'[h].seqnum = IF h = hdx THEN vpx.seqnum ELSE history[h].seqnum
      BY <2>3 DEF Inv, Remembering
    <3> QED BY <2>2, <2>8, <3>5, <3>6 DEF Gone
  <2> QED BY <1>2, <2>4, <2>6, <2>7, <2>8
<1>6. CASE OnCommand
  <2>1. s \in reported \ received
    BY <1>6 DEF OnCommand, jvars, vars, seqVars
  <2> QED BY <1>6, <2>1, SightOfAnswer
<1>7. ASSUME NEW k \in DOMAIN net, Deliver(k)
      PROVE  Asked(s)' \/ Coming(s)' \/ Gone(s)'
  <2>1. PICK p : Arrives(net[k], p)
    BY <1>7, Delivery DEF Inv
  <2>2. /\ received' = received \cup {p.seqnum}
        /\ reported' = reported \cup missing'
        /\ p.seqnum = sent[net[k]].seqnum
    BY <2>1 DEF Arrives, CheckSeqnum, AsSent
  <2>3. /\ net' = RemoveAt(net, k) /\ k = 1
        /\ UNCHANGED <<sent, history>>
    BY <1>3, <1>7, Delivery DEF Inv, InOrder, senderVars
  <2>4. CASE s \in missing'
    BY <1>7, <2>4, SightOfMissing DEF Requests
  <2>5. CASE s \notin missing'
    <3>1. s \in reported \ received /\ s # sent[net[k]].seqnum
      BY <2>2, <2>5
    <3>2. CASE Asked(s)
      <4>1. \A j \in DOMAIN ctl : j \in DOMAIN ctl' /\ ctl'[j] = ctl[j]
        <5>1. CASE ctl' = ctl
          BY <5>1
        <5>2. CASE \E d \in Seq(Byte) : ctl' = Append(ctl, d)
          BY <1>3, <5>2
        <5> QED BY <1>7, <5>1, <5>2, RequestSent
      <4> QED BY <3>2, <4>1 DEF Asked
    <3>3. CASE Coming(s)
      <4>1. PICK a \in DOMAIN net : sent[net[a]].seqnum = s
        BY <3>3 DEF Coming
      <4>2. PICK m \in Nat : m = Len(net) /\ DOMAIN net = 1 .. m
        BY <1>3
      <4>3. /\ DOMAIN net' = 1 .. m - 1
            /\ \A b \in 1 .. m - 1 : net'[b] = net[b + 1]
        <5>1. k \in 1 .. Len(net)
          BY <4>2
        <5>2. /\ net' \in Seq(Nat) /\ Len(net') = Len(net) - 1
              /\ \A i \in 1 .. Len(net) - 1 :
                   net'[i] = IF i < k THEN net[i] ELSE net[i + 1]
          BY <1>3, <2>3, <5>1, RemovedFacts, Zenon
        <5> QED BY <2>3, <4>2, <5>2
      <4>4. a # 1
        BY <2>3, <3>1, <4>1
      <4>5. a - 1 \in 1 .. m - 1 /\ (a - 1) + 1 = a
        BY <4>1, <4>2, <4>4
      <4>6. a - 1 \in DOMAIN net' /\ net'[a - 1] = net[a]
        BY <4>3, <4>5
      <4> QED BY <2>3, <4>1, <4>6 DEF Coming
    <3>4. CASE Gone(s)
      BY <2>3, <3>4 DEF Gone
    <3> QED BY <1>2, <3>1, <3>2, <3>3, <3>4
  <2> QED BY <2>4, <2>5
<1>8. ASSUME NEW k \in DOMAIN net, Duplicate(k) PROVE FALSE
  <2>1. Cardinality(copied) < setting.copies /\ setting.copies = 0
    BY <1>3, <1>8 DEF Duplicate, InOrder
  <2>2. Cardinality(copied) = 0
    BY FS_EmptySet DEF Passing
  <2> QED BY <2>1, <2>2
<1>9. CASE Encode \/ Partition \/ TimePasses \/ UNCHANGED streamVars
  <2>1. UNCHANGED <<vars, ctl, net, sent, history>>
    BY <1>9 DEF Encode, Partition, TimePasses, Tick, streamVars, jvars,
                senderVars, netVars
  <2> QED BY <1>4, <2>1 DEF vars, seqVars
<1>10. CASE Poll
  BY <1>4, <1>10, Polled DEF Inv, seqVars, senderVars, netVars
<1> QED BY <1>5, <1>6, <1>7, <1>8, <1>9, <1>10, Zenon DEF StreamNext

(* Between its report and its arrival a number is asked for, on its way or *)
(* no longer in the history, as long as packets come in order, a single    *)
(* datagram has been lost, of either direction, and the numbers have not   *)
(* started again.  A request that had room for one number only (ControlMax *)
(* is 15 in the code) would be refused.                                    *)
THEOREM NumbersStayInSight ==
  ASSUME InOrder, ControlMax > 1, NSeqnums > 1
  PROVE  StreamSpec => [](~Fell(1, Len(sent)) => ReportedInSight)
<1>1. StreamInit => Passing /\ Requests /\ Sight
  <2> SUFFICES ASSUME StreamInit PROVE Passing /\ Requests /\ Sight
    OBVIOUS
  <2>1. /\ copied = {} /\ net = <<>> /\ sent = <<>> /\ added = {}
        /\ reported = {} /\ ctl = <<>> /\ hdx = 0
    BY DEF StreamInit, JitterInit, Init
  <2>2. Passing /\ Strays /\ Queue /\ AllHeard /\ Known /\ Sight
    BY <2>1 DEF Passing, Strays, Queue, AllHeard, Known, Sight
  <2>3. Fresh
    BY <2>1 DEF Fresh
  <2> QED BY <2>2, <2>3 DEF Requests
<1>2. Inv /\ Numbered /\ Rising /\ Passing /\ Requests /\ Sight
        /\ [StreamNext]_streamVars
        => Numbered' /\ Rising' /\ Passing' /\ Requests' /\ Sight'
  BY NumberedStep, RisingStep, PassingStep, StraysStep, QueueStep, FreshStep,
     KnownStep, HeardStep, SightStep, Zenon DEF Requests
<1>3. Sight => (~Fell(1, Len(sent)) => ReportedInSight)
  BY DEF Sight, OneLoss, ReportedInSight, Asked, Coming, Gone
<1> QED BY <1>1, <1>2, <1>3, NumbersInit, InvInvariant, PTL DEF StreamSpec
=============================================================================
