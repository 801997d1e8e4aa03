---------------------------- MODULE WebcamProofs ----------------------------
(***************************************************************************)
(* Whatever partitions the encoder makes, wherever the counters start and  *)
(* however often they wrap around: every packet of the webcam streamer     *)
(* fits into its headers and the depacketizer understands it, payloads     *)
(* cover their partition, a recording holds whole frames, and no marker    *)
(* comes early.  If no last packet is exactly full the marker is always    *)
(* there, too; then a picture id stands for one frame, only losses glue    *)
(* frames together, and the picture comes back with a key frame.           *)
(***************************************************************************)
EXTENDS Webcam, RtpProofs, FiniteSetTheorems, SequenceTheorems,
        WellFoundedInduction

USE DEF cameraVars

(* A remainder is below its divisor.                                       *)
LEMMA Remainder ==
  ASSUME NEW a \in Int, NEW n \in Nat \ {0}
  PROVE  a % n \in 0 .. n - 1
BY SMT

(* The inductive invariant: the state of the packetizer and what the       *)
(* encoder still has for it are of the right kind, and all packets so far  *)
(* fit into their headers.                                                 *)
Wire ==
  /\ vpx \in Vpx /\ fragment \in BOOLEAN
  /\ todo \in Seq(Nat \ {0})
  /\ nframes \in Nat /\ dropped \in 0 .. MaxDrops
  /\ sent \in Seq(WirePacket)

(* A packet that the packetizer describes fits into its headers.           *)
LEMMA CurrentPacketFits ==
  ASSUME vpx \in Vpx
  PROVE  CurrentPacket \in WirePacket
<1>1. /\ vpx.frame_len \in Nat /\ vpx.frame_dx \in Nat
      /\ vpx.timestamp \in 0 .. NTimestamps - 1
      /\ vpx.nonref \in {0, 1} /\ vpx.pstart \in {0, 1}
      /\ vpx.seqnum \in 0 .. NSeqnums - 1
      /\ vpx.picture_id \in Int
  BY PictureIdMaxAssumption, SMT DEF Vpx
<1>2. vpx.seqnum \in U16
  BY <1>1, NSeqnumsAssumption, WidthsAssumption, SMT DEF U16
<1>3. vpx.timestamp \in U32
  BY <1>1, NTimestampsAssumption, WidthsAssumption, SMT DEF U32
<1>4. vpx.picture_id % (PictureIdMax + 1) \in U15
  <2>1. PictureIdMax + 1 \in Nat \ {0}
    BY PictureIdMaxAssumption, SMT
  <2>2. vpx.picture_id % (PictureIdMax + 1) \in 0 .. (PictureIdMax + 1) - 1
    BY <1>1, <2>1, Remainder
  <2> QED BY <2>2, PictureIdMaxAssumption, WidthsAssumption, SMT DEF U15
<1>5. Marker \in {0, 1}
  BY DEF Marker
<1>6. FrameSize \in Nat
  BY <1>1, PayloadSizeAssumption DEF FrameSize
<1> QED BY <1>1, <1>2, <1>3, <1>4, <1>5, <1>6, SMT DEF CurrentPacket, WirePacket

(* The sets that the counters of the packetizer are in.                    *)
Timestamps == 0 .. NTimestamps - 1
Seqnums == 0 .. NSeqnums - 1
PictureIds == -(PictureIdMax + 1) .. PictureIdMax

(* The fields of the packetizer struct and their sets.                     *)
LEMMA VpxFields ==
  Vpx = [frame_len : Nat, frame_dx : Nat, timestamp : Timestamps,
         nonref : {0, 1}, pstart : {0, 1}, marker : {0, 1},
         seqnum : Seqnums, picture_id : PictureIds]
BY Zenon DEF Vpx, Timestamps, Seqnums, PictureIds

(* A field of the struct may take any value of its set.                    *)
LEMMA VpxUpdates ==
  ASSUME NEW r \in Vpx
  PROVE  /\ \A v \in Nat : /\ [r EXCEPT !.frame_len = v] \in Vpx
                           /\ [r EXCEPT !.frame_dx = v] \in Vpx
         /\ \A v \in Timestamps : [r EXCEPT !.timestamp = v] \in Vpx
         /\ \A v \in {0, 1} : /\ [r EXCEPT !.nonref = v] \in Vpx
                              /\ [r EXCEPT !.pstart = v] \in Vpx
                              /\ [r EXCEPT !.marker = v] \in Vpx
         /\ \A v \in Seqnums : [r EXCEPT !.seqnum = v] \in Vpx
         /\ \A v \in PictureIds : [r EXCEPT !.picture_id = v] \in Vpx
BY VpxFields, SMT

(* The state of the packetizer stays of its kind.                          *)
LEMMA VpxKept ==
  ASSUME vpx \in Vpx, EmitPacket
  PROVE  vpx' \in Vpx
<1> DEFINE n == FrameSize
           m == Marker
           seqnum == (vpx.seqnum + 1) % NSeqnums
           id == NextId + m
<1>1. /\ vpx.frame_len \in Nat /\ vpx.frame_dx \in Nat
      /\ vpx.seqnum \in Seqnums /\ vpx.picture_id \in PictureIds
  BY VpxFields, SMT
<1>2. m \in {0, 1}
  BY DEF Marker
<1>3. /\ n \in Nat /\ vpx.frame_len - n \in Nat
      /\ vpx.frame_dx + n \in Nat
  BY <1>1, PayloadSizeAssumption, SMT DEF FrameSize
<1>4. seqnum \in Seqnums
  <2>1. vpx.seqnum + 1 \in Int
    BY <1>1, NSeqnumsAssumption, SMT DEF Seqnums
  <2> QED BY <2>1, NSeqnumsAssumption, Remainder DEF Seqnums
<1>5. id \in PictureIds
  BY <1>1, <1>2, PictureIdMaxAssumption, SMT DEF NextId, PictureIds
<1> DEFINE len == vpx.frame_len - n
           dx == vpx.frame_dx + n
<1>6. vpx' = [vpx EXCEPT !.marker = m, !.frame_dx = dx, !.frame_len = len,
                         !.pstart = 0, !.seqnum = seqnum, !.picture_id = id]
  BY Zenon DEF EmitPacket
<1> HIDE DEF n, m, seqnum, id, len, dx
<1> DEFINE r1 == [vpx EXCEPT !.marker = m]
           r2 == [r1 EXCEPT !.frame_dx = dx]
           r3 == [r2 EXCEPT !.frame_len = len]
           r4 == [r3 EXCEPT !.pstart = 0]
           r5 == [r4 EXCEPT !.seqnum = seqnum]
           r6 == [r5 EXCEPT !.picture_id = id]
<1>7. vpx' = r6
  BY <1>6, SMT
<1>8. r1 \in Vpx
  BY <1>2, VpxUpdates
<1>9. r2 \in Vpx
  BY <1>3, <1>8, VpxUpdates DEF dx
<1>10. r3 \in Vpx
  BY <1>3, <1>9, VpxUpdates DEF len
<1>11. r4 \in Vpx
  BY <1>10, VpxUpdates
<1>12. r5 \in Vpx
  BY <1>4, <1>11, VpxUpdates
<1>13. r6 \in Vpx
  BY <1>5, <1>12, VpxUpdates
<1> QED BY <1>7, <1>13, Zenon

(* The first value of every variable is of its kind.                       *)
LEMMA WireInit == WebcamInit => Wire
<1> SUFFICES ASSUME WebcamInit PROVE Wire
  OBVIOUS
<1>1. PICK s \in StartSeqnums, id \in StartIds : Init(s, id)
  BY DEF WebcamInit
<1>2. /\ s \in 0 .. NSeqnums - 1
      /\ id \in -(PictureIdMax + 1) .. PictureIdMax
  BY WebcamAssumption
<1>3. s \in Seqnums /\ id \in PictureIds /\ 0 \in Timestamps
  BY <1>2, NTimestampsAssumption, SMT DEF Seqnums, PictureIds, Timestamps
<1>4. vpx \in Vpx /\ fragment \in BOOLEAN
  <2>1. vpx = [frame_len |-> 0, frame_dx |-> 0, timestamp |-> 0, nonref |-> 0,
               pstart |-> 0, marker |-> 0, seqnum |-> s, picture_id |-> id]
        /\ fragment = FALSE
    BY <1>1, Zenon DEF Init
  <2>2. vpx \in Vpx
    BY <1>3, <2>1, VpxFields, SMT
  <2> QED BY <2>1, <2>2
<1>5. 0 \in 0 .. MaxDrops
  BY WebcamAssumption
<1> QED BY <1>4, <1>5, SMT DEF WebcamInit, Wire

(* Every step keeps it.                                                    *)
LEMMA WireStep == Wire /\ [WebcamNext]_webcamVars => Wire'
<1> SUFFICES ASSUME Wire, [WebcamNext]_webcamVars PROVE Wire'
  OBVIOUS
<1> USE DEF Wire
<1>1. CASE Capture
  <2>1. PICK layout \in Layouts : todo' = layout
    BY <1>1 DEF Capture
  <2>2. layout \in Seq(Nat \ {0})
    BY WebcamAssumption
  <2> QED BY <1>1, <2>1, <2>2, SMT DEF Capture, vars
<1>2. CASE Partition
  <2>1. Head(todo) \in Nat /\ Tail(todo) \in Seq(Nat \ {0})
    BY <1>2, SMT DEF Partition
  <2> DEFINE key == made[nframes].key
             ticks == ((nframes + dropped) * TicksPerPts) % NTimestamps
  <2>2. ticks \in Timestamps
    <3>1. (nframes + dropped) * TicksPerPts \in Int
      <4>1. nframes + dropped \in Nat
        BY WebcamAssumption
      <4> HIDE DEF Wire
      <4> QED BY <4>1, TicksPerPtsAssumption, SMT
    <3> QED BY <3>1, NTimestampsAssumption, Remainder DEF Timestamps
  <2>3. /\ vpx' = [vpx EXCEPT !.frame_len = Head(todo), !.frame_dx = 0,
                              !.timestamp = ticks,
                              !.nonref = IF key THEN 0 ELSE 1,
                              !.pstart = 1, !.marker = 0]
        /\ fragment' = IsFragment /\ todo' = Tail(todo)
        /\ UNCHANGED <<nframes, dropped, sent>>
    BY <1>2 DEF Partition, Wrap
  <2> HIDE DEF ticks
  <2>4. vpx' \in Vpx
    <3> DEFINE nonref == IF key THEN 0 ELSE 1
    <3>1. nonref \in {0, 1}
      OBVIOUS
    <3> DEFINE sz == Head(todo)
    <3>2. vpx' = [vpx EXCEPT !.frame_len = sz, !.frame_dx = 0,
                             !.timestamp = ticks, !.nonref = nonref,
                             !.pstart = 1, !.marker = 0]
      BY <2>3
    <3>3. sz \in Nat
      BY <2>1
    <3> HIDE DEF nonref, sz
    <3> DEFINE r1 == [vpx EXCEPT !.frame_len = sz]
               r2 == [r1 EXCEPT !.frame_dx = 0]
               r3 == [r2 EXCEPT !.timestamp = ticks]
               r4 == [r3 EXCEPT !.nonref = nonref]
               r5 == [r4 EXCEPT !.pstart = 1]
               r6 == [r5 EXCEPT !.marker = 0]
    <3>4. vpx' = r6
      BY <3>2, SMT
    <3>5. r1 \in Vpx
      BY <3>3, VpxUpdates
    <3>6. r2 \in Vpx
      BY <3>5, VpxUpdates
    <3>7. r3 \in Vpx
      BY <2>2, <3>6, VpxUpdates
    <3>8. r4 \in Vpx
      BY <3>1, <3>7, VpxUpdates
    <3>9. r5 \in Vpx
      BY <3>8, VpxUpdates
    <3>10. r6 \in Vpx
      BY <3>9, VpxUpdates
    <3> QED BY <3>4, <3>10, Zenon
  <2>5. fragment' \in BOOLEAN
    BY <2>3 DEF IsFragment
  <2> QED BY <2>1, <2>3, <2>4, <2>5
<1>3. CASE Emit
  <2>1. vpx' \in Vpx /\ fragment' = fragment
    BY <1>3, VpxKept DEF Emit, EmitPacket
  <2>2. sent' \in Seq(WirePacket)
    BY <1>3, CurrentPacketFits DEF Emit
  <2> QED BY <1>3, <2>1, <2>2 DEF Emit
<1>4. CASE UNCHANGED <<vars, todo, nframes, dropped, sent>>
  BY <1>4 DEF vars
<1>9. CASE Drop
  <2>1. dropped' = dropped + 1 /\ dropped < MaxDrops
        /\ UNCHANGED <<vars, todo, nframes, sent>>
    BY <1>9 DEF Drop
  <2>2. dropped' \in 0 .. MaxDrops
    BY <2>1, WebcamAssumption
  <2> QED BY <2>1, <2>2 DEF vars
<1>5. CASE Collect \/ Write \/ Count
  BY <1>4, <1>5 DEF Collect, Write, Count
<1>6. CASE OnControlCommand \/ OnAddress \/ OnSignal \/ Crash
  BY <1>4, <1>6 DEF OnControlCommand, OnAddress, OnSignal, Crash, streamerVars
<1>7. CASE RequestKeyframe \/ Deliver
  BY <1>4, <1>7 DEF RequestKeyframe, Deliver, streamerVars
<1>8. CASE UNCHANGED webcamVars
  BY <1>4, <1>8 DEF webcamVars, streamerVars
<1> QED BY <1>1, <1>2, <1>3, <1>5, <1>6, <1>7, <1>8, <1>9 DEF WebcamNext, Streamer

(* HeadersUnderstood, for all widths, sizes and start values: the          *)
(* depacketizer, which never compares the length of what it reads with     *)
(* that of the datagram, is safe with every packet of the streamer.        *)
THEOREM HeadersAlwaysUnderstood == WebcamSpec => []HeadersUnderstood
<1>1. Wire => HeadersUnderstood
  <2> SUFFICES ASSUME Wire, sent # <<>>
               PROVE  Agreement(sent[Len(sent)], 7)
    BY DEF HeadersUnderstood
  <2>1. sent[Len(sent)] \in WirePacket
    BY SMT DEF Wire
  <2> QED BY <2>1, RoundTrip, SMT
<1> QED BY <1>1, WireInit, WireStep, PTL DEF WebcamSpec

-----------------------------------------------------------------------------
(* The sizes that partitions have.                                         *)
Sizes ==
  {n \in Nat \ {0} : \E l \in Layouts : \E k \in DOMAIN l : l[k] = n}

(* The strengthening for the two properties of the packets of a frame: the *)
(* packetizer goes on where the last packet ended, and a marker was the    *)
(* last thing that happened in its frame.                                  *)
Going ==
  /\ \A k \in DOMAIN todo : todo[k] \in Sizes
  /\ vpx.frame_len > 0 \/ vpx.frame_dx > 0 =>
       vpx.frame_dx + vpx.frame_len \in Sizes
  /\ ~Idle => (vpx.pstart = 1 <=> vpx.frame_dx = 0)
  /\ ~Idle /\ ~fragment => todo = <<>>

LastSent == sent[Len(sent)]

Behind ==
  sent # <<>> =>
    /\ vpx.seqnum = (LastSent.seqnum + 1) % NSeqnums
    /\ IF vpx.frame_dx = 0 THEN LastSent.from + LastSent.nbytes \in Sizes
                           ELSE LastSent.from + LastSent.nbytes = vpx.frame_dx
    /\ LastSent.marker = 1 /\ frame_of[Len(sent)] = nframes => FrameDone

Frames ==
  /\ frame_of \in Seq(Nat) /\ Len(frame_of) = Len(sent)
  /\ \A i \in DOMAIN frame_of : 0 < frame_of[i] /\ frame_of[i] <= nframes
  /\ nframes = 0 => FrameDone

Tiling == Wire /\ Going /\ Behind /\ Frames /\ PayloadsTile /\ MarkerEndsFrame

(* The first state.                                                        *)
LEMMA TilingInit == WebcamInit => Tiling
<1> SUFFICES ASSUME WebcamInit PROVE Tiling
  OBVIOUS
<1>1. sent = <<>> /\ todo = <<>> /\ frame_of = <<>> /\ nframes = 0
  BY DEF WebcamInit
<1>2. vpx.frame_len = 0 /\ vpx.frame_dx = 0
  BY SMT DEF WebcamInit, Init
<1>3. Going /\ Behind /\ Frames
  BY <1>1, <1>2, SMT DEF Going, Behind, Frames, Idle, FrameDone
<1>4. PayloadsTile /\ MarkerEndsFrame
  BY <1>1, SMT DEF PayloadsTile, MarkerEndsFrame
<1> QED BY <1>3, <1>4, WireInit DEF Tiling

(* A new frame: the packets so far belong to earlier ones.                 *)
LEMMA TilingCapture == Tiling /\ Capture => Tiling'
<1> SUFFICES ASSUME Tiling, Capture PROVE Tiling'
  OBVIOUS
<1>1. Wire'
  BY WireStep DEF Tiling, WebcamNext, Streamer
<1>2. PICK layout \in Layouts : todo' = layout
  BY DEF Capture
<1>3. /\ UNCHANGED <<vpx, fragment, sent, frame_of>> /\ nframes' = nframes + 1
      /\ Idle
  BY DEF Capture, vars, FrameDone
<1>4. \A k \in DOMAIN todo' : todo'[k] \in Sizes
  <2>1. layout \in Seq(Nat \ {0})
    BY WebcamAssumption
  <2>2. \A k \in DOMAIN layout : layout[k] \in Nat \ {0}
    BY <2>1, SMT
  <2> QED BY <1>2, <2>2, Zenon DEF Sizes
<1>5. Going'
  BY <1>3, <1>4 DEF Tiling, Going, Idle
<1>6. Frames'
  BY <1>3, SMT DEF Tiling, Frames, Wire
<1>7. sent # <<>> => frame_of[Len(sent)] # nframes'
  BY <1>3, SMT DEF Tiling, Frames, Wire
<1>8. Behind'
  BY <1>3, <1>7 DEF Tiling, Behind, LastSent
<1>9. PayloadsTile' /\ MarkerEndsFrame'
  BY <1>3 DEF Tiling, PayloadsTile, MarkerEndsFrame
<1> QED BY <1>1, <1>5, <1>6, <1>8, <1>9 DEF Tiling

(* A new partition: the one before is complete.                            *)
LEMMA TilingPartition == Tiling /\ Partition => Tiling'
<1> SUFFICES ASSUME Tiling, Partition PROVE Tiling'
  OBVIOUS
<1>1. Wire'
  BY WireStep DEF Tiling, WebcamNext, Streamer
<1>2. /\ Idle /\ todo # <<>> /\ todo' = Tail(todo)
      /\ fragment' = IsFragment
      /\ UNCHANGED <<sent, frame_of, nframes>>
  BY DEF Partition, Wrap
<1>3. /\ vpx'.frame_len = Head(todo) /\ vpx'.frame_dx = 0
      /\ vpx'.pstart = 1 /\ vpx'.seqnum = vpx.seqnum
  <2>1. vpx \in Vpx
    BY DEF Tiling, Wire
  <2> QED BY <2>1, VpxFields, SMT DEF Partition, Wrap
<1>4. /\ Head(todo) \in Sizes
      /\ \A k \in DOMAIN todo' : todo'[k] \in Sizes
      /\ Head(todo) \in Nat \ {0}
  <2>1. todo \in Seq(Nat \ {0}) /\ \A k \in DOMAIN todo : todo[k] \in Sizes
    BY DEF Tiling, Wire, Going
  <2> QED BY <1>2, <2>1, SMT
<1>5. ~IsFragment => todo' = <<>>
  <2>1. todo \in Seq(Nat \ {0})
    BY DEF Tiling, Wire
  <2> QED BY <1>2, <2>1, SMT DEF IsFragment
<1>6. Going'
  BY <1>2, <1>3, <1>4, <1>5, SMT DEF Going, Idle
<1>7. Behind'
  <2> SUFFICES ASSUME sent # <<>> PROVE Behind'
    BY <1>2 DEF Behind
  <2>1. vpx.frame_dx \in Nat /\ vpx.frame_len = 0
    BY <1>2, VpxFields, SMT DEF Tiling, Wire, Idle
  <2>2. LastSent.from + LastSent.nbytes \in Sizes
    BY <2>1, SMT DEF Tiling, Behind, Going
  <2>3. ~(LastSent.marker = 1 /\ frame_of[Len(sent)] = nframes)
    BY <1>2 DEF Tiling, Behind, FrameDone
  <2>4. vpx.seqnum = (LastSent.seqnum + 1) % NSeqnums
    BY DEF Tiling, Behind
  <2> QED BY <1>2, <1>3, <2>2, <2>3, <2>4 DEF Behind, LastSent
<1>8. Frames' /\ PayloadsTile' /\ MarkerEndsFrame'
  BY <1>2 DEF Tiling, Frames, PayloadsTile, MarkerEndsFrame, FrameDone
<1> QED BY <1>1, <1>6, <1>7, <1>8 DEF Tiling

(* A packet: it starts where the one before stopped, and with a marker     *)
(* nothing of its frame is left.                                           *)
LEMMA TilingEmit == Tiling /\ Emit => Tiling'
<1> SUFFICES ASSUME Tiling, Emit PROVE Tiling'
  OBVIOUS
<1> DEFINE n == FrameSize
           p == CurrentPacket
<1>1. Wire /\ Wire'
  BY WireStep DEF Tiling, WebcamNext, Streamer
<1>2. /\ ~Idle /\ sent' = Append(sent, p)
      /\ frame_of' = Append(frame_of, nframes)
      /\ UNCHANGED <<todo, nframes, fragment>>
  BY DEF Emit, EmitPacket
<1>3. /\ vpx.frame_len \in Nat \ {0} /\ vpx.frame_dx \in Nat
      /\ vpx.seqnum \in Seqnums
  BY <1>1, <1>2, VpxFields, SMT DEF Wire, Idle
<1>4. /\ vpx'.frame_len = vpx.frame_len - n /\ vpx'.frame_dx = vpx.frame_dx + n
      /\ vpx'.pstart = 0 /\ vpx'.seqnum = (vpx.seqnum + 1) % NSeqnums
  <2>1. vpx \in Vpx
    BY <1>1 DEF Wire
  <2> QED BY <2>1, VpxFields, SMT DEF Emit, EmitPacket
<1>5. /\ n \in 1 .. PayloadSize /\ n <= vpx.frame_len
      /\ Marker = 1 => n = vpx.frame_len /\ ~fragment
  BY <1>3, PayloadSizeAssumption, SMT DEF FrameSize, Marker
<1>6. /\ p.seqnum = vpx.seqnum /\ p.marker = Marker /\ p.pstart = vpx.pstart
      /\ p.from = vpx.frame_dx /\ p.nbytes = n
  BY SMT DEF CurrentPacket
<1>7. vpx.frame_dx + vpx.frame_len \in Sizes
  BY <1>3, SMT DEF Tiling, Going
<1> HIDE DEF n, p
<1>8. /\ sent \in Seq(WirePacket) /\ frame_of \in Seq(Nat)
      /\ Len(frame_of) = Len(sent)
  BY <1>1 DEF Wire, Tiling, Frames
<1>9. /\ Len(sent') = Len(sent) + 1 /\ sent'[Len(sent')] = p
      /\ \A i \in 1 .. Len(sent) : sent'[i] = sent[i]
      /\ Len(frame_of') = Len(sent') /\ frame_of'[Len(sent')] = nframes
      /\ \A i \in 1 .. Len(sent) : frame_of'[i] = frame_of[i]
  BY <1>2, <1>8, SMT
<1>10. Going'
  <2>1. \A k \in DOMAIN todo' : todo'[k] \in Sizes
    BY <1>2 DEF Tiling, Going
  <2>2. vpx'.frame_dx + vpx'.frame_len \in Sizes
    BY <1>3, <1>4, <1>5, <1>7, SMT
  <2>3. vpx'.pstart # 1 /\ vpx'.frame_dx # 0
    BY <1>3, <1>4, <1>5, PayloadSizeAssumption, SMT
  <2>4. ~fragment' => todo' = <<>>
    BY <1>2 DEF Tiling, Going
  <2> QED BY <2>1, <2>2, <2>3, <2>4 DEF Going
<1>11. Behind'
  <2>1. vpx'.seqnum = (p.seqnum + 1) % NSeqnums
    BY <1>4, <1>6
  <2>2. vpx'.frame_dx # 0 /\ p.from + p.nbytes = vpx'.frame_dx
    BY <1>3, <1>4, <1>5, <1>6, PayloadSizeAssumption, SMT
  <2>3. p.marker = 1 => FrameDone'
    <3>1. p.marker = 1 => vpx'.frame_len = 0
      BY <1>3, <1>4, <1>5, <1>6, SMT
    <3>2. p.marker = 1 => todo' = <<>>
      BY <1>2, <1>5, <1>6 DEF Tiling, Going
    <3> QED BY <3>1, <3>2 DEF FrameDone, Idle
  <2>4. LastSent' = p
    BY <1>9 DEF LastSent
  <2> QED BY <2>1, <2>2, <2>3, <2>4 DEF Behind
<1>12. Frames'
  <2>1. nframes \in Nat
    BY <1>1 DEF Wire
  <2>2. frame_of' \in Seq(Nat)
    BY <1>2, <1>8, <2>1
  <2>3. /\ \A i \in DOMAIN frame_of : 0 < frame_of[i] /\ frame_of[i] <= nframes
        /\ nframes # 0
    BY <1>2 DEF Tiling, Frames, FrameDone
  <2> QED BY <1>2, <1>8, <1>9, <2>1, <2>2, <2>3, SMT DEF Frames
<1>13. PayloadsTile'
  <2>1. SUFFICES ASSUME NEW i \in 1 .. Len(sent')
        PROVE  /\ sent'[i].nbytes \in 1 .. PayloadSize
               /\ sent'[i].pstart = 1 <=> sent'[i].from = 0
               /\ i > 1 =>
                    /\ sent'[i].seqnum = (sent'[i - 1].seqnum + 1) % NSeqnums
                    /\ sent'[i].from
                         \in {0, sent'[i - 1].from + sent'[i - 1].nbytes}
                    /\ sent'[i].from = 0 =>
                         \E l \in Layouts : \E k \in DOMAIN l :
                           l[k] = sent'[i - 1].from + sent'[i - 1].nbytes
    BY Zenon DEF PayloadsTile
  <2>2. CASE i <= Len(sent)
    <3>1. /\ i \in 1 .. Len(sent) /\ sent'[i] = sent[i]
          /\ i > 1 => sent'[i - 1] = sent[i - 1]
      BY <1>8, <1>9, <2>2, SMT
    <3> QED BY <3>1, Zenon DEF Tiling, PayloadsTile
  <2>3. CASE i > Len(sent)
    <3>1. i = Len(sent) + 1 /\ sent'[i] = p
      BY <1>8, <1>9, <2>3, SMT
    <3>2. p.nbytes \in 1 .. PayloadSize /\ (p.pstart = 1 <=> p.from = 0)
      BY <1>2, <1>5, <1>6 DEF Tiling, Going
    <3>3. ASSUME i > 1
          PROVE  /\ sent'[i - 1] = LastSent
                 /\ p.seqnum = (LastSent.seqnum + 1) % NSeqnums
                 /\ p.from \in {0, LastSent.from + LastSent.nbytes}
                 /\ p.from = 0 => LastSent.from + LastSent.nbytes \in Sizes
      <4>1. sent # <<>> /\ sent'[i - 1] = LastSent
        BY <1>8, <1>9, <3>1, <3>3, SMT DEF LastSent
      <4> QED BY <1>6, <4>1 DEF Tiling, Behind
    <3> QED BY <3>1, <3>2, <3>3, Zenon DEF Sizes
  <2> QED BY <1>8, <2>2, <2>3, SMT
<1>14. MarkerEndsFrame'
  <2>1. SUFFICES ASSUME NEW i \in 1 .. Len(sent') - 1, sent'[i].marker = 1
        PROVE  frame_of'[i + 1] # frame_of'[i]
    BY Zenon DEF MarkerEndsFrame
  <2>2. i \in 1 .. Len(sent) /\ sent[i].marker = 1
    BY <1>8, <1>9, <2>1, SMT
  <2>3. CASE i < Len(sent)
    <3>1. /\ i \in 1 .. Len(sent) - 1
          /\ frame_of'[i] = frame_of[i] /\ frame_of'[i + 1] = frame_of[i + 1]
      <4>1. Len(sent) \in Nat
        BY <1>8, SMT
      <4>2. i \in 1 .. Len(sent) - 1 /\ i + 1 \in 1 .. Len(sent)
        BY <2>2, <2>3, <4>1, SMT
      <4> QED BY <1>9, <2>2, <4>2, Zenon
    <3>2. \A j \in 1 .. Len(sent) - 1 :
            sent[j].marker = 1 => frame_of[j + 1] # frame_of[j]
      BY DEF Tiling, MarkerEndsFrame
    <3>3. frame_of[i + 1] # frame_of[i]
      BY <2>2, <3>1, <3>2, Zenon
    <3> QED BY <3>1, <3>3, Zenon
  <2>4. CASE i = Len(sent)
    <3>1. sent # <<>>
      BY <1>8, <2>2, <2>4, SMT
    <3>2. ~FrameDone /\ LastSent.marker = 1
      BY <1>2, <2>2, <2>4 DEF FrameDone, LastSent
    <3>3. frame_of[i] # nframes
      BY <2>4, <3>1, <3>2 DEF Tiling, Behind
    <3> QED BY <1>9, <2>2, <2>4, <3>3, SMT
  <2> QED BY <1>8, <2>2, <2>3, <2>4, SMT
<1> QED BY <1>1, <1>10, <1>11, <1>12, <1>13, <1>14 DEF Tiling

(* All other steps leave the packetizer and its packets alone.             *)
LEMMA TilingStep == Tiling /\ [WebcamNext]_webcamVars => Tiling'
<1> SUFFICES ASSUME Tiling, [WebcamNext]_webcamVars PROVE Tiling'
  OBVIOUS
<1>1. Wire'
  BY WireStep DEF Tiling
<1>2. CASE Capture \/ Partition \/ Emit
  BY <1>2, TilingCapture, TilingPartition, TilingEmit
<1>3. CASE UNCHANGED <<vars, todo, nframes, sent, frame_of>>
  BY <1>1, <1>3 DEF vars, Tiling, Going, Behind, LastSent, Frames, Idle,
                    FrameDone, PayloadsTile, MarkerEndsFrame
<1>4. CASE Drop \/ Collect \/ Write \/ Count
  BY <1>3, <1>4 DEF Drop, Collect, Write, Count
<1>5. CASE OnControlCommand \/ OnAddress \/ OnSignal \/ Crash
  BY <1>3, <1>5 DEF OnControlCommand, OnAddress, OnSignal, Crash, streamerVars
<1>6. CASE RequestKeyframe \/ Deliver
  BY <1>3, <1>6 DEF RequestKeyframe, Deliver, streamerVars
<1>7. CASE UNCHANGED webcamVars
  BY <1>3, <1>7 DEF webcamVars, streamerVars
<1> QED BY <1>2, <1>4, <1>5, <1>6, <1>7 DEF WebcamNext, Streamer

(* PayloadsTile, for all partitions the encoder may make: the payloads of  *)
(* a partition follow one another without gap or overlap, the S bit is on  *)
(* the first one, and sequence numbers go up by one modulo their width.    *)
THEOREM PayloadsAlwaysTile == WebcamSpec => []PayloadsTile
<1>1. Tiling => PayloadsTile
  BY DEF Tiling
<1> QED BY <1>1, TilingInit, TilingStep, PTL DEF WebcamSpec

(* MarkerEndsFrame, for all partitions the encoder may make: nothing of a  *)
(* frame comes after its marker, also if it has several partitions.        *)
THEOREM MarkerAlwaysEndsFrame == WebcamSpec => []MarkerEndsFrame
<1>1. Tiling => MarkerEndsFrame
  BY DEF Tiling
<1> QED BY <1>1, TilingInit, TilingStep, PTL DEF WebcamSpec

-----------------------------------------------------------------------------
(* The recording.  Where a frame is in full: what has been collected of it *)
(* and what is still to come make the frame of the encoder, or it has been *)
(* written.                                                                *)
Frame == [partitions : Seq(Nat), key : BOOLEAN]

MadeSoFar ==
  /\ made \in Seq(Frame) /\ Len(made) = nframes
  /\ nframes \in 0 .. MaxFrames
  /\ flags \in BOOLEAN /\ running \in BOOLEAN

Recorder ==
  /\ pc \in {"packet", "write", "count", "wrap"}
  /\ fp \in {"none", "open", "closed"}
  /\ fp = "none" => pc = "packet"
  /\ fp = "closed" => ~running
  /\ pc # "packet" => Idle /\ todo # <<>>
  /\ pc \in {"write", "count"} => Len(todo) = 1
  /\ frame_buffer \in Seq(Nat)

OnDisk ==
  /\ frames \in Seq(Seq(Nat)) /\ Len(frames) <= nframes
  /\ \A k \in DOMAIN frames : frames[k] = made[k].partitions
  /\ num_frames = IF pc = "count" THEN Len(frames) - 1 ELSE Len(frames)
  /\ num_frames \in Nat
  /\ header = IF fp = "closed" THEN num_frames ELSE 0

Unwritten(rest) ==
  /\ nframes > 0 /\ Len(frames) = nframes - 1
  /\ frame_buffer \o rest = made[nframes].partitions

InFull == frame_buffer = <<>> /\ Len(frames) = nframes

Collecting ==
  fp = "open" =>
    /\ pc = "packet" => IF todo = <<>> THEN InFull ELSE Unwritten(todo)
    /\ pc = "write" => Unwritten(<<>>)
    /\ pc = "count" => Len(frames) = nframes
    /\ pc = "wrap" => IF IsFragment THEN Unwritten(Tail(todo)) ELSE InFull

Recorded == Wire /\ MadeSoFar /\ Recorder /\ OnDisk /\ Collecting

(* Moving the head of what is to come to what there is changes nothing.    *)
LEMMA MovedOver ==
  ASSUME NEW S, NEW a \in Seq(S), NEW b \in Seq(S), b # <<>>
  PROVE  /\ Append(a, Head(b)) \o Tail(b) = a \o b
         /\ Len(b) = 1 => Append(a, Head(b)) \o <<>> = a \o b
<1>1. /\ Head(b) \in S /\ Tail(b) \in Seq(S)
      /\ b = <<Head(b)>> \o Tail(b)
      /\ <<Head(b)>> \in Seq(S)
  OBVIOUS
<1>2. Append(a, Head(b)) = a \o <<Head(b)>>
  BY <1>1, AppendIsConcat
<1>3. (a \o <<Head(b)>>) \o Tail(b) = a \o (<<Head(b)>> \o Tail(b))
  BY <1>1, ConcatAssociative
<1>4. Len(b) = 1 => Tail(b) = <<>>
  <2>1. Len(b) = 1 => Len(Tail(b)) = 0
    OBVIOUS
  <2> QED BY <1>1, <2>1, EmptySeq
<1> HIDE DEF Head, Tail
<1> QED BY <1>1, <1>2, <1>3, <1>4, Zenon

(* A row that is not empty and has no second entry has one.                *)
LEMMA NotLong ==
  ASSUME NEW n \in Nat, n # 0
  PROVE  /\ ~(n > 1) <=> n = 1
         /\ ~(n > 1) <=> n - 1 = 0
BY SMT

(* Recorded holds at the start.                                            *)
LEMMA RecordedInit == WebcamInit => Recorded
<1> SUFFICES ASSUME WebcamInit PROVE Recorded
  OBVIOUS
<1>1. MadeSoFar
  <2>1. nframes \in 0 .. MaxFrames
    BY WebcamAssumption DEF WebcamInit
  <2>2. made \in Seq(Frame) /\ Len(made) = nframes
    BY DEF WebcamInit
  <2>3. flags \in BOOLEAN /\ running \in BOOLEAN
    BY Zenon DEF WebcamInit
  <2> QED BY <2>1, <2>2, <2>3 DEF MadeSoFar
<1>2. Recorder /\ OnDisk /\ Collecting
  BY DEF WebcamInit, IvfInit, Recorder, OnDisk, Collecting, InFull
<1> QED BY <1>1, <1>2, WireInit DEF Recorded

(* A new frame starts with an empty frame buffer.                          *)
LEMMA RecordedCapture == Recorded /\ Capture => Recorded'
<1> SUFFICES ASSUME Recorded, Capture PROVE Recorded'
  OBVIOUS
<1>1. Wire'
  BY WireStep DEF Recorded, WebcamNext, Streamer
<1> PICK layout \in Layouts :
      /\ todo' = layout
      /\ made' = Append(made, [partitions |-> layout, key |-> NextIsKey])
  BY DEF Capture
<1>2. layout \in Seq(Nat) /\ layout # <<>>
  <2>1. layout \in Seq(Nat \ {0}) /\ layout # <<>>
    BY WebcamAssumption
  <2> QED BY <2>1, SeqMonotonic
<1>3. /\ running /\ todo = <<>> /\ nframes' = nframes + 1 /\ nframes < MaxFrames
      /\ flags' = FALSE
      /\ UNCHANGED <<vars, ivfVars, pc, frame_buffer, running>>
  BY DEF Capture, FrameDone
<1> DEFINE key == NextIsKey
           frame == [partitions |-> layout, key |-> key]
<1>4. made \in Seq(Frame) /\ Len(made) = nframes /\ nframes \in Nat
      /\ frame \in Frame
  <2>1. key \in BOOLEAN
    BY DEF NextIsKey, Due, Recorded, MadeSoFar
  <2> QED BY <1>2, <2>1, WebcamAssumption DEF Recorded, MadeSoFar, Frame
<1> HIDE DEF key
<1>5. /\ made' \in Seq(Frame) /\ Len(made') = nframes + 1
      /\ made'[nframes + 1].partitions = layout
      /\ \A k \in 1 .. nframes : made'[k] = made[k]
  <2>1. made' = Append(made, frame) /\ frame.partitions = layout
    BY DEF key
  <2> HIDE DEF frame
  <2> QED BY <1>4, <2>1, AppendProperties
<1>6. MadeSoFar'
  <2>1. nframes' \in 0 .. MaxFrames
    BY <1>3, <1>4, WebcamAssumption
  <2>2. flags' \in BOOLEAN /\ running' \in BOOLEAN
    BY <1>3, Zenon DEF Recorded, MadeSoFar
  <2>3. Len(made') = nframes'
    BY <1>3, <1>5
  <2> QED BY <1>5, <2>1, <2>2, <2>3 DEF MadeSoFar
<1>7. pc = "packet" /\ fp # "closed"
  BY <1>3 DEF Recorded, Recorder
<1>8. Recorder'
  BY <1>3, <1>7 DEF Recorded, Recorder, ivfVars
<1>9. OnDisk'
  <2>1. \A k \in DOMAIN frames : k \in 1 .. nframes
    BY <1>4 DEF Recorded, OnDisk
  <2> QED BY <1>3, <1>4, <1>5, <2>1 DEF Recorded, OnDisk, ivfVars
<1>10. Collecting'
  <2>1. fp = "open" => frame_buffer = <<>> /\ Len(frames) = nframes
    BY <1>3, <1>7 DEF Recorded, Collecting, InFull
  <2>2. <<>> \o layout = layout
    BY <1>2, ConcatEmptySeq
  <2> QED BY <1>2, <1>3, <1>4, <1>5, <1>7, <2>1, <2>2 DEF Collecting, Unwritten, ivfVars
<1> QED BY <1>1, <1>6, <1>8, <1>9, <1>10 DEF Recorded

(* The part of on_vp8_packet that a recording adds.                        *)
LEMMA RecordedCollect == Recorded /\ Collect => Recorded'
<1> SUFFICES ASSUME Recorded, Collect PROVE Recorded'
  OBVIOUS
<1>1. Wire' /\ MadeSoFar'
  BY WireStep DEF Recorded, MadeSoFar, WebcamNext, Streamer, Collect
<1>2. /\ Idle /\ todo # <<>> /\ pc = "packet" /\ fp = "open"
      /\ frame_buffer' = Append(frame_buffer, Head(todo))
      /\ pc' = IF Len(todo) > 1 THEN "wrap" ELSE "write"
      /\ UNCHANGED <<vars, ivfVars, nframes, todo, made, running>>
  BY DEF Collect, AfterCollect, IsFragment
<1>3. /\ todo \in Seq(Nat) /\ frame_buffer \in Seq(Nat) /\ nframes \in Nat
      /\ Len(todo) \in Nat \ {0} /\ Head(todo) \in Nat
  BY <1>2, SeqMonotonic DEF Recorded, Wire, Recorder
<1>4. /\ frame_buffer' \o Tail(todo) = frame_buffer \o todo
      /\ Len(todo) = 1 => frame_buffer' \o <<>> = frame_buffer \o todo
  BY <1>2, <1>3, MovedOver
<1>5. Unwritten(todo)
  BY <1>2 DEF Recorded, Collecting
<1>6. Recorder'
  <2>1. frame_buffer' \in Seq(Nat)
    BY <1>2, <1>3, AppendProperties
  <2>2. pc' = "write" => Len(todo) = 1
    <3>1. Len(todo) \in Nat /\ Len(todo) # 0
      BY <1>3
    <3>2. ~(Len(todo) > 1) => Len(todo) = 1
      BY <3>1, NotLong, Zenon
    <3> QED BY <1>2, <3>2
  <2>3. pc' \in {"wrap", "write"} /\ Idle'
    BY <1>2 DEF vars, Idle
  <2> QED BY <1>2, <2>1, <2>2, <2>3 DEF Recorder, ivfVars
<1>7. OnDisk'
  BY <1>2 DEF Recorded, OnDisk, ivfVars
<1>8. Collecting'
  <2>1. pc' = "write" => Unwritten(<<>>)'
    BY <1>2, <1>3, <1>4, <1>5 DEF Unwritten, ivfVars
  <2>2. pc' = "wrap" => IsFragment' /\ Unwritten(Tail(todo))'
    BY <1>2, <1>4, <1>5 DEF Unwritten, ivfVars, IsFragment
  <2> QED BY <1>2, <2>1, <2>2 DEF Collecting
<1> QED BY <1>1, <1>6, <1>7, <1>8 DEF Recorded

(* rxs_ivf_write_frame writes the partitions of one frame.                 *)
LEMMA RecordedWrite == Recorded /\ Write => Recorded'
<1> SUFFICES ASSUME Recorded, Write PROVE Recorded'
  OBVIOUS
<1>1. Wire' /\ MadeSoFar'
  BY WireStep DEF Recorded, MadeSoFar, WebcamNext, Streamer, Write
<1>2. /\ running /\ pc = "write" /\ pc' = "count"
      /\ frames' = Append(frames, frame_buffer)
      /\ UNCHANGED <<vars, fp, num_frames, header, nframes, todo, frame_buffer,
                     made, running>>
  BY DEF Write, WriteFrame
<1>3. fp = "open" /\ frame_buffer \in Seq(Nat) /\ nframes \in Nat
      /\ frames \in Seq(Seq(Nat))
  BY <1>2 DEF Recorded, Recorder, OnDisk, MadeSoFar
<1>4. /\ nframes > 0 /\ Len(frames) = nframes - 1
      /\ frame_buffer = made[nframes].partitions
  <2>1. Unwritten(<<>>)
    BY <1>2, <1>3 DEF Recorded, Collecting
  <2>2. frame_buffer \o <<>> = frame_buffer
    BY <1>3, ConcatEmptySeq
  <2> QED BY <2>1, <2>2 DEF Unwritten
<1>5. /\ frames' \in Seq(Seq(Nat)) /\ Len(frames') = nframes
      /\ frames'[nframes] = frame_buffer
      /\ \A k \in 1 .. nframes - 1 : frames'[k] = frames[k]
  <2> DEFINE B == Seq(Nat)
  <2>1. frames \in Seq(B) /\ frame_buffer \in B
    BY <1>3
  <2> HIDE DEF B
  <2>2. frames' \in Seq(B) /\ Len(frames') = nframes
        /\ frames'[nframes] = frame_buffer
        /\ \A k \in 1 .. nframes - 1 : frames'[k] = frames[k]
    BY <1>2, <1>3, <1>4, <2>1, AppendProperties
  <2> QED BY <2>2 DEF B
<1>6. Recorder'
  BY <1>2 DEF Recorded, Recorder, vars, Idle
<1>7. OnDisk'
  <2>1. \A k \in DOMAIN frames' : frames'[k] = made[k].partitions
    <3>1. DOMAIN frames' = 1 .. nframes /\ DOMAIN frames = 1 .. nframes - 1
      BY <1>3, <1>4, <1>5
    <3>2. \A k \in DOMAIN frames : frames[k] = made[k].partitions
      BY DEF Recorded, OnDisk
    <3>3. \A k \in 1 .. nframes : k \in 1 .. nframes - 1 \/ k = nframes
      BY <1>3
    <3> QED BY <1>4, <1>5, <3>1, <3>2, <3>3
  <2> QED BY <1>2, <1>3, <1>4, <1>5, <2>1 DEF Recorded, OnDisk
<1>8. Collecting'
  BY <1>2, <1>5 DEF Collecting
<1> QED BY <1>1, <1>6, <1>7, <1>8 DEF Recorded

(* The count follows the frame that was written.                           *)
LEMMA RecordedCount == Recorded /\ Count => Recorded'
<1> SUFFICES ASSUME Recorded, Count PROVE Recorded'
  OBVIOUS
<1>1. Wire' /\ MadeSoFar'
  BY WireStep DEF Recorded, MadeSoFar, WebcamNext, Streamer, Count
<1>2. /\ running /\ pc = "count" /\ pc' = "wrap" /\ num_frames' = num_frames + 1
      /\ frame_buffer' = <<>>
      /\ UNCHANGED <<vars, fp, header, frames, nframes, todo, made, running>>
  BY DEF Count, CountFrame
<1>3. fp = "open" /\ Len(todo) = 1 /\ Len(frames) \in Nat /\ Len(frames) = nframes
  BY <1>2 DEF Recorded, Recorder, OnDisk, Collecting
<1>4. Recorder'
  BY <1>2 DEF Recorded, Recorder, vars, Idle
<1>5. OnDisk'
  BY <1>2, <1>3 DEF Recorded, OnDisk
<1>6. Collecting'
  BY <1>2, <1>3 DEF Collecting, InFull, IsFragment
<1> QED BY <1>1, <1>4, <1>5, <1>6 DEF Recorded

(* A partition is added to the frame buffer.                               *)
LEMMA RecordedPartition == Recorded /\ Partition => Recorded'
<1> SUFFICES ASSUME Recorded, Partition PROVE Recorded'
  OBVIOUS
<1>1. Wire' /\ MadeSoFar'
  BY WireStep DEF Recorded, MadeSoFar, WebcamNext, Streamer, Partition
<1>2. /\ running /\ todo # <<>> /\ todo' = Tail(todo) /\ pc' = "packet"
      /\ fp = "open" => pc = "wrap"
      /\ fp # "open" => pc = "packet"
      /\ UNCHANGED <<ivfVars, nframes, frame_buffer, made, running>>
  BY DEF Partition
<1>3. fp # "closed" /\ todo \in Seq(Nat) /\ Len(todo) \in Nat \ {0}
  BY <1>2, SeqMonotonic DEF Recorded, Recorder, Wire
<1>4. Tail(todo) = <<>> <=> ~(Len(todo) > 1)
  <2>1. Tail(todo) \in Seq(Nat) /\ Len(Tail(todo)) = Len(todo) - 1
    BY <1>2, <1>3, HeadTailProperties
  <2>2. Tail(todo) = <<>> <=> Len(Tail(todo)) = 0
    BY <2>1, EmptySeq
  <2>3. Len(todo) \in Nat /\ Len(todo) # 0
    BY <1>3
  <2>4. Len(todo) - 1 = 0 <=> ~(Len(todo) > 1)
    BY <2>3, NotLong, Zenon
  <2> QED BY <2>1, <2>2, <2>4
<1>5. Recorder'
  BY <1>2 DEF Recorded, Recorder, ivfVars
<1>6. OnDisk'
  BY <1>2, <1>3 DEF Recorded, OnDisk, Recorder, ivfVars
<1>7. Collecting'
  BY <1>2, <1>4 DEF Recorded, Collecting, Unwritten, InFull, IsFragment, ivfVars
<1> QED BY <1>1, <1>5, <1>6, <1>7 DEF Recorded

(* The handler of SIGINT counts what is counted.                           *)
LEMMA RecordedOnSignal == Recorded /\ OnSignal => Recorded'
<1> SUFFICES ASSUME Recorded, OnSignal PROVE Recorded'
  OBVIOUS
<1>1. Wire' /\ MadeSoFar'
  BY WireStep DEF Recorded, MadeSoFar, WebcamNext, Streamer, OnSignal
<1>2. /\ running' = FALSE
      /\ IF fp = "open"
         THEN fp' = "closed" /\ header' = num_frames /\ UNCHANGED <<num_frames, frames>>
         ELSE UNCHANGED ivfVars
      /\ UNCHANGED <<vars, pc, nframes, todo, frame_buffer, made>>
  BY DEF OnSignal, Destroy
<1>3. Recorder' /\ OnDisk'
  BY <1>2 DEF Recorded, Recorder, OnDisk, ivfVars, vars, Idle
<1>4. Collecting'
  BY <1>2 DEF Collecting, ivfVars
<1> QED BY <1>1, <1>3, <1>4 DEF Recorded

(* Every step keeps Recorded.                                              *)
LEMMA RecordedStep == Recorded /\ [WebcamNext]_webcamVars => Recorded'
<1> SUFFICES ASSUME Recorded, [WebcamNext]_webcamVars PROVE Recorded'
  OBVIOUS
<1>1. Wire'
  BY WireStep DEF Recorded
<1>2. CASE Capture \/ Collect \/ Write \/ Count \/ Partition \/ OnSignal
  BY <1>2, RecordedCapture, RecordedCollect, RecordedWrite, RecordedCount,
     RecordedPartition, RecordedOnSignal
<1>3. CASE Emit
  <2>1. /\ ~Idle
        /\ UNCHANGED <<ivfVars, pc, flags, nframes, todo, frame_buffer, made, running>>
    BY <1>3 DEF Emit, EmitPacket
  <2>2. pc = "packet"
    BY <2>1 DEF Recorded, Recorder
  <2>3. MadeSoFar' /\ OnDisk'
    BY <2>1 DEF Recorded, MadeSoFar, OnDisk, ivfVars
  <2>4. Recorder' /\ Collecting'
    BY <2>1, <2>2 DEF Recorded, Recorder, Collecting, Unwritten, InFull, ivfVars
  <2> QED BY <1>1, <2>3, <2>4 DEF Recorded
<1>4. CASE /\ flags' \in BOOLEAN /\ (running' = running \/ running' = FALSE)
           /\ UNCHANGED <<vars, ivfVars, pc, nframes, todo, frame_buffer, made>>
  <2>1. MadeSoFar' /\ OnDisk'
    BY <1>4 DEF Recorded, MadeSoFar, OnDisk, ivfVars
  <2>2. Recorder' /\ Collecting'
    BY <1>4 DEF Recorded, Recorder, Collecting, Unwritten, InFull, ivfVars, vars,
                Idle, IsFragment
  <2> QED BY <1>1, <2>1, <2>2 DEF Recorded
<1>5. flags \in BOOLEAN
  BY DEF Recorded, MadeSoFar
<1>6. CASE OnControlCommand
  BY <1>4, <1>5, <1>6 DEF OnControlCommand
<1>7. CASE Drop \/ OnAddress \/ Crash
  BY <1>4, <1>5, <1>7 DEF Drop, OnAddress, Crash, streamerVars
<1>8. CASE RequestKeyframe \/ Deliver
  BY <1>4, <1>5, <1>8 DEF RequestKeyframe, Deliver, streamerVars
<1>9. CASE UNCHANGED webcamVars
  BY <1>4, <1>5, <1>9 DEF webcamVars, streamerVars
<1> QED BY <1>2, <1>3, <1>6, <1>7, <1>8, <1>9 DEF WebcamNext, Streamer

(* RecordedWhole, for all partitions: whatever order the writing of a      *)
(* frame, the counting of it, its packets and the signal come in.          *)
THEOREM RecordingIsWhole == WebcamSpec => []RecordedWhole
<1>1. Recorded => RecordedWhole
  <2> SUFFICES ASSUME Recorded PROVE RecordedWhole
    OBVIOUS
  <2>1. Len(frames) \in Nat
    BY DEF Recorded, OnDisk
  <2>2. pc = "count" /\ fp = "open" => Len(frames) = nframes
    BY DEF Recorded, Collecting
  <2>3. /\ \A k \in DOMAIN frames : frames[k] = made[k].partitions
        /\ num_frames = IF pc = "count" THEN Len(frames) - 1 ELSE Len(frames)
        /\ header = IF fp = "closed" THEN num_frames ELSE 0
    BY DEF Recorded, OnDisk
  <2> QED BY <2>1, <2>3 DEF RecordedWhole
<1> QED BY <1>1, RecordedInit, RecordedStep, PTL DEF WebcamSpec

-----------------------------------------------------------------------------
(* What is on the way, and what the player has: packets that were sent, in *)
(* the order they were sent in, those that arrived before the others.      *)
Increasing(s) == \A j, k \in DOMAIN s : j < k => s[j] < s[k]

Way ==
  /\ net \in Seq(Nat \ {0}) /\ Increasing(net)
  /\ \A k \in DOMAIN net : net[k] <= Len(sent)
  /\ arrived \subseteq DOMAIN sent
  /\ \A k \in DOMAIN net : \A i \in arrived : i < net[k]

(* A payload with a marker is the last one of what the decoder is given,   *)
(* and what is kept in the buffer came after it.                           *)
Uncut(s) ==
  \A k \in 1 .. Len(s) - 1 : \A i \in arrived :
    sent[i].marker = 1 => i < s[k] \/ s[k + 1] <= i

Buffered ==
  /\ data \in Seq(Nat \ {0}) /\ Increasing(data)
  /\ \A k \in DOMAIN data : data[k] \in arrived
  /\ \A k \in DOMAIN data : \A i \in arrived : sent[i].marker = 1 => i < data[k]

Given ==
  /\ decoded \in Seq(Nat \ {0}) /\ Increasing(decoded) /\ Uncut(decoded)
  /\ \A k \in DOMAIN decoded : decoded[k] \in arrived

Commands ==
  /\ ctl \in Seq(Seq(Byte))
  /\ nr \in 0 .. MaxRequests /\ nr < 65536
  /\ losses \in 0 .. MaxLosses
  /\ picture \in {"none", "clean", "broken"} /\ had_key \in BOOLEAN
  /\ upto \in 0 .. nframes

Traffic == Tiling /\ Way /\ Buffered /\ Given /\ Commands

(* Traffic holds at the start.                                             *)
LEMMA TrafficInit == WebcamInit => Traffic
<1> SUFFICES ASSUME WebcamInit PROVE Traffic
  OBVIOUS
<1>1. /\ net = <<>> /\ ctl = <<>> /\ nr = 0 /\ losses = 0 /\ data = <<>>
      /\ decoded = <<>> /\ picture = "none" /\ upto = 0 /\ arrived = {}
      /\ nframes = 0 /\ had_key = FALSE
  BY DEF WebcamInit, ControlInit
<1>2. Way /\ Buffered /\ Given
  BY <1>1, SMT DEF Way, Buffered, Given, Increasing, Uncut
<1>3. Commands
  <2>1. nr \in 0 .. MaxRequests /\ nr < 65536 /\ losses \in 0 .. MaxLosses
        /\ upto \in 0 .. nframes
    BY <1>1, WebcamAssumption, SMT
  <2>2. had_key \in BOOLEAN /\ picture \in {"none", "clean", "broken"}
    BY <1>1, Zenon
  <2>3. ctl \in Seq(Seq(Byte))
    BY <1>1, EmptySeq
  <2> QED BY <2>1, <2>2, <2>3 DEF Commands
<1> QED BY <1>2, <1>3, TilingInit DEF Traffic

(* The datagram that the player gets next, and what it reads in it.        *)
LEMMA NextOfWay ==
  ASSUME Tiling, Way, net # <<>>
  PROVE  /\ Head(net) \in DOMAIN sent /\ \A i \in arrived : i < Head(net)
         /\ \A dep \in Received(sent[Head(net)]) :
              /\ dep.len > 0
              /\ dep.marker = sent[Head(net)].marker
              /\ dep.nonref = sent[Head(net)].nonref
<1> DEFINE i == Head(net)
<1>1. net \in Seq(Nat \ {0}) /\ Len(net) > 0 /\ sent \in Seq(WirePacket)
  <2>1. net \in Seq(Nat \ {0}) /\ Len(net) # 0
    BY EmptySeq DEF Way
  <2> QED BY <2>1 DEF Tiling, Wire
<1>2. i = net[1] /\ 1 \in DOMAIN net
  BY <1>1
<1>3. i \in DOMAIN sent /\ \A j \in arrived : j < i
  BY <1>1, <1>2 DEF Way
<1> HIDE DEF i
<1>4. sent[i] \in WirePacket /\ sent[i].nbytes \in 1 .. PayloadSize
  BY <1>1, <1>3 DEF Tiling, PayloadsTile
<1>5. ASSUME NEW dep \in Received(sent[i])
      PROVE  dep.len > 0 /\ dep.marker = sent[i].marker /\ dep.nonref = sent[i].nonref
  <2>1. 0 \in 0 .. 7
    OBVIOUS
  <2>2. Agreement(sent[i], 0)
    BY <1>4, <2>1, RoundTrip
  <2>3. dep = Unwrapped(Wrapped(sent[i], 0), Len(Wrapped(sent[i], 0)) + sent[i].nbytes)
    BY <1>5 DEF Received
  <2>4. {"marker", "nonref"} \subseteq DOMAIN dep \ {"len"}
    BY <2>3 DEF Unwrapped
  <2>5. /\ dep.len = sent[i].nbytes
        /\ \A field \in DOMAIN dep \ {"len"} : dep[field] = sent[i][field]
    BY <2>2, <2>3, Zenon DEF Agreement
  <2>6. dep.marker = sent[i].marker /\ dep.nonref = sent[i].nonref
    BY <2>4, <2>5
  <2> QED BY <1>4, <2>5, <2>6, PayloadSizeAssumption
<1> QED BY <1>3, <1>5 DEF i

(* A number other than zero follows another one.                           *)
LEMMA Successor ==
  ASSUME NEW n \in Nat, n # 0
  PROVE  \E l \in Nat : n = l + 1
<1>1. n - 1 \in Nat /\ n = (n - 1) + 1
  OBVIOUS
<1> QED BY <1>1

(* What the player does with a payload.                                    *)
LEMMA TrafficDeliver == Traffic /\ Deliver => Traffic'
<1> SUFFICES ASSUME Traffic, Deliver PROVE Traffic'
  OBVIOUS
<1> DEFINE i == Head(net)
<1>1. PICK dep \in Received(sent[i]) :
        LET s == IF dep.len > 0 THEN Append(data, i) ELSE data
        IN  /\ arrived' = arrived \cup {i}
            /\ had_key' = (had_key \/ dep.nonref = 0)
            /\ data' = Collected(s, dep.marker, had_key')
            /\ IF had_key' /\ dep.marker = 1
               THEN /\ decoded' = s
                    /\ picture' = IF Decodes(s) THEN "clean" ELSE "broken"
                    /\ upto' = frame_of[i]
               ELSE UNCHANGED <<decoded, picture, upto>>
  BY Zenon DEF Deliver
<1>2. net # <<>> /\ net' = Tail(net)
      /\ UNCHANGED <<streamerVars, running, got_remote_ip, ctl, nr, losses>>
  BY Zenon DEF Deliver
<1>3. /\ i \in DOMAIN sent /\ \A j \in arrived : j < i
      /\ dep.len > 0 /\ dep.marker = sent[i].marker
  BY <1>1, <1>2, NextOfWay DEF Traffic
<1>4. Tiling'
  BY TilingStep DEF Traffic, WebcamNext
<1>5. UNCHANGED <<sent, frame_of, nframes, made>>
  BY <1>2 DEF streamerVars
<1> DEFINE s == Append(data, i)
<1>6. /\ arrived' = arrived \cup {i}
      /\ data' = IF dep.marker = 1 THEN <<>> ELSE s
      /\ decoded' = s \/ decoded' = decoded
      /\ had_key' \in BOOLEAN
      /\ picture' \in {"clean", "broken", picture}
      /\ upto' \in {upto, frame_of[i]}
  <2>1. data' = IF dep.marker = 1 THEN <<>> ELSE s
    BY <1>1, <1>3, Zenon DEF Collected
  <2>2. had_key' \in BOOLEAN
    <3>1. had_key' = (had_key \/ dep.nonref = 0)
      BY <1>1, Zenon
    <3> QED BY <3>1, Zenon
  <2>3. decoded' = s \/ decoded' = decoded
    BY <1>1, <1>3, Zenon
  <2>4. picture' \in {"clean", "broken", picture} /\ upto' \in {upto, frame_of[i]}
    BY <1>1, Zenon
  <2> QED BY <1>1, <2>1, <2>2, <2>3, <2>4, Zenon
<1>7. PICK n \in Nat : n = Len(data) /\ data \in Seq(Nat \ {0}) /\ DOMAIN data = 1 .. n
  BY DEF Traffic, Buffered
<1>8. i \in Nat \ {0} /\ arrived \subseteq DOMAIN sent
  BY <1>3 DEF Traffic, Tiling, Wire, Way
<1> HIDE DEF i
<1>9. /\ s \in Seq(Nat \ {0}) /\ Len(s) = n + 1 /\ DOMAIN s = 1 .. n + 1
      /\ s[n + 1] = i /\ \A k \in 1 .. n : s[k] = data[k]
  BY <1>7, <1>8, AppendProperties
<1>10. \A k \in 1 .. n : data[k] \in arrived /\ data[k] \in Nat
  BY <1>7 DEF Traffic, Buffered
<1> HIDE DEF s
<1>11. Increasing(s)
  <2> SUFFICES ASSUME NEW j \in 1 .. n + 1, NEW k \in 1 .. n + 1, j < k
               PROVE  s[j] < s[k]
    BY <1>9 DEF Increasing
  <2>1. CASE k = n + 1
    <3>1. j \in 1 .. n
      BY <2>1
    <3> QED BY <1>3, <1>9, <1>10, <2>1, <3>1
  <2>2. CASE k # n + 1
    <3>1. j \in 1 .. n /\ k \in 1 .. n
      BY <2>2
    <3> QED BY <1>7, <1>9, <3>1 DEF Traffic, Buffered, Increasing
  <2> QED BY <2>1, <2>2
<1>12. \A k \in DOMAIN s : s[k] \in arrived'
  <2>1. \A k \in 1 .. n + 1 : k \in 1 .. n \/ k = n + 1
    OBVIOUS
  <2> QED BY <1>6, <1>9, <1>10, <2>1
<1>13. \A k \in 1 .. n : \A j \in arrived : sent[j].marker = 1 => j < s[k]
  BY <1>7, <1>9 DEF Traffic, Buffered
<1>14. \A j \in arrived : j \in Nat
  BY <1>8 DEF Traffic, Tiling, Wire
<1>15. Way'
  <2>1. net \in Seq(Nat \ {0}) /\ Increasing(net)
    BY DEF Traffic, Way
  <2>2. PICK l \in Nat : Len(net) = l + 1 /\ DOMAIN net = 1 .. l + 1
    <3>1. Len(net) \in Nat /\ Len(net) # 0 /\ DOMAIN net = 1 .. Len(net)
      BY <1>2, <2>1, EmptySeq
    <3> QED BY <3>1, Successor, Zenon
  <2>3. /\ net' \in Seq(Nat \ {0}) /\ DOMAIN net' = 1 .. l
        /\ \A k \in 1 .. l : net'[k] = net[k + 1]
    BY <1>2, <2>1, <2>2, HeadTailProperties
  <2>4. i = net[1]
    BY <2>1 DEF i
  <2>5. \A k \in 1 .. l : k + 1 \in 1 .. l + 1 /\ 1 < k + 1
    OBVIOUS
  <2>6. \A k \in 1 .. l : net[k + 1] <= Len(sent) /\ i < net[k + 1]
                        /\ \A j \in arrived : j < net[k + 1]
    BY <2>1, <2>2, <2>4, <2>5 DEF Traffic, Way, Increasing
  <2>7. Increasing(net')
    <3> SUFFICES ASSUME NEW j \in 1 .. l, NEW k \in 1 .. l, j < k
                 PROVE  net'[j] < net'[k]
      BY <2>3 DEF Increasing
    <3>1. j + 1 \in DOMAIN net /\ k + 1 \in DOMAIN net /\ j + 1 < k + 1
      BY <2>2
    <3>2. net[j + 1] < net[k + 1]
      BY <2>1, <3>1 DEF Increasing
    <3> QED BY <2>3, <3>2
  <2>8. arrived' \subseteq DOMAIN sent'
    BY <1>3, <1>5, <1>6, <1>8
  <2> QED BY <1>5, <1>6, <2>3, <2>6, <2>7, <2>8 DEF Way
<1>16. Buffered'
  <2>1. CASE dep.marker = 1
    <3>1. data' = <<>>
      BY <1>6, <2>1
    <3> QED BY <3>1 DEF Buffered, Increasing
  <2>2. CASE dep.marker # 1
    <3>1. data' = s
      BY <1>6, <2>2
    <3>2. ASSUME NEW k \in 1 .. n + 1, NEW j \in arrived \cup {i}, sent[j].marker = 1
          PROVE  j < s[k]
      <4>1. j \in arrived
        BY <1>3, <2>2, <3>2
      <4>2. k \in 1 .. n \/ k = n + 1
        OBVIOUS
      <4> QED BY <1>3, <1>9, <1>13, <3>2, <4>1, <4>2
    <3> QED BY <1>5, <1>6, <1>9, <1>11, <1>12, <3>1, <3>2 DEF Buffered
  <2> QED BY <2>1, <2>2
<1>17. Given'
  <2>1. CASE decoded' = s
    <3>1. ASSUME NEW k \in 1 .. n, NEW j \in arrived \cup {i}, sent[j].marker = 1
          PROVE  j < s[k] \/ s[k + 1] <= j
      <4>1. CASE j \in arrived
        BY <1>13, <3>1, <4>1
      <4>2. CASE j = i
        <5>1. k + 1 \in 1 .. n \/ k + 1 = n + 1
          OBVIOUS
        <5>2. s[k + 1] <= i
          BY <1>3, <1>8, <1>9, <1>10, <5>1
        <5> QED BY <4>2, <5>2
      <4> QED BY <3>1, <4>1, <4>2
    <3>2. 1 .. Len(decoded') - 1 = 1 .. n
      BY <1>9, <2>1
    <3>3. Uncut(decoded)'
      BY <1>5, <1>6, <2>1, <3>1, <3>2 DEF Uncut
    <3>4. Increasing(decoded)'
      BY <1>11, <2>1 DEF Increasing
    <3> QED BY <1>9, <1>12, <2>1, <3>3, <3>4 DEF Given
  <2>2. CASE decoded' = decoded
    <3>1. /\ decoded \in Seq(Nat \ {0}) /\ Increasing(decoded) /\ Uncut(decoded)
          /\ \A k \in DOMAIN decoded : decoded[k] \in arrived
      BY DEF Traffic, Given
    <3>2. ASSUME NEW k \in 1 .. Len(decoded) - 1
          PROVE  decoded[k + 1] <= i
      <4>1. k + 1 \in DOMAIN decoded
        BY <3>1
      <4> QED BY <1>3, <1>8, <1>14, <3>1, <4>1
    <3>3. Uncut(decoded)'
      BY <1>5, <1>6, <2>2, <3>1, <3>2 DEF Uncut
    <3> QED BY <1>6, <2>2, <3>1, <3>3 DEF Given, Increasing
  <2> QED BY <1>6, <2>1, <2>2
<1>18. Commands'
  <2>1. frame_of[i] \in 0 .. nframes
    BY <1>3 DEF Traffic, Tiling, Frames, Wire
  <2>2. upto' \in 0 .. nframes'
    BY <1>5, <1>6, <2>1 DEF Traffic, Commands
  <2>3. picture' \in {"none", "clean", "broken"}
    BY <1>6 DEF Traffic, Commands
  <2> QED BY <1>2, <1>6, <2>2, <2>3 DEF Traffic, Commands
<1> QED BY <1>4, <1>15, <1>16, <1>17, <1>18 DEF Traffic

(* A packet that is sent comes behind all others.                          *)
LEMMA TrafficEmit == Traffic /\ Emit => Traffic'
<1> SUFFICES ASSUME Traffic, Emit PROVE Traffic'
  OBVIOUS
<1>1. Tiling'
  BY TilingStep DEF Traffic, WebcamNext, Streamer
<1>2. /\ sent' = Append(sent, CurrentPacket)
      /\ (net' = Append(net, Len(sent')) /\ losses' = losses) \/ net' = net
      /\ losses' = losses \/ (losses < MaxLosses /\ losses' = losses + 1)
      /\ UNCHANGED <<nframes, ctl, nr, playerVars>>
  BY Zenon DEF Emit
<1>3. PICK n \in Nat : n = Len(sent) /\ sent \in Seq(WirePacket) /\ DOMAIN sent = 1 .. n
  BY DEF Traffic, Tiling, Wire
<1>4. /\ Len(sent') = n + 1 /\ DOMAIN sent' = 1 .. n + 1
      /\ \A i \in 1 .. n : sent'[i] = sent[i]
  <2>1. CurrentPacket \in WirePacket
    BY CurrentPacketFits DEF Traffic, Tiling, Wire
  <2> QED BY <1>2, <1>3, <2>1, AppendProperties
<1>5. arrived \subseteq 1 .. n
  BY <1>3 DEF Traffic, Way
<1>6. Commands'
  <2>1. losses' \in 0 .. MaxLosses
    BY <1>2, WebcamAssumption DEF Traffic, Commands
  <2> QED BY <1>2, <2>1 DEF Traffic, Commands, playerVars
<1>7. Buffered' /\ Given'
  <2>1. \A i \in arrived : sent'[i] = sent[i]
    BY <1>4, <1>5
  <2> QED BY <1>2, <2>1 DEF Traffic, Buffered, Given, Increasing, Uncut, playerVars
<1>8. /\ net \in Seq(Nat \ {0}) /\ Increasing(net)
      /\ \A k \in DOMAIN net : net[k] <= n
      /\ \A k \in DOMAIN net : \A i \in arrived : i < net[k]
  BY <1>3 DEF Traffic, Way
<1>9. Way'
  <2>1. arrived' = arrived /\ arrived \subseteq DOMAIN sent'
    BY <1>2, <1>4, <1>5 DEF playerVars
  <2>2. CASE net' = net
    <3>1. \A k \in DOMAIN net : net[k] <= n + 1
      BY <1>8
    <3> QED BY <1>4, <1>8, <2>1, <2>2, <3>1 DEF Way, Increasing
  <2>3. CASE net' = Append(net, n + 1)
    <3>1. PICK l \in Nat : l = Len(net) /\ DOMAIN net = 1 .. l
      BY <1>8
    <3>2. n + 1 \in Nat \ {0}
      OBVIOUS
    <3>3. /\ net' \in Seq(Nat \ {0}) /\ DOMAIN net' = 1 .. l + 1
          /\ net'[l + 1] = n + 1 /\ \A k \in 1 .. l : net'[k] = net[k]
      BY <1>8, <2>3, <3>1, <3>2, AppendProperties
    <3>4. \A k \in 1 .. l : net[k] <= n /\ net[k] \in Nat
      BY <1>8, <3>1
    <3>5. \A k \in 1 .. l + 1 : k \in 1 .. l \/ k = l + 1
      OBVIOUS
    <3>6. \A k \in 1 .. l + 1 : net'[k] <= n + 1 /\ \A i \in arrived : i < net'[k]
      <4> SUFFICES ASSUME NEW k \in 1 .. l + 1
                   PROVE  net'[k] <= n + 1 /\ \A i \in arrived : i < net'[k]
        OBVIOUS
      <4>1. CASE k \in 1 .. l
        BY <1>8, <3>1, <3>3, <3>4, <4>1
      <4>2. CASE k = l + 1
        BY <1>5, <3>3, <4>2
      <4> QED BY <3>5, <4>1, <4>2
    <3>7. Increasing(net')
      <4> SUFFICES ASSUME NEW j \in 1 .. l + 1, NEW k \in 1 .. l + 1, j < k
                   PROVE  net'[j] < net'[k]
        BY <3>3 DEF Increasing
      <4>1. j \in 1 .. l
        OBVIOUS
      <4>2. CASE k \in 1 .. l
        BY <1>8, <3>1, <3>3, <4>1, <4>2 DEF Increasing
      <4>3. CASE k = l + 1
        BY <3>3, <3>4, <4>1, <4>3
      <4> QED BY <3>5, <4>2, <4>3
    <3> QED BY <1>4, <2>1, <3>3, <3>6, <3>7 DEF Way
  <2> QED BY <1>2, <1>4, <2>2, <2>3
<1> QED BY <1>1, <1>6, <1>7, <1>9 DEF Traffic

(* Every step keeps Traffic.                                               *)
LEMMA TrafficStep == Traffic /\ [WebcamNext]_webcamVars => Traffic'
<1> SUFFICES ASSUME Traffic, [WebcamNext]_webcamVars PROVE Traffic'
  OBVIOUS
<1>1. Tiling'
  BY TilingStep DEF Traffic
<1>2. CASE Deliver \/ Emit
  BY <1>2, TrafficDeliver, TrafficEmit
<1>3. CASE /\ Commands'
           /\ UNCHANGED <<sent, net, data, decoded, arrived>>
  BY <1>1, <1>3 DEF Traffic, Way, Buffered, Given, Increasing, Uncut
<1>4. CASE UNCHANGED <<sent, nframes, net, ctl, nr, losses, playerVars>>
  <2>1. Commands'
    BY <1>4 DEF Traffic, Commands, playerVars
  <2> QED BY <1>3, <1>4, <2>1 DEF playerVars
<1>5. CASE Capture
  <2>1. nframes' = nframes + 1 /\ nframes \in Nat
        /\ UNCHANGED <<sent, net, ctl, nr, losses, playerVars>>
    BY <1>5 DEF Capture, Traffic, Tiling, Wire
  <2>2. Commands'
    BY <2>1 DEF Traffic, Commands, playerVars
  <2> QED BY <1>3, <2>1, <2>2 DEF playerVars
<1>6. CASE OnControlCommand
  <2>1. ctl' = Tail(ctl) /\ ctl # <<>>
        /\ UNCHANGED <<sent, nframes, net, nr, losses, playerVars>>
    BY <1>6 DEF OnControlCommand
  <2>2. Tail(ctl) \in Seq(Seq(Byte))
    <3> DEFINE B == Seq(Byte)
    <3>1. ctl \in Seq(B)
      BY DEF Traffic, Commands
    <3> HIDE DEF B
    <3>2. Tail(ctl) \in Seq(B)
      BY <2>1, <3>1, HeadTailProperties
    <3> QED BY <3>2 DEF B
  <2>3. Commands'
    BY <2>1, <2>2 DEF Traffic, Commands, playerVars
  <2> QED BY <1>3, <2>1, <2>3 DEF playerVars
<1>7. CASE RequestKeyframe
  <2>1. /\ nr < MaxRequests /\ nr' = (nr + 1) % 65536
        /\ ctl' \in {ctl, Append(ctl, KeyframeRequest)}
        /\ losses' = losses \/ (losses < MaxLosses /\ losses' = losses + 1)
        /\ UNCHANGED <<sent, nframes, net, playerVars>>
    BY <1>7 DEF RequestKeyframe, CommandSent, streamerVars
  <2>2. nr \in Nat /\ nr < 65536
    BY WebcamAssumption DEF Traffic, Commands
  <2>3. nr' \in 0 .. MaxRequests /\ nr' < 65536
    BY <2>1, <2>2, WebcamAssumption
  <2>4. losses' \in 0 .. MaxLosses
    BY <2>1, WebcamAssumption DEF Traffic, Commands
  <2>5. KeyframeRequest \in Seq(Byte)
    <3>1. nr \in U16
      BY <2>2 DEF U16
    <3>2. CommandByte(KeyFrameCommand, 0) \in Byte
      BY DEF CommandByte, KeyFrameCommand, Byte
    <3> QED BY <3>1, <3>2, TwoBytes DEF KeyframeRequest
  <2>6. ctl' \in Seq(Seq(Byte))
    <3> DEFINE B == Seq(Byte)
    <3>1. ctl \in Seq(B) /\ KeyframeRequest \in B
      BY <2>5 DEF Traffic, Commands
    <3> HIDE DEF B
    <3>2. ctl' \in Seq(B)
      BY <2>1, <3>1, AppendProperties
    <3> QED BY <3>2 DEF B
  <2>7. Commands'
    BY <2>1, <2>3, <2>4, <2>6 DEF Traffic, Commands, playerVars
  <2> QED BY <1>3, <2>1, <2>7 DEF playerVars
<1>8. CASE Drop \/ Collect \/ Write \/ Count \/ Partition \/ OnSignal
  BY <1>4, <1>8 DEF Drop, Collect, Write, Count, Partition, OnSignal
<1>9. CASE OnAddress \/ Crash \/ UNCHANGED webcamVars
  BY <1>4, <1>9 DEF OnAddress, Crash, streamerVars, webcamVars
<1> QED BY <1>2, <1>5, <1>6, <1>7, <1>8, <1>9 DEF WebcamNext, Streamer

(* WebcamTypeOK: the packets on the way, in the player's buffer and in     *)
(* that of the decoder are packets that were sent, and the commands are    *)
(* bytes.                                                                  *)
THEOREM WebcamTypes == WebcamSpec => []WebcamTypeOK
<1>1. Traffic /\ Recorded => WebcamTypeOK
  <2> SUFFICES ASSUME Traffic, Recorded PROVE WebcamTypeOK
    OBVIOUS
  <2>1. ASSUME NEW s \in Seq(Nat \ {0}), \A k \in DOMAIN s : s[k] \in DOMAIN sent
        PROVE  s \in Seq(DOMAIN sent)
    BY <2>1
  <2>2. sent \in Seq(WirePacket)
    BY DEF Traffic, Tiling, Wire
  <2>3. net \in Seq(DOMAIN sent)
    <3>1. \A k \in DOMAIN net : net[k] \in DOMAIN sent
      BY <2>2 DEF Traffic, Way
    <3> QED BY <2>1, <3>1 DEF Traffic, Way
  <2>4. data \in Seq(DOMAIN sent) /\ decoded \in Seq(DOMAIN sent)
    <3>1. /\ \A k \in DOMAIN data : data[k] \in DOMAIN sent
          /\ \A k \in DOMAIN decoded : decoded[k] \in DOMAIN sent
      BY DEF Traffic, Way, Buffered, Given
    <3> QED BY <2>1, <3>1 DEF Traffic, Buffered, Given
  <2>5. num_frames \in 0 .. MaxFrames /\ nframes \in 0 .. MaxFrames
    <3>1. PICK n \in Nat : n = Len(frames) /\ n <= nframes
      BY DEF Recorded, OnDisk
    <3>2. nframes \in Nat /\ nframes <= MaxFrames /\ MaxFrames \in Nat
      BY WebcamAssumption DEF Recorded, MadeSoFar
    <3> QED BY <3>1, <3>2 DEF Recorded, OnDisk
  <2> QED BY <2>3, <2>4, <2>5 DEF Traffic, Commands, Recorded, Recorder,
                                  Tiling, Wire, WebcamTypeOK
<1> QED BY <1>1, TrafficInit, TrafficStep, RecordedInit, RecordedStep, PTL DEF WebcamSpec

-----------------------------------------------------------------------------
(* What the rest of the player depends on: that the last packet of a frame *)
(* has a marker.  It has none when it is as long as a payload can be, so   *)
(* the theorems below are about encoders that do not make such a frame.    *)
LastNotFull == \A l \in Layouts : l[Len(l)] % PayloadSize # 0

(* What is left of the last partition never fills a payload exactly.       *)
Ending ==
  /\ LastNotFull
  /\ todo # <<>> => todo[Len(todo)] % PayloadSize # 0
  /\ ~Idle /\ ~fragment => vpx.frame_len % PayloadSize # 0
  /\ ~Idle /\ fragment => todo # <<>>

(* A frame that is over ended with a marker, and no frame is missing.      *)
Over ==
  /\ sent # <<>> /\ (FrameDone \/ frame_of[Len(sent)] # nframes)
       => LastSent.marker = 1
  /\ \A i \in 1 .. Len(sent) - 1 :
       frame_of[i] # frame_of[i + 1] => sent[i].marker = 1

InOrder ==
  /\ \A i, j \in DOMAIN frame_of : i <= j => frame_of[i] <= frame_of[j]
  /\ \A f \in 1 .. nframes :
       f < nframes \/ FrameDone => \E i \in DOMAIN frame_of : frame_of[i] = f

(* The id that the next packet gets.                                       *)
NextPictureId ==
  sent # <<>> /\ LastSent.picture_id # PictureIdMax =>
    (vpx.picture_id % (PictureIdMax + 1) = LastSent.picture_id
       <=> LastSent.marker = 0)

Cut == Traffic /\ Ending /\ Over /\ InOrder /\ NextPictureId /\ PictureIdPerFrame

(* Whole multiples of the divisor do not count in a remainder.             *)
LEMMA WholePartsGone ==
  ASSUME NEW q \in Int, NEW r \in Int, NEW n \in Nat \ {0}, r >= 0, r < n
  PROVE  (q * n + r) % n = r
BY SMT

(* A remainder stays what it is when a whole payload is taken away.        *)
LEMMA LessOne ==
  ASSUME NEW a \in Int, NEW n \in Nat \ {0}
  PROVE  (a - n) % n = a % n
<1>1. PICK q \in Int : q = a \div n
  BY SMT
<1>2. PICK r \in Int : r = a % n /\ r >= 0 /\ r < n
  BY SMT
<1>3. a = q * n + r
  BY <1>1, <1>2, SMT
<1>4. a - n = (q - 1) * n + r
  BY <1>3, SMT
<1>5. ((q - 1) * n + r) % n = r
  <2>1. q - 1 \in Int
    OBVIOUS
  <2> QED BY <1>2, <2>1, WholePartsGone
<1> QED BY <1>2, <1>4, <1>5, Zenon

(* Cut holds at the start.                                                 *)
LEMMA CutInit == LastNotFull /\ WebcamInit => Cut
<1> SUFFICES ASSUME LastNotFull, WebcamInit PROVE Cut
  OBVIOUS
<1>1. /\ sent = <<>> /\ todo = <<>> /\ frame_of = <<>> /\ nframes = 0
  BY DEF WebcamInit
<1>2. Idle
  BY SMT DEF WebcamInit, Init, Idle
<1>3. Ending /\ Over /\ InOrder /\ NextPictureId /\ PictureIdPerFrame
  BY <1>1, <1>2 DEF Ending, Over, InOrder, NextPictureId, PictureIdPerFrame
<1> QED BY <1>3, TrafficInit DEF Cut

(* A new frame.                                                            *)
LEMMA CutCapture == Cut /\ Capture => Cut'
<1> SUFFICES ASSUME Cut, Capture PROVE Cut'
  OBVIOUS
<1>1. Traffic'
  BY TrafficStep DEF Cut, WebcamNext, Streamer
<1>2. PICK layout \in Layouts : todo' = layout
  BY DEF Capture
<1>3. layout # <<>> /\ layout[Len(layout)] % PayloadSize # 0
  BY WebcamAssumption DEF Cut, Ending, LastNotFull
<1>4. /\ FrameDone /\ nframes' = nframes + 1 /\ nframes \in Nat
      /\ UNCHANGED <<vars, sent, frame_of>>
  BY DEF Capture, Cut, Traffic, Tiling, Wire
<1>5. Idle /\ Idle' /\ ~FrameDone'
  BY <1>2, <1>3, <1>4 DEF FrameDone, Idle, vars
<1>6. Ending'
  BY <1>2, <1>3, <1>5 DEF Cut, Ending
<1>7. Over'
  BY <1>4, <1>5 DEF Cut, Over, LastSent
<1>8. InOrder'
  BY <1>4, <1>5 DEF Cut, InOrder
<1>9. NextPictureId' /\ PictureIdPerFrame'
  BY <1>4 DEF Cut, NextPictureId, LastSent, PictureIdPerFrame, vars
<1> QED BY <1>1, <1>6, <1>7, <1>8, <1>9 DEF Cut

(* A new partition: the last one has no other behind it.                   *)
LEMMA CutPartition == Cut /\ Partition => Cut'
<1> SUFFICES ASSUME Cut, Partition PROVE Cut'
  OBVIOUS
<1>1. Traffic'
  BY TrafficStep DEF Cut, WebcamNext, Streamer
<1>2. /\ Idle /\ todo # <<>> /\ todo' = Tail(todo)
      /\ fragment' = IsFragment
      /\ UNCHANGED <<sent, frame_of, nframes>>
  BY DEF Partition, Wrap
<1>3. vpx'.frame_len = Head(todo) /\ vpx'.picture_id = vpx.picture_id
  <2>1. vpx \in Vpx
    BY DEF Cut, Traffic, Tiling, Wire
  <2> QED BY <2>1, VpxFields, SMT DEF Partition, Wrap
<1>4. todo \in Seq(Nat \ {0})
  BY DEF Cut, Traffic, Tiling, Wire
<1>5. PICK n \in Nat : Len(todo) = n + 1
  <2>1. Len(todo) \in Nat /\ Len(todo) # 0
    BY <1>2, <1>4, EmptySeq
  <2> QED BY <2>1, Successor, Zenon
<1>6. /\ Head(todo) = todo[1] /\ Head(todo) # 0
      /\ Len(Tail(todo)) = n /\ \A k \in 1 .. n : Tail(todo)[k] = todo[k + 1]
  BY <1>2, <1>4, <1>5, HeadTailProperties
<1>7. ~Idle' /\ ~FrameDone'
  BY <1>3, <1>6 DEF Idle, FrameDone
<1>8. fragment' <=> n # 0
  <2>1. IsFragment <=> n # 0
    BY <1>5, SMT DEF IsFragment
  <2> QED BY <1>2, <2>1, Zenon
<1>9. todo[n + 1] % PayloadSize # 0
  BY <1>2, <1>5 DEF Cut, Ending
<1>10. Ending'
  <2>1. todo' = <<>> <=> n = 0
    <3>1. todo' \in Seq(Nat \ {0}) /\ Len(todo') = n
      BY <1>2, <1>4, <1>6, HeadTailProperties
    <3> QED BY <3>1, EmptySeq
  <2>2. n # 0 => todo'[Len(todo')] % PayloadSize # 0
    BY <1>2, <1>6, <1>9
  <2>3. n = 0 => vpx'.frame_len % PayloadSize # 0
    BY <1>3, <1>6, <1>9
  <2> QED BY <1>8, <2>1, <2>2, <2>3 DEF Cut, Ending
<1>11. Over' /\ InOrder'
  BY <1>2, <1>7 DEF Cut, Over, InOrder, LastSent
<1>12. NextPictureId' /\ PictureIdPerFrame'
  BY <1>2, <1>3 DEF Cut, NextPictureId, LastSent, PictureIdPerFrame
<1> QED BY <1>1, <1>10, <1>11, <1>12 DEF Cut

(* The id of one packet and of the next.                                   *)
LEMMA IdMovesOn ==
  ASSUME NEW q \in PictureIds, NEW m \in {0, 1}
  PROVE  q % (PictureIdMax + 1) # PictureIdMax =>
           (((IF q = PictureIdMax THEN 0 ELSE q) + m) % (PictureIdMax + 1)
              = q % (PictureIdMax + 1) <=> m = 0)
<1>1. \A p \in -(PictureIdMax + 1) .. PictureIdMax :
        p % (PictureIdMax + 1) = IF p < 0 THEN p + PictureIdMax + 1 ELSE p
  BY PictureIdMaxAssumption, SMT
<1> QED BY <1>1, PictureIdMaxAssumption, SMT DEF PictureIds

(* A packet: the last one of a frame has room for a marker.                *)
LEMMA CutEmit == Cut /\ Emit => Cut'
<1> SUFFICES ASSUME Cut, Emit PROVE Cut'
  OBVIOUS
<1> DEFINE n == FrameSize
           p == CurrentPacket
           m == Marker
<1>1. Traffic'
  BY TrafficStep DEF Cut, WebcamNext, Streamer
<1>2. /\ ~Idle /\ sent' = Append(sent, p)
      /\ frame_of' = Append(frame_of, nframes)
      /\ UNCHANGED <<todo, nframes, fragment>>
  BY DEF Emit, EmitPacket
<1>3. vpx \in Vpx /\ p \in WirePacket
  BY CurrentPacketFits DEF Cut, Traffic, Tiling, Wire
<1>4. vpx.frame_len \in Nat \ {0} /\ vpx.picture_id \in PictureIds
  BY <1>2, <1>3, VpxFields, SMT DEF Idle
<1>5. /\ vpx'.frame_len = vpx.frame_len - n
      /\ vpx'.picture_id = NextId + m
  BY <1>3, VpxFields, SMT DEF Emit, EmitPacket
<1>6. /\ n \in Nat \ {0} /\ n <= vpx.frame_len
      /\ n = IF vpx.frame_len >= PayloadSize THEN PayloadSize ELSE vpx.frame_len
      /\ m = IF vpx.frame_len < PayloadSize /\ ~fragment THEN 1 ELSE 0
  BY <1>4, PayloadSizeAssumption, SMT DEF FrameSize, Marker
<1>7. /\ p.marker = m
      /\ p.picture_id = vpx.picture_id % (PictureIdMax + 1)
  BY SMT DEF CurrentPacket
<1> HIDE DEF n, p, m
<1>8. PICK l \in Nat : /\ l = Len(sent) /\ l = Len(frame_of)
                      /\ DOMAIN sent = 1 .. l /\ DOMAIN frame_of = 1 .. l
  BY DEF Cut, Traffic, Tiling, Wire, Frames
<1>9. /\ Len(sent') = l + 1 /\ sent'[l + 1] = p
      /\ \A i \in 1 .. l : sent'[i] = sent[i]
      /\ Len(frame_of') = l + 1 /\ frame_of'[l + 1] = nframes
      /\ DOMAIN frame_of' = 1 .. l + 1
      /\ \A i \in 1 .. l : frame_of'[i] = frame_of[i]
      /\ nframes \in Nat
  <2>1. sent \in Seq(WirePacket) /\ frame_of \in Seq(Nat) /\ nframes \in Nat
    BY DEF Cut, Traffic, Tiling, Wire, Frames
  <2> QED BY <1>2, <1>3, <1>8, <2>1, AppendProperties
<1>10. sent' # <<>> /\ LastSent' = p
  BY <1>9 DEF LastSent
<1>11. l > 0 => sent # <<>> /\ LastSent = sent[l]
  BY <1>8 DEF LastSent
<1>12. \A i \in 1 .. l : i \in 1 .. l - 1 \/ i = l
  OBVIOUS
<1>13. ~FrameDone
  BY <1>2 DEF FrameDone
<1>14. Ending'
  <2>1. ASSUME ~Idle', ~fragment PROVE vpx'.frame_len % PayloadSize # 0
    <3>1. vpx.frame_len % PayloadSize # 0
      BY <1>2, <2>1 DEF Cut, Ending
    <3>2. n = PayloadSize
      BY <1>4, <1>5, <1>6, <2>1 DEF Idle
    <3>3. (vpx.frame_len - PayloadSize) % PayloadSize = vpx.frame_len % PayloadSize
      <4>1. vpx.frame_len \in Int
        BY <1>4
      <4> QED BY <4>1, PayloadSizeAssumption, LessOne, Zenon
    <3> QED BY <1>5, <3>1, <3>2, <3>3
  <2> QED BY <1>2, <2>1 DEF Cut, Ending
<1>15. FrameDone' => p.marker = 1
  <2> SUFFICES ASSUME FrameDone' PROVE p.marker = 1
    OBVIOUS
  <2>1. ~fragment /\ n = vpx.frame_len
    BY <1>2, <1>4, <1>5, <1>6 DEF FrameDone, Idle, Cut, Ending
  <2>2. vpx.frame_len % PayloadSize # 0
    BY <1>2, <2>1 DEF Cut, Ending
  <2>3. PayloadSize % PayloadSize = 0
    BY PayloadSizeAssumption, SMT
  <2>4. vpx.frame_len < PayloadSize
    BY <1>4, <1>6, <2>1, <2>2, <2>3, PayloadSizeAssumption
  <2> QED BY <1>6, <1>7, <2>1, <2>4
<1>16. Over'
  <2>1. ASSUME NEW i \in 1 .. l, frame_of'[i] # frame_of'[i + 1]
        PROVE  sent'[i].marker = 1
    <3>1. CASE i \in 1 .. l - 1
      <4>1. i + 1 \in 1 .. l
        BY <3>1
      <4> QED BY <1>8, <1>9, <2>1, <3>1, <4>1 DEF Cut, Over
    <3>2. CASE i = l
      <4>1. frame_of[l] # nframes
        BY <1>9, <2>1, <3>2
      <4> QED BY <1>8, <1>9, <1>11, <3>2, <4>1 DEF Cut, Over
    <3> QED BY <1>12, <3>1, <3>2
  <2>2. 1 .. Len(sent') - 1 = 1 .. l
    BY <1>9
  <2> QED BY <1>2, <1>9, <1>10, <1>15, <2>1, <2>2 DEF Over
<1>17. InOrder'
  <2>1. ASSUME NEW i \in 1 .. l + 1, NEW j \in 1 .. l + 1, i <= j
        PROVE  frame_of'[i] <= frame_of'[j]
    <3>1. \A k \in 1 .. l : frame_of[k] \in Nat /\ frame_of[k] <= nframes
      BY <1>8 DEF Cut, Traffic, Tiling, Frames
    <3>2. CASE j \in 1 .. l
      <4>1. i \in 1 .. l
        BY <2>1, <3>2
      <4> QED BY <1>8, <1>9, <2>1, <3>2, <4>1 DEF Cut, InOrder
    <3>3. CASE j = l + 1
      <4>1. i \in 1 .. l \/ i = l + 1
        OBVIOUS
      <4> QED BY <1>9, <3>1, <3>3, <4>1
    <3>4. j \in 1 .. l \/ j = l + 1
      OBVIOUS
    <3> QED BY <3>2, <3>3, <3>4
  <2>2. ASSUME NEW f \in 1 .. nframes
        PROVE  \E i \in 1 .. l + 1 : frame_of'[i] = f
    <3>1. CASE f < nframes
      <4>1. PICK i \in 1 .. l : frame_of[i] = f
        BY <1>8, <3>1 DEF Cut, InOrder
      <4>2. i \in 1 .. l + 1
        OBVIOUS
      <4> QED BY <1>9, <4>1, <4>2
    <3>2. CASE f = nframes
      <4>1. l + 1 \in 1 .. l + 1
        OBVIOUS
      <4> QED BY <1>9, <3>2, <4>1
    <3>3. f < nframes \/ f = nframes
      BY <1>9
    <3> QED BY <3>1, <3>2, <3>3
  <2> QED BY <1>2, <1>9, <2>1, <2>2 DEF InOrder
<1>18. NextPictureId'
  <2>1. m \in {0, 1}
    BY <1>6
  <2>2. p.picture_id # PictureIdMax =>
          (vpx'.picture_id % (PictureIdMax + 1) = p.picture_id <=> m = 0)
    <3> DEFINE q == vpx.picture_id
    <3>1. vpx'.picture_id = (IF q = PictureIdMax THEN 0 ELSE q) + m
      BY <1>5 DEF NextId
    <3>2. q \in PictureIds /\ p.picture_id = q % (PictureIdMax + 1)
      BY <1>4, <1>7
    <3> HIDE DEF q
    <3>3. q % (PictureIdMax + 1) # PictureIdMax =>
            (((IF q = PictureIdMax THEN 0 ELSE q) + m) % (PictureIdMax + 1)
               = q % (PictureIdMax + 1) <=> m = 0)
      BY <2>1, <3>2, IdMovesOn
    <3> QED BY <3>1, <3>2, <3>3
  <2> QED BY <1>7, <1>10, <2>2 DEF NextPictureId
<1>19. PictureIdPerFrame'
  <2>1. ASSUME NEW i \in 1 .. l, sent'[i].picture_id # PictureIdMax
        PROVE  sent'[i].picture_id = sent'[i + 1].picture_id
                 <=> frame_of'[i] = frame_of'[i + 1]
    <3>1. CASE i \in 1 .. l - 1
      <4>1. i + 1 \in 1 .. l
        BY <3>1
      <4> QED BY <1>8, <1>9, <2>1, <3>1, <4>1 DEF Cut, PictureIdPerFrame
    <3>2. CASE i = l
      <4>1. sent # <<>> /\ LastSent = sent[l] /\ l \in DOMAIN sent
        BY <1>8, <1>11, <3>2
      <4>2. sent'[i] = LastSent /\ sent'[i + 1] = p
            /\ frame_of'[i] = frame_of[l] /\ frame_of'[i + 1] = nframes
        BY <1>9, <3>2, <4>1
      <4>3. vpx.picture_id % (PictureIdMax + 1) = LastSent.picture_id
              <=> LastSent.marker = 0
        BY <2>1, <4>1, <4>2 DEF Cut, NextPictureId
      <4>4. LastSent.marker \in {0, 1}
        <5>1. LastSent \in WirePacket
          BY <4>1 DEF Cut, Traffic, Tiling, Wire
        <5> QED BY <5>1 DEF WirePacket
      <4>5. LastSent.marker = 1 => frame_of[l] # nframes
        BY <1>8, <1>13, <4>1 DEF Cut, Traffic, Tiling, Behind
      <4>6. frame_of[l] # nframes => LastSent.marker = 1
        BY <1>8, <4>1 DEF Cut, Over
      <4> QED BY <1>7, <4>2, <4>3, <4>4, <4>5, <4>6
    <3> QED BY <1>12, <3>1, <3>2
  <2>2. 1 .. Len(sent') - 1 = 1 .. l
    BY <1>9
  <2> QED BY <2>1, <2>2 DEF PictureIdPerFrame
<1> QED BY <1>1, <1>14, <1>16, <1>17, <1>18, <1>19 DEF Cut

(* Every step keeps Cut.                                                   *)
LEMMA CutStep == Cut /\ [WebcamNext]_webcamVars => Cut'
<1> SUFFICES ASSUME Cut, [WebcamNext]_webcamVars PROVE Cut'
  OBVIOUS
<1>1. Traffic'
  BY TrafficStep DEF Cut
<1>2. CASE Capture \/ Partition \/ Emit
  BY <1>2, CutCapture, CutPartition, CutEmit
<1>3. CASE UNCHANGED <<vars, todo, nframes, sent, frame_of>>
  <2>1. Ending' /\ Over' /\ InOrder'
    BY <1>3 DEF Cut, Ending, Over, InOrder, FrameDone, Idle, LastSent, vars
  <2>2. NextPictureId' /\ PictureIdPerFrame'
    BY <1>3 DEF Cut, NextPictureId, PictureIdPerFrame, LastSent, vars
  <2> QED BY <1>1, <2>1, <2>2 DEF Cut
<1>4. CASE Drop \/ Collect \/ Write \/ Count
  BY <1>3, <1>4 DEF Drop, Collect, Write, Count
<1>5. CASE OnControlCommand \/ OnAddress \/ OnSignal \/ Crash
  BY <1>3, <1>5 DEF OnControlCommand, OnAddress, OnSignal, Crash, streamerVars
<1>6. CASE RequestKeyframe \/ Deliver \/ UNCHANGED webcamVars
  BY <1>3, <1>6 DEF RequestKeyframe, Deliver, streamerVars, webcamVars
<1> QED BY <1>2, <1>4, <1>5, <1>6 DEF WebcamNext, Streamer

(* A set of numbers up to n has a highest one.                             *)
LEMMA HasMax ==
  ASSUME NEW n \in Nat, NEW S, S \subseteq 1 .. n, S # {}
  PROVE  \E m \in S : \A x \in S : x <= m
<1> DEFINE T == {k \in Nat : \A x \in S : x <= k}
<1>1. n \in T /\ T \subseteq Nat
  OBVIOUS
<1>2. PICK m \in T : \A y \in T : ~ (<<y, m>> \in OpToRel(<, Nat))
  BY <1>1, NatLessThanWellFounded, WFMin
<1>3. \A k \in T : ~ (k < m)
  BY <1>1, <1>2 DEF OpToRel
<1>4. m \in Nat /\ \A x \in S : x <= m /\ x \in Nat /\ x >= 1
  <2>1. m \in Nat /\ \A x \in S : x <= m
    BY <1>2, Zenon
  <2>2. \A x \in 1 .. n : x \in Nat /\ x >= 1
    OBVIOUS
  <2> QED BY <2>1, <2>2, Zenon
<1>5. m \in S
  <2> SUFFICES ASSUME m \notin S PROVE FALSE
    OBVIOUS
  <2>1. \A x \in S : x <= m - 1
    BY <1>4
  <2>2. PICK x \in S : x >= 1
    BY <1>4
  <2>3. m - 1 \in Nat
    BY <1>4, <2>1, <2>2
  <2>4. m - 1 \in T
    BY <2>1, <2>3
  <2> QED BY <1>3, <1>4, <2>4
<1> QED BY <1>4, <1>5

(* The packets of a frame that is over: the last of them has its marker,   *)
(* and is in front of those of the frames behind it.                       *)
LEMMA LastOfFrame ==
  ASSUME Cut, NEW f \in 1 .. nframes, f < nframes \/ FrameDone
  PROVE  \E i \in DOMAIN sent :
           /\ i = Max(PacketsOf(f)) /\ frame_of[i] = f /\ sent[i].marker = 1
           /\ \A j \in DOMAIN sent : frame_of[j] <= f => j <= i
<1>1. PICK l \in Nat : /\ l = Len(sent) /\ l = Len(frame_of)
                      /\ DOMAIN sent = 1 .. l /\ DOMAIN frame_of = 1 .. l
                      /\ nframes \in Nat
                      /\ \A i \in 1 .. l : frame_of[i] \in Nat
  <2>1. /\ sent \in Seq(WirePacket) /\ frame_of \in Seq(Nat)
        /\ Len(frame_of) = Len(sent) /\ nframes \in Nat
    BY DEF Cut, Traffic, Tiling, Wire, Frames
  <2> QED BY <2>1
<1>2. PICK i0 \in 1 .. l : frame_of[i0] = f
  BY <1>1 DEF Cut, InOrder
<1>3. PacketsOf(f) = {i \in 1 .. l : frame_of[i] = f}
  BY <1>1 DEF PacketsOf
<1>4. PacketsOf(f) \subseteq 1 .. l /\ PacketsOf(f) # {}
  BY <1>2, <1>3
<1>5. PICK i \in PacketsOf(f) : \A j \in PacketsOf(f) : i >= j
  BY <1>4, HasMax
<1>6. i = Max(PacketsOf(f))
  <2>1. \A x \in PacketsOf(f) : (\A j \in PacketsOf(f) : x >= j) => x = i
    BY <1>4, <1>5
  <2> QED BY <1>5, <2>1 DEF Max
<1>7. i \in 1 .. l /\ frame_of[i] = f
  BY <1>3, <1>5
<1>8. \A j \in 1 .. l : frame_of[j] <= f => j <= i
  <2> SUFFICES ASSUME NEW j \in 1 .. l, frame_of[j] <= f, j > i
               PROVE  FALSE
    BY <1>7
  <2>1. frame_of[i] <= frame_of[j]
    <3>1. i <= j /\ i \in DOMAIN frame_of /\ j \in DOMAIN frame_of
      BY <1>1, <1>7
    <3> QED BY <3>1 DEF Cut, InOrder
  <2>2. frame_of[j] = f
    BY <1>1, <1>7, <2>1
  <2> QED BY <1>3, <1>5, <2>2
<1>9. sent[i].marker = 1
  <2>1. CASE i = l
    BY <1>1, <1>7, <2>1 DEF Cut, Over, LastSent
  <2>2. CASE i # l
    <3>1. i + 1 \in 1 .. l /\ i \in 1 .. l - 1
      BY <1>7, <2>2
    <3>2. frame_of[i + 1] # f
      BY <1>7, <1>8, <3>1
    <3> QED BY <1>1, <1>7, <3>1, <3>2 DEF Cut, Over
  <2> QED BY <2>1, <2>2
<1> QED BY <1>1, <1>6, <1>7, <1>8, <1>9

(* MarkerOnLast, for encoders of which no frame ends in a full payload:    *)
(* then the marker is where the header says it must be.  MCWebcamFull      *)
(* shows what happens with the others.                                     *)
THEOREM MarkerAlwaysOnLast == LastNotFull /\ WebcamSpec => []MarkerOnLast
<1>1. Cut => MarkerOnLast
  <2> SUFFICES ASSUME Cut, FrameDone, NEW f \in 1 .. nframes
               PROVE  sent[Max(PacketsOf(f))].marker = 1
    BY Zenon DEF MarkerOnLast
  <2>1. PICK i \in DOMAIN sent : i = Max(PacketsOf(f)) /\ sent[i].marker = 1
    BY LastOfFrame
  <2> QED BY <2>1, Zenon
<1> QED BY <1>1, CutInit, CutStep, PTL DEF WebcamSpec

(* PictureIdPerFrame, for the same encoders: from any start the ids tell   *)
(* the frames apart, but for the highest id, also after 32768 frames.      *)
THEOREM PictureIdsPerFrame == LastNotFull /\ WebcamSpec => []PictureIdPerFrame
<1>1. Cut => PictureIdPerFrame
  BY DEF Cut
<1> QED BY <1>1, CutInit, CutStep, PTL DEF WebcamSpec

(* GluedOnlyByLoss, for the same encoders: the player, which looks at the  *)
(* marker only, mixes two frames if and only if the marker of the first    *)
(* one got lost, whatever else did.                                        *)
THEOREM FramesGluedOnlyByLoss == LastNotFull /\ WebcamSpec => []GluedOnlyByLoss
<1>1. Cut => GluedOnlyByLoss
  <2> SUFFICES ASSUME Cut, NEW k \in 1 .. Len(decoded) - 1
               PROVE  /\ decoded[k] < decoded[k + 1]
                      /\ frame_of[decoded[k]] # frame_of[decoded[k + 1]] =>
                           Max(PacketsOf(frame_of[decoded[k]])) \notin arrived
    BY Zenon DEF GluedOnlyByLoss
  <2>1. /\ decoded \in Seq(Nat \ {0}) /\ Increasing(decoded) /\ Uncut(decoded)
        /\ \A j \in DOMAIN decoded : decoded[j] \in arrived
        /\ arrived \subseteq DOMAIN sent /\ sent \in Seq(WirePacket)
    BY DEF Cut, Traffic, Given, Way, Tiling, Wire
  <2>2. k \in DOMAIN decoded /\ k + 1 \in DOMAIN decoded /\ k < k + 1
    BY <2>1
  <2>3. PICK a \in DOMAIN sent, b \in DOMAIN sent :
          a = decoded[k] /\ b = decoded[k + 1] /\ a < b
    <3>1. decoded[k] < decoded[k + 1]
      BY <2>1, <2>2 DEF Increasing
    <3> QED BY <2>1, <2>2, <3>1
  <2>4. ASSUME frame_of[a] # frame_of[b]
        PROVE  Max(PacketsOf(frame_of[a])) \notin arrived
    <3>1. /\ frame_of[a] \in Nat /\ frame_of[b] \in Nat /\ nframes \in Nat
          /\ frame_of[a] <= frame_of[b] /\ frame_of[b] <= nframes
          /\ a \in DOMAIN frame_of /\ b \in DOMAIN frame_of
      <4>1. frame_of \in Seq(Nat) /\ Len(frame_of) = Len(sent)
        BY DEF Cut, Traffic, Tiling, Frames
      <4>2. a \in DOMAIN frame_of /\ b \in DOMAIN frame_of /\ a <= b
        BY <2>1, <2>3, <4>1
      <4>3. frame_of[a] <= frame_of[b] /\ frame_of[b] <= nframes /\ nframes \in Nat
        BY <4>2 DEF Cut, InOrder, Traffic, Tiling, Frames, Wire
      <4> QED BY <4>1, <4>2, <4>3
    <3>2. frame_of[a] \in 1 .. nframes /\ frame_of[a] < nframes
      <4>1. frame_of[a] # 0
        BY <3>1 DEF Cut, Traffic, Tiling, Frames
      <4> QED BY <2>4, <3>1, <4>1
    <3>3. PICK i \in DOMAIN sent :
            /\ i = Max(PacketsOf(frame_of[a])) /\ frame_of[i] = frame_of[a]
            /\ sent[i].marker = 1
            /\ \A j \in DOMAIN sent : frame_of[j] <= frame_of[a] => j <= i
      BY <3>2, LastOfFrame
    <3>4. a <= i
      BY <2>3, <3>1, <3>3
    <3>5. i < b
      <4> SUFFICES ASSUME b <= i PROVE FALSE
        BY <2>1, <2>3, <3>3
      <4>1. frame_of[b] <= frame_of[i]
        <5>1. i \in DOMAIN frame_of
          BY <3>3, <2>1 DEF Cut, Traffic, Tiling, Frames
        <5> QED BY <3>1, <5>1 DEF Cut, InOrder
      <4> QED BY <2>4, <3>1, <3>3, <4>1
    <3>6. i \notin arrived
      <4> SUFFICES ASSUME i \in arrived PROVE FALSE
        OBVIOUS
      <4>1. i < a \/ b <= i
        BY <2>1, <2>3, <3>3 DEF Uncut
      <4> QED BY <2>1, <2>3, <3>4, <3>5, <4>1
    <3> QED BY <3>3, <3>6
  <2> QED BY <2>3, <2>4
<1> QED BY <1>1, CutInit, CutStep, PTL DEF WebcamSpec

-----------------------------------------------------------------------------
(* The picture of the player.  What the key frames are, and that the       *)
(* player knows that it has seen one.                                      *)
Keys ==
  /\ ~Idle => vpx.nonref = IF made[nframes].key THEN 0 ELSE 1
  /\ \A i \in DOMAIN sent : sent[i].nonref = IF made[frame_of[i]].key THEN 0 ELSE 1
  /\ asked \subseteq 1 .. nframes
  /\ \A k \in 1 .. nframes : k \in asked => made[k].key
  /\ \A i \in arrived : made[frame_of[i]].key => had_key
  /\ picture # "none" => had_key

(* The frames in the order in which they were captured: none that was due  *)
(* to be a key frame is missing.                                           *)
Numbered ==
  /\ number \in Seq(Nat) /\ Len(number) = nframes
  /\ \A k \in 1 .. nframes : number[k] <= nframes + dropped
  /\ \A j, k \in 1 .. nframes : j < k => number[j] < number[k]
  /\ \A c \in 1 .. nframes + dropped :
       Due(c) => \E k \in 1 .. nframes : number[k] = c /\ made[k].key

(* No packet of frame f, or of one behind it, is lost so far.              *)
Unlost(f) ==
  \A i \in DOMAIN sent :
    frame_of[i] >= f => i \in arrived \/ \E k \in DOMAIN net : net[k] = i

(* The last frame that is complete when packet i has come.                 *)
Complete(i) == IF sent[i].marker = 1 THEN frame_of[i] ELSE frame_of[i] - 1

(* What the player has of the frames behind f when packet i has come: the  *)
(* packets of the frame that is not complete, nothing else, and a clean    *)
(* picture if one of the complete frames was a key frame.                  *)
Caught(f, i) ==
  /\ IF sent[i].marker = 1 THEN data = <<>>
     ELSE frame_of[i] > f => ToSet(data) = {j \in arrived : frame_of[j] = frame_of[i]}
  /\ \A k \in f + 1 .. Complete(i) :
       made[k].key => picture = "clean" /\ upto = Complete(i)

Catching ==
  \A f \in 1 .. nframes, i \in arrived :
    Unlost(f) /\ frame_of[i] >= f /\ (\A j \in arrived : j <= i) => Caught(f, i)

Recovery == Cut /\ Recorded /\ Keys /\ Numbered /\ Catching

(* Recovery holds at the start.                                            *)
LEMMA RecoveryInit == LastNotFull /\ WebcamInit => Recovery
<1> SUFFICES ASSUME LastNotFull, WebcamInit PROVE Recovery
  OBVIOUS
<1>1. /\ sent = <<>> /\ nframes = 0 /\ arrived = {} /\ picture = "none"
      /\ asked = {}
      /\ number = <<>> /\ dropped = 0
  BY DEF WebcamInit
<1>2. Idle
  BY SMT DEF WebcamInit, Init, Idle
<1>3. Keys /\ Catching
  BY <1>1, <1>2 DEF Keys, Catching
<1>4. Numbered
  BY <1>1 DEF Numbered
<1> QED BY <1>3, <1>4, CutInit, RecordedInit DEF Recovery

(* The frame of a packet is one of those that were made.                   *)
LEMMA FramesOfPackets ==
  ASSUME Cut
  PROVE  /\ nframes \in Nat /\ sent \in Seq(WirePacket)
         /\ DOMAIN frame_of = DOMAIN sent
         /\ \A i \in DOMAIN sent : frame_of[i] \in 1 .. nframes
         /\ arrived \subseteq DOMAIN sent
         /\ \A i \in DOMAIN sent : i \in Nat \ {0} /\ sent[i].marker \in {0, 1}
<1>1. /\ nframes \in Nat /\ sent \in Seq(WirePacket) /\ frame_of \in Seq(Nat)
      /\ Len(frame_of) = Len(sent) /\ arrived \subseteq DOMAIN sent
      /\ \A i \in DOMAIN frame_of : 0 < frame_of[i] /\ frame_of[i] <= nframes
  BY DEF Cut, Traffic, Tiling, Wire, Frames, Way
<1>2. \A i \in DOMAIN sent : sent[i] \in WirePacket
  BY <1>1
<1>3. \A i \in DOMAIN sent : sent[i].marker \in {0, 1}
  BY <1>2 DEF WirePacket
<1> QED BY <1>1, <1>3

(* A packet that gets through after all those in front of it that belong   *)
(* to frame f or a later one is the first of frame f or follows the last   *)
(* one that came.                                                          *)
LEMMA NextInOrder ==
  ASSUME Cut, net # <<>>, NEW f \in 1 .. nframes, Unlost(f),
         frame_of[Head(net)] > f
  PROVE  Head(net) - 1 \in arrived /\ frame_of[Head(net) - 1] >= f
<1> DEFINE i == Head(net)
<1>1. i \in DOMAIN sent
  BY NextOfWay DEF Cut, Traffic
<1>2. \A k \in DOMAIN net : net[k] >= i /\ i \in Nat
  <2>1. net \in Seq(Nat \ {0}) /\ Increasing(net)
    BY DEF Cut, Traffic, Way
  <2>2. i = net[1] /\ 1 \in DOMAIN net
    BY <2>1, EmptySeq
  <2>3. \A k \in DOMAIN net : k = 1 \/ 1 < k
    BY <2>1
  <2> QED BY <2>1, <2>2, <2>3 DEF Increasing
<1> HIDE DEF i
<1>3. \A j \in DOMAIN sent : frame_of[j] \in Nat /\ j \in Nat \ {0}
  BY FramesOfPackets
<1>4. \A j, k \in DOMAIN sent : j <= k => frame_of[j] <= frame_of[k]
  BY FramesOfPackets DEF Cut, InOrder
<1>5. PICK j \in DOMAIN sent : frame_of[j] = f
  <2>1. frame_of[i] \in 1 .. nframes /\ nframes \in Nat
    BY <1>1, FramesOfPackets
  <2>2. f < nframes
    BY <2>1 DEF i
  <2> QED BY <2>2, FramesOfPackets DEF Cut, InOrder
<1>6. j < i
  <2> SUFFICES ASSUME i <= j PROVE FALSE
    BY <1>1, <1>3
  <2>1. frame_of[i] <= frame_of[j]
    BY <1>1, <1>4
  <2> QED BY <1>1, <1>3, <1>5, <2>1 DEF i
<1>7. i - 1 \in DOMAIN sent /\ j <= i - 1
  BY <1>1, <1>3, <1>6, FramesOfPackets
<1>8. frame_of[i - 1] >= f
  BY <1>3, <1>4, <1>5, <1>7
<1>9. \A k \in DOMAIN net : net[k] # i - 1
  BY <1>2, <1>1, <1>3
<1> QED BY <1>7, <1>8, <1>9 DEF Unlost, i

(* Two packets in a row are of one frame, or the second one is the first   *)
(* of the next frame and the first one has a marker.                       *)
LEMMA TwoInARow ==
  ASSUME Cut, NEW i \in DOMAIN sent, i - 1 \in DOMAIN sent
  PROVE  IF sent[i - 1].marker = 1 THEN frame_of[i] = frame_of[i - 1] + 1
                                   ELSE frame_of[i] = frame_of[i - 1]
<1>1. /\ i - 1 \in 1 .. Len(sent) - 1 /\ (i - 1) + 1 = i
      /\ frame_of[i] \in 1 .. nframes /\ frame_of[i - 1] \in 1 .. nframes
      /\ nframes \in Nat
  BY FramesOfPackets
<1>2. \A j, k \in DOMAIN sent : j <= k => frame_of[j] <= frame_of[k]
  BY FramesOfPackets DEF Cut, InOrder
<1>3. sent[i - 1].marker = 1 <=> frame_of[i] # frame_of[i - 1]
  BY <1>1 DEF Cut, Over, Traffic, Tiling, MarkerEndsFrame
<1>4. frame_of[i] >= frame_of[i - 1]
  <2>1. i - 1 <= i
    BY FramesOfPackets
  <2> QED BY <1>1, <1>2, <2>1
<1>5. ~(frame_of[i] > frame_of[i - 1] + 1)
  <2> SUFFICES ASSUME frame_of[i] > frame_of[i - 1] + 1 PROVE FALSE
    OBVIOUS
  <2>1. frame_of[i - 1] + 1 \in 1 .. nframes /\ frame_of[i - 1] + 1 < nframes
    BY <1>1
  <2>2. PICK j \in DOMAIN sent : frame_of[j] = frame_of[i - 1] + 1
    BY <2>1, FramesOfPackets DEF Cut, InOrder
  <2>3. j <= i - 1 \/ i <= j
    BY FramesOfPackets
  <2>4. frame_of[j] <= frame_of[i - 1] \/ frame_of[i] <= frame_of[j]
    BY <1>2, <2>3
  <2> QED BY <1>1, <2>2, <2>4
<1> QED BY <1>1, <1>3, <1>4, <1>5

(* Capture keeps Keys.                                                     *)
LEMMA KeysCapture == Recovery /\ Capture => Keys'
<1> SUFFICES ASSUME Recovery, Capture PROVE Keys'
  OBVIOUS
<1> PICK layout \in Layouts :
      made' = Append(made, [partitions |-> layout, key |-> NextIsKey])
  BY DEF Capture
<1>1. /\ FrameDone /\ nframes' = nframes + 1
      /\ asked' = IF flags THEN asked \cup {nframes'} ELSE asked
      /\ UNCHANGED <<vars, sent, frame_of, had_key, picture, arrived>>
  BY DEF Capture, playerVars
<1>2. made \in Seq(Frame) /\ Len(made) = nframes /\ nframes \in Nat /\ flags \in BOOLEAN
  BY WebcamAssumption DEF Recovery, Recorded, MadeSoFar
<1> DEFINE key == NextIsKey
           frame == [partitions |-> layout, key |-> key]
<1>3. frame \in Frame
  <2>1. key \in BOOLEAN
    BY <1>2 DEF NextIsKey, Due
  <2>2. layout \in Seq(Nat \ {0})
    BY WebcamAssumption
  <2>3. layout \in Seq(Nat)
    BY <2>2, SeqMonotonic
  <2> QED BY <2>1, <2>3 DEF Frame
<1>4. /\ \A k \in 1 .. nframes : made'[k] = made[k]
      /\ made'[nframes + 1].key = key
  <2>1. made' = Append(made, frame) /\ frame.key = key
    OBVIOUS
  <2> HIDE DEF frame, key
  <2> QED BY <1>2, <1>3, <2>1, AppendProperties
<1>5. \A i \in DOMAIN sent : made'[frame_of[i]] = made[frame_of[i]]
  BY <1>4, FramesOfPackets DEF Recovery
<1>6. \A k \in 1 .. nframes' : k \in asked' => made'[k].key
  <2> SUFFICES ASSUME NEW k \in 1 .. nframes + 1, k \in asked'
               PROVE  made'[k].key
    BY <1>1
  <2>1. CASE k \in 1 .. nframes
    <3>1. k # nframes'
      BY <1>1, <1>2, <2>1
    <3>2. k \in asked
      BY <1>1, <3>1
    <3> QED BY <1>4, <2>1, <3>2 DEF Recovery, Keys
  <2>2. CASE k = nframes + 1
    <3>1. flags
      <4>1. nframes + 1 \notin asked
        BY <1>2 DEF Recovery, Keys
      <4> QED BY <1>1, <2>2, <4>1
    <3> QED BY <1>4, <2>2, <3>1 DEF NextIsKey
  <2> QED BY <1>2, <2>1, <2>2
<1>7. Idle'
  BY <1>1 DEF FrameDone, Idle, vars
<1>8. arrived \subseteq DOMAIN sent
  BY FramesOfPackets DEF Recovery
<1>9. asked' \subseteq 1 .. nframes'
  BY <1>1, <1>2 DEF Recovery, Keys
<1> QED BY <1>1, <1>5, <1>6, <1>7, <1>8, <1>9 DEF Recovery, Keys

(* Partition keeps Keys.                                                   *)
LEMMA KeysPartition == Recovery /\ Partition => Keys'
<1> SUFFICES ASSUME Recovery, Partition PROVE Keys'
  OBVIOUS
<1>1. /\ vpx' = [vpx EXCEPT !.frame_len = Head(todo), !.frame_dx = 0,
                   !.timestamp = ((nframes + dropped) * TicksPerPts) % NTimestamps,
                   !.nonref = IF made[nframes].key THEN 0 ELSE 1,
                   !.pstart = 1, !.marker = 0]
      /\ UNCHANGED <<nframes, sent, frame_of, made, asked, had_key, picture, arrived>>
  BY DEF Partition, Wrap, playerVars
<1>2. vpx'.nonref = IF made[nframes].key THEN 0 ELSE 1
  <2>1. vpx \in Vpx
    BY DEF Recovery, Cut, Traffic, Tiling, Wire
  <2> QED BY <1>1, <2>1, VpxFields, SMT
<1> QED BY <1>1, <1>2 DEF Recovery, Keys

(* Emit keeps Keys.                                                        *)
LEMMA KeysEmit == Recovery /\ Emit => Keys'
<1> SUFFICES ASSUME Recovery, Emit PROVE Keys'
  OBVIOUS
<1>1. /\ ~Idle /\ sent' = Append(sent, CurrentPacket)
      /\ frame_of' = Append(frame_of, nframes)
      /\ UNCHANGED <<nframes, made, asked, had_key, picture, arrived>>
  BY DEF Emit, EmitPacket, playerVars
<1>2. vpx \in Vpx /\ CurrentPacket \in WirePacket /\ CurrentPacket.nonref = vpx.nonref
  BY CurrentPacketFits DEF Recovery, Cut, Traffic, Tiling, Wire, CurrentPacket
<1>3. vpx'.nonref = vpx.nonref
  BY <1>2, VpxFields, SMT DEF Emit, EmitPacket
<1>4. PICK l \in Nat : /\ l = Len(sent) /\ l = Len(frame_of)
                      /\ DOMAIN sent = 1 .. l /\ arrived \subseteq 1 .. l
  <2>1. /\ sent \in Seq(WirePacket) /\ frame_of \in Seq(Nat)
        /\ Len(frame_of) = Len(sent) /\ arrived \subseteq DOMAIN sent
    BY DEF Recovery, Cut, Traffic, Tiling, Wire, Frames, Way
  <2> QED BY <2>1
<1>5. /\ DOMAIN sent' = 1 .. l + 1 /\ sent'[l + 1] = CurrentPacket
      /\ \A i \in 1 .. l : sent'[i] = sent[i]
      /\ frame_of'[l + 1] = nframes
      /\ \A i \in 1 .. l : frame_of'[i] = frame_of[i]
  <2>1. sent \in Seq(WirePacket) /\ frame_of \in Seq(Nat) /\ nframes \in Nat
    BY DEF Recovery, Cut, Traffic, Tiling, Wire, Frames
  <2> QED BY <1>1, <1>2, <1>4, <2>1, AppendProperties
<1>6. \A i \in 1 .. l + 1 : sent'[i].nonref = IF made[frame_of'[i]].key THEN 0 ELSE 1
  <2> SUFFICES ASSUME NEW i \in 1 .. l + 1
               PROVE  sent'[i].nonref = IF made[frame_of'[i]].key THEN 0 ELSE 1
    OBVIOUS
  <2>1. CASE i \in 1 .. l
    BY <1>4, <1>5, <2>1 DEF Recovery, Keys
  <2>2. CASE i = l + 1
    BY <1>1, <1>2, <1>5, <2>2 DEF Recovery, Keys
  <2> QED BY <2>1, <2>2
<1>7. vpx'.nonref = IF made[nframes].key THEN 0 ELSE 1
  BY <1>1, <1>3 DEF Recovery, Keys
<1>8. \A i \in arrived : frame_of'[i] = frame_of[i]
  BY <1>4, <1>5
<1> QED BY <1>1, <1>5, <1>6, <1>7, <1>8 DEF Recovery, Keys

(* Steps that leave the packets and the player alone.                      *)
LEMMA CatchingEmit == Recovery /\ Emit => Catching'
<1> SUFFICES ASSUME Recovery, Emit PROVE Catching'
  OBVIOUS
<1>1. /\ sent' = Append(sent, CurrentPacket)
      /\ frame_of' = Append(frame_of, nframes)
      /\ net' = net \/ net' = Append(net, Len(sent'))
      /\ UNCHANGED <<nframes, made, data, picture, upto, arrived>>
  BY DEF Emit, playerVars
<1>2. PICK l \in Nat : /\ l = Len(sent) /\ l = Len(frame_of)
                      /\ DOMAIN sent = 1 .. l /\ arrived \subseteq 1 .. l
  <2>1. /\ sent \in Seq(WirePacket) /\ frame_of \in Seq(Nat)
        /\ Len(frame_of) = Len(sent) /\ arrived \subseteq DOMAIN sent
    BY DEF Recovery, Cut, Traffic, Tiling, Wire, Frames, Way
  <2> QED BY <2>1
<1>3. /\ Len(sent') = l + 1 /\ DOMAIN sent' = 1 .. l + 1
      /\ \A i \in 1 .. l : sent'[i] = sent[i]
      /\ \A i \in 1 .. l : frame_of'[i] = frame_of[i]
  <2>1. sent \in Seq(WirePacket) /\ frame_of \in Seq(Nat) /\ nframes \in Nat
    BY DEF Recovery, Cut, Traffic, Tiling, Wire, Frames
  <2>2. CurrentPacket \in WirePacket
    BY CurrentPacketFits DEF Recovery, Cut, Traffic, Tiling, Wire
  <2> QED BY <1>1, <1>2, <2>1, <2>2, AppendProperties
<1>4. ASSUME NEW f \in 1 .. nframes, Unlost(f)' PROVE Unlost(f)
  <2> SUFFICES ASSUME NEW i \in 1 .. l, frame_of[i] >= f, i \notin arrived
               PROVE  \E k \in DOMAIN net : net[k] = i
    BY <1>2 DEF Unlost
  <2>1. i \in 1 .. l + 1 /\ i # l + 1
    OBVIOUS
  <2>2. PICK k \in DOMAIN net' : net'[k] = i
    BY <1>1, <1>3, <1>4, <2>1 DEF Unlost
  <2>3. CASE net' = net
    BY <2>2, <2>3
  <2>4. CASE net' = Append(net, l + 1)
    <3>1. net \in Seq(Nat \ {0})
      BY DEF Recovery, Cut, Traffic, Way
    <3>2. /\ DOMAIN net' = 1 .. Len(net) + 1 /\ DOMAIN net = 1 .. Len(net)
          /\ Len(net) \in Nat /\ net'[Len(net) + 1] = l + 1
          /\ \A j \in 1 .. Len(net) : net'[j] = net[j]
      BY <2>4, <3>1, AppendProperties
    <3>3. k \in 1 .. Len(net)
      BY <2>1, <2>2, <3>2
    <3> QED BY <2>2, <3>2, <3>3
  <2> QED BY <1>1, <1>3, <2>3, <2>4
<1>5. \A i \in arrived : sent'[i] = sent[i] /\ frame_of'[i] = frame_of[i]
  BY <1>2, <1>3
<1>6. ASSUME NEW f \in 1 .. nframes, NEW i \in arrived, Unlost(f)',
             frame_of[i] >= f, \A j \in arrived : j <= i
      PROVE  Caught(f, i)'
  <2>1. Caught(f, i)
    BY <1>4, <1>6 DEF Recovery, Catching
  <2>2. {j \in arrived' : frame_of'[j] = frame_of'[i]}
          = {j \in arrived : frame_of[j] = frame_of[i]}
    BY <1>1, <1>5
  <2>3. Complete(i)' = Complete(i)
    BY <1>5 DEF Complete
  <2> QED BY <1>1, <1>5, <2>1, <2>2, <2>3 DEF Caught
<1> QED BY <1>1, <1>5, <1>6 DEF Catching

(* Capture keeps Catching.                                                 *)
LEMMA CatchingCapture == Recovery /\ Capture => Catching'
<1> SUFFICES ASSUME Recovery, Capture PROVE Catching'
  OBVIOUS
<1>1. /\ nframes' = nframes + 1
      /\ UNCHANGED <<sent, frame_of, net, data, picture, upto, arrived>>
  BY DEF Capture, playerVars
<1>2. \A k \in 1 .. nframes : made'[k] = made[k]
  <2>1. made \in Seq(Frame) /\ Len(made) = nframes
    BY DEF Recovery, Recorded, MadeSoFar
  <2>2. Recorded'
    BY RecordedStep DEF Recovery, WebcamNext, Streamer
  <2>3. PICK x : made' = Append(made, x)
    BY DEF Capture
  <2>4. \A k \in 1 .. Len(made) : Append(made, x)[k] = made[k]
    BY <2>1
  <2> QED BY <2>1, <2>3, <2>4
<1>3. ASSUME NEW f \in 1 .. nframes + 1, NEW i \in arrived, Unlost(f)',
             frame_of[i] >= f, \A j \in arrived : j <= i
      PROVE  Caught(f, i)'
  <2>1. frame_of[i] \in 1 .. nframes /\ nframes \in Nat
    BY FramesOfPackets DEF Recovery
  <2>2. f \in 1 .. nframes
    BY <1>3, <2>1
  <2>3. Caught(f, i)
    <3>1. Unlost(f)
      BY <1>1, <1>3 DEF Unlost
    <3> QED BY <1>3, <2>2, <3>1 DEF Recovery, Catching
  <2>4. Complete(i)' = Complete(i) /\ Complete(i) <= nframes /\ Complete(i) \in Int
    BY <1>1, <2>1 DEF Complete
  <2>5. \A k \in f + 1 .. Complete(i) : made'[k] = made[k]
    BY <1>2, <2>1, <2>2, <2>4
  <2> QED BY <1>1, <2>3, <2>4, <2>5 DEF Caught
<1> QED BY <1>1, <1>3 DEF Catching

(* The player gets a payload that follows the last one it got: it has all  *)
(* packets of the frame so far, and decodes it when it is complete.        *)
LEMMA CatchingDeliver == Recovery /\ Deliver => Catching'
<1> SUFFICES ASSUME Recovery, Deliver PROVE Catching'
  OBVIOUS
<1>0. PICK i \in DOMAIN sent : i = Head(net)
  BY Zenon, NextOfWay DEF Deliver, Recovery, Cut, Traffic
<1>1. PICK dep \in Received(sent[i]) :
        LET s == IF dep.len > 0 THEN Append(data, i) ELSE data
        IN  /\ arrived' = arrived \cup {i}
            /\ had_key' = (had_key \/ dep.nonref = 0)
            /\ data' = Collected(s, dep.marker, had_key')
            /\ IF had_key' /\ dep.marker = 1
               THEN /\ decoded' = s
                    /\ picture' = IF Decodes(s) THEN "clean" ELSE "broken"
                    /\ upto' = frame_of[i]
               ELSE UNCHANGED <<decoded, picture, upto>>
  BY <1>0, Zenon DEF Deliver
<1>2. net # <<>> /\ net' = Tail(net)
      /\ UNCHANGED <<sent, frame_of, nframes, made>>
  BY Zenon DEF Deliver, streamerVars
<1>3. /\ i \in DOMAIN sent /\ \A j \in arrived : j < i
      /\ dep.len > 0 /\ dep.marker = sent[i].marker
      /\ dep.nonref = sent[i].nonref
  BY <1>0, <1>1, <1>2, NextOfWay DEF Recovery, Cut, Traffic
<1> DEFINE s == Append(data, i)
<1>4. /\ arrived' = arrived \cup {i}
      /\ had_key' = (had_key \/ sent[i].nonref = 0)
      /\ data' = IF sent[i].marker = 1 THEN <<>> ELSE s
      /\ sent[i].marker # 1 => picture' = picture /\ upto' = upto
      /\ had_key' /\ sent[i].marker = 1 =>
           /\ picture' = IF Decodes(s) THEN "clean" ELSE "broken"
           /\ upto' = frame_of[i]
  BY <1>1, <1>3, Zenon DEF Collected
<1> HIDE DEF s
<1>5. ASSUME NEW f \in 1 .. nframes, Unlost(f)' PROVE Unlost(f)
  <2>1. PICK n \in Nat : n = Len(net) /\ net \in Seq(Nat \ {0}) /\ DOMAIN net = 1 .. n
    BY DEF Recovery, Cut, Traffic, Way
  <2>2. /\ DOMAIN net' = 1 .. n - 1 /\ net[1] = i /\ 1 \in DOMAIN net
        /\ \A k \in 1 .. n - 1 : net'[k] = net[k + 1]
    <3>1. n # 0
      BY <1>2, <2>1, EmptySeq
    <3>2. net' \in Seq(Nat \ {0}) /\ Len(net') = n - 1 /\ net[1] = i
          /\ \A k \in 1 .. n - 1 : net'[k] = net[k + 1]
      BY <1>0, <1>2, <2>1, HeadTailProperties
    <3>3. 1 \in DOMAIN net
      BY <2>1, <3>1
    <3>4. DOMAIN net' = 1 .. n - 1
      BY <3>2
    <3> QED BY <3>2, <3>3, <3>4
  <2>3. \A k \in 1 .. n - 1 : k + 1 \in 1 .. n
    BY <2>1
  <2> SUFFICES ASSUME NEW j \in DOMAIN sent, frame_of[j] >= f, j \notin arrived, j # i
               PROVE  \E k \in DOMAIN net : net[k] = j
    BY <2>2 DEF Unlost
  <2>4. PICK k \in DOMAIN net' : net'[k] = j
    BY <1>2, <1>4, <1>5 DEF Unlost
  <2> QED BY <2>1, <2>2, <2>3, <2>4
<1>6. frame_of[i] \in 1 .. nframes /\ nframes \in Nat /\ sent[i].marker \in {0, 1}
  BY <1>3, FramesOfPackets DEF Recovery
<1>7. Complete(i)' = Complete(i) /\ frame_of'[i] = frame_of[i] /\ sent'[i] = sent[i]
  BY <1>2 DEF Complete
<1>8. ASSUME NEW f \in 1 .. nframes, Unlost(f), frame_of[i] > f
      PROVE  Caught(f, i)'
  <2> DEFINE p == i - 1
             g == frame_of[i]
  <2>1. p \in arrived /\ frame_of[p] >= f /\ p \in DOMAIN sent
    BY <1>0, <1>2, <1>8, NextInOrder, FramesOfPackets DEF Recovery
  <2>2. \A j \in arrived : j <= p
    BY <1>3, FramesOfPackets DEF Recovery
  <2>3. Caught(f, p)
    BY <1>8, <2>1, <2>2 DEF Recovery, Catching
  <2>4. IF sent[p].marker = 1 THEN g = frame_of[p] + 1 ELSE g = frame_of[p]
    BY <1>3, <2>1, TwoInARow DEF Recovery
  <2>5. Complete(p) = g - 1 /\ frame_of[p] \in 1 .. nframes
    BY <1>6, <2>1, <2>4, FramesOfPackets DEF Complete, Recovery
  <2>6. data \in Seq(Nat \ {0}) /\ i \in Nat \ {0}
    BY <1>3, FramesOfPackets DEF Recovery, Cut, Traffic, Buffered
  <2> HIDE DEF p, g
  <2>7. ToSet(s) = ToSet(data) \cup {i} /\ s[Len(s)] = i
    <3>1. /\ Len(s) = Len(data) + 1 /\ Len(data) \in Nat /\ s[Len(data) + 1] = i
          /\ DOMAIN s = 1 .. Len(data) + 1 /\ DOMAIN data = 1 .. Len(data)
          /\ \A k \in 1 .. Len(data) : s[k] = data[k]
      BY <2>6, AppendProperties DEF s
    <3>2. \A k \in 1 .. Len(data) + 1 : k \in 1 .. Len(data) \/ k = Len(data) + 1
      BY <3>1
    <3>3. 1 .. Len(data) \subseteq 1 .. Len(data) + 1 /\ Len(data) + 1 \in 1 .. Len(data) + 1
      BY <3>1
    <3> QED BY <3>1, <3>2, <3>3 DEF ToSet
  <2>8. ToSet(s) = {j \in arrived' : frame_of[j] = g}
    <3>1. ToSet(data) = {j \in arrived : frame_of[j] = g}
      <4>1. CASE sent[p].marker = 1
        <5>1. data = <<>>
          BY <2>3, <4>1 DEF Caught
        <5>2. ToSet(data) = {}
          BY <5>1 DEF ToSet
        <5>3. \A j \in arrived : frame_of[j] <= frame_of[p]
          BY <2>1, <2>2, FramesOfPackets DEF Recovery, Cut, InOrder
        <5>4. \A j \in arrived : frame_of[j] # g
          BY <2>4, <2>5, <4>1, <5>3
        <5> QED BY <5>2, <5>4
      <4>2. CASE sent[p].marker # 1
        BY <1>8, <2>3, <2>4, <4>2 DEF Caught, g
      <4> QED BY <4>1, <4>2
    <3> QED BY <1>4, <2>7, <3>1 DEF g
  <2>9. \A k \in f + 1 .. g - 1 : made[k].key => picture = "clean" /\ upto = g - 1
    BY <2>3, <2>5 DEF Caught
  <2>10. CASE sent[i].marker # 1
    <3>1. Complete(i) = g - 1 /\ data' = s /\ picture' = picture /\ upto' = upto
      BY <1>4, <2>10 DEF Complete, g
    <3> QED BY <1>2, <1>7, <2>8, <2>9, <2>10, <3>1 DEF Caught, g
  <2>11. CASE sent[i].marker = 1
    <3>1. Complete(i) = g /\ data' = <<>>
      BY <1>4, <2>11 DEF Complete, g
    <3>2. PacketsOf(g) = {j \in arrived' : frame_of[j] = g}
      <4>1. \A j \in arrived' : j \in DOMAIN sent
        BY <1>3, <1>4, FramesOfPackets DEF Recovery
      <4>2. ASSUME NEW j \in DOMAIN sent, frame_of[j] = g PROVE j \in arrived'
        <5>1. \A k \in DOMAIN net : net[k] >= i
          <6>1. net \in Seq(Nat \ {0}) /\ Increasing(net)
            BY DEF Recovery, Cut, Traffic, Way
          <6>2. i = net[1] /\ 1 \in DOMAIN net
            BY <1>0, <1>2, <6>1, EmptySeq
          <6>3. \A k \in DOMAIN net : k = 1 \/ 1 < k
            BY <6>1
          <6> QED BY <2>6, <6>1, <6>2, <6>3 DEF Increasing
        <5>2. j <= i
          <6> SUFFICES ASSUME j > i PROVE FALSE
            BY <1>3, FramesOfPackets DEF Recovery
          <6>1. i + 1 \in DOMAIN sent /\ i \in 1 .. Len(sent) - 1 /\ i + 1 <= j
            BY <1>3, FramesOfPackets DEF Recovery
          <6>2. frame_of[i + 1] # g
            BY <2>11, <6>1 DEF Recovery, Cut, Traffic, Tiling, MarkerEndsFrame, g
          <6>3. frame_of[i] <= frame_of[i + 1] /\ frame_of[i + 1] <= frame_of[j]
            <7>1. \A x, y \in DOMAIN sent : x <= y => frame_of[x] <= frame_of[y]
              BY FramesOfPackets DEF Recovery, Cut, InOrder
            <7>2. /\ i \in DOMAIN sent /\ i + 1 \in DOMAIN sent
                  /\ j \in DOMAIN sent /\ i <= i + 1 /\ i + 1 <= j
              BY <1>3, <6>1, FramesOfPackets DEF Recovery
            <7> QED BY <7>1, <7>2
          <6>4. frame_of[i + 1] \in Nat /\ g \in Nat /\ frame_of[i] = g
            BY <1>6, <6>1, FramesOfPackets DEF Recovery, g
          <6> QED BY <4>2, <6>2, <6>3, <6>4
        <5>3. j \in arrived \/ \E k \in DOMAIN net : net[k] = j
          BY <1>6, <1>8, <4>2 DEF Unlost, g
        <5>4. j \in arrived \/ j = i
          BY <2>6, <5>1, <5>2, <5>3, FramesOfPackets DEF Recovery
        <5> QED BY <1>4, <5>4
      <4> QED BY <4>1, <4>2 DEF PacketsOf
    <3>3. ASSUME NEW k \in f + 1 .. g, made[k].key
          PROVE  picture' = "clean" /\ upto' = g
      <4>1. k \in f + 1 .. g - 1 \/ k = g
        BY <1>6 DEF g
      <4>2. had_key'
        <5>1. CASE k = g
          BY <1>3, <1>4, <3>3, <5>1 DEF Recovery, Keys, g
        <5>2. CASE k \in f + 1 .. g - 1
          BY <1>4, <2>9, <3>3, <5>2 DEF Recovery, Keys
        <5> QED BY <4>1, <5>1, <5>2
      <4>3. Decodes(s)
        <5>1. made[g].key \/ (picture = "clean" /\ upto = g - 1)
          BY <2>9, <3>3, <4>1
        <5> QED BY <2>7, <2>8, <3>2, <5>1 DEF Decodes, g
      <4> QED BY <1>4, <2>11, <4>2, <4>3 DEF g
    <3> QED BY <1>2, <1>7, <2>11, <3>1, <3>3 DEF Caught
  <2> QED BY <2>10, <2>11
<1>9. ASSUME NEW f \in 1 .. nframes, frame_of[i] = f
      PROVE  Caught(f, i)'
  <2>1. f + 1 .. Complete(i) = {}
    BY <1>6, <1>9 DEF Complete
  <2>2. sent[i].marker = 1 => data' = <<>>
    BY <1>4
  <2> QED BY <1>6, <1>7, <1>9, <2>1, <2>2 DEF Caught
<1>10. ASSUME NEW f \in 1 .. nframes, NEW j \in arrived \cup {i}, Unlost(f)',
              frame_of[j] >= f, \A k \in arrived \cup {i} : k <= j
       PROVE  Caught(f, j)'
  <2>1. j = i
    <3>1. i \in Nat /\ \A k \in arrived : k \in Nat
      BY FramesOfPackets DEF Recovery
    <3>2. i <= j
      BY <1>10
    <3> QED BY <1>3, <3>1, <3>2
  <2>2. frame_of[i] > f \/ frame_of[i] = f
    BY <1>6, <1>10, <2>1
  <2>3. Caught(f, i)'
    BY <1>5, <1>8, <1>9, <1>10, <2>2
  <2> QED BY <2>1, <2>3
<1> QED BY <1>2, <1>4, <1>10 DEF Catching

(* A captured frame is the next one, whether it is encoded or dropped.     *)
LEMMA NumberedStep ==
  Recovery /\ [WebcamNext]_webcamVars => Numbered'
<1> SUFFICES ASSUME Recovery, [WebcamNext]_webcamVars PROVE Numbered'
  OBVIOUS
<1>1. /\ nframes \in Nat /\ dropped \in Nat
      /\ made \in Seq(Frame) /\ Len(made) = nframes
      /\ number \in Seq(Nat) /\ Len(number) = nframes
  BY WebcamAssumption DEF Recovery, Recorded, MadeSoFar, Numbered, Wire
<1>2. CASE Capture
  <2>1. PICK x : made' = Append(made, x) /\ x.key = NextIsKey
    BY <1>2 DEF Capture
  <2>2. /\ nframes' = nframes + 1 /\ dropped' = dropped
        /\ number' = Append(number, nframes + dropped + 1)
    BY <1>2 DEF Capture, NextNumber
  <2>3. /\ number' \in Seq(Nat) /\ Len(number') = nframes + 1
        /\ number'[nframes + 1] = nframes + dropped + 1
        /\ \A k \in 1 .. nframes : number'[k] = number[k] /\ number[k] \in Nat
    BY <1>1, <2>2, AppendProperties
  <2>4. /\ \A k \in 1 .. nframes : made'[k] = made[k]
        /\ made'[nframes + 1] = x
    <3>1. \A k \in 1 .. Len(made) : Append(made, x)[k] = made[k]
      BY <1>1
    <3>2. Append(made, x)[Len(made) + 1] = x
      BY <1>1
    <3> QED BY <1>1, <2>1, <3>1, <3>2
  <2>5. \A k \in 1 .. nframes' : number'[k] <= nframes' + dropped'
    BY <1>1, <2>2, <2>3 DEF Recovery, Numbered
  <2>6. ASSUME NEW j \in 1 .. nframes', NEW k \in 1 .. nframes', j < k
        PROVE  number'[j] < number'[k]
    <3>1. j \in 1 .. nframes /\ number'[j] = number[j] /\ number[j] \in Nat
          /\ number[j] <= nframes + dropped
      BY <1>1, <2>2, <2>3, <2>6 DEF Recovery, Numbered
    <3>2. CASE k = nframes + 1
      BY <1>1, <2>3, <3>1, <3>2
    <3>3. CASE k # nframes + 1
      <4>1. k \in 1 .. nframes /\ number'[k] = number[k]
        BY <1>1, <2>2, <2>3, <3>3
      <4> QED BY <2>6, <3>1, <4>1 DEF Recovery, Numbered
    <3> QED BY <3>2, <3>3
  <2>7. ASSUME NEW c \in 1 .. nframes' + dropped', Due(c)
        PROVE  \E k \in 1 .. nframes' : number'[k] = c /\ made'[k].key
    <3>1. CASE c = nframes + dropped + 1
      <4>1. made'[nframes + 1].key
        BY <2>1, <2>4, <2>7, <3>1 DEF NextIsKey, NextNumber
      <4> QED BY <1>1, <2>2, <2>3, <3>1, <4>1
    <3>2. CASE c # nframes + dropped + 1
      <4>1. c \in 1 .. nframes + dropped
        BY <1>1, <2>2, <3>2
      <4>2. PICK k \in 1 .. nframes : number[k] = c /\ made[k].key
        BY <2>7, <4>1 DEF Recovery, Numbered
      <4>3. k \in 1 .. nframes' /\ number'[k] = c /\ made'[k].key
        BY <1>1, <2>2, <2>3, <2>4, <4>2
      <4> QED BY <4>3
    <3> QED BY <3>1, <3>2
  <2>8. number' \in Seq(Nat) /\ Len(number') = nframes'
    BY <2>2, <2>3
  <2> QED BY <2>5, <2>6, <2>7, <2>8 DEF Numbered
<1>3. CASE Drop
  <2>1. /\ dropped' = dropped + 1 /\ ~Due(nframes + dropped + 1)
        /\ UNCHANGED <<nframes, number, made>>
    BY <1>3 DEF Drop, NextIsKey, NextNumber
  <2>2. \A c \in 1 .. nframes + dropped + 1 :
          c = nframes + dropped + 1 \/ c \in 1 .. nframes + dropped
    BY <1>1
  <2>3. ASSUME NEW c \in 1 .. nframes' + dropped', Due(c)
        PROVE  \E k \in 1 .. nframes' : number'[k] = c /\ made'[k].key
    <3>1. nframes' + dropped' = nframes + dropped + 1
      BY <1>1, <2>1
    <3>2. c \in 1 .. nframes + dropped
      BY <2>1, <2>2, <2>3, <3>1
    <3> QED BY <2>1, <2>3, <3>2 DEF Recovery, Numbered
  <2>4. \A k \in 1 .. nframes : number[k] <= nframes + dropped + 1
    <3>1. \A k \in 1 .. nframes : number[k] \in Nat
      BY <1>1
    <3> QED BY <1>1, <3>1 DEF Recovery, Numbered
  <2>5. \A k \in 1 .. nframes' : number'[k] <= nframes' + dropped'
    BY <1>1, <2>1, <2>4
  <2> QED BY <2>1, <2>3, <2>5 DEF Recovery, Numbered
<1>4. CASE UNCHANGED <<nframes, dropped, made, number>>
  BY <1>4 DEF Recovery, Numbered
<1>5. CASE Collect \/ Write \/ Count \/ Partition \/ Emit \/ OnControlCommand
  BY <1>4, <1>5 DEF Collect, Write, Count, Partition, Emit, OnControlCommand
<1>6. CASE OnAddress \/ OnSignal \/ Crash \/ RequestKeyframe \/ Deliver
  BY <1>4, <1>6 DEF OnAddress, OnSignal, Crash, RequestKeyframe, Deliver, streamerVars
<1>7. CASE UNCHANGED webcamVars
  BY <1>4, <1>7 DEF webcamVars, streamerVars
<1> QED BY <1>2, <1>3, <1>5, <1>6, <1>7 DEF WebcamNext, Streamer

(* Every step keeps Recovery.                                              *)
LEMMA RecoveryStep == Recovery /\ [WebcamNext]_webcamVars => Recovery'
<1> SUFFICES ASSUME Recovery, [WebcamNext]_webcamVars PROVE Recovery'
  OBVIOUS
<1>1. Cut' /\ Recorded' /\ Numbered'
  BY CutStep, RecordedStep, NumberedStep DEF Recovery
<1>2. CASE Capture
  BY <1>1, <1>2, KeysCapture, CatchingCapture DEF Recovery
<1>3. CASE Partition
  <2>1. UNCHANGED <<sent, frame_of, nframes, made, net, data, picture, upto, arrived>>
    BY <1>3 DEF Partition, playerVars
  <2>2. Catching'
    BY <2>1 DEF Recovery, Catching, Unlost, Caught, Complete
  <2> QED BY <1>1, <1>3, <2>2, KeysPartition DEF Recovery
<1>4. CASE Emit
  BY <1>1, <1>4, KeysEmit, CatchingEmit DEF Recovery
<1>5. CASE Deliver
  <2>1. PICK dep \in Received(sent[Head(net)]) :
          /\ arrived' = arrived \cup {Head(net)}
          /\ had_key' = (had_key \/ dep.nonref = 0)
          /\ had_key' \/ picture' = picture
    BY <1>5, Zenon DEF Deliver
  <2>2. /\ net # <<>>
        /\ UNCHANGED <<vpx, nframes, sent, frame_of, made, asked>>
    BY <1>5, Zenon DEF Deliver, streamerVars, vars
  <2>3. PICK i \in DOMAIN sent : i = Head(net) /\ dep.nonref = sent[i].nonref
    BY <2>1, <2>2, NextOfWay DEF Recovery, Cut, Traffic
  <2>4. Keys'
    <3>1. made[frame_of[i]].key => had_key'
      BY <2>1, <2>3 DEF Recovery, Keys
    <3>2. \A j \in arrived' : made[frame_of[j]].key => had_key'
      BY <2>1, <2>3, <3>1 DEF Recovery, Keys
    <3>3. picture' # "none" => had_key'
      BY <2>1 DEF Recovery, Keys
    <3> QED BY <2>2, <3>2, <3>3 DEF Recovery, Keys, Idle
  <2> QED BY <1>1, <1>5, <2>4, CatchingDeliver DEF Recovery
<1>6. CASE UNCHANGED <<vars, nframes, sent, frame_of, made, asked, net, playerVars>>
  <2>1. Keys'
    BY <1>6 DEF Recovery, Keys, Idle, vars, playerVars
  <2>2. Catching'
    BY <1>6 DEF Recovery, Catching, Unlost, Caught, Complete, playerVars
  <2> QED BY <1>1, <2>1, <2>2 DEF Recovery
<1>7. CASE Drop \/ Collect \/ Write \/ Count
  BY <1>6, <1>7 DEF Drop, Collect, Write, Count
<1>8. CASE OnControlCommand \/ OnAddress \/ OnSignal \/ Crash
  BY <1>6, <1>8 DEF OnControlCommand, OnAddress, OnSignal, Crash, streamerVars
<1>9. CASE RequestKeyframe \/ UNCHANGED webcamVars
  BY <1>6, <1>9 DEF RequestKeyframe, streamerVars, webcamVars
<1> QED BY <1>2, <1>3, <1>4, <1>5, <1>7, <1>8, <1>9 DEF WebcamNext, Streamer

(* One of n numbers in a row is a multiple of n.                           *)
LEMMA MultipleNear ==
  ASSUME NEW f \in Nat, NEW n \in Nat \ {0}
  PROVE  \E k \in f + 1 .. f + n : k % n = 0
<1>1. f % n \in 0 .. n - 1
  BY Remainder
<1>2. (f + n - (f % n)) % n = 0
  BY SMT
<1>3. f + n - (f % n) \in f + 1 .. f + n
  BY <1>1
<1> QED BY <1>2, <1>3

(* PictureRecovers, for the same encoders and any distance of key frames:  *)
(* whatever was lost and whatever the player has of earlier frames, the    *)
(* picture is clean when it has got what was sent of KeyEvery + 1 captured *)
(* frames in a row, or of those from the one before a request was          *)
(* answered.                                                               *)
THEOREM PictureAlwaysRecovers == LastNotFull /\ WebcamSpec => []PictureRecovers
<1>1. Recovery => PictureRecovers
  <2> SUFFICES ASSUME Recovery, NEW f \in 1 .. nframes - 1,
                      FrameDone, net = <<>>,
                      \A i \in DOMAIN sent : frame_of[i] >= f => i \in arrived,
                      number[nframes] >= number[f] + KeyEvery \/ asked \cap f + 1 .. nframes # {}
               PROVE  picture = "clean"
    BY Zenon DEF PictureRecovers
  <2>1. nframes \in Nat /\ f \in 1 .. nframes
    BY FramesOfPackets DEF Recovery
  <2>2. PICK l \in DOMAIN sent : frame_of[l] = nframes /\ l = Len(sent)
    <3>1. PICK i \in DOMAIN sent : frame_of[i] = nframes
      BY <2>1, FramesOfPackets DEF Recovery, Cut, InOrder
    <3>2. Len(sent) \in DOMAIN sent /\ i <= Len(sent)
      BY <3>1, FramesOfPackets DEF Recovery
    <3>3. frame_of[Len(sent)] \in 1 .. nframes /\ frame_of[i] <= frame_of[Len(sent)]
      BY <3>2, FramesOfPackets DEF Recovery, Cut, InOrder
    <3> QED BY <2>1, <3>1, <3>2, <3>3
  <2>3. sent[l].marker = 1
    BY <2>2, EmptySeq DEF Recovery, Cut, Over, LastSent
  <2>4. l \in arrived /\ \A j \in arrived : j <= l
    BY <2>1, <2>2, FramesOfPackets DEF Recovery
  <2>5. Unlost(f)
    BY DEF Unlost
  <2>6. Caught(f, l)
    BY <2>1, <2>2, <2>4, <2>5 DEF Recovery, Catching
  <2>7. Complete(l) = nframes
    BY <2>2, <2>3 DEF Complete
  <2>8. PICK k \in f + 1 .. nframes : made[k].key
    <3>1. CASE number[nframes] >= number[f] + KeyEvery
      <4>1. /\ f \in Nat /\ KeyEvery \in Nat \ {0} /\ nframes \in 1 .. nframes
            /\ \A j \in 1 .. nframes : number[j] \in Nat
            /\ dropped \in Nat /\ number[nframes] <= nframes + dropped
        BY <2>1, WebcamAssumption DEF Recovery, Recorded, Wire, Numbered
      <4>2. PICK c \in number[f] + 1 .. number[f] + KeyEvery : c % KeyEvery = 0
        <5>1. number[f] \in Nat
          BY <2>1, <4>1
        <5> QED BY <4>1, <5>1, MultipleNear, Zenon
      <4>3. c \in 1 .. nframes + dropped
        BY <2>1, <3>1, <4>1, <4>2
      <4>4. PICK j \in 1 .. nframes : number[j] = c /\ made[j].key
        BY <4>2, <4>3 DEF Recovery, Numbered, Due
      <4>5. number[j] > number[f]
        BY <2>1, <4>1, <4>2, <4>4
      <4>6. ~(j < f) /\ j # f
        BY <2>1, <4>1, <4>4, <4>5 DEF Recovery, Numbered
      <4>7. j \in f + 1 .. nframes
        BY <2>1, <4>4, <4>6
      <4> QED BY <4>4, <4>7
    <3>2. CASE asked \cap f + 1 .. nframes # {}
      <4>1. PICK j \in f + 1 .. nframes : j \in asked
        BY <3>2
      <4>2. j \in 1 .. nframes
        BY <2>1, <4>1
      <4> QED BY <4>1, <4>2 DEF Recovery, Keys
    <3> QED BY <3>1, <3>2
  <2> QED BY <2>6, <2>7, <2>8 DEF Caught
<1> QED BY <1>1, RecoveryInit, RecoveryStep, PTL DEF WebcamSpec
=============================================================================
