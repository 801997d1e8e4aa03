---------------------------- MODULE JitterProofs ----------------------------
(***************************************************************************)
(* Proofs about Jitter: every step of the jitter buffer is a step of       *)
(* Reconstruct, so what ReconstructProofs shows of Reconstruct holds when  *)
(* the jitter buffer is the one that calls it.                             *)
(***************************************************************************)
EXTENDS Jitter, ReconstructProofs

(* What playback relies on: once there is a timeout there is a slot to     *)
(* play, and the clock has not left its bound.                             *)
PlayInv ==
  /\ curr_pkt \in Slots \cup {NoSlot}
  /\ timeout # 0 => curr_pkt \in Slots
  /\ npackets \in 0 .. Half
  /\ timeout \in 0 .. TimeMod - 1
  /\ timestamp_start \in Nat
  /\ elapsed \in 0 .. MaxElapsed
  /\ exited \in BOOLEAN

JInv == TypeOK /\ RingInv /\ PlayInv

(* A timestamp read from a slot is one that Reconstruct may be asked for.  *)
LEMMA SlotTimes ==
  ASSUME RingInv, NEW i \in Slots
  PROVE  packets[i].timestamp \in Timestamps
<1>1. CASE packets[i] \in Garbage
  BY <1>1 DEF Timestamps
<1>2. CASE packets[i] \in added
  <2>1. PICK p \in Inputs : packets[i] = Stored(p)
    BY <1>2 DEF RingInv
  <2>2. packets[i].timestamp = ToNs(p.timestamp)
    BY <2>1, InputsAssumption DEF Stored, Packet
  <2> QED
    BY <2>2 DEF Timestamps
<1> QED
  BY <1>1, <1>2 DEF RingInv, Filled

LEMMA SlotTimeType ==
  ASSUME TypeOK, NEW i \in Slots
  PROVE  packets[i].timestamp \in Nat
<1>1. packets[i] \in Slot
  BY DEF TypeOK
<1> QED
  BY <1>1 DEF Slot, Packet, UninitSlot

(* Playing a slot leaves the playback state in order: the next slot, if    *)
(* there is one, is a slot of the ring.                                    *)
LEMMA PlayFromKeeps ==
  ASSUME TypeOK, PlayInv, NEW i \in Slots, NEW start \in Nat,
         PlayFrom(i, start)
  PROVE  /\ curr_pkt' \in Slots \cup {NoSlot}
         /\ timeout' # 0 => curr_pkt' \in Slots
         /\ timeout' \in 0 .. TimeMod - 1
         /\ exited' \in BOOLEAN
         /\ timestamp_start' = start
         /\ npackets' = npackets
<1>1. CASE /\ NextPacket(i) = {}
           /\ exited' = TRUE
           /\ UNCHANGED <<timeout, curr_pkt>>
  BY <1>1 DEF PlayInv, PlayFrom
<1>2. ASSUME NEW j \in NextPacket(i),
             timeout' = (packets[j].timestamp - start) % TimeMod,
             curr_pkt' = j, UNCHANGED exited
      PROVE  /\ curr_pkt' \in Slots
             /\ timeout' \in 0 .. TimeMod - 1
             /\ exited' \in BOOLEAN
  <2>1. j \in Slots
    BY DEF NextPacket
  <2>2. packets[j].timestamp \in Nat
    BY <2>1, SlotTimeType
  <2>3. TimeMod \in Nat /\ TimeMod > 0
    BY TimeModAssumption, MaxElapsedAssumption
  <2>4. timeout' \in 0 .. TimeMod - 1
    BY <1>2, <2>2, <2>3
  <2> QED
    BY <1>2, <2>1, <2>4 DEF PlayInv
<1> QED
  BY <1>1, <1>2 DEF PlayFrom

LEMMA HalfType == Half \in Nat
BY NPacketsAssumption DEF Half

LEMMA AddKeepsPlay ==
  ASSUME PlayInv, NEW p, JitterAdd(p)
  PROVE  PlayInv'
<1>1. npackets' \in 0 .. Half
  BY HalfType DEF JitterAdd, PlayInv
<1> QED
  BY <1>1 DEF JitterAdd, PlayInv, playVars, Half

LEMMA TickKeepsPlay == PlayInv /\ Tick => PlayInv'
<1> SUFFICES ASSUME PlayInv, Tick PROVE PlayInv'
  OBVIOUS
<1>1. elapsed' \in 0 .. MaxElapsed
  BY MaxElapsedAssumption DEF Tick, PlayInv
<1> QED
  BY <1>1 DEF Tick, PlayInv, Half

(* A call of rxs_jitter_update that does something merges the timestamp of *)
(* a slot.                                                                 *)
LEMMA UpdateKeepsPlay ==
  ASSUME TypeOK, PlayInv, Update
  PROVE  /\ PlayInv'
         /\ \E i \in Slots : Merge(packets[i].timestamp)
<1>1. CASE UpdateStart
  <2>1. 0 \in Slots /\ 0 \in 0 .. MaxElapsed
    BY NPacketsAssumption, MaxElapsedAssumption DEF Slots
  <2>2. packets[0].timestamp \in Nat
    BY <2>1, SlotTimeType
  <2>3. PlayFrom(0, packets[0].timestamp) /\ elapsed' = 0
    BY <1>1 DEF UpdateStart
  <2>4. PlayInv'
    BY <2>1, <2>2, <2>3, PlayFromKeeps DEF PlayInv, Half
  <2> QED
    BY <2>1, <2>3, <2>4 DEF PlayFrom
<1>2. CASE UpdatePlay
  <2>1. curr_pkt \in Slots /\ timestamp_start \in Nat
    BY <1>2 DEF UpdatePlay, PlayInv
  <2>2. PlayFrom(curr_pkt, timestamp_start) /\ UNCHANGED elapsed
    BY <1>2 DEF UpdatePlay
  <2>3. PlayInv'
    BY <2>1, <2>2, PlayFromKeeps DEF PlayInv, Half
  <2> QED
    BY <2>1, <2>2, <2>3 DEF PlayFrom
<1> QED
  BY <1>1, <1>2 DEF Update

(* A step of the jitter buffer is a step of Reconstruct or none that       *)
(* Reconstruct sees, and keeps the playback state in order.                *)
LEMMA JitterStep ==
  ASSUME JInv, [JitterNext]_jvars
  PROVE  [Next]_vars /\ PlayInv'
<1>1. ASSUME NEW p \in Inputs, JitterAdd(p) PROVE Next /\ PlayInv'
  <2>1. Next
    BY <1>1 DEF JitterAdd, Alive, Next
  <2> QED
    BY <1>1, <2>1, AddKeepsPlay DEF JInv
<1>2. ASSUME NEW p \in Inputs, JitterRefuse(p) PROVE Next /\ PlayInv'
  <2>1. Next
    BY <1>2 DEF JitterRefuse, Alive, Next
  <2> QED
    BY <1>2, <2>1 DEF JitterRefuse, JInv, PlayInv, jitterVars, playVars, Half
<1>3. CASE Tick
  BY <1>3, TickKeepsPlay DEF Tick, JInv
<1>4. CASE Update
  <2>1. Alive
    BY <1>4 DEF Update, UpdateStart, UpdatePlay
  <2>2. PICK i \in Slots : Merge(packets[i].timestamp)
    BY <1>4, UpdateKeepsPlay DEF JInv
  <2>3. Next
    BY <2>1, <2>2, SlotTimes DEF JInv, Alive, Next
  <2> QED
    BY <1>4, <2>3, UpdateKeepsPlay DEF JInv
<1>5. CASE UNCHANGED jvars
  BY <1>5 DEF jvars, jitterVars, playVars, JInv, PlayInv, Half
<1> QED
  BY <1>1, <1>2, <1>3, <1>4, <1>5 DEF JitterNext

LEMMA JitterInitInv == JitterInit => TypeOK /\ Filled /\ PlayInv
<1> SUFFICES ASSUME JitterInit PROVE TypeOK /\ Filled /\ PlayInv
  OBVIOUS
<1>1. TypeOK /\ Filled
  <2>1. packets \in [Slots -> Slot]
    BY GarbageAssumption DEF JitterInit, Init, Slot
  <2>2. 0 \in Slots /\ 0 \in Seqnums
    BY NPacketsAssumption, NSeqnumsAssumption DEF Slots, Seqnums
  <2>3. lately \in [Slots -> SUBSET Packet]
    BY DEF JitterInit, Init
  <2> QED
    BY <2>1, <2>2, <2>3 DEF JitterInit, Init, TypeOK, Filled
<1>2. PlayInv
  <2>1. MaxElapsed \in Nat /\ TimeMod \in Nat /\ TimeMod > 0
    BY MaxElapsedAssumption, TimeModAssumption
  <2>2. /\ npackets = 0 /\ timeout = 0 /\ timestamp_start = 0
        /\ elapsed = 0 /\ curr_pkt = NoSlot /\ exited = FALSE
    BY DEF JitterInit
  <2>3. 0 \in 0 .. Half /\ 0 \in 0 .. TimeMod - 1 /\ 0 \in 0 .. MaxElapsed
    BY <2>1, HalfType
  <2>4. FALSE \in BOOLEAN /\ NoSlot \in Slots \cup {NoSlot} /\ 0 \in Nat
    OBVIOUS
  <2> QED
    BY <2>2, <2>3, <2>4, Zenon DEF PlayInv
<1> QED
  BY <1>1, <1>2

LEMMA JInvInvariant == JitterSpec => []JInv
<1>1. JitterInit => JInv
  BY JitterInitInv DEF JInv, RingInv, JitterInit, Init
<1>2. JInv /\ [JitterNext]_jvars => JInv'
  BY JitterStep, TypeStep, RingStep DEF JInv
<1> QED
  BY <1>1, <1>2, PTL DEF JitterSpec

(* The jitter buffer implements Reconstruct: it only ever makes the calls  *)
(* that Reconstruct describes, and never merges a timestamp that is not    *)
(* one of a packet or of a slot.                                           *)
THEOREM JitterImplementsReconstruct == JitterSpec => Spec
<1>1. JitterInit => Init
  BY DEF JitterInit
<1>2. JInv /\ [JitterNext]_jvars => [Next]_vars
  BY JitterStep
<1> QED
  BY <1>1, <1>2, JInvInvariant, PTL DEF JitterSpec, Spec

(* The playback state keeps its type: curr_pkt is a slot whenever a        *)
(* timeout is running, and a difference below zero ends up below TimeMod.  *)
THEOREM JitterTypeCorrect == JitterSpec => []JitterTypeOK
<1>1. JInv => JitterTypeOK
  BY DEF JInv, PlayInv, JitterTypeOK
<1> QED
  BY <1>1, JInvInvariant, PTL

(* Below the jitter buffer, too, nothing is lost in silence but for what   *)
(* follows a first packet numbered 0, nothing is reported twice, and       *)
(* frames are made of the packets of one timestamp that have come lately.  *)
THEOREM JitterKeepsThePromises ==
  JitterSpec => /\ []GapsAccounted
                /\ ReportsAreNew
                /\ []FrameOfArrivals
BY JitterImplementsReconstruct, NoSilentLoss, NoReportTwice, FramesAreClean, PTL
=============================================================================
