------------------------- MODULE ReconstructProofs -------------------------
(***************************************************************************)
(* Proofs about Reconstruct, for rings, sequence numbers and inputs of any *)
(* size.                                                                   *)
(***************************************************************************)
EXTENDS Reconstruct, FiniteSetTheorems, TLAPS

(* The arrangements that qsort may produce are sequences of slots.         *)
LEMMA SortedType ==
  ASSUME NEW ps, NEW t, NEW q \in SortedBySeqnum(ps, FindTimestamp(ps, t))
  PROVE  /\ q \in Seq(Slots)
         /\ \A k \in DOMAIN q : ps[q[k]].timestamp = t
         /\ \A j, k \in DOMAIN q :
              j < k => ps[q[j]].seqnum <= ps[q[k]].seqnum
<1> DEFINE S == FindTimestamp(ps, t)
<1>1. S \subseteq Slots /\ \A i \in S : ps[i].timestamp = t
  BY DEF FindTimestamp
<1>2. IsFiniteSet(Slots)
  BY FS_Interval, NPacketsAssumption DEF Slots
<1>3. Cardinality(S) \in Nat
  BY <1>1, <1>2, FS_Subset, FS_CardinalityType
<1>4. /\ q \in [1 .. Cardinality(S) -> S]
      /\ \A i, j \in 1 .. Cardinality(S) :
           i < j => ps[q[i]].seqnum <= ps[q[j]].seqnum
  BY DEF SortedBySeqnum
<1> HIDE DEF S
<1>5. q \in Seq(S) /\ DOMAIN q = 1 .. Cardinality(S)
  BY <1>3, <1>4
<1>6. q \in Seq(Slots)
  BY <1>1, <1>5
<1> QED
  BY <1>1, <1>4, <1>5, <1>6

(* The four outcomes of a merge, seen from outside: no frame, or a frame   *)
(* read from slots of one timestamp.                                       *)
LEMMA MergeOutcome ==
  ASSUME TypeOK, NEW t, MergePackets(t)
  PROVE  /\ checked_seqnum' \in Seqnums
         /\ found_keyframe' \in BOOLEAN
         /\ found_keyframe => found_keyframe'
         /\ \/ frame' = <<>> /\ found_keyframe' = found_keyframe
            \/ \E q \in Seq(Slots) :
                 /\ q # <<>>
                 /\ q \in SortedBySeqnum(packets, FindTimestamp(packets, t))
                 /\ packets[q[Len(q)]].marker = 1
                 /\ HasKey(q)
                 /\ found_keyframe' = TRUE
                 /\ frame' = [k \in 1 .. Len(q) |-> packets[q[k]]]
<1>1. ASSUME NEW q \in SortedBySeqnum(packets, FindTimestamp(packets, t)),
             q # <<>>
      PROVE  /\ q \in Seq(Slots)
             /\ packets[q[Len(q)]].seqnum \in Seqnums
  <2>1. q \in Seq(Slots)
    BY SortedType
  <2>2. q[Len(q)] \in Slots
    BY <2>1, <1>1
  <2>3. packets[q[Len(q)]] \in Slot
    BY <2>2 DEF TypeOK
  <2> QED
    BY <2>1, <2>3 DEF Slot, Packet, UninitSlot
<1>2. CASE MergeNothing(t)
  BY <1>2 DEF MergeNothing, mergeVars, TypeOK
<1>3. CASE MergeIncomplete(t)
  BY <1>1, <1>3 DEF MergeIncomplete, CheckOrder, TypeOK, Found
<1>4. CASE MergeNoKey(t)
  BY <1>1, <1>4 DEF MergeNoKey, CheckOrder, TypeOK, Found
<1>5. CASE MergeFrame(t)
  <2>1. PICK q \in SortedBySeqnum(packets, FindTimestamp(packets, t)) :
          /\ q # <<>>
          /\ IsFrameComplete(q)
          /\ HasKey(q)
          /\ CheckOrder(q)
          /\ found_keyframe' = TRUE
          /\ frame' = [k \in 1 .. Len(q) |-> packets[q[k]]]
    BY <1>5 DEF MergeFrame, Found
  <2>2. q \in Seq(Slots) /\ checked_seqnum' \in Seqnums
    BY <1>1, <2>1 DEF CheckOrder
  <2> QED
    BY <2>1, <2>2 DEF IsFrameComplete
<1> QED
  BY <1>2, <1>3, <1>4, <1>5 DEF MergePackets

-----------------------------------------------------------------------------
(* Type correctness *)

LEMMA StoredType ==
  ASSUME NEW p \in Packet
  PROVE  Stored(p) \in Packet
BY NsPerTickAssumption DEF Stored, Packet, ToNs

LEMMA CheckSeqnumType ==
  ASSUME TypeOK, NEW s \in Seqnums, CheckSeqnum(s)
  PROVE  /\ prev_seqnum' \in Seqnums
         /\ overrun' \in BOOLEAN
         /\ missing' \subseteq Seqnums
         /\ received' \subseteq Seqnums
         /\ reported' \subseteq Seqnums
         /\ first_seqnum' \in Seqnums
         /\ first_nonzero' \in Seqnums
<1>1. Skipped(s) \subseteq Seqnums
  BY NSeqnumsAssumption DEF TypeOK, Skipped, Seqnums
<1> QED
  BY <1>1 DEF TypeOK, CheckSeqnum, FirstOnes

LEMMA NextDxType == dx \in Slots => NextDx(dx) \in Slots
BY NPacketsAssumption DEF NextDx, Slots

LEMMA RememberType ==
  ASSUME TypeOK, NEW S \in SUBSET Packet
  PROVE  Remember(S) \in [Slots -> SUBSET Packet]
<1>1. \A j \in Slots : j # 0 => j - 1 \in Slots
  BY NPacketsAssumption DEF Slots
<1> QED
  BY <1>1 DEF TypeOK, Remember

(* Whatever packet comes, it is stored in a slot and its number is in the  *)
(* books.                                                                  *)
LEMMA ReceiveType ==
  ASSUME TypeOK, NEW p \in Packet, Receive(p)
  PROVE  TypeOK'
<1>1. Stored(p) \in Packet /\ p.seqnum \in Seqnums
  BY StoredType DEF Packet
<1>2. packets' \in [Slots -> Slot] /\ dx' \in Slots /\ added' \subseteq Packet
  BY <1>1, NextDxType DEF Receive, AddPacket, TypeOK, Slot
<1>3. lately' \in [Slots -> SUBSET Packet]
  BY <1>1, RememberType DEF Receive, AddPacket
<1>4. CheckSeqnum(p.seqnum)
  BY DEF Receive
<1>5. frame' \in Seq(Slot) /\ UNCHANGED mergeVars
  BY DEF Receive
<1> QED
  BY <1>1, <1>2, <1>3, <1>4, <1>5, CheckSeqnumType DEF TypeOK, mergeVars

LEMMA MergeType ==
  ASSUME TypeOK, NEW t, Merge(t)
  PROVE  TypeOK'
<1>1. MergePackets(t) /\ missing' = {} /\ UNCHANGED <<ringVars, seqVars>>
  BY DEF Merge
<1>2. frame' \in Seq(Slot)
  <2>1. CASE frame' = <<>>
    BY <2>1
  <2>2. ASSUME NEW q \in Seq(Slots),
               frame' = [k \in 1 .. Len(q) |-> packets[q[k]]]
        PROVE  frame' \in Seq(Slot)
    BY <2>2 DEF TypeOK
  <2> QED
    BY <1>1, <2>1, <2>2, MergeOutcome
<1> QED
  BY <1>1, <1>2, MergeOutcome DEF TypeOK, ringVars, seqVars

(* A call keeps the types.                                                 *)
LEMMA TypeStep == TypeOK /\ [Next]_vars => TypeOK'
<1> SUFFICES ASSUME TypeOK, [Next]_vars PROVE TypeOK'
  OBVIOUS
<1>1. ASSUME NEW p \in Inputs, Receive(p) PROVE TypeOK'
  BY <1>1, ReceiveType, InputsAssumption
<1>2. ASSUME NEW p \in Inputs, Refuse(p) PROVE TypeOK'
  BY <1>2, NextDxType, RememberType
     DEF Refuse, RejectPacket, TypeOK, seqVars, mergeVars
<1>3. ASSUME NEW t \in Timestamps, Merge(t) PROVE TypeOK'
  BY <1>3, MergeType
<1>4. CASE UNCHANGED vars
  BY <1>4 DEF vars, ringVars, seqVars, mergeVars, TypeOK
<1> QED
  BY <1>1, <1>2, <1>3, <1>4 DEF Next

(* Every variable keeps its type: a corrupt slot, index or number cannot   *)
(* come out of any sequence of the three calls.                            *)
THEOREM TypeCorrect == Spec => []TypeOK
<1>1. Init => TypeOK
  <2> SUFFICES ASSUME Init PROVE TypeOK
    OBVIOUS
  <2>1. packets \in [Slots -> Slot]
    BY GarbageAssumption DEF Init, Slot
  <2>2. 0 \in Slots /\ 0 \in Seqnums
    BY NPacketsAssumption, NSeqnumsAssumption DEF Slots, Seqnums
  <2>3. lately \in [Slots -> SUBSET Packet]
    BY DEF Init
  <2> QED
    BY <2>1, <2>2, <2>3 DEF Init, TypeOK
<1> QED
  BY <1>1, TypeStep, PTL DEF Spec

-----------------------------------------------------------------------------
(* Sequence numbers *)

SeqInv == HighestSoFar /\ GapsAccounted

(* One call of rxs_reconstruct_check_seqnum keeps the books, whatever      *)
(* number it is given.                                                     *)
LEMMA CheckSeqnumKeepsBooks ==
  ASSUME TypeOK, SeqInv, NEW s \in Seqnums, CheckSeqnum(s)
  PROVE  SeqInv'
<1>1. /\ prev_seqnum \in Nat /\ first_seqnum \in Nat /\ first_nonzero \in Nat
      /\ s \in Nat /\ received \subseteq Nat /\ reported \subseteq Nat
  BY NSeqnumsAssumption DEF TypeOK, Seqnums
<1>2. \A n \in Skipped(s) : n \in Nat /\ n > prev_seqnum /\ n < s
  BY <1>1 DEF Skipped
<1>3. /\ prev_seqnum' \in Nat /\ prev_seqnum' >= s /\ prev_seqnum' >= prev_seqnum
      /\ prev_seqnum' = s \/ prev_seqnum' = prev_seqnum
      /\ received' = received \cup {s}
  BY <1>1 DEF CheckSeqnum
<1>4. /\ first_seqnum' = IF received = {} THEN s ELSE first_seqnum
      /\ first_nonzero' = IF prev_seqnum = 0 THEN s ELSE first_nonzero
  BY DEF CheckSeqnum, FirstOnes
<1>5. \A n \in received : n <= prev_seqnum
  BY DEF SeqInv, HighestSoFar
<1>6. HighestSoFar'
  <2>1. \A n \in received' \cup reported' : n <= prev_seqnum'
    BY <1>1, <1>2, <1>3 DEF CheckSeqnum, SeqInv, HighestSoFar
  <2>2. prev_seqnum' # 0 => {prev_seqnum', first_nonzero'} \subseteq received'
    <3>1. CASE prev_seqnum = 0
      BY <1>1, <1>3, <1>4, <3>1 DEF CheckSeqnum
    <3>2. CASE prev_seqnum # 0
      BY <1>3, <1>4, <3>2 DEF SeqInv, HighestSoFar
    <3> QED
      BY <3>1, <3>2
  <2>3. first_seqnum' <= prev_seqnum'
    BY <1>1, <1>3, <1>4 DEF SeqInv, HighestSoFar
  <2>4. first_seqnum' # 0 => first_nonzero' = first_seqnum'
    <3>1. CASE received = {}
      <4>1. prev_seqnum = 0
        BY <3>1 DEF SeqInv, HighestSoFar
      <4> QED
        BY <1>4, <3>1, <4>1
    <3>2. CASE received # {}
      BY <1>1, <1>4, <3>2 DEF SeqInv, HighestSoFar
    <3> QED
      BY <3>1, <3>2
  <2> QED
    BY <2>1, <2>2, <2>3, <2>4 DEF HighestSoFar
<1>7. GapsAccounted'
  <2> SUFFICES ASSUME NEW n \in first_seqnum' + 1 .. prev_seqnum'
               PROVE  n \in received' \cup reported' \/ Unwatched(n)'
    BY DEF GapsAccounted
  <2>1. n \in Nat /\ n > first_seqnum' /\ n <= prev_seqnum'
    BY <1>1, <1>3, <1>4
  <2>2. CASE prev_seqnum = 0
    <3>1. prev_seqnum' = s /\ first_nonzero' = s
      BY <1>1, <1>4, <2>2 DEF CheckSeqnum
    <3>2. CASE received = {}
      BY <1>1, <1>4, <2>1, <3>1, <3>2
    <3>3. CASE received # {}
      BY <1>1, <1>3, <1>4, <2>1, <2>2, <3>1, <3>3
         DEF Unwatched, SeqInv, HighestSoFar
    <3> QED
      BY <3>2, <3>3
  <2>3. CASE prev_seqnum # 0
    <3>1. received # {}
      BY <2>3 DEF SeqInv, HighestSoFar
    <3>2. UNCHANGED <<first_seqnum, first_nonzero>>
      BY <1>4, <2>3, <3>1
    <3>3. CASE n <= prev_seqnum
      BY <1>1, <1>3, <2>1, <3>2, <3>3
         DEF CheckSeqnum, SeqInv, GapsAccounted, Unwatched
    <3>4. CASE n > prev_seqnum
      BY <1>1, <1>3, <2>1, <2>3, <3>4 DEF CheckSeqnum, Skipped
    <3> QED
      BY <1>1, <2>1, <3>3, <3>4
  <2> QED
    BY <2>2, <2>3
<1> QED
  BY <1>6, <1>7 DEF SeqInv

(* One call names no number in its report that has arrived or was reported *)
(* before: what is skipped lies above prev_seqnum, all that is known below.*)
LEMMA CheckSeqnumReportsNew ==
  ASSUME TypeOK, SeqInv, NEW s \in Seqnums, CheckSeqnum(s)
  PROVE  missing' \cap (received \cup reported) = {}
<1>1. /\ prev_seqnum \in Nat /\ s \in Nat
      /\ received \subseteq Nat /\ reported \subseteq Nat
  BY NSeqnumsAssumption DEF TypeOK, Seqnums
<1>2. missing' = Skipped(s)
  BY DEF CheckSeqnum
<1>3. \A n \in Skipped(s) : n \in Nat /\ n > prev_seqnum
  BY <1>1 DEF Skipped
<1> QED
  BY <1>1, <1>2, <1>3 DEF SeqInv, HighestSoFar

LEMMA SeqInvInvariant == Spec => []SeqInv
<1>1. Init => SeqInv
  BY DEF Init, SeqInv, HighestSoFar, GapsAccounted
<1>2. TypeOK /\ SeqInv /\ [Next]_vars => SeqInv'
  <2> SUFFICES ASSUME TypeOK, SeqInv, [Next]_vars PROVE SeqInv'
    OBVIOUS
  <2>1. ASSUME NEW p \in Inputs, Receive(p) PROVE SeqInv'
    <3>1. p.seqnum \in Seqnums
      BY InputsAssumption DEF Packet
    <3> QED
      BY <2>1, <3>1, CheckSeqnumKeepsBooks DEF Receive
  <2>2. CASE UNCHANGED seqVars
    BY <2>2 DEF seqVars, SeqInv, HighestSoFar, GapsAccounted, Unwatched
  <2> QED
    BY <2>1, <2>2 DEF Next, Refuse, Merge, vars
<1> QED
  BY <1>1, <1>2, TypeCorrect, PTL DEF Spec

(* No number between the first to arrive and the highest is lost in        *)
(* silence, for any order, loss or repetition of packets and any width of  *)
(* the numbers, but for what is lost between a first number 0 and the next *)
(* higher one to arrive.                                                   *)
THEOREM NoSilentLoss == Spec => []GapsAccounted
BY SeqInvInvariant, PTL DEF SeqInv

(* prev_seqnum bounds everything that has arrived or been reported.        *)
THEOREM PrevIsHighest == Spec => []HighestSoFar
BY SeqInvInvariant, PTL DEF SeqInv

(* No report names a number that has arrived or was reported before.       *)
THEOREM NoReportTwice == Spec => ReportsAreNew
<1>1. TypeOK /\ SeqInv /\ [Next]_vars
        => [missing' \cap (received \cup reported) = {}]_vars
  <2> SUFFICES ASSUME TypeOK, SeqInv, Next
               PROVE  missing' \cap (received \cup reported) = {}
    OBVIOUS
  <2>1. ASSUME NEW p \in Inputs, Receive(p)
        PROVE  missing' \cap (received \cup reported) = {}
    BY <2>1, InputsAssumption, CheckSeqnumReportsNew DEF Receive, Packet
  <2>2. CASE missing' = {}
    BY <2>2
  <2> QED
    BY <2>1, <2>2 DEF Next, Refuse, Merge
<1> QED
  BY <1>1, TypeCorrect, SeqInvInvariant, PTL DEF Spec, ReportsAreNew

-----------------------------------------------------------------------------
(* Frames *)

(* A slot holds a packet that was added or what malloc left in it.         *)
Filled == \A i \in Slots : packets[i] \in added \cup Garbage

RingInv ==
  /\ Filled
  /\ added \subseteq {Stored(p) : p \in Inputs}

(* The slot that the last call of add_packet but j took.                   *)
Behind(j) == IF dx >= j + 1 THEN dx - 1 - j ELSE dx - 1 - j + NPackets

(* What one of the last NPackets calls brought is still in the ring.       *)
StillThere == \A j \in Slots : \A p \in lately[j] : packets[Behind(j)] = p

LEMMA AddFills ==
  ASSUME TypeOK, Filled, NEW p, AddPacket(p)
  PROVE  Filled'
BY DEF AddPacket, Filled, TypeOK

(* A call keeps RingInv.                                                   *)
LEMMA RingStep == TypeOK /\ RingInv /\ [Next]_vars => RingInv'
<1> SUFFICES ASSUME TypeOK, RingInv, [Next]_vars PROVE RingInv'
  OBVIOUS
<1>1. ASSUME NEW p \in Inputs, AddPacket(p) PROVE RingInv'
  BY <1>1, AddFills DEF AddPacket, RingInv
<1>2. CASE UNCHANGED <<packets, added>>
  BY <1>2 DEF RingInv, Filled
<1> QED
  BY <1>1, <1>2 DEF Next, Receive, Refuse, RejectPacket, Merge, ringVars, vars

LEMMA RingInvariant == Spec => []RingInv
<1>1. Init => RingInv
  BY DEF Init, RingInv, Filled
<1> QED
  BY <1>1, RingStep, TypeCorrect, PTL DEF Spec

(* Taking a slot moves every slot one further behind.                      *)
LEMMA BehindMoves ==
  ASSUME TypeOK, dx' = NextDx(dx)
  PROVE  /\ Behind(0)' = dx
         /\ \A j \in Slots : j # 0 => /\ j - 1 \in Slots
                                      /\ Behind(j)' = Behind(j - 1)
                                      /\ Behind(j - 1) \in Slots \ {dx}
<1>1. NPackets \in Nat /\ NPackets > 0 /\ dx \in 0 .. NPackets - 1
  BY NPacketsAssumption DEF TypeOK, Slots
<1>2. dx' = IF dx = NPackets - 1 THEN 0 ELSE dx + 1
  BY <1>1 DEF NextDx
<1>3. Behind(0)' = dx
  BY <1>1, <1>2 DEF Behind
<1>4. ASSUME NEW j \in Slots, j # 0
      PROVE  /\ j - 1 \in Slots
             /\ Behind(j)' = Behind(j - 1)
             /\ Behind(j - 1) \in Slots \ {dx}
  BY <1>1, <1>2, <1>4 DEF Behind, Slots
<1> QED
  BY <1>3, <1>4

LEMMA RememberKeeps ==
  ASSUME TypeOK, StillThere, NEW S, lately' = Remember(S), dx' = NextDx(dx),
         \A p \in S : packets'[dx] = p,
         \A i \in Slots \ {dx} : packets'[i] = packets[i]
  PROVE  StillThere'
<1> SUFFICES ASSUME NEW j \in Slots, NEW p \in lately'[j]
             PROVE  packets'[Behind(j)'] = p
  BY DEF StillThere
<1>1. lately'[j] = IF j = 0 THEN S ELSE lately[j - 1]
  BY DEF Remember
<1>2. CASE j = 0
  BY <1>1, <1>2, BehindMoves
<1>3. CASE j # 0
  <2>1. /\ j - 1 \in Slots
        /\ Behind(j)' = Behind(j - 1)
        /\ Behind(j - 1) \in Slots \ {dx}
    BY <1>3, BehindMoves
  <2>2. packets[Behind(j - 1)] = p
    BY <1>1, <1>3, <2>1 DEF StillThere
  <2> QED
    BY <2>1, <2>2
<1> QED
  BY <1>2, <1>3

(* A call keeps what the last NPackets calls brought in the ring.          *)
LEMMA StillThereStep == TypeOK /\ StillThere /\ [Next]_vars => StillThere'
<1> SUFFICES ASSUME TypeOK, StillThere, [Next]_vars PROVE StillThere'
  OBVIOUS
<1>1. ASSUME NEW p, AddPacket(p) PROVE StillThere'
  <2>1. /\ packets' = [packets EXCEPT ![dx] = Stored(p)]
        /\ packets \in [Slots -> Slot] /\ dx \in Slots
        /\ dx' = NextDx(dx) /\ lately' = Remember({Stored(p)})
    BY <1>1 DEF AddPacket, TypeOK
  <2>2. /\ \A x \in {Stored(p)} : packets'[dx] = x
        /\ \A i \in Slots \ {dx} : packets'[i] = packets[i]
    BY <2>1
  <2> QED
    BY <2>1, <2>2, RememberKeeps
<1>2. ASSUME NEW p, RejectPacket(p) PROVE StillThere'
  <2>1. packets' = packets /\ dx' = NextDx(dx) /\ lately' = Remember({})
    BY <1>2 DEF RejectPacket
  <2> QED
    BY <2>1, RememberKeeps
<1>3. CASE UNCHANGED ringVars
  BY <1>3 DEF ringVars, StillThere, Behind
<1> QED
  BY <1>1, <1>2, <1>3 DEF Next, Receive, Refuse, Merge, vars

LEMMA StillThereInvariant == Spec => []StillThere
<1>1. Init => StillThere
  BY DEF Init, StillThere
<1> QED
  BY <1>1, StillThereStep, TypeCorrect, PTL DEF Spec

(* A search that leaves out a slot has found MaxSplit others.              *)
LEMMA LeftOutIfMany ==
  ASSUME NEW ps, NEW t, NEW i \in Slots, ps[i].timestamp = t,
         i \notin FindTimestamp(ps, t)
  PROVE  Cardinality({j \in Slots : ps[j].timestamp = t}) > MaxSplit
<1> DEFINE match == {j \in Slots : ps[j].timestamp = t}
           before == {j \in match : j < i}
<1>1. IsFiniteSet(Slots)
  BY FS_Interval, NPacketsAssumption DEF Slots
<1>2. IsFiniteSet(match) /\ Cardinality(match) \in Nat
  BY <1>1, FS_Subset, FS_CardinalityType
<1>3. before \subseteq match /\ i \in match /\ i \notin before
  BY DEF Slots
<1>4. /\ IsFiniteSet(before) /\ Cardinality(before) \in Nat
      /\ Cardinality(before) <= Cardinality(match)
      /\ Cardinality(before) # Cardinality(match)
  BY <1>2, <1>3, FS_Subset, FS_CardinalityType
<1>5. ~ (Cardinality(before) < MaxSplit)
  BY <1>3 DEF FindTimestamp
<1> QED
  BY <1>2, <1>4, <1>5, MaxSplitAssumption

(* The arrangements leave out no slot that was found.                      *)
LEMMA SortedIsOnto ==
  ASSUME NEW ps, NEW S \in SUBSET Slots, NEW q \in SortedBySeqnum(ps, S),
         NEW i \in S
  PROVE  \E k \in 1 .. Cardinality(S) : q[k] = i
<1> DEFINE D == 1 .. Cardinality(S)
<1>0. IsFiniteSet(Slots)
  BY FS_Interval, NPacketsAssumption DEF Slots
<1>1. IsFiniteSet(S) /\ Cardinality(S) \in Nat
  BY <1>0, FS_Subset, FS_CardinalityType
<1>2. q \in [D -> S] /\ \A a, b \in D : a < b => q[a] # q[b]
  BY DEF SortedBySeqnum
<1>3. \A a, b \in D : q[a] = q[b] => a = b
  BY <1>1, <1>2
<1>4. q \in Injection(D, S)
  BY <1>2, <1>3 DEF Injection, IsInjective
<1>5. Cardinality(D) = Cardinality(S)
  BY <1>1, FS_Interval
<1>6. q \in Surjection(D, S)
  BY <1>1, <1>4, <1>5, FS_Injection
<1> QED
  BY <1>6 DEF Surjection

LEMMA MergedFrame ==
  ASSUME TypeOK, Filled, NEW t, MergePackets(t), frame' # <<>>
  PROVE  /\ frame' \in Seq(Slot) /\ frame'[Len(frame')] \in added
         /\ frame'[Len(frame')].marker = 1
         /\ \A k \in DOMAIN frame' : /\ frame'[k] \in added \cup Garbage
                                     /\ frame'[k].timestamp = t
         /\ \A j, k \in DOMAIN frame' :
              j < k => frame'[j].seqnum <= frame'[k].seqnum
         /\ found_keyframe \/ \E k \in DOMAIN frame' : frame'[k].nonref = 0
         /\ found_keyframe'
<1>1. PICK q \in Seq(Slots) :
        /\ q # <<>>
        /\ q \in SortedBySeqnum(packets, FindTimestamp(packets, t))
        /\ packets[q[Len(q)]].marker = 1
        /\ HasKey(q)
        /\ found_keyframe' = TRUE
        /\ frame' = [k \in 1 .. Len(q) |-> packets[q[k]]]
  BY MergeOutcome
<1>2. Len(q) \in DOMAIN q /\ DOMAIN q = 1 .. Len(q) /\ Len(q) \in Nat
  BY <1>1
<1>3. /\ DOMAIN frame' = DOMAIN q /\ Len(frame') = Len(q)
      /\ \A k \in DOMAIN q : q[k] \in Slots /\ frame'[k] = packets[q[k]]
  BY <1>1, <1>2
<1>4. \A k \in DOMAIN q : packets[q[k]].timestamp = t
  BY <1>1, SortedType
<1>5. \A j, k \in DOMAIN q : j < k => packets[q[j]].seqnum <= packets[q[k]].seqnum
  BY <1>1, SortedType
<1>6. \A k \in DOMAIN q : packets[q[k]] \in added \cup Garbage
  BY <1>3 DEF Filled
<1>7. packets[q[Len(q)]] \in added
  BY <1>1, <1>2, <1>6, GarbageAssumption DEF UninitSlot
<1>8. frame' \in Seq(Slot)
  BY <1>1, <1>2, <1>3 DEF TypeOK
<1>9. found_keyframe \/ \E k \in DOMAIN q : packets[q[k]].nonref = 0
  BY <1>1 DEF HasKey
<1> QED
  BY <1>1, <1>2, <1>3, <1>4, <1>5, <1>6, <1>7, <1>8, <1>9

(* A merge leaves out no packet that it can find, and it finds what is in  *)
(* the ring up to MaxSplit slots.                                          *)
LEMMA MergeLeavesOutNone ==
  ASSUME TypeOK, StillThere, NEW t, MergePackets(t), frame' # <<>>,
         NEW j \in Slots, NEW p \in lately[j], p.timestamp = t
  PROVE  \/ Cardinality({i \in Slots : packets[i].timestamp = t}) > MaxSplit
         \/ \E k \in DOMAIN frame' : frame'[k] = p
<1> DEFINE S == FindTimestamp(packets, t)
<1>1. PICK q \in Seq(Slots) :
        /\ q \in SortedBySeqnum(packets, S)
        /\ frame' = [k \in 1 .. Len(q) |-> packets[q[k]]]
  BY MergeOutcome
<1>2. Behind(j) \in Slots /\ packets[Behind(j)] = p
  <2>1. NPackets \in Nat /\ dx \in 0 .. NPackets - 1 /\ j \in 0 .. NPackets - 1
    BY NPacketsAssumption DEF TypeOK, Slots
  <2> QED
    BY <2>1 DEF StillThere, Behind, Slots
<1>3. CASE Behind(j) \in S
  <2>1. S \in SUBSET Slots
    BY DEF FindTimestamp
  <2>2. PICK k \in 1 .. Cardinality(S) : q[k] = Behind(j)
    BY <1>1, <1>3, <2>1, SortedIsOnto
  <2>3. k \in DOMAIN q
    BY <1>1, <2>2 DEF SortedBySeqnum
  <2>4. k \in 1 .. Len(q)
    BY <2>3
  <2> QED
    BY <1>1, <1>2, <2>2, <2>4
<1>4. CASE Behind(j) \notin S
  BY <1>2, <1>4, LeftOutIfMany
<1> QED
  BY <1>3, <1>4

(* Frames never mix timestamps, contain nothing that no packet brought,    *)
(* are in order, and lack nothing that came lately, for any ring and any   *)
(* reuse of its slots.                                                     *)
THEOREM FramesAreClean == Spec => []FrameOfArrivals
<1>1. Init => FrameOfArrivals
  BY DEF Init, FrameOfArrivals, FrameFromOneTimestamp
<1>2. TypeOK /\ RingInv /\ StillThere /\ FrameOfArrivals /\ [Next]_vars
        => FrameOfArrivals'
  <2> SUFFICES ASSUME TypeOK, RingInv, StillThere, FrameOfArrivals, [Next]_vars
               PROVE  FrameOfArrivals'
    OBVIOUS
  <2>1. CASE frame' = <<>>
    BY <2>1 DEF FrameOfArrivals, FrameFromOneTimestamp
  <2>2. ASSUME NEW t, Merge(t), frame' # <<>> PROVE FrameOfArrivals'
    <3>1. MergePackets(t) /\ UNCHANGED <<packets, added, lately>>
      BY <2>2 DEF Merge, ringVars
    <3>2. /\ Len(frame') \in DOMAIN frame'
          /\ frame'[Len(frame')].timestamp = t
      BY <2>2, <3>1, MergedFrame DEF RingInv
    <3>3. FrameFromOneTimestamp'
      BY <2>2, <3>1, <3>2, MergedFrame, GarbageAssumption
         DEF FrameFromOneTimestamp, RingInv, UninitSlot
    <3>4. \A j \in Slots : \A p \in lately[j] : p.timestamp = t =>
            \/ Cardinality({i \in Slots : packets[i].timestamp = t}) > MaxSplit
            \/ \E k \in DOMAIN frame' : frame'[k] = p
      BY <2>2, <3>1, MergeLeavesOutNone
    <3> QED
      BY <3>1, <3>2, <3>3, <3>4 DEF FrameOfArrivals
  <2>3. CASE UNCHANGED vars
    BY <2>3 DEF vars, ringVars, FrameOfArrivals, FrameFromOneTimestamp
  <2> QED
    BY <2>1, <2>2, <2>3 DEF Next, Receive, Refuse
<1> QED
  BY <1>1, <1>2, TypeCorrect, RingInvariant, StillThereInvariant, PTL DEF Spec

KeyInv == found_keyframe => \E p \in added : p.nonref = 0

GarbageApart ==
  \A g \in Garbage : \A p \in Inputs :
    g.timestamp = ToNs(p.timestamp) => g.nonref = 1

(* No frame reaches the decoder before a packet of a key frame has come in *)
(* -- provided that no slot left by malloc has the timestamp of a packet   *)
(* and could pass for a key frame: nonref is not initialised.              *)
THEOREM NoFrameBeforeKey ==
  ASSUME GarbageApart
  PROVE  Spec => []KeyframeFirst
<1> DEFINE Inv == KeyInv /\ KeyframeFirst
<1>1. Init => Inv
  BY DEF Init, KeyInv, KeyframeFirst
<1>2. TypeOK /\ RingInv /\ Inv /\ [Next]_vars => Inv'
  <2> SUFFICES ASSUME TypeOK, RingInv, KeyInv, KeyframeFirst, [Next]_vars
               PROVE  Inv'
    OBVIOUS
  <2>1. ASSUME added \subseteq added', found_keyframe' = found_keyframe,
               frame' = <<>>
        PROVE  Inv'
    BY <2>1 DEF KeyInv, KeyframeFirst
  <2>2. ASSUME NEW t, Merge(t), frame' # <<>> PROVE Inv'
    <3>1. MergePackets(t) /\ added' = added
      BY <2>2 DEF Merge, ringVars
    <3>2. frame' \in Seq(Slot) /\ Len(frame') \in DOMAIN frame'
      BY <2>2, <3>1, MergedFrame DEF RingInv
    <3>3. PICK p \in Inputs : frame'[Len(frame')] = Stored(p)
      BY <2>2, <3>1, MergedFrame DEF RingInv
    <3>4. t = ToNs(p.timestamp)
      <4>1. frame'[Len(frame')].timestamp = t
        BY <2>2, <3>1, <3>2, MergedFrame DEF RingInv
      <4>2. Stored(p).timestamp = ToNs(p.timestamp)
        BY InputsAssumption DEF Stored, Packet
      <4> QED
        BY <3>3, <4>1, <4>2
    <3>5. \A k \in DOMAIN frame' : frame'[k].nonref = 0 => frame'[k] \in added
      <4> SUFFICES ASSUME NEW k \in DOMAIN frame', frame'[k].nonref = 0
                   PROVE  frame'[k] \in added
        OBVIOUS
      <4>1. frame'[k] \in added \cup Garbage /\ frame'[k].timestamp = t
        BY <2>2, <3>1, MergedFrame DEF RingInv
      <4> QED
        BY <3>4, <4>1 DEF GarbageApart
    <3>6. \E x \in added : x.nonref = 0
      BY <2>2, <3>1, <3>5, MergedFrame DEF KeyInv, RingInv
    <3> QED
      BY <3>1, <3>6 DEF KeyInv, KeyframeFirst
  <2>3. ASSUME NEW t, Merge(t), frame' = <<>> PROVE Inv'
    <3>1. MergePackets(t) /\ added' = added
      BY <2>3 DEF Merge, ringVars
    <3>2. found_keyframe' = found_keyframe
      <4>1. ASSUME NEW q \in Seq(Slots), q # <<>>,
                   frame' = [k \in 1 .. Len(q) |-> packets[q[k]]]
            PROVE  FALSE
        BY <2>3, <4>1
      <4> QED
        BY <3>1, <4>1, MergeOutcome
    <3> QED
      BY <2>1, <2>3, <3>1, <3>2
  <2>4. CASE UNCHANGED vars
    BY <2>4 DEF vars, ringVars, mergeVars, KeyInv, KeyframeFirst
  <2>5. ASSUME NEW p \in Inputs, Receive(p) PROVE Inv'
    BY <2>1, <2>5 DEF Receive, AddPacket, mergeVars
  <2>6. ASSUME NEW p \in Inputs, Refuse(p) PROVE Inv'
    BY <2>1, <2>6 DEF Refuse, RejectPacket, mergeVars
  <2> QED
    BY <2>2, <2>3, <2>4, <2>5, <2>6 DEF Next
<1> QED
  BY <1>1, <1>2, TypeCorrect, RingInvariant, PTL DEF Spec
=============================================================================
