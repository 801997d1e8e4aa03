---------------------------- MODULE Reconstruct ----------------------------
(***************************************************************************)
(* rxs_reconstruct.c: collects RTP packets in a ring, reports the sequence *)
(* numbers that were skipped, and merges the packets of one timestamp into *)
(* a VP8 frame.  The three operations are separate calls of its API; the   *)
(* jitter buffer calls the first two for each packet (module Jitter).      *)
(*                                                                         *)
(* missing and frame are the arguments of the on_missing_seqnum and        *)
(* on_frame callbacks made by the last call, empty if it made none.        *)
(*                                                                         *)
(* added, lately, received, reported, first_seqnum and first_nonzero are   *)
(* history: no step depends on them.  lately[j] is the packet stored by    *)
(* the last call of add_packet but j, empty if there was no such call or   *)
(* if the packet was refused.                                              *)
(***************************************************************************)
EXTENDS Packets, Sequences

CONSTANTS
  MaxMissing,   \* RXS_MAX_MISSING_PACKETS, entries of missing_seqnums[]
  SlotBytes,    \* capacity of one slot: 32 KB
  NsPerTick,    \* nanoseconds per tick of the 90 kHz RTP clock
  Inputs        \* the packets the network may bring

ASSUME MaxMissingAssumption == MaxMissing \in Nat
ASSUME SlotBytesAssumption == SlotBytes \in Nat
ASSUME NsPerTickAssumption == NsPerTick \in Nat \ {0}
ASSUME InputsAssumption == Inputs \subseteq Packet

VARIABLES
  packets, dx,                  \* rxs_packets
  prev_seqnum,                  \* highest number seen, 0 before the first
  overrun,                      \* missing_seqnums[] was written past its end
  missing,                      \* numbers reported by the last call
  checked_seqnum, found_keyframe,
  frame,                        \* frame made by the last call, as its packets
  added, lately, received, reported,
  first_seqnum,                 \* the first number to arrive
  first_nonzero                 \* the first one to arrive that is not 0

ringVars == <<packets, dx, added, lately>>
seqVars == <<prev_seqnum, overrun, received, reported, first_seqnum, first_nonzero>>
mergeVars == <<checked_seqnum, found_keyframe>>
vars == <<ringVars, seqVars, mergeVars, missing, frame>>

Init ==
  /\ packets \in [Slots -> Garbage]
  /\ dx = 0
  /\ added = {}
  /\ lately = [j \in Slots |-> {}]
  /\ prev_seqnum = 0
  /\ overrun = FALSE
  /\ missing = {}
  /\ received = {}
  /\ reported = {}
  /\ first_seqnum = 0
  /\ first_nonzero = 0
  /\ checked_seqnum = 0
  /\ found_keyframe = FALSE
  /\ frame = <<>>

-----------------------------------------------------------------------------
(* rxs_reconstruct_add_packet *)

ToNs(rtp) == rtp * NsPerTick

Fits(p) == p.nbytes <= SlotBytes

(* What is stored of p: its timestamp converted, the rest copied.          *)
Stored(p) == [p EXCEPT !.timestamp = ToNs(p.timestamp)]

(* One more call, whose packet is the only member of S, or was refused.    *)
Remember(S) == [j \in Slots |-> IF j = 0 THEN S ELSE lately[j - 1]]

AddPacket(p) ==
  /\ Fits(p)
  /\ packets' = [packets EXCEPT ![dx] = Stored(p)]
  /\ dx' = NextDx(dx)
  /\ added' = added \cup {Stored(p)}
  /\ lately' = Remember({Stored(p)})

(* The slot is taken before the size is looked at: a packet that is too    *)
(* big costs a slot, whose old contents stay.                              *)
RejectPacket(p) ==
  /\ ~Fits(p)
  /\ dx' = NextDx(dx)
  /\ lately' = Remember({})
  /\ UNCHANGED <<packets, added>>

-----------------------------------------------------------------------------
(* rxs_reconstruct_check_seqnum *)

(* Mutation: the loop stops one number early.                              *)
SkippedShort(s) ==
  IF prev_seqnum # 0 /\ s # prev_seqnum + 1 THEN prev_seqnum + 1 .. s - 2
                                            ELSE {}

(* The comparison is made in int: after 65535 it expects 65536.            *)
Skipped(s) ==
  IF prev_seqnum # 0 /\ s # prev_seqnum + 1 THEN prev_seqnum + 1 .. s - 1
                                            ELSE {}

(* prev_seqnum is 0 before the first call and after a packet numbered 0.   *)
FirstOnes(s) ==
  /\ first_seqnum' = IF received = {} THEN s ELSE first_seqnum
  /\ first_nonzero' = IF prev_seqnum = 0 THEN s ELSE first_nonzero

(* Mutation: a late packet takes prev_seqnum back.                         *)
CheckSeqnumLast(s) ==
  /\ overrun' = (Cardinality(Skipped(s)) > MaxMissing)
  /\ missing' = Skipped(s)
  /\ prev_seqnum' = s
  /\ received' = received \cup {s}
  /\ reported' = reported \cup Skipped(s)
  /\ FirstOnes(s)

CheckSeqnum(s) ==
  /\ overrun' = (Cardinality(Skipped(s)) > MaxMissing)
  /\ missing' = Skipped(s)
  /\ prev_seqnum' = IF s > prev_seqnum THEN s ELSE prev_seqnum
  /\ received' = received \cup {s}
  /\ reported' = reported \cup Skipped(s)
  /\ FirstOnes(s)

-----------------------------------------------------------------------------
(* rxs_reconstruct_merge_packets *)

Found(t) == FindTimestamp(packets, t)

(* Mutation: a marker anywhere will do.                                    *)
HasMarker(q) == \E k \in DOMAIN q : packets[q[k]].marker = 1

(* rxs_reconstruct_is_frame_complete looks at the last packet only.        *)
IsFrameComplete(q) == packets[q[Len(q)]].marker = 1

(* Mutation: a frame need not wait for a key frame.                        *)
HasKeyAlways(q) == TRUE

HasKey(q) == found_keyframe \/ \E k \in DOMAIN q : packets[q[k]].nonref = 0

(* reconstruct_check_sequence_order notices a gap and returns 0 all the    *)
(* same: only the number it stops at outlives the call.                    *)
CheckOrder(q) == checked_seqnum' = packets[q[Len(q)]].seqnum

MergeNothing(t) ==
  /\ Found(t) = {}
  /\ frame' = <<>>
  /\ UNCHANGED mergeVars

MergeIncomplete(t) ==
  \E q \in SortedBySeqnum(packets, Found(t)) :
    /\ q # <<>>
    /\ ~IsFrameComplete(q)
    /\ CheckOrder(q)
    /\ frame' = <<>>
    /\ UNCHANGED found_keyframe

(* Complete, but no packet of a key frame has been merged so far.          *)
MergeNoKey(t) ==
  \E q \in SortedBySeqnum(packets, Found(t)) :
    /\ q # <<>>
    /\ IsFrameComplete(q)
    /\ ~HasKey(q)
    /\ CheckOrder(q)
    /\ frame' = <<>>
    /\ UNCHANGED found_keyframe

MergeFrame(t) ==
  \E q \in SortedBySeqnum(packets, Found(t)) :
    /\ q # <<>>
    /\ IsFrameComplete(q)
    /\ HasKey(q)
    /\ CheckOrder(q)
    /\ found_keyframe' = TRUE
    /\ frame' = [k \in 1 .. Len(q) |-> packets[q[k]]]

MergePackets(t) ==
  \/ MergeNothing(t)
  \/ MergeIncomplete(t)
  \/ MergeNoKey(t)
  \/ MergeFrame(t)

-----------------------------------------------------------------------------
(* The one caller, rxs_jitter_add_packet, makes the first two calls in a   *)
(* row and skips the second when the first is refused.                     *)
Receive(p) ==
  /\ AddPacket(p)
  /\ CheckSeqnum(p.seqnum)
  /\ frame' = <<>>
  /\ UNCHANGED mergeVars

Refuse(p) ==
  /\ RejectPacket(p)
  /\ missing' = {}
  /\ frame' = <<>>
  /\ UNCHANGED <<seqVars, mergeVars>>

Merge(t) ==
  /\ MergePackets(t)
  /\ missing' = {}
  /\ UNCHANGED <<ringVars, seqVars>>

(* The timestamps a caller can have read from a slot or been given.        *)
Timestamps ==
  {ToNs(p.timestamp) : p \in Inputs} \cup {g.timestamp : g \in Garbage}

(* Once the static array has been overrun C promises nothing any more.     *)
Next ==
  /\ ~overrun
  /\ \/ \E p \in Inputs : Receive(p) \/ Refuse(p)
     \/ \E t \in Timestamps : Merge(t)

Spec == Init /\ [][Next]_vars

-----------------------------------------------------------------------------
TypeOK ==
  /\ packets \in [Slots -> Slot]
  /\ dx \in Slots
  /\ added \subseteq Packet
  /\ lately \in [Slots -> SUBSET Packet]
  /\ prev_seqnum \in Seqnums
  /\ overrun \in BOOLEAN
  /\ missing \subseteq Seqnums
  /\ received \subseteq Seqnums
  /\ reported \subseteq Seqnums
  /\ first_seqnum \in Seqnums
  /\ first_nonzero \in Seqnums
  /\ checked_seqnum \in Seqnums
  /\ found_keyframe \in BOOLEAN
  /\ frame \in Seq(Slot)

(* check_seqnum takes a prev_seqnum of 0 for "no packet yet".  If the very *)
(* first packet has the number 0 it is in the same place as before, and    *)
(* what is lost between that packet and the next higher one to arrive      *)
(* escapes it (rxs_reconstruct.c:118).                                     *)
Unwatched(n) == first_seqnum = 0 /\ n < first_nonzero

(* Nothing is lost in silence but for what is Unwatched: between the first *)
(* number to arrive and the highest one, every number has arrived or has   *)
(* been reported, in whatever order and however often packets come         *)
(* (rxs_reconstruct_check_seqnum).                                         *)
GapsAccounted ==
  \A n \in first_seqnum + 1 .. prev_seqnum :
    n \in received \cup reported \/ Unwatched(n)

(* A report names only numbers that have never arrived and that no earlier *)
(* report has named, so a packet is asked for at most once.                *)
ReportsAreNew ==
  [][missing' \cap (received \cup reported) = {}]_vars

(* What the two above rest on: prev_seqnum is the highest number that has  *)
(* arrived or been reported, and the first one other than 0 is where       *)
(* reports begin.                                                          *)
HighestSoFar ==
  /\ \A n \in received \cup reported : n <= prev_seqnum
  /\ prev_seqnum # 0 => {prev_seqnum, first_nonzero} \subseteq received
  /\ first_seqnum <= prev_seqnum
  /\ first_seqnum # 0 => first_nonzero = first_seqnum

(* "We don't allow more then 15 missed packets" (rxs_control.h), and       *)
(* missing_seqnums[] has room for so many; the loop that fills it does not *)
(* look at how many there are.                                             *)
NoOverrun == ~overrun

(* A frame is made of packets of one timestamp in the order of their       *)
(* numbers and ends with one that has arrived and carries the marker.  All *)
(* of its bytes came with packets: a slot that was never written takes     *)
(* part when malloc happened to leave the timestamp there, and adds        *)
(* nothing (rxs_reconstruct_merge_packets, rxs_packet_init).               *)
FrameFromOneTimestamp ==
  frame # <<>> =>
    /\ frame[Len(frame)] \in added
    /\ frame[Len(frame)].marker = 1
    /\ \A k \in DOMAIN frame :
         /\ \/ frame[k] \in added
            \/ frame[k] \in Garbage /\ frame[k].nbytes = 0
         /\ frame[k].timestamp = frame[Len(frame)].timestamp
    /\ \A j, k \in DOMAIN frame : j < k => frame[j].seqnum <= frame[k].seqnum

(* Slots are handed out again unasked, a refused packet takes one with it, *)
(* and the search stops at MaxSplit slots.  Yet a frame lacks no packet    *)
(* that one of the last NPackets calls brought, unless more than MaxSplit  *)
(* slots have its timestamp.                                               *)
FrameOfArrivals ==
  /\ FrameFromOneTimestamp
  /\ frame # <<>> =>
       LET t == frame[Len(frame)].timestamp
       IN  \/ Cardinality({i \in Slots : packets[i].timestamp = t}) > MaxSplit
           \/ \A j \in Slots : \A p \in lately[j] :
                p.timestamp = t => \E k \in DOMAIN frame : frame[k] = p

(* The callback stays silent until a packet of a key frame has come in     *)
(* (the nonref bit is 0): frames made of nothing but references to others  *)
(* do not reach the decoder first.  It needs timestamps that no            *)
(* uninitialised slot which could pass for a key frame happens to hold.    *)
KeyframeFirst ==
  frame # <<>> => \E p \in added : p.nonref = 0
=============================================================================
