------------------------------ MODULE Packets ------------------------------
(***************************************************************************)
(* The packet ring of rxs_packets.c: npackets slots that are handed out    *)
(* round robin and overwritten without asking, searched by timestamp or by *)
(* sequence number in slot order, never in order of arrival.               *)
(*                                                                         *)
(* A slot starts as whatever malloc returned.  rxs_packet_init sets marker *)
(* and nbytes but neither seqnum, timestamp nor nonref, so the searches    *)
(* can meet values no packet ever carried: Garbage is the set of slots     *)
(* that the allocation may leave behind.                                   *)
(***************************************************************************)
EXTENDS Integers, FiniteSets

CONSTANTS
  NPackets,     \* slots of the ring: 128 in the receiver, 50 in the sender
  MaxSplit,     \* RXS_MAX_SPLIT_PACKETS
  NSeqnums,       \* sequence numbers are uint16_t: 65536
  Data,         \* payloads
  NoData,       \* the payload of a slot that was never written
  Garbage       \* what malloc may leave in a slot

ASSUME NPacketsAssumption == NPackets \in Nat \ {0}
ASSUME MaxSplitAssumption == MaxSplit \in Nat \ {0}
ASSUME NSeqnumsAssumption == NSeqnums \in Nat \ {0}

Seqnums == 0 .. NSeqnums - 1

Packet == [seqnum : Seqnums, timestamp : Nat, marker : {0, 1},
           nonref : {0, 1}, nbytes : Nat, data : Data]

UninitSlot == [seqnum : Seqnums, timestamp : Nat, marker : {0},
               nonref : {0, 1}, nbytes : {0}, data : {NoData}]

ASSUME GarbageAssumption == Garbage \subseteq UninitSlot

Slot == Packet \cup UninitSlot

Slots == 0 .. NPackets - 1

(* Mutation: the write index is not taken modulo the size of the ring.     *)
NextDxUnbounded(dx) == dx + 1

(* rxs_packets_next returns slot dx and moves on, whoever uses that slot.  *)
NextDx(dx) == (dx + 1) % NPackets

(* Mutation: the comparison lets earlier timestamps through.               *)
FindTimestampUpTo(packets, t) ==
  LET match == {i \in Slots : packets[i].timestamp <= t}
  IN  {i \in match : Cardinality({j \in match : j < i}) < MaxSplit}

(* The slots holding `t`, in slot order, cut off after MaxSplit of them.   *)
FindTimestamp(packets, t) ==
  LET match == {i \in Slots : packets[i].timestamp = t}
  IN  {i \in match : Cardinality({j \in match : j < i}) < MaxSplit}

(* Mutation: the search starts at slot 1.                                  *)
FindSeqnumFromOne(packets, s) ==
  {i \in 1 .. NPackets - 1 : /\ packets[i].seqnum = s
                             /\ \A j \in 1 .. i - 1 : packets[j].seqnum # s}

(* The slot that rxs_packets_find_seqnum returns: the lowest one.          *)
FindSeqnum(packets, s) ==
  {i \in Slots : /\ packets[i].seqnum = s
                 /\ \A j \in 0 .. i - 1 : packets[j].seqnum # s}

(* Mutation: a slot may be entered twice and push out another one.         *)
SortedRepeating(packets, S) ==
  {q \in [1 .. Cardinality(S) -> S] :
     \A i, j \in 1 .. Cardinality(S) :
       i < j => packets[q[i]].seqnum <= packets[q[j]].seqnum}

(* What qsort may make of a set of slots: the comparison is the plain one  *)
(* on uint16_t, and slots with equal numbers may come in any order.        *)
SortedBySeqnum(packets, S) ==
  {q \in [1 .. Cardinality(S) -> S] :
     \A i, j \in 1 .. Cardinality(S) :
       i < j => /\ q[i] # q[j]
                /\ packets[q[i]].seqnum <= packets[q[j]].seqnum}
=============================================================================
