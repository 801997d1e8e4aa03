------------------------------- MODULE Jitter -------------------------------
(***************************************************************************)
(* rxs_jitter.c: delayed playback on top of Reconstruct.  Packets are      *)
(* added as they come; rxs_jitter_update is polled.  Playback starts once  *)
(* half a ring of packets has come, from the timestamp in slot 0, and then *)
(* jumps from a timestamp to the next higher one in the ring when the time *)
(* between the two has passed.                                             *)
(*                                                                         *)
(* curr_pkt points into the ring: what it points at may be overwritten     *)
(* between two calls of rxs_jitter_update.                                 *)
(*                                                                         *)
(* elapsed is uv_hrtime() - time_start, the only form in which the clock   *)
(* is used; it stops at MaxElapsed, which lies beyond every timeout but    *)
(* those that have wrapped around (uint64_t).  Before playback it is 0:    *)
(* the first call that finds timeout = 0 sets it to the time just read.    *)
(***************************************************************************)
EXTENDS Reconstruct

CONSTANTS
  MaxElapsed,   \* bound on elapsed
  TimeMod,      \* width of timeout: 2^64
  NoSlot        \* curr_pkt = NULL

ASSUME MaxElapsedAssumption == MaxElapsed \in Nat
ASSUME TimeModAssumption == TimeMod \in Nat /\ TimeMod > MaxElapsed
ASSUME NoSlotAssumption == NoSlot \notin Slots

VARIABLES
  npackets,         \* packets added, counted up to Half
  timeout, timestamp_start, elapsed, curr_pkt,
  exited            \* exit(0) was called

playVars == <<timeout, timestamp_start, elapsed, curr_pkt, exited>>
jitterVars == <<npackets, playVars>>

Half == NPackets \div 2

JitterInit ==
  /\ Init
  /\ npackets = 0
  /\ timeout = 0
  /\ timestamp_start = 0
  /\ elapsed = 0
  /\ curr_pkt = NoSlot
  /\ exited = FALSE

Alive == ~exited /\ ~overrun

(* rxs_jitter_add_packet *)
JitterAdd(p) ==
  /\ Alive
  /\ Receive(p)
  /\ npackets' = IF npackets < Half THEN npackets + 1 ELSE Half
  /\ UNCHANGED playVars

(* Mutation: the number of a packet is checked although it was refused.    *)
JitterRefuseChecks(p) ==
  /\ Alive
  /\ RejectPacket(p)
  /\ CheckSeqnum(p.seqnum)
  /\ frame' = <<>>
  /\ UNCHANGED <<mergeVars, jitterVars>>

(* The packet is too big: it is not counted.                               *)
JitterRefuse(p) == Alive /\ Refuse(p) /\ UNCHANGED jitterVars

Tick ==
  /\ Alive /\ curr_pkt # NoSlot /\ elapsed < MaxElapsed
  /\ elapsed' = elapsed + 1
  /\ UNCHANGED <<vars, npackets, timeout, timestamp_start, curr_pkt, exited>>

(* Mutation: the timestamp of slot i itself will do.                       *)
NextPacketOrSame(i) ==
  LET later == {j \in Slots : packets[j].timestamp >= packets[i].timestamp}
  IN  {j \in later : \A k \in later :
         \/ packets[j].timestamp < packets[k].timestamp
         \/ packets[j].timestamp = packets[k].timestamp /\ j <= k}

(* Mutation: only the slots behind slot i are looked at.                   *)
NextPacketBehind(i) ==
  LET later == {j \in i .. NPackets - 1 : packets[j].timestamp > packets[i].timestamp}
  IN  {j \in later : \A k \in later :
         \/ packets[j].timestamp < packets[k].timestamp
         \/ packets[j].timestamp = packets[k].timestamp /\ j <= k}

(* jitter_next_packet: the first slot with the lowest of the timestamps    *)
(* above that of slot i.  Every slot is looked at, written or not.         *)
NextPacket(i) ==
  LET later == {j \in Slots : packets[j].timestamp > packets[i].timestamp}
  IN  {j \in later : \A k \in later :
         \/ packets[j].timestamp < packets[k].timestamp
         \/ packets[j].timestamp = packets[k].timestamp /\ j <= k}

(* Mutation: the operands of the subtraction are swapped.                  *)
PlayFromSwapped(i, start) ==
  /\ Merge(packets[i].timestamp)
  /\ \/ /\ NextPacket(i) = {}
        /\ exited' = TRUE
        /\ UNCHANGED <<timeout, curr_pkt>>
     \/ \E j \in NextPacket(i) :
          /\ timeout' = (start - packets[j].timestamp) % TimeMod
          /\ curr_pkt' = j
          /\ UNCHANGED exited
  /\ timestamp_start' = start
  /\ UNCHANGED npackets

(* Handle slot i and set the next timeout, counted from `start`.           *)
PlayFrom(i, start) ==
  /\ Merge(packets[i].timestamp)
  /\ \/ /\ NextPacket(i) = {}
        /\ exited' = TRUE
        /\ UNCHANGED <<timeout, curr_pkt>>
     \/ \E j \in NextPacket(i) :
          /\ timeout' = (packets[j].timestamp - start) % TimeMod
          /\ curr_pkt' = j
          /\ UNCHANGED exited
  /\ timestamp_start' = start
  /\ UNCHANGED npackets

(* rxs_jitter_update while timeout is 0: start, or start all over again.   *)
UpdateStart ==
  /\ Alive /\ npackets >= Half
  /\ timeout = 0
  /\ PlayFrom(0, packets[0].timestamp)
  /\ elapsed' = 0

(* rxs_jitter_update when the timeout has passed.                          *)
UpdatePlay ==
  /\ Alive /\ npackets >= Half
  /\ timeout # 0 /\ elapsed >= timeout
  /\ PlayFrom(curr_pkt, timestamp_start)
  /\ UNCHANGED elapsed

Update == UpdateStart \/ UpdatePlay

JitterNext ==
  \/ \E p \in Inputs : JitterAdd(p) \/ JitterRefuse(p)
  \/ Tick
  \/ Update

jvars == <<vars, jitterVars>>

JitterSpec == JitterInit /\ [][JitterNext]_jvars

-----------------------------------------------------------------------------
JitterTypeOK ==
  /\ TypeOK
  /\ npackets \in 0 .. Half
  /\ timeout \in 0 .. TimeMod - 1
  /\ timestamp_start \in Nat
  /\ elapsed \in 0 .. MaxElapsed
  /\ curr_pkt \in Slots \cup {NoSlot}
  /\ exited \in BOOLEAN
=============================================================================
