------------------------------- MODULE Stream -------------------------------
(***************************************************************************)
(* The video path from end to end, as the example programs wire it up:     *)
(*                                                                         *)
(*   encoder -> Packetizer -> UDP -> depacketizer -> Jitter -> decoder     *)
(*                  |                                   |                  *)
(*           packet history  <------ UDP control -------+                  *)
(*                                                                         *)
(* Sender and receiver are single-threaded polling loops, so a callback    *)
(* runs to its end within the step that triggers it.  The network loses    *)
(* datagrams of both kinds; what else it does to RTP packets, and how far  *)
(* the counters of the sender are from their ends, depends on the setting. *)
(***************************************************************************)
EXTENDS Jitter, Rtp, Control, SequencesExt

CONSTANTS
  PayloadSize, NTimestamps, PictureIdMax, TicksPerPts,   \* see Packetizer
  NHistory,         \* packets the sender keeps to send again: 50
  Servers,          \* which senders there are: do they serve requests
  Layouts,          \* partition sizes that the encoder makes of a frame
  KeyFrames,        \* which frames are key frames
  MaxFrames,        \* bound: frames encoded
  Settings          \* how the network behaves and the counters start

ASSUME StreamAssumption ==
  /\ {PayloadSize, NTimestamps, PictureIdMax, TicksPerPts} \subseteq Nat \ {0}
  /\ NHistory \in Nat \ {0}
  /\ Servers \subseteq BOOLEAN
  /\ \A l \in Layouts : l \in Seq(Nat \ {0}) /\ l # <<>>
  /\ MaxFrames \in Nat
  /\ NoData \notin Data

(* Counters are no wider than their fields in the headers.                 *)
ASSUME WidthsAssumption ==
  /\ NSeqnums <= 65536
  /\ PictureIdMax <= 32767
  /\ (NTimestamps - 1) \div 65536 < 65536

(* May datagrams overtake each other; bounds on how many are lost and how  *)
(* many come twice; the first sequence number; frames encoded before, from *)
(* which no packet is left.                                                *)
ASSUME SettingsAssumption ==
  Settings \subseteq [reorder : BOOLEAN, losses : Nat, copies : Nat,
                      seqnum : Seqnums, pts : Nat]

VARIABLES
  setting,          \* one of Settings
  serves,           \* test_rxs_vpx.c serves resend requests, the sender of
                    \* test_rxs_webcam_streamer.cpp ignores them
  vpx, fragment,    \* the packetizer
  todo, nframes,    \* partitions still to wrap, frames begun
  history, hdx,     \* ring of sent packets: seqnum and payload
  sent,             \* history: the RTP packets, payload i is sent[i]
  net,              \* payloads on the way to the receiver
  ctl,              \* commands on the way back
  losses,
  copied,           \* history: payloads that the network has doubled
  shown             \* history: the frames given to on_frame, in order

Tx == INSTANCE Packetizer
Hist == INSTANCE Packets WITH NPackets <- NHistory

senderVars == <<serves, vpx, fragment, todo, nframes, history, hdx, sent>>
netVars == <<setting, net, ctl, nr, losses, copied>>
streamVars == <<jvars, senderVars, netVars, shown>>

StreamInit ==
  /\ JitterInit
  /\ setting \in Settings
  /\ Tx!Init(setting.seqnum, 0)
  /\ serves \in Servers
  /\ todo = <<>>
  /\ nframes = 0
  /\ history \in [Hist!Slots -> {[seqnum |-> g.seqnum, data |-> NoData] : g \in Garbage}]
  /\ hdx = 0
  /\ sent = <<>>
  /\ net = <<>>
  /\ ctl = <<>> /\ ControlInit
  /\ losses = 0
  /\ copied = {}
  /\ shown = <<>>

(* The ways to take some of n things in a row and leave out the others.    *)
Selections(n) ==
  {s \in UNION {[1 .. m -> 1 .. n] : m \in 0 .. n} :
     \A a, b \in DOMAIN s : a < b => s[a] < s[b]}

(* uv_udp_send of a row of datagrams, some of which do not arrive.         *)
Transmit(row) ==
  \E kept \in Selections(Len(row)) :
    /\ losses' = losses + Len(row) - Len(kept)
    /\ losses' <= setting.losses
    /\ net' = net \o [k \in DOMAIN kept |-> row[kept[k]]]

-----------------------------------------------------------------------------
(* The sender *)

(* rxs_encoder_encode: a frame, as a row of partitions.  Frames that the   *)
(* encoder drops are in Webcam; nothing of them gets here.                 *)
Encode ==
  /\ Tx!Idle /\ todo = <<>> /\ nframes < MaxFrames
  /\ todo' \in Layouts
  /\ nframes' = nframes + 1
  /\ UNCHANGED <<jvars, serves, vpx, fragment, history, hdx, sent, netVars, shown>>

(* on_vp8_packet *)
Partition ==
  /\ todo # <<>>
  /\ Tx!Wrap([sz |-> Head(todo), pts |-> setting.pts + nframes, key |-> nframes \in KeyFrames,
              fragment |-> Len(todo) > 1])
  /\ todo' = Tail(todo)
  /\ UNCHANGED <<jvars, serves, nframes, history, hdx, sent, netVars, shown>>

(* on_rtp_packet: keep the packet, then send it.                           *)
Emit ==
  /\ Tx!EmitPacket
  /\ Len(sent) + 1 \in Data     \* bound: packets sent
  /\ sent' = Append(sent, Tx!CurrentPacket)
  /\ history' = [history EXCEPT ![hdx] = [seqnum |-> vpx.seqnum,
                                          data |-> Len(sent')]]
  /\ hdx' = Hist!NextDx(hdx)
  /\ Transmit(<<Len(sent')>>)
  /\ UNCHANGED <<jvars, setting, serves, todo, nframes, ctl, nr, copied, shown>>

(* What the history has under the number s: nothing in a slot that was     *)
(* never written, whose empty data rxs_sender_send refuses.                *)
Kept(s) ==
  {history[i].data : i \in Hist!FindSeqnum(history, s)} \ {NoData}

(* receiver_recv_cb and on_command: look each number up in the history and *)
(* send what is there.                                                     *)
OnCommand ==
  /\ ctl # <<>>
  /\ ctl' = Tail(ctl)
  /\ \E asked \in {IF Heard(Head(ctl)) THEN SeqnumsOf(Head(ctl)) ELSE <<>>} :
     \E found \in Selections(Len(asked)) :
       /\ ToSet(found) = {k \in DOMAIN asked : Kept(asked[k]) # {}}
       /\ IF serves
          THEN Transmit([k \in DOMAIN found |->
                           CHOOSE d \in Kept(asked[found[k]]) : TRUE])
          ELSE UNCHANGED <<net, losses>>
  /\ UNCHANGED <<jvars, setting, senderVars, nr, copied, shown>>

(* The network delivers a datagram twice.                                  *)
Duplicate(k) ==
  /\ k \in DOMAIN net
  /\ net[k] \notin copied /\ Cardinality(copied) < setting.copies
  /\ copied' = copied \cup {net[k]}
  /\ net' = InsertAt(net, k, net[k])
  /\ UNCHANGED <<jvars, setting, senderVars, ctl, nr, losses, shown>>

-----------------------------------------------------------------------------
(* The receiver *)

(* on_packet: what the jitter buffer is given of payload i, whose headers  *)
(* say dep.                                                                *)
Depacketized(i, dep) ==
  [seqnum |-> dep.seqnum, timestamp |-> dep.timestamp, marker |-> dep.marker,
   nonref |-> dep.nonref, nbytes |-> dep.len, data |-> i]

(* on_missing_seqnum and rxs_control_sender_request_packets.  A request    *)
(* may get lost like any other datagram.                                   *)
Request(seqnums) ==
  IF Refused(seqnums)
  THEN UNCHANGED <<ctl, nr, losses>>
  ELSE /\ CommandSent
       /\ \/ ctl' = Append(ctl, PacketsRequest(seqnums)) /\ UNCHANGED losses
          \/ losses < setting.losses /\ losses' = losses + 1 /\ UNCHANGED ctl

(* on_data; nobody looks at the partition that a packet says it is from.   *)
(* The missing numbers are reported from the lowest to the highest.        *)
Deliver(k) ==
  /\ k \in DOMAIN net
  /\ setting.reorder \/ k = 1
  /\ net' = RemoveAt(net, k)
  /\ \E dep \in Received(sent[net[k]]) : JitterAdd(Depacketized(net[k], dep))
  /\ Request([n \in 1 .. Cardinality(missing') |-> prev_seqnum + n])
  /\ UNCHANGED <<setting, senderVars, copied, shown>>

TimePasses == Tick /\ UNCHANGED <<senderVars, netVars, shown>>

Poll ==
  /\ Update
  /\ shown' = IF frame' = <<>> THEN shown ELSE Append(shown, frame')
  /\ UNCHANGED <<senderVars, netVars>>

StreamNext ==
  \/ Encode
  \/ Partition
  \/ Emit
  \/ OnCommand
  \/ \E k \in DOMAIN net : Duplicate(k) \/ Deliver(k)
  \/ TimePasses
  \/ Poll

StreamSpec == StreamInit /\ [][StreamNext]_streamVars

(* Both programs poll in an endless loop and the network goes on carrying  *)
(* what it does not lose; the camera may stop at any frame.                *)
Fairness ==
  /\ WF_streamVars(Partition)
  /\ WF_streamVars(Emit)
  /\ WF_streamVars(OnCommand)
  /\ WF_streamVars(\E k \in DOMAIN net : Deliver(k))
  /\ WF_streamVars(TimePasses)
  /\ WF_streamVars(Poll)

StreamFairSpec == StreamSpec /\ Fairness

-----------------------------------------------------------------------------
StreamTypeOK ==
  /\ JitterTypeOK
  /\ serves \in BOOLEAN
  /\ vpx \in Tx!Vpx
  /\ history \in [Hist!Slots -> [seqnum : Seqnums, data : Data \cup {NoData}]]
  /\ hdx \in Hist!Slots
  /\ net \in Seq(DOMAIN sent)
  /\ ctl \in Seq(Seq(Byte)) /\ nr \in U16
  /\ losses \in 0 .. setting.losses
  /\ shown \in Seq(Seq(Slot))

(* The packets that a shown frame was made of, as indices into sent.       *)
Parts(f) == {f[k].data : k \in DOMAIN f} \ {NoData}

(* The packets that the frame had when it was sent.                        *)
WholeFrame(f) == {i \in DOMAIN sent : ToNs(sent[i].timestamp) = f[1].timestamp}

(* The sequence numbers started again between the packets i and k.         *)
Fell(i, k) == \E n \in i .. k - 1 : sent[n + 1].seqnum < sent[n].seqnum

Arrived == {p.data : p \in added}

(* Sent after the first packet to arrive and before another that arrived,  *)
(* but neither here nor reported.                                          *)
LostInSilence ==
  {j \in DOMAIN sent \ Arrived :
     /\ sent[j].seqnum \notin reported
     /\ \E i, k \in Arrived : i < j /\ j < k /\ sent[i].seqnum = first_seqnum}

(* "Whenever a packet is added to the jitter buffer ... we check if the    *)
(* new sequence number is correct" (rxs_jitter.h).                         *)
LossesReported == LostInSilence = {}

(* LossesReported, as far as the code goes: until the numbers start again, *)
(* and but for what follows a first packet numbered 0 (Unwatched).         *)
LossesReportedUntilWrap ==
  ~Fell(1, Len(sent)) => \A j \in LostInSilence : Unwatched(sent[j].seqnum)

(* A frame given to the decoder consists of packets of one frame of the    *)
(* encoder, in the order in which they were sent, and ends where it ends.  *)
(* A frame within which the numbers start again is sorted end first: what  *)
(* keeps it from the decoder is that its last packet then lacks the marker.*)
FramesNotMixed ==
  \A n \in DOMAIN shown :
    LET f == shown[n]
    IN  /\ Parts(f) \subseteq WholeFrame(f)
        /\ f[Len(f)].data = Max(WholeFrame(f))
        /\ \A j, k \in DOMAIN f : j < k => f[j].data <= f[k].data

(* A payload is merged twice only if it came twice, and that only if the   *)
(* network doubled it or the receiver asked for it again: a datagram that  *)
(* was only late then takes two slots (rxs_reconstruct_merge_packets).     *)
RepeatedOnlyIfCopied ==
  \A n \in DOMAIN shown : \A j, k \in DOMAIN shown[n] :
    LET i == shown[n][j].data
    IN  j # k /\ i # NoData /\ i = shown[n][k].data =>
          i \in copied \/ (serves /\ sent[i].seqnum \in reported)

(* The packet that was sent last of those in the ring.                     *)
Newest ==
  CHOOSE i \in Slots : /\ packets[i].data # NoData
                       /\ \A j \in Slots : packets[j].data # NoData =>
                            packets[j].data <= packets[i].data

(* The program ends (rxs_jitter.c exits) only when it has come to the end  *)
(* of what has arrived: the newest frame in the ring is the one it has     *)
(* just handled, unless RTP time has started again before that frame.      *)
ExitsWhenDry ==
  exited =>
    LET played == packets[IF timeout = 0 THEN 0 ELSE curr_pkt]
    IN  \/ played.timestamp = packets[Newest].timestamp
        \/ \E i \in 1 .. packets[Newest].data - 1 :
             sent[i].timestamp > sent[packets[Newest].data].timestamp

(* A frame is shown with a hole in it only if the missing packet had been  *)
(* reported, or has come too late to be part of it, with two exceptions of *)
(* which the receiver knows nothing.  One is what is Unwatched.  The other *)
(* is the frame with which reception begins: check_seqnum does not know    *)
(* what was lost in front of the first packet to arrive.  (Packets that    *)
(* overtake each other may begin in the middle of several frames.)         *)
HolesReported ==
  \A n \in DOMAIN shown : \A i \in WholeFrame(shown[n]) \ Parts(shown[n]) :
    \/ sent[i].seqnum \in received \cup reported
    \/ Unwatched(sent[i].seqnum)
    \/ \E k \in i + 1 .. Len(sent) :
         /\ sent[k].seqnum = first_seqnum
         /\ k \in WholeFrame(shown[n]) \/ setting.reorder

(* The decoder crashes "when the first partition you pass into this        *)
(* function is not a key frame" (rxs_decoder.c): the first thing it gets   *)
(* is made of packets of a key frame.  That these begin with its first one *)
(* is more than the code sees to (HolesReported).                          *)
DecoderStartsOnKey ==
  shown # <<>> => \A i \in Parts(shown[1]) : sent[i].nonref = 0

(* Every frame is shown at most once and never after a later one, as long  *)
(* as packets come in order.  A packet that is sent again may land in the  *)
(* slot that curr_pkt points at and take playback back.                    *)
PlaybackInOrder ==
  ~serves => \A m, n \in DOMAIN shown :
               m < n => shown[m][1].timestamp < shown[n][1].timestamp

(* The timeout is a difference of unsigned numbers; one that wraps around  *)
(* would stop playback for good.                                           *)
TimeoutInReach == timeout <= MaxElapsed

(* A number that is reported missing is asked for, on its way or there:    *)
(* between the report and the arrival it is never out of everyone's sight, *)
(* unless a second datagram is lost (the request itself, or what was sent  *)
(* again: neither is repeated) or the sender's history has moved on.       *)
ReportedInSight ==
  serves /\ losses <= 1 =>
    \A s \in reported \ received :
      \/ \E k \in DOMAIN ctl : s \in ToSet(SeqnumsOf(ctl[k]))
      \/ \E k \in DOMAIN net : sent[net[k]].seqnum = s
      \/ \A i \in Hist!Slots : history[i].seqnum # s

(* Once playback can start it never stalls: it goes on until it runs out   *)
(* of packets, as long as these come in order.                             *)
PlaybackNeverStalls == ~serves /\ npackets = Half ~> ~Alive
=============================================================================
