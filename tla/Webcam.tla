------------------------------- MODULE Webcam -------------------------------
(***************************************************************************)
(* The webcam streamer (test_rxs_webcam_streamer.cpp) and the player as it *)
(* is built by default (test_rxs_glfw_palyer.cpp, neither USE_JITTER nor   *)
(* USE_RECONSTRUCT):                                                       *)
(*                                                                         *)
(*   camera -> encoder -> Ivf                                              *)
(*                     -> Packetizer -> UDP -> player's buffer -> decoder  *)
(*                                                                         *)
(* The streamer makes every 25th frame a key frame, and the next one after *)
(* a request on the control channel; it sends from the moment it knows the *)
(* player's address (see Connect) and a recording is closed by the handler *)
(* of SIGINT, which may interrupt anything.  One action is what runs       *)
(* between two calls that others can see.                                  *)
(***************************************************************************)
EXTENDS Packetizer, Rtp, Control, Ivf, SequencesExt

CONSTANTS
  Layouts,          \* partition sizes that the encoder makes of a frame
  KeyFrames,        \* frames that libvpx makes key frames by itself
  KeyEvery,         \* 25: the others are by request
  StartSeqnums, StartIds,   \* start of the packetizer's counters
  Recording,        \* values of USE_IVF
  MaxFrames,        \* bound: frames encoded
  MaxDrops,         \* bound: frames that the encoder drops
  MaxLosses,        \* bound: datagrams lost
  MaxRequests       \* bound: key frame requests

ASSUME WebcamAssumption ==
  /\ \A l \in Layouts : l \in Seq(Nat \ {0}) /\ l # <<>>
  /\ StartSeqnums \subseteq 0 .. NSeqnums - 1
  /\ StartIds \subseteq -(PictureIdMax + 1) .. PictureIdMax
  /\ KeyEvery \in Nat \ {0}
  /\ MaxFrames \in Nat /\ MaxDrops \in Nat
  /\ MaxLosses \in Nat /\ MaxRequests \in Nat

(* Counters are no wider than their fields in the headers.                 *)
ASSUME WidthsAssumption ==
  /\ NSeqnums <= 65536
  /\ PictureIdMax <= 32767
  /\ (NTimestamps - 1) \div 65536 < 65536

VARIABLES
  pc,               \* on_vp8_packet: "packet", "write", "count" or "wrap"
  running,          \* FALSE after exit()
  flags,            \* rxs_encoder.flags has VPX_EFLAG_FORCE_KF
  nframes, dropped, \* frames captured: encoded, and dropped by the encoder
  todo,             \* packets of the encoder still to be handled
  frame_buffer,     \* partitions collected for the recording
  got_remote_ip,
  net,              \* payloads on the way to the player
  ctl,              \* commands on the way to the streamer
  losses,
  data, had_key,    \* the player: payloads collected, key frame seen
  decoded,          \* argument of the last rxs_decoder_decode
  picture, upto,    \* the decoder: "none", "clean" or "broken", last frame
  sent, frame_of,   \* history: the RTP packets, and the frame of each
  made,             \* history: partitions of each frame, and if it is a key
  number,           \* history: which one of the captured frames it was
  asked,            \* history: frames that a request made key frames
  arrived           \* history: payloads that reached the player

cameraVars == <<nframes, dropped, made, number, asked>>
streamerVars == <<vars, ivfVars, pc, flags, cameraVars, todo, frame_buffer, sent,
                  frame_of>>
playerVars == <<data, had_key, decoded, picture, upto, arrived>>
webcamVars == <<streamerVars, running, got_remote_ip, net, ctl, nr, losses,
                playerVars>>

WebcamInit ==
  /\ \E s \in StartSeqnums, id \in StartIds : Init(s, id)
  /\ \E use \in Recording : IvfInit(use)
  /\ pc = "packet"
  /\ running = TRUE
  /\ flags = FALSE
  /\ nframes = 0 /\ dropped = 0
  /\ todo = <<>>
  /\ frame_buffer = <<>>
  /\ got_remote_ip = FALSE
  /\ net = <<>> /\ ctl = <<>> /\ ControlInit /\ losses = 0
  /\ data = <<>> /\ had_key = FALSE /\ decoded = <<>>
  /\ picture = "none" /\ upto = 0
  /\ sent = <<>> /\ frame_of = <<>> /\ arrived = {}
  /\ made = <<>> /\ number = <<>> /\ asked = {}

-----------------------------------------------------------------------------
(* The streamer *)

FrameDone == Idle /\ todo = <<>>

(* Mutation: no key frame but on request.                                  *)
DueNever(n) == FALSE

(* on_webcam_frame asks for a key frame every KeyEvery frames.             *)
Due(n) == n % KeyEvery = 0

(* The next frame that is captured; nframes counts the encoded ones only.  *)
NextNumber == nframes + dropped + 1

NextIsKey == flags \/ Due(NextNumber) \/ nframes + 1 \in KeyFrames

(* on_webcam_frame and rxs_encoder_encode, which clears the flags.  The    *)
(* encoder makes its first frame a key frame unasked.                      *)
Capture ==
  /\ running /\ FrameDone /\ nframes < MaxFrames
  /\ nframes' = nframes + 1
  /\ \E layout \in Layouts :
       /\ todo' = layout
       /\ made' = Append(made, [partitions |-> layout, key |-> NextIsKey])
  /\ number' = Append(number, NextNumber)
  /\ asked' = IF flags THEN asked \cup {nframes'} ELSE asked
  /\ flags' = FALSE
  /\ UNCHANGED <<vars, ivfVars, pc, dropped, frame_buffer, sent, frame_of,
                 running, got_remote_ip, net, ctl, nr, losses, playerVars>>

(* The same, when the encoder has no bits left (rc_dropframe_thresh): it   *)
(* gives no packet for the frame.  libvpx drops no key frames.             *)
Drop ==
  /\ running /\ FrameDone /\ nframes < MaxFrames
  /\ dropped < MaxDrops /\ ~NextIsKey
  /\ dropped' = dropped + 1
  /\ UNCHANGED <<vars, ivfVars, pc, flags, nframes, todo, frame_buffer, sent,
                 frame_of, made, number, asked, running, got_remote_ip, net,
                 ctl, nr, losses, playerVars>>

IsFragment == Len(todo) > 1

(* Mutation: each packet of the encoder is written as a frame.             *)
AfterCollectAlways == "write"

AfterCollect == IF IsFragment THEN "wrap" ELSE "write"

(* on_vp8_packet with USE_IVF: collect until the frame is complete.        *)
Collect ==
  /\ running /\ Idle /\ todo # <<>>
  /\ pc = "packet" /\ fp = "open"
  /\ frame_buffer' = Append(frame_buffer, Head(todo))
  /\ pc' = AfterCollect
  /\ UNCHANGED <<vars, ivfVars, flags, cameraVars, todo, sent, frame_of,
                 running, got_remote_ip, net, ctl, nr, losses, playerVars>>

Write ==
  /\ running /\ pc = "write"
  /\ WriteFrame(frame_buffer)
  /\ pc' = "count"
  /\ UNCHANGED <<vars, flags, cameraVars, todo, frame_buffer, sent,
                 frame_of, running, got_remote_ip, net, ctl, nr, losses,
                 playerVars>>

Count ==
  /\ running /\ pc = "count"
  /\ CountFrame
  /\ frame_buffer' = <<>>
  /\ pc' = "wrap"
  /\ UNCHANGED <<vars, flags, cameraVars, todo, sent, frame_of, running,
                 got_remote_ip, net, ctl, nr, losses, playerVars>>

(* on_vp8_packet: the packetizer.                                          *)
Partition ==
  /\ running /\ Idle /\ todo # <<>>
  /\ pc = IF fp = "open" THEN "wrap" ELSE "packet"
  /\ Wrap([sz |-> Head(todo), pts |-> nframes + dropped, key |-> made[nframes].key,
           fragment |-> IsFragment])
  /\ todo' = Tail(todo)
  /\ pc' = "packet"
  /\ UNCHANGED <<ivfVars, flags, cameraVars, frame_buffer, sent, frame_of,
                 running, got_remote_ip, net, ctl, nr, losses, playerVars>>

(* on_rtp_packet and rxs_sender_send: nothing is sent to nobody, and a     *)
(* datagram may get lost.                                                  *)
Emit ==
  /\ running
  /\ EmitPacket
  /\ sent' = Append(sent, CurrentPacket)
  /\ frame_of' = Append(frame_of, nframes)
  /\ \/ got_remote_ip /\ net' = Append(net, Len(sent')) /\ UNCHANGED losses
     \/ got_remote_ip /\ losses < MaxLosses /\ losses' = losses + 1 /\ UNCHANGED net
     \/ ~got_remote_ip /\ UNCHANGED <<net, losses>>
  /\ UNCHANGED <<ivfVars, pc, flags, cameraVars, todo, frame_buffer,
                 running, got_remote_ip, ctl, nr, playerVars>>

(* receiver_recv_cb, on_control_command, rxs_encoder_request_keyframe: the *)
(* control channel is polled between two frames.                           *)
OnControlCommand ==
  /\ running /\ FrameDone /\ ctl # <<>>
  /\ ctl' = Tail(ctl)
  /\ flags' = (flags \/ (Heard(Head(ctl)) /\ Command(Head(ctl)) = KeyFrameCommand))
  /\ UNCHANGED <<vars, ivfVars, pc, cameraVars, todo, frame_buffer, sent,
                 frame_of, running, got_remote_ip, net, nr, losses,
                 playerVars>>

(* on_address: see Connect.                                                *)
OnAddress ==
  /\ running /\ FrameDone /\ ~got_remote_ip
  /\ got_remote_ip' = TRUE
  /\ UNCHANGED <<streamerVars, running, net, ctl, nr, losses, playerVars>>

(* on_signal of SIGINT, at any moment.                                     *)
OnSignal ==
  /\ running
  /\ running' = FALSE
  /\ IF fp = "open" THEN Destroy ELSE UNCHANGED ivfVars
  /\ UNCHANGED <<vars, pc, flags, cameraVars, todo, frame_buffer, sent,
                 frame_of, got_remote_ip, net, ctl, nr, losses, playerVars>>

(* The process is killed, or the machine fails.                            *)
Crash ==
  /\ running
  /\ running' = FALSE
  /\ UNCHANGED <<streamerVars, got_remote_ip, net, ctl, nr, losses,
                 playerVars>>

-----------------------------------------------------------------------------
(* rxs_control_sender_request_keyframe of whoever wants one.               *)
RequestKeyframe ==
  /\ nr < MaxRequests
  /\ CommandSent
  /\ \/ ctl' = Append(ctl, KeyframeRequest) /\ UNCHANGED losses
     \/ losses < MaxLosses /\ losses' = losses + 1 /\ UNCHANGED ctl
  /\ UNCHANGED <<streamerVars, running, got_remote_ip, net, playerVars>>

-----------------------------------------------------------------------------
(* The player *)

PacketsOf(f) == {i \in DOMAIN sent : frame_of[i] = f}

(* libvpx: a key frame that is whole makes the picture clean, and so does  *)
(* a whole frame on top of a clean picture of the frame before it.         *)
Decodes(s) ==
  LET f == frame_of[s[Len(s)]]
  IN  /\ ToSet(s) = PacketsOf(f)
      /\ made[f].key \/ (picture = "clean" /\ upto = f - 1)

(* Mutation: pos is only set back when the decoder was called.             *)
CollectedUnlessDecoded(s, marker, key) ==
  IF marker = 1 /\ key THEN <<>> ELSE s

(* What is left in the buffer: nothing after a marker.                     *)
Collected(s, marker, key) == IF marker = 1 THEN <<>> ELSE s

(* on_data and on_vp8_packet of the player: payload i with what the        *)
(* depacketizer reads in its headers.  Nobody looks at the partition.      *)
Deliver ==
  /\ net # <<>>
  /\ net' = Tail(net)
  /\ \E dep \in Received(sent[Head(net)]) :
       LET i == Head(net)
           s == IF dep.len > 0 THEN Append(data, i) ELSE data
       IN  /\ arrived' = arrived \cup {i}
           /\ had_key' = (had_key \/ dep.nonref = 0)
           /\ data' = Collected(s, dep.marker, had_key')
           /\ IF had_key' /\ dep.marker = 1
              THEN /\ decoded' = s
                   /\ picture' = IF Decodes(s) THEN "clean" ELSE "broken"
                   /\ upto' = frame_of[i]
              ELSE UNCHANGED <<decoded, picture, upto>>
  /\ UNCHANGED <<streamerVars, running, got_remote_ip, ctl, nr, losses>>

-----------------------------------------------------------------------------
Streamer ==
  \/ Capture
  \/ Drop
  \/ Collect
  \/ Write
  \/ Count
  \/ Partition
  \/ Emit
  \/ OnControlCommand
  \/ OnAddress
  \/ OnSignal

WebcamNext ==
  \/ Streamer
  \/ Crash
  \/ RequestKeyframe
  \/ Deliver

WebcamSpec == WebcamInit /\ [][WebcamNext]_webcamVars

-----------------------------------------------------------------------------
WebcamTypeOK ==
  /\ vpx \in Vpx /\ fragment \in BOOLEAN
  /\ pc \in {"packet", "write", "count", "wrap"}
  /\ fp \in {"none", "open", "closed"}
  /\ num_frames \in 0 .. MaxFrames
  /\ nframes \in 0 .. MaxFrames /\ dropped \in 0 .. MaxDrops
  /\ net \in Seq(DOMAIN sent)
  /\ ctl \in Seq(Seq(Byte)) /\ nr \in 0 .. MaxRequests
  /\ losses \in 0 .. MaxLosses
  /\ data \in Seq(DOMAIN sent) /\ decoded \in Seq(DOMAIN sent)
  /\ picture \in {"none", "clean", "broken"}
  /\ upto \in 0 .. nframes

(* The header says of the m bit that it "must be set for the last packet   *)
(* of a frame": once a frame has been wrapped its last packet has it.      *)
MarkerOnLast ==
  FrameDone => \A f \in 1 .. nframes : sent[Max(PacketsOf(f))].marker = 1

(* A marker never comes early: a receiver that cuts the stream after each  *)
(* marker gets no frame split in two, whatever the partitions were.        *)
MarkerEndsFrame ==
  \A i \in 1 .. Len(sent) - 1 :
    sent[i].marker = 1 => frame_of[i + 1] # frame_of[i]

(* The payloads tile each partition: every packet starts where the one     *)
(* before it stopped, or opens a new partition, and exactly those that     *)
(* open one carry the S bit; numbers go up by one, modulo their width.     *)
PayloadsTile ==
  \A i \in 1 .. Len(sent) :
    /\ sent[i].nbytes \in 1 .. PayloadSize
    /\ sent[i].pstart = 1 <=> sent[i].from = 0
    /\ i > 1 =>
         /\ sent[i].seqnum = (sent[i - 1].seqnum + 1) % NSeqnums
         /\ sent[i].from \in {0, sent[i - 1].from + sent[i - 1].nbytes}
         /\ sent[i].from = 0 =>
              \E l \in Layouts : \E k \in DOMAIN l :
                l[k] = sent[i - 1].from + sent[i - 1].nbytes

(* Nothing in the code checks lengths ("vp8 unwrapping needs to check      *)
(* lengths", rxs_depacketizer.c), and numbers are cut to the width of      *)
(* their fields: that the depacketizer finds each field of a packet, and   *)
(* never counts off more than there is, rests on what the packetizer       *)
(* writes, with counters that start anywhere and wrap around.              *)
HeadersUnderstood ==
  sent # <<>> => Agreement(sent[Len(sent)], 7)

(* Two packets in a row share their picture id exactly if they belong to   *)
(* one frame, so the id tells frames apart.  The packet that carries the   *)
(* highest id is the exception: the id falls back to 0 in mid-frame.       *)
PictureIdPerFrame ==
  \A i \in 1 .. Len(sent) - 1 :
    sent[i].picture_id # PictureIdMax =>
      (sent[i].picture_id = sent[i + 1].picture_id <=> frame_of[i] = frame_of[i + 1])

(* A recording holds the frames of the encoder, whole and in order though  *)
(* they come in partitions; every frame it says it has is there, wherever  *)
(* the signal struck; and at most the one that was being written is not    *)
(* counted, unless the program was killed.                                 *)
RecordedWhole ==
  /\ \A k \in DOMAIN frames : frames[k] = made[k].partitions
  /\ header <= Len(frames)
  /\ fp = "closed" => Len(frames) <= header + 1

(* The player cuts the stream at the markers only.  What it gives to the   *)
(* decoder is in order, and parts of two frames are glued together only if *)
(* the last packet of the first one never came.                            *)
GluedOnlyByLoss ==
  \A k \in 1 .. Len(decoded) - 1 :
    /\ decoded[k] < decoded[k + 1]
    /\ frame_of[decoded[k]] # frame_of[decoded[k + 1]] =>
         Max(PacketsOf(frame_of[decoded[k]])) \notin arrived

(* The decoder crashes "when the first partition you pass into this        *)
(* function is not a key frame" (rxs_decoder.c), and nobody tells the      *)
(* streamer that the picture is broken.  Yet the picture is clean again    *)
(* when the player has got all that was sent of KeyEvery + 1 captured      *)
(* frames in a row, though the encoder drops some of them, or of those     *)
(* from the one before a request was answered: the first of them takes     *)
(* what is left of earlier ones out of the buffer.                         *)
PictureRecovers ==
  \A f \in 1 .. nframes - 1 :
    /\ FrameDone /\ net = <<>>
    /\ \A i \in DOMAIN sent : frame_of[i] >= f => i \in arrived
    /\ number[nframes] >= number[f] + KeyEvery \/ asked \cap f + 1 .. nframes # {}
    => picture = "clean"
=============================================================================
