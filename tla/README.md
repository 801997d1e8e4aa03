# rxs_streamer, in TLA+

rxs_streamer sends live VP8 video over UDP. A camera frame is encoded, cut into RTP packets, sent, collected in a
jitter buffer, put together again and decoded; lost packets are asked for over a second UDP channel. Next to this C
library there is a small C++ one (`streamer/`) with an event loop and a threaded sender.

This directory holds TLA+ models of the parts that carry the logic, TLC configurations that check them on small
instances and proofs, checked by TLAPS, for instances of any size. `PROJECT.json` maps definitions to source lines.
Paths below are relative to the repository (`src/rxs_streamer/...`, `include/...`).

## The system

    encoder -> packetizer -> UDP -> depacketizer -> jitter( reconstruct( packets ) ) -> decoder
                   |                                   |
            packet history  <-- control, over UDP -----+

| Part | State | Operations | What is hard |
|---|---|---|---|
| packet ring, `rxs_packets.c` | slots, write index | next, find by timestamp or number, sort | overwritten without asking; slots start uninitialised; searches are in slot order and cut off at 8 |
| reconstruct, `rxs_reconstruct.c` | ring, highest number, last checked number, key frame seen | add packet, check number, merge | order and repetition of packets, wrap-around, an array of 15 |
| jitter buffer, `rxs_jitter.c` | number of packets, timeout, pointer into the ring | add packet, update (polled) | the pointer outlives what it points at; unsigned time; exit on underrun |
| packetizer, `rxs_packetizer.c` | position in the frame, sequence number, picture id | wrap, one callback a packet | partitions, the last packet, counters that wrap |
| depacketizer, `rxs_depacketizer.c` | the fields of the last packet | unwrap | lengths are not checked |
| control, `rxs_control.c` | counter of commands | request packets, request key frame, on command | lost requests, limits |
| sender, receiver, `rxs_sender.c`, `rxs_receiver.c` | requests under way in libuv | send, on data | UDP: loss, reordering, duplication |
| encoder, decoder | flags; none | encode, request key frame; decode | the decoder must start on a key frame |
| STUN, `rxs_stun.c`, `rxs_stun_io.c` | parse buffer, 16 memory blocks, keepalive time | resolve, send, read, update | blocks shared by reads and sends under way, retries |
| signaling, `rxs_signaling.c` | none (Redis) | store, retrieve, subscribe | two commands that are not one |
| IVF, `rxs_ivf.c` | file, number of frames | create, write, destroy | the count is written at the end only |
| event loop, `streamer/Loop.cpp` | read and write lists, request pools | sendTo, update | one kqueue event per socket, pointers without copies |
| threaded sender, `streamer/Sender.cpp`, `Buffer.cpp` | free and used chunks, a mutex, a condition | getFreeChunk, sendChunk, shutdown, the thread | lost signals, a flag written without the mutex |
| controller, sockets, `streamer/Controller.cpp`, `Socket.cpp` | input buffer, remotes, write requests | add remote, read, forward, grow | a buffer that is reused, and moved, while writes wait |

The C programs are single-threaded: they poll libuv, which runs the callbacks, and then `rxs_jitter_update`. A callback
runs to its end, so one callback with everything it calls is one step. The C++ sender has two threads.

What would make each part correct:
- ring and reconstruct: nothing is lost in silence, nothing is asked for twice, a frame is made of the packets of one
  frame, in order, and the decoder starts on a key frame;
- jitter buffer: frames in order, each at its time, and playback that goes on;
- packetizer: payloads cover the frame, the marker is on the last packet and nowhere else, ids tell frames apart;
- recording: whole frames although they come in partitions, and a count that the file lives up to, however it ends;
- streamer and player: the picture comes back after a loss, although nobody tells the streamer of it;
- both ends together: a lost packet is noticed, asked for and comes;
- threaded sender: a chunk is in one place, is sent once, in order and in the end; shutdown returns;
- packetizer with depacketizer, and control with itself: what is read is what was written, at every value of every field;
- controller: each datagram goes to each remote once, with its length and, in the end, at all;
- STUN and signaling: no block of memory gets lost, what is sent is what was asked for, a streamer learns where the
  player is, however late it subscribes, and the record follows when a NAT changes the address.

## Modules

| Module | Models | State and actions |
|---|---|---|
| `Packets` | `rxs_packets.c` | operators on a ring of slots; `Garbage` is what `malloc` may leave in a slot |
| `Reconstruct` | `rxs_reconstruct.c` | `packets`, `dx`, `prev_seqnum`, `checked_seqnum`, `found_keyframe` are the C fields. `missing` and `frame` are the arguments of the callbacks of the last call. `added`, `lately`, `received`, `reported`, `first_seqnum` and `first_nonzero` are history, which no step depends on. `Receive` is add_packet followed by check_seqnum, `Refuse` is add_packet that fails, `Merge` is merge_packets with its four outcomes |
| `Jitter` | `rxs_jitter.c` | `npackets`, `timeout`, `timestamp_start`, `curr_pkt` are the C fields, `elapsed` is the time since `time_start`. `JitterAdd`, `JitterRefuse`, `UpdateStart`, `UpdatePlay`; `Tick` is the clock |
| `Packetizer` | `rxs_packetizer.c` | `vpx` is the C struct without constants. `Wrap` is the code before the loop, `EmitPacket` one turn of it |
| `Bytes` | the functions that read and write integers in `rxs_packetizer.c`, `rxs_depacketizer.c` and `rxs_control.c` | operators on bytes of a datagram |
| `Rtp` | `packetizer_wrap_rtp`, `packetizer_wrap_vp8`; `rxs_depacketizer.c` | `Wrapped` is the headers of a packet, byte by byte; `Unwrapped` the fields that the depacketizer finds in a datagram, with the optional fields it counts off unchecked |
| `Control` | `rxs_control.c` | `nr` is the running number; `KeyframeRequest` and `PacketsRequest` are the commands as datagrams, `Command` and `SeqnumsOf` what `receiver_recv_cb` reads from one |
| `Ivf` | `rxs_ivf.c`, writing | `fp`, `num_frames`; `header` and `frames` are what is in the file. Frame and count are two steps, as a signal may come between them |
| `Webcam` | `test_rxs_webcam_streamer.cpp`, `test_rxs_glfw_palyer.cpp` as it is built by default, key frame requests of `rxs_encoder.c` | `Packetizer`, `Rtp`, `Control` and `Ivf` with camera, encoder, network and player. `flags` is that of the encoder, `frame_buffer` that of the recording, `data` (its length is `pos` there) and `had_key` the statics of the player; `picture` and `upto` stand for the decoder; `number` and `asked` are history. `Capture` (or `Drop`, when the encoder gives no packet) to `Emit` is the callback of the camera in the order of its calls, `OnSignal` the handler of SIGINT |
| `Stream` | `test_rxs_vpx.c`, `test_rxs_jitter.c`, `rxs_sender.c`, `rxs_control.c` | `Jitter`, `Packetizer`, `Rtp` and `Control` with a network in between, and the sender's packet history. `ctl` holds the commands on their way, as datagrams; `setting` says what the network does and where the counters start |
| `Loop` | `streamer/Loop.cpp`, writing | `write_list`; `SendTo`, `Execute`, and `Erase` where the request need not be the last one any more |
| `WriteRequests` | the pool of write requests in `streamer/Loop.cpp` | `write_requests`; `FreeRequest`, `Fill`, `Reset` |
| `Socket` | `streamer/Socket.cpp` and `recvmsg` of `Loop.cpp` | `in_buffer`, `in_dx`, `in_capacity`; `heap` is the blocks that `in_buffer` has pointed to. `RecvMsg`, `GrowInputBuffer` |
| `Controller` | `streamer/Controller.cpp`, `Loop::update`, `read` and `send` | `Loop`, `Socket` and `WriteRequests` together. `events` is what `kevent` returned and `update` has not handled yet; `Poll`, `Read`, `Forward` (one turn of the loop over the remotes), `ReadDone`, `Send`; `Arrive` and `AddRemote` from outside |
| `SenderThread` | `streamer/Sender.cpp`, `Buffer.cpp` | the lists of chunks, where the thread is (`pc`), its `work`; one action per critical section or statement that other threads can see |
| `StunIo` | `rxs_stun_io.c`, `rxs_stun.c` | `mem` and `is_free` are the blocks, `pos` the parse buffer, `keepalive` stands for `keepalive_timeout`; `inbox`, `queue` and `phase` are the socket's buffer, libuv's write queue and where the turn of its loop is. `OnResolved`, `Read` (on_alloc, on_read and rxs_stun_process), `WriteAll` (on_send_ready), `UpdateKeepalive` |
| `Signaling` | `rxs_signaling.c` | commands on their way to Redis, the record there, notifications on their way back; `StoreAddress`, `Subscribe`, `Notified` |
| `Connect` | `test_rxs_glfw_palyer.cpp`, `test_rxs_webcam_streamer.cpp` with `USE_SIGNALING` | `StunIo` and `Signaling` with a STUN server, a NAT, datagrams that nobody waits for and the streamer's `on_address` |
| `ReconstructProofs`, `JitterProofs`, `SenderThreadProofs`, `ConnectProofs`, `RtpProofs`, `WebcamProofs`, `ControllerProofs`, `StreamProofs` | | theorems |
| `MC...` | | constants and drivers for TLC |

`Rtp` and `Control` extend `Bytes`; `Webcam` extends `Packetizer`, `Rtp`, `Control` and `Ivf`; `Jitter` extends
`Reconstruct`, which extends `Packets`; `Stream` extends `Jitter`, `Rtp` and `Control` and instantiates `Packetizer` and,
for the sender's history, `Packets` a second time; `SenderThread` extends `Loop`; `Controller` extends `Loop`, `Socket` and
`WriteRequests`; `Connect` extends `StunIo` and `Signaling`.

`Reconstruct` doubles as the abstract specification of the jitter buffer: `Reconstruct!Spec` lets the three calls come
in any order with any timestamp, and `Jitter` is shown, by TLC and by proof, to be one way of making them (the
refinement mapping is the identity on the variables they share). What holds of `Spec` therefore holds below the jitter buffer, too.

Some definitions come in two forms, the second marked `Mutation:` in its comment. It is the definition with a
plausible mistake in it (an index that is not reduced modulo the size, a loop that stops early). Replacing the one by
the other must break a property; `PROJECT.json` pairs them under `mutants`. No specification uses them.

## Abstractions and bounds

- Payloads are numbers. The headers of a packet and the commands are bytes (`Rtp`, `Control`), written by the sender's functions
  and read by the receiver's; of the payload behind a header only its length is looked at. The code's bit fields and
  shifts are written with `\div` and `%` for the little-endian machine that it assumes.
- Timestamps: `ToNs` multiplies by an integer, `NsPerTick`. The code computes `t * (1.0/90000) * 10^9` in double and
  truncates. Both are strictly increasing, which is all that the properties use.
- `elapsed` stops at `MaxElapsed`. Every timeout that has not wrapped around is smaller; `TimeoutInReach` says so.
- `timeout` is kept modulo `TimeMod`, which stands for 2^64: a difference below zero becomes one near `TimeMod`.
- Sequence numbers have `NSeqnums` values. The comparison with `prev_seqnum + 1` is made in `int`, as in C.
- `npackets` is counted up to half the ring: it is only ever compared with that.
- The merge buffer (4 MB) holds any 8 slots of 32 KB, so that error return of `rxs_reconstruct_merge_packets` is never
  taken and is left out.
- After `missing_seqnums[]` has been overrun nothing more is said: C gives no meaning to what follows.
- The encoder is any source of frames with partitions from `Layouts`, the last one without the fragment flag. The
  clock of the encoder ticks between two frames: two frames in one millisecond, which would share a timestamp, are
  left out. With `rc_dropframe_thresh` set libvpx drops frames for which it has no bits left: `Webcam` lets it drop
  `MaxDrops` of them, none that must be a key frame (an assumption on libvpx). To `Stream` such a frame is none at all.
- A packetizer is taken to begin with a buffer of zeroes, as those of the programs, which are global, do: the I bit of
  byte 14 is or-ed into what is there.
- `MCWebcam` gives the counters the widths of the code, and starts them just below their ends. `NTimestamps` is a quarter of 2^32
  because TLC's integers end at 2^31; `TicksPerPts` is chosen so that a timestamp still moves in all of its bytes. The last
  packet is checked with partition index 7 (all of its bits set), the delivered one has 0; the proofs take any.
- `Webcam`: `MaxFrames` frames, `MaxLosses` lost datagrams of either direction, `MaxRequests` key frame requests, from
  anyone: the player in its default build makes none. Every second frame is a key frame (`KeyEvery`, 25 in the code), so four frames are
  enough to lose one, join in between and see the picture come back. Datagrams arrive in order and may arrive at any
  time later. The camera's callback runs inside `cap->update()`, on the thread of the program. libvpx makes key frames
  by itself where `KeyFrames` says, the first one here; a frame decodes if all its packets are there and nothing else and
  the frame before it did, or it is a key frame (`Decodes`, an assumption on libvpx). A signal handler is one step.
- `Stream`: `MaxFrames` frames and one of the `Settings`: does the network let datagrams overtake each other, how many
  datagrams of either direction it loses, how many it delivers twice, which sequence number is the first and how many frames
  were encoded before (so that timestamps can start again in mid-stream). One fault at a time, with a loss, keeps the states
  few; the first number is 0 in the setting that reorders, and in one of those that only lose. `Jitter` on its own takes
  every packet in every order and any number of times, number 0 among them, on memory that holds the timestamp of a frame.
- `SenderThread`: `MaxGiven` chunks are handed over. The pool of `WriteRequest`s is left out here: a request is its
  chunk; `Controller` has the pool. `Execute` follows kqueue: a registration replaces the one before it for the same
  socket, so one event comes back, for the request that was queued last.
- `Controller`: `MaxDatagrams` datagrams of `Lengths` (empty, one that fits, one that does not), `MaxRemotes` remotes, a
  buffer of `Capacity` bytes. A byte is the number of the datagram that brought it. `realloc` may move the block or
  not; `malloc` never hands out a block again that was given back, so `Freed` stays visible. A poll that finds nothing is left
  out. What can be read is always reported; the write event comes or not, before or after the read event.
- A sender serves resend requests (`test_rxs_vpx.c`) or ignores them (`test_rxs_webcam_streamer.cpp`): `Servers` says
  which are looked at.
- `StunIo` follows the turn of libuv 0.11's loop: `uv_udp_send` only queues; the socket is read until it is empty, each
  time with `on_alloc`, the read and `on_read` back to back; then the queue is written, all of it or, when the socket
  is not writable, nothing. `getaddrinfo` answers at any time. The final `on_alloc` of a turn, for a read that
  finds nothing, takes a block and gives it back at once, and is left out.
- Messages are kinds with an address. A datagram is a response with XOR-MAPPED-ADDRESS or MAPPED-ADDRESS first, or
  anything that is not parsed; sizes are units. A datagram shorter than a header, which the code parses only if it comes first,
  counts as one that is not parsed. Responses are not matched to requests, in the code as in the model:
  one that comes twice, or late and with the address before the last rebinding, is taken for an answer (`Unasked`). A
  response that names an address which the player never had is left out.
- `KeepaliveDue` happens when nothing is on its way: `keepalive_delay` is 40 seconds.
- A streamer subscribes when it pleases and never goes away. Errors of the connection to Redis are left out, and so is
  `rxs_signal_retrieve_address`, which neither program calls.
- `Connect`: `MaxIntruders` datagrams that nobody waits for (`Unasked`), `MaxLosses` lost requests or answers, `MaxAddr` addresses that the NAT
  gives. Two blocks are as many as a read and the reply to it take; the program has sixteen, and as every block is free
  between two callbacks it never uses a third (the theorems hold for any number).
- Rings have three or four slots where the program has 128: the interesting cases are that the ring is full, that it
  goes round and that a frame lies across its end, and all happen with three. There are 5, 8 or 10 numbers, so that they
  wrap around or do not as the run wants. The proofs do not depend on these sizes.

## Runs

| Run | Specification | Checks | Shows |
|---|---|---|---|
| MCReconstructOverrun | `Spec` | `NoOverrun` | *violated*: three losses in a row where there is room for two |
| MCWebcam | `WebcamSpec` | `WebcamTypeOK`, `MarkerEndsFrame`, `PayloadsTile`, `HeadersUnderstood`, `PictureIdPerFrame`, `RecordedWhole`, `GluedOnlyByLoss`, `PictureRecovers` | four frames of one or two partitions and one that is dropped, counters as wide as in the code that wrap around, a recording, a player that joins at any frame, one loss, one key frame request, SIGINT and a crash at any point |
| MCWebcamFull | `WebcamSpec` | `MarkerOnLast` | *violated*: a last packet that is exactly full |
| MCJitter | `JitterSpec` | `JitterTypeOK`, `GapsAccounted`, `FrameOfArrivals`, `KeyframeFirst`, `ReportsAreNew`, `Spec` | five packets, numbered from 0, one of them too big, in every order and repetition, on three slots whose old contents have the timestamp of a frame, of which at most two are found; the jitter buffer refines `Reconstruct` |
| MCStreamInOrder | `StreamFairSpec` | `StreamTypeOK`, `PlaybackInOrder`, `HolesReported`, `DecoderStartsOnKey`, `ReportedInSight`, `PlaybackNeverStalls` | four frames, two losses, or one with numbers that start at 0, no overtaking; senders that serve resend requests from a history of three, and senders that ignore them |
| MCStreamFaults | `StreamSpec` | `FramesNotMixed`, `LossesReportedUntilWrap`, `RepeatedOnlyIfCopied`, `ExitsWhenDry` | three frames, resends, one loss, and one of: any order of arrival with numbers that start at 0; a datagram that comes twice; sequence numbers that start again within the stream; timestamps that do |
| MCStreamWrap | `StreamSpec` | `LossesReported` | *violated*: a loss after the numbers have wrapped around |
| MCStreamStall | `StreamSpec` | `TimeoutInReach` | *violated*: a late packet in the slot to be played |
| MCSenderThread | `FairSpec` | `TypeOK`, `ChunksConserved`, `SentOnce`, `SentInOrder`, `ShutdownReturns`, `WokenSends` | three chunks, seven payloads of which one is empty, a socket that is busy at times, shutdown at any moment, spurious wake-ups |
| MCSenderThreadLost | `FairSpec` | `GivenIsSent` | *violated*: a signal that nobody waits for |
| MCConnect | `ConnectFairSpec` | `ConnectTypeOK`, `BlocksReturned`, `SpoiltOnlyByOverlap`, `StreamerLearns`, `RecordFollows` | a player behind a NAT that rebinds once, either kind of STUN server, one loss, two datagrams from strangers or repeated or late responses, room for eight responses, a streamer that subscribes at any moment |
| MCController | `ControllerFairSpec` | `ControllerTypeOK`, `ForwardedOnce`, `SentFromItsTime`, `PoolIsQueue`, `EachRemoteServed` | three datagrams of three lengths, one longer than the buffer; two remotes, added at any time; a socket that is writable at times, events in either order |

A violated run checks what a comment or a test of the repository says; `findings` in `PROJECT.json` quotes it. The same
property may hold in one setting and fail in another: `LossesReported` holds, whatever the network does, until the numbers
wrap around, but for one case, which is what `LossesReportedUntilWrap` says. The case: `check_seqnum` takes a `prev_seqnum` of 0
for "no packet yet", so that after a first packet numbered 0 it still waits for the first one, and what is lost before the
next higher one arrives is not noticed (`Unwatched`; `rand()`, which starts the packetizer's numbers, may give 0). `HolesReported`
has this exception and one more: nothing can be known of what was lost in front of the first packet to arrive, so
the frame with which reception begins may be shown without its beginning; that a hole elsewhere is known is the property. `PlaybackInOrder` and `PlaybackNeverStalls` are stated for
senders that ignore requests: a packet that is sent again can land in the slot `curr_pkt` points at and take playback
back, or end it.

`StreamerLearns` and `RecordFollows` presuppose the first response and room in the parse buffer, and both premises say
something about the program: the first request is not tried again, and after 4096 bytes the player does not listen to
its STUN server any more.

Other things the models show the program do, for which no run is kept because nothing in the repository says
otherwise, or because they are the design: the player exits when a poll finds nothing to play next, so a slow sender
ends it (`ExitsWhenDry` says when); a packet that comes late, after it was asked for, or twice takes two slots and is
merged twice (`RepeatedOnlyIfCopied`); a frame across the end of the sequence numbers is sorted end first, and is dropped
because the last packet then has no marker (`FramesNotMixed`); the controller sends a remote what is in the input buffer when
the socket can be written to, which may be a later datagram cut to the length of the one it was queued for, or memory that
`realloc` has freed (`SentFromItsTime` says how far this goes: the bytes are never those of an earlier
datagram, and what was freed shows only after the buffer has grown); it writes the newest request first, so under steady
input an old one would wait for ever; a slot that is
reused shortly before its time makes the next frame play early; a frame with a hole in it is shown when the hole is
not at its end; a key frame may reach the decoder without its first packet; a request that waits in its block is
overwritten by a datagram that is read (the next keepalive makes up for it); after the loss of a marker two frames go to
the decoder as one; a recording that was killed says that it has no frames; the streamer keeps the first address it
hears of although the record moves on.

Deadlock is checked for the threads and for the player with its streamer (the three configurations without
`CHECK_DEADLOCK FALSE`). It is not where the program really stops or the bounds let it run out of input: a jitter buffer
that has called `exit`, a streamer that was stopped, a stream whose frames have all been sent, a controller with nothing left
to do, an overrun array.

### Fairness

`StreamFairSpec` asks for weak fairness of what the two polling loops do (`Partition`, `Emit`, `OnCommand`, `Poll`),
of time, and of the delivery of what the network has not lost. `Encode` is not fair: the camera may stop.
`FairSpec` of `SenderThread` asks for weak fairness of the sender thread's steps, of the steps in which the
application fills a chunk and hands it over, and of a shutdown that has begun. Nothing obliges the application to send or to
shut down, nor `pthread_cond_wait` to wake up by itself. The sender thread leaves the mutex only to wait or to send,
so weak fairness is enough for the application's critical sections in these runs: each of them stays possible once
the thread waits, and every turn of the thread ends there or in a stop.

`ConnectFairSpec`: the player's loop goes round (`WF` of `Player`), its socket is writable time and again (`SF` of
`PlayerWrites`, as weak fairness would let the loop find it busy for ever), the STUN server answers what it is not made to
lose, time passes, Redis works and the streamer polls. Nobody has to subscribe, and no NAT to rebind.

`ControllerFairSpec`: `test_rxs_controller.cpp` calls `update` in an endless loop, hence `WF` of `Poll` and of the four steps in
which events are handled. `SF` of `PollWritable` says that a UDP socket that is asked again and again can be written to
some day; weak fairness is not enough, as the poll is not enabled while events are handled. Nothing has to arrive. As only
`MaxDatagrams` do, `EachRemoteServed` speaks of an input that pauses: the loop writes one request for each poll, the
newest first.

## Proofs

`ReconstructProofs` proves, for a ring of any size, any width of the sequence numbers, any `MaxMissing` and any set of
inputs:

| Theorem | States | Argument |
|---|---|---|
| `TypeCorrect` | `Spec => []TypeOK` | inductive as it stands; `SortedType` says that what qsort may return is a sequence of slots |
| `NoSilentLoss` | `Spec => []GapsAccounted` | `SeqInv`, that is `GapsAccounted` with `HighestSoFar`; `Unwatched` is the one exception |
| `PrevIsHighest` | `Spec => []HighestSoFar` | the same |
| `NoReportTwice` | `Spec => ReportsAreNew` | what is skipped lies above `prev_seqnum`, everything known lies below it |
| `FramesAreClean` | `Spec => []FrameOfArrivals` | `RingInv`: a slot holds a packet that was added or what `malloc` left; `StillThere`: what came with the last `NPackets` calls of `add_packet`, refused ones counted, is in the slots behind `dx`, so the search finds it unless it stops at `MaxSplit` |
| `NoFrameBeforeKey` | `GarbageApart` implies `Spec => []KeyframeFirst` | `KeyInv`: the flag is set only after a packet of a key frame was added |

`HighestSoFar` is what makes `GapsAccounted` usable: without it a number that arrives out of order could lie above
`prev_seqnum`, and a later report could name it again. `NoFrameBeforeKey` needs `GarbageApart`, that no uninitialised
slot whose `nonref` happens to be 0 has the timestamp of a packet: `rxs_packet_init` sets neither, and such a slot passes
for a packet of a key frame. `FrameOfArrivals` needs no such assumption: it says that a slot which was never
written, and takes part because its timestamp matches, adds no byte (`rxs_packet_init` does set `nbytes`). The other assumptions are those of the modules on their constants.

`JitterProofs`, for rings, clocks and inputs of any size:

| Theorem | States | Argument |
|---|---|---|
| `JitterImplementsReconstruct` | `JitterSpec => Spec` | each action is a call of `Reconstruct` or leaves its variables alone; a merge is of a timestamp that a slot has, which needs that `curr_pkt` is a slot while a timeout runs (`PlayInv`) |
| `JitterTypeCorrect` | `JitterSpec => []JitterTypeOK` | the same invariant |
| `JitterKeepsThePromises` | `GapsAccounted`, `ReportsAreNew` and `FrameOfArrivals` of `JitterSpec` | the refinement and the theorems above |

`SenderThreadProofs`, for any number of chunks, any payloads and any length of run:

| Theorem | States | Argument |
|---|---|---|
| `TypeCorrect` | `Spec => []TypeOK` | with `Control`: where the thread is says what `work` and `next` are |
| `ChunksAreConserved` | `Spec => []ChunksConserved` | `Conserved`, the same statement place by place, given `Control` |
| `NothingSentTwice` | `Spec => []SentOnce` | `Payloads`: the payloads of chunks on their way are distinct, handed over, and not sent; this needs `Conserved`, or one chunk could carry its payload twice |
| `OrderIsKept` | `Spec => []SentInOrder` | `InLine`: as long as the socket was never busy, what is sent, written, worked on and used is, read in this order, increasing |

`ConnectProofs`, for any number of blocks from two on, any buffer, any number of addresses, losses and datagrams that nobody waits for:

| Theorem | States | Argument |
|---|---|---|
| `ConnectTypeCorrect` | `ConnectSpec => []ConnectTypeOK` | `pos` never passes `Capacity` because `Fits` is asked first |
| `NeverOutOfBlocks` | `ConnectSpec => []BlocksReturned` | inductive with the types |
| `OverlapOnly` | `ConnectSpec => []SpoiltOnlyByOverlap` | `Lanes`: requests are queued from block 1 and replies from block 2, since everything is free but the block being read; `LaneContents`: what those blocks hold |

`RtpProofs`, for every value of every field:

| Theorem | States | Argument |
|---|---|---|
| `RoundTrip` | `Agreement` for every `WirePacket` and any partition index | a number is put together again from its bytes (`TwoBytes`, `TwoHalves`), flags that share a byte do not disturb each other (`Flags`), nor does the M bit the picture id (`PictureIdBytes`); as X and I are always set and L, T and K never, the header has 16 bytes on both sides |

`WebcamProofs`, for any partitions, any payload size, any number of frames and losses, and counters of any width up to those
of their fields (`WidthsAssumption`), wherever they start:

| Theorem | States | Argument |
|---|---|---|
| `HeadersAlwaysUnderstood` | `WebcamSpec => []HeadersUnderstood` | `Wire`: the packetizer's fields keep their types and every packet sent fits into its headers; then `RoundTrip`. A picture id may be negative in `vpx` (`rand()` starts it), so that it fits is a fact about the remainder that is written |
| `PayloadsAlwaysTile` | `WebcamSpec => []PayloadsTile` | `Tiling` |
| `MarkerAlwaysEndsFrame` | `WebcamSpec => []MarkerEndsFrame` | `Tiling` |
| `WebcamTypes` | `WebcamSpec => []WebcamTypeOK` | `Traffic`: what is on the way, in the player's buffer and in the decoder are packets that were sent, in order, with no marker in the middle |
| `RecordingIsWhole` | `WebcamSpec => []RecordedWhole` | `Recorded`: what is in the frame buffer and what is still to come make up the frame being recorded (`Unwritten`), and the count is behind by one between the two writes of `rxs_ivf_write_frame` only |
| `MarkerAlwaysOnLast` | `LastNotFull` implies `WebcamSpec => []MarkerOnLast` | `Cut` |
| `PictureIdsPerFrame` | `LastNotFull` implies `WebcamSpec => []PictureIdPerFrame` | `Cut`: the id has moved on exactly when the last packet had the marker |
| `FramesGluedOnlyByLoss` | `LastNotFull` implies `WebcamSpec => []GluedOnlyByLoss` | `Cut` and `Traffic`: between two frames in the buffer lies a marker, which has not arrived |
| `PictureAlwaysRecovers` | `LastNotFull` implies `WebcamSpec => []PictureRecovers` | `Recovery`: requests are answered by key frames (`Keys`), and where nothing from a frame on is lost the buffer holds that frame and nothing else, and the decoder is up to the last complete one (`Catching`); among frames that were captured in a row, though some are dropped, the one that is due is there (`Numbered`) |

`Tiling` adds to `Wire` what the properties do not say of the packetizer between two packets. `Going`: what is wrapped and what
is left add up to a partition of the encoder, and no partition follows one without the fragment flag. `Behind`: the packetizer
stands where the last packet ended, and after a marker nothing is left of its frame. `Frames`: no packet belongs to a frame
that has not begun. A last packet that is exactly full, which has no marker (MCWebcamFull), is covered: `MarkerEndsFrame` says that no
marker comes early, not that there is one.

Four of the theorems say more, that there is one, and need `LastNotFull`: no frame of the encoder ends in a payload that is exactly full.
MCWebcamFull shows what happens without: the frame has no marker, so it shares its picture id with the next one and goes to the decoder
together with it. The code does nothing to prevent that; with 700 bytes to a payload one frame in 700 or so is
such a frame.

`ControllerProofs`, for any number of datagrams and remotes, datagrams of any length and an input buffer of any size:

| Theorem | States | Argument |
|---|---|---|
| `ControllerTypes` | `ControllerSpec => []ControllerTypeOK`, in which a queued request points to a block that the heap has or had | `Inv` |
| `ForwardedToEachOnce` | `ControllerSpec => []ForwardedOnce` | `Books`: what was read for a remote is queued or sent, once, and nothing else is (`OnlyDue`, `Once`, `NoneForgotten`) |
| `SentBytesFromTheirTime` | `ControllerSpec => SentFromItsTime` | `Contents`: a waiting request points to bytes of its own datagram or of later ones, or to a block that was given back |
| `PoolGrowsWithQueue` | `ControllerSpec => PoolIsQueue`: as many requests are in use as are queued, and the pool grows only when all are | `Pool`: a request is in `write_list` exactly once if it is not free, and not at all if it is |

`Inv` is the conjunction of `Types`, `Pool`, `Events`, `Buffer`, `Books` and `Contents`. None is inductive alone: that a write event finds its
request in the list needs `Events`, which needs `Pool`, as two events for one request would erase it twice; that a request holds what was
read needs `Buffer`, which says that `in_buffer` is the youngest block and that the others are gone. What `FreedAssumption`
asks, that the mark of a freed block is no datagram's number, belongs to the model and not to the code.

`StreamProofs`, for frames, rings and histories of any size, any network that loses, doubles and reorders, and both kinds of
sender:

| Theorem | States, of `StreamSpec` | Hypotheses | Argument |
|---|---|---|---|
| `StreamTypes` | `StreamTypeOK` | | `Inv` |
| `StreamKeepsTheBooks` | `GapsAccounted`, `ReportsAreNew` | | `Inv`, and the lemmas of `ReconstructProofs` about one call |
| `NoLossInSilence` | `LossesReportedUntilWrap` | `NSeqnums > 1` | `Rising`: until they start again, numbers lie as far apart as the packets, so what was sent after the first to arrive lies above its number |
| `RepeatsAreExcused` | `RepeatedOnlyIfCopied` | | `Once`: a payload that was neither doubled nor asked for is in one place, on the way or in a slot |
| `ShownFramesAreUnmixed` | `ShortFrames => FramesNotMixed` | `TimesApart`, `MemoryApart` | `Numbered`, `Cutting`, `MarkerEnds` |
| `HolesAreKnown` | `HolesReported`, until the numbers start again | `TimesApart`, `NSeqnums > 1` | `Rising`, `MarkerEnds`; `Contiguous`: the packets of a frame follow one another; `NothingBefore`: in order, nothing comes from in front of the first packet to arrive |
| `DecoderGetsKeyFirst` | `DecoderStartsOnKey` | `TimesApart`, `MemoryApart` | `KeyFirst`: the flag is set with the first frame shown, in which one packet is of a key frame; all of its packets are of one frame |
| `NoEarlyExit` | `ExitsWhenDry` | `ZeroedMemory`, `NPackets > 1` | `Dry`: no slot is later than the one played; `NoLater` says so of `jitter_next_packet` |
| `NeverBackwards` | `PlaybackInOrder` | `InOrder`, `TimesAscend`, `TimesInReach`, `ZeroedMemory` | `Passing`, `Ascending`, `Forward`: what arrives is later than what is in the ring, so the slot to be played never moves back |
| `NumbersStayInSight` | `ReportedInSight`, until the numbers start again | `InOrder`, `ControlMax > 1`, `NSeqnums > 1` | `Requests`, `Sight` |

The inductive invariant of all of them is `Inv`, a conjunction of what each part of the path keeps for itself: `Sending` (packets sent fit their
headers and carry numbers), `Remembering` (a slot of the history holds the packet that its number says, or was never written), `Receiving`
(what the receiver has is what was sent, field by field, through headers and back: here `RoundTrip` and the invariants of `Reconstruct` and
`Jitter` come in), `Underway`, `Asking` (a request names reported numbers only, byte by byte: `RequestRead`) and `Showing` (a frame
shown is clean in the sense of `FrameFromOneTimestamp`, the first half of `FrameOfArrivals`). The theorems on frames add `Cutting`, which ties a packet to the frame it was cut
from, and `MarkerEnds`, that a packet with the marker is the last of its time. `Requests` says where a packet is that has not arrived: with one loss
at most one packet is neither there nor on its way (`Strays`); packets overtake each other only where they are sent again
(`Queue`), so whatever is skipped has got lost, is a single number (`SkippedIsAstray`), and its request has room for it and is the first not to be lost;
and as long as the history has slots that nobody has written to, those with packets lie below them (`Fresh`), so the search by number, which takes the lowest slot,
does not stop at what `malloc` left there.

What the hypotheses ask of the constants, and why the code grants it:
- `TimesApart`, `TimesAscend`: no two frames have the same RTP timestamp, or the timestamps rise until the end. 32 bits of a 90 kHz clock last for 13 hours.
- `ZeroedMemory`, `MemoryApart`: an untouched slot holds timestamp 0, or none of a frame. The ring is 4 MB, which `malloc` takes
  from the system, zeroed; frames count from 1. Timestamps that start again may pass 0: that setting of MCStreamFaults is not covered by the theorem, and TLC finds
  no violation there.
- `ShortFrames`: a frame has fewer packets than there are sequence numbers, 65536 or, at 700 bytes, 45 MB.
- `TimesInReach`: a timestamp in nanoseconds fits into 64 bits (2^32 ticks are 4.8 * 10^13 ns).
- `InOrder`: the network neither reorders nor doubles. It is part of what the properties say (`MCStreamInOrder` checks them under it): with a
  datagram that overtakes another, a packet may land in the slot that is about to be played, and a number reported may be on its way unlost.
- `NPackets > 1`, `NSeqnums > 1`, `ControlMax > 1`: 128, 65536 and 15 in the code.

The runs' constants satisfy all of them but where the list says otherwise, so the theorems are about states that the runs reach, too.

The library's induction principles take an operator as a parameter, which no prover here can instantiate. Where induction is needed (a
row of which nothing was left out is the whole row; a nonempty set of slots has a first one; playback has a next frame), the proofs take the least element of a set of
numbers instead, which `WFMin` provides for `<` on `Nat`, and show that it contradicts itself (`LeastElement`).

All safety properties that a passing run checks are proved, for the specification or, where the tables say so, under a hypothesis. Only model-checked: liveness (`PlaybackNeverStalls`,
`EachRemoteServed`, `ShutdownReturns`, `WokenSends`, `StreamerLearns`, `RecordFollows`), which is beyond the proof system, as is `ENABLED`. Only
proved: `HighestSoFar` and `TypeOK` of `Reconstruct`, which no run lists because `JitterTypeOK` and `GapsAccounted` are checked with the same inputs.

## Not modelled, and the plan

Left out for good: the reading half of `rxs_ivf.c`, which no program calls, the picture generator and the FEC experiment (no
state that anything depends on), the C++ receiver (a constructor and nothing else), TCP sockets of the event loop, which no
program makes, libuv's error returns, and the vendored libraries.

The player has two other builds. With `USE_JITTER` it is wired as `test_rxs_jitter.c` is, which `Stream` models. With
`USE_RECONSTRUCT` it calls `rxs_reconstruct_merge_packets` with the RTP timestamp of the packet
(`examples/test_rxs_glfw_palyer.cpp:430`) while the ring holds nanoseconds, so that only timestamp 0 is ever merged, and it
asks for a key frame at most once: there is little left to check, and it is not modelled.

Still to come, in this order:
1. `rxs_signal_retrieve_address` with its callback, and connections to Redis that fail.
2. Datagrams that no packetizer wrote: what the depacketizer counts off may be more than there is (`len` below zero); today
   `HeadersUnderstood` says that this does not happen between the programs of the repository.
3. STUN messages byte by byte, on top of `Bytes`.

New parts join the runs of the modules they extend where they can, so that a run stays one question.

Theorems worth proving next: that `StreamSpec` keeps to `JitterSpec` with `Inputs` as wide as `Packet`, as one refinement instead of the lemmas that `Receiving` now
cites; what `PlaybackInOrder` becomes for a sender that answers requests (a bound on how far playback is taken back); `ReportedInSight` with as
many losses as there are requests; that a sender with `Kept` numbers answers them in the order asked.
