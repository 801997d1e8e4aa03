------------------------------- MODULE Control -------------------------------
(***************************************************************************)
(* rxs_control.c: commands from the receiver of the video to its sender,   *)
(* one datagram each: a running number, four bits of command and four bits *)
(* of count, and as many sequence numbers.                                 *)
(***************************************************************************)
EXTENDS Bytes

CONSTANT ControlMax     \* RXS_CONTROL_MAX_SEQNUM: 15, all that four bits hold

ASSUME ControlMaxAssumption == ControlMax \in 1 .. 15

VARIABLE nr             \* commands sent, rxs_control_sender.nr

KeyFrameCommand == 1
ResendCommand == 2

ControlInit == nr = 0

(* control_write_command *)
CommandByte(command, count) == 16 * (command % 16) + (count % 16)

(* The commands, as datagrams.                                             *)
KeyframeRequest == <<Hi(nr), Lo(nr), CommandByte(KeyFrameCommand, 0)>>

Written(vs) ==
  [k \in 1 .. 2 * Len(vs) |->
     IF k % 2 = 1 THEN Hi(vs[(k + 1) \div 2]) ELSE Lo(vs[k \div 2])]

(* Mutation: the running number is written as one byte.                    *)
PacketsRequestShort(seqnums) ==
  <<Lo(nr), CommandByte(ResendCommand, Len(seqnums))>> \o Written(seqnums)

PacketsRequest(seqnums) ==
  <<Hi(nr), Lo(nr), CommandByte(ResendCommand, Len(seqnums))>>
    \o Written(seqnums)

(* rxs_control_sender_request_packets refuses as many numbers as there is  *)
(* room for.                                                               *)
Refused(seqnums) == seqnums = <<>> \/ Len(seqnums) >= ControlMax

CommandSent == nr' = (nr + 1) % 65536

(* receiver_recv_cb hands on a datagram of at least three bytes.           *)
Heard(d) == Len(d) >= 3

(* What it reads from the datagram: seqnums if the command has any.        *)
Command(d) == d[3] \div 16

SeqnumsOf(d) ==
  IF Command(d) = ResendCommand
  THEN [k \in 1 .. d[3] % 16 |-> Read16(d, 2 * k + 2)]
  ELSE <<>>
=============================================================================
