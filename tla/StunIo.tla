------------------------------- MODULE StunIo -------------------------------
(***************************************************************************)
(* The player's STUN client: rxs_stun.c, which makes and parses messages,  *)
(* and rxs_stun_io.c, which keeps the socket, the memory blocks and the    *)
(* keepalive.                                                              *)
(*                                                                         *)
(* The client polls libuv.  A turn of the loop reads the socket until it   *)
(* is empty, each time with on_alloc and on_read back to back, writes what *)
(* is queued, and then looks at the keepalive: phase says which is next.   *)
(***************************************************************************)
EXTENDS Integers, Sequences

CONSTANTS
  NBlocks,          \* RXS_STUN_IO_NUM_MEM_BLOCKS
  Capacity,         \* bytes in rxs_stun's buffer: 4096
  ResponseBytes,    \* bytes in a binding response
  OtherBytes,       \* bytes in any other datagram
  Addrs             \* addresses a STUN server may report

ASSUME NBlocksAssumption == NBlocks \in Nat \ {0, 1}
ASSUME BytesAssumption ==
  /\ Capacity \in Nat
  /\ ResponseBytes \in Nat \ {0}
  /\ OtherBytes \in Nat \ {0}
ASSUME AddrsAssumption == Addrs # {} /\ 0 \notin Addrs

Blocks == 1 .. NBlocks
NoAddr == 0

(* What comes in: a binding response whose first attribute is an           *)
(* XOR-MAPPED-ADDRESS or a MAPPED-ADDRESS, or anything that is not parsed. *)
Datagrams == [kind : {"xor", "mapped"}, addr : Addrs]
               \cup [kind : {"other"}, addr : {NoAddr}]

(* What goes out: binding requests, and replies to a MAPPED-ADDRESS.       *)
Request == [kind |-> "request", addr |-> NoAddr]
Reply(d) == [kind |-> "reply", addr |-> d.addr]
Messages == {Request} \cup {Reply(d) : d \in Datagrams}

Blank == [kind |-> "blank", addr |-> NoAddr]

VARIABLES
  state,            \* RXS_SIO_STATE_NONE or RXS_SIO_STATE_RESOLVED
  phase,            \* next in the turn of the loop: "socket" or "keepalive"
  inbox,            \* datagrams in the socket's receive buffer
  mem, is_free,     \* the memory blocks
  queue,            \* libuv's write queue: block, and the message asked for
  pos,              \* bytes in the parse buffer
  keepalive         \* keepalive_timeout: "off" is 0, "due" has passed

stunVars == <<state, phase, inbox, mem, is_free, queue, pos, keepalive>>

StunInit ==
  /\ state = "none"
  /\ phase = "socket"
  /\ inbox = <<>>
  /\ mem = [b \in Blocks |-> Blank]
  /\ is_free = [b \in Blocks |-> TRUE]
  /\ queue = <<>>
  /\ pos = 0
  /\ keepalive = "off"

-----------------------------------------------------------------------------
(* find_free_mem_block                                                     *)
FirstFree(free) ==
  CHOOSE b \in Blocks : free[b] /\ \A c \in Blocks : free[c] => b <= c

(* stun_send: the message is copied into a block, which is not marked as   *)
(* taken, and queued.                                                      *)
StunSend(blocks, free, msg) ==
  LET b == FirstFree(free)
  IN  /\ mem' = [blocks EXCEPT ![b] = msg]
      /\ queue' = Append(queue, [block |-> b, msg |-> msg])

(* on_resolved: open the socket, send the first binding request.           *)
OnResolved ==
  /\ state = "none"
  /\ state' = "resolved"
  /\ StunSend(mem, is_free, Request)
  /\ UNCHANGED <<phase, inbox, is_free, pos, keepalive>>

Nbytes(d) == IF d.kind = "other" THEN OtherBytes ELSE ResponseBytes

(* Mutation: a message that fills the buffer to the brim is refused.       *)
FitsOffByOne(d) == Capacity - pos > Nbytes(d)

(* Mutation: nobody looks at what is left of the buffer.                   *)
FitsAlways(d) == TRUE

(* rxs_stun_process appends each datagram to its buffer, or refuses it.    *)
Fits(d) == Capacity - pos >= Nbytes(d)

(* A response is told to the user with on_address.                         *)
Learned(d) == Fits(d) /\ d.kind = "xor"

(* Mutation: the block is given back before the datagram is processed.     *)
OnReadFreesFirst(d) ==
  /\ LET block == FirstFree(is_free)
         blocks == [mem EXCEPT ![block] = d]
     IN  /\ IF Fits(d) /\ d.kind = "mapped"
            THEN StunSend(blocks, is_free, Reply(d))
            ELSE mem' = blocks /\ UNCHANGED queue
         /\ UNCHANGED is_free
  /\ pos' = IF Fits(d) THEN pos + Nbytes(d) ELSE pos
  /\ keepalive' = IF Learned(d) THEN "armed" ELSE keepalive

(* Mutation: an error of rxs_stun_process returns without the block.       *)
OnReadKeepsBlock(d) ==
  /\ LET block == FirstFree(is_free)
         blocks == [mem EXCEPT ![block] = d]
         taken == [is_free EXCEPT ![block] = FALSE]
     IN  /\ IF Fits(d) /\ d.kind = "mapped"
            THEN StunSend(blocks, taken, Reply(d))
            ELSE mem' = blocks /\ UNCHANGED queue
         /\ is_free' = [taken EXCEPT ![block] = Fits(d)]
  /\ pos' = IF Fits(d) THEN pos + Nbytes(d) ELSE pos
  /\ keepalive' = IF Learned(d) THEN "armed" ELSE keepalive

(* on_alloc, the read, and on_read with rxs_stun_process: the block is     *)
(* taken while a reply is made, and free afterwards.                       *)
OnRead(d) ==
  /\ LET block == FirstFree(is_free)
         blocks == [mem EXCEPT ![block] = d]
         taken == [is_free EXCEPT ![block] = FALSE]
     IN  /\ IF Fits(d) /\ d.kind = "mapped"
            THEN StunSend(blocks, taken, Reply(d))
            ELSE mem' = blocks /\ UNCHANGED queue
         /\ is_free' = [taken EXCEPT ![block] = TRUE]
  /\ pos' = IF Fits(d) THEN pos + Nbytes(d) ELSE pos
  /\ keepalive' = IF Learned(d) THEN "armed" ELSE keepalive

Read ==
  /\ state = "resolved" /\ phase = "socket" /\ inbox # <<>>
  /\ inbox' = Tail(inbox)
  /\ OnRead(Head(inbox))
  /\ UNCHANGED <<state, phase>>

(* The messages that leave the socket are what is in the blocks by then.   *)
Written == [i \in DOMAIN queue |-> mem[queue[i].block]]

(* The socket takes the whole queue: on_send_ready gives the blocks back.  *)
WriteAll ==
  /\ phase = "socket" /\ inbox = <<>> /\ queue # <<>>
  /\ queue' = <<>>
  /\ is_free' = [b \in Blocks |->
                   is_free[b] \/ \E i \in DOMAIN queue : queue[i].block = b]
  /\ phase' = "keepalive"
  /\ UNCHANGED <<state, inbox, mem, pos, keepalive>>

(* There is nothing to write, or the socket is not writable.               *)
WriteNone ==
  /\ phase = "socket" /\ inbox = <<>>
  /\ phase' = "keepalive"
  /\ UNCHANGED <<state, inbox, mem, is_free, queue, pos, keepalive>>

(* Mutation: the timeout is not set again.                                 *)
UpdateKeepaliveOnce ==
  /\ phase = "keepalive"
  /\ phase' = "socket"
  /\ IF keepalive = "due"
     THEN StunSend(mem, is_free, Request) /\ keepalive' = "off"
     ELSE UNCHANGED <<mem, queue, keepalive>>
  /\ UNCHANGED <<state, inbox, is_free, pos>>

(* rxs_stun_io_update after uv_run.                                        *)
UpdateKeepalive ==
  /\ phase = "keepalive"
  /\ phase' = "socket"
  /\ IF keepalive = "due"
     THEN StunSend(mem, is_free, Request) /\ keepalive' = "armed"
     ELSE UNCHANGED <<mem, queue, keepalive>>
  /\ UNCHANGED <<state, inbox, is_free, pos>>

-----------------------------------------------------------------------------
StunTypeOK ==
  /\ state \in {"none", "resolved"}
  /\ phase \in {"socket", "keepalive"}
  /\ inbox \in Seq(Datagrams)
  /\ mem \in [Blocks -> Datagrams \cup Messages \cup {Blank}]
  /\ is_free \in [Blocks -> BOOLEAN]
  /\ queue \in Seq([block : Blocks, msg : Messages])
  /\ pos \in 0 .. Capacity
  /\ keepalive \in {"off", "armed", "due"}

(* Between two callbacks every block is free, whatever became of the       *)
(* datagram that was read: on_alloc, which ends the program when it finds  *)
(* none, always finds one.                                                 *)
BlocksReturned == \A b \in Blocks : is_free[b]

(* stun_send leaves its block marked as free, so a queued message may be   *)
(* written over before it leaves.  No more than this can happen to it: a   *)
(* request gives way to a datagram that is read (which lands in the first  *)
(* block), a reply to a later reply (they are made while the first block   *)
(* is taken); never one to the other.                                      *)
SpoiltOnlyByOverlap ==
  \A i \in DOMAIN queue :
    LET now == mem[queue[i].block]
    IN  \/ now = queue[i].msg
        \/ queue[i].msg = Request /\ now \in Datagrams
        \/ queue[i].msg # Request /\ \E j \in DOMAIN queue :
                                       j > i /\ queue[j].msg = now
=============================================================================
