------------------------------- MODULE Socket -------------------------------
(***************************************************************************)
(* The input buffer of a streamer/Socket and what Loop::recvmsg does with  *)
(* it.  A byte is known by the datagram that brought it: heap[b][k] is the *)
(* one whose byte lies at offset k of block b.  Blocks are never reused;   *)
(* a block that was given back is empty.                                   *)
(***************************************************************************)
EXTENDS Integers, Sequences

CONSTANTS
  Capacity,     \* buffersize of the constructor: 8192
  Uninit,       \* a byte that nothing was ever read into
  Freed         \* a byte of a block given back to malloc

ASSUME CapacityAssumption == Capacity \in Nat \ {0}
ASSUME FreedAssumption == Freed \notin Nat      \* no datagram's number

VARIABLES
  heap, in_buffer,      \* the blocks, and which one in_buffer points to
  in_dx, in_capacity

socketVars == <<heap, in_buffer, in_dx, in_capacity>>

SocketInit ==
  /\ heap = << [k \in 1 .. Capacity |-> Uninit] >>
  /\ in_buffer = 1
  /\ in_dx = 0
  /\ in_capacity = Capacity

Room == in_capacity - in_dx

(* The bytes of a datagram that there is room for.                         *)
Nread(len) == IF len < Room THEN len ELSE Room

(* The buffer after the first n bytes of datagram d were read into it.     *)
ReadInto(d, n) ==
  [k \in 1 .. in_capacity |->
     IF k \in in_dx + 1 .. in_dx + n THEN d ELSE heap[in_buffer][k]]

Doubled(block) ==
  [k \in 1 .. 2 * in_capacity |-> IF k <= in_capacity THEN block[k] ELSE Uninit]

(* Mutation: the new size is not remembered.                               *)
GrowInputBufferOnly(block) ==
  /\ UNCHANGED in_capacity
  /\ heap' = [heap EXCEPT ![in_buffer] = Doubled(block)]
  /\ UNCHANGED in_buffer

(* growInputBuffer: realloc leaves the block where it is, or moves it.     *)
GrowInputBuffer(block) ==
  /\ in_capacity' = 2 * in_capacity
  /\ \/ /\ heap' = [heap EXCEPT ![in_buffer] = Doubled(block)]
        /\ UNCHANGED in_buffer
     \/ /\ heap' = Append([heap EXCEPT ![in_buffer] = <<>>], Doubled(block))
        /\ in_buffer' = Len(heap) + 1

(* recvmsg up to its call of on_read: what does not fit is cut off, and    *)
(* only then does the buffer grow.                                         *)
RecvMsg(d, len) ==
  /\ in_dx' = in_dx + Nread(len)
  /\ \/ /\ len <= Room
        /\ heap' = [heap EXCEPT ![in_buffer] = ReadInto(d, Nread(len))]
        /\ UNCHANGED <<in_buffer, in_capacity>>
     \/ /\ len > Room
        /\ GrowInputBuffer(ReadInto(d, Nread(len)))

(* What sendto finds behind a pointer that it was given some time ago.     *)
Bytes(data, nbytes) ==
  [k \in 1 .. nbytes |-> IF heap[data] = <<>> THEN Freed ELSE heap[data][k]]
=============================================================================
