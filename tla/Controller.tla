----------------------------- MODULE Controller -----------------------------
(***************************************************************************)
(* The proxy of streamer/Controller.cpp with its Loop and its UDP socket:  *)
(*                                                                         *)
(*   sender -> socket -> in_buffer -> one write request per remote         *)
(*                           ^                 |                           *)
(*                           +--- a pointer ---+                           *)
(*                                                                         *)
(* Poll is the kevent call of Loop::update; the events it gets are handled *)
(* one after the other before the next call, and the loop over the remotes *)
(* in on_read is taken in single turns.  Datagrams come in at any time:    *)
(* number d is the d-th to arrive, remote r the r-th to be added.          *)
(***************************************************************************)
EXTENDS Loop, Socket, WriteRequests, FiniteSets

CONSTANTS
  Lengths,          \* of datagrams
  MaxDatagrams,     \* bound: datagrams that arrive
  MaxRemotes        \* bound: remotes added

ASSUME ControllerAssumption ==
  /\ Lengths \subseteq Nat
  /\ MaxDatagrams \in Nat /\ MaxRemotes \in Nat

VARIABLES
  length,       \* the datagrams that have arrived
  nread,        \* how many of them have been read
  nremotes,
  events,       \* trigger_list: what update still has to handle
  forwarding,   \* the remote that on_read is at, 0 outside of on_read
  owed,         \* history: <<datagram, remote>> that on_read was to forward
  sent          \* history: what was given to sendto

loopVars == <<write_list, write_requests, events>>
controllerVars == <<loopVars, socketVars, length, nread, nremotes, forwarding,
                    owed, sent>>

ControllerInit ==
  /\ LoopInit /\ SocketInit
  /\ write_requests = <<>>
  /\ length = <<>> /\ nread = 0
  /\ nremotes = 0
  /\ events = <<>>
  /\ forwarding = 0
  /\ owed = {} /\ sent = <<>>

Arrive ==
  /\ Len(length) < MaxDatagrams
  /\ \E len \in Lengths : length' = Append(length, len)
  /\ UNCHANGED <<loopVars, socketVars, nread, nremotes, forwarding, owed, sent>>

AddRemote ==
  /\ events = <<>> /\ nremotes < MaxRemotes
  /\ nremotes' = nremotes + 1
  /\ UNCHANGED <<loopVars, socketVars, length, nread, forwarding, owed, sent>>

-----------------------------------------------------------------------------
(* Loop::update *)

ReadEvent == [filter |-> "read", udata |-> 0]
WriteEvent(i) == [filter |-> "write", udata |-> i]

Readable == IF nread < Len(length) THEN {ReadEvent} ELSE {}

(* Of all the requests in write_list kqueue knows the last one.            *)
Writable ==
  IF write_list = <<>> THEN {} ELSE {WriteEvent(write_list[Len(write_list)])}

Orders(S) ==
  {q \in [1 .. Cardinality(S) -> S] : \A i, j \in DOMAIN q : q[i] = q[j] => i = j}

(* What can be read is always reported; whether the socket can be written  *)
(* to is up to the system.                                                 *)
Poll ==
  /\ events = <<>>
  /\ \E ready \in {Readable, Readable \cup Writable} :
       ready # {} /\ events' \in Orders(ready)
  /\ UNCHANGED <<write_list, write_requests, socketVars, length, nread,
                 nremotes, forwarding, owed, sent>>

Handling(filter) == events # <<>> /\ Head(events).filter = filter

(* Loop::read, up to the loop of on_read.                                  *)
Read ==
  /\ Handling("read") /\ forwarding = 0
  /\ nread' = nread + 1
  /\ RecvMsg(nread', length[nread'])
  /\ forwarding' = 1
  /\ owed' = IF length[nread'] = 0 THEN owed
             ELSE owed \cup ({nread'} \X (1 .. nremotes))
  /\ UNCHANGED <<loopVars, length, nremotes, sent>>

(* One turn of the loop of on_read: SocketUDP::sendTo and Loop::sendTo.    *)
Forward ==
  /\ forwarding \in 1 .. nremotes
  /\ SendTo(FreeRequest, in_dx)
  /\ IF in_dx = 0 THEN UNCHANGED write_requests
     ELSE Fill(FreeRequest, [is_free |-> FALSE, of |-> nread, to |-> forwarding,
                             data |-> in_buffer, nbytes |-> in_dx])
  /\ forwarding' = forwarding + 1
  /\ UNCHANGED <<socketVars, events, length, nread, nremotes, owed, sent>>

(* Mutation: in_dx is left where it is.                                    *)
ReadDoneKeepsDx ==
  /\ forwarding = nremotes + 1
  /\ forwarding' = 0
  /\ events' = Tail(events)
  /\ UNCHANGED <<write_list, write_requests, socketVars, length, nread,
                 nremotes, owed, sent>>

(* The end of on_read.                                                     *)
ReadDone ==
  /\ forwarding = nremotes + 1
  /\ in_dx' = 0
  /\ forwarding' = 0
  /\ events' = Tail(events)
  /\ UNCHANGED <<write_list, write_requests, heap, in_buffer, in_capacity,
                 length, nread, nremotes, owed, sent>>

(* Loop::send and on_write.                                                *)
Send ==
  /\ Handling("write")
  /\ LET i == Head(events).udata
         req == write_requests[i]
     IN  /\ sent' = Append(sent, [of |-> req.of, to |-> req.to,
                                  bytes |-> Bytes(req.data, req.nbytes)])
         /\ Reset(i)
         /\ Erase(i)
  /\ events' = Tail(events)
  /\ UNCHANGED <<socketVars, length, nread, nremotes, forwarding, owed>>

ControllerNext ==
  \/ Arrive
  \/ AddRemote
  \/ Poll
  \/ Read
  \/ Forward
  \/ ReadDone
  \/ Send

ControllerSpec == ControllerInit /\ [][ControllerNext]_controllerVars

PollWritable == Poll /\ \E k \in DOMAIN events' : events'[k].filter = "write"

(* test_rxs_controller.cpp calls update in an endless loop, and a UDP      *)
(* socket that is asked again and again can be written to some day.        *)
ControllerFairSpec ==
  /\ ControllerSpec
  /\ WF_controllerVars(Poll)
  /\ SF_controllerVars(PollWritable)
  /\ WF_controllerVars(Read)
  /\ WF_controllerVars(Forward)
  /\ WF_controllerVars(ReadDone)
  /\ WF_controllerVars(Send)

-----------------------------------------------------------------------------
ControllerTypeOK ==
  /\ write_list \in Seq(DOMAIN write_requests)
  /\ \A i \in DOMAIN write_requests : write_requests[i].is_free \in BOOLEAN
  /\ \A k \in DOMAIN write_list :
       write_requests[write_list[k]].data \in DOMAIN heap
  /\ in_buffer = Len(heap)
  /\ in_dx \in 0 .. in_capacity
  /\ Len(heap[in_buffer]) = in_capacity
  /\ nread \in 0 .. Len(length)
  /\ forwarding \in 0 .. nremotes + 1
  /\ forwarding # 0 => Handling("read")

Queued(d, r) ==
  {k \in DOMAIN write_list : /\ write_requests[write_list[k]].of = d
                             /\ write_requests[write_list[k]].to = r}

SentTo(d, r) == {k \in DOMAIN sent : sent[k].of = d /\ sent[k].to = r}

(* Each datagram is queued for and given to each remote once, though the   *)
(* requests that stand for them are used over and over and leave the list  *)
(* from its end while on_read appends to it; an empty one is not sent.     *)
ForwardedOnce ==
  \A d \in 1 .. MaxDatagrams, r \in 1 .. MaxRemotes :
    Cardinality(Queued(d, r)) + Cardinality(SentTo(d, r)) =
      IF <<d, r>> \in owed /\ (d < nread \/ forwarding \notin 1 .. r)
      THEN 1 ELSE 0

(* What leaves the socket for a datagram has its length and none of the    *)
(* bytes of earlier ones, and is that datagram unless another one has been *)
(* read since it was queued; freed memory is sent only when the buffer was *)
(* moved in between (Controller::on_read keeps a pointer into in_buffer).  *)
SentFromItsTime ==
  [][\A k \in Len(sent) + 1 .. Len(sent') :
       LET s == sent'[k]
           bytes == {s.bytes[n] : n \in DOMAIN s.bytes}
       IN  /\ length[s.of] <= Capacity => Len(s.bytes) = length[s.of]
           /\ Freed \in bytes => s.of < nread /\ Len(heap) > 1
           /\ bytes \subseteq s.of .. nread \cup {Freed}]_controllerVars

(* The requests in use are those that wait to be written, and one is only *)
(* made when all of the others wait: the pool is as large as the longest   *)
(* queue so far, and the "Looks like their not set free" of                *)
(* getFreeWriteRequest is not true of the Controller.                      *)
PoolIsQueue ==
  [][LET queued == {write_list'[k] : k \in DOMAIN write_list'}
         used == {i \in DOMAIN write_requests' : ~write_requests'[i].is_free}
     IN  /\ used = queued
         /\ Len(write_requests') > Len(write_requests) =>
              queued = DOMAIN write_requests']_controllerVars

(* When the input pauses every remote gets its datagram in the end,        *)
(* although each update writes only one request.                           *)
EachRemoteServed ==
  \A d \in 1 .. MaxDatagrams, r \in 1 .. MaxRemotes :
    <<d, r>> \in owed ~> SentTo(d, r) # {}
=============================================================================
