-------------------------------- MODULE Loop --------------------------------
(***************************************************************************)
(* Writing with the event loop of streamer/Loop.cpp.  sendTo only queues a *)
(* request; update registers every queued request with kqueue and handles  *)
(* the events it gets back.  Sender and Controller have a loop and one UDP *)
(* socket each.                                                            *)
(*                                                                         *)
(* kqueue keeps one write event per socket: each registration replaces the *)
(* request of the one before, so an update writes the last request queued, *)
(* and no other, if the socket can take it.                                *)
(***************************************************************************)
EXTENDS Integers, Sequences

VARIABLE write_list     \* WriteRequests not yet executed, oldest first

LoopInit == write_list = <<>>

(* Loop::sendTo refuses a request without bytes; its callers do not notice.*)
SendTo(req, nbytes) ==
  IF nbytes = 0 THEN UNCHANGED write_list
                ELSE write_list' = Append(write_list, req)

(* Mutation: the oldest request is erased, whichever was written.          *)
ExecuteErasesOldest(req) ==
  /\ write_list # <<>>
  /\ req = write_list[Len(write_list)]
  /\ write_list' = Tail(write_list)

(* Loop::update and Loop::send with an event for `req`: it is written, its *)
(* on_write callback called and its entry erased.                          *)
Execute(req) ==
  /\ write_list # <<>>
  /\ req = write_list[Len(write_list)]
  /\ write_list' = SubSeq(write_list, 1, Len(write_list) - 1)

(* Mutation: with one request all those of its socket are erased.          *)
EraseAll(req) == write_list' = <<>>

(* The row without its k-th entry.                                         *)
Removed(row, k) == SubSeq(row, 1, k - 1) \o SubSeq(row, k + 1, Len(row))

(* The end of Loop::send: the entry of the request that was written goes,  *)
(* wherever it stands by now.                                              *)
Erase(req) ==
  \E k \in DOMAIN write_list :
    /\ write_list[k] = req
    /\ \A j \in 1 .. k - 1 : write_list[j] # req
    /\ write_list' = Removed(write_list, k)
=============================================================================
