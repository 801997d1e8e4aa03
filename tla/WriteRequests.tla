---------------------------- MODULE WriteRequests ----------------------------
(***************************************************************************)
(* The write requests of streamer/Loop.cpp: a pool that only grows, from   *)
(* which sendTo takes the first free one.  A request is known by its place *)
(* in the pool.                                                            *)
(***************************************************************************)
EXTENDS Integers, Sequences

VARIABLE write_requests

(* Mutation: is_free is not looked at.                                     *)
FirstRequest == IF write_requests = <<>> THEN 1 ELSE Len(write_requests)

(* getFreeWriteRequest: the first that is free, or a new one.              *)
FreeRequest ==
  CHOOSE i \in 1 .. Len(write_requests) + 1 :
    /\ i \in DOMAIN write_requests => write_requests[i].is_free
    /\ \A j \in 1 .. i - 1 : ~write_requests[j].is_free

(* Loop::sendTo: the request i that getFreeWriteRequest gave is filled in. *)
Fill(i, req) ==
  write_requests' = [k \in DOMAIN write_requests \cup {i} |->
                       IF k = i THEN req ELSE write_requests[k]]

(* Mutation: the request is not set free.                                  *)
ResetNothing(i) == UNCHANGED write_requests

(* WriteRequest::reset                                                     *)
Reset(i) ==
  write_requests' = [write_requests EXCEPT
                       ![i] = [is_free |-> TRUE, of |-> 0, to |-> 0,
                               data |-> 0, nbytes |-> 0]]
=============================================================================
