-------------------------------- MODULE Ivf --------------------------------
(***************************************************************************)
(* rxs_ivf.c, writing: a header with the number of frames, then the frames *)
(* one after the other.  The number in the file is that of the day it was  *)
(* created, 0, until rxs_ivf_destroy writes it again.                      *)
(***************************************************************************)
EXTENDS Naturals, Sequences

VARIABLES
  fp,            \* "none" (not recording), "open" or "closed"
  num_frames,    \* of struct rxs_ivf
  header,        \* the number of frames that the file says it has
  frames         \* the file: the frames that are completely in it

ivfVars == <<fp, num_frames, header, frames>>

(* rxs_ivf_init, and rxs_ivf_create with rxs_ivf_write_header.             *)
IvfInit(use) ==
  /\ fp = IF use THEN "open" ELSE "none"
  /\ num_frames = 0
  /\ header = 0
  /\ frames = <<>>

(* rxs_ivf_write_frame, up to and with its fflush.                         *)
WriteFrame(frame) ==
  /\ frames' = Append(frames, frame)
  /\ UNCHANGED <<fp, num_frames, header>>

(* The end of rxs_ivf_write_frame.                                         *)
CountFrame ==
  /\ num_frames' = num_frames + 1
  /\ UNCHANGED <<fp, header, frames>>

(* Mutation: the number of frames is one ahead when a signal comes between *)
(* the two halves of rxs_ivf_write_frame.                                  *)
DestroyRoundsUp ==
  /\ fp = "open"
  /\ fp' = "closed"
  /\ header' = num_frames + 1
  /\ UNCHANGED <<num_frames, frames>>

(* rxs_ivf_destroy *)
Destroy ==
  /\ fp = "open"
  /\ fp' = "closed"
  /\ header' = num_frames
  /\ UNCHANGED <<num_frames, frames>>
=============================================================================
