--------------------------- MODULE MCSenderThread ---------------------------
(* The sender with a handful of chunks.                                    *)
EXTENDS SenderThread

Always == {TRUE}
AtTimes == {TRUE, FALSE}
=============================================================================
