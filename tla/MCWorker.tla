------------------------------ MODULE MCWorker ------------------------------
(***************************************************************************)
(* Values for the constants of Worker.  A batch of two entries and a       *)
(* channel of one or two messages make queues that stay short of a batch,  *)
(* that fill one and that leave a remainder.                               *)
(***************************************************************************)
EXTENDS Worker

CONSTANTS f1, c1

Events == {"events"}
OneFlush == {f1}
OneClose == {c1}
NoRequests == {}
Buffered == {TRUE}
BufferedOrNot == BOOLEAN
NonZero == {1}
ZeroOrNot == {0, 1}
=============================================================================
