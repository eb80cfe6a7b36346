---------------------------- MODULE MCTransport ----------------------------
(***************************************************************************)
(* Values for the constants of Transport.  Beside a header of two cells in *)
(* a buffer of four, a body of one fits, one of three makes the header     *)
(* leave first, and one of five goes past the buffer.                      *)
(***************************************************************************)
EXTENDS Transport

Bodies == {1, 3, 5}
=============================================================================
