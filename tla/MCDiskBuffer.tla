---------------------------- MODULE MCDiskBuffer ----------------------------
(***************************************************************************)
(* Values for the constants of DiskBuffer.  Bodies of one and two cells    *)
(* against a limit of five make appends that fit, that evict one frame and *)
(* that evict two; a body of six is a frame larger than the whole limit.  *)
(***************************************************************************)
EXTENDS DiskBuffer

Bodies == {1, 2, 6}
TwoBodies == {1, 2}
EveryPoint == PCs
OutsideCompaction == PCs \ {"recursor"}
NoFaults == {}
CleanFaults == {"persist", "rewrite"}
AnyFault == FaultKinds
=============================================================================
