----------------------------- MODULE MCEnqueue -----------------------------
(* Values for the constants of Enqueue: threads that are alike, hence the
   symmetry. *)
EXTENDS Enqueue, TLC

CONSTANTS t1, t2, t3

ThreeThreads == {t1, t2, t3}
Alike == Permutations(Senders)
=============================================================================
