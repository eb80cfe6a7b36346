---------------------------- MODULE MCHistogram ----------------------------
(* Values for the constants of Histogram: one value on the lower bound,
   one that only the catch-all bucket counts, observers that are alike. *)
EXTENDS Histogram, TLC

CONSTANTS o1, o2

TwoObservers == {o1, o2}
Observed == {2, 3}
TwoBounds == <<2, 9>>
Alike == Permutations(Observers)
=============================================================================
