--------------------------- MODULE MCInstruments ---------------------------
(***************************************************************************)
(* Values for the constants of Instruments: one instrument of each kind,   *)
(* and a second counter that is cumulative; counters wrap at four.  The    *)
(* two halves of the module only meet in a stamp, so a behaviour goes far  *)
(* in one of them or a little way in both.                                 *)
(***************************************************************************)
EXTENDS Instruments

CONSTANTS w1, w2, a1, a2

TwoWorkers == {w1, w2}
TwoCallers == {a1, a2}
BackAndForth == {-3, 3}
TwoCounters == {"uploads", "bytes"}
OneCumulative == {"bytes"}
OneHistogram == {"latency"}
OneGauge == {"pool"}
Locking == [g \in Gauges |-> "lock"]
Nothing == {}
OneOrThree == {1, 3}

TimeRuns == [time |-> 4, jumps |-> 1, workers |-> {w1, w2}, passes |-> 0, calls |-> 0, adds |-> 0]
ClockJumps == [time |-> 4, jumps |-> 2, workers |-> {w1}, passes |-> 0, calls |-> 0, adds |-> 0]
CountersRun == [time |-> 0, jumps |-> 0, workers |-> {}, passes |-> 2, calls |-> 1, adds |-> 3]
PoolFills == [time |-> 0, jumps |-> 0, workers |-> {}, passes |-> 1, calls |-> 3, adds |-> 0]
BothMeet  == [time |-> 1, jumps |-> 0, workers |-> {w1}, passes |-> 1, calls |-> 1, adds |-> 0]
FivePlans == {TimeRuns, ClockJumps, CountersRun, PoolFills, BothMeet}
=============================================================================
