----------------------------- MODULE FrameSender -----------------------------
(***************************************************************************)
(* What TcpTransport (crates/tell/src/transport.rs) promises the worker:   *)
(* frames are attempted one at a time, an attempt hands its frame over     *)
(* whole and once or not at all, and it ends with Ok only when it did.     *)
(* An attempt that fails may have handed the frame over all the same, so   *)
(* the caller that tries again may be heard twice, once per attempt.       *)
(***************************************************************************)
EXTENDS Naturals, Sequences

CONSTANTS Frame, NoFrame

VARIABLES
    attempt,        \* the frame being sent, or NoFrame
    reached,        \* whether this attempt has handed it over
    delivered,      \* frames handed over whole, in their order
    outcome,        \* how the last attempt ended
    open            \* whether there may be another

vars == <<attempt, reached, delivered, outcome, open>>

Init ==
    /\ attempt = NoFrame /\ reached = FALSE
    /\ delivered = <<>> /\ outcome = "none" /\ open = TRUE

Begin(f) ==
    /\ open /\ attempt = NoFrame
    /\ attempt' = f
    /\ UNCHANGED <<reached, delivered, outcome, open>>

Deliver ==
    /\ attempt # NoFrame /\ ~reached
    /\ reached' = TRUE
    /\ delivered' = Append(delivered, attempt)
    /\ UNCHANGED <<attempt, outcome, open>>

End(how) ==
    /\ attempt # NoFrame /\ (how = "ok" => reached)
    /\ attempt' = NoFrame /\ reached' = FALSE
    /\ outcome' = how
    /\ UNCHANGED <<delivered, open>>

\* The transport is closed, or the worker drops the attempt and closes it.
Stop ==
    /\ open /\ open' = FALSE
    /\ attempt' = NoFrame /\ reached' = FALSE
    /\ UNCHANGED <<delivered, outcome>>

Next ==
    \/ \E f \in Frame : Begin(f)
    \/ Deliver \/ End("ok") \/ End("failed") \/ Stop

Spec == Init /\ [][Next]_vars
==============================================================================
