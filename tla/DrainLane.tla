------------------------------ MODULE DrainLane ------------------------------
(***************************************************************************)
(* What the coordinator promises of one lane, after the header comment of  *)
(* packages/core/src/session/run-coordinator.ts:13-28 and its state        *)
(* diagram: idle --run/wake--> draining --run/wake--> draining + one        *)
(* coalesced rerun --> idle.  There are no entries, fibers or sequence     *)
(* numbers: only the drain that owns the lane, the one follow-up it owes,  *)
(* and whether it is being stopped.                                        *)
(***************************************************************************)
VARIABLES
    lane,       \* "idle", or why the current drain runs
    followUp,   \* the coalesced rerun, or "none"
    stopping,   \* the current drain has been told to stop
    open        \* the coordinator's scope is open

vars == <<lane, followUp, stopping, open>>

Modes == {"run", "wake"}

Init ==
    /\ lane = "idle"
    /\ followUp = "none"
    /\ stopping = FALSE
    /\ open = TRUE

\* A demand starts a drain when the lane is idle.
Start ==
    /\ open /\ lane = "idle"
    /\ lane' \in Modes
    /\ UNCHANGED <<followUp, stopping, open>>

\* A demand made while draining is coalesced; a run dominates a wake, and a
\* lane that is stopping accepts wakes only.
Coalesce ==
    /\ open /\ lane # "idle"
    /\ \/ followUp' = "run" /\ ~stopping
       \/ followUp' = "wake" /\ followUp # "run"
    /\ UNCHANGED <<lane, stopping, open>>

\* A stop drops the follow-up, unless it is a wake from after the stop.
Stop ==
    /\ open /\ lane # "idle"
    /\ stopping' = TRUE
    /\ \/ followUp' = "none"
       \/ followUp' = followUp /\ followUp # "run"
    /\ UNCHANGED <<lane, open>>

\* The drain ends and hands the lane to its follow-up.
Finish ==
    /\ open /\ lane # "idle"
    /\ lane' = IF followUp = "none" THEN "idle" ELSE followUp
    /\ followUp' = "none"
    /\ stopping' = FALSE
    /\ UNCHANGED open

Shut ==
    /\ open
    /\ open' = FALSE
    /\ lane' = "idle" /\ followUp' = "none" /\ stopping' = FALSE

Next == Start \/ Coalesce \/ Stop \/ Finish \/ Shut

Spec == Init /\ [][Next]_vars

\* A lane never holds on to its drain: its follow-up is taken up, and without
\* one it becomes idle.
FairSpec == Spec /\ WF_vars(Finish)
=============================================================================
