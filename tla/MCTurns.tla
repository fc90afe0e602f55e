------------------------------ MODULE MCTurns -------------------------------
(***************************************************************************)
(* The settlement of turns, the runs of the released server and the        *)
(* prompts they answer, explored beside each other: a behaviour works on   *)
(* one of them, the others stay as they were.                              *)
(***************************************************************************)
EXTENDS TurnSettlement, RunState, PromptLoop

CONSTANTS c1, c2, p1, p2, x1, x2

VARIABLE work       \* the one this behaviour works on

MCCalls == {c1, c2}
MCPrompts == {p1, p2}
MCAsks == MCPrompts
OneCancel == {x1}
TwoCancels == {x1, x2}

workVars == <<turnVars, runVars, promptVars, work>>

Init ==
    /\ TurnInit /\ RunInit /\ PromptInit
    /\ work \in {"turns", "runs", "prompts"}

Next ==
    /\ \/ work = "turns" /\ TurnNext /\ UNCHANGED <<runVars, promptVars>>
       \/ work = "runs" /\ RunNext /\ UNCHANGED <<turnVars, promptVars>>
       \/ work = "prompts" /\ PromptNext /\ UNCHANGED <<turnVars, runVars>>
    /\ UNCHANGED work

\* A fair step of a part nobody works on is not enabled.
FairSpec ==
    /\ Init /\ [][Next]_workVars
    /\ TurnFairness /\ RunFairness /\ PromptFairness

RunsOnly == Init /\ work = "runs" /\ [][Next]_workVars
PromptsOnly == Init /\ work = "prompts" /\ [][Next]_workVars
=============================================================================
