------------------------- MODULE MCRunCoordinator -------------------------
(* Constants of RunCoordinator for model checking. *)
EXTENDS RunCoordinator

CONSTANTS c1, c2, e1, e2

MCCallers == {c1, c2}
MCEntryIds == {e1, e2}

\* Admissions around and between two interrupt boundaries.
MCWakeSeqs == {1, 3, 5}
MCInterruptSeqs == {2, 4}

\* A smaller instance for the liveness properties: one admission after one stop.
MCFewWakes == {3}
MCOneInterrupt == {2}

=============================================================================
