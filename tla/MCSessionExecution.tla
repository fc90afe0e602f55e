------------------------- MODULE MCSessionExecution -------------------------
(* Constants of SessionExecution for model checking. *)
EXTENDS SessionExecution

CONSTANTS c1, e1, e2, p1

MCCallers == {c1}
MCEntryIds == {e1, e2}
MCOnePrompt == {p1}
MCSeqs == 1 .. MaxSeq
=============================================================================
