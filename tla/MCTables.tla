------------------------------ MODULE MCTables ------------------------------
(***************************************************************************)
(* The inbox, the Context Epoch and the file lock, explored beside each    *)
(* other: a behaviour works on one of them, the others stay as they were.  *)
(* They share their model values, which keeps the symmetry group small.    *)
(***************************************************************************)
EXTENDS SessionInbox, ContextEpoch, FileLock, TLC

CONSTANTS a1, a2, b1, b2, c1, c2, d1, d2

VARIABLE table      \* the one this behaviour works on

A == {a1, a2}
B == {b1, b2}
C == {c1, c2}
D == {d1, d2}

MCSessions == {"session"}
MCContents == {"content"}
MCIds == C
MCCallers == A
MCRunners == B

MCAttempts == A
MCAgents == B
MCLocations == C
MCModels == D

MCProcs == {"x", "y", "z"}

Symmetry == Permutations(A) \cup Permutations(B) \cup Permutations(C) \cup Permutations(D)

\* An epoch nobody works on has no Session, an inbox nobody works on no call.
NoEpoch ==
    /\ session = Unset /\ epoch = Unset /\ latest = 0 /\ updates = {}
    /\ fallback = Unset /\ version = 0 /\ turn = [r \in Attempts |-> NoAttempt]
    /\ alone = TRUE /\ moved = FALSE

NoInbox ==
    /\ row = [id \in Ids |-> Row(Ask0, 0, 0)]
    /\ message = [id \in Ids |-> Message("none", Ask0.session, Ask0.content, 0)]
    /\ sequence = [s \in Sessions |-> 0]
    /\ call = [c \in Callers |-> [pc |-> "ready"]]
    /\ runner = [r \in Runners |-> Idle]

TablesInit ==
    /\ LockInit
    /\ \/ table = "inbox" /\ Init /\ NoEpoch
       \/ table = "epoch" /\ NoInbox /\ EpochInit
       \/ table = "lock" /\ NoInbox /\ NoEpoch

TablesNext ==
    /\ \/ table = "inbox" /\ Next /\ UNCHANGED <<epochVars, lockVars>>
       \/ table = "epoch" /\ EpochNext /\ UNCHANGED <<vars, lockVars>>
       \/ table = "lock" /\ LockNext /\ UNCHANGED <<vars, epochVars>>
    /\ UNCHANGED table

TablesSpec == TablesInit /\ [][TablesNext]_<<vars, epochVars, lockVars, table>>
=============================================================================
