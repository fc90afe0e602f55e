------------------------------ MODULE MCSessions ------------------------------
(***************************************************************************)
(* The lane of a Session alone, the execution of a Session on its lane, the*)
(* permission requests of a Location, the tasks of a subagent Session and  *)
(* the instances of a directory, explored beside each other: a behaviour   *)
(* works on one of them, the others stay as they were.                     *)
(***************************************************************************)
EXTENDS SessionExecution, Permission, TaskTool, InstanceStore, TLC

CONSTANTS c1, c2, e1, e2, p1, p2, q1, q2, q3

VARIABLE focus      \* the one this behaviour works on

MCCallers == {c1, c2}
MCEntryIds == {e1, e2}
MCPrompts == {p1, p2}
MCWakeSeqs == 1 .. 3
MCInterruptSeqs == 1 .. 3

MCRequests == {q1, q2, q3}

\* Two Sessions ask for one resource, which the agent of one of them may come to deny;
\* the other Session asks for a second one.
Ask(s, r) == [session |-> s, resource |-> r]
MCAsks == {Ask("one", "read"), Ask("other", "read"), Ask("one", "write")}
MCDeniable == {Ask("other", "read")}

Symmetry == Permutations(MCCallers) \cup Permutations(MCEntryIds)

sessionsVars == <<allVars, permissionVars, taskVars, storeVars, focus>>

SessionsInit ==
    /\ SessionInit /\ PermissionInit /\ TaskInit /\ StoreInit
    /\ focus \in {"lane", "session", "permission", "task", "store"}

\* A Session is run and interrupted by one caller, the lane alone by all.
OneCaller == Cardinality({c \in Callers : pc'[c] # "ready"}) <= 1

\* Three requests and one reply, or two of each.
FourCalls ==
    Cardinality({q \in Requests : request'[q].at # "ready"})
        + Cardinality({p \in Replies : reply'[p].at # "ready"}) <= 4

\* The requests are interchangeable, so let them enter the Map in the order of their names.
InOrder(q, r) == order'[r] # 0 => order'[q] # 0

\* The calls of the instance are over.
PermissionOver == (\A q \in Requests : request[q].at \in {"ready", "done"}) /\ UNCHANGED permissionVars

TasksOver ==
    /\ \A t \in Tasks : task[t].at = "returned" /\ notifier[t].at \notin {"metadata", "waiting"}
    /\ UNCHANGED taskVars

SessionsNext ==
    /\ \/ /\ focus = "lane"
          /\ Next
          /\ UNCHANGED <<sessionVars, permissionVars, taskVars, storeVars>>
       \/ /\ focus = "session"
          /\ SessionNext
          /\ OneCaller
          /\ UNCHANGED <<permissionVars, taskVars, storeVars>>
       \/ /\ focus = "permission"
          /\ PermissionNext \/ PermissionOver
          /\ FourCalls
          /\ InOrder(q1, q2) /\ InOrder(q2, q3)
          /\ UNCHANGED <<allVars, taskVars, storeVars>>
       \/ /\ focus = "task"
          /\ TaskNext \/ TasksOver
          /\ UNCHANGED <<allVars, permissionVars, storeVars>>
       \/ /\ focus = "store"
          /\ StoreNext
          /\ UNCHANGED <<allVars, permissionVars, taskVars>>
    /\ UNCHANGED focus

SessionsSpec == SessionsInit /\ [][SessionsNext]_sessionsVars

TasksOnly == SessionsInit /\ focus = "task" /\ [][SessionsNext]_sessionsVars
=============================================================================
