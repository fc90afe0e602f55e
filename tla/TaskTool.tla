------------------------------ MODULE TaskTool ------------------------------
(***************************************************************************)
(* Calls of the task tool (packages/opencode/src/tool/task.ts) that run    *)
(* one subagent Session through the registry of background jobs.  A call   *)
(* in the foreground returns the result of its job; a call in the          *)
(* background, and one whose job is promoted, is told that it will be      *)
(* notified, and its notifier puts the result into the parent Session.     *)
(***************************************************************************)
EXTENDS BackgroundJob

VARIABLES
    task,           \* the tool call: where it is, its job, what it was told
    notifier        \* what is left to do for the call's notification

taskVars == <<registered, job, forks, task, notifier>>

NotCalled == [at |-> "ready", job |-> 0, told |-> "none"]
NoNotifier == [at |-> "off", job |-> 0]

Returns(t, g, told) == task' = [task EXCEPT ![t] = [at |-> "returned", job |-> g, told |-> told]]

\* notify waits for the job the id names by then.
notify(t, g) == notifier' = [notifier EXCEPT ![t] = [at |-> "waiting", job |-> g]]

-----------------------------------------------------------------------------
(* The calls.                                                               *)

\* The next call.
IsNextCall(t) == \A n \in Tasks : task[n].at = "ready" <=> t <= n

\* A job that runs takes the call's prompt as a further work.
extendTask(t) ==
    /\ IsNextCall(t)
    /\ extend
    /\ Returns(t, registered, "notified later")
    /\ UNCHANGED notifier

startTask(t) ==
    /\ IsNextCall(t)
    /\ \/ /\ start(t, TRUE)
          /\ notify(t, registered')
          /\ Returns(t, registered', "notified later")
       \/ /\ start(t, FALSE)
          /\ task' = [task EXCEPT ![t] = [at |-> "racing", job |-> registered', told |-> "none"]]
          /\ UNCHANGED notifier

\* The job the call waits for has ended, or is promoted.
answerTask(t) ==
    /\ task[t].at = "racing"
    /\ LET j == job[task[t].job]
       IN  \/ /\ j.done # "open"
              /\ Returns(t, task[t].job, IF j.background THEN "notified later"
                                         ELSE IF j.done = "completed" THEN "result" ELSE "failure")
           \/ j.promoted /\ Returns(t, task[t].job, "notified later")
    /\ UNCHANGED <<registryVars, notifier>>

\* The parent's turn is interrupted.  The call stops the child's prompt first,
\* then the job the id names by then.
interruptTask(t) ==
    /\ task[t].at = "racing"
    /\ task' = [task EXCEPT ![t].at = "releasing"]
    /\ UNCHANGED <<registryVars, notifier>>

releaseTask(t) ==
    /\ task[t].at = "releasing"
    /\ \/ cancelJob
       \/ ~IsRunning /\ UNCHANGED registryVars
    /\ Returns(t, task[t].job, "interrupted")
    /\ UNCHANGED notifier

-----------------------------------------------------------------------------
(* Promotion and notification.                                              *)

\* onPromote first writes the metadata of the call.
promoteTask ==
    /\ promote
    /\ notifier' = [t \in Tasks |-> IF t \in job[registered].by
                                    THEN [at |-> "metadata", job |-> 0] ELSE notifier[t]]
    /\ UNCHANGED task

\* The metadata is written, or that fails or is interrupted and onPromote ends.
onPromote(t) ==
    /\ notifier[t].at = "metadata"
    /\ notify(t, registered) \/ notifier' = [notifier EXCEPT ![t].at = "dropped"]
    /\ UNCHANGED <<registryVars, task>>

inject(t) ==
    /\ notifier[t].at = "waiting" /\ job[notifier[t].job].done # "open"
    /\ notifier' = [notifier EXCEPT ![t].at =
                        IF job[notifier[t].job].done = "cancelled" THEN "dropped" ELSE "injected"]
    /\ UNCHANGED <<registryVars, task>>

\* The parent or the child Session is cancelled or removed.
cancelSession == cancelJob /\ UNCHANGED <<task, notifier>>

TaskInit ==
    /\ RegistryInit
    /\ task = [t \in Tasks |-> NotCalled]
    /\ notifier = [t \in Tasks |-> NoNotifier]

TaskNext ==
    \/ \E t \in Tasks : \/ extendTask(t) \/ startTask(t) \/ answerTask(t)
                        \/ interruptTask(t) \/ releaseTask(t)
                        \/ onPromote(t) \/ inject(t)
    \/ \E g \in Jobs, s \in Sequences : jobStep(g, s) /\ UNCHANGED <<task, notifier>>
    \/ promoteTask
    \/ cancelSession

TaskSpec == TaskInit /\ [][TaskNext]_taskVars

-----------------------------------------------------------------------------
(* Properties                                                               *)

\* A call that was given the outcome of its job as its own result is not given
\* it again by a notification, however promotion, the end of the job and the
\* next job under the id meet.
DeliveredOnce ==
    \A t \in Tasks : task[t].told \in {"result", "failure"} => notifier[t].at = "off"

\* A call waits for a job only while one of its works is still to settle: whatever
\* completes, fails or cancels a job lets go everyone who waits for it.
WaitersAreLetGo ==
    \A t \in Tasks : task[t].at = "racing" /\ job[task[t].job].done = "open" =>
        \E s \in Sequences : forks[task[t].job][s].at \in {"waiting", "working", "exiting"}

\* "You will be notified automatically when it finishes." (task.ts:38): when the
\* job of a call that was told so ends with a result or an error, somebody has
\* told the parent, waits for that job, or is about to.
NotifiedAsTold ==
    \A t \in Tasks : task[t].told = "notified later" /\ job[task[t].job].done \in {"completed", "error"} =>
        \E n \in Tasks : notifier[n].at = "metadata" \/ notifier[n].job = task[t].job
=============================================================================
