------------------------------ MODULE RunState ------------------------------
(***************************************************************************)
(* The runs of one Session in the released server: SessionRunState         *)
(* (packages/opencode/src/session/run-state.ts) keeps a Runner             *)
(* (effect/runner.ts) per Session, which runs the prompt loop or a shell,  *)
(* queues one run behind a shell and cancels what it runs.                 *)
(*                                                                         *)
(* A SynchronizedRef modification and the code up to its next suspension   *)
(* are one step.  Runners and works are numbered in the order they are     *)
(* made; 0 is none of them.                                                *)
(***************************************************************************)
EXTENDS Naturals

CONSTANTS
    Prompts,        \* fibers in SessionPrompt.loop
    Cancels,        \* fibers in SessionRunState.cancel
    MaxRunners,     \* bound: runners made
    MaxWorks        \* bound: runs and shells made

ASSUME RunStateBounds == MaxRunners \in Nat /\ MaxWorks \in Nat

VARIABLES
    entry,          \* the Session's runner in data.runners
    runners,        \* SynchronizedRef of each runner
    works,          \* the run and shell fibers, with their deferreds
    waits,          \* the run whose deferred each prompt awaits
    cancels,        \* where each cancel is and what it stops
    status          \* SessionStatus

runVars == <<entry, runners, works, waits, cancels, status>>

RunnerIds == 1 .. MaxRunners
WorkIds == 1 .. MaxWorks

Idle == [tag |-> "Idle", shell |-> 0, run |-> 0]
Running(w) == [tag |-> "Running", shell |-> 0, run |-> w]
Shell(s) == [tag |-> "Shell", shell |-> s, run |-> 0]
ShellThenRun(s, w) == [tag |-> "ShellThenRun", shell |-> s, run |-> w]

NotMade == [kind |-> "none", runner |-> 0, at |-> "none", done |-> "none"]
Run(k, at) == [kind |-> "run", runner |-> k, at |-> at, done |-> "open"]
ShellWork(k) == [kind |-> "shell", runner |-> k, at |-> "new", done |-> "none"]
NoCancel == [at |-> "off", runner |-> 0, shell |-> 0, run |-> 0]

\* The works and runners not made yet, of which the next one is taken.
FirstOf(ids) == {n \in ids : \A m \in ids : n <= m}
NextWork == FirstOf({w \in WorkIds : works[w].kind = "none"})
NextRunner == FirstOf({k \in RunnerIds : runners[k].tag = "none"})

-----------------------------------------------------------------------------
(* The callers of SessionRunState.                                          *)

\* The runner of the Session, made and entered when there is none.
runner(k) == IF entry # 0 THEN k = entry ELSE k \in NextRunner

\* assertNotBusy fails.
busy == entry # 0 /\ runners[entry].tag # "Idle"

State(k) == IF runners[k].tag = "none" THEN Idle ELSE runners[k]

ensureRunning(p) ==
    /\ waits[p] = 0
    /\ \E k \in RunnerIds :
          /\ runner(k)
          /\ entry' = k
          /\ \/ /\ State(k).tag \in {"Running", "ShellThenRun"}
                /\ waits' = [waits EXCEPT ![p] = State(k).run]
                /\ UNCHANGED <<runners, works>>
             \/ \E w \in NextWork :
                   /\ waits' = [waits EXCEPT ![p] = w]
                   /\ \/ /\ State(k).tag = "Shell"
                         /\ runners' = [runners EXCEPT ![k] = ShellThenRun(@.shell, w)]
                         /\ works' = [works EXCEPT ![w] = Run(k, "queued")]
                      \/ /\ State(k).tag = "Idle"
                         /\ runners' = [runners EXCEPT ![k] = Running(w)]
                         /\ works' = [works EXCEPT ![w] = Run(k, "new")]
    /\ UNCHANGED <<cancels, status>>

\* A busy runner rejects a shell.
startShell ==
    /\ \E k \in RunnerIds, s \in NextWork :
          /\ runner(k)
          /\ State(k).tag = "Idle"
          /\ entry' = k
          /\ runners' = [runners EXCEPT ![k] = Shell(s)]
          /\ works' = [works EXCEPT ![s] = ShellWork(k)]
    /\ status' = "busy"
    /\ UNCHANGED <<waits, cancels>>

\* A prompt is answered with the exit of its run.
awaitDone(p) ==
    /\ waits[p] # 0
    /\ works[waits[p]].done # "open"
    /\ waits' = [waits EXCEPT ![p] = 0]
    /\ UNCHANGED <<entry, runners, works, cancels, status>>

-----------------------------------------------------------------------------
(* The end of a fiber.  Who waits for it goes on in the same step: nothing  *)
(* suspends in a cancel between the end of its fiber and its look at the    *)
(* runner, and a fiber that has ended already is not waited for.            *)

\* Mutant: a cancel leaves it to others to say that the runner is idle.
becameIdleNever(k) == k \notin RunnerIds

becameIdle(k) == runners'[k].tag = "Idle"

\* Mutant: a run queued behind the shell is forgotten.
CancelledAlone(stops) == {stop.run : stop \in {s \in stops : s.shell = 0}}

\* The runs that a cancel ends for their callers: the one it stopped, or the one queued
\* behind the shell it stopped.
Cancelled(stops) == {stop.run : stop \in stops}

Fiber(stop) == IF stop.shell # 0 THEN stop.shell ELSE stop.run

\* The works are "ws" now; a cancel of "cs" that waited for one that has ended fails its
\* run, and if the runner it stopped is idle it forgets the Session's and says so.
goOn(ws, cs) ==
    LET over == {c \in Cancels : cs[c].at = "stopping" /\ ws[Fiber(cs[c])].at = "ended"}
        idle == {c \in over : becameIdle(cs[c].runner)}
        ends(w) == w \in Cancelled({cs[c] : c \in over})
    IN  /\ works' = [w \in WorkIds |->
               IF ends(w) THEN [ws[w] EXCEPT !.at = "ended", !.done = IF @ = "open" THEN "cancelled" ELSE @]
               ELSE ws[w]]
        /\ entry' = IF idle # {} THEN 0 ELSE entry
        /\ cancels' = [c \in Cancels |->
               IF c \notin over THEN cs[c]
               ELSE [NoCancel EXCEPT !.at = IF c \in idle THEN "idling" ELSE "off"]]

-----------------------------------------------------------------------------
(* Run and shell fibers.                                                    *)

\* A shell opens its latch when it begins.
begin(w) ==
    /\ works[w].at = "new"
    /\ works' = [works EXCEPT ![w].at = "working"]
    /\ UNCHANGED <<entry, runners, waits, cancels, status>>

\* Every turn of a run first says that the Session is busy.
runLoop(w) ==
    /\ works[w].kind = "run" /\ works[w].at = "working"
    /\ status' = "busy"
    /\ UNCHANGED <<entry, runners, works, waits, cancels>>

\* The client of a shell goes away.
abandonShell(s) ==
    /\ works[s].kind = "shell" /\ works[s].at = "working"
    /\ works' = [works EXCEPT ![s].at = "cleanup"]
    /\ UNCHANGED <<entry, runners, waits, cancels, status>>

\* onIdle forgets the Session's runner, and then publishes the status.
onIdle(w) ==
    /\ runners' = [runners EXCEPT ![works[w].runner] = Idle]
    /\ entry' = 0
    /\ works' = [works EXCEPT ![w].at = "idling"]
    /\ UNCHANGED cancels

\* The deferred of a run is completed, and its fiber ends.
complete(w) == goOn([works EXCEPT ![w].at = "ended", ![w].done = IF @ = "open" THEN "exit" ELSE @], cancels)

\* The work has ended by itself, or the cleanup of an interrupted one.
Finishes(w) == works[w].at \in {"working", "cleanup"}

finishRun(w) ==
    /\ works[w].kind = "run" /\ Finishes(w)
    /\ \/ runners[works[w].runner] = Running(w) /\ onIdle(w)
       \/ /\ runners[works[w].runner] # Running(w)
          /\ UNCHANGED runners
          /\ complete(w)
    /\ UNCHANGED <<waits, status>>

\* A shell starts the run that waits behind it.
finishShell(s) ==
    /\ works[s].kind = "shell" /\ Finishes(s)
    /\ LET k == works[s].runner
           mine == runners[k].shell = s
           next == runners[k].run
       IN  \/ mine /\ next = 0 /\ onIdle(s)
           \/ /\ mine /\ next # 0
              /\ runners' = [runners EXCEPT ![k] = Running(next)]
              /\ works' = [works EXCEPT ![s].at = "ended", ![next].at = "new"]
              /\ UNCHANGED <<entry, cancels>>
           \/ /\ ~mine
              /\ UNCHANGED runners
              /\ complete(s)
    /\ UNCHANGED <<waits, status>>

publishIdle(w) ==
    /\ works[w].at = "idling"
    /\ status' = "idle"
    /\ UNCHANGED <<runners, waits>>
    /\ complete(w)

-----------------------------------------------------------------------------
(* Cancel.                                                                  *)

\* The Session's background jobs are cancelled first.
cancelBackgroundJobs(c) ==
    /\ cancels[c].at = "off"
    /\ cancels' = [cancels EXCEPT ![c].at = "jobs"]
    /\ UNCHANGED <<entry, runners, works, waits, status>>

\* What an interrupt makes of a fiber: one that has not begun never runs.
Stopped(at) == CASE at = "new" -> "ended" [] at = "working" -> "cleanup" [] OTHER -> at

\* The fiber is interrupted, and waited for unless that has ended it.
interruptFiber(c, stop) ==
    goOn([works EXCEPT ![Fiber(stop)].at = Stopped(@)], [cancels EXCEPT ![c] = [stop EXCEPT !.at = "stopping"]])

\* Mutant: the latch is only open while the shell works.
latchedWhileWorking(s) == works[s].at = "working"

\* The latch a shell has opened stays open.
latched(s) == works[s].at # "new"

\* Without a runner, or with an idle one, nothing is stopped; otherwise the runner is idle
\* from here on, whatever its fibers still do.
cancel(c) ==
    /\ cancels[c].at = "jobs"
    /\ \/ /\ entry = 0
          /\ cancels' = [cancels EXCEPT ![c].at = "idling"]
          /\ UNCHANGED <<entry, runners, works>>
       \/ /\ entry # 0
          /\ runners' = [runners EXCEPT ![entry] = Idle]
          /\ LET st == runners[entry]
                 stop == [at |-> "latch", runner |-> entry, shell |-> st.shell, run |-> st.run]
                 waiting == st.shell # 0 /\ ~latched(st.shell)
             IN  \/ /\ st.tag = "Idle" \/ waiting
                    /\ cancels' = [cancels EXCEPT ![c] = IF waiting THEN stop ELSE NoCancel]
                    /\ UNCHANGED <<entry, works>>
                 \/ st.tag # "Idle" /\ ~waiting /\ interruptFiber(c, stop)
    /\ UNCHANGED <<waits, status>>

stopShell(c) ==
    /\ cancels[c].at = "latch"
    /\ latched(cancels[c].shell)
    /\ UNCHANGED <<runners, waits, status>>
    /\ interruptFiber(c, cancels[c])

cancelIdles(c) ==
    /\ cancels[c].at = "idling"
    /\ status' = "idle"
    /\ cancels' = [cancels EXCEPT ![c] = NoCancel]
    /\ UNCHANGED <<entry, runners, works, waits>>

-----------------------------------------------------------------------------
RunInit ==
    /\ entry = 0
    /\ runners = [k \in RunnerIds |-> [Idle EXCEPT !.tag = "none"]]
    /\ works = [w \in WorkIds |-> NotMade]
    /\ waits = [p \in Prompts |-> 0]
    /\ cancels = [c \in Cancels |-> NoCancel]
    /\ status = "idle"

finish(w) == finishRun(w) \/ finishShell(w)
workStep(w) == begin(w) \/ publishIdle(w)
cancelStep(c) == cancel(c) \/ stopShell(c) \/ cancelIdles(c)

RunNext ==
    \/ \E p \in Prompts : ensureRunning(p) \/ awaitDone(p)
    \/ startShell
    \/ \E w \in WorkIds : workStep(w) \/ finish(w) \/ runLoop(w) \/ abandonShell(w)
    \/ \E c \in Cancels : cancelBackgroundJobs(c) \/ cancelStep(c)

RunSpec == RunInit /\ [][RunNext]_runVars

cleanedUp(w) == works[w].at = "cleanup" /\ finish(w)

\* Fibers run on and an interrupted work ends its cleanup.  Works owe no end of their own.
RunFairness ==
    /\ \A w \in WorkIds : WF_runVars(workStep(w)) /\ WF_runVars(cleanedUp(w))
    /\ \A c \in Cancels : WF_runVars(cancelStep(c))

-----------------------------------------------------------------------------
(* Properties                                                               *)

Live == {"new", "working", "cleanup", "idling"}
Stops(c, w) == cancels[c].at \in {"latch", "stopping"} /\ cancels[c].run = w

\* A prompt never awaits a run that nobody will complete: its fiber is alive, a live shell
\* will start it, or a cancel is about to fail it.
NoStrandedPrompt ==
    \A p \in Prompts :
        waits[p] # 0 /\ works[waits[p]].done = "open" =>
            LET w == waits[p]
                k == works[w].runner
            IN  \/ works[w].at \in Live
                \/ /\ runners[k].tag = "ShellThenRun" /\ runners[k].run = w
                   /\ works[runners[k].shell].at \in Live
                \/ \E c \in Cancels : Stops(c, w)

\* When nothing runs and no cancel is under way, the Session has no runner and shows idle,
\* in whatever order replaced runs, shells and cancels ended.
QuietMeansIdle ==
    /\ \A w \in WorkIds : works[w].at \in {"none", "ended"}
    /\ \A c \in Cancels : cancels[c].at \in {"off", "jobs"}
    => entry = 0 /\ status = "idle"

\* Whatever the run or the shell before it is doing, a cancelled run is over for its callers.
CancelEndsRun ==
    \A c \in Cancels, w \in WorkIds : Stops(c, w) ~> works[w].done # "open"

\* "assertNotBusy fails with BusyError when loop running" (test/session/prompt.test.ts:1355).
BusyWhileRunning == (\E w \in WorkIds : works[w].kind = "run" /\ works[w].at = "working") => busy
=============================================================================
