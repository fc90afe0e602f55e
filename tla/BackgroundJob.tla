---------------------------- MODULE BackgroundJob ----------------------------
(***************************************************************************)
(* The registry of background jobs (packages/core/src/background-job.ts),  *)
(* seen from one id: a job is started, extended by further works that run  *)
(* one after another, promoted, cancelled, and settled by its works; the   *)
(* id may then be used for another job, while fibers of the earlier one    *)
(* still end.                                                              *)
(*                                                                         *)
(* A SynchronizedRef modification and the code up to its next suspension   *)
(* are one step.  Calls are numbered in the order they come, jobs in that  *)
(* in which they are started (the token of the code), works by their       *)
(* sequence in the job; 0 is no job.                                       *)
(***************************************************************************)
EXTENDS Naturals

CONSTANT MaxTasks   \* bound: the calls that start or extend the job, once each

ASSUME TasksAssumption == MaxTasks \in Nat \ {0}

VARIABLES
    registered,     \* the job the registry holds under the id
    job,            \* every job ever started
    forks           \* the fibers of each job's works

registryVars == <<registered, job, forks>>

Tasks == 1 .. MaxTasks
Jobs == 1 .. MaxTasks
Sequences == 0 .. MaxTasks - 1

\* "by" is the call whose onPromote the job carries; an output is kept as the
\* sequence of its work plus one, 0 before there is any.
NoJob == [status |-> "none", by |-> {}, pending |-> 0, next |-> 0, output |-> 0,
          background |-> FALSE, done |-> "open", promoted |-> FALSE]
NewJob(t, background) ==
    [NoJob EXCEPT !.status = "running", !.by = {t}, !.pending = 1, !.next = 1,
                  !.background = background]

NoFiber == [at |-> "none", exit |-> "none"]

IsRunning == registered # 0 /\ job[registered].status = "running"

\* A work's tail is completed when the work has ended, however it did.
Over(g, s) == forks[g][s].at \in {"exiting", "gone"}

-----------------------------------------------------------------------------
(* Operations.                                                              *)

start(t, background) ==
    /\ ~IsRunning
    /\ registered' = registered + 1
    /\ job' = [job EXCEPT ![registered'] = NewJob(t, background)]
    /\ forks' = [forks EXCEPT ![registered'][0].at = "working"]

\* The new work waits for the tail of the one before.
extend ==
    /\ IsRunning
    /\ job' = [job EXCEPT ![registered].pending = @ + 1, ![registered].next = @ + 1]
    /\ forks' = [forks EXCEPT ![registered][job[registered].next].at = "waiting"]
    /\ UNCHANGED registered

\* A plausible bug: only a job that ends well completes its deferred.
FinishedQuietly(j, status) ==
    [j EXCEPT !.status = status, !.pending = 0,
              !.done = IF status = "completed" THEN status ELSE @]

\* The end of a job completes its deferred and closes its scope, which
\* interrupts the works that have not ended.
Finished(j, status) == [j EXCEPT !.status = status, !.pending = 0, !.done = status]

ScopeClosed(works, settled) ==
    [s \in Sequences |->
        IF s = settled \/ works[s].at \in {"waiting", "working"}
        THEN [works[s] EXCEPT !.at = "gone"] ELSE works[s]]

cancelJob ==
    /\ IsRunning
    /\ job' = [job EXCEPT ![registered] = Finished(@, "cancelled")]
    /\ forks' = [forks EXCEPT ![registered] = ScopeClosed(@, MaxTasks)]
    /\ UNCHANGED registered

\* A plausible bug: nobody looks whether the job still runs.
promoteAnyway ==
    /\ registered # 0
    /\ ~job[registered].background
    /\ job' = [job EXCEPT ![registered].background = TRUE, ![registered].promoted = TRUE]
    /\ UNCHANGED <<registered, forks>>

\* The promotion marks the job, lets go who waits for it and takes onPromote.
promote ==
    /\ IsRunning
    /\ ~job[registered].background
    /\ job' = [job EXCEPT ![registered].background = TRUE, ![registered].promoted = TRUE]
    /\ UNCHANGED <<registered, forks>>

-----------------------------------------------------------------------------
(* The fibers of the works.                                                 *)

beginWork(g, s) ==
    /\ s > 0 /\ forks[g][s].at = "waiting" /\ Over(g, s - 1)
    /\ forks' = [forks EXCEPT ![g][s].at = "working"]
    /\ UNCHANGED <<registered, job>>

WorkExits == {"completed", "error", "cancelled"}

endWork(g, s) ==
    /\ forks[g][s].at = "working"
    /\ \E e \in WorkExits : forks' = [forks EXCEPT ![g][s] = [at |-> "exiting", exit |-> e]]
    /\ UNCHANGED <<registered, job>>

\* A plausible bug: the output that comes last is kept.
OutputLatest(j, s) == s + 1

\* The output of the latest work is kept, whichever settles last.
Output(j, s) == IF s + 1 > j.output THEN s + 1 ELSE j.output

SettledJob(j, s, e) ==
    LET kept == [j EXCEPT !.pending = @ - 1,
                          !.output = IF e = "completed" THEN Output(j, s) ELSE @]
    IN  IF e = "completed" /\ kept.pending > 0 THEN kept ELSE Finished(kept, e)

\* A settlement under another token, or of a job that is over, changes nothing.
settleWork(g, s) ==
    /\ forks[g][s].at = "exiting"
    /\ \/ /\ g # registered \/ job[g].status # "running"
          /\ forks' = [forks EXCEPT ![g][s].at = "gone"]
          /\ UNCHANGED job
       \/ /\ g = registered /\ job[g].status = "running"
          /\ job' = [job EXCEPT ![g] = SettledJob(@, s, forks[g][s].exit)]
          /\ forks' = [forks EXCEPT ![g] = IF job'[g].status = "running"
                                           THEN [@ EXCEPT ![s].at = "gone"]
                                           ELSE ScopeClosed(@, s)]
    /\ UNCHANGED registered

RegistryInit ==
    /\ registered = 0
    /\ job = [g \in Jobs |-> NoJob]
    /\ forks = [g \in Jobs |-> [s \in Sequences |-> NoFiber]]

jobStep(g, s) == beginWork(g, s) \/ endWork(g, s) \/ settleWork(g, s)

-----------------------------------------------------------------------------
(* Properties                                                               *)

\* A job is completed only when every work it was given has ended well, and its
\* output is that of the last one, in whatever order the works settle and
\* further ones are added; whoever waits is told the status the job has.
ResultIsTheLast ==
    \A g \in Jobs :
        /\ job[g].status = "completed" =>
              /\ job[g].output = job[g].next
              /\ \A s \in Sequences : s < job[g].next => forks[g][s].exit = "completed"
        /\ job[g].done # "open" => job[g].done = job[g].status
=============================================================================
