--------------------------- MODULE TaskToolProofs ---------------------------
(***************************************************************************)
(* ResultIsTheLast, DeliveredOnce and WaitersAreLetGo of BackgroundJob and *)
(* TaskTool, for any number of calls.                                      *)
(*                                                                         *)
(* A job that runs counts the works it has not settled, and the ones it    *)
(* has settled ended well; a job that has ended stays as it is.  A call    *)
(* has a notifier only for a job that is in the background, which a job    *)
(* whose outcome a call was given never becomes.                           *)
(***************************************************************************)
EXTENDS TaskTool, FiniteSetTheorems, TLAPS

Fibers == [at : {"none", "waiting", "working", "exiting", "gone"}, exit : {"none"} \cup WorkExits]
Works == [Sequences -> Fibers]
Records ==
    [status : {"none", "running"} \cup WorkExits, by : SUBSET Tasks, pending : Nat,
     next : 0 .. MaxTasks, output : Nat, background : BOOLEAN,
     done : {"open"} \cup WorkExits, promoted : BOOLEAN]

RegistryTypeOK ==
    /\ registered \in 0 .. MaxTasks
    /\ job \in [Jobs -> Records]
    /\ forks \in [Jobs -> Works]

Unsettled(works) == {s \in Sequences : works[s].at \in {"waiting", "working", "exiting"}}

Running(j, works) ==
    /\ j.status = "running" /\ j.done = "open"
    /\ j.pending = Cardinality(Unsettled(works)) /\ j.pending > 0
    /\ j.next > 0 /\ j.output <= j.next
    /\ \A s \in Sequences :
          /\ works[s].at = "none" <=> s >= j.next
          /\ works[s].at = "exiting" => works[s].exit \in WorkExits
          /\ works[s].at = "gone" => works[s].exit = "completed" /\ s < j.output

Ended(j, works) ==
    /\ j.status \in WorkExits /\ j.done = j.status
    /\ \A s \in Sequences : works[s].at \notin {"waiting", "working"}
    /\ j.status = "completed" =>
          /\ j.output = j.next
          /\ \A s \in Sequences : s < j.next => works[s].exit = "completed"

\* Only the job that the registry holds may run.
JobOK(g) ==
    IF g > registered THEN job[g] = NoJob /\ \A s \in Sequences : forks[g][s] = NoFiber
    ELSE \/ Ended(job[g], forks[g])
         \/ g = registered /\ Running(job[g], forks[g])

RegistryInv == RegistryTypeOK /\ \A g \in Jobs : JobOK(g)

Calls ==
    [at : {"ready", "racing", "releasing", "returned"}, job : 0 .. MaxTasks,
     told : {"none", "notified later", "result", "failure", "interrupted"}]
Notifiers == [at : {"off", "metadata", "waiting", "injected", "dropped"}, job : 0 .. MaxTasks]

TaskTypeOK == task \in [Tasks -> Calls] /\ notifier \in [Tasks -> Notifiers]

\* Every call starts or extends one job at most.
RoomLeft(t) ==
    task[t].at = "ready" =>
        registered < t /\ (registered # 0 => registered + job[registered].next <= t)

\* A call that is made has a job, and the promotion of that job is its own only.
CallOK(t) ==
    /\ task[t].at # "ready" => task[t].job \in 1 .. registered
    /\ \A g \in Jobs : t \in job[g].by => task[t].at # "ready" /\ task[t].job = g
    /\ notifier[t].at # "off" => task[t].at # "ready" /\ job[task[t].job].background
    /\ task[t].told \in {"result", "failure"} =>
          /\ task[t].at = "returned"
          /\ job[task[t].job].done # "open" /\ ~job[task[t].job].background

TaskInv == RegistryInv /\ TaskTypeOK /\ \A t \in Tasks : RoomLeft(t) /\ CallOK(t)

-----------------------------------------------------------------------------
(* The registry.                                                            *)

LEMMA Indices ==
    /\ MaxTasks \in Nat \ {0} /\ 0 \in Sequences
    /\ Sequences \subseteq Nat /\ Jobs \subseteq Nat \ {0} /\ Tasks = Jobs
    /\ IsFiniteSet(Sequences) /\ MaxTasks \notin Sequences
<1>1. IsFiniteSet(0 .. MaxTasks - 1)
  BY TasksAssumption, FS_Interval
<1> QED BY <1>1, TasksAssumption DEF Sequences, Jobs, Tasks

\* How fibers and jobs change.
LEMMA FiberAt ==
    \A f \in Fibers : \A at \in {"none", "waiting", "working", "exiting", "gone"} :
        [f EXCEPT !.at = at] \in Fibers /\ [f EXCEPT !.at = at].at = at /\ [f EXCEPT !.at = at].exit = f.exit
BY DEF Fibers

LEMMA Begun ==
    ASSUME NEW t \in Tasks, NEW b \in BOOLEAN
    PROVE  /\ NewJob(t, b) \in Records
           /\ NewJob(t, b).status = "running" /\ NewJob(t, b).done = "open"
           /\ NewJob(t, b).pending = 1 /\ NewJob(t, b).next = 1 /\ NewJob(t, b).output = 0
           /\ NewJob(t, b).by = {t} /\ NewJob(t, b).background = b
<1>1. NoJob \in Records /\ NoJob.done = "open" /\ NoJob.output = 0
  BY Indices DEF NoJob, Records
<1>2. 1 \in 0 .. MaxTasks /\ 1 \in Nat
  BY Indices
<1> QED BY <1>1, <1>2 DEF NewJob, Records

WithCounts(j, p, n) == [j EXCEPT !.pending = p, !.next = n]
WithOutput(j, p, o) == [j EXCEPT !.pending = p, !.output = o]

LEMMA Counted ==
    ASSUME NEW j \in Records, NEW p \in Nat, NEW n \in 0 .. MaxTasks
    PROVE  /\ WithCounts(j, p, n) \in Records
           /\ WithCounts(j, p, n).pending = p /\ WithCounts(j, p, n).next = n
           /\ WithCounts(j, p, n).status = j.status /\ WithCounts(j, p, n).done = j.done
           /\ WithCounts(j, p, n).output = j.output
           /\ WithCounts(j, p, n).by = j.by /\ WithCounts(j, p, n).background = j.background
BY DEF WithCounts, Records

LEMMA Kept ==
    ASSUME NEW j \in Records, NEW p \in Nat, NEW o \in Nat
    PROVE  /\ WithOutput(j, p, o) \in Records
           /\ WithOutput(j, p, o).pending = p /\ WithOutput(j, p, o).output = o
           /\ WithOutput(j, p, o).status = j.status /\ WithOutput(j, p, o).done = j.done
           /\ WithOutput(j, p, o).next = j.next
           /\ WithOutput(j, p, o).by = j.by /\ WithOutput(j, p, o).background = j.background
BY DEF WithOutput, Records

LEMMA Finishes ==
    ASSUME NEW j \in Records, NEW e \in WorkExits
    PROVE  /\ Finished(j, e) \in Records
           /\ Finished(j, e).status = e /\ Finished(j, e).done = e
           /\ Finished(j, e).output = j.output /\ Finished(j, e).next = j.next
           /\ Finished(j, e).by = j.by /\ Finished(j, e).background = j.background
BY DEF Finished, Records

LEMMA UnsettledFinite == \A works : IsFiniteSet(Unsettled(works))
                                    /\ Cardinality(Unsettled(works)) \in Nat
<1> SUFFICES ASSUME NEW works
             PROVE  IsFiniteSet(Unsettled(works)) /\ Cardinality(Unsettled(works)) \in Nat
  OBVIOUS
<1>1. IsFiniteSet(Unsettled(works))
  BY Indices, FS_Subset DEF Unsettled
<1> QED BY <1>1, FS_CardinalityType

\* A change of one job, in which a job that has ended stays so.
LEMMA OneJob ==
    ASSUME RegistryInv, NEW g \in Jobs, NEW j \in Records, NEW works \in Works,
           job' = [job EXCEPT ![g] = j], forks' = [forks EXCEPT ![g] = works],
           \/ g = registered /\ registered' = registered
           \/ g = registered + 1 /\ registered' = g
              /\ \A f \in Jobs : f <= registered => Ended(job[f], forks[f]),
           Ended(j, works) \/ (g = registered' /\ Running(j, works))
    PROVE  RegistryInv'
<1>1. RegistryTypeOK'
  BY DEF RegistryInv, RegistryTypeOK, Jobs
<1>2. ASSUME NEW f \in Jobs PROVE JobOK(f)'
  <2>1. CASE f = g
    BY <2>1, Indices DEF RegistryInv, RegistryTypeOK, JobOK, Ended, Running, Unsettled
  <2>2. CASE f # g
    <3>1. job'[f] = job[f] /\ forks'[f] = forks[f]
      BY <2>2 DEF RegistryInv, RegistryTypeOK
    <3>2. Ended(job[f], forks[f])' <=> Ended(job[f], forks[f])
      BY <3>1 DEF Ended
    <3>3. JobOK(f) /\ registered \in Nat /\ f \in Nat /\ g \in Nat
      BY Indices DEF RegistryInv, RegistryTypeOK
    <3>4. CASE f > registered
      BY <2>2, <3>1, <3>3, <3>4 DEF JobOK
    <3>5. CASE f <= registered
      <4>1. Ended(job[f], forks[f])
        BY <2>2, <3>3, <3>5 DEF JobOK
      <4> QED BY <2>2, <3>2, <3>3, <3>5, <4>1 DEF JobOK
    <3> QED BY <3>3, <3>4, <3>5
  <2> QED BY <2>1, <2>2
<1> QED BY <1>1, <1>2 DEF RegistryInv

\* The job the registry holds, when it runs.
LEMMA RegisteredRuns ==
    ASSUME RegistryInv, IsRunning
    PROVE  /\ registered \in Jobs
           /\ job[registered] \in Records /\ forks[registered] \in Works
           /\ Running(job[registered], forks[registered])
<1>1. registered \in Jobs
  BY Indices DEF RegistryInv, RegistryTypeOK, IsRunning, Jobs
<1>2. JobOK(registered) /\ ~Ended(job[registered], forks[registered]) /\ ~(registered > registered)
  BY <1>1, Indices DEF RegistryInv, IsRunning, Ended, WorkExits
<1> QED BY <1>1, <1>2 DEF RegistryInv, RegistryTypeOK, JobOK

\* The job whose work goes on.
LEMMA NoneRuns ==
    ASSUME RegistryInv, ~IsRunning
    PROVE  \A f \in Jobs : f <= registered => Ended(job[f], forks[f])
<1> SUFFICES ASSUME NEW f \in Jobs, f <= registered PROVE Ended(job[f], forks[f])
  OBVIOUS
<1> QED BY Indices DEF RegistryInv, RegistryTypeOK, JobOK, IsRunning, Running

LEMMA StartJob ==
    ASSUME RegistryInv, NEW t \in Tasks, NEW b \in BOOLEAN, start(t, b), registered < MaxTasks
    PROVE  RegistryInv'
<1> DEFINE g == registered + 1
           works == [forks[g] EXCEPT ![0].at = "working"]
<1>1. g \in Jobs /\ registered' = g /\ g > registered
  BY Indices DEF start, RegistryInv, RegistryTypeOK, Jobs
<1>2. JobOK(g) /\ forks[g] \in Works
  BY <1>1 DEF RegistryInv, RegistryTypeOK
<1>3. works \in Works /\ NewJob(t, b) \in Records
  <2>1. works = [forks[g] EXCEPT ![0] = [forks[g][0] EXCEPT !.at = "working"]] /\ forks[g][0] \in Fibers
    BY <1>2, Indices DEF Works
  <2>2. [forks[g][0] EXCEPT !.at = "working"] \in Fibers
    BY <2>1, FiberAt
  <2> QED BY <1>2, <2>1, <2>2, Begun DEF Works
<1>4. \A s \in Sequences : works[s].at = IF s = 0 THEN "working" ELSE "none"
  BY <1>1, <1>2 DEF JobOK, NoFiber, Works, Fibers
<1>5. Unsettled(works) = {0}
  BY <1>4, Indices DEF Unsettled
<1>6. Cardinality(Unsettled(works)) = 1
  BY <1>5, FS_Singleton
<1>7. Running(NewJob(t, b), works)
  BY <1>4, <1>6, Indices, Begun DEF Running
<1>8. job' = [job EXCEPT ![g] = NewJob(t, b)] /\ forks' = [forks EXCEPT ![g] = works]
  BY <1>1, <1>2 DEF start, RegistryInv, RegistryTypeOK
<1>9. \A f \in Jobs : f <= registered => Ended(job[f], forks[f])
  BY NoneRuns DEF start
<1> HIDE DEF g, works
<1> QED BY <1>1, <1>3, <1>7, <1>8, <1>9, OneJob DEF g

LEMMA ExtendJob ==
    ASSUME RegistryInv, extend, job[registered].next < MaxTasks
    PROVE  RegistryInv'
<1> DEFINE j == job[registered]
           works == forks[registered]
           next == WithCounts(j, j.pending + 1, j.next + 1)
           more == [works EXCEPT ![j.next].at = "waiting"]
<1>1. registered \in Jobs /\ j \in Records /\ works \in Works /\ Running(j, works)
  BY RegisteredRuns DEF extend
<1>2. j.next \in Sequences /\ j.next \in Nat /\ j.pending \in Nat
  BY <1>1, Indices DEF Records, Sequences
<1>3. more \in Works
  <2>1. more = [works EXCEPT ![j.next] = [works[j.next] EXCEPT !.at = "waiting"]] /\ works[j.next] \in Fibers
    BY <1>1, <1>2 DEF Works
  <2>2. [works[j.next] EXCEPT !.at = "waiting"] \in Fibers
    BY <2>1, FiberAt
  <2> QED BY <1>1, <2>1, <2>2 DEF Works
<1>9. /\ next \in Records /\ next.status = j.status /\ next.done = j.done /\ next.output = j.output
      /\ next.pending = j.pending + 1 /\ next.next = j.next + 1
  <2>1. j.next + 1 \in 0 .. MaxTasks /\ j.pending + 1 \in Nat
    BY <1>2, Indices
  <2> HIDE DEF j, works
  <2> QED BY <1>1, <2>1, Counted
<1>4. Unsettled(more) = Unsettled(works) \cup {j.next} /\ j.next \notin Unsettled(works)
  BY <1>1, <1>2 DEF Unsettled, Works, Fibers, Running
<1>5. Cardinality(Unsettled(more)) = Cardinality(Unsettled(works)) + 1
  BY <1>4, UnsettledFinite, FS_AddElement
<1>6. \A s \in Sequences : more[s] = IF s = j.next THEN [works[s] EXCEPT !.at = "waiting"] ELSE works[s]
  BY <1>1 DEF Works
<1>7. Running(next, more)
  <2>1. /\ next.status = j.status /\ next.done = j.done /\ next.output = j.output
        /\ next.pending = j.pending + 1 /\ next.next = j.next + 1 /\ j.output \in Nat
    BY <1>1, <1>9 DEF Records
  <2>2. \A s \in Sequences : more[s].at = IF s = j.next THEN "waiting" ELSE works[s].at
    BY <1>1, <1>6 DEF Works, Fibers
  <2>3. \A s \in Sequences : s # j.next => more[s] = works[s]
    BY <1>6
  <2> HIDE DEF next, more, works, j
  <2> QED BY <1>1, <1>2, <1>5, <2>1, <2>2, <2>3, Indices DEF Running
<1>8. job' = [job EXCEPT ![registered] = next] /\ forks' = [forks EXCEPT ![registered] = more]
      /\ registered' = registered
  BY <1>1 DEF extend, WithCounts, RegistryInv, RegistryTypeOK
<1> HIDE DEF next, more, works, j
<1> QED BY <1>1, <1>3, <1>7, <1>8, <1>9, OneJob

\* What the closing of a job's scope does to its works.
LEMMA Closed ==
    ASSUME NEW works \in Works, NEW settled
    PROVE  /\ ScopeClosed(works, settled) \in Works
           /\ \A s \in Sequences :
                 /\ ScopeClosed(works, settled)[s].exit = works[s].exit
                 /\ ScopeClosed(works, settled)[s].at \notin {"waiting", "working"}
BY DEF ScopeClosed, Works, Fibers

LEMMA CancelJob == ASSUME RegistryInv, cancelJob PROVE RegistryInv'
<1> DEFINE j == Finished(job[registered], "cancelled")
           works == ScopeClosed(forks[registered], MaxTasks)
<1>1. registered \in Jobs /\ job[registered] \in Records /\ forks[registered] \in Works
  BY RegisteredRuns DEF cancelJob
<1>2. j \in Records /\ works \in Works
  BY <1>1, Closed DEF Finished, Records, WorkExits
<1>3. Ended(j, works)
  BY <1>1, Closed DEF Ended, Finished, Records, WorkExits
<1>4. job' = [job EXCEPT ![registered] = j] /\ forks' = [forks EXCEPT ![registered] = works]
      /\ registered' = registered
  BY <1>1 DEF cancelJob, RegistryInv, RegistryTypeOK
<1> HIDE DEF j, works
<1> QED BY <1>1, <1>2, <1>3, <1>4, OneJob

LEMMA PromoteJob == ASSUME RegistryInv, promote PROVE RegistryInv'
<1> DEFINE j == [job[registered] EXCEPT !.background = TRUE, !.promoted = TRUE]
           works == forks[registered]
<1>1. registered \in Jobs /\ job[registered] \in Records /\ works \in Works
      /\ Running(job[registered], works)
  BY RegisteredRuns DEF promote
<1>2. j \in Records /\ Running(j, works)
  BY <1>1 DEF Records, Running
<1>3. job' = [job EXCEPT ![registered] = j] /\ forks' = [forks EXCEPT ![registered] = works]
      /\ registered' = registered
  BY <1>1 DEF promote, RegistryInv, RegistryTypeOK
<1> HIDE DEF j, works
<1> QED BY <1>1, <1>2, <1>3, OneJob

\* Steps of a work that leave its job alone.
LEMMA WorkMoves ==
    ASSUME RegistryInv, NEW g \in Jobs, NEW s \in Sequences, NEW f \in Fibers,
           forks' = [forks EXCEPT ![g][s] = f], UNCHANGED <<registered, job>>,
           \/ forks[g][s].at \in {"waiting", "working"} /\ f.at \in {"working", "exiting"}
           \/ forks[g][s].at = "exiting" /\ f.at = "gone" /\ f.exit = forks[g][s].exit
              /\ ~(g = registered /\ job[g].status = "running"),
           f.at = "exiting" => f.exit \in WorkExits
    PROVE  RegistryInv'
<1> DEFINE works == [forks[g] EXCEPT ![s] = f]
<1>1. forks' = [forks EXCEPT ![g] = works] /\ works \in Works /\ forks[g] \in Works /\ job[g] \in Records
  BY DEF RegistryInv, RegistryTypeOK, Works
<1>2. \A r \in Sequences : works[r] = IF r = s THEN f ELSE forks[g][r]
  BY <1>1 DEF Works
<1>3. JobOK(g) /\ registered \in Nat /\ g \in Nat
  BY Indices DEF RegistryInv, RegistryTypeOK
<1>4. g <= registered
  BY <1>3 DEF JobOK, NoFiber
<1>5. \/ Ended(job[g], works)
      \/ g = registered /\ Running(job[g], works)
  <2>1. CASE Ended(job[g], forks[g])
    BY <1>2, <2>1 DEF Ended
  <2>2. CASE g = registered /\ Running(job[g], forks[g])
    <3>1. forks[g][s].at \in {"waiting", "working"} /\ f.at \in {"working", "exiting"}
      BY <2>2 DEF Running
    <3>2. Unsettled(works) = Unsettled(forks[g])
      BY <1>2, <3>1 DEF Unsettled
    <3> QED BY <1>2, <2>2, <3>1, <3>2 DEF Running
  <2> QED BY <1>3, <1>4, <2>1, <2>2 DEF JobOK
<1>6. forks'[g] = works
  BY <1>1 DEF RegistryInv, RegistryTypeOK
<1> HIDE DEF works
<1>7. \A d \in Jobs : JobOK(d)'
  <2> SUFFICES ASSUME NEW d \in Jobs PROVE JobOK(d)'
    OBVIOUS
  <2>1. JobOK(d) /\ registered' = registered /\ job' = job
    BY DEF RegistryInv
  <2>2. CASE d = g
    <3>1. Ended(job[g], forks[g])' <=> Ended(job[g], works)
      BY <1>6, <2>1 DEF Ended
    <3>2. Running(job[g], forks[g])' <=> Running(job[g], works)
      BY <1>6, <2>1 DEF Running, Unsettled
    <3> QED BY <1>3, <1>4, <1>5, <2>1, <2>2, <3>1, <3>2 DEF JobOK
  <2>3. CASE d # g
    <3>1. forks'[d] = forks[d]
      BY <1>1, <2>3 DEF RegistryInv, RegistryTypeOK
    <3>2. Ended(job[d], forks[d])' <=> Ended(job[d], forks[d])
      BY <2>1, <3>1 DEF Ended
    <3>3. Running(job[d], forks[d])' <=> Running(job[d], forks[d])
      BY <2>1, <3>1 DEF Running, Unsettled
    <3> QED BY <2>1, <3>1, <3>2, <3>3 DEF JobOK
  <2> QED BY <2>2, <2>3
<1> QED BY <1>1, <1>7 DEF RegistryInv, RegistryTypeOK

LEMMA SettleRunning ==
    ASSUME RegistryInv, NEW g \in Jobs, NEW s \in Sequences, settleWork(g, s),
           g = registered, job[g].status = "running"
    PROVE  RegistryInv'
<1> DEFINE j == job[g]
           w == forks[g]
           e == w[s].exit
           output == IF e = "completed" THEN Output(j, s) ELSE j.output
           kept == WithOutput(j, j.pending - 1, output)
           goes == e = "completed" /\ kept.pending > 0
           settled == SettledJob(j, s, e)
           works == IF goes THEN [w EXCEPT ![s].at = "gone"] ELSE ScopeClosed(w, s)
<1>1. j \in Records /\ w \in Works /\ Running(j, w) /\ w[s].at = "exiting"
  BY RegisteredRuns DEF settleWork, IsRunning, Jobs
<1>2. settled = IF goes THEN kept ELSE Finished(kept, e)
  BY DEF SettledJob, WithOutput
<1>3. /\ goes => works = [w EXCEPT ![s] = [w[s] EXCEPT !.at = "gone"]]
      /\ ~goes => works = ScopeClosed(w, s)
  BY <1>1 DEF Works
<1>4. job' = [job EXCEPT ![g] = settled] /\ registered' = registered
      /\ forks' = [forks EXCEPT ![g] = IF settled.status = "running"
                                       THEN [w EXCEPT ![s].at = "gone"]
                                       ELSE ScopeClosed(w, s)]
  <2>1. job' = [job EXCEPT ![g] = settled] /\ registered' = registered
    BY DEF settleWork
  <2>2. job'[g] = settled
    BY <2>1 DEF RegistryInv, RegistryTypeOK
  <2>3. forks' = [forks EXCEPT ![g] = IF job'[g].status = "running"
                                      THEN [@ EXCEPT ![s].at = "gone"]
                                      ELSE ScopeClosed(@, s)]
    BY DEF settleWork
  <2> QED BY <2>1, <2>2, <2>3
<1> HIDE DEF settled
<1>5. (settled.status = "running" <=> goes) => forks' = [forks EXCEPT ![g] = works]
  BY <1>4
<1> HIDE DEF works
<1>6. /\ e \in WorkExits /\ s \in Nat /\ s < j.next /\ j.pending \in Nat \ {0}
      /\ j.next \in Nat /\ j.output \in Nat
  BY <1>1, Indices DEF Running, Records
<1>7. Output(j, s) \in Nat /\ Output(j, s) <= j.next /\ s < Output(j, s) /\ j.output <= Output(j, s)
  BY <1>1, <1>6 DEF Output, Running
<1>8. output \in Nat /\ output <= j.next /\ j.output <= output /\ (e = "completed" => s < output)
  BY <1>1, <1>6, <1>7 DEF Running
<1> HIDE DEF output
<1>9. /\ kept \in Records /\ kept.pending = j.pending - 1 /\ kept.pending \in Nat
      /\ kept.output = output /\ kept.status = j.status /\ kept.done = j.done /\ kept.next = j.next
  <2>1. j.pending - 1 \in Nat
    BY <1>6
  <2> HIDE DEF j, w, e
  <2> QED BY <1>1, <1>8, <2>1, Kept
<1> HIDE DEF kept
<1>10. /\ Finished(kept, e) \in Records /\ Finished(kept, e).status = e /\ Finished(kept, e).done = e
       /\ Finished(kept, e).output = output /\ Finished(kept, e).next = j.next
  BY <1>6, <1>9, Finishes
<1>11. w[s] \in Fibers /\ s \in Unsettled(w)
  BY <1>1 DEF Works, Unsettled
<1>19. ASSUME NEW r \in Sequences
       PROVE  /\ r \in Nat /\ w[r] \in Fibers
              /\ w[r].at = "none" <=> r >= j.next
              /\ w[r].at = "exiting" => w[r].exit \in WorkExits
              /\ w[r].at = "gone" => w[r].exit = "completed" /\ r < output
  <2>1. r \in Nat /\ w[r] \in Fibers
    BY <1>1, Indices DEF Works
  <2>2. /\ w[r].at = "none" <=> r >= j.next
        /\ w[r].at = "exiting" => w[r].exit \in WorkExits
        /\ w[r].at = "gone" => w[r].exit = "completed" /\ r < j.output
    <3> HIDE DEF j, w
    <3> QED BY <1>1 DEF Running
  <2>3. r < j.output => r < output
    BY <1>6, <1>8, <2>1
  <2> QED BY <2>1, <2>2, <2>3
<1>12. Cardinality(Unsettled(w) \ {s}) = kept.pending
  BY <1>1, <1>6, <1>9, <1>11, UnsettledFinite, FS_RemoveElement DEF Running
<1>13. settled \in Records
  BY <1>2, <1>9, <1>10
<1>14. [w[s] EXCEPT !.at = "gone"] \in Fibers
  BY <1>11, FiberAt
<1>15. works \in Works
  BY <1>1, <1>3, <1>14, Closed DEF Works
<1>16. ASSUME goes PROVE Running(settled, works)
  <2>1. works = [w EXCEPT ![s] = [w[s] EXCEPT !.at = "gone"]] /\ settled = kept
    BY <1>2, <1>3, <1>16
  <2>2. \A r \in Sequences : works[r] = IF r = s THEN [w[s] EXCEPT !.at = "gone"] ELSE w[r]
    BY <1>1, <2>1 DEF Works
  <2>3. \A r \in Sequences : works[r].at = (IF r = s THEN "gone" ELSE w[r].at) /\ works[r].exit = w[r].exit
    <3> DEFINE f == [w[s] EXCEPT !.at = "gone"]
    <3>1. f.at = "gone" /\ f.exit = w[s].exit
      BY <1>11 DEF Fibers
    <3> HIDE DEF f, w
    <3> QED BY <2>2, <3>1 DEF f
  <2>4. Unsettled(works) = Unsettled(w) \ {s}
    BY <2>3 DEF Unsettled
  <2>5. w[s].exit = "completed" /\ e = "completed" /\ kept.pending > 0
    BY <1>16
  <2> HIDE DEF j, w, e, goes
  <2>6. /\ settled.status = "running" /\ settled.done = "open" /\ settled.next = j.next /\ j.next > 0
        /\ settled.pending = Cardinality(Unsettled(works)) /\ settled.pending > 0
        /\ settled.output = output /\ output <= j.next
    BY <1>1, <1>8, <1>9, <1>12, <2>1, <2>4, <2>5 DEF Running
  <2>7. ASSUME NEW r \in Sequences
        PROVE  /\ works[r].at = "none" <=> r >= settled.next
               /\ works[r].at = "exiting" => works[r].exit \in WorkExits
               /\ works[r].at = "gone" => works[r].exit = "completed" /\ r < output
    <3>0. settled.next = j.next
      BY <2>6
    <3>1. CASE r = s
      <4>1. works[r].at = "gone" /\ works[r].exit = "completed"
        BY <2>3, <2>5, <3>1
      <4>2. ~(r >= j.next) /\ r < output
        BY <1>6, <1>8, <2>5, <3>1
      <4> QED BY <3>0, <4>1, <4>2
    <3>2. CASE r # s
      <4>1. works[r].at = w[r].at /\ works[r].exit = w[r].exit
        BY <2>3, <3>2
      <4> QED BY <1>19, <3>0, <4>1
    <3> QED BY <3>1, <3>2
  <2> QED BY <2>6, <2>7 DEF Running
<1>17. ASSUME ~goes PROVE Ended(settled, works)
  <2>1. \A r \in Sequences : works[r].exit = w[r].exit /\ works[r].at \notin {"waiting", "working"}
    BY <1>1, <1>3, <1>17, Closed
  <2>2. settled = Finished(kept, e)
    BY <1>2, <1>17
  <2>3. CASE e = "completed"
    <3>1. kept.pending = 0
      <4>1. ~(kept.pending > 0)
        BY <1>17, <2>3
      <4>2. kept.pending \in Nat
        BY <1>9
      <4> QED BY <4>1, <4>2
    <3>2. Unsettled(w) \ {s} = {}
      BY <1>12, <3>1, UnsettledFinite, FS_EmptySet, FS_RemoveElement, <1>11
    <3>3. \A r \in Sequences : r # s /\ r < j.next => w[r].at = "gone"
      <4> SUFFICES ASSUME NEW r \in Sequences, r # s, r < j.next PROVE w[r].at = "gone"
        OBVIOUS
      <4>1. w[r] \in Fibers /\ r \in Nat /\ (w[r].at = "none" <=> r >= j.next)
        BY <1>19
      <4>2. w[r].at # "none"
        BY <1>6, <4>1
      <4>3. r \notin Unsettled(w)
        BY <3>2
      <4> QED BY <4>1, <4>2, <4>3 DEF Fibers, Unsettled
    <3>4. \A r \in Sequences : r < j.next => w[r].exit = "completed" /\ r < output
      <4> SUFFICES ASSUME NEW r \in Sequences, r < j.next
                   PROVE  w[r].exit = "completed" /\ r < output
        OBVIOUS
      <4>1. CASE r = s
        BY <1>8, <2>3, <4>1
      <4>2. CASE r # s
        BY <1>19, <3>3, <4>2
      <4> QED BY <4>1, <4>2
    <3>5. j.next - 1 \in Sequences /\ j.next - 1 < output
      BY <1>1, <1>6, <3>4, Indices DEF Sequences, Records, Running
    <3>6. output = j.next
      BY <1>6, <1>8, <3>5
    <3> HIDE DEF j, w, e, goes
    <3> QED BY <1>6, <1>10, <2>1, <2>2, <2>3, <3>4, <3>6 DEF Ended
  <2>4. CASE e # "completed"
    <3> HIDE DEF j, w, e, goes
    <3> QED BY <1>6, <1>10, <2>1, <2>2, <2>4 DEF Ended
  <2> QED BY <2>3, <2>4
<1>18. settled.status = "running" <=> goes
  BY <1>1, <1>2, <1>6, <1>9, <1>10 DEF Running, WorkExits
<1> HIDE DEF goes, j, w, e
<1> QED BY <1>4, <1>5, <1>13, <1>15, <1>16, <1>17, <1>18, OneJob

LEMMA JobMoves ==
    ASSUME RegistryInv, NEW g \in Jobs, NEW s \in Sequences, jobStep(g, s)
    PROVE  RegistryInv'
<1>1. forks[g] \in Works /\ forks[g][s] \in Fibers
  BY DEF RegistryInv, RegistryTypeOK, Works
<1>2. CASE beginWork(g, s)
  <2> DEFINE f == [forks[g][s] EXCEPT !.at = "working"]
  <2>1. forks' = [forks EXCEPT ![g][s] = f] /\ f \in Fibers /\ f.at = "working"
        /\ forks[g][s].at = "waiting" /\ UNCHANGED <<registered, job>>
    BY <1>1, <1>2, FiberAt DEF beginWork
  <2> HIDE DEF f
  <2> QED BY <2>1, WorkMoves
<1>3. CASE endWork(g, s)
  BY <1>1, <1>3, WorkMoves DEF endWork, Fibers
<1>4. CASE settleWork(g, s)
  <2>1. CASE g = registered /\ job[g].status = "running"
    BY <1>4, <2>1, SettleRunning
  <2>2. CASE ~(g = registered /\ job[g].status = "running")
    <3> DEFINE f == [forks[g][s] EXCEPT !.at = "gone"]
    <3>1. forks' = [forks EXCEPT ![g][s] = f] /\ UNCHANGED <<registered, job>>
          /\ forks[g][s].at = "exiting"
      BY <1>4, <2>2 DEF settleWork
    <3>2. f \in Fibers /\ f.at = "gone" /\ f.exit = forks[g][s].exit
      BY <1>1 DEF Fibers
    <3> HIDE DEF f
    <3> QED BY <2>2, <3>1, <3>2, WorkMoves
  <2> QED BY <2>1, <2>2
<1> QED BY <1>2, <1>3, <1>4 DEF jobStep

-----------------------------------------------------------------------------
(* The calls.                                                               *)

LEMMA TaskInitInv == TaskInit => TaskInv
<1> SUFFICES ASSUME TaskInit PROVE TaskInv
  OBVIOUS
<1>1. RegistryTypeOK /\ TaskTypeOK
  BY Indices DEF TaskInit, RegistryInit, RegistryTypeOK, TaskTypeOK, NoJob, NoFiber, NotCalled, NoNotifier,
     Records, Works, Fibers, Calls, Notifiers
<1>2. \A g \in Jobs : JobOK(g)
  BY Indices DEF TaskInit, RegistryInit, JobOK
<1>3. \A t \in Tasks : RoomLeft(t) /\ CallOK(t)
  BY Indices DEF TaskInit, RegistryInit, RoomLeft, CallOK, NotCalled, NoNotifier, NoJob
<1> QED BY <1>1, <1>2, <1>3 DEF TaskInv, RegistryInv

\* What no step does to the jobs that are there: a job keeps who started it and that it
\* is in the background, and one that has ended stays as it is.
JobsStay ==
    /\ registered <= registered'
    /\ \A g \in 1 .. registered :
          /\ job'[g].by = job[g].by
          /\ job[g].background => job'[g].background
          /\ job[g].done # "open" => job'[g].done # "open" /\ job'[g].background = job[g].background

\* A step of the registry that starts no job and adds no work.
Quiet ==
    /\ registered' = registered /\ RegistryInv' /\ JobsStay
    /\ \A g \in Jobs : job'[g].next = job[g].next /\ job'[g].by = job[g].by

LEMMA JobStepQuiet ==
    ASSUME RegistryInv, NEW g \in Jobs, NEW s \in Sequences, jobStep(g, s)
    PROVE  Quiet
<1>1. RegistryInv' /\ registered' = registered /\ registered \in Nat
  BY JobMoves DEF jobStep, beginWork, endWork, settleWork, RegistryInv, RegistryTypeOK
<1>2. CASE job' = job
  BY <1>1, <1>2 DEF Quiet, JobsStay
<1>3. CASE job' # job
  <2>1. /\ job' = [job EXCEPT ![g] = SettledJob(@, s, forks[g][s].exit)]
        /\ g = registered /\ job[g].status = "running"
    BY <1>3 DEF jobStep, beginWork, endWork, settleWork
  <2>2. Running(job[g], forks[g]) /\ job[g] \in Records
    BY <2>1, RegisteredRuns DEF IsRunning, Jobs, RegistryInv, RegistryTypeOK
  <2>3. LET j == SettledJob(job[g], s, forks[g][s].exit)
        IN  j.next = job[g].next /\ j.by = job[g].by /\ j.background = job[g].background
    BY <2>2 DEF SettledJob, Finished, Records
  <2>4. \A f \in Jobs : job'[f] = IF f = g THEN SettledJob(job[g], s, forks[g][s].exit) ELSE job[f]
    BY <2>1 DEF RegistryInv, RegistryTypeOK
  <2>5. 1 .. registered \subseteq Jobs
    BY Indices DEF Jobs, RegistryInv, RegistryTypeOK
  <2> QED BY <1>1, <2>2, <2>3, <2>4, <2>5 DEF Quiet, JobsStay, Running
<1> QED BY <1>2, <1>3

LEMMA CancelQuiet == ASSUME RegistryInv, cancelJob PROVE Quiet
<1>1. /\ registered' = registered /\ registered \in Jobs /\ Running(job[registered], forks[registered])
      /\ job[registered] \in Records /\ RegistryInv' /\ 1 .. registered \subseteq Jobs
  BY RegisteredRuns, CancelJob, Indices DEF cancelJob, Jobs
<1>2. \A f \in Jobs : job'[f] = IF f = registered THEN Finished(job[registered], "cancelled") ELSE job[f]
  BY DEF cancelJob, RegistryInv, RegistryTypeOK
<1>3. LET j == Finished(job[registered], "cancelled")
      IN  j.next = job[registered].next /\ j.by = job[registered].by
          /\ j.background = job[registered].background
  BY <1>1, Finishes DEF WorkExits
<1>4. job[registered].done = "open" /\ registered <= registered'
  BY <1>1, Indices DEF Running
<1>5. JobsStay
  BY <1>1, <1>2, <1>3, <1>4 DEF JobsStay
<1> QED BY <1>1, <1>2, <1>3, <1>5 DEF Quiet

LEMMA PromoteQuiet ==
    ASSUME RegistryInv, promote
    PROVE  /\ Quiet /\ registered \in Jobs /\ job'[registered].background
           /\ job[registered].done = "open"
<1>1. /\ registered' = registered /\ registered \in Jobs /\ Running(job[registered], forks[registered])
      /\ job[registered] \in Records /\ RegistryInv' /\ 1 .. registered \subseteq Jobs
  BY RegisteredRuns, PromoteJob, Indices DEF promote, Jobs
<1>2. \A f \in Jobs : job'[f] = IF f = registered
                                THEN [job[f] EXCEPT !.background = TRUE, !.promoted = TRUE] ELSE job[f]
  BY DEF promote, RegistryInv, RegistryTypeOK
<1>3. LET j == [job[registered] EXCEPT !.background = TRUE, !.promoted = TRUE]
      IN  j.next = job[registered].next /\ j.by = job[registered].by /\ j.background
  BY <1>1 DEF Records
<1>4. job[registered].done = "open" /\ registered <= registered'
  BY <1>1, Indices DEF Running
<1>5. JobsStay
  BY <1>1, <1>2, <1>3, <1>4 DEF JobsStay
<1> QED BY <1>1, <1>2, <1>3, <1>4, <1>5 DEF Quiet

\* What holds of a call stays so while the registry goes on beside it.
LEMMA CallStays ==
    ASSUME TaskInv, NEW t \in Tasks, JobsStay, registered' \in Nat,
           \A g \in Jobs : t \in job'[g].by => t \in job[g].by,
           task'[t].at = task[t].at \/ (task[t].at \in {"racing", "releasing"} /\ task'[t].at # "ready"
                                         /\ task[t].told \notin {"result", "failure"}),
           task'[t].job = task[t].job,
           notifier'[t].at # "off" =>
              notifier[t].at # "off" \/ (task[t].at # "ready" /\ job'[task[t].job].background),
           task'[t].told \in {"result", "failure"} =>
              \/ task[t].told \in {"result", "failure"} /\ task'[t].at = task[t].at
              \/ task'[t].at = "returned" /\ job'[task[t].job].done # "open"
                 /\ ~job'[task[t].job].background
    PROVE  CallOK(t)'
<1>1. CallOK(t) /\ registered \in Nat
  BY DEF TaskInv, RegistryInv, RegistryTypeOK
<1>2. task[t].at # "ready" => task[t].job \in 1 .. registered'
  BY <1>1, Indices DEF JobsStay, CallOK
<1> QED BY <1>1, <1>2 DEF CallOK, JobsStay

\* A quiet step of the registry with a step of one call.
LEMMA QuietStep ==
    ASSUME TaskInv, Quiet, TaskTypeOK',
           \A t \in Tasks : task'[t].at = "ready" => task[t].at = "ready",
           \A t \in Tasks : CallOK(t)'
    PROVE  TaskInv'
<1>1. \A t \in Tasks : RoomLeft(t)'
  <2> SUFFICES ASSUME NEW t \in Tasks PROVE RoomLeft(t)'
    OBVIOUS
  <2>1. registered # 0 => registered \in Jobs
    BY DEF TaskInv, RegistryInv, RegistryTypeOK, Jobs
  <2> QED BY <2>1 DEF RoomLeft, Quiet, TaskInv
<1> QED BY <1>1 DEF TaskInv, Quiet

\* What a call that is made next knows of the room left.
LEMMA NextCall ==
    ASSUME TaskInv, NEW t \in Tasks, IsNextCall(t)
    PROVE  /\ task[t].at = "ready" /\ t \in Nat /\ registered < t /\ t <= MaxTasks
           /\ registered # 0 => registered + job[registered].next <= t
           /\ \A n \in Tasks : task[n].at = "ready" /\ n # t => t < n
           /\ \A g \in Jobs : t \notin job[g].by
           /\ notifier[t].at = "off"
BY Indices DEF TaskInv, IsNextCall, RoomLeft, CallOK, Tasks

LEMMA ExtendStep == ASSUME TaskInv, NEW t \in Tasks, extendTask(t) PROVE TaskInv'
<1>1. /\ registered' = registered /\ registered \in Jobs /\ Running(job[registered], forks[registered])
      /\ job[registered] \in Records /\ 1 .. registered \subseteq Jobs
  <2>1. IsRunning /\ RegistryInv /\ registered' = registered
    BY DEF extendTask, extend, TaskInv
  <2>2. registered \in Jobs /\ Running(job[registered], forks[registered]) /\ job[registered] \in Records
    BY <2>1, RegisteredRuns
  <2> QED BY <2>1, <2>2, Indices DEF Jobs
<1>2. /\ registered + job[registered].next <= t /\ t <= MaxTasks /\ task[t].at = "ready"
      /\ notifier[t].at = "off" /\ t \in Nat /\ registered < t
      /\ \A n \in Tasks : task[n].at = "ready" /\ n # t => t < n
      /\ \A g \in Jobs : t \notin job[g].by
  BY <1>1, NextCall, Indices DEF extendTask
<1>3. job[registered].next < MaxTasks /\ job[registered].next \in Nat
  BY <1>1, <1>2, Indices DEF Records
<1>4. RegistryInv'
  BY <1>3, ExtendJob DEF extendTask, TaskInv
<1>5. \A f \in Jobs : job'[f] = IF f = registered
                                THEN [job[f] EXCEPT !.pending = @ + 1, !.next = @ + 1] ELSE job[f]
  BY DEF extendTask, extend, TaskInv, RegistryInv, RegistryTypeOK
<1>6. LET j == [job[registered] EXCEPT !.pending = @ + 1, !.next = @ + 1]
      IN  j.next = job[registered].next + 1 /\ j.by = job[registered].by
          /\ j.background = job[registered].background /\ j.done = job[registered].done
  BY <1>1 DEF Records
<1>11. /\ \A f \in Jobs : /\ job'[f].by = job[f].by /\ job'[f].background = job[f].background
                          /\ job'[f].done = job[f].done
       /\ job'[registered].next = job[registered].next + 1
  BY <1>1, <1>5, <1>6
<1>7. JobsStay
  BY <1>1, <1>11, Indices DEF JobsStay
<1>8. task' = [task EXCEPT ![t] = [at |-> "returned", job |-> registered, told |-> "notified later"]]
      /\ notifier' = notifier
  BY DEF extendTask, Returns
<1>9. /\ TaskTypeOK'
      /\ \A n \in Tasks : n # t => task'[n] = task[n]
      /\ task'[t].at = "returned" /\ task'[t].job = registered /\ task'[t].told = "notified later"
  <2>1. registered \in 0 .. MaxTasks
    BY DEF TaskInv, RegistryInv, RegistryTypeOK
  <2> DEFINE call == [at |-> "returned", job |-> registered, told |-> "notified later"]
  <2>2. call \in Calls /\ call.at = "returned" /\ call.job = registered /\ call.told = "notified later"
    BY <2>1 DEF Calls
  <2>3. task' = [task EXCEPT ![t] = call]
    BY <1>8
  <2> HIDE DEF call
  <2> QED BY <1>8, <2>2, <2>3 DEF TaskInv, TaskTypeOK
<1>10. ASSUME NEW n \in Tasks PROVE RoomLeft(n)' /\ CallOK(n)'
  <2>1. CASE n = t
    <3>2. registered \in 1 .. registered'
      BY <1>1, Indices
    <3>3. RoomLeft(t)'
      BY <1>9 DEF RoomLeft
    <3> QED BY <1>2, <1>8, <1>9, <1>11, <2>1, <3>2, <3>3 DEF CallOK
  <2>2. CASE n # t
    <3>1. CallOK(n)'
      BY <1>1, <1>7, <1>8, <1>9, <1>11, <2>2, CallStays, Indices
    <3>2. RoomLeft(n)'
      <4>1. task'[n].at = "ready" => t < n /\ n \in Nat
        BY <1>2, <1>9, <2>2, Indices
      <4> QED BY <1>1, <1>2, <1>3, <1>11, <4>1, Indices DEF RoomLeft
    <3> QED BY <3>1, <3>2
  <2> QED BY <2>1, <2>2
<1> QED BY <1>4, <1>9, <1>10 DEF TaskInv

LEMMA StartStep == ASSUME TaskInv, NEW t \in Tasks, startTask(t) PROVE TaskInv'
<1>0. PICK b \in BOOLEAN : /\ start(t, b) /\ IsNextCall(t)
                           /\ IF b THEN notify(t, registered') /\ Returns(t, registered', "notified later")
                              ELSE /\ task' = [task EXCEPT ![t] =
                                           [at |-> "racing", job |-> registered', told |-> "none"]]
                                   /\ UNCHANGED notifier
  <2>1. startTask(t) => \E b \in BOOLEAN : start(t, b) /\ IsNextCall(t)
                           /\ IF b THEN notify(t, registered') /\ Returns(t, registered', "notified later")
                              ELSE /\ task' = [task EXCEPT ![t] =
                                           [at |-> "racing", job |-> registered', told |-> "none"]]
                                   /\ UNCHANGED notifier
    BY DEF startTask
  <2> QED BY <2>1
<1>1. /\ registered < t /\ t <= MaxTasks /\ task[t].at = "ready" /\ notifier[t].at = "off" /\ t \in Nat
      /\ \A n \in Tasks : task[n].at = "ready" /\ n # t => t < n
      /\ \A g \in Jobs : t \notin job[g].by
      /\ registered \in Nat
  <2>1. registered \in Nat
    BY Indices DEF TaskInv, RegistryInv, RegistryTypeOK
  <2> QED BY <1>0, <2>1, NextCall
<1>2. RegistryInv'
  <2>1. registered < MaxTasks
    BY <1>1, Indices
  <2>2. start(t, b) /\ RegistryInv
    BY <1>0 DEF TaskInv
  <2> QED BY <2>1, <2>2, StartJob
<1>3. /\ registered' = registered + 1 /\ registered + 1 \in Jobs /\ 1 .. registered \subseteq Jobs
      /\ \A f \in Jobs : job'[f] = IF f = registered + 1 THEN NewJob(t, b) ELSE job[f]
      /\ NewJob(t, b).by = {t} /\ NewJob(t, b).next = 1 /\ NewJob(t, b).background = b
      /\ job[registered + 1] = NoJob /\ NoJob.by = {}
  <2>1. registered' = registered + 1 /\ registered + 1 \in Jobs /\ 1 .. registered \subseteq Jobs
    <3>1. registered' = registered + 1
      BY <1>0 DEF start
    <3> QED BY <1>1, <3>1, Indices DEF Jobs
  <2>2. JobOK(registered + 1) /\ registered + 1 > registered
    BY <1>1, <2>1 DEF TaskInv, RegistryInv
  <2>3. job' = [job EXCEPT ![registered + 1] = NewJob(t, b)] /\ job \in [Jobs -> Records]
    BY <1>0, <2>1 DEF start, TaskInv, RegistryInv, RegistryTypeOK
  <2>4. \A f \in Jobs : job'[f] = IF f = registered + 1 THEN NewJob(t, b) ELSE job[f]
    BY <2>3
  <2>5. job[registered + 1] = NoJob /\ NoJob.by = {}
    BY <2>2 DEF JobOK, NoJob
  <2> QED BY <2>1, <2>4, <2>5, Begun
<1>4. JobsStay
  BY <1>1, <1>3, Indices DEF JobsStay
<1>5. /\ TaskTypeOK'
      /\ \A n \in Tasks : n # t => task'[n] = task[n] /\ notifier'[n] = notifier[n]
      /\ task'[t].at # "ready" /\ task'[t].job = registered + 1
      /\ task'[t].told \notin {"result", "failure"}
      /\ notifier'[t].at # "off" => b
  <2>0. registered + 1 \in 0 .. MaxTasks
    BY <1>1, <1>3, Indices
  <2>3. task \in [Tasks -> Calls] /\ notifier \in [Tasks -> Notifiers] /\ registered' = registered + 1
    BY <1>3 DEF TaskInv, TaskTypeOK
  <2>1. CASE b
    <3>1. /\ notifier' = [notifier EXCEPT ![t] = [at |-> "waiting", job |-> registered + 1]]
          /\ task' = [task EXCEPT ![t] =
                 [at |-> "returned", job |-> registered + 1, told |-> "notified later"]]
      BY <1>0, <2>1, <2>3 DEF notify, Returns
    <3> QED BY <2>0, <2>1, <2>3, <3>1 DEF TaskTypeOK, Calls, Notifiers
  <2>2. CASE ~b
    <3>1. /\ notifier' = notifier
          /\ task' = [task EXCEPT ![t] = [at |-> "racing", job |-> registered + 1, told |-> "none"]]
      BY <1>0, <2>2, <2>3
    <3> QED BY <1>1, <2>0, <2>3, <3>1 DEF TaskTypeOK, Calls
  <2> QED BY <2>1, <2>2
<1>6. ASSUME NEW n \in Tasks PROVE RoomLeft(n)' /\ CallOK(n)'
  <2>1. CASE n = t
    BY <1>1, <1>3, <1>5, <2>1, Indices DEF RoomLeft, CallOK
  <2>2. CASE n # t
    <3>1. \A g \in Jobs : n \in job'[g].by => n \in job[g].by
      BY <1>3, <2>2
    <3>2. CallOK(n)'
      BY <1>1, <1>3, <1>4, <1>5, <2>2, <3>1, CallStays, Indices
    <3>3. RoomLeft(n)'
      <4>1. task'[n].at = "ready" => t < n /\ n \in Nat
        BY <1>1, <1>5, <2>2, Indices
      <4>2. job'[registered'].next = 1
        BY <1>3
      <4> QED BY <1>1, <1>3, <4>1, <4>2, Indices DEF RoomLeft
    <3> QED BY <3>2, <3>3
  <2> QED BY <2>1, <2>2
<1> QED BY <1>2, <1>5, <1>6 DEF TaskInv

LEMMA Unmoved == ASSUME TaskInv, UNCHANGED registryVars PROVE Quiet
<1>1. registered' = registered /\ job' = job /\ forks' = forks /\ registered \in Nat /\ RegistryInv
  BY Indices DEF TaskInv, RegistryInv, RegistryTypeOK, registryVars
<1>2. RegistryInv'
  BY <1>1 DEF RegistryInv, RegistryTypeOK, JobOK, Ended, Running, Unsettled
<1> QED BY <1>1, <1>2 DEF Quiet, JobsStay

\* The answer a call is given, and what an interruption leaves of it.
LEMMA AnswerStep ==
    ASSUME TaskInv, NEW t \in Tasks, answerTask(t) \/ interruptTask(t) \/ releaseTask(t)
    PROVE  TaskInv'
<1>1. Quiet
  BY Unmoved, CancelQuiet DEF answerTask, interruptTask, releaseTask, TaskInv
<1>2. /\ task[t].at \in {"racing", "releasing"} /\ notifier' = notifier /\ task[t] \in Calls
      /\ CallOK(t) /\ registered \in Nat /\ registered' = registered
  <2>1. task[t].at \in {"racing", "releasing"} /\ notifier' = notifier
    BY DEF answerTask, interruptTask, releaseTask
  <2> QED BY <1>1, <2>1, Indices DEF TaskInv, TaskTypeOK, RegistryInv, RegistryTypeOK, Quiet
<1>3. PICK call \in Calls :
         /\ task' = [task EXCEPT ![t] = call] /\ call.job = task[t].job /\ call.at # "ready"
         /\ call.told \in {"result", "failure"} =>
               \/ call.told = task[t].told
               \/ call.at = "returned" /\ job'[call.job].done # "open" /\ ~job'[call.job].background
  <2>1. CASE answerTask(t)
    <3>1. job' = job
      BY <2>1 DEF answerTask, registryVars
    <3>2. PICK told \in {"notified later", "result", "failure"} :
             /\ Returns(t, task[t].job, told)
             /\ told \in {"result", "failure"} =>
                    job[task[t].job].done # "open" /\ ~job[task[t].job].background
      BY <2>1 DEF answerTask
    <3> DEFINE call == [at |-> "returned", job |-> task[t].job, told |-> told]
    <3>3. call \in Calls /\ call.at = "returned" /\ call.job = task[t].job /\ call.told = told
      BY <1>2 DEF Calls
    <3>4. task' = [task EXCEPT ![t] = call]
      BY <3>2 DEF Returns
    <3> HIDE DEF call
    <3> QED BY <3>1, <3>2, <3>3, <3>4
  <2>2. CASE interruptTask(t)
    <3> DEFINE call == [task[t] EXCEPT !.at = "releasing"]
    <3>1. call \in Calls /\ call.told = task[t].told /\ call.job = task[t].job /\ call.at = "releasing"
      BY <1>2 DEF Calls
    <3> QED BY <2>2, <3>1 DEF interruptTask
  <2>3. CASE releaseTask(t)
    <3> DEFINE call == [at |-> "returned", job |-> task[t].job, told |-> "interrupted"]
    <3>1. call \in Calls /\ call.at = "returned" /\ call.job = task[t].job /\ call.told = "interrupted"
      BY <1>2 DEF Calls
    <3>2. task' = [task EXCEPT ![t] = call]
      BY <2>3 DEF releaseTask, Returns
    <3> HIDE DEF call
    <3> QED BY <3>1, <3>2
  <2> QED BY <2>1, <2>2, <2>3
<1>4. TaskTypeOK' /\ \A n \in Tasks : task'[n] = IF n = t THEN call ELSE task[n]
  BY <1>2, <1>3 DEF TaskInv, TaskTypeOK
<1>5. task[t].told \notin {"result", "failure"}
  BY <1>2 DEF CallOK
<1>6. \A n \in Tasks : CallOK(n)'
  BY <1>1, <1>2, <1>3, <1>4, <1>5, CallStays DEF Quiet
<1> QED BY <1>1, <1>3, <1>4, <1>6, QuietStep

\* The notifiers.
LEMMA NotifierStep ==
    ASSUME TaskInv, promoteTask \/ \E t \in Tasks : onPromote(t) \/ inject(t)
    PROVE  TaskInv'
<1>1. Quiet /\ task' = task /\ registered \in 0 .. MaxTasks
  BY Unmoved, PromoteQuiet DEF promoteTask, onPromote, inject, TaskInv, RegistryInv, RegistryTypeOK
<1>2. TaskTypeOK'
  BY <1>1, Indices DEF promoteTask, onPromote, inject, notify, TaskInv, TaskTypeOK, Notifiers
<1>3. \A n \in Tasks : notifier'[n].at # "off" =>
         notifier[n].at # "off" \/ (task[n].at # "ready" /\ job'[task[n].job].background)
  <2>1. CASE promoteTask
    <3>1. registered \in Jobs /\ job'[registered].background
      BY <2>1, PromoteQuiet DEF promoteTask, TaskInv
    <3> QED BY <2>1, <3>1 DEF promoteTask, TaskInv, CallOK
  <2>2. CASE \E t \in Tasks : onPromote(t) \/ inject(t)
    BY <2>2 DEF onPromote, inject, notify, TaskInv, TaskTypeOK
  <2> QED BY <2>1, <2>2
<1>4. \A n \in Tasks : CallOK(n)'
  BY <1>1, <1>3, CallStays DEF Quiet
<1> QED BY <1>1, <1>2, <1>4, QuietStep

LEMMA RegistryStep ==
    ASSUME TaskInv, Quiet, UNCHANGED <<task, notifier>> PROVE TaskInv'
<1>1. TaskTypeOK' /\ registered' \in Nat
  BY DEF TaskInv, TaskTypeOK, RegistryInv, RegistryTypeOK, Quiet
<1>2. \A n \in Tasks : CallOK(n)'
  BY <1>1, CallStays DEF Quiet
<1> QED BY <1>1, <1>2, QuietStep

LEMMA TaskInvStep == TaskInv /\ [TaskNext]_taskVars => TaskInv'
<1> SUFFICES ASSUME TaskInv, [TaskNext]_taskVars PROVE TaskInv'
  OBVIOUS
<1>1. CASE UNCHANGED taskVars
  BY <1>1, Unmoved, RegistryStep DEF taskVars, registryVars
<1>2. CASE TaskNext
  BY <1>2, ExtendStep, StartStep, AnswerStep, NotifierStep, RegistryStep, JobStepQuiet, CancelQuiet
  DEF TaskNext, TaskInv, cancelSession
<1> QED BY <1>1, <1>2

LEMMA TaskInvAlways == TaskSpec => []TaskInv
BY TaskInitInv, TaskInvStep, PTL DEF TaskSpec

\* A job is completed only when all its works have ended well, its output is that of the
\* last one, and its waiters are told the status it has, for any number of calls.
THEOREM CompletedWithTheLast == TaskSpec => []ResultIsTheLast
<1>1. TaskInv => ResultIsTheLast
  <2> SUFFICES ASSUME TaskInv, NEW g \in Jobs
               PROVE  /\ job[g].status = "completed" =>
                            /\ job[g].output = job[g].next
                            /\ \A s \in Sequences : s < job[g].next => forks[g][s].exit = "completed"
                      /\ job[g].done # "open" => job[g].done = job[g].status
    BY DEF ResultIsTheLast
  <2>1. JobOK(g)
    BY DEF TaskInv, RegistryInv
  <2> QED BY <2>1 DEF JobOK, Ended, Running, NoJob
<1> QED BY <1>1, TaskInvAlways, PTL

\* A call that was given its job's outcome as a result has no notifier.
THEOREM ResultsDeliveredOnce == TaskSpec => []DeliveredOnce
<1>1. TaskInv => DeliveredOnce
  BY DEF TaskInv, CallOK, DeliveredOnce
<1> QED BY <1>1, TaskInvAlways, PTL

\* A call that waits for a job waits for a work of it that is still to settle.
THEOREM WaitersHaveWork == TaskSpec => []WaitersAreLetGo
<1>1. TaskInv => WaitersAreLetGo
  <2> SUFFICES ASSUME TaskInv, NEW t \in Tasks, task[t].at = "racing", job[task[t].job].done = "open"
               PROVE  \E s \in Sequences :
                         forks[task[t].job][s].at \in {"waiting", "working", "exiting"}
    BY DEF WaitersAreLetGo
  <2> DEFINE g == task[t].job
  <2>1. g \in Jobs /\ JobOK(g) /\ ~(g > registered)
    BY Indices DEF TaskInv, RegistryInv, RegistryTypeOK, CallOK, Jobs
  <2>2. Running(job[g], forks[g])
    BY <2>1 DEF JobOK, Ended, WorkExits
  <2>3. Unsettled(forks[g]) # {}
    <3>1. Cardinality(Unsettled(forks[g])) > 0
      BY <2>2 DEF Running
    <3>2. Cardinality({}) = 0
      BY FS_EmptySet
    <3> QED BY <3>1, <3>2
  <2> QED BY <2>3 DEF Unsettled
<1> QED BY <1>1, TaskInvAlways, PTL
=============================================================================
