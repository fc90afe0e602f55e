--------------------------- MODULE RunCoordinator ---------------------------
(***************************************************************************)
(* One execution lane of packages/core/src/session/run-coordinator.ts: the *)
(* in-memory coordinator that runs at most one drain of a Session at a     *)
(* time.  Lanes of different keys share nothing (every map is indexed by   *)
(* the key), so one lane is the whole component.                           *)
(*                                                                         *)
(* JavaScript runs each transition of the coordinator to completion ("Every *)
(* in-memory transition is synchronous"), so a call of run, wake,          *)
(* interrupt, awaitIdle, settle or the finalizer is one action.  What      *)
(* interleaves is everything in between: drains, their exits, the callers' *)
(* fibers, and the order in which calls arrive.                            *)
(***************************************************************************)
EXTENDS Integers

CONSTANTS
    Callers,        \* fibers that call run, awaitIdle and interrupt
    EntryIds,       \* identities of Entry objects; reused once unreferenced
    None,           \* no entry
    WakeSeqs,       \* admission sequences that wake can carry
    InterruptSeqs   \* event sequences that interrupt can carry

\* An absent (undefined) sequence number.  Event 0 of a Session is its creation,
\* so the sequences of admissions and interrupt requests are positive.
NoSeq == 0
Seqs == {NoSeq} \cup WakeSeqs \cup InterruptSeqs

ASSUME SeqAssumption ==
    /\ WakeSeqs \subseteq Nat \ {NoSeq}
    /\ InterruptSeqs \subseteq Nat \ {NoSeq}
ASSUME NoneAssumption == None \notin EntryIds

VARIABLES
    active,         \* the Entry published for the key, or None
    entry,          \* [EntryIds -> Entry]
    fiber,          \* the owner fiber of each entry
    interruptSeq,   \* newest interrupt boundary seen for the key
    closed,         \* the owning scope has closed
    pc,             \* where each caller is
    at,             \* the entry whose deferred the caller awaits
    result,         \* how the caller's run ended / first failure of awaitIdle
    ran,            \* history: an explicit drain succeeded during this run call
    cut,            \* history: a stop reached the chain this run call waits on
    owed,           \* history: accepted wakes that no drain has started after
    merged          \* history: those of owed that were folded into a run demand

laneVars == <<active, entry, fiber, interruptSeq, closed>>
callerVars == <<pc, at, result, ran, cut>>
wakeVars == <<owed, merged>>
vars == <<laneVars, callerVars, wakeVars>>

-----------------------------------------------------------------------------
(* Demands.  coalesce and maxSeq are the functions of the same name.        *)

NoDemand == [tag |-> "none", seq |-> NoSeq]
RunDemand == [tag |-> "run", seq |-> NoSeq]
WakeDemand(s) == [tag |-> "wake", seq |-> s]
Demands == {RunDemand} \cup {WakeDemand(s) : s \in Seqs}

maxSeq(l, r) == IF l >= r THEN l ELSE r

\* Mutant: the follow-up keeps the newest demand only, so a wake undoes a run.
coalesceLatest(left, right) ==
    IF right.tag = "run" THEN RunDemand ELSE WakeDemand(maxSeq(left.seq, right.seq))

coalesce(left, right) ==
    IF left.tag = "run" \/ right.tag = "run"
    THEN RunDemand
    ELSE WakeDemand(maxSeq(left.seq, right.seq))

Entries == [current : Demands, pending : Demands \cup {NoDemand},
            waiter : BOOLEAN, barrier : Seqs, stopping : BOOLEAN]

makeEntry(demand, waiter) ==
    [current |-> demand, pending |-> NoDemand, waiter |-> waiter,
     barrier |-> NoSeq, stopping |-> FALSE]

Exits == {"success", "failure", "interrupt"}
Waiting == {"awaitDone", "awaitExplicit", "awaitStopped", "awaitIdle", "awaitInterrupt"}
PCs == Waiting \cup {"ready", "returned", "retry", "checkIdle"}

\* An identity without an Entry object: what a collected Entry leaves behind.
NoEntry == makeEntry(RunDemand, FALSE)

\* An Entry object that no fiber and no caller refers to any more.
Fresh(e) == fiber[e] = "none" /\ active # e /\ \A c \in Callers : at[c] # e

isAfterInterrupt(s) == interruptSeq = NoSeq \/ s > interruptSeq

acceptsWake(en, s) ==
    ~en.stopping \/ (en.barrier # NoSeq /\ s > en.barrier)

\* Mutant: only wakes are suppressed.
suppressSparesRuns(pending, s) ==
    IF pending.tag = "run" \/ (s # NoSeq /\ pending.seq > s) THEN pending ELSE NoDemand

\* Mutant: everything pending is suppressed, whatever its sequence.
suppressAll(pending, s) == NoDemand

suppressPendingAtOrBefore(pending, s) ==
    IF pending.tag = "wake" /\ s # NoSeq /\ pending.seq > s
    THEN pending ELSE NoDemand

-----------------------------------------------------------------------------
(* run: start a chain, join it, upgrade its follow-up, or queue behind a stop. *)

\* Caller c is left at program point p on entry e with result r.
Park(c, p, e, r) ==
    /\ pc' = [pc EXCEPT ![c] = p]
    /\ at' = [at EXCEPT ![c] = e]
    /\ result' = [result EXCEPT ![c] = r]
    /\ ran' = [ran EXCEPT ![c] = FALSE]
    /\ cut' = [cut EXCEPT ![c] = FALSE]

\* A new entry for demand becomes the active one.  The first drain of a chain
\* starts at once; the drain of a successor is queued behind a yield.
Publish(e, demand, waiter, phase) ==
    /\ active' = e
    /\ entry' = [entry EXCEPT ![e] = makeEntry(demand, waiter)]
    /\ fiber' = [fiber EXCEPT ![e] = phase]

runClosed(c) ==
    /\ closed
    /\ Park(c, "returned", None, "interrupt")
    /\ UNCHANGED <<laneVars, wakeVars>>

runBehindStop(c) ==
    /\ ~closed /\ active # None /\ entry[active].stopping
    /\ Park(c, "awaitStopped", active, "none")
    /\ UNCHANGED <<laneVars, wakeVars>>

runUpgrade(c) ==
    /\ ~closed /\ active # None
    /\ ~entry[active].stopping /\ entry[active].current.tag = "wake"
    /\ entry' = [entry EXCEPT ![active].pending = coalesce(@, RunDemand),
                              ![active].waiter = TRUE]
    /\ merged' = owed
    /\ Park(c, "awaitExplicit", active, "none")
    /\ UNCHANGED <<active, fiber, interruptSeq, closed, owed>>

runJoin(c) ==
    /\ ~closed /\ active # None
    /\ ~entry[active].stopping /\ entry[active].current.tag = "run"
    /\ Park(c, "awaitDone", active, "none")
    /\ UNCHANGED <<laneVars, wakeVars>>

\* Mutant: run does not look for an active entry.
runStartAlways(c) ==
    /\ ~closed
    /\ \E e \in EntryIds :
        /\ Fresh(e)
        /\ Publish(e, RunDemand, FALSE, "running")
        /\ Park(c, "awaitDone", e, "none")
    /\ owed' = {} /\ merged' = {}
    /\ UNCHANGED <<interruptSeq, closed>>

runStart(c) ==
    /\ ~closed /\ active = None
    /\ \E e \in EntryIds :
        /\ Fresh(e)
        /\ Publish(e, RunDemand, FALSE, "running")
        /\ Park(c, "awaitDone", e, "none")
    /\ owed' = {} /\ merged' = {}
    /\ UNCHANGED <<interruptSeq, closed>>

run(c) == runClosed(c) \/ runBehindStop(c) \/ runUpgrade(c) \/ runJoin(c) \/ runStart(c)

\* A caller that is not inside the coordinator calls run.
CallRun(c) == pc[c] \in {"ready", "returned"} /\ run(c)

\* The entry that was stopping has settled: the caller runs again.
Retry(c) == pc[c] = "retry" /\ run(c)

-----------------------------------------------------------------------------
(* wake *)

wakeStart(s) ==
    /\ active = None
    /\ \E e \in EntryIds : Fresh(e) /\ Publish(e, WakeDemand(s), FALSE, "running")
    /\ owed' = {} /\ merged' = {}

wakeCoalesce(s) ==
    /\ active # None
    /\ acceptsWake(entry[active], s)
    /\ entry' = [entry EXCEPT ![active].pending = coalesce(@, WakeDemand(s))]
    /\ owed' = owed \cup ({s} \ {NoSeq})
    /\ merged' = IF entry'[active].pending.tag = "run" THEN owed' ELSE merged
    /\ UNCHANGED <<active, fiber>>

wake(s) ==
    /\ ~closed
    /\ isAfterInterrupt(s)
    /\ wakeStart(s) \/ wakeCoalesce(s)
    /\ UNCHANGED <<interruptSeq, closed, callerVars>>

-----------------------------------------------------------------------------
(* interrupt: advance the boundary, stop the chain, and wait for its owner.  *)

staleInterrupt(s) == s # NoSeq /\ s <= interruptSeq

\* A late interrupt only joins a stop that is already under way.
interruptStale(c, s) ==
    /\ staleInterrupt(s)
    /\ active # None /\ entry[active].stopping
    /\ Park(c, "awaitInterrupt", active, "none")
    /\ UNCHANGED <<laneVars, wakeVars>>

\* The boundary advances but the active drain serves a newer wake.
interruptPassed(c, s) ==
    /\ ~staleInterrupt(s) /\ s # NoSeq
    /\ interruptSeq' = s
    /\ active # None => /\ entry[active].current.tag = "wake"
                        /\ entry[active].current.seq > s
    /\ UNCHANGED <<active, entry, fiber, closed, callerVars, wakeVars>>

interruptStop(c, s) ==
    /\ ~staleInterrupt(s)
    /\ active # None
    /\ ~(/\ s # NoSeq
         /\ entry[active].current.tag = "wake"
         /\ entry[active].current.seq > s)
    /\ interruptSeq' = IF s # NoSeq THEN s ELSE interruptSeq
    /\ entry' = [entry EXCEPT
          ![active].stopping = TRUE,
          ![active].barrier = IF entry[active].stopping THEN maxSeq(@, s) ELSE s,
          ![active].pending = suppressPendingAtOrBefore(@, s)]
    /\ pc' = [pc EXCEPT ![c] = "awaitInterrupt"]
    /\ at' = [at EXCEPT ![c] = active]
    /\ result' = [result EXCEPT ![c] = "none"]
    /\ ran' = [ran EXCEPT ![c] = FALSE]
    /\ cut' = [d \in Callers |->
          d # c /\ (cut[d] \/ (at[d] = active /\ pc[d] \in {"awaitDone", "awaitExplicit"}))]
    /\ owed' = IF s = NoSeq THEN {} ELSE owed
    /\ merged' = IF s = NoSeq THEN {} ELSE merged
    /\ UNCHANGED <<active, fiber, closed>>

interrupt(c, s) ==
    /\ pc[c] \in {"ready", "returned"}
    /\ interruptStale(c, s) \/ interruptPassed(c, s) \/ interruptStop(c, s)

-----------------------------------------------------------------------------
(* awaitIdle: loop over the entries of the lane until none is active.       *)

CallAwaitIdle(c) ==
    /\ pc[c] \in {"ready", "returned"}
    /\ Park(c, "checkIdle", None, "none")
    /\ UNCHANGED <<laneVars, wakeVars>>

\* One test of the loop; a first failure is kept in result.
checkIdle(c) ==
    /\ pc[c] = "checkIdle"
    /\ pc' = [pc EXCEPT ![c] = IF closed \/ active = None THEN "ready" ELSE "awaitIdle"]
    /\ at' = [at EXCEPT ![c] = IF closed THEN None ELSE active]
    /\ UNCHANGED <<laneVars, result, ran, cut, wakeVars>>

\* The fiber of a waiting caller is interrupted; the drain it awaited is not.
Cancel(c) ==
    /\ pc[c] \in Waiting \cup {"retry", "checkIdle"}
    /\ Park(c, "ready", None, "none")
    /\ UNCHANGED <<laneVars, wakeVars>>

-----------------------------------------------------------------------------
(* settle: the owner fiber of entry e exits.                                *)

\* The deferreds a settling entry completes for its callers: the waiter of an
\* explicit run, and done/settled when the chain ends.
answers(e, explicit, done) ==
    {c \in Callers : at[c] = e /\ \/ pc[c] = "awaitExplicit" /\ explicit
                                  \/ pc[c] \in Waiting \ {"awaitExplicit"} /\ done}

Resumed(p) == CASE p \in {"awaitDone", "awaitExplicit"} -> "returned"
                [] p = "awaitStopped" -> "retry"
                [] p = "awaitIdle" -> "checkIdle"
                [] OTHER -> "ready"

Outcome(c, exit) ==
    IF pc[c] = "awaitIdle"
    THEN IF result[c] = "none" /\ exit # "success" THEN exit ELSE result[c]
    ELSE IF pc[c] \in {"awaitDone", "awaitExplicit"} THEN exit ELSE "none"

\* Complete the deferreds; an unanswered explicit waiter moves on to entry n.
Answer(e, exit, explicit, done, n) ==
    LET resumed == answers(e, explicit, done)
    IN  /\ pc' = [c \in Callers |-> IF c \in resumed THEN Resumed(pc[c]) ELSE pc[c]]
        /\ at' = [c \in Callers |-> IF c \in resumed THEN None
                                    ELSE IF at[c] = e THEN n ELSE at[c]]
        /\ result' = [c \in Callers |-> IF c \in resumed THEN Outcome(c, exit)
                                        ELSE result[c]]
        /\ ran' = [c \in Callers |->
              \/ ran[c]
              \/ /\ at[c] = e /\ pc[c] \in {"awaitDone", "awaitExplicit"}
                 /\ entry[e].current = RunDemand /\ exit = "success"]
        /\ UNCHANGED cut

\* Mutant: lines 122-125 are missing; a stopped wake leaves the waiter waiting.
answersRunsOnly(e) == entry[e].waiter /\ entry[e].current.tag = "run"

\* Mutant: the waiter is answered by whatever drain settles first.
answersAny(e) == entry[e].waiter

\* Lines 118-125: an explicit waiter is answered by the exit of a run, and by
\* the exit of a wake that was stopped.
answersWaiter(e) ==
    entry[e].waiter /\ (entry[e].current.tag = "run" \/ entry[e].stopping)

settleClosed(e, exit) ==
    /\ closed
    /\ Answer(e, exit, FALSE, TRUE, e)
    /\ fiber' = [fiber EXCEPT ![e] = "none"]
    /\ entry' = [entry EXCEPT ![e] = NoEntry]
    /\ UNCHANGED active

\* The entry is no longer the published one.
settleForeign(e, exit) ==
    /\ ~closed /\ active # e
    /\ Answer(e, exit, answersWaiter(e), TRUE, e)
    /\ fiber' = [fiber EXCEPT ![e] = "none"]
    /\ entry' = [entry EXCEPT ![e] = NoEntry]
    /\ UNCHANGED active

\* Mutant: the follow-up is started but not taken off the entry.
settleContinueKeepsPending(e, exit) ==
    /\ ~closed /\ active = e
    /\ exit = "success" /\ ~entry[e].stopping /\ entry[e].pending # NoDemand
    /\ Answer(e, exit, answersWaiter(e), FALSE, e)
    /\ entry' = [entry EXCEPT ![e].current = entry[e].pending,
                              ![e].waiter = @ /\ ~answersWaiter(e)]
    /\ fiber' = [fiber EXCEPT ![e] = "queued"]
    /\ UNCHANGED active

\* The chain continues: the same entry drains its follow-up demand.
settleContinue(e, exit) ==
    /\ ~closed /\ active = e
    /\ exit = "success" /\ ~entry[e].stopping /\ entry[e].pending # NoDemand
    /\ Answer(e, exit, answersWaiter(e), FALSE, e)
    /\ entry' = [entry EXCEPT ![e].current = entry[e].pending,
                              ![e].pending = NoDemand,
                              ![e].waiter = @ /\ ~answersWaiter(e)]
    /\ fiber' = [fiber EXCEPT ![e] = "queued"]
    /\ UNCHANGED active

\* Mutant: the lane becomes idle without completing done and settled.
settleIdleSilent(e, exit) ==
    /\ ~closed /\ active = e
    /\ entry[e].pending = NoDemand
    /\ Answer(e, exit, answersWaiter(e), FALSE, e)
    /\ active' = None
    /\ entry' = [entry EXCEPT ![e] = NoEntry]
    /\ fiber' = [fiber EXCEPT ![e] = "none"]

settleIdle(e, exit) ==
    /\ ~closed /\ active = e
    /\ entry[e].pending = NoDemand
    /\ Answer(e, exit, answersWaiter(e), TRUE, e)
    /\ active' = None
    /\ entry' = [entry EXCEPT ![e] = NoEntry]
    /\ fiber' = [fiber EXCEPT ![e] = "none"]

\* The chain failed or was stopped: its follow-up demand gets a new entry.
settleSuccessor(e, exit) ==
    /\ ~closed /\ active = e
    /\ exit # "success" \/ entry[e].stopping
    /\ entry[e].pending # NoDemand
    /\ \E n \in EntryIds :
        /\ n # e /\ Fresh(n)
        /\ Answer(e, exit, answersWaiter(e), TRUE, n)
        /\ active' = n
        /\ entry' = [entry EXCEPT
              ![e] = NoEntry,
              ![n] = makeEntry(entry[e].pending, entry[e].waiter /\ ~answersWaiter(e))]
        /\ fiber' = [fiber EXCEPT ![e] = "none", ![n] = "queued"]

\* A drain that never started can only exit because its fiber was interrupted.
settle(e, exit) ==
    /\ \/ fiber[e] = "running"
       \/ fiber[e] = "queued" /\ (closed \/ entry[e].stopping) /\ exit = "interrupt"
    /\ \/ settleClosed(e, exit)
       \/ settleForeign(e, exit)
       \/ settleContinue(e, exit)
       \/ settleIdle(e, exit)
       \/ settleSuccessor(e, exit)
    /\ UNCHANGED <<interruptSeq, closed, wakeVars>>

\* A successor's drain begins after its yield.
DrainStart(e) ==
    /\ fiber[e] = "queued" /\ ~closed /\ ~entry[e].stopping
    /\ fiber' = [fiber EXCEPT ![e] = "running"]
    /\ owed' = {} /\ merged' = {}
    /\ UNCHANGED <<active, entry, interruptSeq, closed, callerVars>>

\* The scope's finalizer; callers that race the shutdown signal are interrupted.
Close ==
    /\ ~closed
    /\ closed' = TRUE
    /\ active' = None /\ interruptSeq' = NoSeq
    /\ pc' = [c \in Callers |->
          CASE pc[c] \in {"awaitDone", "awaitExplicit"} -> "returned"
            [] pc[c] = "awaitIdle" -> "checkIdle"
            [] OTHER -> pc[c]]
    /\ at' = [c \in Callers |->
          IF pc[c] \in {"awaitDone", "awaitExplicit", "awaitIdle"} THEN None ELSE at[c]]
    /\ result' = [c \in Callers |->
          IF pc[c] \in {"awaitDone", "awaitExplicit"} THEN "interrupt" ELSE result[c]]
    /\ owed' = {} /\ merged' = {}
    /\ UNCHANGED <<entry, fiber, ran, cut>>

-----------------------------------------------------------------------------
Init ==
    /\ active = None
    /\ entry = [e \in EntryIds |-> NoEntry]
    /\ fiber = [e \in EntryIds |-> "none"]
    /\ interruptSeq = NoSeq
    /\ closed = FALSE
    /\ pc = [c \in Callers |-> "ready"]
    /\ at = [c \in Callers |-> None]
    /\ result = [c \in Callers |-> "none"]
    /\ ran = [c \in Callers |-> FALSE]
    /\ cut = [c \in Callers |-> FALSE]
    /\ owed = {}
    /\ merged = {}

Next ==
    \/ \E c \in Callers : \/ CallRun(c)
                          \/ Retry(c)
                          \/ CallAwaitIdle(c)
                          \/ checkIdle(c)
                          \/ Cancel(c)
    \/ \E c \in Callers, s \in InterruptSeqs \cup {NoSeq} : interrupt(c, s)
    \/ \E s \in WakeSeqs \cup {NoSeq} : wake(s)
    \/ \E e \in EntryIds : DrainStart(e) \/ \E exit \in Exits : settle(e, exit)
    \/ Close

Spec == Init /\ [][Next]_vars

\* Drains end (the runner bounds its steps), queued fibers are scheduled, and a
\* resumed caller runs on.  No caller is obliged to call anything.
Fairness ==
    /\ \A e \in EntryIds : WF_vars(DrainStart(e)) /\ WF_vars(\E exit \in Exits : settle(e, exit))
    /\ \A c \in Callers : WF_vars(Retry(c)) /\ WF_vars(checkIdle(c))

FairSpec == Spec /\ Fairness

-----------------------------------------------------------------------------
(* Properties                                                               *)

\* Every variable has its type; history sets hold wake sequences only.
TypeOK ==
    /\ active \in EntryIds \cup {None}
    /\ entry \in [EntryIds -> Entries]
    /\ fiber \in [EntryIds -> {"none", "queued", "running"}]
    /\ interruptSeq \in Seqs
    /\ closed \in BOOLEAN
    /\ pc \in [Callers -> PCs]
    /\ at \in [Callers -> EntryIds \cup {None}]
    /\ result \in [Callers -> Exits \cup {"none"}]
    /\ ran \in [Callers -> BOOLEAN]
    /\ cut \in [Callers -> BOOLEAN]
    /\ owed \subseteq WakeSeqs
    /\ merged \subseteq owed

\* "Runs at most one drain chain per key" (run-coordinator.ts:14): whatever the
\* order of calls, exits and interrupts, two drains of one Session never overlap.
SingleDrain ==
    \A e, f \in EntryIds : fiber[e] # "none" /\ fiber[f] # "none" => e = f

\* Until the scope closes, an entry is published exactly as long as its fiber
\* lives: settle always finds its own entry active (the test at line 126 never
\* fails), and no published entry has lost the fiber that would settle it.  A
\* closed lane publishes nothing.
OwnerPublished ==
    IF closed THEN active = None
    ELSE \A e \in EntryIds : active = e <=> fiber[e] # "none"

\* The stop barrier (lines 193-217, 248-266): what may follow a stopped chain is
\* at most one wake admitted after the boundary; never an explicit run and never
\* a wake at or before the boundary.
StopBarrier ==
    active # None /\ entry[active].stopping /\ entry[active].pending # NoDemand =>
        /\ entry[active].pending.tag = "wake"
        /\ entry[active].barrier # NoSeq
        /\ entry[active].pending.seq > entry[active].barrier

\* Every caller waits on a deferred that somebody will complete: its entry has a
\* live fiber, and a caller waiting for an explicit run has one current, pending,
\* or cut off by a stop that answers it (lines 118-125, 145).  Closing leaves
\* nobody waiting for a run.
NoStrandedCaller ==
    \A c \in Callers :
        /\ pc[c] \in Waiting => at[c] \in EntryIds /\ fiber[at[c]] # "none"
        /\ pc[c] \notin Waiting => at[c] = None
        /\ pc[c] = "awaitExplicit" =>
              /\ ~closed
              /\ entry[at[c]].waiter
              /\ \/ entry[at[c]].stopping
                 \/ RunDemand \in {entry[at[c]].current, entry[at[c]].pending}

\* Only a chain that is being stopped has callers queued behind the stop.
StopsAreJoined ==
    \A c \in Callers : pc[c] \in {"awaitStopped", "awaitInterrupt"} => entry[at[c]].stopping

\* A wake accepted after the newest interrupt boundary is not forgotten before a
\* drain has started: it is still the follow-up, or the queued successor, unless
\* it was folded into an explicit run (line 54 drops its sequence).
WakeKept ==
    \A s \in owed \ merged : s > interruptSeq =>
        /\ active # None
        /\ \/ entry[active].pending.tag = "wake" /\ entry[active].pending.seq >= s
           \/ fiber[active] = "queued" /\ entry[active].current.seq >= s

\* A run that returns success was answered by a successful explicit drain that
\* was running when it was called, or started later, unless its chain was stopped;
\* and a waiting run is on its way to such an answer.
RunMeansDrained ==
    \A c \in Callers :
        /\ pc[c] = "returned" /\ result[c] = "success" => ran[c] \/ cut[c]
        /\ pc[c] = "awaitDone" => ran[c] \/ cut[c] \/ entry[at[c]].current = RunDemand
        /\ pc[c] = "awaitExplicit" /\ entry[at[c]].stopping => cut[c]

\* A run that was waiting when a stop reached its chain gets the exit of the
\* stopped drain; it is not carried into the chain that follows the stop.
NotCarriedAcrossStop ==
    [][\A c \in Callers : pc[c] = "awaitExplicit" /\ pc'[c] = "awaitExplicit" /\ at'[c] # at[c]
          => ~cut[c] /\ entry'[at'[c]].current = RunDemand]_vars

\* Whoever waits for a deferred of the lane is let go, even if wakes never stop
\* arriving: a run that upgraded a wake is answered, an interrupt request returns, and
\* a run queued behind a stop gets past it.
WaitersAnswered ==
    \A c \in Callers, waiting \in {"awaitExplicit", "awaitInterrupt", "awaitStopped"} :
        pc[c] = waiting ~> pc[c] # waiting

\* If wakes and interrupts eventually cease, every run returns, however many
\* other callers keep running, waiting and giving up on the same Session.
RunReturns ==
    <>[][/\ \A s \in WakeSeqs \cup {NoSeq} : ~wake(s)
         /\ \A c \in Callers, s \in InterruptSeqs \cup {NoSeq} : ~interrupt(c, s)]_vars =>
        \A c \in Callers : pc[c] \in {"awaitDone", "awaitExplicit", "awaitStopped", "retry"} ~>
                           pc[c] \in {"ready", "returned"}

\* "advisory wakes after the boundary run after cleanup" (run-coordinator.ts:26-27),
\* taken at its word: also when the wake was folded into an explicit run.
WakesAfterBoundaryRun ==
    \A s \in owed : s > interruptSeq =>
        /\ active # None
        /\ \/ entry[active].pending # NoDemand
           \/ fiber[active] = "queued" /\ ~entry[active].stopping

-----------------------------------------------------------------------------
(* The lane the coordinator implements: its active entry, seen from outside. *)

Lane == INSTANCE DrainLane WITH
    lane <- IF active = None THEN "idle" ELSE entry[active].current.tag,
    followUp <- IF active = None THEN "none" ELSE entry[active].pending.tag,
    stopping <- active # None /\ entry[active].stopping,
    open <- ~closed

\* The header comment (run-coordinator.ts:13-28): the entries handed from one to
\* the next behave as one lane with one drain and one coalesced follow-up; a run
\* is never downgraded to a wake, and no run crosses a stop.
ImplementsLane == Lane!Spec

\* Under fair scheduling a lane always gets past its drain to its follow-up.
ImplementsFairLane == Lane!FairSpec
=============================================================================
