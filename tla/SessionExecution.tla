-------------------------- MODULE SessionExecution --------------------------
(***************************************************************************)
(* How one Session is driven: prompts are admitted to its durable inbox    *)
(* (packages/core/src/session.ts, session/input.ts), wakes and interrupts  *)
(* travel to the coordinator of session/run-coordinator.ts, and each drain *)
(* of the coordinator is one run of session/runner/llm.ts.                 *)
(*                                                                         *)
(* The lane is RunCoordinator's, with its actions; this module says which  *)
(* wakes and interrupts reach it, and what a drain does between its start  *)
(* and its exit.  Only admissions and interrupt requests are counted in    *)
(* the event sequence: no other event's sequence is compared with theirs.  *)
(***************************************************************************)
EXTENDS RunCoordinator, FiniteSets

CONSTANTS
    Prompts,        \* message ids
    MaxSteps,       \* MAX_STEPS of the runner
    MaxSeq,         \* bound: admissions and interrupt requests
    MaxRetries      \* bound: repeated prompt calls

ASSUME StepsAssumption == MaxSteps \in Nat \ {0}
ASSUME SequenceAssumption == MaxSeq \in Nat /\ 1 .. MaxSeq \subseteq WakeSeqs \cap InterruptSeqs

VARIABLES
    input,          \* session_input: each prompt's row
    latest,         \* latest sequence of the Session's aggregate
    wakes,          \* prompts whose call has yet to wake the Session
    stops,          \* interrupt requests that have yet to reach the coordinator
    drain,          \* the run in progress
    retries,        \* bound: repeated prompt calls so far
    excused,        \* history: pending prompts nobody promised to run
    dropped         \* history: prompts whose wake was folded into a dropped run

inbox == <<input, latest>>
calls == <<wakes, stops, retries>>
debts == <<excused, dropped>>
sessionVars == <<inbox, calls, drain, debts>>
allVars == <<vars, sessionVars>>

Deliveries == {"steer", "queue"}
Absent == [state |-> "absent", delivery |-> "steer", seq |-> NoSeq, resume |-> FALSE]

Pending == {p \in Prompts : input[p].state = "pending"}
hasPending(delivery) == \E p \in Pending : input[p].delivery = delivery

\* Rows are ordered by the sequence of their admission.
First(rows) == {p \in rows : \A q \in rows : input[p].seq <= input[q].seq}

-----------------------------------------------------------------------------
(* The run of a drain.                                                      *)

Off == [phase |-> "off", force |-> FALSE, promotion |-> "none", step |-> 0, cutoff |-> NoSeq,
        owes |-> {}, rows |-> {}]

\* A step of the lane starts the fiber of a drain, or none.
Begins(e) == fiber[e] # "running" /\ fiber'[e] = "running"
drainAfter ==
    IF \E e \in EntryIds : Begins(e)
    THEN [Off EXCEPT !.phase = "begin", !.owes = Pending,
                     !.force = entry'[CHOOSE e \in EntryIds : Begins(e)].current.tag = "run"]
    ELSE drain

At(phase) == drain.phase = phase

\* The run has ended and its fiber is about to exit so.
Ended(exit) == [Off EXCEPT !.phase = exit, !.owes = drain.owes]

Continue(record) == drain' = record /\ UNCHANGED <<vars, inbox, calls, debts>>

\* A turn starts: input is promoted first, if there is any to promote.
Turn(promotion, step) ==
    [drain EXCEPT !.phase = IF promotion = "none" THEN "provider" ELSE "cutoff",
                  !.promotion = promotion, !.step = step]

\* Lines 377-382: is there a steer, is there a queued input?
readSteer ==
    /\ At("begin")
    /\ Continue(IF hasPending("steer") THEN Turn("steer", 0) ELSE [drain EXCEPT !.phase = "beginQueue"])

readQueue ==
    /\ At("beginQueue")
    /\ Continue(IF hasPending("queue") THEN Turn("queue", 0)
                ELSE IF drain.force THEN Turn("none", 0)
                ELSE Ended("success"))

\* Lines 192-200: what is admitted from here on waits for the next turn.
readCutoff ==
    /\ At("cutoff")
    /\ Continue([drain EXCEPT !.cutoff = latest, !.promotion = "none",
                              !.phase = IF drain.promotion = "queue" THEN "promoteQueued" ELSE "promoteSteers"])

\* The rows a promotion has selected and has yet to publish; without any it is over.
Publishing(rows, phase) ==
    [drain EXCEPT !.rows = rows,
                  !.phase = IF rows # {} THEN phase
                            ELSE IF phase = "publishQueued" THEN "promoteSteers" ELSE "provider"]

promoteNextQueued ==
    /\ At("promoteQueued")
    /\ Continue(Publishing(First({p \in Pending : input[p].delivery = "queue"}), "publishQueued"))

promoteSteers ==
    /\ At("promoteSteers")
    /\ Continue([Publishing({p \in Pending : input[p].delivery = "steer" /\ input[p].seq <= drain.cutoff},
                            "publishSteers") EXCEPT !.cutoff = NoSeq])

\* One row after the other becomes a message, each in a commit of its own.  A row that
\* somebody else has promoted meanwhile stays as it is.
publish ==
    /\ drain.phase \in {"publishQueued", "publishSteers"}
    /\ \E p \in First(drain.rows) :
          /\ input' = [input EXCEPT ![p].state = "promoted"]
          /\ drain' = Publishing(drain.rows \ {p}, drain.phase)
    /\ UNCHANGED <<vars, latest, calls, debts>>

\* The provider's answer calls tools or not; or the turn, its context or its model
\* fails; or a rejected question or a moved Session ends the drain.
provider ==
    /\ At("provider")
    /\ \/ \E phase \in {"continue", "settled"} : Continue([drain EXCEPT !.phase = phase])
       \/ \E exit \in {"failure", "interrupt"} : Continue(Ended(exit))

unavailable ==
    /\ At("cutoff")
    /\ \E exit \in {"failure", "interrupt"} : Continue(Ended(exit))

\* Lines 385-392: go on for tool results and for steers; fail at the step limit.
afterTurn ==
    \/ /\ At("continue") \/ (At("settled") /\ hasPending("steer"))
       /\ Continue(IF drain.step + 1 < MaxSteps THEN Turn("steer", drain.step + 1)
                   ELSE Ended("failure"))
    \/ /\ At("settled") /\ ~hasPending("steer")
       /\ Continue([drain EXCEPT !.phase = "nextActivity"])

\* Mutant: a drain is one activity.
nextActivityNever ==
    /\ At("nextActivity")
    /\ Continue(Ended("success"))

\* Line 393: the next queued input opens an activity of its own.
nextActivity ==
    /\ At("nextActivity")
    /\ Continue(IF hasPending("queue") THEN Turn("queue", 0) ELSE Ended("success"))

runStep ==
    \/ readSteer \/ readQueue \/ readCutoff \/ promoteNextQueued \/ promoteSteers \/ publish
    \/ provider \/ unavailable \/ afterTurn \/ nextActivity

-----------------------------------------------------------------------------
(* The steps of the lane.                                                   *)

\* A demand of the lane, which may start a drain.
Demand(action) ==
    /\ action
    /\ drain' = drainAfter

resume(c) == Demand(CallRun(c) \/ Retry(c) \/ Cancel(c)) /\ UNCHANGED <<inbox, calls, debts>>

startDrain(e) == Demand(DrainStart(e)) /\ UNCHANGED <<inbox, calls, debts>>

\* Prompts whose wake has been delivered and is not waiting for a drain to start.
Spent == {p \in Pending : p \notin wakes /\ input[p].seq \notin owed}

\* How the fiber of e may exit: as its run ended, or interrupted once it is stopped.
mayExit(e, exit) ==
    \/ fiber[e] = "queued"
    \/ drain.phase = exit
    \/ exit = "interrupt" /\ (entry[e].stopping \/ closed)

\* A drain that does not succeed leaves the inputs it was woken for in the inbox.
settleDrain(e, exit) ==
    /\ mayExit(e, exit)
    /\ settle(e, exit)
    /\ drain' = IF fiber[e] = "running" THEN Off ELSE drain
    /\ excused' = IF exit = "success" THEN excused ELSE excused \cup Spent
    /\ UNCHANGED <<inbox, calls, dropped>>

\* wake does nothing when the lane does not accept it.
wakeRefused(s) ==
    \/ closed
    \/ ~isAfterInterrupt(s)
    \/ active # None /\ ~acceptsWake(entry[active], s)

deliverWake(p) ==
    /\ p \in wakes
    /\ \/ Demand(wake(input[p].seq))
       \/ wakeRefused(input[p].seq) /\ UNCHANGED <<vars, drain>>
    /\ wakes' = wakes \ {p}
    /\ UNCHANGED <<inbox, stops, retries, debts>>

interruptRefused(s) == staleInterrupt(s) /\ (active # None => ~entry[active].stopping)

\* The stop reaches an explicit run that has not started: the wakes folded into it
\* are gone.
dropsRun ==
    /\ active # None /\ entry'[active].stopping
    /\ \/ entry[active].pending.tag = "run"
       \/ fiber[active] = "queued" /\ entry[active].current.tag = "run"

deliverInterrupt(s) ==
    /\ s \in stops
    /\ \/ /\ \E c \in Callers : interrupt(c, s)
          /\ dropped' = IF dropsRun THEN dropped \cup {p \in Pending : input[p].seq \in merged}
                        ELSE dropped
       \/ interruptRefused(s) /\ UNCHANGED <<vars, dropped>>
    /\ stops' = stops \ {s}
    /\ UNCHANGED <<inbox, wakes, retries, drain, excused>>

-----------------------------------------------------------------------------
(* The Session's API and the process.                                       *)

\* prompt: one row per id; resume = false admits only.
admit(p) ==
    /\ input[p].state = "absent" /\ latest < MaxSeq
    /\ \E delivery \in Deliveries, wanted \in BOOLEAN :
          /\ input' = [input EXCEPT ![p] = [state |-> "pending", delivery |-> delivery,
                                            seq |-> latest + 1, resume |-> wanted]]
          /\ wakes' = IF wanted THEN wakes \cup {p} ELSE wakes
          /\ excused' = IF wanted THEN excused ELSE excused \cup {p}
    /\ latest' = latest + 1
    /\ UNCHANGED <<vars, stops, retries, drain, dropped>>

\* An exact retry returns the same receipt, and wakes with its admission's sequence.
promptAgain(p) ==
    /\ input[p].state # "absent" /\ p \notin wakes /\ retries < MaxRetries
    /\ wakes' = wakes \cup {p}
    /\ retries' = retries + 1
    /\ UNCHANGED <<vars, inbox, stops, drain, excused, dropped>>

\* interrupt records its request first; what was admitted before it need not run.
requestInterrupt ==
    /\ latest < MaxSeq
    /\ latest' = latest + 1
    /\ stops' = stops \cup {latest + 1}
    /\ excused' = excused \cup Pending
    /\ UNCHANGED <<vars, input, wakes, retries, drain, dropped>>

\* The process dies; the next one starts with an idle lane and the same inbox.
Crash ==
    /\ active' = None
    /\ entry' = [e \in EntryIds |-> NoEntry]
    /\ fiber' = [e \in EntryIds |-> "none"]
    /\ interruptSeq' = NoSeq
    /\ closed' = FALSE
    /\ pc' = [c \in Callers |-> "ready"]
    /\ at' = [c \in Callers |-> None]
    /\ result' = [c \in Callers |-> "none"]
    /\ ran' = [c \in Callers |-> FALSE]
    /\ cut' = [c \in Callers |-> FALSE]
    /\ owed' = {} /\ merged' = {}
    /\ wakes' = {} /\ stops' = {}
    /\ drain' = Off
    /\ excused' = excused \cup Pending
    /\ UNCHANGED <<inbox, retries, dropped>>

SessionInit ==
    /\ Init
    /\ input = [p \in Prompts |-> Absent]
    /\ latest = NoSeq
    /\ wakes = {} /\ stops = {} /\ retries = 0
    /\ drain = Off
    /\ excused = {} /\ dropped = {}

SessionNext ==
    \/ runStep
    \/ \E c \in Callers : resume(c)
    \/ \E e \in EntryIds : startDrain(e) \/ \E exit \in Exits : settleDrain(e, exit)
    \/ \E p \in Prompts : deliverWake(p) \/ admit(p) \/ promptAgain(p)
    \/ \E s \in InterruptSeqs : deliverInterrupt(s)
    \/ requestInterrupt
    \/ Crash

SessionSpec == SessionInit /\ [][SessionNext]_allVars

\* The provider answers, fibers are scheduled, and calls that recorded something
\* go on to tell the coordinator.
SessionFairness ==
    /\ WF_allVars(runStep)
    /\ \A e \in EntryIds :
          WF_allVars(startDrain(e)) /\ WF_allVars(\E exit \in Exits : settleDrain(e, exit))
    /\ \A p \in Prompts : WF_allVars(deliverWake(p))

FairSessionSpec == SessionSpec /\ SessionFairness

-----------------------------------------------------------------------------
(* Properties                                                               *)

\* "preserves durable inbox rows for a later fresh wake or resume" (session.md:26):
\* whatever was left behind by stops, failures and crashes, a drain that succeeds has
\* promoted all that was in the inbox when it began.
DrainEmptiesInbox == drain.phase = "success" => drain.owes \cap Pending = {}

\* The promise made by admission: a prompt that asked to be run is promoted, unless an
\* interrupt was requested after it, the drain it was woken for failed or was stopped,
\* or the process died; and unless its wake was folded into a run that a stop drops.
PromptsRun ==
    \A p \in Prompts : p \in Pending \ (excused \cup dropped) ~> p \notin Pending \ (excused \cup dropped)

=============================================================================
