------------------------ MODULE SessionExecutionProofs ------------------------
(***************************************************************************)
(* A Session on its lane, for any prompts, callers, entries and sequences, *)
(* and across crashes: the lane keeps what RunCoordinatorProofs shows of   *)
(* it, a drain that succeeds leaves none of the inputs it was woken for,   *)
(* and no prompt that was promised a run is left with nobody to run it.    *)
(***************************************************************************)
EXTENDS SessionExecution, RunCoordinatorProofs

Phases == {"off", "begin", "beginQueue", "cutoff", "promoteQueued", "publishQueued", "promoteSteers",
           "publishSteers", "provider", "continue", "settled", "nextActivity", "success", "failure",
           "interrupt"}
Rows == [state : {"absent", "pending", "promoted"}, delivery : Deliveries, seq : Nat, resume : BOOLEAN]
Drains == [phase : Phases, force : BOOLEAN, promotion : {"none", "steer", "queue"}, step : Nat,
           cutoff : Nat, owes : SUBSET Prompts, rows : SUBSET Prompts]

SessionTypeOK ==
    /\ input \in [Prompts -> Rows]
    /\ latest \in 0 .. MaxSeq
    /\ \A p \in Prompts : input[p].state # "absent" => input[p].seq \in 1 .. latest
    /\ wakes \subseteq {p \in Prompts : input[p].state # "absent"}
    /\ stops \subseteq 1 .. latest
    /\ drain \in Drains
    /\ drain.owes \cup drain.rows \subseteq {p \in Prompts : input[p].state # "absent"}

-----------------------------------------------------------------------------
(* The lane.  Every step of a Session is one of the coordinator's, leaves   *)
(* the lane alone, or is a crash, which makes the lane a new one.           *)

LaneInv == TypeOK /\ Ownership /\ StopBarrier /\ Accounted /\ Wakes /\ CutIsStopped

LEMMA LaneInvInit == Init => LaneInv
  <1>1. Init => StopBarrier
    BY DEF Init, StopBarrier
  <1>2. QED  BY <1>1, TypeInit, OwnerInit, CallersInit, WakesInit, CutInit DEF LaneInv

LEMMA LaneInvNext == LaneInv /\ [Next]_vars => LaneInv'
  BY TypeNext, OwnerNext, BarrierNext, CallersNext, WakesNext, CutNext DEF LaneInv

\* A new process has a new lane.
LEMMA CrashRenews == Crash => LaneInv'
  <1>1. Crash => Init'
    BY DEF Crash, Init
  <1>2. QED  BY <1>1, LaneInvInit, PTL

LEMMA LaneStep ==
    ASSUME SessionTypeOK, [SessionNext]_allVars
    PROVE  [Next]_vars \/ Crash
  <1>1. ASSUME runStep PROVE UNCHANGED vars
    BY <1>1 DEF runStep, readSteer, readQueue, readCutoff, promoteNextQueued, promoteSteers, publish,
                provider, unavailable, afterTurn, nextActivity, Continue
  <1>2. ASSUME NEW c \in Callers, resume(c) PROVE Next
    BY <1>2 DEF resume, Demand, Next
  <1>3. ASSUME NEW e \in EntryIds, startDrain(e) PROVE Next
    BY <1>3 DEF startDrain, Demand, Next
  <1>4. ASSUME NEW e \in EntryIds, NEW exit \in Exits, settleDrain(e, exit) PROVE Next
    BY <1>4 DEF settleDrain, Next
  <1>5. ASSUME NEW p \in Prompts, deliverWake(p) PROVE Next \/ UNCHANGED vars
    <2>1. input[p].seq \in WakeSeqs
      BY <1>5, SequenceAssumption DEF deliverWake, SessionTypeOK
    <2>2. QED  BY <1>5, <2>1 DEF deliverWake, Demand, Next
  <1>6. ASSUME NEW p \in Prompts, admit(p) \/ promptAgain(p) PROVE UNCHANGED vars
    BY <1>6 DEF admit, promptAgain
  <1>7. ASSUME NEW s \in InterruptSeqs, deliverInterrupt(s) PROVE Next \/ UNCHANGED vars
    BY <1>7 DEF deliverInterrupt, Next
  <1>8. ASSUME requestInterrupt \/ UNCHANGED allVars PROVE UNCHANGED vars
    BY <1>8 DEF requestInterrupt, allVars
  <1>9. QED
    BY <1>1, <1>2, <1>3, <1>4, <1>5, <1>6, <1>7, <1>8 DEF SessionNext

LEMMA LanePreserved ==
    ASSUME SessionTypeOK, LaneInv, [SessionNext]_allVars
    PROVE  LaneInv'
  BY LaneStep, LaneInvNext, CrashRenews

-----------------------------------------------------------------------------
(* The steps of a run and the steps that may start one.                     *)

LEMMA OffTyped == Off \in Drains /\ Off.phase = "off" /\ Off.owes = {} /\ Off.rows = {}
  BY DEF Off, Drains, Phases, NoSeq

\* A step of a run promotes an input or none, and does nothing to the lane.
LEMMA RunSteps ==
    ASSUME SessionTypeOK, runStep
    PROVE  /\ UNCHANGED <<vars, latest, calls, debts>>
           /\ drain.phase \notin {"off", "success", "failure", "interrupt"} /\ drain'.phase # "off"
           /\ drain' \in Drains /\ drain'.owes = drain.owes /\ drain'.rows \subseteq drain.rows \cup Pending
           /\ input' = input \/ \E p \in Pending : input' = [input EXCEPT ![p].state = "promoted"]
  <1> USE DEF At
  <1>1. drain \in Drains /\ latest \in Nat
    BY SequenceAssumption DEF SessionTypeOK
  <1> DEFINE Kept(d) == d \in Drains /\ d.owes = drain.owes /\ d.rows \subseteq drain.rows \cup Pending
             Goes == /\ drain.phase \notin {"off", "success", "failure", "interrupt"} /\ drain'.phase # "off"
                     /\ Kept(drain') /\ UNCHANGED <<vars, latest, calls, debts>>
  <1>2. \A exit \in {"success", "failure", "interrupt"} : Kept(Ended(exit)) /\ Ended(exit).phase = exit
    <2> SUFFICES ASSUME NEW exit \in {"success", "failure", "interrupt"}
                 PROVE  Kept(Ended(exit)) /\ Ended(exit).phase = exit
      OBVIOUS
    <2>1. drain.owes \in SUBSET Prompts /\ exit \in Phases
      BY <1>1 DEF Drains, Phases
    <2>2. Ended(exit) \in Drains /\ Ended(exit).phase = exit /\ Ended(exit).owes = drain.owes
      BY <2>1, OffTyped DEF Ended, Drains
    <2>3. Ended(exit).rows = {}
      BY OffTyped DEF Ended, Drains
    <2>4. QED  BY <2>2, <2>3
  <1>3. \A promotion \in {"none", "steer", "queue"}, step \in Nat :
            Kept(Turn(promotion, step)) /\ Turn(promotion, step).phase # "off"
    <2> SUFFICES ASSUME NEW promotion \in {"none", "steer", "queue"}, NEW step \in Nat
                 PROVE  Kept(Turn(promotion, step)) /\ Turn(promotion, step).phase # "off"
      OBVIOUS
    <2>1. PICK next \in {"provider", "cutoff"} :
              Turn(promotion, step) = [drain EXCEPT !.phase = next, !.promotion = promotion, !.step = step]
      BY DEF Turn
    <2>2. next \in Phases
      BY DEF Phases
    <2>3. QED  BY <1>1, <2>1, <2>2 DEF Drains
  <1>4. \A phase \in Phases : Kept([drain EXCEPT !.phase = phase]) /\ [drain EXCEPT !.phase = phase].phase = phase
    BY <1>1 DEF Drains
  <1>5. \A rows \in SUBSET (drain.rows \cup Pending), phase \in {"publishQueued", "publishSteers"} :
             /\ Kept(Publishing(rows, phase))
             /\ Publishing(rows, phase).phase \in {"publishQueued", "publishSteers", "promoteSteers", "provider"}
    <2>1. drain.rows \cup Pending \subseteq Prompts
      BY <1>1 DEF Drains, Pending
    <2> SUFFICES ASSUME NEW rows \in SUBSET (drain.rows \cup Pending),
                        NEW phase \in {"publishQueued", "publishSteers"}
                 PROVE  /\ Kept(Publishing(rows, phase))
                        /\ Publishing(rows, phase).phase
                               \in {"publishQueued", "publishSteers", "promoteSteers", "provider"}
      OBVIOUS
    <2>2. PICK next \in {"publishQueued", "publishSteers", "promoteSteers", "provider"} :
              Publishing(rows, phase) = [drain EXCEPT !.rows = rows, !.phase = next]
      BY DEF Publishing
    <2>3. next \in Phases /\ rows \in SUBSET Prompts
      BY <2>1 DEF Phases
    <2>4. QED  BY <1>1, <2>2, <2>3 DEF Drains
  <1>6. CASE readSteer \/ readQueue
    <2>1. drain' \in {Turn("steer", 0), [drain EXCEPT !.phase = "beginQueue"], Turn("queue", 0), Turn("none", 0),
                      Ended("success")}
      BY <1>6 DEF readSteer, readQueue, Continue
    <2>2. Kept([drain EXCEPT !.phase = "beginQueue"]) /\ [drain EXCEPT !.phase = "beginQueue"].phase # "off"
      BY <1>1 DEF Drains, Phases
    <2>3. Kept(drain') /\ drain'.phase # "off"
      BY <1>2, <1>3, <2>1, <2>2
    <2>4. drain.phase \in {"begin", "beginQueue"} /\ UNCHANGED <<vars, inbox, calls, debts>>
      BY <1>6 DEF readSteer, readQueue, Continue
    <2>5. QED  BY <2>3, <2>4 DEF inbox
  <1>7. CASE readCutoff
    <2>1. drain'.phase \in {"promoteQueued", "promoteSteers"} /\ Kept(drain')
      BY <1>1, <1>7 DEF readCutoff, Continue, Drains, Phases
    <2>2. QED  BY <1>7, <2>1 DEF readCutoff, Continue, inbox
  <1>8. CASE promoteNextQueued
    <2>1. First({p \in Pending : input[p].delivery = "queue"}) \in SUBSET (drain.rows \cup Pending)
      BY DEF First
    <2>2. Kept(drain') /\ drain'.phase # "off"
      BY <1>5, <1>8, <2>1 DEF promoteNextQueued, Continue
    <2>3. QED  BY <1>8, <2>2 DEF promoteNextQueued, Continue, inbox
  <1>9. CASE promoteSteers
    <2> DEFINE steers == {p \in Pending : input[p].delivery = "steer" /\ input[p].seq <= drain.cutoff}
               d == Publishing(steers, "publishSteers")
    <2>1. Kept(d) /\ d.phase # "off"
      BY <1>5
    <2>2. drain' = [d EXCEPT !.cutoff = NoSeq] /\ UNCHANGED <<vars, inbox, calls, debts>>
      BY <1>9 DEF promoteSteers, Continue
    <2>3. Kept(drain') /\ drain'.phase # "off"
      <3> HIDE DEF d
      <3>1. QED  BY <2>1, <2>2 DEF Drains, NoSeq
    <2>4. QED  BY <1>9, <2>2, <2>3 DEF promoteSteers, inbox
  <1>10. CASE publish
    <2>1. PICK p \in First(drain.rows) :
              /\ input' = [input EXCEPT ![p].state = "promoted"]
              /\ drain' = Publishing(drain.rows \ {p}, drain.phase)
      BY <1>10 DEF publish
    <2>2. Goes
      <3>1. drain.phase \in {"publishQueued", "publishSteers"} /\ UNCHANGED <<vars, latest, calls, debts>>
        BY <1>10 DEF publish
      <3>2. Kept(drain') /\ drain'.phase # "off"
        BY <1>5, <2>1, <3>1
      <3>3. QED  BY <3>1, <3>2
    <2>3. p \in Prompts /\ input \in [Prompts -> Rows] /\ input[p].state \in {"pending", "promoted"}
      BY <2>1 DEF First, SessionTypeOK, Rows
    <2>4. CASE input[p].state = "pending"
      BY <2>1, <2>2, <2>3, <2>4 DEF Pending
    <2>5. CASE input[p].state = "promoted"
      <3>1. [input[p] EXCEPT !.state = "promoted"] = input[p]
        BY <2>3, <2>5 DEF Rows
      <3>2. input' = input
        BY <2>1, <2>3, <3>1
      <3>3. QED  BY <2>2, <3>2
    <2>6. QED  BY <2>3, <2>4, <2>5
  <1>11. CASE provider \/ unavailable
    <2>1. \/ \E phase \in {"continue", "settled"} : drain' = [drain EXCEPT !.phase = phase]
          \/ \E exit \in {"failure", "interrupt"} : drain' = Ended(exit)
      BY <1>11 DEF provider, unavailable, Continue
    <2>2. "continue" \in Phases /\ "settled" \in Phases
      BY DEF Phases
    <2>3. Kept(drain') /\ drain'.phase # "off"
      BY <1>2, <1>4, <2>1, <2>2
    <2>4. QED  BY <1>11, <2>3 DEF provider, unavailable, Continue, inbox
  <1>12. CASE afterTurn
    <2>1. drain.step + 1 \in Nat
      BY <1>1 DEF Drains
    <2>2. drain' \in {Turn("steer", drain.step + 1), Ended("failure"), [drain EXCEPT !.phase = "nextActivity"]}
      BY <1>12 DEF afterTurn, Continue
    <2>3. "nextActivity" \in Phases
      BY DEF Phases
    <2>4. Kept(drain') /\ drain'.phase # "off"
      BY <1>2, <1>3, <1>4, <2>1, <2>2, <2>3
    <2>5. QED  BY <1>12, <2>4 DEF afterTurn, Continue, inbox
  <1>13. CASE nextActivity
    <2>1. Goes /\ input' = input
      BY <1>2, <1>3, <1>13 DEF nextActivity, Continue, inbox
    <2>2. QED  BY <2>1
  <1>14. QED
    BY <1>6, <1>7, <1>8, <1>9, <1>10, <1>11, <1>12, <1>13 DEF runStep

\* A run of the runner is in progress exactly while a fiber of the lane runs.
Driven == ~closed /\ (drain.phase # "off" <=> \E e \in EntryIds : fiber[e] = "running")

\* A demand starts a drain where none was, which owes all that is pending, ...
Started ==
    /\ drain.phase = "off" /\ \E e \in EntryIds : fiber'[e] = "running"
    /\ drain' \in Drains /\ drain'.phase = "begin" /\ drain'.owes = Pending /\ drain'.rows = {}
    /\ owed' = {} /\ merged' = {}

\* ... or leaves all drains alone.
NoneStarted == fiber' = fiber /\ drain' = drain /\ owed \subseteq owed'

LEMMA Demanded ==
    ASSUME SessionTypeOK, LaneInv, Driven, drain' = drainAfter,
           \/ \E c \in Callers : CallRun(c) \/ Retry(c) \/ Cancel(c)
           \/ \E s : wake(s)
           \/ \E e \in EntryIds : DrainStart(e)
    PROVE  (Started \/ NoneStarted) /\ closed' = closed
  <1>1. TypeOK /\ SingleDrain /\ \A e \in EntryIds : active = e <=> fiber[e] # "none"
    BY DEF LaneInv, Ownership, OwnerPublished, Driven
  <1> DEFINE Fired == \E e \in EntryIds : fiber'[e] = "running"
  <1>2. ASSUME owed' = {}, merged' = {}, NEW e \in EntryIds, fiber[e] # "running",
               fiber' = [fiber EXCEPT ![e] = "running"],
               \A f \in EntryIds : fiber[f] # "running"
        PROVE  Started
    <2>1. fiber'[e] = "running" /\ Begins(e)
      BY <1>1, <1>2 DEF TypeOK, Begins
    <2>2. \E f \in EntryIds : Begins(f)
      BY <2>1
    <2>3. /\ drain'.phase = "begin" /\ drain'.owes = Pending /\ drain'.rows = {}
          /\ drain' \in Drains
      BY <2>2 DEF drainAfter, Off, Drains, Phases, NoSeq, Pending
    <2>4. drain.phase = "off"
      BY <1>2 DEF Driven
    <2>5. QED  BY <1>2, <2>1, <2>3, <2>4 DEF Started
  <1>3. ASSUME fiber' = fiber, owed \subseteq owed' PROVE NoneStarted
    BY <1>3 DEF NoneStarted, drainAfter, Begins
  <1>4. ASSUME NEW e \in EntryIds, NEW demand, active = None, Fresh(e),
               Publish(e, demand, FALSE, "running"), owed' = {}, merged' = {}
        PROVE  Started
    BY <1>1, <1>2, <1>4, NoneAssumption DEF Publish, Fresh
  <1>5. ASSUME NEW c \in Callers, CallRun(c) \/ Retry(c) \/ Cancel(c)
        PROVE  (Started \/ NoneStarted) /\ closed' = closed
    <2>1. CASE runStart(c)
      BY <1>4, <2>1 DEF runStart
    <2>2. CASE ~runStart(c)
      BY <1>3, <1>5, <2>2 DEF CallRun, Retry, Cancel, run, runClosed, runBehindStop, runUpgrade, runJoin, laneVars,
                              wakeVars
    <2>3. QED  BY <2>1, <2>2
  <1>6. ASSUME NEW s, wake(s) PROVE (Started \/ NoneStarted) /\ closed' = closed
    <2>1. CASE wakeStart(s)
      BY <1>4, <1>6, <2>1 DEF wakeStart, wake
    <2>2. CASE wakeCoalesce(s)
      BY <1>3, <1>6, <2>2 DEF wakeCoalesce, wake
    <2>3. QED  BY <1>6, <2>1, <2>2 DEF wake
  <1>7. ASSUME NEW e \in EntryIds, DrainStart(e) PROVE (Started \/ NoneStarted) /\ closed' = closed
    <2>1. \A f \in EntryIds : fiber[f] # "running"
      BY <1>1, <1>7 DEF DrainStart, SingleDrain
    <2>2. QED  BY <1>2, <1>7, <2>1 DEF DrainStart
  <1>8. QED  BY <1>5, <1>6, <1>7

\* The calls of the Session that are demands of its lane.
LEMMA DemandSteps ==
    ASSUME SessionTypeOK, LaneInv, Driven,
           \/ \E c \in Callers : resume(c)
           \/ \E e \in EntryIds : startDrain(e)
           \/ \E p \in Prompts : deliverWake(p)
    PROVE  /\ Started \/ NoneStarted
           /\ UNCHANGED <<closed, input, latest, stops, excused, dropped>> /\ wakes' \subseteq wakes
  <1>1. ASSUME NEW c \in Callers, resume(c)
        PROVE  /\ Started \/ NoneStarted
               /\ UNCHANGED <<closed, input, latest, stops, excused, dropped>> /\ wakes' \subseteq wakes
    BY <1>1, Demanded DEF resume, Demand, inbox, calls, debts
  <1>2. ASSUME NEW e \in EntryIds, startDrain(e)
        PROVE  /\ Started \/ NoneStarted
               /\ UNCHANGED <<closed, input, latest, stops, excused, dropped>> /\ wakes' \subseteq wakes
    BY <1>2, Demanded DEF startDrain, Demand, inbox, calls, debts
  <1>3. ASSUME NEW p \in Prompts, deliverWake(p)
        PROVE  /\ Started \/ NoneStarted
               /\ UNCHANGED <<closed, input, latest, stops, excused, dropped>> /\ wakes' \subseteq wakes
    <2>1. UNCHANGED <<input, latest, stops, excused, dropped>> /\ wakes' \subseteq wakes
      BY <1>3 DEF deliverWake, inbox, debts
    <2>2. CASE UNCHANGED <<vars, drain>>
      BY <2>1, <2>2 DEF NoneStarted, vars, laneVars, wakeVars
    <2>3. CASE Demand(wake(input[p].seq))
      BY <2>1, <2>3, Demanded DEF Demand
    <2>4. QED  BY <1>3, <2>2, <2>3 DEF deliverWake
  <1>4. QED  BY <1>1, <1>2, <1>3

\* The fiber of a drain exits; no other is running, and none starts in its place.
LEMMA SettleSteps ==
    ASSUME LaneInv, Driven, NEW e \in EntryIds, NEW exit \in Exits, settleDrain(e, exit)
    PROVE  /\ drain'.phase = "off" /\ closed' = closed
           /\ drain' = Off \/ drain' = drain
           /\ \A f \in EntryIds : fiber'[f] # "running"
           /\ drain.phase # "off" => fiber[e] = "running"
           /\ UNCHANGED <<input, latest, wakes, stops, dropped, owed, merged>>
  <1>1. TypeOK /\ SingleDrain /\ \A f \in EntryIds : active = f <=> fiber[f] # "none"
    BY DEF LaneInv, Ownership, OwnerPublished, Driven
  <1>2. fiber[e] \in {"running", "queued"} /\ settle(e, exit)
    BY DEF settleDrain, settle
  <1>3. \A f \in EntryIds : f # e => fiber[f] = "none"
    BY <1>1, <1>2 DEF SingleDrain
  <1>4. /\ fiber' \in [EntryIds -> {"none", "queued", "running"}] /\ fiber'[e] # "running"
        /\ \A f \in EntryIds : f # e => fiber'[f] # "running"
    BY <1>1, <1>2, <1>3 DEF settle, settleClosed, settleForeign, settleContinue, settleIdle, settleSuccessor, TypeOK
  <1>5. drain' = IF fiber[e] = "running" THEN Off ELSE drain
    BY DEF settleDrain
  <1>6. drain.phase # "off" => fiber[e] = "running"
    BY <1>3 DEF Driven
  <1>7. drain'.phase = "off"
    BY <1>5, <1>6 DEF Off
  <1>8. UNCHANGED <<closed, input, latest, wakes, stops, dropped, owed, merged>>
    BY <1>2 DEF settleDrain, settle, inbox, calls, wakeVars
  <1>9. QED  BY <1>4, <1>5, <1>6, <1>7, <1>8

\* An interrupt that is delivered, or refused, changes neither fibers nor inputs.
LEMMA InterruptSteps ==
    ASSUME SessionTypeOK, NEW s \in InterruptSeqs, deliverInterrupt(s)
    PROVE  /\ UNCHANGED <<fiber, closed, drain, input, latest, wakes, excused>>
           /\ stops' = stops \ {s} /\ s \in stops /\ s \in 1 .. latest
    BY DEF deliverInterrupt, interrupt, interruptStale, interruptPassed, interruptStop, inbox, vars, laneVars,
           SessionTypeOK

\* The steps of the Session's API do nothing to the lane.
LEMMA ApiSteps ==
    ASSUME \/ \E p \in Prompts : admit(p) \/ promptAgain(p)
           \/ requestInterrupt
           \/ UNCHANGED allVars
    PROVE  UNCHANGED <<active, entry, fiber, interruptSeq, closed, owed, merged, drain, dropped>>
    BY DEF admit, promptAgain, requestInterrupt, vars, laneVars, wakeVars, allVars, sessionVars, debts

LEMMA DrivenNext ==
    ASSUME SessionTypeOK, LaneInv, Driven, [SessionNext]_allVars
    PROVE  Driven'
  <1>1. CASE runStep
    BY <1>1, RunSteps DEF Driven, vars, laneVars
  <1>2. CASE \/ \E c \in Callers : resume(c)
             \/ \E e \in EntryIds : startDrain(e)
             \/ \E p \in Prompts : deliverWake(p)
    BY <1>2, DemandSteps DEF Driven, Started, NoneStarted
  <1>3. ASSUME NEW e \in EntryIds, NEW exit \in Exits, settleDrain(e, exit) PROVE Driven'
    BY <1>3, SettleSteps DEF Driven
  <1>4. ASSUME NEW s \in InterruptSeqs, deliverInterrupt(s) PROVE Driven'
    BY <1>4, InterruptSteps DEF Driven
  <1>5. CASE Crash
    BY <1>5 DEF Crash, Driven, Off
  <1>6. CASE \/ \E p \in Prompts : admit(p) \/ promptAgain(p)
             \/ requestInterrupt
             \/ UNCHANGED allVars
    BY <1>6, ApiSteps DEF Driven
  <1>7. QED  BY <1>1, <1>2, <1>3, <1>4, <1>5, <1>6 DEF SessionNext

-----------------------------------------------------------------------------
(* Types.                                                                   *)

\* A step of a Session that changes no row.
LEMMA RowsKept ==
    ASSUME SessionTypeOK, UNCHANGED input, latest' \in latest .. MaxSeq,
           wakes' \subseteq wakes \/ \E p \in Prompts : input[p].state # "absent" /\ wakes' = wakes \cup {p},
           stops' \subseteq stops \cup {latest'}, stops' # {} => latest' # 0,
           drain' \in Drains, drain'.owes \subseteq drain.owes \cup Pending,
           drain'.rows \subseteq drain.rows \cup Pending
    PROVE  SessionTypeOK'
  <1>1. latest \in 0 .. MaxSeq /\ latest' \in 0 .. MaxSeq /\ latest <= latest'
    BY SequenceAssumption DEF SessionTypeOK
  <1>2. \A p \in Prompts : input[p].state # "absent" => input[p].seq \in 1 .. latest'
    BY <1>1 DEF SessionTypeOK
  <1>3. stops' \subseteq 1 .. latest'
    BY <1>1 DEF SessionTypeOK
  <1>4. QED  BY <1>1, <1>2, <1>3 DEF SessionTypeOK, Pending

LEMMA SessionTypeInit == SessionInit => SessionTypeOK
  <1> SUFFICES ASSUME SessionInit PROVE SessionTypeOK
    OBVIOUS
  <1>1. Absent \in Rows /\ Absent.state = "absent"
    BY DEF Absent, Rows, Deliveries, NoSeq
  <1>2. latest \in 0 .. MaxSeq
    BY SequenceAssumption DEF SessionInit, NoSeq
  <1>3. QED  BY <1>1, <1>2, OffTyped DEF SessionInit, SessionTypeOK

LEMMA SessionTypeNext ==
    ASSUME SessionTypeOK, LaneInv, Driven, [SessionNext]_allVars
    PROVE  SessionTypeOK'
  <1>0. latest \in Nat /\ latest \in latest .. MaxSeq /\ drain \in Drains /\ (latest = 0 => stops = {})
    BY SequenceAssumption DEF SessionTypeOK
  <1>1. CASE runStep
    <2>1. /\ UNCHANGED <<latest, wakes, stops>> /\ drain' \in Drains /\ drain'.owes = drain.owes
          /\ drain'.rows \subseteq drain.rows \cup Pending
          /\ input' = input \/ \E p \in Pending : input' = [input EXCEPT ![p].state = "promoted"]
      BY <1>1, RunSteps DEF calls
    <2>2. CASE input' = input
      BY <1>0, <2>1, <2>2, RowsKept
    <2>3. ASSUME NEW p \in Pending, input' = [input EXCEPT ![p].state = "promoted"] PROVE SessionTypeOK'
      <3>1. p \in Prompts /\ input \in [Prompts -> Rows] /\ input[p].state = "pending"
        BY DEF Pending, SessionTypeOK
      <3>2. /\ input'[p].state = "promoted" /\ input'[p].seq = input[p].seq /\ input'[p] \in Rows
            /\ \A q \in Prompts \ {p} : input'[q] = input[q]
            /\ input' \in [Prompts -> Rows]
        BY <2>3, <3>1 DEF Rows
      <3>3. \A q \in Prompts : /\ input'[q].state # "absent" <=> input[q].state # "absent"
                               /\ input'[q].seq = input[q].seq
        BY <3>1, <3>2
      <3>4. drain.rows \cup Pending \subseteq {q \in Prompts : input[q].state # "absent"}
        BY DEF SessionTypeOK, Pending
      <3>5. drain'.owes \cup drain'.rows \subseteq {q \in Prompts : input'[q].state # "absent"}
        BY <2>1, <3>3, <3>4 DEF SessionTypeOK
      <3>6. QED  BY <2>1, <3>2, <3>3, <3>5 DEF SessionTypeOK
    <2>4. QED  BY <2>1, <2>2, <2>3
  <1>2. CASE \/ \E c \in Callers : resume(c)
             \/ \E e \in EntryIds : startDrain(e)
             \/ \E p \in Prompts : deliverWake(p)
    BY <1>0, <1>2, DemandSteps, RowsKept DEF Started, NoneStarted
  <1>3. ASSUME NEW e \in EntryIds, NEW exit \in Exits, settleDrain(e, exit) PROVE SessionTypeOK'
    BY <1>0, <1>3, SettleSteps, RowsKept, OffTyped
  <1>4. ASSUME NEW s \in InterruptSeqs, deliverInterrupt(s) PROVE SessionTypeOK'
    BY <1>0, <1>4, InterruptSteps, RowsKept
  <1>5. CASE Crash
    BY <1>0, <1>5, RowsKept, OffTyped DEF Crash, inbox
  <1>6. ASSUME NEW p \in Prompts, admit(p) PROVE SessionTypeOK'
    <2>1. PICK delivery \in Deliveries, wanted \in BOOLEAN :
            /\ input' = [input EXCEPT ![p] = [state |-> "pending", delivery |-> delivery,
                                              seq |-> latest + 1, resume |-> wanted]]
            /\ wakes' = IF wanted THEN wakes \cup {p} ELSE wakes
      BY <1>6 DEF admit
    <2>2. /\ latest' = latest + 1 /\ latest' \in 0 .. MaxSeq /\ input[p].state = "absent"
          /\ UNCHANGED <<stops, drain>>
      BY <1>0, <1>6, SequenceAssumption DEF admit, SessionTypeOK
    <2>3. /\ input' \in [Prompts -> Rows] /\ input'[p].state = "pending" /\ input'[p].seq = latest + 1
          /\ \A q \in Prompts \ {p} : input'[q] = input[q]
      BY <1>0, <2>1 DEF SessionTypeOK, Rows
    <2>4. \A q \in Prompts : input'[q].state # "absent" => input'[q].seq \in 1 .. latest'
      BY <1>0, <2>2, <2>3 DEF SessionTypeOK
    <2>5. stops' \subseteq 1 .. latest'
      BY <1>0, <2>2 DEF SessionTypeOK
    <2>6. /\ wakes' \subseteq {q \in Prompts : input'[q].state # "absent"}
          /\ drain'.owes \cup drain'.rows \subseteq {q \in Prompts : input'[q].state # "absent"}
      BY <2>1, <2>2, <2>3 DEF SessionTypeOK
    <2>7. QED  BY <2>2, <2>3, <2>4, <2>5, <2>6 DEF SessionTypeOK
  <1>7. ASSUME NEW p \in Prompts, promptAgain(p) PROVE SessionTypeOK'
    BY <1>0, <1>7, RowsKept DEF promptAgain, inbox
  <1>8. CASE requestInterrupt
    <2>1. latest' \in latest .. MaxSeq /\ latest' # 0
      BY <1>0, <1>8, SequenceAssumption DEF requestInterrupt
    <2>2. QED  BY <1>0, <1>8, <2>1, RowsKept DEF requestInterrupt
  <1>9. CASE UNCHANGED allVars
    BY <1>0, <1>9, RowsKept DEF allVars, sessionVars, inbox, calls
  <1>10. QED
    BY <1>1, <1>2, <1>3, <1>4, <1>5, <1>6, <1>7, <1>8, <1>9 DEF SessionNext

-----------------------------------------------------------------------------
(* What a drain owes.  DrainEmptiesInbox is inductive only with what the    *)
(* runner knows when it looks for queued inputs: the steers it owes have    *)
(* gone, and whoever was admitted since is not owed.                        *)

OwedSteers == {p \in drain.owes \cap Pending : input[p].delivery = "steer"}

Drained ==
    /\ drain.phase \in {"beginQueue", "nextActivity"} => OwedSteers = {}
    /\ DrainEmptiesInbox

\* Elsewhere a drain need not have promoted anything.
LEMMA DrainedElsewhere == drain.phase \notin {"beginQueue", "nextActivity", "success"} => Drained
  BY DEF Drained, DrainEmptiesInbox

LEMMA DrainedInit == SessionInit => Drained
  BY DEF SessionInit, Off, Drained, DrainEmptiesInbox

LEMMA DrainedRun ==
    ASSUME SessionTypeOK, Drained, runStep
    PROVE  Drained'
  <1> USE DEF At
  <1>1. /\ input \in [Prompts -> Rows] /\ drain \in Drains /\ drain'.owes = drain.owes
        /\ \A p \in Pending : p \in Prompts /\ input[p].delivery \in Deliveries
    BY RunSteps DEF SessionTypeOK, Pending, Rows
  <1>2. ASSUME NEW exit \in {"failure", "interrupt"}, drain' = Ended(exit) PROVE Drained'
    BY <1>2 DEF Drained, DrainEmptiesInbox, Ended, Off
  <1>3. ASSUME NEW phase, phase \notin {"beginQueue", "nextActivity", "success"}, drain'.phase = phase
        PROVE  Drained'
    BY <1>3 DEF Drained, DrainEmptiesInbox
  <1>4. ASSUME NEW promotion, NEW step, drain' = Turn(promotion, step) PROVE Drained'
    <2>1. drain'.phase \in {"provider", "cutoff"}
      BY <1>1, <1>4 DEF Turn, Drains
    <2>2. QED  BY <1>3, <2>1
  <1>5. CASE readSteer
    <2>1. CASE hasPending("steer")
      BY <1>4, <1>5, <2>1 DEF readSteer, Continue
    <2>2. CASE ~hasPending("steer")
      <3>1. drain'.phase = "beginQueue" /\ input' = input
        BY <1>1, <1>5, <2>2 DEF readSteer, Continue, Drains, inbox
      <3>2. OwedSteers' = {}
        BY <1>1, <2>2, <3>1 DEF OwedSteers, hasPending, Pending
      <3>3. QED  BY <3>1, <3>2 DEF Drained, DrainEmptiesInbox
    <2>3. QED  BY <2>1, <2>2
  <1>6. ASSUME ~hasPending("queue"), OwedSteers = {}, drain' = Ended("success"), input' = input
        PROVE  Drained'
    <2>1. drain.owes \cap Pending = {}
      BY <1>1, <1>6 DEF hasPending, OwedSteers, Deliveries
    <2>2. drain'.owes \cap Pending' = {} /\ drain'.phase = "success"
      BY <1>1, <1>6, <2>1 DEF Ended, Off, Pending
    <2>3. QED  BY <2>2 DEF Drained, DrainEmptiesInbox
  <1>7. CASE readQueue
    <2>1. OwedSteers = {} /\ input' = input
      BY <1>7 DEF readQueue, Drained, Continue, inbox
    <2>2. QED  BY <1>4, <1>6, <1>7, <2>1 DEF readQueue, Continue
  <1>8. CASE readCutoff
    BY <1>1, <1>3, <1>8 DEF readCutoff, Continue, Drains
  <1>9. CASE promoteNextQueued \/ promoteSteers \/ publish
    <2>1. drain'.phase \in {"publishQueued", "publishSteers", "promoteSteers", "provider"}
      BY <1>1, <1>9 DEF promoteNextQueued, promoteSteers, publish, Publishing, Continue, Drains
    <2>2. QED  BY <1>3, <2>1
  <1>10. CASE provider \/ unavailable
    <2>1. (\E exit \in {"failure", "interrupt"} : drain' = Ended(exit)) \/ drain'.phase \in {"continue", "settled"}
      BY <1>1, <1>10 DEF provider, unavailable, Continue, Drains
    <2>2. QED  BY <1>2, <1>3, <2>1
  <1>11. CASE afterTurn
    <2>1. CASE drain' \in {Turn("steer", drain.step + 1), Ended("failure")}
      BY <1>2, <1>4, <2>1
    <2>2. CASE drain' \notin {Turn("steer", drain.step + 1), Ended("failure")}
      <3>1. ~hasPending("steer") /\ drain'.phase = "nextActivity" /\ input' = input
        BY <1>1, <1>11, <2>2 DEF afterTurn, Continue, Drains, inbox
      <3>2. OwedSteers' = {}
        BY <1>1, <3>1 DEF OwedSteers, hasPending, Pending
      <3>3. QED  BY <3>1, <3>2 DEF Drained, DrainEmptiesInbox
    <2>3. QED  BY <2>1, <2>2
  <1>12. CASE nextActivity
    <2>1. OwedSteers = {} /\ input' = input
      BY <1>12 DEF nextActivity, Drained, Continue, inbox
    <2>2. QED  BY <1>4, <1>6, <1>12, <2>1 DEF nextActivity, Continue
  <1>13. QED
    BY <1>5, <1>7, <1>8, <1>9, <1>10, <1>11, <1>12 DEF runStep

\* An input admitted while a drain runs is not one the drain owes.
LEMMA DrainedKept ==
    ASSUME SessionTypeOK, Drained, drain' = drain,
           \A p \in Prompts : input[p].state # "absent" => input'[p] = input[p]
    PROVE  Drained'
  <1>1. \A p \in drain.owes : p \in Pending' => p \in Pending /\ input'[p] = input[p]
    BY DEF SessionTypeOK, Pending
  <1>2. QED  BY <1>1 DEF Drained, DrainEmptiesInbox, OwedSteers

LEMMA DrainedNext ==
    ASSUME SessionTypeOK, LaneInv, Driven, Drained, [SessionNext]_allVars
    PROVE  Drained'
  <1>1. CASE runStep
    BY <1>1, DrainedRun
  <1>2. CASE \/ \E c \in Callers : resume(c)
             \/ \E e \in EntryIds : startDrain(e)
             \/ \E p \in Prompts : deliverWake(p)
    <2>1. CASE Started
      BY <2>1 DEF Started, Drained, DrainEmptiesInbox
    <2>2. CASE NoneStarted
      BY <1>2, <2>2, DemandSteps, DrainedKept DEF NoneStarted
    <2>3. QED  BY <1>2, <2>1, <2>2, DemandSteps
  <1>3. ASSUME NEW e \in EntryIds, NEW exit \in Exits, settleDrain(e, exit) PROVE Drained'
    BY <1>3, SettleSteps DEF Drained, DrainEmptiesInbox
  <1>4. ASSUME NEW s \in InterruptSeqs, deliverInterrupt(s) PROVE Drained'
    BY <1>4, InterruptSteps, DrainedKept
  <1>5. CASE Crash
    BY <1>5, OffTyped DEF Crash, Drained, DrainEmptiesInbox
  <1>6. ASSUME NEW p \in Prompts, admit(p) PROVE Drained'
    BY <1>6, ApiSteps, DrainedKept DEF admit, SessionTypeOK
  <1>7. CASE (\E p \in Prompts : promptAgain(p)) \/ requestInterrupt \/ UNCHANGED allVars
    BY <1>7, ApiSteps, DrainedKept DEF promptAgain, requestInterrupt, inbox, allVars, sessionVars
  <1>8. QED  BY <1>1, <1>2, <1>3, <1>4, <1>5, <1>6, <1>7 DEF SessionNext

-----------------------------------------------------------------------------
(* Interrupts.  A wake is refused only by a stop that was requested after   *)
(* its prompt, and such a prompt need not run.                              *)

BarrierPast ==
    active # None => /\ entry[active].barrier <= interruptSeq
                     /\ entry[active].stopping => entry[active].barrier # NoSeq

Behind ==
    /\ BarrierPast
    /\ interruptSeq <= latest
    /\ \A p \in Pending :
          input[p].seq <= interruptSeq \/ (\E s \in stops : input[p].seq <= s) => p \in excused

LEMMA BehindInit == SessionInit => Behind
  BY DEF SessionInit, Init, Behind, BarrierPast, Pending, Absent, NoSeq

\* The lane's own steps, but for interrupts.
LEMMA BarrierKept ==
    ASSUME TypeOK, BarrierPast, UNCHANGED interruptSeq,
           active' # None => \/ /\ active' = active
                                /\ entry'[active].barrier = entry[active].barrier
                                /\ entry'[active].stopping = entry[active].stopping
                             \/ entry'[active'].barrier = NoSeq /\ ~entry'[active'].stopping
    PROVE  BarrierPast'
  <1>1. interruptSeq \in Nat
    BY SeqAssumption DEF TypeOK, Seqs, NoSeq
  <1>2. QED  BY <1>1 DEF BarrierPast, NoSeq

LEMMA BarrierPublish ==
    ASSUME TypeOK, NEW e \in EntryIds, NEW demand, NEW phase, Publish(e, demand, FALSE, phase)
    PROVE  active' = e /\ entry'[active'].barrier = NoSeq /\ ~entry'[active'].stopping
  BY DEF Publish, makeEntry, TypeOK

LEMMA BarrierSteps ==
    ASSUME TypeOK, BarrierPast,
           \/ \E c \in Callers : CallRun(c) \/ Retry(c) \/ Cancel(c)
           \/ \E s : wake(s)
           \/ \E e \in EntryIds : DrainStart(e) \/ \E exit \in Exits : settle(e, exit)
    PROVE  BarrierPast' /\ UNCHANGED interruptSeq
  <1> USE NoneAssumption
  <1>0. entry \in [EntryIds -> Entries] /\ active \in EntryIds \cup {None}
    BY DEF TypeOK
  <1>1. ASSUME NEW c \in Callers, CallRun(c) \/ Retry(c) \/ Cancel(c)
        PROVE  BarrierPast' /\ UNCHANGED interruptSeq
    <2>1. CASE runStart(c)
      BY <2>1, BarrierPublish, BarrierKept DEF runStart
    <2>2. CASE runUpgrade(c)
      <3>1. /\ active' = active /\ interruptSeq' = interruptSeq /\ active \in EntryIds
            /\ entry' = [entry EXCEPT ![active].pending = coalesce(@, RunDemand), ![active].waiter = TRUE]
        BY <1>0, <2>2 DEF runUpgrade
      <3>2. entry'[active].barrier = entry[active].barrier /\ entry'[active].stopping = entry[active].stopping
        BY <1>0, <3>1 DEF Entries
      <3>3. QED  BY <3>1, <3>2, BarrierKept
    <2>3. CASE UNCHANGED laneVars
      BY <2>3, BarrierKept DEF laneVars
    <2>4. QED
      BY <1>1, <2>1, <2>2, <2>3 DEF CallRun, Retry, Cancel, run, runClosed, runBehindStop, runJoin
  <1>2. ASSUME NEW s, wake(s) PROVE BarrierPast' /\ UNCHANGED interruptSeq
    <2>1. CASE wakeStart(s)
      BY <1>2, <2>1, BarrierPublish, BarrierKept DEF wake, wakeStart
    <2>2. CASE wakeCoalesce(s)
      <3>1. /\ active' = active /\ interruptSeq' = interruptSeq /\ active \in EntryIds
            /\ entry' = [entry EXCEPT ![active].pending = coalesce(@, WakeDemand(s))]
        BY <1>0, <1>2, <2>2 DEF wake, wakeCoalesce
      <3>2. entry'[active].barrier = entry[active].barrier /\ entry'[active].stopping = entry[active].stopping
        BY <1>0, <3>1 DEF Entries
      <3>3. QED  BY <3>1, <3>2, BarrierKept
    <2>3. QED  BY <1>2, <2>1, <2>2 DEF wake
  <1>3. ASSUME NEW e \in EntryIds, DrainStart(e) PROVE BarrierPast' /\ UNCHANGED interruptSeq
    BY <1>3, BarrierKept DEF DrainStart
  <1>4. ASSUME NEW e \in EntryIds, NEW exit \in Exits, settle(e, exit)
        PROVE  BarrierPast' /\ UNCHANGED interruptSeq
    <2>0. UNCHANGED interruptSeq
      BY <1>4 DEF settle
    <2>1. CASE settleClosed(e, exit) \/ settleForeign(e, exit)
      <3>1. active' = active /\ entry' = [entry EXCEPT ![e] = NoEntry]
        BY <2>1 DEF settleClosed, settleForeign
      <3>2. NoEntry.barrier = NoSeq /\ ~NoEntry.stopping
        BY DEF NoEntry, makeEntry
      <3>3. active' # None => \/ entry'[active] = entry[active]
                              \/ entry'[active] = NoEntry
        BY <1>0, <3>1
      <3>4. QED  BY <2>0, <3>1, <3>2, <3>3, BarrierKept
    <2>2. CASE settleContinue(e, exit)
      <3>1. /\ active' = active /\ active = e
            /\ entry' = [entry EXCEPT ![e].current = entry[e].pending, ![e].pending = NoDemand,
                                      ![e].waiter = @ /\ ~answersWaiter(e)]
        BY <2>2 DEF settleContinue
      <3>2. entry'[active].barrier = entry[active].barrier /\ entry'[active].stopping = entry[active].stopping
        BY <1>0, <3>1 DEF Entries
      <3>3. QED  BY <2>0, <3>1, <3>2, BarrierKept
    <2>3. CASE settleIdle(e, exit)
      BY <2>0, <2>3, BarrierKept DEF settleIdle
    <2>4. CASE settleSuccessor(e, exit)
      BY <1>0, <2>0, <2>4, BarrierKept DEF settleSuccessor, makeEntry
    <2>5. QED  BY <1>4, <2>1, <2>2, <2>3, <2>4 DEF settle
  <1>5. QED  BY <1>1, <1>2, <1>3, <1>4

LEMMA SeqsAreNumbers == Seqs \subseteq Nat
  BY SeqAssumption DEF Seqs, NoSeq

\* A numbered interrupt moves the boundary to its sequence, or leaves it.
LEMMA BarrierInterrupt ==
    ASSUME TypeOK, BarrierPast, NEW c \in Callers, NEW s \in InterruptSeqs, interrupt(c, s)
    PROVE  BarrierPast' /\ interruptSeq' \in {s, interruptSeq} /\ interruptSeq <= interruptSeq'
  <1>1. s \in Nat /\ s # NoSeq /\ interruptSeq \in Nat
    BY SeqAssumption DEF TypeOK, Seqs, NoSeq
  <1>2. CASE interruptStale(c, s)
    <2>1. UNCHANGED <<active, entry, interruptSeq>>
      BY <1>2 DEF interruptStale, laneVars
    <2>2. QED  BY <1>1, <2>1 DEF BarrierPast
  <1>3. CASE interruptPassed(c, s)
    <2>1. /\ interruptSeq' = s /\ interruptSeq < s /\ UNCHANGED <<active, entry>>
      BY <1>1, <1>3 DEF interruptPassed, staleInterrupt
    <2>2. active # None => entry[active].barrier \in Nat
      <3>0. active # None => entry[active] \in Entries
        BY DEF TypeOK
      <3>1. active # None => entry[active].barrier \in Seqs
        BY <3>0 DEF Entries
      <3>2. QED  BY <3>1, SeqsAreNumbers
    <2>3. QED  BY <1>1, <2>1, <2>2 DEF BarrierPast
  <1>4. CASE interruptStop(c, s)
    <2>1. /\ interruptSeq' = s /\ interruptSeq < s /\ active \in EntryIds /\ active' = active
          /\ entry' = [entry EXCEPT
                 ![active].stopping = TRUE,
                 ![active].barrier = IF entry[active].stopping THEN maxSeq(@, s) ELSE s,
                 ![active].pending = suppressPendingAtOrBefore(@, s)]
      BY <1>1, <1>4 DEF interruptStop, staleInterrupt, TypeOK
    <2>2. entry[active].barrier \in Nat /\ entry[active].barrier <= interruptSeq
      BY <2>1, NoneAssumption, SeqAssumption DEF BarrierPast, TypeOK, Entries, Seqs, NoSeq
    <2>3. entry'[active].barrier \in {s, maxSeq(entry[active].barrier, s)}
      BY <2>1 DEF TypeOK, Entries
    <2>4. entry'[active].barrier = s
      BY <1>1, <2>1, <2>2, <2>3 DEF maxSeq
    <2>5. QED  BY <1>1, <2>1, <2>4 DEF BarrierPast
  <1>5. QED  BY <1>2, <1>3, <1>4 DEF interrupt

LEMMA BehindNext ==
    ASSUME SessionTypeOK, LaneInv, Driven, Behind, [SessionNext]_allVars
    PROVE  Behind'
  <1>0. /\ TypeOK /\ BarrierPast /\ latest \in Nat /\ interruptSeq \in Nat /\ stops \subseteq 1 .. latest
        /\ \A p \in Pending : p \in Prompts /\ input[p].seq \in 1 .. latest
    BY SeqAssumption, SequenceAssumption DEF LaneInv, Behind, SessionTypeOK, Pending, TypeOK, Seqs, NoSeq
  <1>1. ASSUME BarrierPast', interruptSeq' = interruptSeq, latest' = latest, Pending' \subseteq Pending,
               \A p \in Pending' : input'[p].seq = input[p].seq,
               stops' \subseteq stops, excused \subseteq excused'
        PROVE  Behind'
    BY <1>1 DEF Behind
  <1>2. CASE runStep
    <2>1. /\ UNCHANGED <<active, entry, interruptSeq, latest, stops, excused>>
          /\ input' = input \/ \E p \in Pending : input' = [input EXCEPT ![p].state = "promoted"]
      BY <1>2, RunSteps DEF vars, laneVars, calls, debts
    <2>2. Pending' \subseteq Pending /\ \A p \in Pending' : input'[p].seq = input[p].seq
      BY <1>0, <2>1 DEF Pending, SessionTypeOK, Rows
    <2>3. QED  BY <1>0, <1>1, <2>1, <2>2 DEF BarrierPast
  <1>3. CASE \/ \E c \in Callers : resume(c)
             \/ \E e \in EntryIds : startDrain(e)
             \/ \E p \in Prompts : deliverWake(p)
    <2>1. BarrierPast' /\ UNCHANGED interruptSeq
      BY <1>0, <1>3, BarrierSteps DEF resume, startDrain, deliverWake, Demand, vars, laneVars, BarrierPast
    <2>2. QED  BY <1>1, <1>3, <2>1, DemandSteps DEF Pending
  <1>4. ASSUME NEW e \in EntryIds, NEW exit \in Exits, settleDrain(e, exit) PROVE Behind'
    <2>1. BarrierPast' /\ UNCHANGED interruptSeq
      BY <1>0, <1>4, BarrierSteps DEF settleDrain
    <2>2. excused \subseteq excused' /\ UNCHANGED <<input, latest, stops>>
      BY <1>4 DEF settleDrain, inbox, calls
    <2>3. QED  BY <1>1, <2>1, <2>2 DEF Pending
  <1>5. ASSUME NEW s \in InterruptSeqs, deliverInterrupt(s) PROVE Behind'
    <2>1. /\ UNCHANGED <<input, latest, excused>> /\ stops' = stops \ {s} /\ s \in stops /\ s <= latest
      BY <1>5, InterruptSteps
    <2>2. BarrierPast' /\ interruptSeq' \in {s, interruptSeq}
      BY <1>0, <1>5, BarrierInterrupt DEF deliverInterrupt, vars, laneVars, BarrierPast
    <2>3. interruptSeq' <= latest'
      BY <2>1, <2>2 DEF Behind
    <2>4. QED  BY <2>1, <2>2, <2>3 DEF Behind, Pending
  <1>6. CASE Crash
    <2>1. /\ active' = None /\ interruptSeq' = NoSeq /\ stops' = {} /\ UNCHANGED <<input, latest>>
          /\ excused' = excused \cup Pending
      BY <1>6 DEF Crash, inbox
    <2>2. QED  BY <1>0, <2>1 DEF Behind, BarrierPast, Pending, NoSeq
  <1>7. ASSUME NEW p \in Prompts, admit(p) PROVE Behind'
    <2>1. PICK delivery \in Deliveries, wanted \in BOOLEAN :
              input' = [input EXCEPT ![p] = [state |-> "pending", delivery |-> delivery,
                                             seq |-> latest + 1, resume |-> wanted]]
      BY <1>7 DEF admit
    <2>2. /\ latest' = latest + 1 /\ UNCHANGED <<active, entry, interruptSeq, stops>> /\ excused \subseteq excused'
      BY <1>7, ApiSteps DEF admit
    <2>3. /\ \A q \in Prompts \ {p} : input'[q] = input[q]
          /\ input'[p].seq = latest + 1
      BY <2>1 DEF SessionTypeOK
    <2>4. ASSUME NEW q \in Pending', input'[q].seq <= interruptSeq' \/ \E s \in stops' : input'[q].seq <= s
          PROVE  q \in excused'
      <3>1. q # p
        <4>1. ~(latest + 1 <= interruptSeq) /\ \A s \in stops : ~(latest + 1 <= s)
          BY <1>0 DEF Behind
        <4>2. QED  BY <2>2, <2>3, <2>4, <4>1
      <3>2. q \in Pending /\ input'[q].seq = input[q].seq
        BY <2>3, <2>4, <3>1 DEF Pending
      <3>3. QED  BY <2>2, <2>4, <3>2 DEF Behind
    <2>5. BarrierPast' /\ interruptSeq' <= latest'
      BY <1>0, <2>2 DEF Behind, BarrierPast
    <2>6. QED  BY <2>4, <2>5 DEF Behind
  <1>8. CASE (\E p \in Prompts : promptAgain(p)) \/ UNCHANGED allVars
    <2>1. UNCHANGED <<active, entry, interruptSeq, input, latest, stops, excused>>
      BY <1>8, ApiSteps DEF promptAgain, inbox, allVars, sessionVars, calls, debts
    <2>2. QED  BY <1>0, <1>1, <2>1 DEF Pending, BarrierPast
  <1>9. CASE requestInterrupt
    <2>1. /\ UNCHANGED <<active, entry, interruptSeq, input>> /\ latest' = latest + 1
          /\ excused' = excused \cup Pending
      BY <1>9, ApiSteps DEF requestInterrupt
    <2>2. QED  BY <1>0, <2>1 DEF Behind, BarrierPast, Pending
  <1>10. QED
    BY <1>2, <1>3, <1>4, <1>5, <1>6, <1>7, <1>8, <1>9 DEF SessionNext

-----------------------------------------------------------------------------
(* Promises.  PromptsHeld: a prompt that was promised a run has a wake on   *)
(* its way, or is owed by the run in progress, or its demand is with a lane *)
(* that has still to act on it.  The demand of a wake may have been folded  *)
(* into an explicit run; then that run is what the lane holds.              *)

Promised == Pending \ (excused \cup dropped)

FoldedRun ==
    /\ active # None
    /\ \/ entry[active].pending.tag = "run"
       \/ fiber[active] = "queued" /\ entry[active].current.tag = "run" /\ ~entry[active].stopping

Folded ==
    /\ owed \subseteq 1 .. latest
    /\ (\E p \in Promised : input[p].seq \in merged) => FoldedRun

Held ==
    \A p \in Promised : \/ p \in wakes
                        \/ drain.phase # "off" /\ p \in drain.owes
                        \/ input[p].seq \in owed

PromptsHeld ==
    \A p \in Promised :
        \/ p \in wakes
        \/ drain.phase # "off" /\ p \in drain.owes
        \/ /\ active # None /\ input[p].seq \in owed
           /\ \/ entry[active].pending # NoDemand
              \/ fiber[active] = "queued" /\ ~entry[active].stopping

LEMMA PromisesInit == SessionInit => Folded /\ Held
  BY DEF SessionInit, Init, Folded, Held, Promised, Pending, Absent

\* A demand that does not start a drain leaves a folded run with the lane.
LEMMA FoldDemand ==
    ASSUME TypeOK,
           \/ \E c \in Callers : CallRun(c) \/ Retry(c) \/ Cancel(c)
           \/ \E s \in Seqs : wake(s)
           \/ \E e \in EntryIds : DrainStart(e)
    PROVE  merged' = {} \/ ((FoldedRun => FoldedRun') /\ (merged' # merged => FoldedRun'))
  <1> USE NoneAssumption
  <1>0. entry \in [EntryIds -> Entries] /\ active \in EntryIds \cup {None}
    BY DEF TypeOK
  <1> DEFINE Kept == (FoldedRun => FoldedRun') /\ (merged' # merged => FoldedRun')
  <1>1. ASSUME NEW c \in Callers, CallRun(c) \/ Retry(c) \/ Cancel(c) PROVE merged' = {} \/ Kept
    <2>1. CASE runStart(c)
      BY <2>1 DEF runStart
    <2>2. CASE runUpgrade(c)
      <3>1. /\ active' = active /\ active \in EntryIds
            /\ entry' = [entry EXCEPT ![active].pending = coalesce(@, RunDemand), ![active].waiter = TRUE]
        BY <1>0, <2>2 DEF runUpgrade
      <3>2. entry'[active].pending = RunDemand
        BY <1>0, <3>1 DEF Entries, coalesce, RunDemand
      <3>3. QED  BY <3>1, <3>2 DEF FoldedRun, RunDemand
    <2>3. CASE UNCHANGED <<laneVars, wakeVars>>
      BY <2>3 DEF laneVars, wakeVars, FoldedRun
    <2>4. QED
      BY <1>1, <2>1, <2>2, <2>3 DEF CallRun, Retry, Cancel, run, runClosed, runBehindStop, runJoin
  <1>2. ASSUME NEW s \in Seqs, wake(s) PROVE merged' = {} \/ Kept
    <2>1. CASE wakeStart(s)
      BY <2>1 DEF wakeStart
    <2>2. CASE wakeCoalesce(s)
      <3>1. /\ active' = active /\ fiber' = fiber /\ active \in EntryIds
            /\ entry' = [entry EXCEPT ![active].pending = coalesce(@, WakeDemand(s))]
            /\ merged' = IF entry'[active].pending.tag = "run" THEN owed' ELSE merged
        BY <1>0, <2>2 DEF wakeCoalesce
      <3>2. /\ entry'[active].current = entry[active].current
            /\ entry'[active].stopping = entry[active].stopping
            /\ entry'[active].pending = coalesce(entry[active].pending, WakeDemand(s))
        BY <1>0, <3>1 DEF Entries
      <3>3. entry[active].pending.tag = "run" => entry'[active].pending.tag = "run"
        BY <3>2 DEF coalesce, RunDemand
      <3>4. QED  BY <3>1, <3>2, <3>3 DEF FoldedRun
    <2>3. QED  BY <1>2, <2>1, <2>2 DEF wake
  <1>3. ASSUME NEW e \in EntryIds, DrainStart(e) PROVE merged' = {} \/ Kept
    BY <1>3 DEF DrainStart
  <1>4. QED  BY <1>1, <1>2, <1>3

\* A drain that exits hands a folded run to what follows it.
LEMMA FoldSettle ==
    ASSUME TypeOK, Ownership, ~closed, FoldedRun,
           NEW e \in EntryIds, NEW exit \in Exits, settle(e, exit)
    PROVE  FoldedRun'
  <1>1. /\ active = e /\ entry \in [EntryIds -> Entries] /\ fiber \in [EntryIds -> {"none", "queued", "running"}]
    BY DEF Ownership, OwnerPublished, settle, TypeOK
  <1>2. entry[e].pending.tag = "run"
    BY <1>1 DEF FoldedRun, settle
  <1>3. entry[e].pending # NoDemand
    BY <1>2 DEF NoDemand
  <1>4. CASE settleContinue(e, exit)
    <2>1. /\ active' = e /\ ~entry[e].stopping /\ fiber' = [fiber EXCEPT ![e] = "queued"]
          /\ entry' = [entry EXCEPT ![e].current = entry[e].pending, ![e].pending = NoDemand,
                                    ![e].waiter = @ /\ ~answersWaiter(e)]
      BY <1>1, <1>4 DEF settleContinue
    <2>2. entry'[e].current = entry[e].pending /\ ~entry'[e].stopping /\ fiber'[e] = "queued"
      BY <1>1, <2>1 DEF Entries
    <2>3. QED  BY <1>2, <2>1, <2>2, NoneAssumption DEF FoldedRun
  <1>5. CASE settleSuccessor(e, exit)
    <2>1. PICK n \in EntryIds :
            /\ n # e /\ active' = n /\ fiber' = [fiber EXCEPT ![e] = "none", ![n] = "queued"]
            /\ entry' = [entry EXCEPT
                  ![e] = NoEntry,
                  ![n] = makeEntry(entry[e].pending, entry[e].waiter /\ ~answersWaiter(e))]
      BY <1>5 DEF settleSuccessor
    <2>2. entry'[n].current = entry[e].pending /\ ~entry'[n].stopping /\ fiber'[n] = "queued"
      BY <1>1, <2>1 DEF makeEntry
    <2>3. QED  BY <1>2, <2>1, <2>2, NoneAssumption DEF FoldedRun
  <1>6. QED
    BY <1>1, <1>3, <1>4, <1>5 DEF settle, settleClosed, settleForeign, settleIdle

\* A stop that reaches a folded run drops it, and the wakes with it.
LEMMA FoldInterrupt ==
    ASSUME TypeOK, NEW s \in InterruptSeqs, deliverInterrupt(s)
    PROVE  /\ UNCHANGED <<owed, merged>> /\ dropped \subseteq dropped'
           /\ FoldedRun => FoldedRun' \/ {p \in Pending : input[p].seq \in merged} \subseteq dropped'
  <1>1. entry \in [EntryIds -> Entries] /\ active \in EntryIds \cup {None} /\ s # NoSeq
    BY SeqAssumption DEF TypeOK
  <1>2. CASE UNCHANGED <<vars, dropped>>
    BY <1>2 DEF vars, laneVars, wakeVars, FoldedRun
  <1>3. ASSUME NEW c \in Callers, interrupt(c, s),
               dropped' = IF dropsRun THEN dropped \cup {p \in Pending : input[p].seq \in merged} ELSE dropped
        PROVE  /\ UNCHANGED <<owed, merged>> /\ dropped \subseteq dropped'
               /\ FoldedRun => FoldedRun' \/ {p \in Pending : input[p].seq \in merged} \subseteq dropped'
    <2>1. CASE interruptStale(c, s) \/ interruptPassed(c, s)
      BY <1>3, <2>1 DEF interruptStale, interruptPassed, laneVars, wakeVars, FoldedRun
    <2>2. CASE interruptStop(c, s)
      <3>1. /\ active \in EntryIds /\ active # None /\ UNCHANGED <<owed, merged>>
            /\ entry' = [entry EXCEPT
                  ![active].stopping = TRUE,
                  ![active].barrier = IF entry[active].stopping THEN maxSeq(@, s) ELSE s,
                  ![active].pending = suppressPendingAtOrBefore(@, s)]
        BY <1>1, <2>2 DEF interruptStop
      <3>2. entry'[active].stopping
        BY <1>1, <3>1 DEF Entries
      <3>3. FoldedRun => dropsRun
        BY <3>1, <3>2 DEF FoldedRun, dropsRun
      <3>4. QED  BY <1>3, <3>1, <3>3
    <2>3. QED  BY <1>3, <2>1, <2>2 DEF interrupt
  <1>4. QED  BY <1>2, <1>3 DEF deliverInterrupt

\* The sequences of accepted wakes are those of prompts.
LEMMA OwedSteps ==
    ASSUME SessionTypeOK,
           \/ \E c \in Callers : resume(c)
           \/ \E e \in EntryIds : startDrain(e)
           \/ \E p \in Prompts : deliverWake(p)
    PROVE  owed' \subseteq owed \cup 1 .. latest
  <1>1. ASSUME NEW c \in Callers, resume(c) PROVE owed' \subseteq owed
    BY <1>1 DEF resume, Demand, CallRun, Retry, Cancel, run, runClosed, runBehindStop, runUpgrade, runJoin,
                runStart, wakeVars
  <1>2. ASSUME NEW e \in EntryIds, startDrain(e) PROVE owed' \subseteq owed
    BY <1>2 DEF startDrain, Demand, DrainStart
  <1>3. ASSUME NEW p \in Prompts, deliverWake(p) PROVE owed' \subseteq owed \cup {input[p].seq}
    BY <1>3 DEF deliverWake, Demand, wake, wakeStart, wakeCoalesce, vars, wakeVars
  <1>4. \A p \in Prompts : deliverWake(p) => input[p].seq \in 1 .. latest
    BY DEF deliverWake, SessionTypeOK
  <1>5. QED  BY <1>1, <1>2, <1>3, <1>4

LEMMA FoldedNext ==
    ASSUME SessionTypeOK, LaneInv, Driven, Folded, [SessionNext]_allVars
    PROVE  Folded'
  <1>0. TypeOK /\ Ownership /\ merged \subseteq owed /\ latest \in Nat
    BY SequenceAssumption DEF LaneInv, TypeOK, SessionTypeOK
  <1>1. ASSUME owed' \subseteq 1 .. latest', Promised' \subseteq Promised,
               \A p \in Promised' : input'[p].seq = input[p].seq,
               \/ merged' = {}
               \/ (FoldedRun => FoldedRun') /\ (merged' # merged => FoldedRun')
        PROVE  Folded'
    BY <1>1 DEF Folded
  <1>2. CASE runStep
    <2>1. /\ UNCHANGED <<active, entry, fiber, owed, merged, latest, excused, dropped>>
          /\ input' = input \/ \E p \in Pending : input' = [input EXCEPT ![p].state = "promoted"]
      BY <1>2, RunSteps DEF vars, laneVars, wakeVars, debts
    <2>2. Promised' \subseteq Promised /\ \A p \in Promised' : input'[p].seq = input[p].seq
      BY <2>1 DEF Promised, Pending, SessionTypeOK, Rows
    <2>3. QED  BY <1>1, <2>1, <2>2 DEF Folded, FoldedRun
  <1>3. CASE \/ \E c \in Callers : resume(c)
             \/ \E e \in EntryIds : startDrain(e)
             \/ \E p \in Prompts : deliverWake(p)
    <2>1. UNCHANGED <<input, latest, excused, dropped>>
      BY <1>3, DemandSteps
    <2>2. owed' \subseteq 1 .. latest'
      BY <1>3, <2>1, OwedSteps DEF Folded
    <2>3. \A p \in Prompts : deliverWake(p) => input[p].seq \in Seqs
      BY SequenceAssumption DEF deliverWake, SessionTypeOK, Seqs
    <2>4. merged' = {} \/ ((FoldedRun => FoldedRun') /\ (merged' # merged => FoldedRun'))
      <3>1. ASSUME NEW p \in Prompts, deliverWake(p), UNCHANGED <<vars, drain>>
            PROVE  (FoldedRun => FoldedRun') /\ merged' = merged
        BY <3>1 DEF vars, laneVars, wakeVars, FoldedRun
      <3>2. QED  BY <1>0, <1>3, <2>3, <3>1, FoldDemand DEF resume, startDrain, deliverWake, Demand
    <2>5. QED  BY <1>1, <2>1, <2>2, <2>4 DEF Promised, Pending
  <1>4. ASSUME NEW e \in EntryIds, NEW exit \in Exits, settleDrain(e, exit) PROVE Folded'
    <2>1. UNCHANGED <<input, latest, dropped, owed, merged>> /\ excused \subseteq excused' /\ settle(e, exit)
      BY <1>4, SettleSteps DEF settleDrain, inbox
    <2>2. FoldedRun => FoldedRun'
      BY <1>0, <2>1, FoldSettle DEF Driven
    <2>3. QED  BY <1>1, <2>1, <2>2 DEF Promised, Pending, Folded
  <1>5. ASSUME NEW s \in InterruptSeqs, deliverInterrupt(s) PROVE Folded'
    <2>1. UNCHANGED <<input, latest, excused, owed, merged>> /\ dropped \subseteq dropped'
      BY <1>0, <1>5, InterruptSteps, FoldInterrupt
    <2>2. Promised' \subseteq Promised \ dropped'
      BY <2>1 DEF Promised, Pending
    <2>3. ASSUME NEW p \in Promised', input'[p].seq \in merged' PROVE FoldedRun'
      <3>1. p \in Promised /\ p \in Pending /\ p \notin dropped' /\ input[p].seq \in merged
        BY <2>1, <2>2, <2>3 DEF Promised
      <3>2. FoldedRun
        BY <3>1 DEF Folded
      <3>3. QED  BY <1>0, <1>5, <3>1, <3>2, FoldInterrupt
    <2>4. QED  BY <2>1, <2>3 DEF Folded
  <1>6. CASE Crash
    BY <1>6 DEF Crash, Folded, inbox
  <1>7. ASSUME NEW p \in Prompts, admit(p) PROVE Folded'
    <2>1. PICK delivery \in Deliveries, wanted \in BOOLEAN :
              input' = [input EXCEPT ![p] = [state |-> "pending", delivery |-> delivery,
                                             seq |-> latest + 1, resume |-> wanted]]
      BY <1>7 DEF admit
    <2>2. /\ latest' = latest + 1 /\ UNCHANGED <<active, entry, fiber, owed, merged, dropped>>
          /\ excused \subseteq excused'
      BY <1>7, ApiSteps DEF admit
    <2>3. \A q \in Prompts \ {p} : input'[q] = input[q]
      BY <2>1 DEF SessionTypeOK
    <2>4. input'[p].seq = latest + 1
      BY <2>1 DEF SessionTypeOK
    <2>5. input'[p].seq \notin merged'
      BY <1>0, <2>2, <2>4 DEF Folded
    <2>6. owed' \subseteq 1 .. latest'
      BY <1>0, <2>2 DEF Folded
    <2>7. ASSUME NEW q \in Promised', input'[q].seq \in merged' PROVE FoldedRun'
      <3>1. q # p
        BY <2>5, <2>7
      <3>2. q \in Promised /\ input[q].seq \in merged
        BY <2>2, <2>3, <2>7, <3>1 DEF Promised, Pending
      <3>3. QED  BY <2>2, <3>2 DEF Folded, FoldedRun
    <2>8. QED  BY <2>6, <2>7 DEF Folded
  <1>8. CASE (\E p \in Prompts : promptAgain(p)) \/ UNCHANGED allVars
    <2>1. UNCHANGED <<active, entry, fiber, input, latest, excused, dropped, owed, merged>>
      BY <1>8, ApiSteps DEF promptAgain, inbox, allVars, sessionVars, debts
    <2>2. QED  BY <2>1 DEF Folded, FoldedRun, Promised, Pending
  <1>9. CASE requestInterrupt
    <2>1. /\ UNCHANGED <<input, owed, merged>> /\ latest' = latest + 1 /\ excused' = excused \cup Pending
      BY <1>9, ApiSteps DEF requestInterrupt
    <2>2. owed' \subseteq 1 .. latest'
      BY <1>0, <2>1 DEF Folded
    <2>3. QED  BY <2>1, <2>2 DEF Folded, Promised, Pending
  <1>10. QED
    BY <1>2, <1>3, <1>4, <1>5, <1>6, <1>7, <1>8, <1>9 DEF SessionNext

LEMMA HeldNext ==
    ASSUME SessionTypeOK, LaneInv, Driven, Drained, Behind, Held, [SessionNext]_allVars
    PROVE  Held'
  <1>1. CASE runStep
    <2>1. /\ UNCHANGED <<owed, wakes, excused, dropped>> /\ drain'.phase # "off" /\ drain'.owes = drain.owes
          /\ input' = input \/ \E p \in Pending : input' = [input EXCEPT ![p].state = "promoted"]
      BY <1>1, RunSteps DEF vars, wakeVars, calls, debts
    <2>2. Promised' \subseteq Promised /\ \A p \in Promised' : input'[p].seq = input[p].seq
      BY <2>1 DEF Promised, Pending, SessionTypeOK, Rows
    <2>3. QED  BY <2>1, <2>2 DEF Held
  <1>2. CASE \/ \E c \in Callers : resume(c)
             \/ \E e \in EntryIds : startDrain(e)
    <2>1. UNCHANGED <<input, excused, dropped, wakes>> /\ (Started \/ NoneStarted)
      BY <1>2, DemandSteps DEF resume, startDrain, calls
    <2>2. QED  BY <2>1 DEF Held, Started, NoneStarted, Promised, Pending
  <1>3. ASSUME NEW p \in Prompts, deliverWake(p) PROVE Held'
    <2>1. UNCHANGED <<input, excused, dropped>> /\ (Started \/ NoneStarted) /\ wakes' = wakes \ {p}
      BY <1>3, DemandSteps DEF deliverWake
    <2>2. CASE Started
      BY <2>1, <2>2 DEF Held, Started, Promised, Pending
    <2>3. CASE ~Started
      <3>1. ASSUME p \in Promised PROVE input'[p].seq \in owed'
        <4>1. input[p].seq # NoSeq /\ input[p].seq \in Nat /\ p \notin excused /\ p \in Pending
          BY <3>1, SequenceAssumption DEF Promised, Pending, SessionTypeOK, NoSeq
        <4>2. CASE wakeRefused(input[p].seq)
          <5>1. input[p].seq > interruptSeq /\ interruptSeq \in Nat
            BY <4>1, SeqsAreNumbers DEF Behind, LaneInv, TypeOK
          <5>2. active # None /\ entry[active] \in Entries
            BY <4>2, <5>1 DEF wakeRefused, isAfterInterrupt, Driven, LaneInv, TypeOK
          <5>3. entry[active].barrier \in Nat
            BY <5>2, SeqsAreNumbers DEF Entries
          <5>4. acceptsWake(entry[active], input[p].seq)
            BY <4>1, <5>1, <5>2, <5>3 DEF Behind, BarrierPast, acceptsWake
          <5>5. QED  BY <4>2, <5>1, <5>2, <5>4 DEF wakeRefused, isAfterInterrupt, Driven
        <4>3. CASE Demand(wake(input[p].seq))
          <5>1. ~wakeStart(input[p].seq)
            <6>1. ASSUME wakeStart(input[p].seq) PROVE FALSE
              <7>1. PICK e \in EntryIds : fiber' = [fiber EXCEPT ![e] = "running"] /\ Fresh(e)
                BY <6>1 DEF wakeStart, Publish
              <7>2. fiber' # fiber
                BY <7>1 DEF Fresh, LaneInv, TypeOK
              <7>3. QED  BY <2>1, <2>3, <7>2 DEF NoneStarted
            <6>2. QED  BY <6>1
          <5>2. owed' = owed \cup ({input[p].seq} \ {NoSeq})
            BY <4>3, <5>1 DEF Demand, wake, wakeCoalesce
          <5>3. QED  BY <2>1, <4>1, <5>2
        <4>4. QED  BY <1>3, <4>2, <4>3 DEF deliverWake
      <3>2. NoneStarted /\ Promised' = Promised
        BY <2>1, <2>3 DEF Promised, Pending
      <3>3. QED  BY <2>1, <3>1, <3>2 DEF Held, NoneStarted
    <2>4. QED  BY <2>2, <2>3
  <1>4. ASSUME NEW e \in EntryIds, NEW exit \in Exits, settleDrain(e, exit) PROVE Held'
    <2>1. UNCHANGED <<input, wakes, dropped, owed>>
      BY <1>4, SettleSteps
    <2>2. CASE exit = "success"
      <3>1. fiber[e] = "running" /\ drain.phase = "success" /\ excused' = excused
        BY <1>4, <2>2 DEF settleDrain, settle, mayExit
      <3>2. drain.owes \cap Pending = {}
        BY <3>1 DEF Drained, DrainEmptiesInbox
      <3>3. QED  BY <2>1, <3>1, <3>2 DEF Held, Promised, Pending
    <2>3. CASE exit # "success"
      <3>1. excused' = excused \cup Spent
        BY <1>4, <2>3 DEF settleDrain
      <3>2. QED  BY <2>1, <3>1 DEF Held, Promised, Pending, Spent
    <2>4. QED  BY <2>2, <2>3
  <1>5. ASSUME NEW s \in InterruptSeqs, deliverInterrupt(s) PROVE Held'
    <2>1. UNCHANGED <<input, drain, excused, wakes, owed>> /\ dropped \subseteq dropped'
      BY <1>5, InterruptSteps, FoldInterrupt DEF LaneInv
    <2>2. QED  BY <2>1 DEF Held, Promised, Pending
  <1>6. CASE Crash \/ requestInterrupt
    <2>1. excused' = excused \cup Pending /\ input' = input
      BY <1>6 DEF Crash, requestInterrupt, inbox
    <2>2. QED  BY <2>1 DEF Held, Promised, Pending
  <1>7. ASSUME NEW p \in Prompts, admit(p) PROVE Held'
    <2>1. PICK delivery \in Deliveries, wanted \in BOOLEAN :
            /\ input' = [input EXCEPT ![p] = [state |-> "pending", delivery |-> delivery,
                                              seq |-> latest + 1, resume |-> wanted]]
            /\ wakes' = IF wanted THEN wakes \cup {p} ELSE wakes
            /\ excused' = IF wanted THEN excused ELSE excused \cup {p}
      BY <1>7 DEF admit
    <2>2. UNCHANGED <<owed, drain, dropped>>
      BY <1>7, ApiSteps
    <2>3. \A q \in Prompts \ {p} : input'[q] = input[q]
      BY <2>1 DEF SessionTypeOK
    <2>4. ASSUME NEW q \in Promised'
          PROVE  q \in wakes' \/ (drain'.phase # "off" /\ q \in drain'.owes) \/ input'[q].seq \in owed'
      <3>1. CASE q = p
        BY <2>1, <2>4, <3>1 DEF Promised
      <3>2. CASE q # p
        <4>1. q \in Promised
          BY <2>1, <2>2, <2>3, <2>4, <3>2 DEF Promised, Pending
        <4>2. QED  BY <2>1, <2>2, <2>3, <3>2, <4>1 DEF Held, Promised, Pending
      <3>3. QED  BY <3>1, <3>2
    <2>5. QED  BY <2>4 DEF Held
  <1>8. CASE (\E p \in Prompts : promptAgain(p)) \/ UNCHANGED allVars
    <2>1. UNCHANGED <<input, excused, dropped, owed, drain>> /\ wakes \subseteq wakes'
      BY <1>8, ApiSteps DEF promptAgain, inbox, allVars, sessionVars, debts, calls
    <2>2. QED  BY <2>1 DEF Held, Promised, Pending
  <1>9. QED
    BY <1>1, <1>2, <1>3, <1>4, <1>5, <1>6, <1>7, <1>8 DEF SessionNext

-----------------------------------------------------------------------------
SessionInv ==
    /\ SessionTypeOK /\ LaneInv /\ Driven
    /\ Drained /\ Behind /\ Folded /\ Held

LEMMA SessionInvInit == SessionInit => SessionInv
  <1>1. SessionInit => LaneInv
    BY LaneInvInit DEF SessionInit
  <1>2. SessionInit => Driven
    BY DEF SessionInit, Init, Driven, Off
  <1>3. QED
    BY <1>1, <1>2, SessionTypeInit, DrainedInit, BehindInit, PromisesInit DEF SessionInv

LEMMA SessionInvNext == SessionInv /\ [SessionNext]_allVars => SessionInv'
  BY SessionTypeNext, LanePreserved, DrivenNext, DrainedNext, BehindNext, FoldedNext, HeldNext DEF SessionInv

LEMMA SessionInvariant == SessionSpec => []SessionInv
  BY SessionInvInit, SessionInvNext, PTL DEF SessionSpec

\* Rows, calls and drains keep their types; no call is under way for a prompt that
\* was not admitted, and no sequence is ahead of the Session's aggregate.
THEOREM SessionTypeCorrect == SessionSpec => []SessionTypeOK
  <1>1. SessionInv => SessionTypeOK
    BY DEF SessionInv
  <1>2. QED  BY <1>1, SessionInvariant, PTL

\* What the coordinator promises of a lane (run-coordinator.ts:13-28) holds of the
\* lane of a Session, whatever wakes and interrupts its API sends, and across crashes:
\* one drain, a stop that nothing crosses, and no caller left waiting.
THEOREM SessionLane ==
    SessionSpec => [](SingleDrain /\ StopBarrier /\ NoStrandedCaller /\ WakeKept /\ RunMeansDrained)
  <1>1. SessionInv => SingleDrain /\ StopBarrier /\ NoStrandedCaller /\ RunMeansDrained
    BY DEF SessionInv, LaneInv, Ownership, Accounted
  <1>2. SessionInv => WakeKept
    BY DEF SessionInv, LaneInv, Wakes, WakeKept, Owing, AsFollowUp, AsSuccessor
  <1>3. QED  BY <1>1, <1>2, SessionInvariant, PTL

\* A run of the runner is in progress exactly while a fiber of the lane runs, so two
\* turns of one Session never overlap (llm.ts:370-396).
THEOREM RunnerIsDriven == SessionSpec => [](drain.phase # "off" <=> \E e \in EntryIds : fiber[e] = "running")
  <1>1. SessionInv => (drain.phase # "off" <=> \E e \in EntryIds : fiber[e] = "running")
    BY DEF SessionInv, Driven
  <1>2. QED  BY <1>1, SessionInvariant, PTL

\* A drain that succeeds has promoted every input that was in the inbox when it began
\* (session.md:26), for any inputs and whatever was admitted while it ran.
THEOREM DrainEmptiesInboxTheorem == SessionSpec => []DrainEmptiesInbox
  <1>1. SessionInv => DrainEmptiesInbox
    BY DEF SessionInv, Drained
  <1>2. QED  BY <1>1, SessionInvariant, PTL

\* A prompt that was promised a run is never left behind: its wake is on the way, or
\* the run in progress owes it, or the lane holds a demand that will drain for it.  It
\* is what PromptsRun needs besides fairness.
THEOREM PromptsHeldTheorem == SessionSpec => []PromptsHeld
  <1>1. SessionInv => PromptsHeld
    <2> SUFFICES ASSUME SessionInv, NEW p \in Promised, input[p].seq \in owed
                 PROVE  /\ active # None
                        /\ \/ entry[active].pending # NoDemand
                           \/ fiber[active] = "queued" /\ ~entry[active].stopping
      BY DEF SessionInv, Held, PromptsHeld
    <2>1. input[p].seq > interruptSeq
      <3>1. input[p].seq \in Nat /\ interruptSeq \in Nat
        BY SequenceAssumption, SeqsAreNumbers
        DEF SessionInv, SessionTypeOK, LaneInv, TypeOK, Promised, Pending, Rows
      <3>2. ~(input[p].seq <= interruptSeq)
        BY DEF SessionInv, Behind, Promised
      <3>3. QED  BY <3>1, <3>2
    <2>2. CASE input[p].seq \in merged
      <3>1. FoldedRun
        BY <2>2 DEF SessionInv, Folded
      <3>2. QED  BY <3>1 DEF FoldedRun, NoDemand
    <2>3. CASE input[p].seq \notin merged
      <3>1. active # None /\ (AsFollowUp(input[p].seq) \/ AsSuccessor(input[p].seq))
        BY <2>1, <2>3 DEF SessionInv, LaneInv, Wakes, Owing
      <3>2. QED  BY <3>1 DEF AsFollowUp, AsSuccessor, NoDemand
    <2>4. QED  BY <2>2, <2>3
  <1>2. QED  BY <1>1, SessionInvariant, PTL
=============================================================================
