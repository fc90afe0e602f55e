------------------------ MODULE RunCoordinatorProofs ------------------------
(***************************************************************************)
(* Proofs about RunCoordinator, for any number of callers, entries and     *)
(* sequence numbers.                                                       *)
(***************************************************************************)
EXTENDS RunCoordinator, TLAPS

-----------------------------------------------------------------------------
(* Lemmas about the demands and entries the actions build.                  *)

\* makeEntry builds a well-typed Entry.
LEMMA MakeEntryType ==
    ASSUME NEW d \in Demands, NEW w \in BOOLEAN
    PROVE  makeEntry(d, w) \in Entries
  BY DEF makeEntry, Entries, Seqs

\* A run and a wake with a known sequence are demands.
LEMMA DemandType == RunDemand \in Demands /\ \A s \in Seqs : WakeDemand(s) \in Demands
  BY DEF Demands

\* The sequence of a demand, also of an absent one, is a known sequence.
LEMMA DemandSeq ==
    ASSUME NEW d \in Demands \cup {NoDemand}
    PROVE  d.seq \in Seqs /\ d.tag \in {"none", "run", "wake"}
  BY DEF Demands, NoDemand, RunDemand, WakeDemand, Seqs

\* Sequences are natural numbers, and so closed under maxSeq.
LEMMA MaxSeqType ==
    ASSUME NEW l \in Seqs, NEW r \in Seqs
    PROVE  maxSeq(l, r) \in Seqs /\ l \in Nat
  BY SeqAssumption DEF maxSeq, Seqs, NoSeq

\* Coalescing a demand into a follow-up gives a demand, never an absent one.
LEMMA CoalesceType ==
    ASSUME NEW l \in Demands \cup {NoDemand}, NEW r \in Demands
    PROVE  coalesce(l, r) \in Demands
  BY DemandType, DemandSeq, MaxSeqType DEF coalesce

\* Suppression keeps the follow-up or drops it.
LEMMA SuppressType ==
    ASSUME NEW p \in Demands \cup {NoDemand}, NEW s \in Seqs
    PROVE  suppressPendingAtOrBefore(p, s) \in Demands \cup {NoDemand}
  BY DEF suppressPendingAtOrBefore

\* Parking a caller preserves the types of the caller variables.
LEMMA ParkType ==
    ASSUME TypeOK, NEW c \in Callers, NEW p \in PCs, NEW e \in EntryIds \cup {None},
           NEW r \in Exits \cup {"none"}, Park(c, p, e, r)
    PROVE  /\ pc' \in [Callers -> PCs]
           /\ at' \in [Callers -> EntryIds \cup {None}]
           /\ result' \in [Callers -> Exits \cup {"none"}]
           /\ ran' \in [Callers -> BOOLEAN]
           /\ cut' \in [Callers -> BOOLEAN]
  BY DEF TypeOK, Park

\* So does completing the deferreds of an entry.
LEMMA AnswerType ==
    ASSUME TypeOK, NEW e \in EntryIds, NEW n \in EntryIds, NEW exit \in Exits,
           NEW x, NEW d, Answer(e, exit, x, d, n)
    PROVE  /\ pc' \in [Callers -> PCs]
           /\ at' \in [Callers -> EntryIds \cup {None}]
           /\ result' \in [Callers -> Exits \cup {"none"}]
           /\ ran' \in [Callers -> BOOLEAN]
           /\ cut' \in [Callers -> BOOLEAN]
  <1>1. \A p \in PCs : Resumed(p) \in PCs
    BY DEF Resumed, PCs
  <1>2. \A c \in Callers : Outcome(c, exit) \in Exits \cup {"none"}
    BY DEF Outcome, TypeOK
  <1>3. pc' \in [Callers -> PCs]
    BY <1>1 DEF Answer, TypeOK
  <1>4. at' \in [Callers -> EntryIds \cup {None}]
    BY DEF Answer, TypeOK
  <1>5. result' \in [Callers -> Exits \cup {"none"}]
    BY <1>2 DEF Answer, TypeOK
  <1>6. ran' \in [Callers -> BOOLEAN] /\ cut' \in [Callers -> BOOLEAN]
    BY DEF Answer, TypeOK
  <1>7. QED  BY <1>3, <1>4, <1>5, <1>6

-----------------------------------------------------------------------------
(* Type correctness: one lemma per operation.                               *)

LEMMA TypeInit == Init => TypeOK
  <1> SUFFICES ASSUME Init PROVE TypeOK
    OBVIOUS
  <1>1. NoEntry \in Entries
    BY MakeEntryType, DemandType DEF NoEntry
  <1>2. QED
    BY <1>1 DEF Init, TypeOK, Seqs, PCs

LEMMA TypeRun ==
    ASSUME TypeOK, NEW c \in Callers, run(c)
    PROVE  TypeOK'
  <1>1. CASE runClosed(c)
    BY <1>1, ParkType DEF runClosed, TypeOK, laneVars, wakeVars, PCs, Exits
  <1>2. CASE runBehindStop(c)
    BY <1>2, ParkType DEF runBehindStop, TypeOK, laneVars, wakeVars, PCs, Waiting
  <1>3. CASE runUpgrade(c)
    <2>1. active \in EntryIds /\ coalesce(entry[active].pending, RunDemand) \in Demands
      BY <1>3, CoalesceType, DemandType DEF runUpgrade, TypeOK, Entries
    <2>2. entry' \in [EntryIds -> Entries]
      BY <1>3, <2>1 DEF runUpgrade, TypeOK, Entries
    <2>3. QED
      BY <1>3, <2>1, <2>2, ParkType DEF runUpgrade, TypeOK, PCs, Waiting
  <1>4. CASE runJoin(c)
    BY <1>4, ParkType DEF runJoin, TypeOK, laneVars, wakeVars, PCs, Waiting
  <1>5. CASE runStart(c)
    <2>1. PICK e \in EntryIds :
             Publish(e, RunDemand, FALSE, "running") /\ Park(c, "awaitDone", e, "none")
      BY <1>5 DEF runStart
    <2>2. makeEntry(RunDemand, FALSE) \in Entries
      BY MakeEntryType, DemandType
    <2>3. QED
      BY <1>5, <2>1, <2>2, ParkType DEF runStart, Publish, TypeOK, PCs, Waiting
  <1>6. QED  BY <1>1, <1>2, <1>3, <1>4, <1>5 DEF run

LEMMA TypeWake ==
    ASSUME TypeOK, NEW s \in WakeSeqs \cup {NoSeq}, wake(s)
    PROVE  TypeOK'
  <1>0. s \in Seqs /\ WakeDemand(s) \in Demands
    BY DemandType DEF Seqs
  <1>1. CASE wakeStart(s)
    <2>1. PICK e \in EntryIds : Publish(e, WakeDemand(s), FALSE, "running")
      BY <1>1 DEF wakeStart
    <2>2. makeEntry(WakeDemand(s), FALSE) \in Entries
      BY <1>0, MakeEntryType
    <2>3. QED
      BY <1>1, <2>1, <2>2 DEF wake, wakeStart, Publish, TypeOK, callerVars
  <1>2. CASE wakeCoalesce(s)
    <2>1. active \in EntryIds /\ coalesce(entry[active].pending, WakeDemand(s)) \in Demands
      BY <1>0, <1>2, CoalesceType DEF wakeCoalesce, TypeOK, Entries
    <2>2. entry' \in [EntryIds -> Entries]
      BY <1>2, <2>1 DEF wakeCoalesce, TypeOK, Entries
    <2>3. owed' \subseteq WakeSeqs /\ merged' \subseteq owed'
      BY <1>2 DEF wakeCoalesce, TypeOK
    <2>4. QED
      BY <1>2, <2>2, <2>3 DEF wake, wakeCoalesce, TypeOK, callerVars
  <1>3. QED  BY <1>1, <1>2 DEF wake

LEMMA TypeInterrupt ==
    ASSUME TypeOK, NEW c \in Callers, NEW s \in InterruptSeqs \cup {NoSeq}, interrupt(c, s)
    PROVE  TypeOK'
  <1>0. s \in Seqs
    BY DEF Seqs
  <1>1. CASE interruptStale(c, s)
    BY <1>1, ParkType DEF interruptStale, TypeOK, laneVars, wakeVars, PCs, Waiting
  <1>2. CASE interruptPassed(c, s)
    BY <1>0, <1>2 DEF interruptPassed, TypeOK, callerVars, wakeVars
  <1>3. CASE interruptStop(c, s)
    <2>1. active \in EntryIds /\ entry[active] \in Entries
      BY <1>3 DEF interruptStop, TypeOK
    <2>2. /\ maxSeq(entry[active].barrier, s) \in Seqs
          /\ suppressPendingAtOrBefore(entry[active].pending, s) \in Demands \cup {NoDemand}
      BY <1>0, <2>1, MaxSeqType, SuppressType DEF Entries
    <2>3. entry' \in [EntryIds -> Entries]
      BY <1>0, <1>3, <2>1, <2>2 DEF interruptStop, TypeOK, Entries
    <2>4. interruptSeq' \in Seqs
      BY <1>0, <1>3 DEF interruptStop, TypeOK
    <2>5. owed' \subseteq WakeSeqs /\ merged' \subseteq owed'
      BY <1>3 DEF interruptStop, TypeOK
    <2>6. /\ pc' \in [Callers -> PCs] /\ at' \in [Callers -> EntryIds \cup {None}]
          /\ result' \in [Callers -> Exits \cup {"none"}]
          /\ ran' \in [Callers -> BOOLEAN] /\ cut' \in [Callers -> BOOLEAN]
      BY <1>3, <2>1 DEF interruptStop, TypeOK, PCs, Waiting
    <2>7. QED
      BY <1>3, <2>3, <2>4, <2>5, <2>6 DEF interruptStop, TypeOK
  <1>4. QED  BY <1>1, <1>2, <1>3 DEF interrupt

LEMMA TypeSettle ==
    ASSUME TypeOK, NEW e \in EntryIds, NEW exit \in Exits, settle(e, exit)
    PROVE  TypeOK'
  <1>0. /\ entry[e] \in Entries /\ answersWaiter(e) \in BOOLEAN /\ NoEntry \in Entries
        /\ entry[e].waiter \in BOOLEAN
    BY MakeEntryType, DemandType DEF TypeOK, answersWaiter, Entries, NoEntry
  <1>1. CASE settleClosed(e, exit)
    BY <1>0, <1>1, AnswerType DEF settle, settleClosed, TypeOK, wakeVars
  <1>2. CASE settleForeign(e, exit)
    BY <1>0, <1>2, AnswerType DEF settle, settleForeign, TypeOK, wakeVars
  <1>3. CASE settleContinue(e, exit)
    <2>1. entry' \in [EntryIds -> Entries]
      BY <1>0, <1>3 DEF settleContinue, TypeOK, Entries
    <2>2. QED
      BY <1>0, <1>3, <2>1, AnswerType DEF settle, settleContinue, TypeOK, wakeVars
  <1>4. CASE settleIdle(e, exit)
    BY <1>0, <1>4, AnswerType DEF settle, settleIdle, TypeOK, wakeVars
  <1>5. CASE settleSuccessor(e, exit)
    <2> DEFINE w == entry[e].waiter /\ ~answersWaiter(e)
    <2>1. PICK n \in EntryIds : 
            /\ n # e
            /\ Answer(e, exit, answersWaiter(e), TRUE, n)
            /\ active' = n
            /\ entry' = [entry EXCEPT ![e] = NoEntry, ![n] = makeEntry(entry[e].pending, w)]
            /\ fiber' = [fiber EXCEPT ![e] = "none", ![n] = "queued"]
      BY <1>5 DEF settleSuccessor
    <2>2. makeEntry(entry[e].pending, w) \in Entries
      BY <1>0, <1>5, MakeEntryType DEF settleSuccessor, Entries
    <2>3. QED
      BY <1>0, <1>5, <2>1, <2>2, AnswerType DEF settle, TypeOK, wakeVars
  <1>6. QED  BY <1>1, <1>2, <1>3, <1>4, <1>5 DEF settle

LEMMA TypeWait ==
    ASSUME TypeOK, NEW c \in Callers, CallAwaitIdle(c) \/ checkIdle(c) \/ Cancel(c)
    PROVE  TypeOK'
  <1>1. CASE CallAwaitIdle(c)
    BY <1>1, ParkType DEF CallAwaitIdle, TypeOK, laneVars, wakeVars, PCs
  <1>2. CASE checkIdle(c)
    BY <1>2 DEF checkIdle, TypeOK, laneVars, wakeVars, PCs, Waiting
  <1>3. CASE Cancel(c)
    BY <1>3, ParkType DEF Cancel, TypeOK, laneVars, wakeVars, PCs
  <1>4. QED  BY <1>1, <1>2, <1>3

LEMMA TypeClose == ASSUME TypeOK, Close PROVE TypeOK'
  BY DEF Close, TypeOK, Seqs, PCs, Exits

LEMMA TypeNext == TypeOK /\ [Next]_vars => TypeOK'
  <1> SUFFICES ASSUME TypeOK, [Next]_vars PROVE TypeOK'
    OBVIOUS
  <1>1. CASE UNCHANGED vars
    BY <1>1 DEF TypeOK, vars, laneVars, callerVars, wakeVars
  <1>2. ASSUME NEW c \in Callers, CallRun(c) \/ Retry(c) PROVE TypeOK'
    BY <1>2, TypeRun DEF CallRun, Retry
  <1>3. ASSUME NEW c \in Callers, CallAwaitIdle(c) \/ checkIdle(c) \/ Cancel(c) PROVE TypeOK'
    BY <1>3, TypeWait
  <1>4. ASSUME NEW c \in Callers, NEW s \in InterruptSeqs \cup {NoSeq}, interrupt(c, s)
        PROVE  TypeOK'
    BY <1>4, TypeInterrupt
  <1>5. ASSUME NEW s \in WakeSeqs \cup {NoSeq}, wake(s) PROVE TypeOK'
    BY <1>5, TypeWake
  <1>6. ASSUME NEW e \in EntryIds, DrainStart(e) PROVE TypeOK'
    BY <1>6 DEF DrainStart, TypeOK, callerVars
  <1>7. ASSUME NEW e \in EntryIds, NEW exit \in Exits, settle(e, exit) PROVE TypeOK'
    BY <1>7, TypeSettle
  <1>8. CASE Close
    BY <1>8, TypeClose
  <1>9. QED  BY <1>1, <1>2, <1>3, <1>4, <1>5, <1>6, <1>7, <1>8 DEF Next

\* The coordinator's variables keep their types, however many callers, entries
\* and sequences there are.
THEOREM TypeCorrect == Spec => []TypeOK
  BY TypeInit, TypeNext, PTL DEF Spec

-----------------------------------------------------------------------------
(* Ownership.  SingleDrain is inductive only together with OwnerPublished:  *)
(* a new chain starts where no entry is published, and it is the published  *)
(* entry that tells whether a fiber lives.                                  *)

Ownership == SingleDrain /\ OwnerPublished

LEMMA OwnerInit == Init => Ownership
  BY NoneAssumption DEF Init, Ownership, SingleDrain, OwnerPublished

LEMMA OwnerPublish ==
    ASSUME TypeOK, Ownership, ~closed, active = None, UNCHANGED closed,
           NEW e \in EntryIds, NEW d, Publish(e, d, FALSE, "running")
    PROVE  Ownership'
  BY NoneAssumption DEF TypeOK, Ownership, SingleDrain, OwnerPublished, Publish

LEMMA OwnerRun ==
    ASSUME TypeOK, Ownership, NEW c \in Callers, run(c)
    PROVE  Ownership'
  <1>1. CASE runStart(c)
    BY <1>1, OwnerPublish DEF runStart
  <1>2. CASE ~runStart(c)
    <2>1. UNCHANGED <<active, fiber, closed>>
      BY <1>2 DEF run, runClosed, runBehindStop, runUpgrade, runJoin, laneVars
    <2>2. QED
      BY <2>1 DEF Ownership, SingleDrain, OwnerPublished
  <1>3. QED  BY <1>1, <1>2

LEMMA OwnerWake ==
    ASSUME TypeOK, Ownership, NEW s, wake(s)
    PROVE  Ownership'
  <1>1. CASE wakeStart(s)
    BY <1>1, OwnerPublish DEF wake, wakeStart
  <1>2. CASE wakeCoalesce(s)
    BY <1>2 DEF wake, wakeCoalesce, Ownership, SingleDrain, OwnerPublished
  <1>3. QED  BY <1>1, <1>2 DEF wake

LEMMA OwnerSettle ==
    ASSUME TypeOK, Ownership, NEW e \in EntryIds, NEW exit \in Exits, settle(e, exit)
    PROVE  Ownership'
  <1>0. fiber[e] # "none" /\ closed' = closed
    BY DEF settle
  <1>1. CASE settleClosed(e, exit)
    BY <1>0, <1>1 DEF settleClosed, TypeOK, Ownership, SingleDrain, OwnerPublished
  <1>2. CASE settleForeign(e, exit)
    BY <1>0, <1>2 DEF settleForeign, Ownership, OwnerPublished
  <1>3. CASE settleContinue(e, exit)
    BY <1>0, <1>3 DEF settleContinue, TypeOK, Ownership, SingleDrain, OwnerPublished
  <1>4. CASE settleIdle(e, exit)
    BY <1>0, <1>4, NoneAssumption
    DEF settleIdle, TypeOK, Ownership, SingleDrain, OwnerPublished
  <1>5. CASE settleSuccessor(e, exit)
    BY <1>0, <1>5 DEF settleSuccessor, TypeOK, Ownership, SingleDrain, OwnerPublished
  <1>6. QED  BY <1>1, <1>2, <1>3, <1>4, <1>5 DEF settle

LEMMA OwnerNext == TypeOK /\ Ownership /\ [Next]_vars => Ownership'
  <1> SUFFICES ASSUME TypeOK, Ownership, [Next]_vars PROVE Ownership'
    OBVIOUS
  <1> USE DEF Ownership, SingleDrain, OwnerPublished
  <1>1. CASE UNCHANGED vars
    BY <1>1 DEF vars, laneVars
  <1>2. ASSUME NEW c \in Callers, CallRun(c) \/ Retry(c) PROVE Ownership'
    BY <1>2, OwnerRun DEF CallRun, Retry
  <1>3. ASSUME NEW c \in Callers, CallAwaitIdle(c) \/ checkIdle(c) \/ Cancel(c) PROVE Ownership'
    BY <1>3 DEF CallAwaitIdle, checkIdle, Cancel, laneVars
  <1>4. ASSUME NEW c \in Callers, NEW s \in InterruptSeqs \cup {NoSeq}, interrupt(c, s)
        PROVE  Ownership'
    BY <1>4 DEF interrupt, interruptStale, interruptPassed, interruptStop, laneVars
  <1>5. ASSUME NEW s \in WakeSeqs \cup {NoSeq}, wake(s) PROVE Ownership'
    BY <1>5, OwnerWake
  <1>6. ASSUME NEW e \in EntryIds, DrainStart(e) PROVE Ownership'
    BY <1>6 DEF DrainStart, TypeOK
  <1>7. ASSUME NEW e \in EntryIds, NEW exit \in Exits, settle(e, exit) PROVE Ownership'
    BY <1>7, OwnerSettle
  <1>8. CASE Close
    BY <1>8 DEF Close
  <1>9. QED  BY <1>1, <1>2, <1>3, <1>4, <1>5, <1>6, <1>7, <1>8 DEF Next

LEMMA OwnershipInvariant == Spec => []Ownership
  BY OwnerInit, OwnerNext, TypeCorrect, PTL DEF Spec

\* Two drains of one Session never overlap (run-coordinator.ts:14).
THEOREM SingleDrainTheorem == Spec => []SingleDrain
  <1>1. Ownership => SingleDrain
    BY DEF Ownership
  <1>2. QED  BY <1>1, OwnershipInvariant, PTL

\* settle always finds its own entry published (line 126), and every published
\* entry has a fiber that will settle it.
THEOREM OwnerPublishedTheorem == Spec => []OwnerPublished
  <1>1. Ownership => OwnerPublished
    BY DEF Ownership
  <1>2. QED  BY <1>1, OwnershipInvariant, PTL

-----------------------------------------------------------------------------
(* The stop barrier.                                                        *)

LEMMA BarrierSettle ==
    ASSUME TypeOK, Ownership, StopBarrier,
           NEW e \in EntryIds, NEW exit \in Exits, settle(e, exit)
    PROVE  StopBarrier'
  <1>0. fiber[e] # "none"
    BY DEF settle
  <1>1. CASE settleClosed(e, exit)
    BY <1>1 DEF settleClosed, Ownership, OwnerPublished, StopBarrier
  <1>2. CASE settleForeign(e, exit)
    BY <1>0, <1>2 DEF settleForeign, Ownership, OwnerPublished
  <1>3. CASE settleContinue(e, exit)
    <2>1. ~entry[e].stopping /\ active = e /\ UNCHANGED active
      BY <1>3 DEF settleContinue
    <2>2. entry'[e].stopping = entry[e].stopping
      BY <1>3 DEF settleContinue, TypeOK, Entries
    <2>3. QED
      BY <2>1, <2>2 DEF StopBarrier
  <1>4. CASE settleIdle(e, exit)
    BY <1>4 DEF settleIdle, StopBarrier
  <1>5. CASE settleSuccessor(e, exit)
    BY <1>5 DEF settleSuccessor, makeEntry, TypeOK, StopBarrier
  <1>6. QED  BY <1>1, <1>2, <1>3, <1>4, <1>5 DEF settle

\* A stop leaves a follow-up only if it is a wake from after the boundary.
LEMMA BarrierStop ==
    ASSUME TypeOK, StopBarrier, NEW c \in Callers,
           NEW s \in InterruptSeqs \cup {NoSeq}, interruptStop(c, s)
    PROVE  StopBarrier'
  <1> DEFINE en == entry[active]
             p == suppressPendingAtOrBefore(en.pending, s)
  <1>1. active \in EntryIds /\ en \in Entries
    BY DEF interruptStop, TypeOK
  <1>2. /\ active' = active
        /\ entry'[active].pending = p
        /\ entry'[active].barrier = IF en.stopping THEN maxSeq(en.barrier, s) ELSE s
    BY <1>1 DEF interruptStop, TypeOK, Entries
  <1>3. SUFFICES ASSUME p # NoDemand
                 PROVE  p.tag = "wake" /\ entry'[active].barrier # NoSeq
                        /\ p.seq > entry'[active].barrier
    BY <1>2 DEF StopBarrier
  <1>4. p = en.pending /\ p.tag = "wake" /\ s # NoSeq /\ p.seq > s
    BY <1>3 DEF suppressPendingAtOrBefore
  <1>5. s \in Nat /\ en.barrier \in Nat /\ p.seq \in Nat
    <2>1. en.pending \in Demands \cup {NoDemand} /\ en.barrier \in Seqs /\ s \in Seqs
      BY <1>1 DEF Entries, Seqs
    <2>2. QED
      BY <1>4, <2>1, DemandSeq, MaxSeqType
  <1>6. CASE en.stopping
    <2>1. en.barrier # NoSeq /\ p.seq > en.barrier
      BY <1>1, <1>3, <1>4, <1>6, NoneAssumption DEF StopBarrier
    <2>2. QED
      BY <1>2, <1>4, <1>5, <1>6, <2>1 DEF maxSeq, NoSeq
  <1>7. CASE ~en.stopping
    BY <1>2, <1>4, <1>7
  <1>8. QED  BY <1>6, <1>7

LEMMA BarrierWake ==
    ASSUME TypeOK, StopBarrier, NEW s \in WakeSeqs \cup {NoSeq}, wake(s)
    PROVE  StopBarrier'
  <1>1. CASE wakeStart(s)
    BY <1>1 DEF wakeStart, Publish, makeEntry, TypeOK, StopBarrier
  <1>2. CASE wakeCoalesce(s)
    <2> DEFINE en == entry[active]
    <2>1. active \in EntryIds /\ en \in Entries /\ active' = active
      BY <1>2 DEF wakeCoalesce, TypeOK
    <2>2. /\ entry'[active].pending = coalesce(en.pending, WakeDemand(s))
          /\ entry'[active].stopping = en.stopping
          /\ entry'[active].barrier = en.barrier
      BY <1>2, <2>1 DEF wakeCoalesce, TypeOK, Entries
    <2>3. SUFFICES ASSUME en.stopping
                   PROVE  /\ entry'[active].pending.tag = "wake"
                          /\ en.barrier # NoSeq
                          /\ entry'[active].pending.seq > en.barrier
      BY <2>1, <2>2 DEF StopBarrier
    <2>4. en.barrier # NoSeq /\ s > en.barrier
      BY <1>2, <2>3 DEF wakeCoalesce, acceptsWake
    <2>5. en.pending.tag # "run"
      BY <2>1, <2>3, NoneAssumption DEF StopBarrier, NoDemand
    <2>6. /\ entry'[active].pending = WakeDemand(maxSeq(en.pending.seq, s))
      BY <2>2, <2>5 DEF coalesce, WakeDemand
    <2>7. s \in Nat /\ en.pending.seq \in Nat /\ en.barrier \in Nat
      <3>1. en.pending \in Demands \cup {NoDemand} /\ en.barrier \in Seqs /\ s \in Seqs
        BY <2>1 DEF Entries, Seqs
      <3>2. QED
        BY <3>1, DemandSeq, MaxSeqType
    <2>8. QED
      BY <2>4, <2>6, <2>7 DEF WakeDemand, maxSeq
  <1>3. QED  BY <1>1, <1>2 DEF wake

LEMMA BarrierNext == TypeOK /\ Ownership /\ StopBarrier /\ [Next]_vars => StopBarrier'
  <1> SUFFICES ASSUME TypeOK, Ownership, StopBarrier, [Next]_vars PROVE StopBarrier'
    OBVIOUS
  <1>1. CASE UNCHANGED vars
    BY <1>1 DEF vars, laneVars, StopBarrier
  <1>2. ASSUME NEW c \in Callers, CallRun(c) \/ Retry(c) PROVE StopBarrier'
    <2>1. CASE runStart(c)
      BY <2>1 DEF runStart, Publish, makeEntry, TypeOK, StopBarrier
    <2>2. CASE runUpgrade(c)
      BY <2>2 DEF runUpgrade, TypeOK, Entries, StopBarrier
    <2>3. CASE runClosed(c) \/ runBehindStop(c) \/ runJoin(c)
      BY <2>3 DEF runClosed, runBehindStop, runJoin, laneVars, StopBarrier
    <2>4. QED  BY <1>2, <2>1, <2>2, <2>3 DEF CallRun, Retry, run
  <1>3. ASSUME NEW c \in Callers, CallAwaitIdle(c) \/ checkIdle(c) \/ Cancel(c) PROVE StopBarrier'
    BY <1>3 DEF CallAwaitIdle, checkIdle, Cancel, laneVars, StopBarrier
  <1>4. ASSUME NEW c \in Callers, NEW s \in InterruptSeqs \cup {NoSeq}, interrupt(c, s)
        PROVE  StopBarrier'
    <2>1. CASE interruptStop(c, s)
      BY <2>1, BarrierStop
    <2>2. CASE interruptStale(c, s) \/ interruptPassed(c, s)
      BY <2>2 DEF interruptStale, interruptPassed, laneVars, StopBarrier
    <2>3. QED  BY <1>4, <2>1, <2>2 DEF interrupt
  <1>5. ASSUME NEW s \in WakeSeqs \cup {NoSeq}, wake(s) PROVE StopBarrier'
    BY <1>5, BarrierWake
  <1>6. ASSUME NEW e \in EntryIds, DrainStart(e) PROVE StopBarrier'
    BY <1>6 DEF DrainStart, StopBarrier
  <1>7. ASSUME NEW e \in EntryIds, NEW exit \in Exits, settle(e, exit) PROVE StopBarrier'
    BY <1>7, BarrierSettle
  <1>8. CASE Close
    BY <1>8 DEF Close, StopBarrier
  <1>9. QED  BY <1>1, <1>2, <1>3, <1>4, <1>5, <1>6, <1>7, <1>8 DEF Next

\* The stop barrier holds for every set of sequence numbers and however often
\* a stop is repeated: what follows a stop is a wake from after its boundary.
THEOREM StopBarrierTheorem == Spec => []StopBarrier
  <1>1. Init => StopBarrier
    BY DEF Init, StopBarrier
  <1>2. QED  BY <1>1, BarrierNext, TypeCorrect, OwnershipInvariant, PTL DEF Spec

-----------------------------------------------------------------------------
(* The coordinator implements DrainLane.  Each transition of the published  *)
(* entry is one step of the lane; everything else leaves the lane alone.    *)

LEMMA LaneInit == Init => Lane!Init
  BY DEF Init, Lane!Init

LEMMA LaneRun ==
    ASSUME TypeOK, NEW c \in Callers, run(c)
    PROVE  [Lane!Next]_(Lane!vars)
  <1>1. CASE runStart(c)
    <2>1. Lane!Start
      BY <1>1, NoneAssumption
      DEF runStart, Publish, makeEntry, TypeOK, Lane!Start, Lane!Modes, RunDemand, NoDemand
    <2>2. QED  BY <2>1 DEF Lane!Next
  <1>2. CASE runUpgrade(c)
    <2>1. active \in EntryIds /\ entry[active] \in Entries /\ active # None
      BY <1>2 DEF runUpgrade, TypeOK
    <2>2. /\ entry'[active].pending = RunDemand
          /\ entry'[active].current = entry[active].current
          /\ entry'[active].stopping = entry[active].stopping
      BY <1>2, <2>1 DEF runUpgrade, TypeOK, Entries, coalesce, RunDemand
    <2>3. Lane!Coalesce
      BY <1>2, <2>1, <2>2 DEF runUpgrade, Lane!Coalesce, RunDemand
    <2>4. QED  BY <2>3 DEF Lane!Next
  <1>3. CASE runClosed(c) \/ runBehindStop(c) \/ runJoin(c)
    BY <1>3 DEF runClosed, runBehindStop, runJoin, laneVars, Lane!vars
  <1>4. QED  BY <1>1, <1>2, <1>3 DEF run

LEMMA LaneWake ==
    ASSUME TypeOK, StopBarrier, NEW s \in WakeSeqs \cup {NoSeq}, wake(s)
    PROVE  [Lane!Next]_(Lane!vars)
  <1>1. CASE wakeStart(s)
    <2>1. Lane!Start
      BY <1>1, NoneAssumption
      DEF wake, wakeStart, Publish, makeEntry, TypeOK, Lane!Start, Lane!Modes, WakeDemand, NoDemand
    <2>2. QED  BY <2>1 DEF Lane!Next
  <1>2. CASE wakeCoalesce(s)
    <2> DEFINE en == entry[active]
    <2>1. active \in EntryIds /\ en \in Entries /\ active # None
      BY <1>2 DEF wakeCoalesce, TypeOK
    <2>2. /\ entry'[active].pending = coalesce(en.pending, WakeDemand(s))
          /\ entry'[active].current = en.current
          /\ entry'[active].stopping = en.stopping
      BY <1>2, <2>1 DEF wakeCoalesce, TypeOK, Entries
    <2>3. en.current.tag # "idle"
      BY <2>1 DEF Entries, Demands, RunDemand, WakeDemand
    <2>4. CASE en.pending.tag = "run"
      <3>1. ~en.stopping
        BY <2>1, <2>4 DEF StopBarrier, NoDemand
      <3>2. entry'[active].pending.tag = "run"
        BY <2>2, <2>4 DEF coalesce, RunDemand
      <3>3. Lane!Coalesce
        BY <1>2, <2>1, <2>2, <2>3, <3>1, <3>2 DEF wake, wakeCoalesce, Lane!Coalesce
      <3>4. QED  BY <3>3 DEF Lane!Next
    <2>5. CASE en.pending.tag # "run"
      <3>1. entry'[active].pending.tag = "wake"
        BY <2>2, <2>5 DEF coalesce, WakeDemand
      <3>2. Lane!Coalesce
        BY <1>2, <2>1, <2>2, <2>3, <2>5, <3>1 DEF wake, wakeCoalesce, Lane!Coalesce
      <3>3. QED  BY <3>2 DEF Lane!Next
    <2>6. QED  BY <2>4, <2>5
  <1>3. QED  BY <1>1, <1>2 DEF wake

LEMMA LaneInterrupt ==
    ASSUME TypeOK, Ownership, NEW c \in Callers, NEW s \in InterruptSeqs \cup {NoSeq},
           interrupt(c, s)
    PROVE  [Lane!Next]_(Lane!vars)
  <1>1. CASE interruptStop(c, s)
    <2> DEFINE en == entry[active]
    <2>1. active \in EntryIds /\ en \in Entries /\ active # None /\ ~closed
      BY <1>1 DEF interruptStop, TypeOK, Ownership, OwnerPublished
    <2>2. /\ entry'[active].pending = suppressPendingAtOrBefore(en.pending, s)
          /\ entry'[active].current = en.current
          /\ entry'[active].stopping = TRUE
      BY <1>1, <2>1 DEF interruptStop, TypeOK, Entries
    <2>3. en.current.tag # "idle"
      BY <2>1 DEF Entries, Demands, RunDemand, WakeDemand
    <2>4. \/ entry'[active].pending.tag = "none"
          \/ entry'[active].pending.tag = en.pending.tag /\ en.pending.tag # "run"
      BY <2>2 DEF suppressPendingAtOrBefore, NoDemand
    <2>5. Lane!Stop
      BY <1>1, <2>1, <2>2, <2>3, <2>4 DEF interruptStop, Lane!Stop
    <2>6. QED  BY <2>5 DEF Lane!Next
  <1>2. CASE interruptStale(c, s) \/ interruptPassed(c, s)
    BY <1>2 DEF interruptStale, interruptPassed, laneVars, Lane!vars
  <1>3. QED  BY <1>1, <1>2 DEF interrupt

LEMMA LaneSettle ==
    ASSUME TypeOK, Ownership, NEW e \in EntryIds, NEW exit \in Exits, settle(e, exit)
    PROVE  [Lane!Next]_(Lane!vars)
  <1>0. /\ fiber[e] # "none" /\ closed' = closed /\ e # None
        /\ entry[e] \in Entries /\ entry[e].current.tag # "idle"
        /\ entry[e].pending # NoDemand => entry[e].pending.tag # "none"
    BY NoneAssumption DEF settle, TypeOK, Entries, Demands, RunDemand, WakeDemand, NoDemand
  <1>1. CASE settleClosed(e, exit)
    BY <1>0, <1>1 DEF settleClosed, Ownership, OwnerPublished, Lane!vars
  <1>2. CASE settleForeign(e, exit)
    BY <1>0, <1>2 DEF settleForeign, Ownership, OwnerPublished
  <1>3. CASE settleContinue(e, exit)
    <2>1. /\ entry'[e].current = entry[e].pending /\ entry'[e].pending = NoDemand
          /\ entry'[e].stopping = entry[e].stopping
      BY <1>0, <1>3 DEF settleContinue, TypeOK, Entries
    <2>2. Lane!Finish
      BY <1>0, <1>3, <2>1 DEF settleContinue, Lane!Finish, NoDemand
    <2>3. QED  BY <2>2 DEF Lane!Next
  <1>4. CASE settleIdle(e, exit)
    <2>1. Lane!Finish
      BY <1>0, <1>4 DEF settleIdle, Lane!Finish, NoDemand
    <2>2. QED  BY <2>1 DEF Lane!Next
  <1>5. CASE settleSuccessor(e, exit)
    <2>1. PICK n \in EntryIds :
            active' = n /\ entry'[n] = makeEntry(entry[e].pending, entry[e].waiter /\ ~answersWaiter(e))
      BY <1>5 DEF settleSuccessor, TypeOK
    <2>2. Lane!Finish
      BY <1>0, <1>5, <2>1, NoneAssumption DEF settleSuccessor, Lane!Finish, makeEntry, NoDemand
    <2>3. QED  BY <2>2 DEF Lane!Next
  <1>6. QED  BY <1>1, <1>2, <1>3, <1>4, <1>5 DEF settle

LEMMA LaneNext == TypeOK /\ Ownership /\ StopBarrier /\ [Next]_vars => [Lane!Next]_(Lane!vars)
  <1> SUFFICES ASSUME TypeOK, Ownership, StopBarrier, [Next]_vars
               PROVE  [Lane!Next]_(Lane!vars)
    OBVIOUS
  <1>1. CASE UNCHANGED vars
    BY <1>1 DEF vars, laneVars, Lane!vars
  <1>2. ASSUME NEW c \in Callers, CallRun(c) \/ Retry(c) PROVE [Lane!Next]_(Lane!vars)
    BY <1>2, LaneRun DEF CallRun, Retry
  <1>3. ASSUME NEW c \in Callers, CallAwaitIdle(c) \/ checkIdle(c) \/ Cancel(c)
        PROVE  [Lane!Next]_(Lane!vars)
    BY <1>3 DEF CallAwaitIdle, checkIdle, Cancel, laneVars, Lane!vars
  <1>4. ASSUME NEW c \in Callers, NEW s \in InterruptSeqs \cup {NoSeq}, interrupt(c, s)
        PROVE  [Lane!Next]_(Lane!vars)
    BY <1>4, LaneInterrupt
  <1>5. ASSUME NEW s \in WakeSeqs \cup {NoSeq}, wake(s) PROVE [Lane!Next]_(Lane!vars)
    BY <1>5, LaneWake
  <1>6. ASSUME NEW e \in EntryIds, DrainStart(e) PROVE [Lane!Next]_(Lane!vars)
    BY <1>6 DEF DrainStart, Lane!vars
  <1>7. ASSUME NEW e \in EntryIds, NEW exit \in Exits, settle(e, exit)
        PROVE  [Lane!Next]_(Lane!vars)
    BY <1>7, LaneSettle
  <1>8. CASE Close
    <2>1. Lane!Shut
      BY <1>8 DEF Close, Lane!Shut
    <2>2. QED  BY <2>1 DEF Lane!Next
  <1>9. QED  BY <1>1, <1>2, <1>3, <1>4, <1>5, <1>6, <1>7, <1>8 DEF Next

\* The header comment of the coordinator (lines 13-28) holds of its entries and
\* fibers, for any number of callers, entries and sequences.
THEOREM Refinement == Spec => ImplementsLane
  BY LaneInit, LaneNext, TypeCorrect, OwnershipInvariant, StopBarrierTheorem, PTL
  DEF Spec, ImplementsLane, Lane!Spec

-----------------------------------------------------------------------------
(* Callers.  That nobody waits for a deferred nobody completes is inductive *)
(* only together with what a stop does to the callers of its chain, and     *)
(* with the ownership of the entry they wait on.                            *)

Accounted == NoStrandedCaller /\ StopsAreJoined /\ RunMeansDrained

LEMMA CallersInit == Init => Accounted
  BY DEF Init, Accounted, NoStrandedCaller, StopsAreJoined, RunMeansDrained, Waiting

\* A transition that changes neither entries nor fibers and parks a caller on an
\* entry that suits where it waits keeps every caller accounted for.
LEMMA CallersPark ==
    ASSUME TypeOK, Accounted, NEW c \in Callers, NEW p \in PCs, NEW e, NEW r,
           Park(c, p, e, r), UNCHANGED <<entry, fiber, closed>>,
           IF p \in Waiting THEN e \in EntryIds /\ fiber[e] # "none" ELSE e = None,
           p # "awaitExplicit",
           p \in {"awaitStopped", "awaitInterrupt"} => entry[e].stopping,
           p = "awaitDone" => entry[e].current = RunDemand,
           p = "returned" => r # "success"
    PROVE  Accounted'
  BY DEF TypeOK, Accounted, NoStrandedCaller, StopsAreJoined, RunMeansDrained, Park

\* No caller refers to the entry of a new chain, so publishing it disturbs none.
LEMMA CallersPublish ==
    ASSUME TypeOK, Accounted, NEW e \in EntryIds, NEW d, Fresh(e),
           Publish(e, d, FALSE, "running"), UNCHANGED <<closed, callerVars>>
    PROVE  Accounted'
  <1>1. \A c \in Callers : at[c] # e /\ at' = at /\ pc' = pc /\ ran' = ran /\ cut' = cut
                           /\ result' = result
    BY DEF Fresh, callerVars
  <1>2. \A f \in EntryIds : f # e => entry'[f] = entry[f] /\ fiber'[f] = fiber[f]
    BY DEF Publish, TypeOK
  <1>3. closed' = closed
    OBVIOUS
  <1>4. QED
    BY <1>1, <1>2, <1>3
    DEF TypeOK, Accounted, NoStrandedCaller, StopsAreJoined, RunMeansDrained, Waiting

LEMMA CallersRun ==
    ASSUME TypeOK, Ownership, Accounted, NEW c \in Callers, run(c)
    PROVE  Accounted'
  <1>1. CASE runClosed(c)
    BY <1>1, CallersPark DEF runClosed, laneVars, PCs, Waiting
  <1>2. CASE runBehindStop(c)
    <2>1. active \in EntryIds /\ fiber[active] # "none"
      BY <1>2 DEF runBehindStop, TypeOK, Ownership, OwnerPublished
    <2>2. QED
      BY <1>2, <2>1, CallersPark DEF runBehindStop, laneVars, PCs, Waiting
  <1>3. CASE runUpgrade(c)
    <2>1. active \in EntryIds /\ fiber[active] # "none"
      BY <1>3 DEF runUpgrade, TypeOK, Ownership, OwnerPublished
    <2>2. /\ entry'[active].pending = RunDemand /\ entry'[active].waiter
          /\ entry'[active].current = entry[active].current
          /\ entry'[active].stopping = entry[active].stopping
          /\ ~entry[active].stopping
          /\ \A e \in EntryIds \ {active} : entry'[e] = entry[e]
      BY <1>3, <2>1 DEF runUpgrade, TypeOK, Entries, coalesce, RunDemand
    <2>3. /\ pc'[c] = "awaitExplicit" /\ at'[c] = active
          /\ \A d \in Callers \ {c} : /\ pc'[d] = pc[d] /\ at'[d] = at[d]
                                       /\ result'[d] = result[d]
                                       /\ ran'[d] = ran[d] /\ cut'[d] = cut[d]
      BY <1>3 DEF runUpgrade, Park, TypeOK
    <2>4. fiber' = fiber /\ closed' = closed /\ ~closed
      BY <1>3 DEF runUpgrade
    <2>5. QED
      BY <2>1, <2>2, <2>3, <2>4
      DEF TypeOK, Accounted, NoStrandedCaller, StopsAreJoined, RunMeansDrained, Waiting
  <1>4. CASE runJoin(c)
    <2>1. /\ active \in EntryIds /\ fiber[active] # "none"
          /\ entry[active].current = RunDemand
      BY <1>4 DEF runJoin, TypeOK, Ownership, OwnerPublished, Entries, Demands, WakeDemand
    <2>2. QED
      BY <1>4, <2>1, CallersPark DEF runJoin, laneVars, PCs, Waiting
  <1>5. CASE runStart(c)
    <2>1. PICK e \in EntryIds : /\ Fresh(e) /\ Publish(e, RunDemand, FALSE, "running")
                                /\ Park(c, "awaitDone", e, "none")
      BY <1>5 DEF runStart
    <2>2. /\ pc'[c] = "awaitDone" /\ at'[c] = e
          /\ \A d \in Callers \ {c} : /\ pc'[d] = pc[d] /\ at'[d] = at[d] /\ at[d] # e
                                       /\ result'[d] = result[d]
                                       /\ ran'[d] = ran[d] /\ cut'[d] = cut[d]
      BY <2>1 DEF Park, Fresh, TypeOK
    <2>3. /\ \A f \in EntryIds \ {e} : entry'[f] = entry[f] /\ fiber'[f] = fiber[f]
          /\ entry'[e].current = RunDemand /\ fiber'[e] # "none"
      BY <2>1 DEF Publish, TypeOK, makeEntry
    <2>4. closed' = closed
      BY <1>5 DEF runStart
    <2>5. QED
      BY <2>1, <2>2, <2>3, <2>4
      DEF TypeOK, Accounted, NoStrandedCaller, StopsAreJoined, RunMeansDrained, Waiting
  <1>6. QED  BY <1>1, <1>2, <1>3, <1>4, <1>5 DEF run

LEMMA CallersWake ==
    ASSUME TypeOK, Accounted, NEW s, wake(s)
    PROVE  Accounted'
  <1>1. CASE wakeStart(s)
    BY <1>1, CallersPublish DEF wake, wakeStart
  <1>2. CASE wakeCoalesce(s)
    <2>1. active \in EntryIds
      BY <1>2 DEF wakeCoalesce, TypeOK
    <2>2. /\ entry[active].pending = RunDemand => entry'[active].pending = RunDemand
          /\ entry'[active].current = entry[active].current
          /\ entry'[active].stopping = entry[active].stopping
          /\ entry'[active].waiter = entry[active].waiter
          /\ \A e \in EntryIds \ {active} : entry'[e] = entry[e]
      BY <1>2, <2>1 DEF wakeCoalesce, TypeOK, Entries, coalesce, RunDemand
    <2>3. UNCHANGED <<fiber, closed, pc, at, result, ran, cut>>
      BY <1>2 DEF wake, wakeCoalesce, callerVars
    <2>4. QED
      BY <2>1, <2>2, <2>3
      DEF TypeOK, Accounted, NoStrandedCaller, StopsAreJoined, RunMeansDrained, Waiting
  <1>3. QED  BY <1>1, <1>2 DEF wake

LEMMA CallersInterrupt ==
    ASSUME TypeOK, Ownership, Accounted, NEW c \in Callers, NEW s, interrupt(c, s)
    PROVE  Accounted'
  <1>1. CASE interruptStale(c, s)
    <2>1. active \in EntryIds /\ fiber[active] # "none"
      BY <1>1 DEF interruptStale, TypeOK, Ownership, OwnerPublished
    <2>2. QED
      BY <1>1, <2>1, CallersPark DEF interruptStale, laneVars, PCs, Waiting
  <1>2. CASE interruptPassed(c, s)
    BY <1>2
    DEF interruptPassed, callerVars, Accounted, NoStrandedCaller, StopsAreJoined, RunMeansDrained
  <1>3. CASE interruptStop(c, s)
    <2>1. active \in EntryIds /\ fiber[active] # "none"
      BY <1>3 DEF interruptStop, TypeOK, Ownership, OwnerPublished
    <2>2. /\ entry'[active].stopping
          /\ entry'[active].current = entry[active].current
          /\ entry'[active].waiter = entry[active].waiter
          /\ \A e \in EntryIds \ {active} : entry'[e] = entry[e]
      BY <1>3, <2>1 DEF interruptStop, TypeOK, Entries
    <2>3. /\ pc'[c] = "awaitInterrupt" /\ at'[c] = active
          /\ \A d \in Callers \ {c} :
                /\ pc'[d] = pc[d] /\ at'[d] = at[d]
                /\ result'[d] = result[d] /\ ran'[d] = ran[d]
                /\ cut[d] => cut'[d]
                /\ at[d] = active /\ pc[d] = "awaitExplicit" => cut'[d]
      BY <1>3 DEF interruptStop, TypeOK
    <2>4. fiber' = fiber /\ closed' = closed
      BY <1>3 DEF interruptStop
    <2>5. QED
      BY <2>1, <2>2, <2>3, <2>4
      DEF TypeOK, Accounted, NoStrandedCaller, StopsAreJoined, RunMeansDrained, Waiting
  <1>4. QED  BY <1>1, <1>2, <1>3 DEF interrupt

LEMMA CallersWait ==
    ASSUME TypeOK, Ownership, Accounted, NEW c \in Callers,
           CallAwaitIdle(c) \/ checkIdle(c) \/ Cancel(c)
    PROVE  Accounted'
  <1>1. CASE CallAwaitIdle(c)
    BY <1>1, CallersPark DEF CallAwaitIdle, laneVars, PCs, Waiting
  <1>2. CASE checkIdle(c)
    <2>1. /\ \A d \in Callers \ {c} : pc'[d] = pc[d] /\ at'[d] = at[d]
          /\ UNCHANGED <<entry, fiber, closed, result, ran, cut>>
      BY <1>2 DEF checkIdle, TypeOK, laneVars
    <2>2. \/ pc'[c] = "ready" /\ at'[c] = None
          \/ pc'[c] = "awaitIdle" /\ at'[c] \in EntryIds /\ fiber[at'[c]] # "none"
      BY <1>2 DEF checkIdle, TypeOK, Ownership, OwnerPublished
    <2>3. QED
      BY <2>1, <2>2
      DEF TypeOK, Accounted, NoStrandedCaller, StopsAreJoined, RunMeansDrained, Waiting
  <1>3. CASE Cancel(c)
    BY <1>3, CallersPark DEF Cancel, laneVars, PCs, Waiting
  <1>4. QED  BY <1>1, <1>2, <1>3

LEMMA CallersClose == ASSUME TypeOK, Accounted, Close PROVE Accounted'
  <1>1. UNCHANGED <<entry, fiber, ran, cut>> /\ closed'
    BY DEF Close
  <1>2. \A c \in Callers :
          IF pc[c] \in {"awaitDone", "awaitExplicit"}
          THEN pc'[c] = "returned" /\ at'[c] = None /\ result'[c] = "interrupt"
          ELSE IF pc[c] = "awaitIdle"
          THEN pc'[c] = "checkIdle" /\ at'[c] = None
          ELSE pc'[c] = pc[c] /\ at'[c] = at[c] /\ result'[c] = result[c]
    BY DEF Close
  <1>3. QED
    BY <1>1, <1>2
    DEF TypeOK, Accounted, NoStrandedCaller, StopsAreJoined, RunMeansDrained, Waiting

\* Completing the deferreds of entry e does not touch callers waiting elsewhere,
LEMMA AnswerElsewhere ==
    ASSUME NEW e, NEW exit, NEW x, NEW d, NEW n, Answer(e, exit, x, d, n),
           TypeOK, NEW c \in Callers, at[c] # e
    PROVE  /\ pc'[c] = pc[c] /\ at'[c] = at[c] /\ result'[c] = result[c]
           /\ ran'[c] = ran[c] /\ cut'[c] = cut[c]
  <1>1. c \notin answers(e, x, d)
    BY DEF answers
  <1>2. ran'[c] = ran[c]
    BY DEF Answer, TypeOK
  <1>3. QED
    BY <1>1, <1>2 DEF Answer, TypeOK

\* resumes a caller it answers,
LEMMA AnswerResumes ==
    ASSUME NEW e, NEW exit, NEW x, NEW d, NEW n, Answer(e, exit, x, d, n),
           TypeOK, NEW c \in Callers, c \in answers(e, x, d)
    PROVE  /\ pc'[c] = Resumed(pc[c]) /\ at'[c] = None
           /\ result'[c] = Outcome(c, exit) /\ cut'[c] = cut[c]
  BY DEF Answer, TypeOK

\* and credits the waiting runs with a successful explicit drain.
LEMMA AnswerCredits ==
    ASSUME NEW e, NEW exit, NEW x, NEW d, NEW n, Answer(e, exit, x, d, n),
           TypeOK, NEW c \in Callers
    PROVE  /\ ran[c] => ran'[c]
           /\ at[c] = e /\ pc[c] \in {"awaitDone", "awaitExplicit"} /\ exit = "success"
                /\ entry[e].current = RunDemand => ran'[c]
  BY DEF Answer, TypeOK

\* A caller whose deferred is completed leaves the entry; a run that returns
\* success has been drained or cut off.
LEMMA AnsweredCaller ==
    ASSUME TypeOK, Accounted, NEW e \in EntryIds, NEW exit, NEW x, NEW d, NEW n,
           x => answersWaiter(e),
           Answer(e, exit, x, d, n), NEW c \in answers(e, x, d)
    PROVE  /\ pc'[c] \notin Waiting /\ at'[c] = None
           /\ pc'[c] = "returned" /\ result'[c] = "success" => ran'[c] \/ cut'[c]
  <1>1. c \in Callers /\ at[c] = e /\ pc[c] \in Waiting /\ (pc[c] = "awaitExplicit" => x)
    BY DEF answers, Waiting
  <1>2. /\ pc'[c] = Resumed(pc[c]) /\ at'[c] = None /\ result'[c] = Outcome(c, exit)
        /\ cut'[c] = cut[c] /\ (ran[c] => ran'[c])
        /\ pc[c] \in {"awaitDone", "awaitExplicit"} /\ exit = "success"
              /\ entry[e].current = RunDemand => ran'[c]
    BY <1>1, AnswerResumes, AnswerCredits
  <1>3. pc'[c] \notin Waiting
    BY <1>1, <1>2 DEF Resumed, Waiting
  <1>4. ASSUME pc'[c] = "returned", result'[c] = "success" PROVE ran'[c] \/ cut'[c]
    <2>1. pc[c] \in {"awaitDone", "awaitExplicit"} /\ exit = "success"
      BY <1>1, <1>2, <1>4 DEF Resumed, Outcome, Waiting
    <2>2. CASE pc[c] = "awaitDone"
      <3>1. ran[c] \/ cut[c] \/ entry[e].current = RunDemand
        BY <1>1, <2>2 DEF Accounted, RunMeansDrained
      <3>2. QED
        BY <1>2, <2>1, <3>1
    <2>3. CASE pc[c] = "awaitExplicit"
      <3>1. entry[e].current.tag = "run" \/ entry[e].stopping
        BY <1>1, <2>3 DEF answersWaiter
      <3>2. entry[e].current.tag = "run" => entry[e].current = RunDemand
        BY DEF TypeOK, Entries, Demands, WakeDemand
      <3>3. entry[e].stopping => cut[c]
        BY <1>1, <2>3 DEF Accounted, RunMeansDrained
      <3>4. QED
        BY <1>2, <2>1, <3>1, <3>2, <3>3
    <2>4. QED  BY <2>1, <2>2, <2>3
  <1>5. QED  BY <1>2, <1>3, <1>4

\* When a chain ends at entry e every caller is either answered, or waits at
\* another entry, or is the explicit waiter that moves on with a pending run.
LEMMA EndOfChain ==
    ASSUME TypeOK, Accounted, NEW e \in EntryIds, NEW x, NEW d, d = TRUE, NEW c \in Callers,
           at[c] = e, c \notin answers(e, x, d)
    PROVE  pc[c] = "awaitExplicit" /\ ~x
  BY NoneAssumption DEF TypeOK, Accounted, NoStrandedCaller, answers, Waiting

\* The entries other than e that have a fiber are not disturbed.
OthersKept(e) ==
    \A f \in EntryIds \ {e} : fiber[f] # "none" => entry'[f] = entry[f] /\ fiber'[f] # "none"

\* An explicit waiter of e that is not answered finds its run current at n.
WaiterFollows(e, x, n) ==
    \A c \in Callers : pc[c] = "awaitExplicit" /\ at[c] = e /\ ~x =>
        /\ n \in EntryIds /\ fiber'[n] # "none" /\ entry'[n].waiter
        /\ ~entry'[n].stopping /\ entry'[n].current = RunDemand

LEMMA CallersSettleEnd ==
    ASSUME TypeOK, Accounted, NEW e \in EntryIds, NEW exit, NEW x, NEW n,
           NEW d, d = TRUE, x => answersWaiter(e), Answer(e, exit, x, d, n), closed' = closed,
           OthersKept(e), WaiterFollows(e, x, n)
    PROVE  Accounted'
  <1> SUFFICES ASSUME NEW c \in Callers
               PROVE  /\ NoStrandedCaller!(c)'
                      /\ StopsAreJoined!(c)'
                      /\ RunMeansDrained!(c)'
    BY DEF Accounted, NoStrandedCaller, StopsAreJoined, RunMeansDrained
  <1>1. CASE c \in answers(e, x, d)
    <2>1. /\ pc'[c] \notin Waiting /\ at'[c] = None
          /\ pc'[c] = "returned" /\ result'[c] = "success" => ran'[c] \/ cut'[c]
      BY <1>1, AnsweredCaller
    <2>2. QED  BY <2>1 DEF Waiting
  <1>2. CASE at[c] # e
    <2>0. c \in Callers /\ at[c] # e
      BY <1>2
    <2>1. /\ pc'[c] = pc[c] /\ at'[c] = at[c] /\ result'[c] = result[c]
          /\ ran'[c] = ran[c] /\ cut'[c] = cut[c]
      BY <2>0, AnswerElsewhere
    <2>2. pc[c] \in Waiting => /\ at[c] \in EntryIds \ {e}
                              /\ entry'[at[c]] = entry[at[c]] /\ fiber'[at[c]] # "none"
      BY <1>2 DEF Accounted, NoStrandedCaller, OthersKept
    <2>3. QED
      BY <2>1, <2>2
      DEF Accounted, NoStrandedCaller, StopsAreJoined, RunMeansDrained, Waiting
  <1>3. CASE at[c] = e /\ c \notin answers(e, x, d)
    <2>1. pc[c] = "awaitExplicit" /\ ~x
      BY <1>3, EndOfChain
    <2>0. c \in Callers /\ at[c] = e /\ c \notin answers(e, x, d)
      BY <1>3
    <2>2. pc'[c] = "awaitExplicit" /\ at'[c] = n
      BY <2>0, <2>1 DEF Answer, TypeOK
    <2>3. ~closed
      BY <2>1 DEF Accounted, NoStrandedCaller
    <2>4. QED
      BY <1>3, <2>1, <2>2, <2>3 DEF Waiting, WaiterFollows
  <1>4. QED  BY <1>1, <1>2, <1>3

\* A chain that continues keeps its callers, except for an answered waiter.
LEMMA CallersSettleContinue ==
    ASSUME TypeOK, Accounted, NEW e \in EntryIds, NEW exit \in Exits,
           settleContinue(e, exit), closed' = closed
    PROVE  Accounted'
  <1>1. PICK x : x <=> answersWaiter(e)
    BY DEF TypeOK
  <1>2. PICK d : d = FALSE
    OBVIOUS
  <1>3. Answer(e, exit, x, d, e) /\ (x => answersWaiter(e))
    BY <1>1, <1>2 DEF settleContinue, Answer, answers
  <1>4. /\ exit = "success" /\ ~entry[e].stopping /\ ~entry'[e].stopping
        /\ entry'[e].current = entry[e].pending
        /\ entry'[e].waiter <=> (entry[e].waiter /\ ~answersWaiter(e))
        /\ fiber'[e] # "none"
        /\ \A f \in EntryIds \ {e} : entry'[f] = entry[f] /\ fiber'[f] = fiber[f]
    BY DEF settleContinue, TypeOK, Entries
  <1> SUFFICES ASSUME NEW c \in Callers
               PROVE  /\ NoStrandedCaller!(c)'
                      /\ StopsAreJoined!(c)'
                      /\ RunMeansDrained!(c)'
    BY DEF Accounted, NoStrandedCaller, StopsAreJoined, RunMeansDrained
  <1>5. CASE c \in answers(e, x, d)
    <2>1. /\ pc'[c] \notin Waiting /\ at'[c] = None
          /\ pc'[c] = "returned" /\ result'[c] = "success" => ran'[c] \/ cut'[c]
      BY <1>3, <1>5, AnsweredCaller
    <2>2. QED  BY <2>1 DEF Waiting
  <1>6. CASE at[c] # e
    <2>1. c \in Callers /\ at[c] # e
      BY <1>6
    <2>2. /\ pc'[c] = pc[c] /\ at'[c] = at[c] /\ result'[c] = result[c]
          /\ ran'[c] = ran[c] /\ cut'[c] = cut[c]
      BY <1>3, <2>1, AnswerElsewhere
    <2>3. QED
      BY <1>4, <1>6, <2>2
      DEF Accounted, NoStrandedCaller, StopsAreJoined, RunMeansDrained, Waiting
  <1>7. CASE at[c] = e /\ c \notin answers(e, x, d)
    <2>1. pc'[c] = pc[c] /\ at'[c] = e /\ result'[c] = result[c] /\ cut'[c] = cut[c]
      BY <1>3, <1>7 DEF Answer, TypeOK
    <2>2. /\ ran[c] => ran'[c]
          /\ pc[c] = "awaitDone" /\ entry[e].current = RunDemand => ran'[c]
      BY <1>3, <1>4, <1>7 DEF Answer, TypeOK
    <2>3. pc[c] = "awaitExplicit" => ~x
      BY <1>7 DEF answers
    <2>4. pc[c] = "awaitExplicit" =>
            entry'[e].waiter /\ entry'[e].current = RunDemand /\ ~closed
      BY <1>1, <1>4, <1>7, <2>3 DEF Accounted, NoStrandedCaller, answersWaiter, RunDemand
    <2>5. QED
      BY <1>4, <1>7, <2>1, <2>2, <2>4
      DEF Accounted, NoStrandedCaller, StopsAreJoined, RunMeansDrained, Waiting
  <1>8. QED  BY <1>5, <1>6, <1>7

LEMMA CallersSettle ==
    ASSUME TypeOK, Ownership, Accounted, NEW e \in EntryIds, NEW exit \in Exits, settle(e, exit)
    PROVE  Accounted'
  <1>0. fiber[e] # "none" /\ closed' = closed
    BY DEF settle
  <1>1. CASE settleClosed(e, exit)
    <2>1. Answer(e, exit, FALSE, TRUE, e)
      BY <1>1 DEF settleClosed
    <2>2. OthersKept(e)
      BY <1>1 DEF settleClosed, TypeOK, OthersKept
    <2>3. WaiterFollows(e, FALSE, e)
      BY <1>1 DEF settleClosed, Accounted, NoStrandedCaller, WaiterFollows
    <2>4. QED
      BY <1>0, <2>1, <2>2, <2>3, CallersSettleEnd
  <1>2. CASE settleForeign(e, exit)
    BY <1>0, <1>2 DEF settleForeign, Ownership, OwnerPublished
  <1>3. CASE settleContinue(e, exit)
    BY <1>0, <1>3, CallersSettleContinue
  <1>4. CASE settleIdle(e, exit)
    <2>1. Answer(e, exit, answersWaiter(e), TRUE, e)
      BY <1>4 DEF settleIdle
    <2>2. OthersKept(e)
      BY <1>4 DEF settleIdle, TypeOK, OthersKept
    <2>3. \A c \in Callers : pc[c] = "awaitExplicit" /\ at[c] = e => answersWaiter(e)
      BY <1>4 DEF settleIdle, Accounted, NoStrandedCaller, answersWaiter, RunDemand, NoDemand
    <2>4. PICK x : x <=> answersWaiter(e)
      BY DEF TypeOK
    <2>5. Answer(e, exit, x, TRUE, e)
      BY <2>1, <2>4 DEF Answer, answers
    <2>6. WaiterFollows(e, x, e)
      BY <2>3, <2>4 DEF WaiterFollows
    <2>7. x => answersWaiter(e)
      BY <2>4
    <2>8. QED
      BY <1>0, <2>2, <2>5, <2>6, <2>7, CallersSettleEnd
  <1>5. CASE settleSuccessor(e, exit)
    <2>1. PICK n \in EntryIds :
            /\ n # e /\ fiber[n] = "none"
            /\ Answer(e, exit, answersWaiter(e), TRUE, n)
            /\ entry' = [entry EXCEPT
                  ![e] = NoEntry,
                  ![n] = makeEntry(entry[e].pending, entry[e].waiter /\ ~answersWaiter(e))]
            /\ fiber' = [fiber EXCEPT ![e] = "none", ![n] = "queued"]
      BY <1>5 DEF settleSuccessor, Fresh
    <2>2. PICK x : x <=> answersWaiter(e)
      BY DEF TypeOK
    <2>3. Answer(e, exit, x, TRUE, n)
      BY <2>1, <2>2 DEF Answer, answers
    <2>4. OthersKept(e)
      BY <2>1 DEF TypeOK, OthersKept
    <2>5. /\ fiber'[n] # "none" /\ entry'[n].current = entry[e].pending
          /\ ~entry'[n].stopping
          /\ entry'[n].waiter <=> (entry[e].waiter /\ ~answersWaiter(e))
      BY <2>1 DEF TypeOK, makeEntry
    <2>6. WaiterFollows(e, x, n)
      <3>1. \A c \in Callers : pc[c] = "awaitExplicit" /\ at[c] = e /\ ~x =>
              entry[e].waiter /\ ~entry[e].stopping /\ entry[e].pending = RunDemand
        BY <2>2 DEF Accounted, NoStrandedCaller, answersWaiter, RunDemand
      <3>2. QED
        BY <2>2, <2>5, <3>1 DEF WaiterFollows
    <2>7. x => answersWaiter(e)
      BY <2>2
    <2>8. closed' = closed
      BY <1>0
    <2>9. QED
      BY <2>3, <2>4, <2>6, <2>7, <2>8, CallersSettleEnd
  <1>6. QED  BY <1>1, <1>2, <1>3, <1>4, <1>5 DEF settle

LEMMA CallersNext == TypeOK /\ Ownership /\ Accounted /\ [Next]_vars => Accounted'
  <1> SUFFICES ASSUME TypeOK, Ownership, Accounted, [Next]_vars PROVE Accounted'
    OBVIOUS
  <1>1. CASE UNCHANGED vars
    BY <1>1
    DEF vars, laneVars, callerVars, Accounted, NoStrandedCaller, StopsAreJoined, RunMeansDrained
  <1>2. ASSUME NEW c \in Callers, CallRun(c) \/ Retry(c) PROVE Accounted'
    BY <1>2, CallersRun DEF CallRun, Retry
  <1>3. ASSUME NEW c \in Callers, CallAwaitIdle(c) \/ checkIdle(c) \/ Cancel(c) PROVE Accounted'
    BY <1>3, CallersWait
  <1>4. ASSUME NEW c \in Callers, NEW s \in InterruptSeqs \cup {NoSeq}, interrupt(c, s)
        PROVE  Accounted'
    BY <1>4, CallersInterrupt
  <1>5. ASSUME NEW s \in WakeSeqs \cup {NoSeq}, wake(s) PROVE Accounted'
    BY <1>5, CallersWake
  <1>6. ASSUME NEW e \in EntryIds, DrainStart(e) PROVE Accounted'
    BY <1>6
    DEF DrainStart, TypeOK, callerVars, Accounted, NoStrandedCaller, StopsAreJoined,
        RunMeansDrained
  <1>7. ASSUME NEW e \in EntryIds, NEW exit \in Exits, settle(e, exit) PROVE Accounted'
    BY <1>7, CallersSettle
  <1>8. CASE Close
    BY <1>8, CallersClose
  <1>9. QED  BY <1>1, <1>2, <1>3, <1>4, <1>5, <1>6, <1>7, <1>8 DEF Next

LEMMA CallersInvariant == Spec => []Accounted
  BY CallersInit, CallersNext, TypeCorrect, OwnershipInvariant, PTL DEF Spec

\* No caller of run, awaitIdle or interrupt ever waits for a deferred that no
\* fiber is left to complete, in any interleaving of any number of callers.
THEOREM NoStrandedCallerTheorem == Spec => []NoStrandedCaller
  <1>1. Accounted => NoStrandedCaller
    BY DEF Accounted
  <1>2. QED  BY <1>1, CallersInvariant, PTL

\* A successful run has been served by a successful explicit drain, or its chain
\* was stopped under it.
THEOREM RunMeansDrainedTheorem == Spec => []RunMeansDrained
  <1>1. Accounted => RunMeansDrained
    BY DEF Accounted
  <1>2. QED  BY <1>1, CallersInvariant, PTL

\* Callers wait for a stop only at an entry that is stopping, and that entry has
\* a fiber to end: neither a late interrupt nor a queued run waits for work.
THEOREM StopsAreJoinedTheorem == Spec => []StopsAreJoined
  <1>1. Accounted => StopsAreJoined
    BY DEF Accounted
  <1>2. QED  BY <1>1, CallersInvariant, PTL

-----------------------------------------------------------------------------
(* Wakes.  WakeKept is not inductive: a queued successor may be stopped      *)
(* before its drain starts, and its demand goes with it.  But then the       *)
(* demand is not newer than the boundary, and what is newer is pending.      *)

Owing(s) == s \in owed \ merged /\ s > interruptSeq
AsFollowUp(s) == entry[active].pending.tag = "wake" /\ entry[active].pending.seq >= s
AsSuccessor(s) ==
    fiber[active] = "queued" /\ ~entry[active].stopping /\ entry[active].current.seq >= s

Wakes == \A s : Owing(s) => active # None /\ (AsFollowUp(s) \/ AsSuccessor(s))

LEMMA WakesInit == Init => Wakes
  BY DEF Init, Wakes, Owing

\* Where a step owes nothing there is nothing to keep.
LEMMA NothingOwed == owed' \ merged' = {} => Wakes'
  BY DEF Wakes, Owing

\* A step that leaves the lane and the debts alone keeps the wakes.
LEMMA WakesStay ==
    ASSUME Wakes, UNCHANGED <<active, entry, fiber, interruptSeq, wakeVars>>
    PROVE  Wakes'
  BY DEF Wakes, Owing, AsFollowUp, AsSuccessor, wakeVars

LEMMA WakesRun ==
    ASSUME Wakes, NEW c \in Callers, run(c)
    PROVE  Wakes'
  <1>1. CASE runUpgrade(c) \/ runStart(c)
    BY <1>1, NothingOwed DEF runUpgrade, runStart
  <1>2. CASE runClosed(c) \/ runBehindStop(c) \/ runJoin(c)
    BY <1>2, WakesStay DEF runClosed, runBehindStop, runJoin, laneVars
  <1>3. QED  BY <1>1, <1>2 DEF run

\* A coalesced wake is at least as new as both of its parts.
LEMMA WakesWake ==
    ASSUME TypeOK, Wakes, NEW s \in WakeSeqs \cup {NoSeq}, wake(s)
    PROVE  Wakes'
  <1>1. CASE wakeStart(s)
    BY <1>1, NothingOwed DEF wakeStart
  <1>2. CASE wakeCoalesce(s) /\ entry'[active].pending.tag = "run"
    BY <1>2, NothingOwed DEF wakeCoalesce
  <1>3. CASE wakeCoalesce(s) /\ entry'[active].pending.tag # "run"
    <2> DEFINE p == entry[active].pending
    <2>1. /\ active \in EntryIds /\ active # None /\ entry[active] \in Entries
          /\ UNCHANGED <<active, fiber, interruptSeq, merged>> /\ owed' = owed \cup ({s} \ {NoSeq})
      BY <1>3, NoneAssumption DEF wakeCoalesce, wake, TypeOK
    <2>2. /\ entry'[active].pending = coalesce(p, WakeDemand(s))
          /\ entry'[active].stopping = entry[active].stopping
          /\ entry'[active].current = entry[active].current
      BY <1>3, <2>1 DEF wakeCoalesce, TypeOK, Entries
    <2>3. entry'[active].pending = WakeDemand(maxSeq(p.seq, s))
      BY <1>3, <2>2 DEF coalesce, RunDemand, WakeDemand
    <2>4. p.seq \in Nat /\ s \in Nat /\ owed \subseteq Nat
      <3>1. p \in Demands \cup {NoDemand} /\ s \in Seqs
        BY <2>1 DEF Entries, Seqs
      <3>2. QED
        BY <3>1, DemandSeq, MaxSeqType, SeqAssumption DEF TypeOK
    <2>5. ASSUME NEW t, Owing(t)' PROVE active' # None /\ (AsFollowUp(t)' \/ AsSuccessor(t)')
      <3>1. CASE t = s
        BY <2>1, <2>3, <2>4, <3>1 DEF AsFollowUp, WakeDemand, maxSeq
      <3>2. CASE t \in owed
        <4>1. Owing(t) /\ t \in Nat
          BY <2>1, <2>4, <2>5, <3>2 DEF Owing
        <4>2. CASE AsFollowUp(t)
          BY <2>1, <2>3, <2>4, <4>1, <4>2 DEF AsFollowUp, WakeDemand, maxSeq
        <4>3. CASE AsSuccessor(t)
          BY <2>1, <2>2, <4>3 DEF AsSuccessor
        <4>4. QED  BY <4>1, <4>2, <4>3 DEF Wakes
      <3>3. QED  BY <2>1, <2>5, <3>1, <3>2 DEF Owing
    <2>6. QED  BY <2>5 DEF Wakes
  <1>4. QED  BY <1>1, <1>2, <1>3 DEF wake

\* A stop keeps every wake that is newer than its boundary: the demand it stops is
\* not, and the follow-up it leaves is.
LEMMA WakesInterrupt ==
    ASSUME TypeOK, Wakes, NEW c \in Callers, NEW s \in InterruptSeqs \cup {NoSeq}, interrupt(c, s)
    PROVE  Wakes'
  <1>0. s \in Nat /\ interruptSeq \in Nat /\ owed \subseteq Nat
    BY SeqAssumption DEF TypeOK, Seqs, NoSeq
  <1>1. CASE interruptStale(c, s)
    BY <1>1, WakesStay DEF interruptStale, laneVars
  <1>2. CASE interruptPassed(c, s)
    <2>1. s > interruptSeq /\ interruptSeq' = s /\ UNCHANGED <<active, entry, fiber, owed, merged>>
      BY <1>0, <1>2 DEF interruptPassed, staleInterrupt, wakeVars
    <2>2. ASSUME NEW t, Owing(t)' PROVE Owing(t)
      BY <1>0, <2>1, <2>2 DEF Owing
    <2>3. QED
      BY <2>1, <2>2 DEF Wakes, AsFollowUp, AsSuccessor
  <1>3. CASE interruptStop(c, s) /\ s = NoSeq
    BY <1>3, NothingOwed DEF interruptStop
  <1>4. CASE interruptStop(c, s) /\ s # NoSeq
    <2> DEFINE p == entry[active].pending
    <2>1. /\ s > interruptSeq /\ interruptSeq' = s /\ UNCHANGED <<active, fiber, owed, merged>>
          /\ active # None /\ active \in EntryIds /\ entry[active] \in Entries
      BY <1>0, <1>4 DEF interruptStop, staleInterrupt, TypeOK
    <2>2. entry'[active].pending = suppressPendingAtOrBefore(p, s)
      BY <1>4, <2>1 DEF interruptStop, TypeOK, Entries
    <2>3. entry[active].current.seq \in Nat /\ p.seq \in Nat
      <3>1. entry[active].current \in Demands /\ p \in Demands \cup {NoDemand}
        BY <2>1 DEF Entries
      <3>2. QED  BY <3>1, DemandSeq, MaxSeqType
    <2>4. entry[active].current.seq <= s
      <3>1. entry[active].current.tag = "run" => entry[active].current.seq = 0
        BY <2>1, SeqAssumption DEF Entries, Demands, RunDemand, WakeDemand, NoSeq
      <3>2. entry[active].current.tag \in {"run", "wake"}
        BY <2>1 DEF Entries, Demands, RunDemand, WakeDemand
      <3>3. QED  BY <1>0, <1>4, <2>3, <3>1, <3>2 DEF interruptStop
    <2>5. ASSUME NEW t, Owing(t)' PROVE AsFollowUp(t)'
      <3>1. t \in Nat /\ t > s /\ Owing(t)
        BY <1>0, <2>1, <2>5 DEF Owing
      <3>2. AsFollowUp(t)
        BY <1>0, <2>3, <2>4, <3>1 DEF Wakes, AsSuccessor
      <3>3. QED
        BY <1>0, <1>4, <2>1, <2>2, <2>3, <3>1, <3>2 DEF AsFollowUp, suppressPendingAtOrBefore
    <2>6. QED  BY <2>1, <2>5 DEF Wakes
  <1>5. QED  BY <1>1, <1>2, <1>3, <1>4 DEF interrupt

\* The entry that settles has no wakes but its follow-up, which starts next.
LEMMA WakesSettle ==
    ASSUME TypeOK, Ownership, Wakes, NEW e \in EntryIds, NEW exit \in Exits, settle(e, exit)
    PROVE  Wakes'
  <1>0. fiber[e] # "none" /\ UNCHANGED <<interruptSeq, closed, owed, merged>>
    BY DEF settle, wakeVars
  <1>1. CASE closed
    <2>1. active = None
      BY <1>1 DEF Ownership, OwnerPublished
    <2>2. QED  BY <1>0, <2>1 DEF Wakes, Owing
  <1>2. CASE ~closed
    <2>1. active = e
      BY <1>0, <1>2 DEF Ownership, OwnerPublished
    <2>3. ASSUME NEW t, Owing(t)' PROVE Owing(t) /\ AsFollowUp(t)
      <3>1. Owing(t)
        BY <1>0, <2>3 DEF Owing
      <3>2. ~AsSuccessor(t)
        BY <1>2, <2>1 DEF settle, AsSuccessor
      <3>3. QED  BY <3>1, <3>2 DEF Wakes
    <2>4. CASE settleContinue(e, exit)
      <3>1. /\ active' = e /\ fiber'[e] = "queued" /\ ~entry'[e].stopping
            /\ entry'[e].current = entry[e].pending
        BY <2>4 DEF settleContinue, TypeOK, Entries
      <3>2. QED
        BY <2>1, <2>3, <3>1, NoneAssumption DEF Wakes, AsFollowUp, AsSuccessor
    <2>5. CASE settleIdle(e, exit)
      BY <2>1, <2>3, <2>5 DEF settleIdle, Wakes, AsFollowUp, NoDemand
    <2>6. CASE settleSuccessor(e, exit)
      <3>1. PICK n \in EntryIds :
              /\ active' = n /\ fiber'[n] = "queued" /\ ~entry'[n].stopping
              /\ entry'[n].current = entry[e].pending
        BY <2>6 DEF settleSuccessor, makeEntry, TypeOK
      <3>2. QED
        BY <2>1, <2>3, <3>1, NoneAssumption DEF Wakes, AsFollowUp, AsSuccessor
    <2>7. QED
      BY <1>2, <2>1, <2>4, <2>5, <2>6 DEF settle, settleClosed, settleForeign
  <1>3. QED  BY <1>1, <1>2

LEMMA WakesNext == TypeOK /\ Ownership /\ Wakes /\ [Next]_vars => Wakes'
  <1> SUFFICES ASSUME TypeOK, Ownership, Wakes, [Next]_vars PROVE Wakes'
    OBVIOUS
  <1>1. CASE UNCHANGED vars
    BY <1>1, WakesStay DEF vars, laneVars
  <1>2. ASSUME NEW c \in Callers, CallRun(c) \/ Retry(c) PROVE Wakes'
    BY <1>2, WakesRun DEF CallRun, Retry
  <1>3. ASSUME NEW c \in Callers, CallAwaitIdle(c) \/ checkIdle(c) \/ Cancel(c) PROVE Wakes'
    BY <1>3, WakesStay DEF CallAwaitIdle, checkIdle, Cancel, laneVars
  <1>4. ASSUME NEW c \in Callers, NEW s \in InterruptSeqs \cup {NoSeq}, interrupt(c, s)
        PROVE  Wakes'
    BY <1>4, WakesInterrupt
  <1>5. ASSUME NEW s \in WakeSeqs \cup {NoSeq}, wake(s) PROVE Wakes'
    BY <1>5, WakesWake
  <1>6. ASSUME NEW e \in EntryIds, DrainStart(e) PROVE Wakes'
    BY <1>6, NothingOwed DEF DrainStart
  <1>7. ASSUME NEW e \in EntryIds, NEW exit \in Exits, settle(e, exit) PROVE Wakes'
    BY <1>7, WakesSettle
  <1>8. CASE Close
    BY <1>8, NothingOwed DEF Close
  <1>9. QED  BY <1>1, <1>2, <1>3, <1>4, <1>5, <1>6, <1>7, <1>8 DEF Next

\* However wakes, runs, failures and stops interleave, an accepted wake from after
\* the newest boundary stays with the lane until a drain starts, unless it was
\* folded into an explicit run.
THEOREM WakeKeptTheorem == Spec => []WakeKept
  <1>1. Wakes => WakeKept
    BY DEF Wakes, WakeKept, Owing, AsFollowUp, AsSuccessor
  <1>2. QED  BY <1>1, WakesInit, WakesNext, TypeCorrect, OwnershipInvariant, PTL DEF Spec

-----------------------------------------------------------------------------
(* Explicit waiters and stops.  A waiter that a stop has reached is at an    *)
(* entry that is stopping, and so gets the exit of that entry's drain.       *)

CutIsStopped == \A c \in Callers : pc[c] = "awaitExplicit" /\ cut[c] => entry[at[c]].stopping

\* A waiter that settle does not answer was not reached by a stop; if it moves to
\* another entry, that one is its run.
LEMMA WaiterHandedOver ==
    ASSUME TypeOK, Ownership, Accounted, CutIsStopped,
           NEW e \in EntryIds, NEW exit \in Exits, settle(e, exit),
           NEW c \in Callers, pc[c] = "awaitExplicit", pc'[c] = "awaitExplicit"
    PROVE  ~cut[c] /\ ~cut'[c] /\ entry'[at'[c]].current = RunDemand
  <1>0. fiber[e] # "none" /\ ~closed /\ at[c] \in EntryIds /\ fiber[at[c]] # "none"
    BY DEF settle, Accounted, NoStrandedCaller, Waiting
  <1>1. active = e /\ at[c] = e
    BY <1>0 DEF Ownership, OwnerPublished
  <1>2. entry[e].waiter /\ (entry[e].stopping \/ RunDemand \in {entry[e].current, entry[e].pending})
    BY <1>1 DEF Accounted, NoStrandedCaller
  <1>3. ~answersWaiter(e) /\ cut'[c] = cut[c]
    <2>1. PICK x, d, n : (x => answersWaiter(e)) /\ (answersWaiter(e) => x) /\ Answer(e, exit, x, d, n)
      BY <1>0, <1>1 DEF settle, settleClosed, settleForeign, settleContinue, settleIdle, settleSuccessor
    <2>2. c \notin answers(e, x, d)
      BY <2>1 DEF Answer, Resumed
    <2>3. QED  BY <1>1, <2>1, <2>2 DEF Answer, answers
  <1>4. ~entry[e].stopping /\ entry[e].pending = RunDemand
    BY <1>2, <1>3 DEF answersWaiter, RunDemand
  <1>5. ~cut[c]
    BY <1>1, <1>4 DEF CutIsStopped
  <1>6. entry'[at'[c]].current = RunDemand
    <2>1. CASE settleContinue(e, exit)
      BY <1>1, <1>4, <2>1 DEF settleContinue, Answer, TypeOK, Entries
    <2>2. CASE settleSuccessor(e, exit)
      <3>1. PICK n \in EntryIds :
               /\ n # e
               /\ Answer(e, exit, answersWaiter(e), TRUE, n)
               /\ entry' = [entry EXCEPT
                     ![e] = NoEntry,
                     ![n] = makeEntry(entry[e].pending, entry[e].waiter /\ ~answersWaiter(e))]
        BY <2>2, Zenon DEF settleSuccessor
      <3>2. entry'[n].current = entry[e].pending
        BY <3>1 DEF makeEntry, TypeOK
      <3>3. at'[c] = n
        BY <1>1, <1>3, <3>1 DEF Answer, answers
      <3>4. QED  BY <1>4, <3>2, <3>3
    <2>3. ~settleClosed(e, exit) /\ ~settleForeign(e, exit)
      BY <1>0, <1>1 DEF settleClosed, settleForeign
    <2>4. entry[e].pending # NoDemand
      BY <1>4 DEF NoDemand, RunDemand
    <2>5. ~settleIdle(e, exit)
      BY <2>4, Zenon DEF settleIdle
    <2>6. QED
      BY <2>1, <2>2, <2>3, <2>5 DEF settle
  <1>7. QED  BY <1>3, <1>5, <1>6

LEMMA CutInit == Init => CutIsStopped
  BY DEF Init, CutIsStopped

\* The steps of a caller, and of the lane's other users, stop nobody or mark all.
LEMMA CutRun ==
    ASSUME TypeOK, Ownership, Accounted, CutIsStopped, NEW c \in Callers, run(c)
    PROVE  CutIsStopped'
  <1>1. CASE runClosed(c) \/ runBehindStop(c) \/ runJoin(c)
    BY <1>1 DEF runClosed, runBehindStop, runJoin, Park, laneVars, TypeOK, CutIsStopped
  <1>2. CASE runUpgrade(c)
    <2>1. active \in EntryIds /\ \A e \in EntryIds : entry'[e].stopping = entry[e].stopping
      BY <1>2 DEF runUpgrade, TypeOK, Entries
    <2>2. Park(c, "awaitExplicit", active, "none")
      BY <1>2 DEF runUpgrade
    <2>3. QED
      BY <2>1, <2>2 DEF Park, TypeOK, CutIsStopped, Accounted, NoStrandedCaller, Waiting
  <1>3. CASE runStart(c)
    <2>1. PICK e \in EntryIds : /\ Fresh(e) /\ Publish(e, RunDemand, FALSE, "running")
                                /\ Park(c, "awaitDone", e, "none")
      BY <1>3 DEF runStart
    <2>2. \A d \in Callers : at[d] # e
      BY <2>1 DEF Fresh
    <2>3. QED
      BY <2>1, <2>2 DEF Publish, Park, TypeOK, CutIsStopped, Accounted, NoStrandedCaller, Waiting
  <1>4. QED  BY <1>1, <1>2, <1>3 DEF run

LEMMA CutWake ==
    ASSUME TypeOK, Ownership, Accounted, CutIsStopped, NEW s \in WakeSeqs \cup {NoSeq}, wake(s)
    PROVE  CutIsStopped'
  <1>0. UNCHANGED callerVars
    BY DEF wake
  <1>1. CASE wakeStart(s)
    <2>1. PICK e \in EntryIds : Fresh(e) /\ Publish(e, WakeDemand(s), FALSE, "running")
      BY <1>1 DEF wakeStart
    <2>2. \A d \in Callers : at[d] # e
      BY <2>1 DEF Fresh
    <2>3. QED
      BY <1>0, <2>1, <2>2
      DEF Publish, callerVars, TypeOK, CutIsStopped, Accounted, NoStrandedCaller, Waiting
  <1>2. CASE wakeCoalesce(s)
    <2>1. active \in EntryIds /\ \A e \in EntryIds : entry'[e].stopping = entry[e].stopping
      BY <1>2 DEF wakeCoalesce, TypeOK, Entries
    <2>2. QED
      BY <1>0, <2>1 DEF callerVars, TypeOK, CutIsStopped, Accounted, NoStrandedCaller, Waiting
  <1>3. QED  BY <1>1, <1>2 DEF wake

LEMMA CutInterrupt ==
    ASSUME TypeOK, Ownership, Accounted, CutIsStopped,
           NEW c \in Callers, NEW s \in InterruptSeqs \cup {NoSeq}, interrupt(c, s)
    PROVE  CutIsStopped'
  <1>1. CASE interruptStale(c, s)
    BY <1>1 DEF interruptStale, Park, laneVars, TypeOK, CutIsStopped
  <1>2. CASE interruptPassed(c, s)
    BY <1>2 DEF interruptPassed, callerVars, CutIsStopped
  <1>3. CASE interruptStop(c, s)
    <2>1. active \in EntryIds
      BY <1>3 DEF interruptStop, TypeOK
    <2>2. entry'[active].stopping /\ \A e \in EntryIds : entry[e].stopping => entry'[e].stopping
      BY <1>3, <2>1 DEF interruptStop, TypeOK, Entries
    <2>3. ASSUME NEW d \in Callers, pc'[d] = "awaitExplicit", cut'[d]
          PROVE  entry'[at'[d]].stopping
      <3>1. /\ d # c /\ pc[d] = "awaitExplicit" /\ at'[d] = at[d]
            /\ cut[d] \/ at[d] = active
        BY <1>3, <2>3 DEF interruptStop, TypeOK
      <3>2. at[d] \in EntryIds
        BY <3>1 DEF Accounted, NoStrandedCaller, Waiting
      <3>3. QED  BY <2>2, <3>1, <3>2 DEF CutIsStopped
    <2>4. QED  BY <2>3 DEF CutIsStopped
  <1>4. QED  BY <1>1, <1>2, <1>3 DEF interrupt

LEMMA CutSettle ==
    ASSUME TypeOK, Ownership, Accounted, CutIsStopped,
           NEW e \in EntryIds, NEW exit \in Exits, settle(e, exit)
    PROVE  CutIsStopped'
  <1>1. ASSUME NEW c \in Callers, pc'[c] = "awaitExplicit" PROVE pc[c] = "awaitExplicit"
    <2>1. PICK x, d, n : Answer(e, exit, x, d, n)
      BY DEF settle, settleClosed, settleForeign, settleContinue, settleIdle, settleSuccessor
    <2>2. QED
      BY <1>1, <2>1 DEF Answer, Resumed
  <1>2. QED  BY <1>1, WaiterHandedOver DEF CutIsStopped

LEMMA CutNext ==
    TypeOK /\ Ownership /\ Accounted /\ CutIsStopped /\ [Next]_vars => CutIsStopped'
  <1> SUFFICES ASSUME TypeOK, Ownership, Accounted, CutIsStopped, [Next]_vars
               PROVE  CutIsStopped'
    OBVIOUS
  <1>1. CASE UNCHANGED vars
    BY <1>1 DEF vars, laneVars, callerVars, CutIsStopped
  <1>2. ASSUME NEW c \in Callers, CallRun(c) \/ Retry(c) PROVE CutIsStopped'
    BY <1>2, CutRun DEF CallRun, Retry
  <1>3. ASSUME NEW c \in Callers, CallAwaitIdle(c) \/ Cancel(c) PROVE CutIsStopped'
    BY <1>3 DEF CallAwaitIdle, Cancel, Park, laneVars, TypeOK, CutIsStopped
  <1>4. ASSUME NEW c \in Callers, checkIdle(c) PROVE CutIsStopped'
    BY <1>4 DEF checkIdle, laneVars, TypeOK, CutIsStopped
  <1>5. ASSUME NEW c \in Callers, NEW s \in InterruptSeqs \cup {NoSeq}, interrupt(c, s)
        PROVE  CutIsStopped'
    BY <1>5, CutInterrupt
  <1>6. ASSUME NEW s \in WakeSeqs \cup {NoSeq}, wake(s) PROVE CutIsStopped'
    BY <1>6, CutWake
  <1>7. ASSUME NEW e \in EntryIds, DrainStart(e) PROVE CutIsStopped'
    BY <1>7 DEF DrainStart, callerVars, CutIsStopped
  <1>8. ASSUME NEW e \in EntryIds, NEW exit \in Exits, settle(e, exit) PROVE CutIsStopped'
    BY <1>8, CutSettle
  <1>9. CASE Close
    BY <1>9 DEF Close, TypeOK, CutIsStopped
  <1>10. QED  BY <1>1, <1>2, <1>3, <1>4, <1>5, <1>6, <1>7, <1>8, <1>9 DEF Next

\* Only settle moves a waiter to another entry.
LEMMA MovedWaiter ==
    ASSUME TypeOK, Ownership, Accounted, CutIsStopped, [Next]_vars,
           NEW c \in Callers, pc[c] = "awaitExplicit", pc'[c] = "awaitExplicit", at'[c] # at[c]
    PROVE  ~cut[c] /\ entry'[at'[c]].current = RunDemand
  <1>1. CASE UNCHANGED vars
    BY <1>1 DEF vars, callerVars
  <1>2. ASSUME NEW d \in Callers, CallRun(d) \/ Retry(d) PROVE at'[c] = at[c]
    <2>1. c # d
      BY <1>2 DEF CallRun, Retry
    <2>2. PICK p, a, r : Park(d, p, a, r)
      BY <1>2 DEF CallRun, Retry, run, runClosed, runBehindStop, runUpgrade, runJoin, runStart
    <2>3. QED  BY <2>1, <2>2 DEF Park, TypeOK
  <1>3. ASSUME NEW d \in Callers, CallAwaitIdle(d) \/ checkIdle(d) \/ Cancel(d)
        PROVE  at'[c] = at[c]
    BY <1>3 DEF CallAwaitIdle, checkIdle, Cancel, Park, TypeOK
  <1>4. ASSUME NEW d \in Callers, NEW s \in InterruptSeqs \cup {NoSeq}, interrupt(d, s)
        PROVE  at'[c] = at[c]
    BY <1>4 DEF interrupt, interruptStale, interruptPassed, interruptStop, Park, callerVars, TypeOK
  <1>5. ASSUME NEW s \in WakeSeqs \cup {NoSeq}, wake(s) PROVE at'[c] = at[c]
    BY <1>5 DEF wake, callerVars
  <1>6. ASSUME NEW e \in EntryIds, DrainStart(e) PROVE at'[c] = at[c]
    BY <1>6 DEF DrainStart, callerVars
  <1>7. ASSUME NEW e \in EntryIds, NEW exit \in Exits, settle(e, exit)
        PROVE  ~cut[c] /\ entry'[at'[c]].current = RunDemand
    BY <1>7, WaiterHandedOver
  <1>8. CASE Close
    BY <1>8 DEF Close, TypeOK
  <1>9. QED  BY <1>1, <1>2, <1>3, <1>4, <1>5, <1>6, <1>7, <1>8 DEF Next

\* Whatever else happens to a chain, a run that was waiting when a stop reached it
\* is answered by the stopped drain; one that moves to the chain that follows was
\* not reached by a stop, and that chain drains for it.
THEOREM NotCarriedTheorem == Spec => NotCarriedAcrossStop
  <1>1. TypeOK /\ Ownership /\ Accounted /\ CutIsStopped /\ [Next]_vars =>
          [\A c \in Callers : pc[c] = "awaitExplicit" /\ pc'[c] = "awaitExplicit" /\ at'[c] # at[c]
             => ~cut[c] /\ entry'[at'[c]].current = RunDemand]_vars
    BY MovedWaiter
  <1>2. QED
    BY <1>1, CutInit, CutNext, TypeCorrect, OwnershipInvariant, CallersInvariant, PTL
    DEF Spec, NotCarriedAcrossStop
=============================================================================
