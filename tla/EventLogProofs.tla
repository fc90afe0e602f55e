--------------------------- MODULE EventLogProofs ---------------------------
(***************************************************************************)
(* What holds of the log for any aggregates, events, batches, fibers and   *)
(* tails.                                                                  *)
(***************************************************************************)
EXTENDS EventLog, SequenceTheorems, TLAPS

-----------------------------------------------------------------------------
(* Type correctness.                                                        *)

SequenceType == [seq : Positions, ownerID : Owners \cup {NoOwner}]
JobType == [phase : {"idle", "commit", "wake", "notify"}, batch : Seq(Inputs), done : Nat,
            ownerID : Owners \cup {NoOwner}, strictOwner : BOOLEAN, publish : BOOLEAN,
            life : 0 .. MaxLives]
TailType == [phase : {"closed", "historical", "deliver", "tail", "read"},
             aggregateID : Aggregates, cursor : Positions, start : Positions,
             fetched : SUBSET Rows, dirty : BOOLEAN]
DeliveredType == [rows : SUBSET Rows, repeated : BOOLEAN, outlived : BOOLEAN]
FenceType == [from : Nat, ownerID : Owners \cup {NoOwner}, former : Owners \cup {NoOwner}]

TablesOK ==
    /\ sequence \in [Aggregates -> SequenceType]
    /\ events \subseteq Rows
JobsOK ==
    /\ job \in [Fibers -> JobType]
    /\ \A f \in Fibers : job[f].phase # "idle" => job[f].done < Len(job[f].batch)
TailsOK ==
    /\ reader \in [Readers -> TailType]
    /\ delivered \in [Readers -> DeliveredType]
HistoryOK ==
    /\ life \in [Aggregates -> 0 .. MaxLives]
    /\ author \in [Aggregates -> Seq(Owners \cup {NoOwner, Local})]
    /\ fence \in [Aggregates -> FenceType]

LEMMA TypeParts == TypeOK <=> TablesOK /\ JobsOK /\ TailsOK /\ HistoryOK
  BY DEF TypeOK, TablesOK, JobsOK, TailsOK, HistoryOK, SequenceType, JobType, TailType, DeliveredType, FenceType

LEMMA NoJobType == NoJob \in JobType /\ NoJob.phase = "idle"
  <1>1. <<>> \in Seq(Inputs)
    OBVIOUS
  <1> QED  BY <1>1, BoundAssumption DEF NoJob, JobType

LEMMA ClosedType == Closed \in TailType /\ Closed.phase = "closed" /\ NothingDelivered \in DeliveredType
  <1>1. (CHOOSE a \in Aggregates : TRUE) \in Aggregates
    BY AggregateAssumption
  <1> QED  BY <1>1, BoundAssumption DEF Closed, TailType, NothingDelivered, DeliveredType, Positions, Unassigned

\* A fiber that is not idle is at an event of its batch.
LEMMA EventType ==
    ASSUME JobsOK, NEW f \in Fibers, job[f].phase # "idle"
    PROVE  Event(f) \in Inputs
  <1>1. job[f].batch \in Seq(Inputs) /\ job[f].done \in Nat /\ job[f].done < Len(job[f].batch)
    BY DEF JobsOK, JobType
  <1>2. job[f].done + 1 \in 1 .. Len(job[f].batch)
    BY <1>1
  <1> QED  BY <1>1, <1>2 DEF Event

\* Going on and returning keep the type of a job.
LEMMA AdvanceType ==
    ASSUME JobsOK, NEW f \in Fibers, job[f].phase # "idle"
    PROVE  /\ Advance(f) \in JobType
           /\ Advance(f).phase # "idle" => Advance(f).done < Len(Advance(f).batch)
  <1>1. job[f] \in JobType /\ job[f].done < Len(job[f].batch) /\ job[f].done \in Nat
        /\ Len(job[f].batch) \in Nat
    BY DEF JobsOK, JobType
  <1>2. CASE job[f].done + 1 = Len(job[f].batch)
    BY <1>2, NoJobType DEF Advance
  <1>3. CASE job[f].done + 1 # Len(job[f].batch)
    <2>1. Advance(f) = [job[f] EXCEPT !.done = job[f].done + 1, !.phase = "commit"]
      BY <1>3 DEF Advance
    <2>2. job[f].done + 1 \in Nat /\ job[f].done + 1 < Len(job[f].batch)
      BY <1>1, <1>3
    <2>3. Advance(f) \in JobType
      BY <1>1, <2>1, <2>2 DEF JobType
    <2>4. Advance(f).done = job[f].done + 1 /\ Advance(f).batch = job[f].batch
      BY <1>1, <2>1 DEF JobType
    <2> QED  BY <2>2, <2>3, <2>4
  <1> QED  BY <1>2, <1>3

LEMMA AdvanceTyped ==
    ASSUME JobsOK, NEW f \in Fibers, job[f].phase # "idle", job' = [job EXCEPT ![f] = Advance(f)]
    PROVE  JobsOK'
  <1>1. job' \in [Fibers -> JobType]
    BY AdvanceType DEF JobsOK
  <1>2. ASSUME NEW g \in Fibers, job'[g].phase # "idle"
        PROVE  job'[g].done < Len(job'[g].batch)
    BY <1>2, AdvanceType DEF JobsOK
  <1> QED  BY <1>1, <1>2 DEF JobsOK

LEMMA DieTyped ==
    ASSUME JobsOK, NEW f \in Fibers, Die(f)
    PROVE  JobsOK'
  BY NoJobType DEF JobsOK, Die

LEMMA StartTyped ==
    ASSUME TypeOK, NEW f \in Fibers, NEW batch, NEW o, NEW strict \in BOOLEAN, NEW public \in BOOLEAN,
           batch \in Seq(Inputs), batch # <<>>, o \in Owners \cup {NoOwner},
           Start(f, batch, o, strict, public)
    PROVE  JobsOK'
  <1>1. batch[1].aggregateID \in Aggregates /\ 0 < Len(batch)
    <2>1. Len(batch) \in Nat /\ Len(batch) # 0
      BY EmptySeq
    <2>2. batch[1] \in Inputs
      BY <2>1, ElementOfSeq
    <2> QED  BY <2>1, <2>2 DEF Inputs
  <1>2. life[batch[1].aggregateID] \in 0 .. MaxLives
    BY <1>1, TypeParts DEF HistoryOK
  <1>3. DEFINE new == [phase |-> "commit", batch |-> batch, done |-> 0, ownerID |-> o,
                       strictOwner |-> strict, publish |-> public,
                       life |-> life[batch[1].aggregateID]]
  <1>4. new \in JobType /\ new.done < Len(new.batch)
    BY <1>1, <1>2 DEF JobType
  <1>5. job' = [job EXCEPT ![f] = new]
    BY DEF Start
  <1> QED  BY <1>4, <1>5, TypeParts DEF JobsOK

\* What other servers send, and what is published here, can be committed.
LEMMA WireTyped == \A batch \in Wire : batch \in Seq(Inputs) /\ batch # <<>>
  <1> TAKE batch \in Wire
  <1>1. batch \in Seq(Serialized) /\ batch # <<>>
    BY WireAssumption
  <1>2. Serialized \subseteq Inputs
    BY DEF Serialized, Inputs
  <1>3. batch \in Seq(Inputs)
    BY <1>1, <1>2, SeqMonotonic
  <1> QED  BY <1>1, <1>3

LEMMA BeginTyped ==
    ASSUME TypeOK, NEW f \in Fibers, publish(f) \/ replayWorkspace(f) \/ replayAll(f)
    PROVE  JobsOK'
  <1>1. CASE publish(f)
    <2>1. PICK i \in EventIDs, a \in Aggregates, c \in Contents :
              Start(f, <<[id |-> i, aggregateID |-> a, seq |-> Unassigned, content |-> c]>>,
                    NoOwner, FALSE, TRUE)
      BY <1>1 DEF publish
    <2>2. [id |-> i, aggregateID |-> a, seq |-> Unassigned, content |-> c] \in Inputs
      BY DEF Inputs
    <2> DEFINE batch == <<[id |-> i, aggregateID |-> a, seq |-> Unassigned, content |-> c]>>
    <2>3. batch \in Seq(Inputs) /\ batch # <<>>
      BY <2>2
    <2>4. Start(f, batch, NoOwner, FALSE, TRUE)
      BY <2>1
    <2> HIDE DEF batch
    <2> QED  BY <2>3, <2>4, StartTyped
  <1>2. CASE replayWorkspace(f)
    BY <1>2, WireTyped, StartTyped DEF replayWorkspace
  <1>3. CASE replayAll(f)
    BY <1>3, WireTyped, StartTyped DEF replayAll
  <1> QED  BY <1>1, <1>2, <1>3

LEMMA JobStepTyped ==
    ASSUME TypeOK, NEW f \in Fibers, Step(f)
    PROVE  JobsOK'
  <1> USE TypeParts
  <1>1. CASE commitRefused(f)
    BY <1>1, DieTyped DEF commitRefused
  <1>2. CASE commitRolledBack(f)
    BY <1>2, DieTyped DEF commitRolledBack
  <1>3. CASE replayExact(f)
    BY <1>3, AdvanceTyped DEF replayExact
  <1>4. CASE replayForeign(f)
    BY <1>4, AdvanceTyped DEF replayForeign
  <1>5. CASE append(f)
    BY <1>5 DEF append, JobsOK, JobType
  <1>6. CASE wakeTails(f)
    <2>1. job[f].phase # "idle"
      BY <1>6 DEF wakeTails
    <2>2. CASE job[f].publish
      <3>1. job' = [job EXCEPT ![f] = [job[f] EXCEPT !.phase = "notify"]]
        BY <1>6, <2>2 DEF wakeTails
      <3> QED  BY <2>1, <3>1 DEF JobsOK, JobType
    <2>3. CASE ~job[f].publish
      <3>1. job' = [job EXCEPT ![f] = Advance(f)]
        BY <1>6, <2>3 DEF wakeTails
      <3> QED  BY <2>1, <3>1, AdvanceTyped
    <2> QED  BY <2>2, <2>3
  <1>7. CASE notify(f)
    BY <1>7, AdvanceTyped DEF notify
  <1>8. CASE Interrupt(f)
    BY <1>8, DieTyped DEF Interrupt
  <1> QED  BY <1>1, <1>2, <1>3, <1>4, <1>5, <1>6, <1>7, <1>8 DEF Step, commitSyncEvent

-----------------------------------------------------------------------------
(* The tables.                                                              *)

\* What a step does to the tables and their history.
TableStep ==
    \/ UNCHANGED <<tables, history>>
    \/ \E f \in Fibers : append(f) \/ replayExact(f)
    \/ \E a \in Aggregates : remove(a) \/ \E o \in Owners : claim(a, o)

LEMMA StepOfTables ==
    ASSUME [Next]_vars
    PROVE  TableStep
  BY DEF Next, vars, TableStep, Step, Streaming, commitSyncEvent, publish, replayWorkspace, replayAll, Start,
         commitRefused, commitRolledBack, replayForeign, wakeTails, notify, Interrupt,
         subscribeSynchronized, read, deliver, takeSignal, closeTail, Crash

\* The row a transaction appends is the next one of its aggregate, under a new id.
LEMMA Appended ==
    ASSUME TypeOK, NEW f \in Fibers, append(f)
    PROVE  /\ Event(f) \in Inputs
           /\ RowFor(f) \in Rows
           /\ RowFor(f).aggregateID = Event(f).aggregateID
           /\ RowFor(f).id = Event(f).id
           /\ RowFor(f).seq = sequence[Event(f).aggregateID].seq + 1
           /\ assigned(f) = sequence[Event(f).aggregateID].seq + 1
           /\ assigned(f) \in Positions
           /\ \A row \in events : row.id # Event(f).id
  <1>1. job[f].phase = "commit" /\ Fresh(f) /\ ~misplaced(f) /\ ~reused(f) /\ assigned(f) <= MaxSeq
    BY DEF append
  <1>2. Event(f) \in Inputs
    BY <1>1, EventType, TypeParts
  <1>3. assigned(f) = sequence[Event(f).aggregateID].seq + 1
    BY <1>1 DEF misplaced, latest
  <1>4. sequence[Event(f).aggregateID].seq \in Positions
    BY <1>2 DEF TypeOK, Inputs
  <1>5. assigned(f) \in Nat /\ assigned(f) \in Positions
    BY <1>1, <1>3, <1>4, BoundAssumption DEF Positions, Unassigned
  <1>6. RowFor(f) = [Event(f) EXCEPT !.seq = assigned(f)]
    BY DEF RowFor
  <1>7. /\ RowFor(f) \in Rows /\ RowFor(f).aggregateID = Event(f).aggregateID
        /\ RowFor(f).id = Event(f).id /\ RowFor(f).seq = assigned(f)
    BY <1>2, <1>5, <1>6 DEF Inputs, Rows
  <1>8. \A row \in events : row.id # Event(f).id
    BY <1>1 DEF reused
  <1> QED  BY <1>2, <1>3, <1>5, <1>7, <1>8

LEMMA AdoptType ==
    ASSUME TypeOK, NEW f \in Fibers, NEW n \in Positions, Event(f) \in Inputs
    PROVE  adopt(f, n) \in SequenceType
  <1>1. job[f].ownerID \in Owners \cup {NoOwner}
    BY DEF TypeOK
  <1>2. owner(f) \in Owners \cup {NoOwner}
    BY DEF TypeOK, Inputs, owner
  <1> QED  BY <1>1, <1>2 DEF adopt, SequenceType

LEMMA FenceTyped ==
    ASSUME TypeOK, NEW a \in Aggregates, NEW o \in Owners \cup {NoOwner}, Own(a, o)
    PROVE  fence' \in [Aggregates -> FenceType]
  <1>1. Len(author[a]) \in Nat
    BY DEF TypeOK
  <1>2. sequence[a].ownerID \in Owners \cup {NoOwner}
    BY DEF TypeOK
  <1>3. [from |-> Len(author[a]), ownerID |-> o, former |-> sequence[a].ownerID] \in FenceType
    BY <1>1, <1>2 DEF FenceType
  <1> QED  BY <1>3, TypeParts DEF Own, HistoryOK

LEMMA TablesTyped ==
    ASSUME TypeOK, TableStep
    PROVE  TablesOK' /\ HistoryOK'
  <1> USE TypeParts
  <1>1. CASE UNCHANGED <<tables, history>>
    BY <1>1 DEF tables, history, TablesOK, HistoryOK
  <1>2. ASSUME NEW f \in Fibers, append(f)
        PROVE  TablesOK' /\ HistoryOK'
    <2> DEFINE a == Event(f).aggregateID
    <2>1. a \in Aggregates
      BY <1>2, Appended DEF Inputs
    <2>2. adopt(f, assigned(f)) \in SequenceType
      BY <1>2, Appended, AdoptType
    <2>3. TablesOK'
      BY <1>2, <2>1, <2>2, Appended DEF append, TablesOK
    <2>4. (IF Replayed(f) THEN job[f].ownerID ELSE Local) \in Owners \cup {NoOwner, Local}
      BY DEF TypeOK
    <2>5. author' \in [Aggregates -> Seq(Owners \cup {NoOwner, Local})]
      <3>1. author[a] \in Seq(Owners \cup {NoOwner, Local})
        BY <2>1 DEF HistoryOK
      <3>2. Append(author[a], IF Replayed(f) THEN job[f].ownerID ELSE Local) \in Seq(Owners \cup {NoOwner, Local})
        BY <2>4, <3>1, AppendProperties
      <3> QED  BY <1>2, <2>1, <3>2 DEF append, HistoryOK
    <2>6. fence' \in [Aggregates -> FenceType]
      <3>1. sequence'[a].ownerID \in Owners \cup {NoOwner}
        BY <2>1, <2>3 DEF TablesOK, SequenceType
      <3>2. Own(a, sequence'[a].ownerID) \/ UNCHANGED fence
        BY <1>2 DEF append
      <3> QED  BY <2>1, <3>1, <3>2, FenceTyped DEF HistoryOK
    <2> QED  BY <1>2, <2>3, <2>5, <2>6 DEF append, HistoryOK
  <1>3. ASSUME NEW f \in Fibers, replayExact(f)
        PROVE  TablesOK' /\ HistoryOK'
    <2> DEFINE a == Event(f).aggregateID
    <2>1. Event(f) \in Inputs
      BY <1>3, EventType DEF replayExact
    <2>2. a \in Aggregates /\ latest(f) \in Positions
      BY <2>1 DEF Inputs, latest, TypeOK
    <2>3. adopt(f, latest(f)) \in SequenceType
      BY <2>1, <2>2, AdoptType
    <2>4. TablesOK'
      BY <1>3, <2>2, <2>3 DEF replayExact, TablesOK
    <2>5. job[f].ownerID \in Owners \cup {NoOwner}
      BY DEF TypeOK
    <2>6. fence' \in [Aggregates -> FenceType]
      <3>1. Own(a, job[f].ownerID) \/ UNCHANGED fence
        BY <1>3 DEF replayExact
      <3> QED  BY <2>2, <2>5, <3>1, FenceTyped DEF HistoryOK
    <2> QED  BY <1>3, <2>4, <2>6 DEF replayExact, HistoryOK
  <1>4. ASSUME NEW a \in Aggregates, remove(a)
        PROVE  TablesOK' /\ HistoryOK'
    <2>1. NoSequence \in SequenceType /\ NoFence \in FenceType
      BY BoundAssumption DEF NoSequence, SequenceType, Positions, Unassigned, NoFence, FenceType
    <2>2. TablesOK'
      BY <1>4, <2>1 DEF remove, TablesOK
    <2>3. life' \in [Aggregates -> 0 .. MaxLives]
      BY <1>4, BoundAssumption DEF remove, HistoryOK
    <2>4. author' \in [Aggregates -> Seq(Owners \cup {NoOwner, Local})]
      BY <1>4, EmptySeq DEF remove, HistoryOK
    <2> QED  BY <1>4, <2>1, <2>2, <2>3, <2>4 DEF remove, HistoryOK
  <1>5. ASSUME NEW a \in Aggregates, NEW o \in Owners, claim(a, o)
        PROVE  TablesOK' /\ HistoryOK'
    <2>1. TablesOK'
      BY <1>5 DEF claim, TablesOK, SequenceType
    <2>2. fence' \in [Aggregates -> FenceType]
      BY <1>5, FenceTyped, TypeParts DEF claim, HistoryOK
    <2> QED  BY <1>5, <2>1, <2>2 DEF claim, HistoryOK
  <1> QED  BY <1>1, <1>2, <1>3, <1>4, <1>5 DEF TableStep

-----------------------------------------------------------------------------
(* No gap, no position and no event id twice.                               *)

LEMMA ContiguousStep ==
    ASSUME TypeOK, LogContiguous, TableStep
    PROVE  LogContiguous'
  <1>1. CASE UNCHANGED <<tables, history>>
    BY <1>1 DEF tables, LogContiguous, RowsOf
  <1>2. ASSUME NEW f \in Fibers, append(f)
        PROVE  LogContiguous'
    <2>1. PICK a \in Aggregates, new \in Rows :
              /\ a = Event(f).aggregateID /\ new = RowFor(f)
              /\ new.aggregateID = a /\ new.seq = sequence[a].seq + 1
              /\ \A row \in events : row.id # new.id
      BY <1>2, Appended DEF Inputs
    <2>2. events' = events \cup {new}
      BY <1>2, <2>1 DEF append
    <2>3. /\ sequence'[a].seq = sequence[a].seq + 1
          /\ \A b \in Aggregates : b # a => sequence'[b] = sequence[b]
      BY <1>2, <2>1, Appended DEF append, adopt, TypeOK
    <2>4. ASSUME NEW b \in Aggregates
          PROVE  {row.seq : row \in RowsOf(b)'} = 0 .. sequence'[b].seq
      <3>1. CASE b # a
        <4>1. RowsOf(b)' = RowsOf(b)
          BY <2>1, <2>2, <3>1 DEF RowsOf
        <4> QED  BY <2>3, <3>1, <4>1 DEF LogContiguous
      <3>2. CASE b = a
        <4>1. RowsOf(b)' = RowsOf(a) \cup {new}
          BY <2>1, <2>2, <3>2 DEF RowsOf
        <4>2. {row.seq : row \in RowsOf(a)} = 0 .. sequence[a].seq
          BY <2>1 DEF LogContiguous
        <4>3. sequence[a].seq \in Int /\ sequence[a].seq >= -1
          BY <2>1 DEF TypeOK, Positions, Unassigned
        <4>4. {row.seq : row \in RowsOf(a) \cup {new}} = {row.seq : row \in RowsOf(a)} \cup {new.seq}
          OBVIOUS
        <4>5. 0 .. (sequence[a].seq + 1) = (0 .. sequence[a].seq) \cup {sequence[a].seq + 1}
          BY <4>3
        <4> QED  BY <2>1, <2>3, <3>2, <4>1, <4>2, <4>4, <4>5
      <3> QED  BY <3>1, <3>2
    <2>5. ASSUME NEW row \in events', NEW other \in events',
                 \/ row.id = other.id
                 \/ row.aggregateID = other.aggregateID /\ row.seq = other.seq
          PROVE  row = other
      <3>1. CASE row \in events /\ other \in events
        BY <2>5, <3>1 DEF LogContiguous
      <3>2. ASSUME NEW old \in events
            PROVE  ~(old.id = new.id \/ (old.aggregateID = new.aggregateID /\ old.seq = new.seq))
        <4>1. old.id # new.id
          BY <2>1
        <4>2. ASSUME old.aggregateID = a, old.seq = new.seq
              PROVE  FALSE
          <5>1. old.seq \in {r.seq : r \in RowsOf(a)}
            BY <4>2 DEF RowsOf
          <5>2. old.seq \in 0 .. sequence[a].seq
            BY <2>1, <5>1 DEF LogContiguous
          <5>3. sequence[a].seq \in Int
            BY <2>1 DEF TypeOK, Positions, Unassigned
          <5> QED  BY <2>1, <4>2, <5>2, <5>3
        <4> QED  BY <2>1, <4>1, <4>2
      <3>3. row \in events \cup {new} /\ other \in events \cup {new}
        BY <2>2
      <3>4. CASE row \in events /\ other = new
        BY <2>5, <3>2, <3>4
      <3>5. CASE row = new /\ other \in events
        <4>1. other.id = new.id \/ (other.aggregateID = new.aggregateID /\ other.seq = new.seq)
          BY <2>5, <3>5
        <4> QED  BY <3>2, <3>5, <4>1
      <3> QED  BY <3>1, <3>3, <3>4, <3>5
    <2> QED  BY <2>4, <2>5 DEF LogContiguous
  <1>3. ASSUME NEW f \in Fibers, replayExact(f)
        PROVE  LogContiguous'
    <2>1. Event(f) \in Inputs
      BY <1>3, EventType, TypeParts DEF replayExact
    <2>2. events' = events
      BY <1>3 DEF replayExact
    <2>3. \A a \in Aggregates : sequence'[a].seq = sequence[a].seq
      BY <1>3, <2>1 DEF replayExact, adopt, latest, TypeOK, Inputs
    <2> QED  BY <2>2, <2>3 DEF LogContiguous, RowsOf
  <1>4. ASSUME NEW a \in Aggregates, remove(a)
        PROVE  LogContiguous'
    <2>1. events' = events \ RowsOf(a)
      BY <1>4 DEF remove
    <2>2. sequence'[a].seq = -1 /\ \A b \in Aggregates : b # a => sequence'[b] = sequence[b]
      BY <1>4 DEF remove, NoSequence, Unassigned, TypeOK
    <2>3. RowsOf(a)' = {} /\ \A b \in Aggregates : b # a => RowsOf(b)' = RowsOf(b)
      BY <2>1 DEF RowsOf
    <2>4. \A b \in Aggregates : {row.seq : row \in RowsOf(b)'} = 0 .. sequence'[b].seq
      BY <2>2, <2>3 DEF LogContiguous
    <2>5. events' \subseteq events
      BY <2>1
    <2> QED  BY <2>4, <2>5 DEF LogContiguous
  <1>5. ASSUME NEW a \in Aggregates, NEW o \in Owners, claim(a, o)
        PROVE  LogContiguous'
    <2>1. events' = events /\ \A b \in Aggregates : sequence'[b].seq = sequence[b].seq
      BY <1>5 DEF claim, TypeOK
    <2> QED  BY <2>1 DEF LogContiguous, RowsOf
  <1> QED  BY <1>1, <1>2, <1>3, <1>4, <1>5 DEF TableStep

-----------------------------------------------------------------------------
(* Reading.                                                                 *)

\* A read takes the tail to the end of its aggregate, unless it is there or beyond.
LEMMA LastRow ==
    ASSUME TypeOK, LogContiguous, NEW a \in Aggregates, NEW after \in Positions
    PROVE  lastCursor(readAfter(a, after), after) =
               IF after < sequence[a].seq THEN sequence[a].seq ELSE after
  <1> DEFINE rows == readAfter(a, after)
             last == sequence[a].seq
  <1>1. last \in Int /\ after \in Int /\ after >= -1
    BY DEF TypeOK, Positions, Unassigned
  <1>2. \A row \in RowsOf(a) : row.seq \in 0 .. last
    BY DEF LogContiguous
  <1>3. CASE after < last
    <2>1. last \in {row.seq : row \in RowsOf(a)}
      BY <1>1, <1>3 DEF LogContiguous
    <2>2. PICK top \in RowsOf(a) : top.seq = last
      BY <2>1
    <2>3. top \in rows
      BY <1>3, <2>2 DEF readAfter
    <2>4. \A row \in rows : row \in RowsOf(a) /\ row.seq <= last
      BY <1>1, <1>2 DEF readAfter
    <2> DEFINE chosen == CHOOSE row \in rows : \A other \in rows : other.seq <= row.seq
    <2>5. chosen \in rows /\ \A other \in rows : other.seq <= chosen.seq
      <3>1. \A other \in rows : other.seq <= top.seq
        BY <2>2, <2>4
      <3> QED  BY <2>3, <3>1
    <2>6. chosen.seq = last
      BY <1>1, <1>2, <2>2, <2>3, <2>4, <2>5
    <2>7. lastCursor(rows, after) = chosen.seq
      BY <2>3 DEF lastCursor
    <2> QED  BY <1>3, <2>6, <2>7
  <1>4. CASE ~(after < last)
    <2>1. rows = {}
      BY <1>1, <1>2, <1>4 DEF readAfter
    <2> QED  BY <1>4, <2>1 DEF lastCursor
  <1> QED  BY <1>3, <1>4

LEMMA TailsTyped ==
    ASSUME TypeOK, LogContiguous, [Next]_vars
    PROVE  TailsOK'
  <1> USE TypeParts
  <1>1. CASE UNCHANGED tails
    BY <1>1 DEF tails, TailsOK
  <1>2. ASSUME NEW f \in Fibers, wakeTails(f)
        PROVE  TailsOK'
    BY <1>2 DEF wakeTails, TailsOK, TailType
  <1>3. ASSUME NEW a \in Aggregates, remove(a)
        PROVE  TailsOK'
    BY <1>3 DEF remove, TailsOK, DeliveredType
  <1>4. ASSUME NEW r \in Readers, subscribeSynchronized(r)
        PROVE  TailsOK'
    <2>1. PICK a \in Aggregates, after \in Unassigned .. MaxSeq :
              reader' = [reader EXCEPT ![r] = [phase |-> "historical", aggregateID |-> a,
                                               cursor |-> after, start |-> after,
                                               fetched |-> {}, dirty |-> FALSE]]
      BY <1>4 DEF subscribeSynchronized
    <2>2. [phase |-> "historical", aggregateID |-> a, cursor |-> after, start |-> after,
           fetched |-> {}, dirty |-> FALSE] \in TailType
      BY DEF TailType, Positions
    <2> QED  BY <1>4, <2>1, <2>2 DEF subscribeSynchronized, TailsOK
  <1>5. ASSUME NEW r \in Readers, read(r)
        PROVE  TailsOK'
    <2> DEFINE rows == readAfter(reader[r].aggregateID, reader[r].cursor)
    <2>1. reader[r] \in TailType
      BY DEF TailsOK
    <2>2. rows \in SUBSET Rows
      BY DEF readAfter, RowsOf, TablesOK
    <2>3. reader[r].aggregateID \in Aggregates /\ sequence[reader[r].aggregateID].seq \in Positions
      BY <2>1 DEF TailType, TablesOK, SequenceType
    <2>4. lastCursor(rows, reader[r].cursor) \in Positions
      BY <2>1, <2>3, LastRow DEF TailType
    <2>5. reader' = [reader EXCEPT ![r].phase = "deliver", ![r].fetched = rows,
                                   ![r].cursor = lastCursor(rows, reader[r].cursor)]
      BY <1>5 DEF read
    <2> HIDE DEF rows
    <2> DEFINE now == [reader[r] EXCEPT !.phase = "deliver", !.fetched = rows,
                                        !.cursor = lastCursor(rows, reader[r].cursor)]
    <2>6. now \in TailType
      BY <2>1, <2>2, <2>4 DEF TailType
    <2>7. reader' = [reader EXCEPT ![r] = now]
      BY <1>5, <2>5
    <2> HIDE DEF now
    <2> QED  BY <1>5, <2>6, <2>7 DEF read, TailsOK
  <1>6. ASSUME NEW r \in Readers, deliver(r)
        PROVE  TailsOK'
    <2> DEFINE now == [reader[r] EXCEPT !.phase = "tail", !.fetched = {}]
               got == [delivered[r] EXCEPT
                          !.rows = @ \cup reader[r].fetched,
                          !.repeated = @ \/ reader[r].fetched \cap delivered[r].rows # {}]
    <2>1. now \in TailType
      BY DEF TailsOK, TailType
    <2>2. got \in DeliveredType
      <3>1. delivered[r] \in DeliveredType /\ reader[r].fetched \in SUBSET Rows
        BY DEF TailsOK, TailType
      <3>2. (delivered[r].repeated \/ reader[r].fetched \cap delivered[r].rows # {}) \in BOOLEAN
        BY <3>1 DEF DeliveredType
      <3>3. delivered[r].rows \cup reader[r].fetched \in SUBSET Rows
        BY <3>1 DEF DeliveredType
      <3> QED  BY <3>1, <3>2, <3>3 DEF DeliveredType
    <2>3. reader' = [reader EXCEPT ![r] = now] /\ delivered' = [delivered EXCEPT ![r] = got]
      BY <1>6 DEF deliver
    <2> HIDE DEF now, got
    <2> QED  BY <2>1, <2>2, <2>3 DEF TailsOK
  <1>7. ASSUME NEW r \in Readers, takeSignal(r)
        PROVE  TailsOK'
    BY <1>7 DEF takeSignal, TailsOK, TailType
  <1>8. ASSUME NEW r \in Readers, closeTail(r)
        PROVE  TailsOK'
    BY <1>8, ClosedType DEF closeTail, TailsOK
  <1>9. CASE Crash
    BY <1>9, ClosedType DEF Crash, TailsOK
  <1> QED
    BY <1>1, <1>2, <1>3, <1>4, <1>5, <1>6, <1>7, <1>8, <1>9
    DEF Next, vars, Step, Streaming, commitSyncEvent, publish, replayWorkspace, replayAll, Start,
        commitRefused, commitRolledBack, replayExact, replayForeign, append, notify, Interrupt, claim, tails

LEMMA JobsTyped ==
    ASSUME TypeOK, [Next]_vars
    PROVE  JobsOK'
  <1>1. CASE UNCHANGED job
    BY <1>1, TypeParts DEF JobsOK
  <1>2. CASE Crash
    BY <1>2, NoJobType DEF Crash, JobsOK
  <1> QED
    BY <1>1, <1>2, BeginTyped, JobStepTyped
    DEF Next, vars, Streaming, subscribeSynchronized, read, deliver, takeSignal, closeTail, remove, claim

\* The types of the tails rest on the rows: a read takes the cursor to a row.
LogInv == TypeOK /\ LogContiguous

LEMMA LogInvInit == Init => LogInv
  <1> SUFFICES ASSUME Init PROVE LogInv
    OBVIOUS
  <1>1. NoSequence \in SequenceType /\ NoSequence.seq = -1 /\ NoFence \in FenceType
    BY BoundAssumption DEF NoSequence, SequenceType, Positions, Unassigned, NoFence, FenceType
  <1>2. TablesOK /\ HistoryOK
    BY <1>1, BoundAssumption, EmptySeq DEF Init, TablesOK, HistoryOK
  <1>3. JobsOK
    BY NoJobType DEF Init, JobsOK
  <1>4. TailsOK
    BY ClosedType DEF Init, TailsOK
  <1>5. LogContiguous
    BY <1>1 DEF Init, LogContiguous, RowsOf
  <1> QED  BY <1>2, <1>3, <1>4, <1>5, TypeParts DEF LogInv

LEMMA LogInvStep == LogInv /\ [Next]_vars => LogInv'
  <1> SUFFICES ASSUME LogInv, [Next]_vars PROVE LogInv'
    OBVIOUS
  <1>1. TablesOK' /\ HistoryOK'
    BY StepOfTables, TablesTyped DEF LogInv
  <1>2. JobsOK'
    BY JobsTyped DEF LogInv
  <1>3. TailsOK'
    BY TailsTyped DEF LogInv
  <1>4. LogContiguous'
    BY StepOfTables, ContiguousStep DEF LogInv
  <1>5. TypeOK'
    BY <1>1, <1>2, <1>3 DEF TypeOK, TablesOK, JobsOK, TailsOK, HistoryOK,
                           SequenceType, JobType, TailType, DeliveredType, FenceType
  <1> QED  BY <1>4, <1>5 DEF LogInv

LEMMA LogInvAlways == Spec => []LogInv
  BY LogInvInit, LogInvStep, PTL DEF Spec

\* Every variable keeps its type.
THEOREM LogTyped == Spec => []TypeOK
  <1>1. LogInv => TypeOK
    BY DEF LogInv
  <1> QED  BY <1>1, LogInvAlways, PTL

\* The log of every aggregate is gapless, and no position and no event id is used
\* twice, whatever is published, replayed, claimed and removed.
THEOREM LogIsContiguous == Spec => []LogContiguous
  <1>1. LogInv => LogContiguous
    BY DEF LogInv
  <1> QED  BY <1>1, LogInvAlways, PTL

-----------------------------------------------------------------------------
(* Owners.                                                                  *)

\* The owner of the row is the one the fence was last moved for.
OwnerHeld == \A a \in Aggregates : fence[a].ownerID = sequence[a].ownerID

\* An owner that changes without an append has no rows yet behind the fence.
LEMMA MovedFence ==
    ASSUME TypeOK, OwnerHeld, Fenced, NEW a \in Aggregates, NEW o, Own(a, o),
           author' = author, sequence'[a].ownerID = o,
           \A b \in Aggregates : b # a => sequence'[b] = sequence[b]
    PROVE  OwnerHeld' /\ Fenced'
  <1>1. fence'[a] = [from |-> Len(author[a]), ownerID |-> o, former |-> sequence[a].ownerID]
    BY DEF Own, TypeOK
  <1>2. \A b \in Aggregates : b # a => fence'[b] = fence[b]
    BY DEF Own, TypeOK
  <1>3. OwnerHeld'
    BY <1>1, <1>2 DEF OwnerHeld
  <1>4. \A i \in DOMAIN author[a] : ~(i > Len(author[a]))
    <2>1. author[a] \in Seq(Owners \cup {NoOwner, Local})
      BY DEF TypeOK
    <2> QED  BY <2>1
  <1>5. Fenced'
    BY <1>1, <1>2, <1>4 DEF Fenced
  <1> QED  BY <1>3, <1>5

LEMMA FencedStep ==
    ASSUME TypeOK, OwnerHeld, Fenced, TableStep
    PROVE  OwnerHeld' /\ Fenced'
  <1>1. CASE UNCHANGED <<tables, history>>
    BY <1>1 DEF tables, history, OwnerHeld, Fenced
  <1>2. ASSUME NEW f \in Fibers, append(f)
        PROVE  OwnerHeld' /\ Fenced'
    <2>1. PICK a \in Aggregates : a = Event(f).aggregateID
      BY <1>2, Appended DEF Inputs
    <2> DEFINE by == IF Replayed(f) THEN job[f].ownerID ELSE Local
    <2>2. sequence'[a].ownerID = IF Adopts(f) THEN job[f].ownerID ELSE sequence[a].ownerID
      BY <1>2, <2>1 DEF append, adopt, owner, TypeOK
    <2>3. \A b \in Aggregates : b # a => sequence'[b] = sequence[b] /\ author'[b] = author[b]
      BY <1>2, <2>1 DEF append, TypeOK
    <2>4. author'[a] = Append(author[a], by)
      BY <1>2, <2>1 DEF append, TypeOK
    <2>5. /\ author[a] \in Seq(Owners \cup {NoOwner, Local})
          /\ by \in Owners \cup {NoOwner, Local}
          /\ Len(author[a]) \in Nat
      BY DEF TypeOK
    <2> HIDE DEF by
    <2>6. /\ DOMAIN author'[a] = 1 .. (Len(author[a]) + 1)
          /\ \A i \in 1 .. Len(author[a]) : author'[a][i] = author[a][i]
          /\ author'[a][Len(author[a]) + 1] = by
      BY <2>4, <2>5, AppendProperties
    <2>7. sequence'[a].ownerID # NoOwner => by \in {Local, sequence'[a].ownerID}
      BY <1>2, <2>1, <2>2 DEF append, Fresh, Foreign, Adopts, owner, by
    <2>8. \A b \in Aggregates : b # a => fence'[b] = fence[b]
      BY <1>2, <2>1 DEF append, Own, TypeOK
    <2>9. CASE sequence'[a].ownerID = sequence[a].ownerID
      <3>1. fence' = fence
        BY <1>2, <2>1, <2>9 DEF append, owner
      <3>2. OwnerHeld'
        BY <2>3, <2>9, <3>1 DEF OwnerHeld
      <3>3. ASSUME NEW b \in Aggregates, fence[b].ownerID # NoOwner,
                   NEW i \in DOMAIN author'[b], i > fence[b].from
            PROVE  author'[b][i] \in {Local, fence[b].ownerID}
        <4>1. CASE b # a
          BY <2>3, <3>3, <4>1 DEF Fenced
        <4>2. CASE b = a /\ i = Len(author[a]) + 1
          BY <2>6, <2>7, <2>9, <3>3, <4>2 DEF OwnerHeld
        <4>3. CASE b = a /\ i # Len(author[a]) + 1
          <5>1. i \in DOMAIN author[a]
            BY <2>5, <2>6, <3>3, <4>3
          <5>2. author'[a][i] = author[a][i]
            BY <2>5, <2>6, <5>1, <4>3, <3>3
          <5> QED  BY <3>3, <4>3, <5>1, <5>2 DEF Fenced
        <4> QED  BY <4>1, <4>2, <4>3
      <3> QED  BY <3>1, <3>2, <3>3 DEF Fenced
    <2>10. CASE sequence'[a].ownerID # sequence[a].ownerID
      <3>1. fence'[a] = [from |-> Len(author[a]), ownerID |-> sequence'[a].ownerID,
                         former |-> sequence[a].ownerID]
        BY <1>2, <2>1, <2>10 DEF append, owner, Own, TypeOK
      <3>2. OwnerHeld'
        BY <2>3, <2>8, <3>1 DEF OwnerHeld
      <3>3. ASSUME NEW b \in Aggregates, fence'[b].ownerID # NoOwner,
                   NEW i \in DOMAIN author'[b], i > fence'[b].from
            PROVE  author'[b][i] \in {Local, fence'[b].ownerID}
        <4>1. CASE b # a
          BY <2>3, <2>8, <3>3, <4>1 DEF Fenced
        <4>2. CASE b = a
          <5>1. i = Len(author[a]) + 1
            BY <2>5, <2>6, <3>1, <3>3, <4>2
          <5> QED  BY <2>6, <2>7, <3>1, <3>3, <4>2, <5>1
        <4> QED  BY <4>1, <4>2
      <3> QED  BY <3>2, <3>3 DEF Fenced
    <2> QED  BY <2>9, <2>10
  <1>3. ASSUME NEW f \in Fibers, replayExact(f)
        PROVE  OwnerHeld' /\ Fenced'
    <2>1. PICK a \in Aggregates : a = Event(f).aggregateID
      BY <1>3, EventType, TypeParts DEF replayExact, Inputs
    <2>2. /\ author' = author
          /\ \A b \in Aggregates : b # a => sequence'[b] = sequence[b]
          /\ sequence'[a].ownerID = IF Adopts(f) THEN job[f].ownerID ELSE sequence[a].ownerID
      BY <1>3, <2>1 DEF replayExact, adopt, owner, TypeOK
    <2>3. CASE Adopts(f)
      BY <1>3, <2>1, <2>2, <2>3, MovedFence DEF replayExact
    <2>4. CASE ~Adopts(f)
      BY <1>3, <2>2, <2>4 DEF replayExact, OwnerHeld, Fenced
    <2> QED  BY <2>3, <2>4
  <1>4. ASSUME NEW a \in Aggregates, remove(a)
        PROVE  OwnerHeld' /\ Fenced'
    <2>1. /\ sequence'[a].ownerID = NoOwner /\ fence'[a].ownerID = NoOwner
          /\ \A b \in Aggregates : b # a => /\ sequence'[b] = sequence[b] /\ fence'[b] = fence[b]
                                            /\ author'[b] = author[b]
      BY <1>4 DEF remove, NoSequence, NoFence, TypeOK
    <2>2. OwnerHeld'
      BY <2>1 DEF OwnerHeld
    <2>3. Fenced'
      BY <2>1 DEF Fenced
    <2> QED  BY <2>2, <2>3
  <1>5. ASSUME NEW a \in Aggregates, NEW o \in Owners, claim(a, o)
        PROVE  OwnerHeld' /\ Fenced'
    <2>1. /\ author' = author
          /\ \A b \in Aggregates : b # a => sequence'[b] = sequence[b]
          /\ sequence'[a].ownerID = o
      BY <1>5 DEF claim, TypeOK
    <2>2. CASE o # sequence[a].ownerID
      BY <1>5, <2>1, <2>2, MovedFence DEF claim
    <2>3. CASE o = sequence[a].ownerID
      <3>1. sequence' = sequence /\ fence' = fence
        BY <1>5, <2>3 DEF claim, TypeOK
      <3> QED  BY <2>1, <3>1 DEF OwnerHeld, Fenced
    <2> QED  BY <2>2, <2>3
  <1> QED  BY <1>1, <1>2, <1>3, <1>4, <1>5 DEF TableStep

LEMMA FencedAlways == Spec => [](LogInv /\ OwnerHeld /\ Fenced)
  <1>1. Init => OwnerHeld /\ Fenced
    BY DEF Init, OwnerHeld, Fenced, NoFence, NoSequence
  <1>2. LogInv /\ OwnerHeld /\ Fenced /\ [Next]_vars => OwnerHeld' /\ Fenced'
    BY StepOfTables, FencedStep DEF LogInv
  <1> QED  BY <1>1, <1>2, LogInvAlways, PTL DEF Spec

\* Once an owner holds an aggregate, by claim or by adoption, only it and local
\* publishers append to it.
THEOREM OwnerIsFenced == Spec => []Fenced
  BY FencedAlways, PTL

-----------------------------------------------------------------------------
(* Strict batches.                                                          *)

Of(f) == job[f].batch[1].aggregateID

\* A strict call replays what another server sent, knows how often its aggregate
\* had been removed, and is past an event only if that event is stored.
StrictJob(f) == job[f].strictOwner =>
    /\ job[f].batch \in Wire /\ job[f].phase # "idle"
    /\ job[f].life <= life[Of(f)]
    /\ job[f].phase \in {"wake", "notify"} /\ job[f].life = life[Of(f)] => Event(f) \in events

PassedStored(f) == job[f].strictOwner =>
    \A i \in 1 .. job[f].done :
        job[f].life = life[job[f].batch[i].aggregateID] => job[f].batch[i] \in events

Strict(f) == StrictJob(f) /\ PassedStored(f)

LEMMA WireBatch ==
    ASSUME NEW batch \in Wire
    PROVE  /\ batch \in Seq(Serialized) /\ Len(batch) \in Nat \ {0}
           /\ \A i \in 1 .. Len(batch) : batch[i] \in Serialized /\ batch[i].aggregateID = batch[1].aggregateID
  <1>1. batch \in Seq(Serialized) /\ batch # <<>> /\ Contiguous(batch)
    BY WireAssumption
  <1>2. Len(batch) \in Nat \ {0}
    BY <1>1, EmptySeq
  <1>3. \A i \in 1 .. Len(batch) : batch[i] \in Serialized
    BY <1>1, ElementOfSeq
  <1>4. DOMAIN batch = 1 .. Len(batch)
    BY <1>1
  <1> QED  BY <1>1, <1>2, <1>3, <1>4 DEF Contiguous

\* The aggregate of a strict batch, and the row its event becomes.
LEMMA StrictEvent ==
    ASSUME TypeOK, NEW f \in Fibers, job[f].strictOwner, job[f].batch \in Wire, job[f].phase # "idle"
    PROVE  /\ Of(f) \in Aggregates /\ Event(f).aggregateID = Of(f)
           /\ Replayed(f) /\ RowFor(f) = Event(f)
           /\ job[f].done \in Nat /\ job[f].done + 1 \in 1 .. Len(job[f].batch)
  <1>1. /\ job[f].batch \in Seq(Serialized) /\ Len(job[f].batch) \in Nat \ {0}
        /\ \A i \in 1 .. Len(job[f].batch) :
              job[f].batch[i] \in Serialized /\ job[f].batch[i].aggregateID = Of(f)
    BY WireBatch DEF Of
  <1>2. job[f].done \in Nat /\ job[f].done + 1 \in 1 .. Len(job[f].batch)
    BY <1>1 DEF TypeOK
  <1>3. Event(f) \in Serialized /\ Event(f).aggregateID = Of(f)
    BY <1>1, <1>2 DEF Event
  <1>4. Replayed(f)
    BY <1>3 DEF Replayed, Serialized, Unassigned
  <1>5. RowFor(f) = Event(f)
    BY <1>3, <1>4 DEF RowFor, assigned, Serialized
  <1> QED  BY <1>2, <1>3, <1>4, <1>5 DEF Serialized

\* Going on past a stored event, or returning.
LEMMA AdvanceStrict ==
    ASSUME TypeOK, NEW f \in Fibers, job[f].phase # "idle", Strict(f), job' = [job EXCEPT ![f] = Advance(f)],
           events' = events, life' = life,
           job[f].strictOwner /\ job[f].life = life[Of(f)] => Event(f) \in events
    PROVE  Strict(f)'
  <1>1. job'[f] = Advance(f) /\ job[f].done \in Nat
    BY DEF TypeOK
  <1>2. CASE job[f].done + 1 = Len(job[f].batch)
    BY <1>1, <1>2 DEF Advance, NoJob, Strict, StrictJob, PassedStored
  <1>3. CASE job[f].done + 1 # Len(job[f].batch)
    <2>1. /\ job'[f].strictOwner = job[f].strictOwner /\ job'[f].batch = job[f].batch
          /\ job'[f].life = job[f].life /\ job'[f].phase = "commit" /\ job'[f].done = job[f].done + 1
      BY <1>1, <1>3 DEF Advance, TypeOK
    <2>2. StrictJob(f)'
      BY <2>1 DEF Strict, StrictJob, Of
    <2>3. ASSUME job[f].strictOwner, NEW i \in 1 .. (job[f].done + 1),
                 job[f].life = life[job[f].batch[i].aggregateID]
          PROVE  job[f].batch[i] \in events
      <3>1. CASE i = job[f].done + 1
        <4>1. Event(f) = job[f].batch[i] /\ Event(f).aggregateID = Of(f)
          BY <2>3, <3>1, StrictEvent DEF Event, Strict, StrictJob
        <4> QED  BY <2>3, <4>1
      <3>2. CASE i # job[f].done + 1
        BY <1>1, <2>3, <3>2 DEF Strict, PassedStored
      <3> QED  BY <3>1, <3>2
    <2> QED  BY <2>1, <2>2, <2>3 DEF Strict, PassedStored
  <1> QED  BY <1>2, <1>3

\* What the other steps leave a fiber that they do not move.
LEMMA OthersStrict ==
    ASSUME TypeOK, NEW f \in Fibers, Strict(f), job'[f] = job[f], TableStep
    PROVE  Strict(f)'
  <1> SUFFICES ASSUME job[f].strictOwner PROVE Strict(f)'
    BY DEF Strict, StrictJob, PassedStored
  <1>1. /\ job[f].batch \in Wire /\ Of(f) \in Aggregates /\ Event(f).aggregateID = Of(f)
        /\ job[f].done \in Nat /\ job[f].done + 1 \in 1 .. Len(job[f].batch)
    BY StrictEvent DEF Strict, StrictJob
  <1>2. \A i \in 1 .. job[f].done : job[f].batch[i].aggregateID = Of(f)
    <2>1. \A i \in 1 .. job[f].done : i \in 1 .. Len(job[f].batch)
      BY <1>1, WireBatch
    <2> QED  BY <1>1, <2>1, WireBatch DEF Of
  <1>3. \A a \in Aggregates : life[a] \in Nat
    BY BoundAssumption DEF TypeOK
  <1>4. CASE events \subseteq events' /\ life' = life
    BY <1>4 DEF Strict, StrictJob, PassedStored, Of, Event
  <1>5. ASSUME NEW a \in Aggregates, remove(a)
        PROVE  Strict(f)'
    <2>1. /\ events' = events \ RowsOf(a) /\ life'[a] = life[a] + 1
          /\ \A b \in Aggregates : b # a => life'[b] = life[b]
      BY <1>5 DEF remove, TypeOK
    <2>2. CASE Of(f) = a
      <3>1. job[f].life \in Nat /\ job[f].life <= life[a]
        BY <2>2, BoundAssumption DEF Strict, StrictJob, TypeOK
      <3>2. job[f].life # life'[a] /\ job[f].life <= life'[a]
        BY <1>3, <2>1, <3>1
      <3>3. StrictJob(f)'
        BY <2>2, <3>2 DEF Strict, StrictJob, Of
      <3>4. PassedStored(f)'
        BY <1>2, <2>2, <3>2 DEF PassedStored
      <3> QED  BY <3>3, <3>4 DEF Strict
    <2>3. CASE Of(f) # a
      <3>1. life'[Of(f)] = life[Of(f)]
        BY <1>1, <2>1, <2>3
      <3>2. \A e : e \in events /\ e.aggregateID = Of(f) => e \in events'
        BY <2>1, <2>3 DEF RowsOf
      <3>3. StrictJob(f)'
        BY <1>1, <3>1, <3>2 DEF Strict, StrictJob, Of, Event
      <3>4. PassedStored(f)'
        BY <1>2, <3>1, <3>2 DEF Strict, PassedStored
      <3> QED  BY <3>3, <3>4 DEF Strict
    <2> QED  BY <2>2, <2>3
  <1>6. CASE ~\E a \in Aggregates : remove(a)
    BY <1>4, <1>6 DEF TableStep, tables, history, append, replayExact, claim
  <1> QED  BY <1>5, <1>6

LEMMA StrictStep ==
    ASSUME TypeOK, [Next]_vars, NEW f \in Fibers, Strict(f)
    PROVE  Strict(f)'
  <1>1. TableStep
    BY StepOfTables
  <1>2. CASE job'[f] = job[f]
    BY <1>1, <1>2, OthersStrict
  <1>3. CASE Crash
    BY <1>3 DEF Crash, NoJob, Strict, StrictJob, PassedStored
  <1>4. ASSUME publish(f) \/ replayWorkspace(f)
        PROVE  Strict(f)'
    <2>1. PICK batch, o, public : Start(f, batch, o, FALSE, public)
      BY <1>4 DEF publish, replayWorkspace
    <2>2. job'[f].strictOwner = FALSE
      BY <2>1 DEF Start, TypeOK
    <2> QED  BY <2>2 DEF Strict, StrictJob, PassedStored
  <1>5. ASSUME replayAll(f)
        PROVE  Strict(f)'
    <2>1. PICK batch \in Wire, o \in Owners \cup {NoOwner} : Start(f, batch, o, TRUE, FALSE)
      BY <1>5 DEF replayAll
    <2>2. /\ job'[f].batch = batch /\ job'[f].done = 0 /\ job'[f].phase = "commit"
          /\ job'[f].life = life[batch[1].aggregateID] /\ life' = life
      BY <2>1 DEF Start, TypeOK, history
    <2>3. life[batch[1].aggregateID] \in Nat
      <3>1. batch[1] \in Serialized
        BY WireBatch
      <3>2. batch[1].aggregateID \in Aggregates
        BY <3>1 DEF Serialized
      <3> QED  BY <3>2, BoundAssumption DEF TypeOK
    <2>4. StrictJob(f)'
      BY <2>2, <2>3 DEF StrictJob, Of
    <2>5. PassedStored(f)'
      BY <2>2 DEF PassedStored
    <2> QED  BY <2>4, <2>5 DEF Strict
  <1>6. ASSUME Step(f)
        PROVE  Strict(f)'
    <2>1. CASE commitRefused(f) \/ commitRolledBack(f) \/ Interrupt(f)
      <3>1. job'[f] = NoJob
        BY <2>1 DEF commitRefused, commitRolledBack, Interrupt, Die, TypeOK
      <3> QED  BY <3>1 DEF NoJob, Strict, StrictJob, PassedStored
    <2>2. CASE replayExact(f)
      <3>1. job[f].strictOwner => Event(f) \in events
        BY <2>2, StrictEvent DEF replayExact, exact, Strict, StrictJob
      <3> QED  BY <2>2, <3>1, AdvanceStrict DEF replayExact
    <2>3. CASE replayForeign(f)
      BY <2>3, AdvanceStrict DEF replayForeign, tables, history
    <2>4. CASE append(f)
      <3>1. /\ job'[f] = [job[f] EXCEPT !.phase = "wake"]
            /\ events' = events \cup {RowFor(f)} /\ life' = life /\ job[f].phase = "commit"
        BY <2>4 DEF append, TypeOK
      <3>2. job[f].strictOwner => Event(f) \in events'
        BY <3>1, StrictEvent DEF Strict, StrictJob
      <3>3. /\ job'[f].phase = "wake" /\ job'[f].batch = job[f].batch /\ job'[f].done = job[f].done
            /\ job'[f].life = job[f].life /\ job'[f].strictOwner = job[f].strictOwner
        BY <3>1 DEF TypeOK
      <3>4. StrictJob(f)'
        BY <3>1, <3>2, <3>3 DEF Strict, StrictJob, Of, Event
      <3>5. PassedStored(f)'
        BY <3>1, <3>3 DEF Strict, PassedStored
      <3> QED  BY <3>4, <3>5 DEF Strict
    <2>5. CASE wakeTails(f)
      <3>1. events' = events /\ life' = life /\ job[f].phase = "wake"
        BY <2>5 DEF wakeTails, tables, history
      <3>2. CASE job[f].publish
        <4>1. job'[f] = [job[f] EXCEPT !.phase = "notify"]
          BY <2>5, <3>2 DEF wakeTails, TypeOK
        <4>2. /\ job'[f].phase = "notify" /\ job'[f].batch = job[f].batch /\ job'[f].done = job[f].done
              /\ job'[f].life = job[f].life /\ job'[f].strictOwner = job[f].strictOwner
          BY <4>1 DEF TypeOK
        <4> QED  BY <3>1, <4>2 DEF Strict, StrictJob, PassedStored, Of, Event
      <3>3. CASE ~job[f].publish
        <4>1. job' = [job EXCEPT ![f] = Advance(f)]
          BY <2>5, <3>3 DEF wakeTails
        <4> QED  BY <3>1, <4>1, AdvanceStrict DEF Strict, StrictJob
      <3> QED  BY <3>2, <3>3
    <2>6. CASE notify(f)
      <3>1. /\ events' = events /\ life' = life /\ job[f].phase = "notify"
            /\ job' = [job EXCEPT ![f] = Advance(f)]
        BY <2>6 DEF notify, tables, history
      <3> QED  BY <3>1, AdvanceStrict DEF Strict, StrictJob
    <2> QED  BY <1>6, <2>1, <2>2, <2>3, <2>4, <2>5, <2>6 DEF Step, commitSyncEvent
  <1>7. \/ job'[f] = job[f] \/ Crash
        \/ publish(f) \/ replayWorkspace(f) \/ replayAll(f) \/ Step(f)
    <2>1. CASE UNCHANGED job
      BY <2>1
    <2>2. ASSUME NEW g \in Fibers, publish(g) \/ replayWorkspace(g) \/ replayAll(g) \/ Step(g), g # f
          PROVE  job'[f] = job[f]
      BY <2>2 DEF publish, replayWorkspace, replayAll, Start, Step, commitSyncEvent, commitRefused,
                  commitRolledBack, Die, replayExact, replayForeign, append, wakeTails, notify, Interrupt, TypeOK
    <2> QED  BY <2>1, <2>2 DEF Next, vars, remove, claim, Streaming, subscribeSynchronized, read, deliver,
                               takeSignal, closeTail
  <1> QED  BY <1>2, <1>3, <1>4, <1>5, <1>6, <1>7

LEMMA StrictAlways == Spec => [](LogInv /\ \A f \in Fibers : Strict(f))
  <1>1. Init => \A f \in Fibers : Strict(f)
    BY DEF Init, NoJob, Strict, StrictJob, PassedStored
  <1>2. LogInv /\ (\A f \in Fibers : Strict(f)) /\ [Next]_vars => (\A f \in Fibers : Strict(f))'
    BY StrictStep DEF LogInv
  <1> QED  BY <1>1, <1>2, LogInvAlways, PTL DEF Spec

\* What a strict batch has passed is stored as it was sent, while others publish,
\* replay and claim between its commits.
THEOREM StrictBatchIsStored == Spec => []BatchStored
  <1>1. LogInv /\ (\A f \in Fibers : Strict(f)) => BatchStored
    BY DEF Strict, PassedStored, BatchStored
  <1> QED  BY <1>1, StrictAlways, PTL

-----------------------------------------------------------------------------
(* Wakes.                                                                   *)

\* A tail that has no read ahead and no signal.
Waits(r) == reader[r].phase \in {"deliver", "tail"} /\ ~reader[r].dirty

Behind(r) == reader[r].cursor < sequence[reader[r].aggregateID].seq

Waking(f, a) == job[f].phase = "wake" /\ Event(f).aggregateID = a

LEMMA WakeParts ==
    NoLostWake <=> \A r \in Readers : Waits(r) /\ Behind(r) => \E f \in Fibers : Waking(f, reader[r].aggregateID)
  BY DEF NoLostWake, Waits, Behind, Waking

LEMMA WakePartsNext ==
    NoLostWake' <=>
        (\A r \in Readers : Waits(r) /\ Behind(r) => \E f \in Fibers : Waking(f, reader[r].aggregateID))'
  BY DEF NoLostWake, Waits, Behind, Waking

\* Only the fiber itself ends its wake, and then it has woken the tails.
LEMMA WakeKept ==
    ASSUME TypeOK, [Next]_vars, NEW f \in Fibers, job[f].phase = "wake"
    PROVE  job'[f] = job[f] \/ wakeTails(f) \/ Crash
  <1>1. CASE UNCHANGED job
    BY <1>1
  <1>2. ASSUME NEW g \in Fibers, publish(g) \/ replayWorkspace(g) \/ replayAll(g) \/ Step(g), g # f
        PROVE  job'[f] = job[f]
    BY <1>2 DEF publish, replayWorkspace, replayAll, Start, Step, commitSyncEvent, commitRefused,
                commitRolledBack, Die, replayExact, replayForeign, append, wakeTails, notify, Interrupt, TypeOK
  <1>3. ASSUME publish(f) \/ replayWorkspace(f) \/ replayAll(f) \/ Step(f)
        PROVE  wakeTails(f)
    BY <1>3 DEF publish, replayWorkspace, replayAll, Start, Step, commitSyncEvent, commitRefused,
                commitRolledBack, replayExact, replayForeign, append, notify, Interrupt
  <1> QED
    BY <1>1, <1>2, <1>3 DEF Next, vars, remove, claim, Streaming, subscribeSynchronized, read, deliver,
                            takeSignal, closeTail

\* How the sequences of the aggregates move.
LEMMA SequenceStep ==
    ASSUME TypeOK, [Next]_vars
    PROVE  \/ \A a \in Aggregates : sequence'[a].seq <= sequence[a].seq
           \/ \E f \in Fibers : append(f)
  <1>1. \A a \in Aggregates : sequence[a].seq \in Int /\ sequence[a].seq >= -1
    BY DEF TypeOK, Positions, Unassigned
  <1>2. CASE UNCHANGED <<tables, history>>
    BY <1>1, <1>2 DEF tables
  <1>3. ASSUME NEW f \in Fibers, replayExact(f)
        PROVE  \A a \in Aggregates : sequence'[a].seq <= sequence[a].seq
    <2>1. PICK a \in Aggregates : a = Event(f).aggregateID
      BY <1>3, EventType, TypeParts DEF replayExact, Inputs
    <2>2. \A b \in Aggregates : sequence'[b].seq = sequence[b].seq
      BY <1>3, <2>1 DEF replayExact, adopt, latest, TypeOK
    <2> QED  BY <1>1, <2>2
  <1>4. ASSUME NEW a \in Aggregates, remove(a)
        PROVE  \A b \in Aggregates : sequence'[b].seq <= sequence[b].seq
    <2>1. sequence'[a].seq = -1 /\ \A b \in Aggregates : b # a => sequence'[b] = sequence[b]
      BY <1>4 DEF remove, NoSequence, Unassigned, TypeOK
    <2> QED  BY <1>1, <2>1
  <1>5. ASSUME NEW a \in Aggregates, NEW o \in Owners, claim(a, o)
        PROVE  \A b \in Aggregates : sequence'[b].seq <= sequence[b].seq
    <2>1. \A b \in Aggregates : sequence'[b].seq = sequence[b].seq
      BY <1>5 DEF claim, TypeOK
    <2> QED  BY <1>1, <2>1
  <1> QED  BY <1>2, <1>3, <1>4, <1>5, StepOfTables DEF TableStep

\* Whatever does not read or drain a tail leaves it, or gives it a signal.
LEMMA TailStep ==
    ASSUME TypeOK, LogContiguous, [Next]_vars, NEW r \in Readers
    PROVE  \/ reader'[r] = reader[r]
           \/ reader'[r] = [reader[r] EXCEPT !.dirty = TRUE]
           \/ deliver(r)
           \/ ~Waits(r)'
           \/ ~Behind(r)'
  <1>1. CASE UNCHANGED reader
    BY <1>1
  <1>2. ASSUME NEW f \in Fibers, wakeTails(f)
        PROVE  reader'[r] = reader[r] \/ reader'[r] = [reader[r] EXCEPT !.dirty = TRUE]
    BY <1>2 DEF wakeTails
  <1>3. ASSUME NEW q \in Readers, Streaming(q), q # r
        PROVE  reader'[r] = reader[r]
    BY <1>3 DEF Streaming, subscribeSynchronized, read, deliver, takeSignal, closeTail, TypeOK
  <1>4. CASE subscribeSynchronized(r) \/ takeSignal(r) \/ closeTail(r)
    BY <1>4 DEF subscribeSynchronized, takeSignal, closeTail, Closed, Waits, TypeOK
  <1>5. CASE read(r)
    <2>1. reader[r].aggregateID \in Aggregates /\ reader[r].cursor \in Positions
      BY DEF TypeOK
    <2>2. PICK rows : rows = readAfter(reader[r].aggregateID, reader[r].cursor)
      OBVIOUS
    <2>3. /\ reader'[r].aggregateID = reader[r].aggregateID /\ reader'[r].cursor = lastCursor(rows, reader[r].cursor)
          /\ sequence' = sequence
      BY <1>5, <2>2 DEF read, tables, TypeOK
    <2>4. reader'[r].cursor = IF reader[r].cursor < sequence[reader[r].aggregateID].seq
                              THEN sequence[reader[r].aggregateID].seq ELSE reader[r].cursor
      BY <2>1, <2>2, <2>3, LastRow
    <2>5. sequence[reader[r].aggregateID].seq \in Int /\ reader[r].cursor \in Int
      BY <2>1 DEF TypeOK, Positions, Unassigned
    <2> QED  BY <2>3, <2>4, <2>5 DEF Behind
  <1>6. CASE Crash
    BY <1>6 DEF Crash, Closed, Waits
  <1> QED
    BY <1>1, <1>2, <1>3, <1>4, <1>5, <1>6
    DEF Next, vars, Step, Streaming, commitSyncEvent, publish, replayWorkspace, replayAll, Start,
        commitRefused, commitRolledBack, Die, replayExact, replayForeign, append, notify, Interrupt,
        remove, claim, tails

LEMMA NoLostWakeStep ==
    ASSUME TypeOK, LogContiguous, NoLostWake, [Next]_vars
    PROVE  NoLostWake'
  <1> SUFFICES ASSUME NEW r \in Readers, Waits(r)', Behind(r)'
               PROVE  (\E f \in Fibers : Waking(f, reader[r].aggregateID))'
    BY WakePartsNext
  <1>0. PICK a \in Aggregates : a = reader[r].aggregateID
    BY DEF TypeOK
  <1>1. reader[r].phase \in {"deliver", "tail"} /\ ~reader[r].dirty /\ ~reader'[r].dirty
        /\ reader'[r].aggregateID = a /\ reader'[r].cursor = reader[r].cursor /\ reader'[r].phase # "closed"
    <2>1. reader'[r].phase \in {"deliver", "tail"} /\ ~reader'[r].dirty
      BY DEF Waits
    <2>2. CASE reader'[r] = reader[r]
      BY <1>0, <2>1, <2>2
    <2>3. CASE reader'[r] = [reader[r] EXCEPT !.dirty = TRUE]
      BY <2>1, <2>3 DEF TypeOK
    <2>4. CASE deliver(r)
      BY <1>0, <2>1, <2>4 DEF deliver, TypeOK
    <2> QED  BY <2>2, <2>3, <2>4, TailStep
  <1>2. reader[r].cursor \in Int /\ sequence[a].seq \in Int /\ sequence'[a].seq \in Int
    <2>1. TablesOK'
      BY StepOfTables, TablesTyped
    <2>2. sequence'[a].seq \in Positions
      BY <2>1 DEF TablesOK, SequenceType
    <2>3. reader[r].cursor \in Positions /\ sequence[a].seq \in Positions
      BY DEF TypeOK
    <2> QED  BY <2>2, <2>3 DEF Positions, Unassigned
  <1>3. ASSUME NEW f \in Fibers, Waking(f, a)
        PROVE  Waking(f, a)'
    <2>1. ~wakeTails(f)
      BY <1>0, <1>1, <1>3 DEF wakeTails, tailsOf, Waking, TypeOK
    <2>2. ~Crash
      BY <1>1 DEF Crash, Closed
    <2> QED  BY <1>1, <1>3, <2>1, <2>2, WakeKept DEF Waking, Event
  <1>4. CASE sequence'[a].seq <= sequence[a].seq
    <2>1. Waits(r) /\ Behind(r)
      BY <1>0, <1>1, <1>2, <1>4 DEF Waits, Behind
    <2>2. PICK f \in Fibers : Waking(f, a)
      BY <1>0, <2>1, WakeParts
    <2> QED  BY <1>1, <1>3, <2>2 DEF Waking
  <1>5. ASSUME NEW f \in Fibers, append(f)
        PROVE  (\E g \in Fibers : Waking(g, reader[r].aggregateID))'
    <2>1. Event(f).aggregateID \in Aggregates
      BY <1>5, Appended DEF Inputs
    <2>2. CASE Event(f).aggregateID = a
      <3>1. job'[f].phase = "wake" /\ job'[f].batch = job[f].batch /\ job'[f].done = job[f].done
        BY <1>5 DEF append, TypeOK
      <3> QED  BY <1>1, <2>2, <3>1 DEF Waking, Event
    <2>3. CASE Event(f).aggregateID # a
      <3>1. sequence'[a] = sequence[a]
        BY <1>2, <1>5, <2>3 DEF append, TypeOK
      <3> QED  BY <1>2, <1>4, <3>1
    <2> QED  BY <2>2, <2>3
  <1> QED  BY <1>2, <1>4, <1>5, SequenceStep

LEMMA NoLostWakeAlways == Spec => [](LogInv /\ NoLostWake)
  <1>1. Init => NoLostWake
    BY DEF Init, Closed, NoLostWake
  <1>2. LogInv /\ NoLostWake /\ [Next]_vars => NoLostWake'
    BY NoLostWakeStep DEF LogInv
  <1> QED  BY <1>1, <1>2, LogInvAlways, PTL DEF Spec

\* A tail that has nothing ahead has read everything, or a fiber is about to wake it.
THEOREM NoWakeIsLost == Spec => []NoLostWake
  BY NoLostWakeAlways, PTL

-----------------------------------------------------------------------------
(* Streams.                                                                 *)

\* The rows between the start of a tail and its cursor.
Passed(r) ==
    {row \in RowsOf(reader[r].aggregateID) : reader[r].start < row.seq /\ row.seq <= reader[r].cursor}

\* What is fetched is on its way to the consumer; a cursor that has moved is at
\* most at the end of the log; a closed tail has delivered nothing.
Streams(r) ==
    /\ reader[r].phase = "closed" => delivered[r] = NothingDelivered
    /\ reader[r].phase # "deliver" => reader[r].fetched = {}
    /\ reader[r].start <= reader[r].cursor
    /\ reader[r].phase # "closed" /\ ~delivered[r].outlived =>
          /\ reader[r].start < reader[r].cursor => reader[r].cursor <= sequence[reader[r].aggregateID].seq
          /\ reader[r].fetched \cap delivered[r].rows = {}
          /\ delivered[r].rows \cup reader[r].fetched = Passed(r)
          /\ ~delivered[r].repeated

\* A tail that is not moved itself.
LEMMA OthersStream ==
    ASSUME TypeOK, LogContiguous, TableStep, NEW r \in Readers, Streams(r),
           reader'[r] = reader[r] \/ reader'[r] = [reader[r] EXCEPT !.dirty = TRUE],
           UNCHANGED delivered \/ \E a \in Aggregates : remove(a)
    PROVE  Streams(r)'
  <1>1. /\ reader'[r].phase = reader[r].phase /\ reader'[r].fetched = reader[r].fetched
        /\ reader'[r].start = reader[r].start /\ reader'[r].cursor = reader[r].cursor
        /\ reader'[r].aggregateID = reader[r].aggregateID
    BY DEF TypeOK
  <1>2. PICK a \in Aggregates : a = reader[r].aggregateID
    BY DEF TypeOK
  <1>3. sequence[a].seq \in Int /\ reader[r].cursor \in Int /\ reader[r].start \in Int
    BY DEF TypeOK, Positions, Unassigned
  <1>4. CASE reader[r].phase = "closed"
    <2>1. delivered'[r] = delivered[r]
      BY <1>4 DEF remove, tailsOf, TypeOK
    <2> QED  BY <1>1, <1>4, <2>1 DEF Streams
  <1>5. CASE UNCHANGED <<events, delivered>> /\ sequence'[a].seq = sequence[a].seq
    BY <1>1, <1>2, <1>5 DEF Streams, Passed, RowsOf
  <1>6. ASSUME NEW f \in Fibers, append(f), UNCHANGED delivered
        PROVE  Streams(r)'
    <2>1. PICK b \in Aggregates, new \in Rows :
              /\ b = Event(f).aggregateID /\ new = RowFor(f)
              /\ new.aggregateID = b /\ new.seq = sequence[b].seq + 1
      BY <1>6, Appended DEF Inputs
    <2>2. events' = events \cup {new}
      BY <1>6, <2>1 DEF append
    <2>3. CASE b = a
      <3>1. sequence'[a].seq = sequence[a].seq + 1
        BY <1>6, <2>1, <2>3, Appended DEF append, adopt, TypeOK
      <3>2. reader[r].start <= reader[r].cursor
        BY DEF Streams
      <3>3. CASE reader[r].phase # "closed" /\ ~delivered[r].outlived
        <4>1. ~(reader[r].start < new.seq /\ new.seq <= reader[r].cursor)
          BY <1>2, <1>3, <2>1, <2>3, <3>2, <3>3 DEF Streams
        <4>2. Passed(r)' = Passed(r)
          BY <1>1, <1>2, <2>2, <4>1 DEF Passed, RowsOf
        <4>3. reader[r].start < reader[r].cursor => reader[r].cursor <= sequence'[a].seq
          BY <1>2, <1>3, <3>1, <3>3 DEF Streams
        <4> QED  BY <1>1, <1>2, <1>6, <3>2, <3>3, <4>2, <4>3 DEF Streams
      <3>4. CASE ~(reader[r].phase # "closed" /\ ~delivered[r].outlived)
        BY <1>1, <1>6, <3>4 DEF Streams
      <3> QED  BY <3>3, <3>4
    <2>4. CASE b # a
      <3>1. sequence'[a] = sequence[a]
        BY <1>6, <2>1, <2>4 DEF append, TypeOK
      <3>2. Passed(r)' = Passed(r)
        BY <1>1, <1>2, <2>1, <2>2, <2>4 DEF Passed, RowsOf
      <3> QED  BY <1>1, <1>2, <1>6, <3>1, <3>2 DEF Streams
    <2> QED  BY <2>3, <2>4
  <1>7. ASSUME NEW b \in Aggregates, remove(b), reader[r].phase # "closed"
        PROVE  Streams(r)'
    <2>1. CASE b = a
      <3>1. r \in tailsOf(b)
        BY <1>2, <1>7, <2>1 DEF tailsOf
      <3>2. delivered'[r].outlived
        BY <1>7, <3>1 DEF remove, TypeOK
      <3> QED  BY <1>1, <1>7, <3>2 DEF Streams
    <2>2. CASE b # a
      <3>1. delivered'[r] = delivered[r]
        BY <1>2, <1>7, <2>2 DEF remove, tailsOf, TypeOK
      <3>2. sequence'[a] = sequence[a]
        BY <1>7, <2>2 DEF remove, TypeOK
      <3>3. Passed(r)' = Passed(r)
        BY <1>1, <1>2, <1>7, <2>2 DEF Passed, RowsOf, remove
      <3> QED  BY <1>1, <1>2, <3>1, <3>2, <3>3 DEF Streams
    <2> QED  BY <2>1, <2>2
  <1>8. ASSUME NEW f \in Fibers, replayExact(f)
        PROVE  events' = events /\ delivered' = delivered /\ sequence'[a].seq = sequence[a].seq
    <2>1. PICK b \in Aggregates : b = Event(f).aggregateID
      BY <1>8, EventType, TypeParts DEF replayExact, Inputs
    <2> QED  BY <1>8, <2>1 DEF replayExact, adopt, latest, tails, TypeOK
  <1>9. ASSUME NEW b \in Aggregates, NEW o \in Owners, claim(b, o)
        PROVE  events' = events /\ delivered' = delivered /\ sequence'[a].seq = sequence[a].seq
    BY <1>9 DEF claim, tails, TypeOK
  <1>10. ASSUME NEW f \in Fibers, append(f)
         PROVE  UNCHANGED delivered
    BY <1>10 DEF append, tails
  <1>11. ASSUME UNCHANGED <<tables, history>>, UNCHANGED delivered
         PROVE  UNCHANGED <<events, delivered>> /\ sequence'[a].seq = sequence[a].seq
    BY <1>11 DEF tables
  <1>12. ASSUME UNCHANGED <<tables, history>>, NEW b \in Aggregates, remove(b)
         PROVE  FALSE
    <2>1. life'[b] = life[b] + 1 /\ life'[b] = life[b] /\ life[b] \in Int
      BY <1>12, BoundAssumption DEF remove, history, TypeOK
    <2> QED  BY <2>1
  <1> QED  BY <1>4, <1>5, <1>6, <1>7, <1>8, <1>9, <1>10, <1>11, <1>12 DEF TableStep

\* One read takes the rows between the cursor and the end, none of them before.
LEMMA ReadStream ==
    ASSUME TypeOK, LogContiguous, NEW r \in Readers, Streams(r), read(r)
    PROVE  Streams(r)'
  <1>1. PICK a \in Aggregates : a = reader[r].aggregateID
    BY DEF TypeOK
  <1>2. PICK rows : rows = readAfter(a, reader[r].cursor)
    OBVIOUS
  <1> DEFINE old == reader[r].cursor
             last == sequence[a].seq
  <1>3. last \in Int /\ old \in Int /\ reader[r].start \in Int /\ old \in Positions
    BY DEF TypeOK, Positions, Unassigned
  <1>4. /\ reader'[r].phase = "deliver" /\ reader'[r].fetched = rows /\ reader'[r].start = reader[r].start
        /\ reader'[r].aggregateID = a /\ reader'[r].cursor = lastCursor(rows, old)
        /\ UNCHANGED <<events, sequence, delivered>>
        /\ reader[r].phase \in {"historical", "read"}
    BY <1>1, <1>2 DEF read, tables, TypeOK
  <1>5. reader'[r].cursor = IF old < last THEN last ELSE old
    BY <1>2, <1>3, <1>4, LastRow
  <1>6. \A row \in RowsOf(a) : row.seq \in Int /\ row.seq <= last
    BY <1>3 DEF LogContiguous
  <1>7. rows = {row \in RowsOf(a) : old < row.seq}
    BY <1>2, <1>3, <1>6 DEF readAfter
  <1> HIDE DEF old, last
  <1>8. reader[r].start <= old /\ reader[r].fetched = {}
    BY <1>4 DEF Streams, old
  <1>9. CASE delivered[r].outlived
    BY <1>3, <1>4, <1>5, <1>8, <1>9 DEF Streams
  <1>10. CASE ~delivered[r].outlived
    <2>1. /\ delivered[r].rows = {row \in RowsOf(a) : reader[r].start < row.seq /\ row.seq <= old}
          /\ reader[r].start < old => old <= last
          /\ ~delivered[r].repeated
      BY <1>1, <1>4, <1>8, <1>10 DEF Streams, Passed, old, last
    <2>2. rows \cap delivered[r].rows = {}
      BY <1>3, <1>6, <1>7, <2>1
    <2>3. Passed(r)' = {row \in RowsOf(a) : reader[r].start < row.seq /\ row.seq <= reader'[r].cursor}
      BY <1>4 DEF Passed, RowsOf
    <2>4. ASSUME NEW row \in RowsOf(a)
          PROVE  (reader[r].start < row.seq /\ row.seq <= reader'[r].cursor) <=>
                 \/ reader[r].start < row.seq /\ row.seq <= old
                 \/ old < row.seq
      BY <1>3, <1>5, <1>6, <1>8
    <2>5. delivered[r].rows \cup rows = Passed(r)'
      BY <1>7, <2>1, <2>3, <2>4
    <2>6. reader[r].start < reader'[r].cursor => reader'[r].cursor <= last
      BY <1>3, <1>5, <2>1
    <2>7. reader[r].start <= reader'[r].cursor
      BY <1>3, <1>5, <1>8
    <2>8. (sequence[reader[r].aggregateID].seq)' = last
      BY <1>4 DEF last
    <2> QED  BY <1>4, <2>1, <2>2, <2>5, <2>6, <2>7, <2>8 DEF Streams
  <1> QED  BY <1>9, <1>10

LEMMA DeliverStream ==
    ASSUME TypeOK, NEW r \in Readers, Streams(r), deliver(r)
    PROVE  Streams(r)'
  <1>1. /\ reader'[r].phase = "tail" /\ reader'[r].fetched = {} /\ reader'[r].start = reader[r].start
        /\ reader'[r].cursor = reader[r].cursor /\ reader'[r].aggregateID = reader[r].aggregateID
        /\ UNCHANGED <<events, sequence>> /\ reader[r].phase = "deliver"
    BY DEF deliver, tables, TypeOK
  <1>2. /\ delivered'[r].rows = delivered[r].rows \cup reader[r].fetched
        /\ delivered'[r].repeated =
              (delivered[r].repeated \/ reader[r].fetched \cap delivered[r].rows # {})
        /\ delivered'[r].outlived = delivered[r].outlived
    BY DEF deliver, TypeOK
  <1>3. Passed(r)' = Passed(r)
    BY <1>1 DEF Passed, RowsOf
  <1> QED  BY <1>1, <1>2, <1>3 DEF Streams

LEMMA StreamStep ==
    ASSUME TypeOK, LogContiguous, [Next]_vars, NEW r \in Readers, Streams(r)
    PROVE  Streams(r)'
  <1>1. TableStep
    BY StepOfTables
  <1>2. ASSUME reader'[r] = reader[r] \/ reader'[r] = [reader[r] EXCEPT !.dirty = TRUE],
               UNCHANGED delivered \/ \E a \in Aggregates : remove(a)
        PROVE  Streams(r)'
    BY <1>1, <1>2, OthersStream
  <1>3. CASE Crash \/ closeTail(r)
    <2>1. reader'[r] = Closed /\ delivered'[r] = NothingDelivered
      BY <1>3 DEF Crash, closeTail, TypeOK
    <2> QED  BY <2>1 DEF Streams, Closed, Unassigned
  <1>4. CASE subscribeSynchronized(r)
    <2>1. PICK a \in Aggregates, after \in Unassigned .. MaxSeq :
              reader'[r] = [phase |-> "historical", aggregateID |-> a, cursor |-> after, start |-> after,
                            fetched |-> {}, dirty |-> FALSE]
      BY <1>4 DEF subscribeSynchronized, TypeOK
    <2>2. delivered'[r] = NothingDelivered
      BY <1>4 DEF subscribeSynchronized, Streams
    <2>3. \A row \in Rows : ~(after < row.seq /\ row.seq <= after)
      BY DEF Rows, Unassigned
    <2>4. TablesOK'
      BY <1>1, TablesTyped
    <2>5. Passed(r)' = {}
      BY <2>1, <2>3, <2>4 DEF Passed, RowsOf, TablesOK
    <2> QED  BY <2>1, <2>2, <2>5 DEF Streams, NothingDelivered, Unassigned
  <1>5. CASE takeSignal(r)
    <2>1. /\ reader'[r].phase = "read" /\ reader'[r].fetched = reader[r].fetched
          /\ reader'[r].start = reader[r].start /\ reader'[r].cursor = reader[r].cursor
          /\ reader'[r].aggregateID = reader[r].aggregateID
          /\ UNCHANGED <<events, sequence, delivered>> /\ reader[r].phase = "tail"
      BY <1>5 DEF takeSignal, tables, TypeOK
    <2>2. Passed(r)' = Passed(r)
      BY <2>1 DEF Passed, RowsOf
    <2> QED  BY <2>1, <2>2 DEF Streams
  <1>6. ASSUME NEW q \in Readers, Streaming(q), q # r
        PROVE  Streams(r)'
    <2>1. /\ reader'[r] = reader[r] /\ delivered'[r] = delivered[r] /\ UNCHANGED <<events, sequence>>
      BY <1>6 DEF Streaming, subscribeSynchronized, read, deliver, takeSignal, closeTail, tables, TypeOK
    <2> QED  BY <2>1 DEF Streams, Passed, RowsOf
  <1>7. ASSUME NEW f \in Fibers, wakeTails(f)
        PROVE  Streams(r)'
    BY <1>2, <1>7 DEF wakeTails
  <1>8. CASE UNCHANGED tails
    BY <1>2, <1>8 DEF tails
  <1>9. ASSUME NEW a \in Aggregates, remove(a)
        PROVE  Streams(r)'
    BY <1>2, <1>9 DEF remove
  <1> QED
    BY <1>3, <1>4, <1>5, <1>6, <1>7, <1>8, <1>9, ReadStream, DeliverStream
    DEF Next, vars, Step, Streaming, commitSyncEvent, publish, replayWorkspace, replayAll, Start,
        commitRefused, commitRolledBack, replayExact, replayForeign, append, notify, Interrupt, claim

LEMMA StreamsAlways == Spec => [](LogInv /\ \A r \in Readers : Streams(r))
  <1>1. ASSUME Init PROVE \A r \in Readers : Streams(r)
    BY <1>1 DEF Init, Streams, Closed, NothingDelivered, Unassigned
  <1>2. LogInv /\ (\A r \in Readers : Streams(r)) /\ [Next]_vars => (\A r \in Readers : Streams(r))'
    BY StreamStep DEF LogInv
  <1> QED  BY <1>1, <1>2, LogInvAlways, PTL DEF Spec

\* A tail delivers exactly the rows between its start and its cursor, each once.
THEOREM StreamsAreExact == Spec => []StreamIsExact
  <1>1. LogInv /\ (\A r \in Readers : Streams(r)) => StreamIsExact
    BY DEF Streams, Passed, StreamIsExact
  <1> QED  BY <1>1, StreamsAlways, PTL

-----------------------------------------------------------------------------
(* The log implements the feed.                                             *)

\* What is shown of an aggregate: one entry for each of its rows.
ShownOK == \A a \in Aggregates :
    /\ Shown[a] \in Seq(Feed!Entries)
    /\ Len(Shown[a]) = sequence[a].seq + 1
    /\ \A n \in 1 .. sequence[a].seq + 1 :
          /\ Shown[a][n] = EntryAt(a, n - 1)
          /\ \E row \in events : row = At(a, n - 1) /\ row.aggregateID = a /\ row.seq = n - 1
    /\ \A row \in RowsOf(a) : At(a, row.seq) = row /\ row.seq + 1 \in 1 .. sequence[a].seq + 1

LEMMA ShownTyped == LogInv => ShownOK
  <1> SUFFICES ASSUME LogInv, NEW a \in Aggregates
               PROVE  /\ Shown[a] \in Seq(Feed!Entries)
                      /\ Len(Shown[a]) = sequence[a].seq + 1
                      /\ \A n \in 1 .. sequence[a].seq + 1 :
                            /\ Shown[a][n] = EntryAt(a, n - 1)
                            /\ \E row \in events : row = At(a, n - 1) /\ row.aggregateID = a /\ row.seq = n - 1
                      /\ \A row \in RowsOf(a) : At(a, row.seq) = row /\ row.seq + 1 \in 1 .. sequence[a].seq + 1
    BY DEF ShownOK
  <1> DEFINE k == sequence[a].seq + 1
  <1>1. k \in Nat /\ sequence[a].seq = k - 1
    BY DEF LogInv, TypeOK, Positions, Unassigned
  <1> HIDE DEF k
  <1>2. ASSUME NEW n \in 1 .. k
        PROVE  \E row \in events : row = At(a, n - 1) /\ row.aggregateID = a /\ row.seq = n - 1
    <2>1. n - 1 \in {row.seq : row \in RowsOf(a)}
      BY <1>1 DEF LogInv, LogContiguous
    <2>2. \E row \in events : row.aggregateID = a /\ row.seq = n - 1
      BY <2>1 DEF RowsOf
    <2> QED  BY <2>2 DEF At
  <1>3. \A n \in 1 .. k : EntryAt(a, n - 1) \in Feed!Entries
    BY <1>2 DEF EntryAt, Feed!Entries, LogInv, TypeOK, Rows
  <1>4. Shown[a] = [n \in 1 .. k |-> EntryAt(a, n - 1)]
    BY DEF Shown, k
  <1>5. Shown[a] \in [1 .. k -> Feed!Entries]
    BY <1>3, <1>4
  <1>6. Shown[a] \in Seq(Feed!Entries)
    BY <1>1, <1>5, SeqDef
  <1>7. DOMAIN Shown[a] = 1 .. Len(Shown[a]) /\ Len(Shown[a]) \in Nat
    BY <1>6, LenProperties
  <1>8. Len(Shown[a]) = k
    BY <1>1, <1>4, <1>7
  <1>9. ASSUME NEW row \in RowsOf(a)
        PROVE  At(a, row.seq) = row /\ row.seq + 1 \in 1 .. k
    <2>1. row.seq \in 0 .. (k - 1)
      BY <1>1 DEF LogInv, LogContiguous
    <2>2. At(a, row.seq) \in events /\ At(a, row.seq).aggregateID = a /\ At(a, row.seq).seq = row.seq
      BY DEF At, RowsOf
    <2>3. At(a, row.seq) = row
      BY <2>2 DEF LogInv, LogContiguous, RowsOf
    <2> QED  BY <1>1, <2>1, <2>3
  <1> QED  BY <1>2, <1>4, <1>6, <1>8, <1>9 DEF k

LEMMA ShownTypedNext == LogInv' => ShownOK'
  BY ShownTyped, PTL

\* Rows that stay are shown as before.
LEMMA ShownKept ==
    ASSUME LogInv, LogInv', NEW a \in Aggregates, NEW n \in 1 .. sequence[a].seq + 1,
           At(a, n - 1) \in events', n \in 1 .. sequence'[a].seq + 1
    PROVE  Shown'[a][n] = Shown[a][n]
  <1>1. ShownOK /\ ShownOK'
    BY ShownTyped, ShownTypedNext
  <1>2. PICK row \in events : row = At(a, n - 1) /\ row.aggregateID = a /\ row.seq = n - 1
    BY <1>1 DEF ShownOK
  <1>3. row \in RowsOf(a)'
    BY <1>2 DEF RowsOf
  <1>4. At(a, n - 1)' = row
    BY <1>1, <1>2, <1>3 DEF ShownOK
  <1>5. EntryAt(a, n - 1)' = EntryAt(a, n - 1)
    BY <1>2, <1>4 DEF EntryAt
  <1> QED  BY <1>1, <1>5 DEF ShownOK

\* An aggregate whose rows stay is shown as before.
LEMMA ShownSame ==
    ASSUME LogInv, LogInv', NEW a \in Aggregates, sequence'[a].seq = sequence[a].seq,
           RowsOf(a) \subseteq events'
    PROVE  Shown'[a] = Shown[a]
  <1>1. ShownOK /\ ShownOK'
    BY ShownTyped, ShownTypedNext
  <1>2. \A n \in 1 .. sequence[a].seq + 1 : Shown'[a][n] = Shown[a][n]
    <2> TAKE n \in 1 .. sequence[a].seq + 1
    <2>1. At(a, n - 1) \in RowsOf(a)
      BY <1>1 DEF ShownOK, RowsOf
    <2> QED  BY <2>1, ShownKept
  <1>3. /\ Shown[a] \in Seq(Feed!Entries) /\ Shown'[a] \in Seq(Feed!Entries)
        /\ Len(Shown[a]) = sequence[a].seq + 1 /\ Len(Shown'[a]) = sequence[a].seq + 1
    BY <1>1 DEF ShownOK, Feed!Entries
  <1> QED  BY <1>2, <1>3, SeqEqual

LEMMA ShownUnmoved ==
    ASSUME LogInv, LogInv', \A a \in Aggregates : sequence'[a].seq = sequence[a].seq, events \subseteq events'
    PROVE  Shown' = Shown
  <1>1. \A a \in Aggregates : Shown'[a] = Shown[a]
    BY ShownSame DEF RowsOf
  <1> QED  BY <1>1 DEF Shown

LEMMA AppendAdds ==
    ASSUME LogInv, LogInv', NEW f \in Fibers, append(f)
    PROVE  Feed!Next
  <1>0. TypeOK
    BY DEF LogInv
  <1>1. ShownOK /\ ShownOK'
    BY ShownTyped, ShownTypedNext
  <1>2. PICK a \in Aggregates, new \in Rows :
            /\ a = Event(f).aggregateID /\ new = RowFor(f)
            /\ new.aggregateID = a /\ new.seq = sequence[a].seq + 1
            /\ \A row \in events : row.id # new.id
    BY <1>0, Appended DEF Inputs
  <1>3. /\ events' = events \cup {new}
        /\ sequence'[a].seq = sequence[a].seq + 1
        /\ \A b \in Aggregates : b # a => sequence'[b] = sequence[b]
    BY <1>0, <1>2, Appended DEF append, adopt, TypeOK
  <1> DEFINE entry == [id |-> new.id, content |-> new.content]
  <1>4. entry \in Feed!Entries
    BY DEF Feed!Entries, Rows
  <1>5. ~Feed!Used(entry.id)
    <2> SUFFICES ASSUME NEW b \in Aggregates, NEW n \in DOMAIN Shown[b], Shown[b][n].id = entry.id
                 PROVE  FALSE
      BY DEF Feed!Used
    <2>1. n \in 1 .. sequence[b].seq + 1
      BY DEF Shown
    <2>2. PICK row \in events : row = At(b, n - 1)
      BY <1>1, <2>1 DEF ShownOK
    <2>3. Shown[b][n] = EntryAt(b, n - 1)
      BY <1>1, <2>1 DEF ShownOK
    <2>4. Shown[b][n].id = row.id
      BY <2>2, <2>3 DEF EntryAt
    <2> QED  BY <1>2, <2>4
  <1>6. \A b \in Aggregates : b # a => Shown'[b] = Shown[b]
    BY <1>3, ShownSame DEF RowsOf
  <1>7. Shown'[a] = Append(Shown[a], entry)
    <2>0. sequence[a].seq + 1 \in Nat
      BY <1>0 DEF TypeOK, Positions, Unassigned
    <2>1. PICK k \in Nat : sequence'[a].seq = k /\ new.seq = k /\ sequence[a].seq + 1 = k
      BY <1>2, <1>3, <2>0
    <2>2. Shown[a] \in Seq(Feed!Entries) /\ Len(Shown[a]) = k
      BY <1>1, <2>1 DEF ShownOK
    <2>3. /\ Append(Shown[a], entry) \in Seq(Feed!Entries)
          /\ Len(Append(Shown[a], entry)) = k + 1
          /\ \A i \in 1 .. k : Append(Shown[a], entry)[i] = Shown[a][i]
          /\ Append(Shown[a], entry)[k + 1] = entry
      BY <1>4, <2>1, <2>2, AppendProperties
    <2>4. Shown'[a] \in Seq(Feed!Entries) /\ Len(Shown'[a]) = k + 1
      BY <1>1, <2>1 DEF ShownOK, Feed!Entries
    <2>5. ASSUME NEW i \in 1 .. k
          PROVE  Shown'[a][i] = Shown[a][i]
      <3>1. At(a, i - 1) \in events
        BY <1>1, <2>1 DEF ShownOK
      <3> QED  BY <1>3, <2>1, <3>1, ShownKept
    <2>6. Shown'[a][k + 1] = entry
      <3>1. new \in RowsOf(a)'
        BY <1>2, <1>3 DEF RowsOf
      <3>2. At(a, new.seq)' = new
        BY <1>1, <3>1 DEF ShownOK
      <3>3. Shown'[a][k + 1] = EntryAt(a, (k + 1) - 1)'
        BY <1>1, <2>1 DEF ShownOK
      <3>4. (k + 1) - 1 = k
        BY <2>1
      <3> QED  BY <2>1, <3>2, <3>3, <3>4 DEF EntryAt
    <2>7. \A i \in 1 .. k + 1 : Shown'[a][i] = Append(Shown[a], entry)[i]
      BY <2>1, <2>3, <2>5, <2>6
    <2> QED  BY <2>3, <2>4, <2>7, SeqEqual
  <1> HIDE DEF entry
  <1>8. Shown' = [Shown EXCEPT ![a] = Append(@, entry)]
    BY <1>6, <1>7 DEF Shown
  <1>9. UNCHANGED Following
    BY DEF append, tails, Following
  <1>10. Feed!Add(a)
    BY <1>4, <1>5, <1>8, <1>9 DEF Feed!Add
  <1> QED  BY <1>10 DEF Feed!Next

LEMMA RemoveErases ==
    ASSUME LogInv, LogInv', NEW a \in Aggregates, remove(a)
    PROVE  Feed!Next
  <1>1. /\ events' = events \ RowsOf(a) /\ sequence'[a].seq = -1
        /\ \A b \in Aggregates : b # a => sequence'[b] = sequence[b]
    BY DEF remove, NoSequence, Unassigned, LogInv, TypeOK
  <1>2. \A b \in Aggregates : b # a => Shown'[b] = Shown[b]
    BY <1>1, ShownSame DEF RowsOf
  <1>3. Shown'[a] = <<>>
    <2>1. Shown'[a] \in Seq(Feed!Entries) /\ Len(Shown'[a]) = 0
      BY <1>1, ShownTypedNext DEF ShownOK, Feed!Entries
    <2> QED  BY <2>1, EmptySeq
  <1>4. Shown' = [Shown EXCEPT ![a] = <<>>]
    BY <1>2, <1>3 DEF Shown
  <1>5. UNCHANGED Following
    BY DEF remove, Following
  <1>6. Feed!Erase(a)
    BY <1>4, <1>5 DEF Feed!Erase
  <1> QED  BY <1>6 DEF Feed!Next

LEMMA ReadTakes ==
    ASSUME LogInv, LogInv', NEW r \in Readers, read(r)
    PROVE  [Feed!Next]_(Feed!vars)
  <1>0. TypeOK /\ LogContiguous
    BY DEF LogInv
  <1>1. PICK a \in Aggregates, old \in Positions, last \in Positions :
            a = reader[r].aggregateID /\ old = reader[r].cursor /\ last = sequence[a].seq
    BY <1>0 DEF TypeOK
  <1>2. last \in Int /\ old \in Int
    BY DEF Positions, Unassigned
  <1>3. /\ reader'[r].phase = "deliver" /\ reader[r].phase # "closed"
        /\ reader'[r].aggregateID = a /\ reader'[r].cursor = lastCursor(readAfter(a, old), old)
        /\ \A q \in Readers : q # r => reader'[q] = reader[q]
        /\ UNCHANGED <<events, sequence>>
    BY <1>0, <1>1 DEF read, tables, TypeOK
  <1>4. reader'[r].cursor = IF old < last THEN last ELSE old
    BY <1>0, <1>1, <1>3, LastRow
  <1>5. Shown' = Shown
    BY <1>3, ShownUnmoved
  <1>6. Len(Shown[a]) = last + 1
    BY <1>1, ShownTyped DEF ShownOK
  <1>7. /\ Following[r] = [open |-> TRUE, aggregateID |-> a, position |-> old + 1]
        /\ Following'[r] = [open |-> TRUE, aggregateID |-> a, position |-> reader'[r].cursor + 1]
    BY <1>1, <1>3 DEF Following
  <1>8. \A q \in Readers : q # r => Following'[q] = Following[q]
    BY <1>3 DEF Following
  <1>9. CASE old < last
    <2>1. Following'[r] = [open |-> TRUE, aggregateID |-> Following[r].aggregateID,
                           position |-> Len(Shown[Following[r].aggregateID])]
      <3>1. reader'[r].cursor + 1 = Len(Shown[a])
        BY <1>4, <1>6, <1>9
      <3>2. Following[r].aggregateID = a
        BY <1>7
      <3> QED  BY <1>7, <3>1, <3>2
    <2>2. Following' = [Following EXCEPT ![r] = [open |-> TRUE, aggregateID |-> Following[r].aggregateID,
                                                 position |-> Len(Shown[Following[r].aggregateID])]]
      BY <1>8, <2>1 DEF Following
    <2>3. Feed!Take(r)
      BY <1>2, <1>5, <1>6, <1>7, <1>9, <2>2 DEF Feed!Take
    <2> QED  BY <2>3 DEF Feed!Next
  <1>10. CASE ~(old < last)
    <2>1. Following' = Following
      BY <1>4, <1>7, <1>8, <1>10 DEF Following
    <2> QED  BY <1>5, <2>1 DEF Feed!vars
  <1> QED  BY <1>9, <1>10

LEMMA SubscribeOpens ==
    ASSUME LogInv, LogInv', NEW r \in Readers, subscribeSynchronized(r)
    PROVE  Feed!Next
  <1>1. PICK a \in Aggregates, after \in Unassigned .. MaxSeq :
            reader' = [reader EXCEPT ![r] = [phase |-> "historical", aggregateID |-> a,
                                             cursor |-> after, start |-> after,
                                             fetched |-> {}, dirty |-> FALSE]]
    BY DEF subscribeSynchronized
  <1>2. Shown' = Shown
    BY ShownUnmoved DEF subscribeSynchronized, tables
  <1>3. ~Following[r].open
    BY DEF subscribeSynchronized, Following
  <1>4. after + 1 \in 0 .. MaxSeq + 1
    BY BoundAssumption DEF Unassigned
  <1>5. Following' = [Following EXCEPT ![r] = [open |-> TRUE, aggregateID |-> a, position |-> after + 1]]
    BY <1>1 DEF Following, LogInv, TypeOK
  <1>6. Feed!Open(r)
    BY <1>2, <1>3, <1>4, <1>5 DEF Feed!Open
  <1> QED  BY <1>6 DEF Feed!Next

\* One tail or all of them close.
LEMMA CloseLeaves ==
    ASSUME LogInv, LogInv', NEW left \in SUBSET Readers, UNCHANGED tables,
           reader' = [r \in Readers |-> IF r \in left THEN Closed ELSE reader[r]]
    PROVE  Feed!Next
  <1>1. Shown' = Shown
    BY ShownUnmoved DEF tables
  <1>2. Closed.aggregateID \in Aggregates /\ Closed.phase = "closed" /\ Closed.cursor + 1 = 0
    BY AggregateAssumption DEF Closed, Unassigned
  <1> DEFINE at == [r \in left |-> Closed.aggregateID]
  <1>3. at \in [left -> Aggregates]
    BY <1>2
  <1>4. Following' = [r \in Readers |->
            IF r \in left THEN [open |-> FALSE, aggregateID |-> at[r], position |-> 0] ELSE Following[r]]
    BY <1>2 DEF Following
  <1> HIDE DEF at
  <1>5. Feed!Leave
    BY <1>1, <1>3, <1>4 DEF Feed!Leave
  <1> QED  BY <1>5 DEF Feed!Next

LEMMA LogStep ==
    ASSUME LogInv, LogInv', [Next]_vars
    PROVE  [Feed!Next]_(Feed!vars)
  <1>1. ASSUME \A a \in Aggregates : sequence'[a].seq = sequence[a].seq, events' = events,
               UNCHANGED Following
        PROVE  [Feed!Next]_(Feed!vars)
    BY <1>1, ShownUnmoved DEF Feed!vars
  <1>2. CASE UNCHANGED tables /\ UNCHANGED Following
    BY <1>1, <1>2 DEF tables
  <1>3. ASSUME NEW f \in Fibers, replayExact(f)
        PROVE  [Feed!Next]_(Feed!vars)
    <2>1. PICK a \in Aggregates : a = Event(f).aggregateID
      BY <1>3, EventType, TypeParts DEF LogInv, replayExact, Inputs
    <2>2. \A b \in Aggregates : sequence'[b].seq = sequence[b].seq
      BY <1>3, <2>1 DEF replayExact, adopt, latest, LogInv, TypeOK
    <2> QED  BY <1>1, <1>3, <2>2 DEF replayExact, tails, Following
  <1>4. ASSUME NEW a \in Aggregates, NEW o \in Owners, claim(a, o)
        PROVE  [Feed!Next]_(Feed!vars)
    <2>1. \A b \in Aggregates : sequence'[b].seq = sequence[b].seq
      BY <1>4 DEF claim, LogInv, TypeOK
    <2> QED  BY <1>1, <1>4, <2>1 DEF claim, tails, Following
  <1>5. ASSUME NEW f \in Fibers, wakeTails(f)
        PROVE  UNCHANGED tables /\ UNCHANGED Following
    <2>1. \A r \in Readers : /\ reader'[r].phase = reader[r].phase /\ reader'[r].cursor = reader[r].cursor
                              /\ reader'[r].aggregateID = reader[r].aggregateID
      BY <1>5 DEF wakeTails, LogInv, TypeOK
    <2> QED  BY <1>5, <2>1 DEF wakeTails, Following
  <1>6. ASSUME NEW r \in Readers, deliver(r) \/ takeSignal(r)
        PROVE  UNCHANGED tables /\ UNCHANGED Following
    <2>0. reader \in [Readers -> [phase : {"closed", "historical", "deliver", "tail", "read"},
                                  aggregateID : Aggregates, cursor : Positions, start : Positions,
                                  fetched : SUBSET Rows, dirty : BOOLEAN]]
      BY DEF LogInv, TypeOK
    <2>1. \A q \in Readers : /\ reader'[q].cursor = reader[q].cursor
                              /\ reader'[q].aggregateID = reader[q].aggregateID
                              /\ (reader'[q].phase = "closed") = (reader[q].phase = "closed")
      BY <1>6, <2>0 DEF deliver, takeSignal
    <2> QED  BY <1>6, <2>1 DEF deliver, takeSignal, Following
  <1>7. ASSUME NEW r \in Readers, closeTail(r)
        PROVE  Feed!Next
    <2>1. reader' = [q \in Readers |-> IF q \in {r} THEN Closed ELSE reader[q]]
      BY <1>7 DEF closeTail, LogInv, TypeOK
    <2> QED  BY <1>7, <2>1, CloseLeaves DEF closeTail
  <1>8. CASE Crash
    <2>1. reader' = [q \in Readers |-> IF q \in Readers THEN Closed ELSE reader[q]]
      BY <1>8 DEF Crash
    <2> QED  BY <1>8, <2>1, CloseLeaves DEF Crash
  <1>9. ASSUME UNCHANGED <<tables, tails>>
        PROVE  UNCHANGED tables /\ UNCHANGED Following
    BY <1>9 DEF tails, Following
  <1> QED
    BY <1>2, <1>3, <1>4, <1>5, <1>6, <1>7, <1>8, <1>9,
       AppendAdds, RemoveErases, ReadTakes, SubscribeOpens
    DEF Next, vars, Step, Streaming, commitSyncEvent, publish, replayWorkspace, replayAll, Start,
        commitRefused, commitRolledBack, replayForeign, notify, Interrupt

LEMMA LogInit == Init => Feed!Init
  <1> SUFFICES ASSUME Init PROVE Feed!Init
    OBVIOUS
  <1>1. Shown = [a \in Aggregates |-> <<>>]
    <2>1. ASSUME NEW a \in Aggregates PROVE Shown[a] = <<>>
      <3>1. Shown[a] \in Seq(Feed!Entries) /\ Len(Shown[a]) = 0
        BY LogInvInit, ShownTyped DEF ShownOK, Init, NoSequence, Unassigned
      <3> QED  BY <3>1, EmptySeq
    <2> QED  BY <2>1 DEF Shown
  <1>2. Closed.aggregateID \in Aggregates /\ Closed.phase = "closed" /\ Closed.cursor + 1 = 0
    BY AggregateAssumption DEF Closed, Unassigned
  <1>3. Following \in [Readers -> [open : {FALSE}, aggregateID : Aggregates, position : {0}]]
    BY <1>2 DEF Init, Following
  <1> QED  BY <1>1, <1>3 DEF Feed!Init

\* Rows, owners, jobs and signals together are a feed per aggregate that grows at
\* its end only, in which no event occurs twice, and which each tail reads in order.
THEOREM LogImplementsFeed == Spec => Feed!Spec
  <1>1. LogInv /\ LogInv' /\ [Next]_vars => [Feed!Next]_(Feed!vars)
    BY LogStep
  <1> QED  BY <1>1, LogInit, LogInvAlways, PTL DEF Spec, Feed!Spec

=============================================================================
