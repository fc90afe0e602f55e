------------------------------ MODULE EventLog ------------------------------
(***************************************************************************)
(* The durable event log of packages/core/src/event.ts: events are         *)
(* published locally or replayed from another server, committed one at a   *)
(* time to SQLite under a gapless sequence per aggregate, and then         *)
(* announced: first to the tails of the aggregate (streamEvents), then to  *)
(* the live observers.                                                     *)
(*                                                                         *)
(* A transaction is one action ("behavior: immediate" serialises writers). *)
(* Between the transaction of a fiber, its wake of the tails and its live  *)
(* notification any other fiber runs; a process crash drops the fibers and *)
(* the tails and keeps the database.                                       *)
(***************************************************************************)
EXTENDS Integers, Sequences, FiniteSets

CONSTANTS
    Aggregates,     \* aggregate ids (Sessions)
    EventIDs,       \* event ids
    Contents,       \* what an event says: its versioned type and encoded data
    Owners,         \* replay owners (workspaces)
    NoOwner,        \* a null owner_id, or a replay without ownerID
    Local,          \* history: the author of a locally published event
    Wire,           \* batches of serialized events other servers send
    Fibers,         \* fibers that publish and replay
    Readers,        \* consumers of streamEvents
    MaxSeq,         \* bound: the highest sequence of an aggregate
    MaxLives        \* bound: how often an aggregate is removed

\* The sequence of an event that is published locally (input is undefined), and
\* the latest sequence of an aggregate without a row (row?.seq ?? -1).
Unassigned == -1
Serialized == [id : EventIDs, aggregateID : Aggregates, seq : Nat, content : Contents]

ASSUME OwnerAssumption == NoOwner \notin Owners /\ Local \notin Owners \cup {NoOwner}
ASSUME AggregateAssumption == Aggregates # {}
ASSUME BoundAssumption == MaxSeq \in Nat /\ MaxLives \in Nat

\* replayAll rejects a batch that mixes aggregates or skips a sequence before it
\* commits anything (lines 492-511), so the batches that get further are these.
Contiguous(batch) ==
    \A i \in DOMAIN batch : /\ batch[i].aggregateID = batch[1].aggregateID
                            /\ batch[i].seq = batch[1].seq + i - 1

ASSUME WireAssumption ==
    \A batch \in Wire : batch \in Seq(Serialized) /\ batch # <<>> /\ Contiguous(batch)

VARIABLES
    sequence,       \* EventSequenceTable: latest seq and owner of each aggregate
    events,         \* EventTable: the stored rows
    job,            \* what each fiber publishes or replays, and how far it is
    reader,         \* the tails of streamEvents
    delivered,      \* history: the rows each tail has delivered, whether it delivered one
                    \* twice, and whether its aggregate was removed meanwhile
    life,           \* history: how often each aggregate has been removed
    author,         \* history: who appended each row of an aggregate, in order
    fence           \* history: rows and former owner when the owner last changed

tables == <<sequence, events>>
tails == <<reader, delivered>>
history == <<life, author, fence>>
vars == <<tables, job, tails, history>>

Rows == [id : EventIDs, aggregateID : Aggregates, seq : Nat, content : Contents]

RowsOf(a) == {row \in events : row.aggregateID = a}

-----------------------------------------------------------------------------
(* Starting to publish or replay.                                           *)

NoJob == [phase |-> "idle", batch |-> <<>>, done |-> 0, ownerID |-> NoOwner,
          strictOwner |-> FALSE, publish |-> FALSE, life |-> 0]

Start(f, batch, ownerID, strictOwner, publish) ==
    /\ job[f].phase = "idle"
    /\ job' = [job EXCEPT ![f] =
          [phase |-> "commit", batch |-> batch, done |-> 0, ownerID |-> ownerID,
           strictOwner |-> strictOwner, publish |-> publish,
           life |-> life[batch[1].aggregateID]]]
    /\ UNCHANGED <<tables, tails, history>>

\* publish: the sequence is assigned by the transaction; nobody owns the event.
publish(f) ==
    \E i \in EventIDs, a \in Aggregates, c \in Contents :
        Start(f, <<[id |-> i, aggregateID |-> a, seq |-> Unassigned, content |-> c]>>,
              NoOwner, FALSE, TRUE)

\* The callers of replay and replayAll: workspace sync replays the history and
\* the events of a remote workspace (control-plane/workspace.ts:367 and 418),
\* and the HTTP handler replays what a client uploads (handlers/sync.ts:51).
replayWorkspace(f) ==
    \E batch \in Wire, o \in Owners : Len(batch) = 1 /\ Start(f, batch, o, FALSE, TRUE)

replayAll(f) ==
    \E batch \in Wire, o \in Owners \cup {NoOwner} : Start(f, batch, o, TRUE, FALSE)

-----------------------------------------------------------------------------
(* commitSyncEvent: one transaction, then the wake of the aggregate's tails. *)

Event(f) == job[f].batch[job[f].done + 1]
Replayed(f) == Event(f).seq # Unassigned
owner(f) == sequence[Event(f).aggregateID].ownerID
latest(f) == sequence[Event(f).aggregateID].seq
assigned(f) == IF Replayed(f) THEN Event(f).seq ELSE latest(f) + 1
RowFor(f) == [Event(f) EXCEPT !.seq = assigned(f)]

\* Another owner holds the aggregate.
Foreign(f) == Replayed(f) /\ owner(f) # NoOwner /\ owner(f) # job[f].ownerID

strictMismatch(f) == Foreign(f) /\ job[f].strictOwner

\* The event's position is taken, by itself or by another event.
Stale(f) == Replayed(f) /\ Event(f).seq <= latest(f)

\* Mutant: the stored row at the position is taken for the event, unread.
exactUnread(f) == Stale(f)

exact(f) == Stale(f) /\ RowFor(f) \in events

Diverged(f) == Stale(f) /\ ~exact(f)

\* A fresh event may be appended.
Fresh(f) == ~Stale(f) /\ ~Foreign(f)

\* Mutant: any later position is accepted.
misplacedNever(f) == FALSE

misplaced(f) == Fresh(f) /\ assigned(f) # latest(f) + 1

reused(f) == Fresh(f) /\ \E row \in events : row.id = Event(f).id

\* Go on with the next event of the batch, or return.
Advance(f) ==
    IF job[f].done + 1 = Len(job[f].batch) THEN NoJob
    ELSE [job[f] EXCEPT !.done = @ + 1, !.phase = "commit"]

\* A defect ends the whole call; what it has committed stays.
Die(f) == job' = [job EXCEPT ![f] = NoJob]

commitRefused(f) ==
    /\ job[f].phase = "commit"
    /\ strictMismatch(f) \/ Diverged(f) \/ misplaced(f) \/ reused(f)
    /\ Die(f)
    /\ UNCHANGED <<tables, tails, history>>

\* A commit guard, a projector or the commit hook dies: the transaction rolls back.
commitRolledBack(f) ==
    /\ job[f].phase = "commit"
    /\ Fresh(f)
    /\ Die(f)
    /\ UNCHANGED <<tables, tails, history>>

\* The owner of an aggregate changes; rows so far are not the new owner's concern.
Own(a, o) ==
    fence' = [fence EXCEPT ![a] = [from |-> Len(author[a]), ownerID |-> o, former |-> sequence[a].ownerID]]

Adopts(f) == job[f].ownerID # NoOwner /\ owner(f) = NoOwner

\* Mutant: a replay takes over an aggregate that already has an owner.
adoptAlways(f, seq) ==
    [seq |-> seq, ownerID |-> IF job[f].ownerID # NoOwner THEN job[f].ownerID ELSE owner(f)]

adopt(f, seq) ==
    [seq |-> seq, ownerID |-> IF Adopts(f) THEN job[f].ownerID ELSE owner(f)]

\* An exact duplicate is already there; it still claims an aggregate without owner.
replayExact(f) ==
    /\ job[f].phase = "commit" /\ exact(f) /\ ~strictMismatch(f)
    /\ sequence' = [sequence EXCEPT ![Event(f).aggregateID] = adopt(f, latest(f))]
    /\ job' = [job EXCEPT ![f] = Advance(f)]
    /\ IF Adopts(f) THEN Own(Event(f).aggregateID, job[f].ownerID) ELSE UNCHANGED fence
    /\ UNCHANGED <<events, tails, life, author>>

\* A lenient replay by another owner is dropped without a word.
replayForeign(f) ==
    /\ job[f].phase = "commit"
    /\ Foreign(f) /\ ~job[f].strictOwner /\ ~Stale(f)
    /\ job' = [job EXCEPT ![f] = Advance(f)]
    /\ UNCHANGED <<tables, tails, history>>

append(f) ==
    LET a == Event(f).aggregateID IN
    /\ job[f].phase = "commit"
    /\ Fresh(f) /\ ~misplaced(f) /\ ~reused(f)
    /\ assigned(f) <= MaxSeq
    /\ sequence' = [sequence EXCEPT ![a] = adopt(f, assigned(f))]
    /\ events' = events \cup {RowFor(f)}
    /\ job' = [job EXCEPT ![f].phase = "wake"]
    /\ author' = [author EXCEPT ![a] = Append(@, IF Replayed(f) THEN job[f].ownerID ELSE Local)]
    /\ IF sequence'[a].ownerID # owner(f)
       THEN Own(a, sequence'[a].ownerID) ELSE UNCHANGED fence
    /\ UNCHANGED <<tails, life>>

commitSyncEvent(f) ==
    commitRefused(f) \/ commitRolledBack(f) \/ replayExact(f) \/ replayForeign(f) \/ append(f)

\* The tails registered for an aggregate: those opened and not yet closed.
\* Mutant: only a tail that waits for a signal gets one.
tailsOfWaiting(a) == {r \in Readers : reader[r].phase = "tail" /\ reader[r].aggregateID = a}

tailsOf(a) == {r \in Readers : reader[r].phase # "closed" /\ reader[r].aggregateID = a}

\* Mutant: only what is published to live observers wakes the tails.
wakeTailsPublished(f) ==
    /\ job[f].phase = "wake"
    /\ reader' = [r \in Readers |->
          IF job[f].publish /\ r \in tailsOf(Event(f).aggregateID)
          THEN [reader[r] EXCEPT !.dirty = TRUE] ELSE reader[r]]
    /\ job' = [job EXCEPT ![f] = IF job[f].publish THEN [@ EXCEPT !.phase = "notify"] ELSE Advance(f)]
    /\ UNCHANGED <<tables, delivered, history>>

\* Each tail has a sliding queue of one signal (lines 370-376); commit and wake
\* are uninterruptible.  A replay that is not published ends here.
wakeTails(f) ==
    /\ job[f].phase = "wake"
    /\ reader' = [r \in Readers |->
          IF r \in tailsOf(Event(f).aggregateID) THEN [reader[r] EXCEPT !.dirty = TRUE] ELSE reader[r]]
    /\ job' = [job EXCEPT ![f] = IF job[f].publish THEN [@ EXCEPT !.phase = "notify"] ELSE Advance(f)]
    /\ UNCHANGED <<tables, delivered, history>>

\* The live observers: sync handlers, listeners, then the typed and the wildcard
\* subscriptions.  Observers of a durable event are isolated, so all are told.
notify(f) ==
    /\ job[f].phase = "notify"
    /\ job' = [job EXCEPT ![f] = Advance(f)]
    /\ UNCHANGED <<tables, tails, history>>

\* The calling fiber is interrupted before its transaction or its notification.
Interrupt(f) ==
    /\ job[f].phase \in {"commit", "notify"}
    /\ Die(f)
    /\ UNCHANGED <<tables, tails, history>>

-----------------------------------------------------------------------------
(* Owners and removal.                                                      *)

\* claim updates the row there is, and only that.
claim(a, o) ==
    /\ sequence[a].seq # Unassigned
    /\ sequence' = [sequence EXCEPT ![a].ownerID = o]
    /\ IF o # sequence[a].ownerID THEN Own(a, o) ELSE UNCHANGED fence
    /\ UNCHANGED <<events, job, tails, life, author>>

NoSequence == [seq |-> Unassigned, ownerID |-> NoOwner]
NoFence == [from |-> 0, ownerID |-> NoOwner, former |-> NoOwner]

remove(a) ==
    /\ sequence[a].seq # Unassigned /\ life[a] < MaxLives
    /\ sequence' = [sequence EXCEPT ![a] = NoSequence]
    /\ events' = events \ RowsOf(a)
    /\ delivered' = [r \in Readers |->
          IF r \in tailsOf(a) THEN [delivered[r] EXCEPT !.outlived = TRUE] ELSE delivered[r]]
    /\ life' = [life EXCEPT ![a] = @ + 1]
    /\ author' = [author EXCEPT ![a] = <<>>]
    /\ fence' = [fence EXCEPT ![a] = NoFence]
    /\ UNCHANGED <<job, reader>>

-----------------------------------------------------------------------------
(* streamEvents: register, read what is there, then read again on each signal. *)

Closed == [phase |-> "closed", aggregateID |-> CHOOSE a \in Aggregates : TRUE,
           cursor |-> Unassigned, start |-> Unassigned, fetched |-> {}, dirty |-> FALSE]
NothingDelivered == [rows |-> {}, repeated |-> FALSE, outlived |-> FALSE]

\* The signal queue is registered before anything is read.
subscribeSynchronized(r) ==
    /\ reader[r].phase = "closed"
    /\ \E a \in Aggregates, after \in Unassigned .. MaxSeq :
          reader' = [reader EXCEPT ![r] = [phase |-> "historical", aggregateID |-> a,
                                           cursor |-> after, start |-> after,
                                           fetched |-> {}, dirty |-> FALSE]]
    /\ UNCHANGED <<tables, job, delivered, history>>

readAfter(a, after) == {row \in RowsOf(a) : row.seq > after}

\* Mutant: the cursor is one past the last row.
lastCursorPast(rows, cursor) ==
    IF rows = {} THEN cursor ELSE 1 + (CHOOSE row \in rows : \A other \in rows : other.seq <= row.seq).seq

\* The sequence of the last of rows, which the query returns in order.
lastCursor(rows, cursor) ==
    IF rows = {} THEN cursor
    ELSE (CHOOSE row \in rows : \A other \in rows : other.seq <= row.seq).seq

\* One read: the rows after the cursor are fetched and the cursor moves to the last.
read(r) ==
    LET rows == readAfter(reader[r].aggregateID, reader[r].cursor) IN
    /\ reader[r].phase \in {"historical", "read"}
    /\ reader' = [reader EXCEPT ![r].phase = "deliver", ![r].fetched = rows,
                                ![r].cursor = lastCursor(rows, @)]
    /\ UNCHANGED <<tables, job, delivered, history>>

\* The consumer pulls what was fetched; the next signal is taken after that.
deliver(r) ==
    LET rows == reader[r].fetched IN
    /\ reader[r].phase = "deliver"
    /\ reader' = [reader EXCEPT ![r].phase = "tail", ![r].fetched = {}]
    /\ delivered' = [delivered EXCEPT ![r].rows = @ \cup rows,
                                      ![r].repeated = @ \/ rows \cap delivered[r].rows # {}]
    /\ UNCHANGED <<tables, job, history>>

takeSignal(r) ==
    /\ reader[r].phase = "tail" /\ reader[r].dirty
    /\ reader' = [reader EXCEPT ![r].phase = "read", ![r].dirty = FALSE]
    /\ UNCHANGED <<tables, job, delivered, history>>

closeTail(r) ==
    /\ reader[r].phase # "closed"
    /\ reader' = [reader EXCEPT ![r] = Closed]
    /\ delivered' = [delivered EXCEPT ![r] = NothingDelivered]
    /\ UNCHANGED <<tables, job, history>>

\* The process dies and another one opens the database.
Crash ==
    /\ job' = [f \in Fibers |-> NoJob]
    /\ reader' = [r \in Readers |-> Closed]
    /\ delivered' = [r \in Readers |-> NothingDelivered]
    /\ UNCHANGED <<tables, history>>

-----------------------------------------------------------------------------

Init ==
    /\ sequence = [a \in Aggregates |-> NoSequence]
    /\ events = {}
    /\ job = [f \in Fibers |-> NoJob]
    /\ reader = [r \in Readers |-> Closed]
    /\ delivered = [r \in Readers |-> NothingDelivered]
    /\ life = [a \in Aggregates |-> 0]
    /\ author = [a \in Aggregates |-> <<>>]
    /\ fence = [a \in Aggregates |-> NoFence]

Step(f) == commitSyncEvent(f) \/ wakeTails(f) \/ notify(f) \/ Interrupt(f)
Streaming(r) == subscribeSynchronized(r) \/ read(r) \/ deliver(r) \/ takeSignal(r) \/ closeTail(r)

Next ==
    \/ \E f \in Fibers : publish(f) \/ replayWorkspace(f) \/ replayAll(f) \/ Step(f)
    \/ \E a \in Aggregates : remove(a) \/ \E o \in Owners : claim(a, o)
    \/ \E r \in Readers : Streaming(r)
    \/ Crash

Spec == Init /\ [][Next]_vars

\* An uninterruptible wake follows its commit, and a tail that has a signal to
\* take or a read to do is scheduled.  Nobody has to publish, and calls may fail.
Fairness ==
    /\ \A f \in Fibers : WF_vars(wakeTails(f))
    /\ \A r \in Readers : WF_vars(read(r)) /\ WF_vars(deliver(r)) /\ WF_vars(takeSignal(r))

FairSpec == Spec /\ Fairness

-----------------------------------------------------------------------------
(* Properties                                                               *)

Positions == Unassigned .. MaxSeq

\* What fibers commit: an event without a sequence gets the next one.
Inputs == [id : EventIDs, aggregateID : Aggregates, seq : Nat \cup {Unassigned}, content : Contents]

\* Every variable has its type, and whoever is at an event of a batch has one.
TypeOK ==
    /\ sequence \in [Aggregates -> [seq : Positions, ownerID : Owners \cup {NoOwner}]]
    /\ events \subseteq Rows
    /\ job \in [Fibers -> [phase : {"idle", "commit", "wake", "notify"}, batch : Seq(Inputs), done : Nat,
                           ownerID : Owners \cup {NoOwner}, strictOwner : BOOLEAN,
                           publish : BOOLEAN, life : 0 .. MaxLives]]
    /\ \A f \in Fibers : job[f].phase # "idle" => job[f].done < Len(job[f].batch)
    /\ reader \in [Readers -> [phase : {"closed", "historical", "deliver", "tail", "read"},
                               aggregateID : Aggregates, cursor : Positions, start : Positions,
                               fetched : SUBSET Rows, dirty : BOOLEAN]]
    /\ delivered \in [Readers -> [rows : SUBSET Rows, repeated : BOOLEAN, outlived : BOOLEAN]]
    /\ life \in [Aggregates -> 0 .. MaxLives]
    /\ author \in [Aggregates -> Seq(Owners \cup {NoOwner, Local})]
    /\ fence \in [Aggregates -> [from : Nat, ownerID : Owners \cup {NoOwner}, former : Owners \cup {NoOwner}]]

\* The log of an aggregate has no gap, no position and no event id is used twice,
\* and event_sequence names its last row: what every cursor (lines 562-628), every
\* projected order and every replay to another server relies on.
LogContiguous ==
    /\ \A a \in Aggregates : {row.seq : row \in RowsOf(a)} = 0 .. sequence[a].seq
    /\ \A row, other \in events :
          \/ row.id = other.id
          \/ row.aggregateID = other.aggregateID /\ row.seq = other.seq
          => row = other

\* replayAll commits event by event while others publish, replay and claim; still
\* every event it has passed under strictOwner is stored as it was sent (unless the
\* aggregate was removed meanwhile), so a batch that returns is there as a whole.
BatchStored ==
    \A f \in Fibers : job[f].strictOwner =>
        \A i \in 1 .. job[f].done :
            job[f].life = life[job[f].batch[i].aggregateID] => job[f].batch[i] \in events

\* "claim fences replay owners" (event.test.ts:789): once an owner holds an
\* aggregate, by claim or by adoption, the rows appended from there on are its own
\* or local, whatever other servers were in the middle of replaying.
Fenced ==
    \A a \in Aggregates : fence[a].ownerID # NoOwner =>
        \A i \in DOMAIN author[a] : i > fence[a].from => author[a][i] \in {Local, fence[a].ownerID}

\* A tail that has no read ahead and no signal has read everything, or the fiber that
\* committed the rest is about to wake it: the handoff from the historical read to
\* the signals (lines 586-628) loses no commit, and one signal stands for many.
NoLostWake ==
    \A r \in Readers :
        /\ reader[r].phase \in {"deliver", "tail"} /\ ~reader[r].dirty
        /\ reader[r].cursor < sequence[reader[r].aggregateID].seq
        => \E f \in Fibers : job[f].phase = "wake" /\ Event(f).aggregateID = reader[r].aggregateID

\* A tail has delivered, or holds, exactly the rows between where it started and its
\* cursor, each once, while publishers, replays and its own reads interleave.
StreamIsExact ==
    \A r \in Readers : reader[r].phase # "closed" /\ ~delivered[r].outlived =>
        /\ delivered[r].rows \cup reader[r].fetched =
               {row \in RowsOf(reader[r].aggregateID) :
                   reader[r].start < row.seq /\ row.seq <= reader[r].cursor}
        /\ ~delivered[r].repeated

\* Every committed event reaches every tail that stays open on its aggregate.
StreamsCatchUp ==
    \A r \in Readers, a \in Aggregates, n \in 0 .. MaxSeq :
        reader[r].phase # "closed" /\ reader[r].aggregateID = a /\ sequence[a].seq >= n
            ~> \/ reader[r].phase = "closed" \/ sequence[a].seq < n
               \/ reader[r].cursor >= n /\ reader[r].fetched = {}

\* "claim this session so any future events coming from the old workspace are
\* ignored" (control-plane/workspace.ts:603-604): the workspace sync of the owner
\* before the present one does not fail, whatever both servers appended.
FormerOwnerIgnored ==
    [][\A f \in Fibers :
          LET a == Event(f).aggregateID IN
          /\ job[f].phase = "commit" /\ ~job[f].strictOwner
          /\ job[f].ownerID # NoOwner
          /\ job[f].ownerID = fence[a].former /\ job[f].ownerID # fence[a].ownerID
          => ~commitRefused(f)]_vars

-----------------------------------------------------------------------------
(* The feed the log implements.                                             *)

At(a, n) == CHOOSE row \in events : row.aggregateID = a /\ row.seq = n

\* What is at position n of an aggregate's log, as its users see it.
EntryAt(a, n) == [id |-> At(a, n).id, content |-> At(a, n).content]

Shown == [a \in Aggregates |-> [n \in 1 .. sequence[a].seq + 1 |-> EntryAt(a, n - 1)]]

Following == [r \in Readers |->
    [open |-> reader[r].phase # "closed", aggregateID |-> reader[r].aggregateID,
     position |-> reader[r].cursor + 1]]

Feed == INSTANCE EventFeed WITH feed <- Shown, tail <- Following

\* Rows, owners, jobs and signals together are a feed per aggregate that only grows
\* at its end, in which no event occurs twice, and which each tail reads in order.
\* Under fair scheduling every tail takes what there is to take.
ImplementsFairFeed == Feed!FairSpec
=============================================================================
