---------------------------- MODULE ContextEpoch ----------------------------
(***************************************************************************)
(* The Context Epoch of one Session: the revisioned row of                 *)
(* packages/core/src/session/context-epoch.ts, the projectors that ask for *)
(* its replacement or delete it, and the first half of runTurnAttempt      *)
(* (session/runner/llm.ts), which prepares a request from it.              *)
(*                                                                         *)
(* A system context is abstracted to the agent and the Location it was     *)
(* observed for and a version of its sources.  Reads, observations and     *)
(* transactions are steps of their own, since other fibers commit between  *)
(* them; a transaction and the event it publishes are one step.            *)
(***************************************************************************)
EXTENDS Naturals, FiniteSets

CONSTANTS
    Attempts,       \* attempts to run a turn of the Session
    Agents, Models, Locations,
    Unset,          \* no agent is selected, no row, no observation, no sequence
    MaxEvents,      \* bound: events of the Session
    MaxVersion,     \* bound: changes of the sources
    MaxRevision     \* bound: replacements nobody asked for

ASSUME EpochBounds == MaxEvents \in Nat /\ MaxVersion \in Nat /\ MaxRevision \in Nat

VARIABLES
    session,        \* SessionTable: selected agent, model, Location
    epoch,          \* SessionContextEpochTable: the Session's row
    latest,         \* latest sequence of the aggregate
    updates,        \* System messages: sequence and version told
    fallback,       \* the agent selected when the Session names none
    version,        \* version of the context sources
    turn,           \* progress of each attempt
    alone,          \* whether the attempts share one process, hence a coordinator
    moved           \* history: the Session has moved

epochVars == <<session, epoch, latest, updates, fallback, version, turn, alone, moved>>
world == <<fallback, version, alone, moved>>

Versions == 0 .. MaxVersion
Sequences == 0 .. MaxEvents
Baselines == [agent : Agents, location : Locations, version : Versions]
EpochRows == [baseline : Baselines, snapshot : Versions, baselineSeq : Sequences,
              replacementSeq : Sequences \cup {Unset}, revision : Nat]

ASSUME UnsetAssumption == Unset \notin Agents \cup Nat \cup EpochRows

NoAttempt ==
    [pc |-> "idle", location |-> Unset, agent |-> Unset, model |-> Unset, stored |-> Unset,
     seen |-> Unset, result |-> "none", cut |-> 0, system |-> Unset, told |-> Unset]

Go(r, pc) == turn' = [turn EXCEPT ![r].pc = pc]
Rebuild(r) == turn' = [turn EXCEPT ![r] = [NoAttempt EXCEPT !.pc = "attempt", !.location = turn[r].location]]
Stop(r) == turn' = [turn EXCEPT ![r] = NoAttempt]

-----------------------------------------------------------------------------
(* What others do to the Session.                                           *)

select(agent) == IF agent = Unset THEN fallback ELSE agent

\* The row after requestReplacement at a sequence: a no-op for an older request.
requestReplacement(seq) ==
    IF /\ epoch # Unset
       /\ epoch.baselineSeq < seq
       /\ epoch.replacementSeq = Unset \/ epoch.replacementSeq < seq
    THEN [epoch EXCEPT !.replacementSeq = seq, !.revision = @ + 1]
    ELSE epoch

NewEvent == latest < MaxEvents /\ latest' = latest + 1

agentSwitched(agent) ==
    /\ NewEvent
    /\ session' = [session EXCEPT !.agent = agent]
    /\ epoch' = requestReplacement(latest + 1)
    /\ UNCHANGED <<updates, turn, world>>

modelSwitched(model) ==
    /\ NewEvent
    /\ session' = [session EXCEPT !.model = model]
    /\ epoch' = requestReplacement(latest + 1)
    /\ UNCHANGED <<updates, turn, world>>

\* The projector of Moved resets the epoch.
movedTo(location) ==
    /\ NewEvent
    /\ location # session.location
    /\ session' = [session EXCEPT !.location = location]
    /\ epoch' = Unset
    /\ moved' = TRUE
    /\ UNCHANGED <<updates, turn, fallback, version, alone>>

\* An update another server told its model arrives by replay.
contextUpdatedReplayed(v) ==
    /\ NewEvent
    /\ updates' = updates \cup {[seq |-> latest + 1, version |-> v]}
    /\ epoch' = requestReplacement(latest + 1)
    /\ UNCHANGED <<session, turn, world>>

\* Sources change; a new configuration may also change the default agent.
sourcesChange(agent) ==
    /\ version < MaxVersion
    /\ version' = version + 1
    /\ fallback' = agent
    /\ UNCHANGED <<session, epoch, latest, updates, turn, alone, moved>>

-----------------------------------------------------------------------------
(* One runner prepares a turn.                                              *)

\* A drain is routed to the Session's Location; the coordinator of one process runs
\* one drain at a time.
drain(r) ==
    /\ turn[r].pc = "idle"
    /\ alone => \A other \in Attempts : turn[other].pc = "idle"
    /\ turn' = [turn EXCEPT ![r] = [NoAttempt EXCEPT !.pc = "attempt", !.location = session.location]]
    /\ UNCHANGED <<session, epoch, latest, updates, world>>

runTurnAttempt(r) ==
    /\ turn[r].pc = "attempt"
    /\ IF session.location # turn[r].location
       THEN Stop(r)
       ELSE turn' = [turn EXCEPT ![r].pc = "find", ![r].agent = select(session.agent),
                                 ![r].model = session.model]
    /\ UNCHANGED <<session, epoch, latest, updates, world>>

\* The row is read: by initialize, which leaves an existing one to prepare, or by prepare.
find(r) ==
    /\ turn[r].pc = "find"
    /\ turn' = [turn EXCEPT ![r].pc = "observe", ![r].stored = epoch]
    /\ UNCHANGED <<session, epoch, latest, updates, world>>

replacingAgent(r) == turn[r].stored.baseline.agent # turn[r].agent

\* What reconcile or replace can say of an observation.  An unavailable source keeps
\* its admitted snapshot, unless a new baseline is due.
Results(r, available) ==
    LET stored == turn[r].stored
        due == stored.replacementSeq # Unset \/ replacingAgent(r)
    IN  IF stored = Unset THEN IF available THEN {"insert"} ELSE {"initializationBlocked"}
        ELSE IF due THEN IF available THEN {"ready"} ELSE {"blocked"}
        ELSE IF ~available THEN {"unchanged", "blocked"}
        ELSE {IF stored.snapshot = version THEN "unchanged" ELSE "updated"}
             \cup {x \in {"ready"} : stored.revision < MaxRevision}

\* The sources are observed after the row was read.
observe(r) ==
    /\ turn[r].pc = "observe"
    /\ \E available \in BOOLEAN : \E result \in Results(r, available) :
          IF result = "initializationBlocked" THEN Stop(r)
          ELSE turn' = [turn EXCEPT
                  ![r].pc = "commit", ![r].result = result, ![r].seen = version,
                  ![r].cut = IF result # "ready" THEN 0
                             ELSE IF turn[r].stored.replacementSeq # Unset
                                  THEN turn[r].stored.replacementSeq ELSE latest]
    /\ UNCHANGED <<session, epoch, latest, updates, world>>

\* Mutant: whoever is selected, the transaction goes on.
requireAnyAgent(r) == r \in Attempts

requireAgentSelection(r) == session.agent \in {Unset, turn[r].agent}

\* Mutant: a row is inserted wherever the Session is.
placedAnywhere(r) == r \in Attempts

placed(r) == session.location = turn[r].location

sameRevision(r) == epoch # Unset /\ epoch.revision = turn[r].stored.revision

Generation(r) == [agent |-> turn[r].agent, location |-> turn[r].location, version |-> turn[r].seen]

\* prepare returns what the row says now.
Prepared(r) ==
    turn' = [turn EXCEPT ![r].pc = "reread", ![r].system = epoch',
                         ![r].stored = Unset, ![r].seen = Unset, ![r].result = "none", ![r].cut = 0]

\* A mismatched revision tries again from the row.
Again(r) ==
    /\ turn' = [turn EXCEPT ![r].pc = "find", ![r].stored = Unset, ![r].seen = Unset,
                            ![r].result = "none", ![r].cut = 0]
    /\ UNCHANGED <<session, epoch, latest, updates, world>>

\* A runner that saw no row inserts one, unless the Session moved or has one by now.
insert(r) ==
    /\ turn[r].pc = "commit" /\ turn[r].result = "insert"
    /\ placed(r)
    /\ requireAgentSelection(r)
    /\ \/ /\ epoch # Unset
          /\ Again(r)
       \/ /\ epoch = Unset
          /\ epoch' = [baseline |-> Generation(r), snapshot |-> turn[r].seen, baselineSeq |-> latest,
                       replacementSeq |-> Unset, revision |-> 0]
          /\ Prepared(r)
          /\ UNCHANGED <<session, latest, updates, world>>

\* LocationMismatch is a defect nobody catches.
insertElsewhere(r) ==
    /\ turn[r].pc = "commit" /\ turn[r].result = "insert"
    /\ ~placed(r)
    /\ Stop(r)
    /\ UNCHANGED <<session, epoch, latest, updates, world>>

\* AgentMismatch rebuilds the turn; a fence reports a missing row the same way.
agentMismatch(r) ==
    /\ turn[r].pc = "commit"
    /\ turn[r].result = "insert" => placed(r)
    /\ turn[r].result # "updated"
    /\ \/ ~requireAgentSelection(r)
       \/ turn[r].result \in {"unchanged", "blocked"} /\ epoch = Unset
    /\ Rebuild(r)
    /\ UNCHANGED <<session, epoch, latest, updates, world>>

\* Nothing to write: the fence checks that the row is still the one that was read.
fence(r) ==
    /\ turn[r].pc = "commit" /\ turn[r].result \in {"unchanged", "blocked"}
    /\ requireAgentSelection(r) /\ epoch # Unset
    /\ IF ~sameRevision(r) THEN Again(r)
       ELSE /\ IF turn[r].result = "blocked" /\ replacingAgent(r)
               THEN Stop(r)                              \* AgentReplacementBlocked
               ELSE turn' = [turn EXCEPT ![r].pc = "reread", ![r].system = turn[r].stored,
                                ![r].stored = Unset, ![r].seen = Unset, ![r].result = "none"]
            /\ UNCHANGED <<session, epoch, latest, updates, world>>

replace(r) ==
    /\ turn[r].pc = "commit" /\ turn[r].result = "ready"
    /\ requireAgentSelection(r)
    /\ IF ~sameRevision(r) THEN Again(r)
       ELSE /\ epoch' = [baseline |-> Generation(r), snapshot |-> turn[r].seen, baselineSeq |-> turn[r].cut,
                         replacementSeq |-> Unset, revision |-> turn[r].stored.revision + 1]
            /\ Prepared(r)
            /\ UNCHANGED <<session, latest, updates, world>>

\* The update is published and the snapshot advanced in one transaction.
advance(r) ==
    /\ turn[r].pc = "commit" /\ turn[r].result = "updated"
    /\ IF sameRevision(r) /\ epoch.replacementSeq = Unset
       THEN /\ NewEvent
            /\ epoch' = [epoch EXCEPT !.snapshot = turn[r].seen, !.revision = @ + 1]
            /\ updates' = updates \cup {[seq |-> latest + 1, version |-> turn[r].seen]}
            /\ turn' = [turn EXCEPT ![r].pc = "reread", ![r].stored = Unset, ![r].seen = Unset,
                          ![r].result = "none",
                          ![r].system = [turn[r].stored EXCEPT !.revision = @ + 1]]
            /\ UNCHANGED <<session, world>>
       ELSE Again(r)

\* The Session is read again: another agent or model rebuilds the turn.
reread(r) ==
    /\ turn[r].pc = "reread"
    /\ IF select(session.agent) = turn[r].agent /\ session.model = turn[r].model
       THEN Go(r, "load") ELSE Rebuild(r)
    /\ UNCHANGED <<session, epoch, latest, updates, world>>

\* System messages a request of this baseline contains.
entriesForRunner(seq) == {u \in updates : u.seq > seq}

\* They, or else the baseline, tell the model this version last.
Tells(system, v) ==
    LET sent == entriesForRunner(system.baselineSeq)
    IN  \/ sent = {} /\ v = system.baseline.version
        \/ \E u \in sent : u.version = v /\ \A w \in sent : w.seq <= u.seq

load(r) ==
    /\ turn[r].pc = "load"
    /\ \E v \in Versions : /\ Tells(turn[r].system, v)
                           /\ turn' = [turn EXCEPT ![r].pc = "check", ![r].told = v]
    /\ UNCHANGED <<session, epoch, latest, updates, world>>

\* compactIfNeeded has compacted: the turn is rebuilt.
compact(r) ==
    /\ turn[r].pc = "check"
    /\ NewEvent
    /\ epoch' = requestReplacement(latest + 1)
    /\ Rebuild(r)
    /\ UNCHANGED <<session, updates, world>>

\* Mutant: the revision is not compared.
currentAgent(r) ==
    /\ epoch # Unset
    /\ epoch.baseline.agent = turn[r].agent
    /\ session.agent \in {Unset, turn[r].agent}

current(r) ==
    /\ epoch # Unset
    /\ epoch.baseline.agent = turn[r].agent
    /\ session.agent \in {Unset, turn[r].agent}
    /\ epoch.revision = turn[r].system.revision

\* The last look before the provider is called.
callProvider(r) ==
    /\ turn[r].pc = "check"
    /\ IF current(r) THEN Go(r, "called") ELSE Rebuild(r)
    /\ UNCHANGED <<session, epoch, latest, updates, world>>

\* The turn ends: another one follows, or the drain is over.  A drain may be
\* interrupted, or its process die, anywhere.
again(r) ==
    /\ turn[r].pc = "called"
    /\ Rebuild(r)
    /\ UNCHANGED <<session, epoch, latest, updates, world>>

quit(r) ==
    /\ turn[r].pc # "idle"
    /\ Stop(r)
    /\ UNCHANGED <<session, epoch, latest, updates, world>>

prepareOnce(r) ==
    \/ find(r) \/ observe(r) \/ insert(r) \/ insertElsewhere(r) \/ agentMismatch(r)
    \/ fence(r) \/ replace(r) \/ advance(r)

runTurn(r) ==
    drain(r) \/ runTurnAttempt(r) \/ prepareOnce(r) \/ reread(r) \/ load(r) \/ compact(r)
    \/ callProvider(r) \/ again(r) \/ quit(r)

EpochInit ==
    /\ session \in [agent : Agents \cup {Unset}, model : Models, location : Locations]
    /\ epoch = Unset /\ latest = 0 /\ updates = {}
    /\ fallback \in Agents /\ version = 0
    /\ turn = [r \in Attempts |-> NoAttempt]
    /\ alone \in BOOLEAN /\ moved = FALSE

EpochNext ==
    \/ \E r \in Attempts : runTurn(r)
    \/ \E a \in Agents : agentSwitched(a) \/ sourcesChange(a)
    \/ \E m \in Models : modelSwitched(m)
    \/ \E l \in Locations : movedTo(l)
    \/ \E v \in Versions : contextUpdatedReplayed(v)

EpochSpec == EpochInit /\ [][EpochNext]_epochVars

-----------------------------------------------------------------------------
(* Properties                                                               *)

\* A selected agent's epoch: once no replacement is due, the durable baseline is the
\* selected agent's, whoever prepared it and however late ("existing-epoch replacement
\* [is fenced] against the authoritative effective agent", schema-changelog.md:796).
EpochOwned ==
    epoch # Unset /\ epoch.replacementSeq = Unset => session.agent \in {Unset, epoch.baseline.agent}

\* The durable baseline was observed at the Session's Location, for as long as drains of
\* the Session exclude each other or it has not moved.
EpochPlaced ==
    epoch # Unset /\ (alone \/ ~moved) => epoch.baseline.location = session.location

\* A provider is only called with the selected agent and model, with the durable
\* baseline, and with a history that tells the model exactly what the snapshot says it
\* was told, unless a replacement is blocked: no switch, update, compaction or replay
\* slips in between the reads a request is made of.
TurnIsCurrent ==
    [][\A r \in Attempts :
          (alone \/ ~moved) /\ turn[r].pc = "check" /\ turn'[r].pc = "called" =>
             /\ session.agent \in {Unset, turn[r].agent} /\ session.model = turn[r].model
             /\ session.location = turn[r].location
             /\ epoch.baseline = turn[r].system.baseline
             /\ epoch.replacementSeq = Unset => turn[r].told = epoch.snapshot]_epochVars
=============================================================================
