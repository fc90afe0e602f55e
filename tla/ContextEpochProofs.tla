------------------------- MODULE ContextEpochProofs -------------------------
(***************************************************************************)
(* The durable epoch belongs to the selected agent and, where drains       *)
(* exclude each other, to the Session's Location, for any attempts,        *)
(* agents, models and Locations and within any bounds.                     *)
(*                                                                         *)
(* EpochOwned needs that no sequence a row or an attempt holds is ahead of *)
(* the aggregate, so that a switch asks every row for its replacement.     *)
(* EpochPlaced needs that an attempt past its first look is at the         *)
(* Session's Location or finds no row to replace.                          *)
(* TurnIsCurrent needs two more facts: updates are stored in the order of  *)
(* their sequences, and while a row waits for no replacement its snapshot  *)
(* is what its updates announced and an attempt that has loaded a history  *)
(* of that revision was told the same.                                     *)
(***************************************************************************)
EXTENDS ContextEpoch, TLAPS

Or(S) == S \cup {Unset}

Turns == [pc : {"idle", "attempt", "find", "observe", "commit", "reread", "load", "check", "called"},
          location : Or(Locations), agent : Or(Agents), model : Or(Models),
          stored : Or(EpochRows), seen : Or(Versions),
          result : {"none", "insert", "ready", "unchanged", "updated", "blocked"},
          cut : Sequences, system : Or(EpochRows), told : Or(Versions)]

EpochTypeOK ==
    /\ session \in [agent : Or(Agents), model : Models, location : Locations]
    /\ epoch \in Or(EpochRows)
    /\ latest \in Sequences
    /\ updates \subseteq [seq : Sequences, version : Versions]
    /\ fallback \in Agents /\ version \in Versions
    /\ turn \in [Attempts -> Turns]
    /\ alone \in BOOLEAN /\ moved \in BOOLEAN

\* A row holds no sequence ahead of the aggregate.
RowBehind(row, n) ==
    row # Unset => /\ row.baselineSeq <= n
                   /\ row.replacementSeq # Unset => row.replacementSeq <= n

\* What an attempt holds at each of its steps.
Holding(t) ==
    /\ t.pc # "idle" => t.location \in Locations
    /\ t.pc \notin {"idle", "attempt"} => t.agent \in Agents
    /\ t.pc = "commit" => t.seen \in Versions /\ (t.result # "insert" => t.stored # Unset)
    /\ t.cut <= latest /\ RowBehind(t.stored, latest)

\* Where an attempt is.
Located(t) ==
    /\ ~moved /\ t.pc # "idle" => t.location = session.location
    /\ alone /\ t.pc \notin {"idle", "attempt"} => t.location = session.location \/ epoch = Unset

Exclusive ==
    alone => \A q, r \in Attempts : turn[q].pc # "idle" /\ turn[r].pc # "idle" => q = r

EpochInv ==
    /\ EpochTypeOK
    /\ RowBehind(epoch, latest)
    /\ \A r \in Attempts : Holding(turn[r]) /\ Located(turn[r])
    /\ Exclusive
    /\ EpochOwned /\ EpochPlaced

-----------------------------------------------------------------------------
LEMMA NoAttemptTyped == NoAttempt \in Turns /\ NoAttempt.pc = "idle" /\ NoAttempt.cut = 0
  /\ NoAttempt.stored = Unset
BY EpochBounds DEF NoAttempt, Turns, Or, Sequences

LEMMA EpochInitInv == EpochInit => EpochInv
<1> SUFFICES ASSUME EpochInit PROVE EpochInv
  OBVIOUS
<1>1. EpochTypeOK
  <2>1. turn \in [Attempts -> Turns]
    BY NoAttemptTyped DEF EpochInit
  <2>2. latest \in Sequences /\ version \in Versions
    BY EpochBounds DEF EpochInit, Sequences, Versions
  <2>3. session \in [agent : Or(Agents), model : Models, location : Locations] /\ epoch \in Or(EpochRows)
    BY DEF EpochInit, Or
  <2> QED BY <2>1, <2>2, <2>3 DEF EpochInit, EpochTypeOK
<1>2. \A r \in Attempts : turn[r] = NoAttempt
  BY DEF EpochInit
<1>3. latest = 0 /\ epoch = Unset
  BY DEF EpochInit
<1>4. Holding(NoAttempt) /\ Located(NoAttempt)
  BY <1>3, NoAttemptTyped DEF Holding, Located, RowBehind
<1>5. \A r \in Attempts : Holding(turn[r]) /\ Located(turn[r])
  BY <1>2, <1>4
<1>6. RowBehind(epoch, latest) /\ EpochOwned /\ EpochPlaced
  BY <1>3 DEF RowBehind, EpochOwned, EpochPlaced
<1>7. Exclusive
  BY <1>2, NoAttemptTyped DEF Exclusive
<1> QED BY <1>1, <1>5, <1>6, <1>7 DEF EpochInv

-----------------------------------------------------------------------------
(* Steps that change one attempt and nothing else.                          *)

LEMMA OnlyTurn ==
    ASSUME EpochInv, NEW r \in Attempts, NEW t \in Turns,
           UNCHANGED <<session, epoch, latest, updates, world>>,
           turn' = [turn EXCEPT ![r] = t],
           Holding(t), Located(t),
           t.pc = "idle" \/ turn[r].pc # "idle" \/ (alone => \A q \in Attempts : turn[q].pc = "idle")
    PROVE  EpochInv'
<1>1. EpochTypeOK'
  BY DEF EpochInv, EpochTypeOK, world
<1>2. \A q \in Attempts : turn'[q] = IF q = r THEN t ELSE turn[q]
  BY DEF EpochInv, EpochTypeOK
<1>3. \A q \in Attempts : Holding(turn[q])' /\ Located(turn[q])'
  BY <1>2 DEF EpochInv, Holding, Located, RowBehind, world
<1>4. Exclusive'
  BY <1>2 DEF EpochInv, Exclusive, world
<1>5. RowBehind(epoch, latest)' /\ EpochOwned' /\ EpochPlaced'
  BY DEF EpochInv, RowBehind, EpochOwned, EpochPlaced, world
<1> QED BY <1>1, <1>3, <1>4, <1>5 DEF EpochInv

\* What an attempt is.
LEMMA TurnTyped ==
    ASSUME EpochInv, NEW r \in Attempts
    PROVE  turn[r] \in Turns /\ Holding(turn[r]) /\ Located(turn[r])
BY DEF EpochInv, EpochTypeOK

LEMMA Stops ==
    ASSUME EpochInv, NEW r \in Attempts, Stop(r), UNCHANGED <<session, epoch, latest, updates, world>>
    PROVE  EpochInv'
<1>1. Holding(NoAttempt) /\ Located(NoAttempt)
  BY NoAttemptTyped DEF Holding, Located, RowBehind, EpochInv, EpochTypeOK, Sequences
<1> QED BY <1>1, NoAttemptTyped, OnlyTurn DEF Stop

\* A turn starts, again, at the Location of its drain.
LEMMA Starts ==
    ASSUME EpochInv, NEW r \in Attempts, NEW l \in Locations,
           turn' = [turn EXCEPT ![r] = [NoAttempt EXCEPT !.pc = "attempt", !.location = l]],
           UNCHANGED <<session, epoch, latest, updates, world>>,
           ~moved => l = session.location,
           turn[r].pc # "idle" \/ (alone => \A q \in Attempts : turn[q].pc = "idle")
    PROVE  EpochInv'
<1> DEFINE t == [NoAttempt EXCEPT !.pc = "attempt", !.location = l]
<1>1. t \in Turns
  BY NoAttemptTyped DEF Turns, Or
<1>2. t.pc = "attempt" /\ t.location = l /\ t.cut = 0 /\ t.stored = Unset
  BY NoAttemptTyped DEF Turns
<1>3. Holding(t) /\ Located(t)
  BY <1>2 DEF Holding, Located, RowBehind, EpochInv, EpochTypeOK, Sequences
<1> HIDE DEF t
<1>4. turn' = [turn EXCEPT ![r] = t]
  BY DEF t
<1> QED BY <1>1, <1>2, <1>3, <1>4, OnlyTurn

LEMMA Rebuilds ==
    ASSUME EpochInv, NEW r \in Attempts, turn[r].pc # "idle", Rebuild(r),
           UNCHANGED <<session, epoch, latest, updates, world>>
    PROVE  EpochInv'
<1>1. turn[r].location \in Locations /\ (~moved => turn[r].location = session.location)
  BY TurnTyped DEF Holding, Located
<1> QED BY <1>1, Starts DEF Rebuild

\* The drain goes on to its next step, with what it has and perhaps more.
LEMMA GoesOn ==
    ASSUME EpochInv, NEW r \in Attempts, turn[r].pc \notin {"idle", "attempt"},
           UNCHANGED <<session, epoch, latest, updates, world>>,
           NEW t \in Turns, turn' = [turn EXCEPT ![r] = t],
           t.pc \notin {"idle", "attempt", "commit"},
           t.location = turn[r].location, t.agent = turn[r].agent,
           t.cut \in {0, turn[r].cut}, t.stored \in {Unset, turn[r].stored, epoch}
    PROVE  EpochInv'
<1>1. Holding(t)
  BY TurnTyped DEF Holding, EpochInv, EpochTypeOK, RowBehind, Sequences
<1>2. Located(t)
  BY TurnTyped DEF Located
<1> QED BY <1>1, <1>2, OnlyTurn

LEMMA FindsAgain ==
    ASSUME EpochInv, NEW r \in Attempts, turn[r].pc = "commit", Again(r)
    PROVE  EpochInv'
<1> DEFINE t == [turn[r] EXCEPT !.pc = "find", !.stored = Unset, !.seen = Unset, !.result = "none", !.cut = 0]
<1>1. t \in Turns
  <2>1. turn[r] \in Turns /\ 0 \in Sequences /\ Unset \in Or(EpochRows) /\ Unset \in Or(Versions)
    BY TurnTyped, EpochBounds DEF Or, Sequences
  <2> QED BY <2>1 DEF Turns
<1>2. t.pc = "find" /\ t.location = turn[r].location /\ t.agent = turn[r].agent /\ t.cut = 0
        /\ t.stored = Unset
  BY TurnTyped DEF Turns
<1>3. turn' = [turn EXCEPT ![r] = t] /\ UNCHANGED <<session, epoch, latest, updates, world>>
  BY DEF Again
<1> HIDE DEF t
<1> QED BY <1>1, <1>2, <1>3, GoesOn

LEMMA LooksFirst ==
    ASSUME EpochInv, NEW r \in Attempts, drain(r) \/ runTurnAttempt(r)
    PROVE  EpochInv'
<1>1. CASE drain(r)
  <2>1. /\ turn' = [turn EXCEPT ![r] = [NoAttempt EXCEPT !.pc = "attempt", !.location = session.location]]
        /\ alone => \A q \in Attempts : turn[q].pc = "idle"
        /\ UNCHANGED <<session, epoch, latest, updates, world>>
    BY <1>1 DEF drain
  <2>2. session.location \in Locations
    BY DEF EpochInv, EpochTypeOK
  <2> QED BY <2>1, <2>2, Starts
<1>2. CASE runTurnAttempt(r)
  <2>1. CASE Stop(r)
    BY <1>2, <2>1, Stops DEF runTurnAttempt
  <2>2. CASE ~Stop(r)
    <3> DEFINE t == [turn[r] EXCEPT !.pc = "find", !.agent = select(session.agent), !.model = session.model]
    <3>1. turn[r].pc = "attempt" /\ session.location = turn[r].location /\ turn' = [turn EXCEPT ![r] = t]
          /\ UNCHANGED <<session, epoch, latest, updates, world>>
      BY <1>2, <2>2 DEF runTurnAttempt
    <3>2. select(session.agent) \in Agents /\ session.model \in Models
      BY DEF select, EpochInv, EpochTypeOK, Or
    <3>3. t \in Turns
      BY <3>2, TurnTyped DEF Turns, Or
    <3>4. /\ t.pc = "find" /\ t.location = turn[r].location /\ t.agent = select(session.agent)
          /\ t.cut = turn[r].cut /\ t.stored = turn[r].stored
      BY TurnTyped DEF Turns
    <3>5. Holding(t) /\ Located(t)
      BY <3>1, <3>2, <3>4, TurnTyped DEF Holding, Located
    <3> HIDE DEF t
    <3> QED BY <3>1, <3>3, <3>5, OnlyTurn
  <2> QED BY <2>1, <2>2
<1> QED BY <1>1, <1>2

LEMMA Finds ==
    ASSUME EpochInv, NEW r \in Attempts, find(r)
    PROVE  EpochInv'
<1> DEFINE t == [turn[r] EXCEPT !.pc = "observe", !.stored = epoch]
<1>1. t \in Turns
  BY TurnTyped DEF Turns, EpochInv, EpochTypeOK
<1>2. t.pc = "observe" /\ t.location = turn[r].location /\ t.agent = turn[r].agent
        /\ t.cut = turn[r].cut /\ t.stored = epoch
  BY TurnTyped DEF Turns
<1>3. turn[r].pc = "find" /\ turn' = [turn EXCEPT ![r] = t]
        /\ UNCHANGED <<session, epoch, latest, updates, world>>
  BY DEF find
<1> HIDE DEF t
<1> QED BY <1>1, <1>2, <1>3, GoesOn

\* An observation that finds no row is only inserted.
LEMMA ResultsFit ==
    ASSUME NEW r \in Attempts, NEW available \in BOOLEAN, NEW result \in Results(r, available),
           result # "initializationBlocked"
    PROVE  /\ result \in {"insert", "ready", "unchanged", "updated", "blocked"}
           /\ result # "insert" => turn[r].stored # Unset
BY DEF Results

LEMMA Observes ==
    ASSUME EpochInv, NEW r \in Attempts, observe(r)
    PROVE  EpochInv'
<1>1. CASE Stop(r)
  BY <1>1, Stops DEF observe
<1>2. CASE ~Stop(r)
  <2> DEFINE Observed(result) ==
        /\ result # "initializationBlocked"
        /\ turn' = [turn EXCEPT
                ![r].pc = "commit", ![r].result = result, ![r].seen = version,
                ![r].cut = IF result # "ready" THEN 0
                           ELSE IF turn[r].stored.replacementSeq # Unset
                                THEN turn[r].stored.replacementSeq ELSE latest]
  <2> PICK available \in BOOLEAN : \E result \in Results(r, available) : Observed(result)
    BY <1>2 DEF observe
  <2>1. PICK result \in Results(r, available) : Observed(result)
    OBVIOUS
  <2> DEFINE cut == IF result # "ready" THEN 0
                    ELSE IF turn[r].stored.replacementSeq # Unset
                         THEN turn[r].stored.replacementSeq ELSE latest
             t == [turn[r] EXCEPT !.pc = "commit", !.result = result, !.seen = version, !.cut = cut]
  <2>2. result \in {"insert", "ready", "unchanged", "updated", "blocked"}
          /\ (result # "insert" => turn[r].stored # Unset)
    BY <2>1, ResultsFit
  <2>3. version \in Versions /\ cut \in Sequences /\ cut <= latest
    <3>1. turn[r].stored # Unset => turn[r].stored \in EpochRows
      BY TurnTyped DEF Turns, Or
    <3>2. turn[r].stored # Unset => turn[r].stored.replacementSeq \in Sequences \cup {Unset}
      BY <3>1 DEF EpochRows
    <3> QED BY <2>2, <3>2, EpochBounds, TurnTyped DEF Holding, RowBehind, EpochInv, EpochTypeOK, Sequences
  <2> HIDE DEF cut
  <2>4. turn' = [turn EXCEPT ![r] = t]
    BY <2>1 DEF cut
  <2>5. t \in Turns
    BY <2>2, <2>3, TurnTyped DEF Turns, Or
  <2>6. /\ t.pc = "commit" /\ t.location = turn[r].location /\ t.agent = turn[r].agent
        /\ t.cut = cut /\ t.stored = turn[r].stored /\ t.result = result /\ t.seen = version
    BY TurnTyped DEF Turns
  <2>7. turn[r].pc = "observe" /\ UNCHANGED <<session, epoch, latest, updates, world>>
    BY DEF observe
  <2> HIDE DEF t
  <2>8. Holding(t) /\ Located(t)
    BY <2>2, <2>3, <2>6, <2>7, TurnTyped DEF Holding, Located
  <2> QED BY <2>4, <2>5, <2>7, <2>8, OnlyTurn
<1> QED BY <1>1, <1>2

\* What the transaction of an attempt makes of a turn: it is read again from the row.
Reread(t, r) ==
    /\ t \in Turns
    /\ t.pc = "reread" /\ t.location = turn[r].location /\ t.agent = turn[r].agent
    /\ t.cut \in {0, turn[r].cut} /\ t.stored = Unset

LEMMA Fences ==
    ASSUME EpochInv, NEW r \in Attempts, fence(r)
    PROVE  EpochInv'
<1>1. turn[r].pc = "commit"
  BY DEF fence
<1>2. CASE Again(r)
  BY <1>1, <1>2, FindsAgain
<1>3. CASE ~Again(r)
  <2> DEFINE t == [turn[r] EXCEPT !.pc = "reread", !.system = turn[r].stored, !.stored = Unset, !.seen = Unset,
                                  !.result = "none"]
  <2>1. UNCHANGED <<session, epoch, latest, updates, world>>
    BY <1>3 DEF fence
  <2>2. CASE Stop(r)
    BY <2>1, <2>2, Stops
  <2>3. CASE turn' = [turn EXCEPT ![r] = t]
    <3>1. t \in Turns
      BY TurnTyped DEF Turns, Or
    <3>2. t.pc = "reread" /\ t.location = turn[r].location /\ t.agent = turn[r].agent
            /\ t.cut = turn[r].cut /\ t.stored = Unset
      BY TurnTyped DEF Turns
    <3> HIDE DEF t
    <3> QED BY <1>1, <2>1, <2>3, <3>1, <3>2, GoesOn
  <2> QED BY <1>3, <2>2, <2>3 DEF fence
<1> QED BY <1>2, <1>3

LEMMA Mismatches ==
    ASSUME EpochInv, NEW r \in Attempts, insertElsewhere(r) \/ agentMismatch(r)
    PROVE  EpochInv'
<1>1. CASE insertElsewhere(r)
  BY <1>1, Stops DEF insertElsewhere
<1>2. CASE agentMismatch(r)
  BY <1>2, Rebuilds DEF agentMismatch
<1> QED BY <1>1, <1>2

LEMMA LooksLast ==
    ASSUME EpochInv, NEW r \in Attempts, reread(r) \/ load(r) \/ callProvider(r) \/ again(r) \/ quit(r)
    PROVE  EpochInv'
<1>1. turn[r].pc # "idle" /\ UNCHANGED <<session, epoch, latest, updates, world>>
  BY DEF reread, load, callProvider, again, quit
<1>2. CASE Rebuild(r)
  BY <1>1, <1>2, Rebuilds
<1>3. CASE Stop(r)
  BY <1>1, <1>3, Stops
<1>4. ASSUME NEW pc \in {"load", "called"}, Go(r, pc), turn[r].pc \in {"reread", "check"}
      PROVE  EpochInv'
  <2> DEFINE t == [turn[r] EXCEPT !.pc = pc]
  <2>1. t \in Turns
    BY TurnTyped DEF Turns
  <2>2. t.pc = pc /\ t.location = turn[r].location /\ t.agent = turn[r].agent
          /\ t.cut = turn[r].cut /\ t.stored = turn[r].stored
    BY TurnTyped DEF Turns
  <2>3. turn' = [turn EXCEPT ![r] = t]
    BY <1>4 DEF Go
  <2> HIDE DEF t
  <2> QED BY <1>1, <1>4, <2>1, <2>2, <2>3, GoesOn
<1>5. CASE load(r)
  <2> PICK v \in Versions : turn' = [turn EXCEPT ![r].pc = "check", ![r].told = v]
    BY <1>5 DEF load
  <2> DEFINE t == [turn[r] EXCEPT !.pc = "check", !.told = v]
  <2>1. t \in Turns
    BY TurnTyped DEF Turns, Or
  <2>2. t.pc = "check" /\ t.location = turn[r].location /\ t.agent = turn[r].agent
          /\ t.cut = turn[r].cut /\ t.stored = turn[r].stored
    BY TurnTyped DEF Turns
  <2>3. turn' = [turn EXCEPT ![r] = t] /\ turn[r].pc = "load"
    BY <1>5 DEF load
  <2> HIDE DEF t
  <2> QED BY <1>1, <2>1, <2>2, <2>3, GoesOn
<1> QED BY <1>1, <1>2, <1>3, <1>4, <1>5 DEF reread, load, callProvider, again, quit

-----------------------------------------------------------------------------
(* Steps that write the row.                                                *)

\* A row that is the selected agent's, and the Session's Location's where it must be.
Fits(row, n) ==
    /\ row \in EpochRows /\ RowBehind(row, n)
    /\ row.replacementSeq = Unset => session.agent \in {Unset, row.baseline.agent}
    /\ alone \/ ~moved => row.baseline.location = session.location

\* Of attempts that exclude each other only one is busy.
LEMMA OthersIdle ==
    ASSUME EpochInv, NEW r \in Attempts, NEW q \in Attempts, alone, turn[r].pc # "idle", q # r
    PROVE  turn[q].pc = "idle"
BY DEF EpochInv, Exclusive

LEMMA WritesRow ==
    ASSUME EpochInv, NEW r \in Attempts, turn[r].pc = "commit", NEW t,
           Reread(t, r), turn' = [turn EXCEPT ![r] = t],
           NEW row, epoch' = row, Fits(row, latest'),
           alone => turn[r].location = session.location,
           latest' \in {latest, latest + 1} \cap Sequences,
           updates' \subseteq [seq : Sequences, version : Versions],
           UNCHANGED <<session, world>>
    PROVE  EpochInv'
<1>1. EpochTypeOK'
  BY DEF EpochInv, EpochTypeOK, Reread, Fits, world, Or
<1>2. latest <= latest' /\ latest \in Nat /\ latest' \in Nat
  BY EpochBounds DEF EpochInv, EpochTypeOK, Sequences
<1>3. \A q \in Attempts : turn'[q] = IF q = r THEN t ELSE turn[q]
  BY DEF EpochInv, EpochTypeOK
<1>4. ASSUME NEW q \in Attempts PROVE (Holding(turn[q]) /\ Located(turn[q]))'
  <2>1. CASE q = r
    <3>1. turn'[q] = t
      BY <1>3, <2>1
    <3>2. Holding(t)'
      BY <1>2, TurnTyped, EpochBounds DEF Holding, Reread, RowBehind, Turns, Sequences
    <3>3. Located(t)'
      BY TurnTyped DEF Located, Reread, world
    <3> QED BY <3>1, <3>2, <3>3 DEF Holding, Located, RowBehind
  <2>2. CASE q # r
    <3>1. turn'[q] = turn[q]
      BY <1>3, <2>2
    <3>2. Holding(turn[q])'
      <4>1. turn[q].stored # Unset => turn[q].stored \in EpochRows
        BY TurnTyped DEF Turns, Or
      <4>2. turn[q].cut <= latest' /\ RowBehind(turn[q].stored, latest')
        BY <1>2, <4>1, EpochBounds, TurnTyped DEF Holding, RowBehind, Turns, EpochRows, Sequences
      <4> QED BY <3>1, <4>2, TurnTyped DEF Holding, RowBehind
    <3>3. Located(turn[q])'
      BY <2>2, <3>1, TurnTyped, OthersIdle DEF Located, world
    <3> QED BY <3>2, <3>3
  <2> QED BY <2>1, <2>2
<1>5. Exclusive'
  BY <1>3 DEF EpochInv, Exclusive, Reread, world
<1>6. RowBehind(epoch, latest)' /\ EpochOwned' /\ EpochPlaced'
  BY DEF Fits, RowBehind, EpochOwned, EpochPlaced, world
<1> QED BY <1>1, <1>4, <1>5, <1>6 DEF EpochInv

\* An attempt that is at the Session's Location observes for it.
LEMMA Generated ==
    ASSUME EpochInv, NEW r \in Attempts, turn[r].pc = "commit"
    PROVE  /\ Generation(r) \in Baselines /\ turn[r].seen \in Versions
           /\ Generation(r).agent = turn[r].agent /\ Generation(r).location = turn[r].location
           /\ turn[r].agent \in Agents
BY TurnTyped DEF Generation, Baselines, Holding, Turns

\* The turn that prepare returns.
LEMMA PreparedTurn ==
    ASSUME EpochInv, NEW r \in Attempts, NEW row \in EpochRows, epoch' = row, Prepared(r)
    PROVE  \E t : Reread(t, r) /\ turn' = [turn EXCEPT ![r] = t]
<1> DEFINE t == [turn[r] EXCEPT !.pc = "reread", !.system = row, !.stored = Unset, !.seen = Unset,
                                !.result = "none", !.cut = 0]
<1>1. turn[r] \in Turns /\ 0 \in Sequences /\ Unset \in Or(EpochRows) /\ Unset \in Or(Versions)
        /\ row \in Or(EpochRows)
  BY TurnTyped, EpochBounds DEF Or, Sequences
<1>2. t \in Turns
  BY <1>1 DEF Turns
<1>3. t.pc = "reread" /\ t.location = turn[r].location /\ t.agent = turn[r].agent /\ t.cut = 0
        /\ t.stored = Unset
  BY <1>1 DEF Turns
<1>4. turn' = [turn EXCEPT ![r] = t]
  BY DEF Prepared
<1> HIDE DEF t
<1> QED BY <1>2, <1>3, <1>4 DEF Reread

LEMMA Inserts ==
    ASSUME EpochInv, NEW r \in Attempts, insert(r)
    PROVE  EpochInv'
<1>1. turn[r].pc = "commit" /\ session.location = turn[r].location /\ session.agent \in {Unset, turn[r].agent}
  BY DEF insert, placed, requireAgentSelection
<1>2. CASE Again(r)
  BY <1>1, <1>2, FindsAgain
<1>3. CASE ~Again(r)
  <2> DEFINE row == [baseline |-> Generation(r), snapshot |-> turn[r].seen, baselineSeq |-> latest,
                     replacementSeq |-> Unset, revision |-> 0]
  <2>1. epoch' = row /\ Prepared(r) /\ UNCHANGED <<session, latest, updates, world>>
    BY <1>3 DEF insert
  <2>2. row \in EpochRows
    BY <1>1, Generated DEF EpochRows, EpochInv, EpochTypeOK
  <2>3. row.baseline = Generation(r) /\ row.baselineSeq = latest /\ row.replacementSeq = Unset
    OBVIOUS
  <2> HIDE DEF row
  <2>4. latest' = latest /\ latest \in Sequences /\ latest <= latest
    BY <2>1, EpochBounds DEF EpochInv, EpochTypeOK, Sequences
  <2>5. Fits(row, latest')
    BY <1>1, <2>2, <2>3, <2>4, Generated DEF Fits, RowBehind
  <2>6. PICK t : Reread(t, r) /\ turn' = [turn EXCEPT ![r] = t]
    BY <2>1, <2>2, PreparedTurn
  <2>7. updates' \subseteq [seq : Sequences, version : Versions]
    BY <2>1 DEF EpochInv, EpochTypeOK
  <2> QED BY <1>1, <2>1, <2>4, <2>5, <2>6, <2>7, WritesRow
<1> QED BY <1>2, <1>3

\* A row that is still the one an attempt has read is where the attempt is.
LEMMA StillThere ==
    ASSUME EpochInv, NEW r \in Attempts, turn[r].pc = "commit", sameRevision(r)
    PROVE  /\ epoch \in EpochRows
           /\ alone \/ ~moved => turn[r].location = session.location
BY TurnTyped DEF sameRevision, Located, EpochInv, EpochTypeOK, Or

LEMMA Replaces ==
    ASSUME EpochInv, NEW r \in Attempts, replace(r)
    PROVE  EpochInv'
<1>1. turn[r].pc = "commit" /\ turn[r].result = "ready" /\ session.agent \in {Unset, turn[r].agent}
  BY DEF replace, requireAgentSelection
<1>2. CASE ~sameRevision(r)
  BY <1>1, <1>2, FindsAgain DEF replace
<1>3. CASE sameRevision(r)
  <2> DEFINE row == [baseline |-> Generation(r), snapshot |-> turn[r].seen, baselineSeq |-> turn[r].cut,
                     replacementSeq |-> Unset, revision |-> turn[r].stored.revision + 1]
  <2>1. epoch' = row /\ Prepared(r) /\ UNCHANGED <<session, latest, updates, world>>
    BY <1>3 DEF replace
  <2>2. turn[r].stored \in EpochRows /\ turn[r].cut \in Sequences /\ turn[r].cut <= latest
    BY <1>1, TurnTyped DEF Holding, Turns, Or
  <2>3. turn[r].stored.revision + 1 \in Nat
    BY <2>2 DEF EpochRows
  <2>4. row \in EpochRows
    BY <1>1, <2>2, <2>3, Generated DEF EpochRows
  <2>5. row.baseline = Generation(r) /\ row.baselineSeq = turn[r].cut /\ row.replacementSeq = Unset
    OBVIOUS
  <2> HIDE DEF row
  <2>6. latest' = latest /\ latest \in Sequences
    BY <2>1 DEF EpochInv, EpochTypeOK
  <2>7. Fits(row, latest')
    BY <1>1, <1>3, <2>2, <2>4, <2>5, <2>6, Generated, StillThere DEF Fits, RowBehind
  <2>8. PICK t : Reread(t, r) /\ turn' = [turn EXCEPT ![r] = t]
    BY <2>1, <2>4, PreparedTurn
  <2>9. updates' \subseteq [seq : Sequences, version : Versions]
    BY <2>1 DEF EpochInv, EpochTypeOK
  <2> QED BY <1>1, <1>3, <2>1, <2>6, <2>7, <2>8, <2>9, StillThere, WritesRow
<1> QED BY <1>2, <1>3

\* An event takes the next sequence.
LEMMA NewEvents ==
    ASSUME EpochInv, NewEvent
    PROVE  /\ latest' = latest + 1 /\ latest' \in Sequences /\ latest \in Sequences
           /\ latest + 1 \in Nat /\ latest <= latest + 1
BY EpochBounds DEF EpochInv, EpochTypeOK, NewEvent, Sequences

LEMMA Advances ==
    ASSUME EpochInv, NEW r \in Attempts, advance(r)
    PROVE  EpochInv'
<1>1. turn[r].pc = "commit" /\ turn[r].result = "updated"
  BY DEF advance
<1>2. CASE ~(sameRevision(r) /\ epoch.replacementSeq = Unset)
  BY <1>1, <1>2, FindsAgain DEF advance
<1>3. CASE sameRevision(r) /\ epoch.replacementSeq = Unset
  <2> DEFINE row == [epoch EXCEPT !.snapshot = turn[r].seen, !.revision = @ + 1]
             system == [turn[r].stored EXCEPT !.revision = @ + 1]
             t == [turn[r] EXCEPT !.pc = "reread", !.stored = Unset, !.seen = Unset, !.result = "none",
                                  !.system = system]
  <2>1. /\ NewEvent /\ epoch' = row /\ turn' = [turn EXCEPT ![r] = t]
        /\ updates' = updates \cup {[seq |-> latest + 1, version |-> turn[r].seen]}
        /\ UNCHANGED <<session, world>>
    BY <1>3 DEF advance
  <2>2. epoch \in EpochRows /\ epoch # Unset /\ turn[r].seen \in Versions
    BY <1>1, <1>3, StillThere, Generated DEF sameRevision
  <2>3. row \in EpochRows /\ row.baseline = epoch.baseline
          /\ row.baselineSeq = epoch.baselineSeq /\ row.replacementSeq = Unset
    <3>1. epoch.revision + 1 \in Nat
      BY <2>2 DEF EpochRows
    <3>2. row = [epoch EXCEPT !.snapshot = turn[r].seen, !.revision = epoch.revision + 1]
      OBVIOUS
    <3> QED BY <1>3, <2>2, <3>1, <3>2 DEF EpochRows
  <2>4. turn[r].stored \in EpochRows
    BY <1>1, TurnTyped DEF Holding, Turns, Or
  <2>5. system \in Or(EpochRows)
    BY <2>4 DEF EpochRows, Or
  <2> HIDE DEF row, system
  <2>6. turn[r] \in Turns /\ Unset \in Or(EpochRows) /\ Unset \in Or(Versions)
    BY TurnTyped DEF Or
  <2>7. Reread(t, r)
    BY <2>5, <2>6 DEF Reread, Turns
  <2> HIDE DEF t
  <2>8. Fits(row, latest')
    BY <1>1, <1>3, <2>1, <2>2, <2>3, NewEvents, StillThere
    DEF Fits, RowBehind, EpochInv, EpochOwned, EpochPlaced, EpochRows, Sequences
  <2>9. updates' \subseteq [seq : Sequences, version : Versions]
    BY <2>1, <2>2, NewEvents DEF EpochInv, EpochTypeOK
  <2> QED BY <1>1, <1>3, <2>1, <2>7, <2>8, <2>9, NewEvents, StillThere, WritesRow
<1> QED BY <1>2, <1>3

-----------------------------------------------------------------------------
(* Steps of others, which leave attempts alone, and compaction.             *)

\* The row of a request, at a sequence the aggregate is about to have.
LEMMA Requested ==
    ASSUME EpochInv, latest + 1 \in Sequences, NEW row, row = requestReplacement(latest + 1)
    PROVE  /\ row \in Or(EpochRows) /\ RowBehind(row, latest + 1)
           /\ epoch = Unset => row = Unset
           /\ epoch # Unset => /\ row # Unset /\ row.baseline = epoch.baseline
                               /\ row.replacementSeq = latest + 1 /\ row.replacementSeq # Unset
                               /\ row.revision = epoch.revision + 1
<1>1. latest \in Nat /\ latest + 1 \in Nat /\ Unset # latest + 1
  BY EpochBounds, UnsetAssumption DEF EpochInv, EpochTypeOK, Sequences
<1>2. CASE epoch = Unset
  BY <1>2 DEF requestReplacement, Or, RowBehind
<1>3. CASE epoch # Unset
  <2>1. epoch \in EpochRows /\ epoch.baselineSeq <= latest /\ epoch.baselineSeq \in Nat
        /\ (epoch.replacementSeq # Unset => epoch.replacementSeq \in Nat /\ epoch.replacementSeq <= latest)
    BY <1>3, EpochBounds DEF EpochInv, EpochTypeOK, Or, RowBehind, EpochRows, Sequences
  <2>2. epoch.revision + 1 \in Nat
    BY <2>1 DEF EpochRows
  <2>3. row = [epoch EXCEPT !.replacementSeq = latest + 1, !.revision = epoch.revision + 1]
    BY <1>1, <1>3, <2>1 DEF requestReplacement
  <2>4. row \in EpochRows /\ row.baseline = epoch.baseline /\ row.baselineSeq = epoch.baselineSeq
        /\ row.replacementSeq = latest + 1 /\ row.revision = epoch.revision + 1
    BY <2>1, <2>2, <2>3 DEF EpochRows
  <2>5. row # Unset
    BY <2>4, UnsetAssumption
  <2> QED BY <1>1, <1>3, <2>1, <2>4, <2>5 DEF Or, RowBehind
<1> QED BY <1>2, <1>3

\* A turn is as it was, or has been rebuilt.
Rebuilt(old, t) ==
    old.pc # "idle" /\ t.pc = "attempt" /\ t.location = old.location /\ t.cut = 0 /\ t.stored = Unset

LEMMA Around ==
    ASSUME EpochInv, EpochTypeOK', latest <= latest',
           \A q \in Attempts : turn'[q] = turn[q] \/ Rebuilt(turn[q], turn'[q]),
           alone' = alone,
           \/ session'.location = session.location /\ moved' = moved /\ (epoch = Unset => epoch' = Unset)
           \/ epoch' = Unset /\ moved' = TRUE,
           RowBehind(epoch', latest'), EpochOwned', EpochPlaced'
    PROVE  EpochInv'
<1>1. latest \in Nat /\ latest' \in Nat
  BY EpochBounds DEF EpochInv, EpochTypeOK, Sequences
<1>2. ASSUME NEW q \in Attempts PROVE (Holding(turn[q]) /\ Located(turn[q]))'
  <2>1. CASE turn'[q] = turn[q]
    <3>1. turn[q].stored # Unset => turn[q].stored \in EpochRows
      BY TurnTyped DEF Turns, Or
    <3>2. turn[q].cut <= latest' /\ RowBehind(turn[q].stored, latest')
      BY <1>1, <3>1, EpochBounds, TurnTyped DEF Holding, RowBehind, Turns, EpochRows, Sequences
    <3>3. Holding(turn[q])'
      BY <2>1, <3>2, TurnTyped DEF Holding
    <3>4. Located(turn[q])'
      BY <2>1, TurnTyped DEF Located
    <3> QED BY <3>3, <3>4
  <2>2. CASE Rebuilt(turn[q], turn'[q])
    <3>1. Holding(turn[q])'
      BY <1>1, <2>2, TurnTyped DEF Rebuilt, Holding, RowBehind
    <3>2. Located(turn[q])'
      BY <2>2, TurnTyped DEF Rebuilt, Located
    <3> QED BY <3>1, <3>2
  <2> QED BY <2>1, <2>2
<1>3. Exclusive'
  <2>1. \A q \in Attempts : turn'[q].pc # "idle" => turn[q].pc # "idle"
    BY DEF Rebuilt
  <2> QED BY <2>1 DEF EpochInv, Exclusive
<1> QED BY <1>2, <1>3 DEF EpochInv

LEMMA Switches ==
    ASSUME EpochInv,
           \/ \E a \in Agents : agentSwitched(a)
           \/ \E m \in Models : modelSwitched(m)
           \/ \E v \in Versions : contextUpdatedReplayed(v)
    PROVE  EpochInv'
<1>1. NewEvent /\ epoch' = requestReplacement(latest + 1) /\ UNCHANGED <<turn, world>>
  BY DEF agentSwitched, modelSwitched, contextUpdatedReplayed
<1>2. /\ session' \in [agent : Or(Agents), model : Models, location : Locations]
      /\ session'.location = session.location
      /\ updates' \subseteq [seq : Sequences, version : Versions]
  BY <1>1, NewEvents DEF agentSwitched, modelSwitched, contextUpdatedReplayed, EpochInv, EpochTypeOK, Or
<1>3. /\ epoch' \in Or(EpochRows) /\ RowBehind(epoch', latest + 1)
      /\ epoch = Unset => epoch' = Unset
      /\ epoch # Unset => epoch'.baseline = epoch.baseline /\ epoch'.replacementSeq # Unset
  BY <1>1, NewEvents, Requested
<1>4. EpochTypeOK'
  BY <1>1, <1>2, <1>3, NewEvents DEF EpochInv, EpochTypeOK, world
<1>5. EpochOwned' /\ EpochPlaced'
  BY <1>1, <1>2, <1>3 DEF EpochInv, EpochOwned, EpochPlaced, world
<1> QED BY <1>1, <1>2, <1>3, <1>4, <1>5, NewEvents, Around DEF world

LEMMA Moves ==
    ASSUME EpochInv, NEW l \in Locations, movedTo(l)
    PROVE  EpochInv'
<1>1. EpochTypeOK'
  BY NewEvents DEF movedTo, EpochInv, EpochTypeOK, Or
<1>2. epoch' = Unset
  BY DEF movedTo
<1> QED BY <1>1, <1>2, NewEvents, Around DEF movedTo, RowBehind, EpochOwned, EpochPlaced

LEMMA SourcesChange ==
    ASSUME EpochInv, NEW a \in Agents, sourcesChange(a)
    PROVE  EpochInv'
<1>1. EpochTypeOK'
  BY EpochBounds DEF sourcesChange, EpochInv, EpochTypeOK, Versions
<1>2. latest <= latest
  BY EpochBounds DEF EpochInv, EpochTypeOK, Sequences
<1> QED BY <1>1, <1>2, Around DEF sourcesChange, EpochInv, RowBehind, EpochOwned, EpochPlaced

LEMMA Compacts ==
    ASSUME EpochInv, NEW r \in Attempts, compact(r)
    PROVE  EpochInv'
<1> DEFINE t == [NoAttempt EXCEPT !.pc = "attempt", !.location = turn[r].location]
<1>1. turn[r].pc = "check" /\ NewEvent /\ epoch' = requestReplacement(latest + 1)
      /\ turn' = [turn EXCEPT ![r] = t] /\ UNCHANGED <<session, updates, world>>
  BY DEF compact, Rebuild
<1>2. t \in Turns
  <2>1. turn[r].location \in Or(Locations)
    BY TurnTyped DEF Turns
  <2> QED BY <2>1, NoAttemptTyped DEF Turns
<1>3. t.pc = "attempt" /\ t.location = turn[r].location /\ t.cut = 0 /\ t.stored = Unset
  BY NoAttemptTyped DEF Turns
<1> HIDE DEF t
<1>4. /\ epoch' \in Or(EpochRows) /\ RowBehind(epoch', latest + 1)
      /\ epoch = Unset => epoch' = Unset
      /\ epoch # Unset => epoch'.baseline = epoch.baseline /\ epoch'.replacementSeq # Unset
  BY <1>1, NewEvents, Requested
<1>5. \A q \in Attempts : turn'[q] = turn[q] \/ Rebuilt(turn[q], turn'[q])
  BY <1>1, <1>3 DEF Rebuilt, EpochInv, EpochTypeOK
<1>6. EpochTypeOK'
  BY <1>1, <1>2, <1>4, NewEvents DEF EpochInv, EpochTypeOK, world
<1>7. EpochOwned' /\ EpochPlaced'
  BY <1>1, <1>4 DEF EpochInv, EpochOwned, EpochPlaced, world
<1> QED BY <1>1, <1>4, <1>5, <1>6, <1>7, NewEvents, Around DEF world

LEMMA EpochStep == EpochInv /\ [EpochNext]_epochVars => EpochInv'
<1> SUFFICES ASSUME EpochInv, [EpochNext]_epochVars PROVE EpochInv'
  OBVIOUS
<1>1. CASE UNCHANGED epochVars
  <2>1. latest <= latest
    BY EpochBounds DEF EpochInv, EpochTypeOK, Sequences
  <2> QED BY <1>1, <2>1, Around DEF epochVars, EpochInv, EpochTypeOK, RowBehind, EpochOwned, EpochPlaced
<1>2. ASSUME NEW r \in Attempts, runTurn(r) PROVE EpochInv'
  <2>1. CASE drain(r) \/ runTurnAttempt(r)
    BY <2>1, LooksFirst
  <2>2. CASE find(r) \/ observe(r)
    BY <2>2, Finds, Observes
  <2>3. CASE insert(r) \/ replace(r) \/ advance(r)
    BY <2>3, Inserts, Replaces, Advances
  <2>4. CASE insertElsewhere(r) \/ agentMismatch(r) \/ fence(r)
    BY <2>4, Mismatches, Fences
  <2>5. CASE reread(r) \/ load(r) \/ callProvider(r) \/ again(r) \/ quit(r)
    BY <2>5, LooksLast
  <2>6. CASE compact(r)
    BY <2>6, Compacts
  <2> QED BY <1>2, <2>1, <2>2, <2>3, <2>4, <2>5, <2>6 DEF runTurn, prepareOnce
<1>3. ASSUME NEW a \in Agents, sourcesChange(a) PROVE EpochInv'
  BY <1>3, SourcesChange
<1>4. ASSUME NEW l \in Locations, movedTo(l) PROVE EpochInv'
  BY <1>4, Moves
<1> QED BY <1>1, <1>2, <1>3, <1>4, Switches DEF EpochNext

LEMMA EpochAlways == EpochSpec => []EpochInv
BY EpochInitInv, EpochStep, PTL DEF EpochSpec

-----------------------------------------------------------------------------
(* What an attempt may call the provider with.  A revision stands for a row *)
(* as long as drains exclude each other or the Session has not moved: every *)
(* write of the row takes the next one, and a row that was reset has no     *)
(* reader left.  So an attempt whose row still has its revision knows the   *)
(* row, the model that was selected with it and what it tells the model.    *)

Steady == alone \/ ~moved

\* The row an attempt has read is not ahead of the durable one, ...
Follows(read) ==
    /\ ~moved => epoch # Unset
    /\ epoch # Unset => read.revision <= epoch.revision

\* ... and is the durable one when their revisions agree.
Still(read) == epoch # Unset /\ epoch.revision = read.revision

SameRow(read) ==
    /\ read.baseline = epoch.baseline /\ read.baselineSeq = epoch.baselineSeq
    /\ read.replacementSeq = epoch.replacementSeq

KnowsRow(t) ==
    t.pc \in {"observe", "commit"} /\ t.stored # Unset =>
        /\ Follows(t.stored)
        /\ Still(t.stored) =>
              /\ t.stored = epoch
              /\ t.pc = "commit" /\ t.result = "ready" => \A u \in updates : u.seq <= t.cut

KnowsSystem(t) ==
    t.pc \in {"reread", "load", "check"} =>
        /\ t.system # Unset /\ Follows(t.system)
        /\ Still(t.system) =>
              /\ SameRow(t.system)
              /\ t.pc # "reread" => session.model = t.model
              /\ t.pc = "check" /\ epoch.replacementSeq = Unset => t.told = epoch.snapshot

Informed(t) == KnowsRow(t) /\ KnowsSystem(t)

\* Updates have sequences of their own, none ahead of the aggregate.
UpdatesOrdered == \A u, w \in updates : u.seq <= latest /\ (u.seq = w.seq => u = w)

\* The row's snapshot is what its baseline and the updates since then tell; where a
\* replacement is due, no update is newer than the request.
Announced ==
    epoch # Unset =>
        /\ epoch.replacementSeq = Unset => Tells(epoch, epoch.snapshot)
        /\ epoch.replacementSeq # Unset => \A u \in updates : u.seq <= epoch.replacementSeq

CurrentInv ==
    /\ UpdatesOrdered
    /\ Steady => Announced /\ \A r \in Attempts : Informed(turn[r])

LEMMA CurrentInit == EpochInit => CurrentInv
<1> SUFFICES ASSUME EpochInit PROVE CurrentInv
  OBVIOUS
<1>1. \A r \in Attempts : Informed(turn[r])
  BY NoAttemptTyped DEF EpochInit, Informed, KnowsRow, KnowsSystem
<1> QED BY <1>1 DEF EpochInit, CurrentInv, UpdatesOrdered, Announced

\* A context tells one version.
LEMMA TellsOne ==
    ASSUME EpochInv, UpdatesOrdered, NEW a, NEW b, NEW v, NEW x, Tells(a, v), Tells(b, x),
           a.baselineSeq = b.baselineSeq, a.baseline = b.baseline
    PROVE  v = x
<1> DEFINE sent == entriesForRunner(a.baselineSeq)
<1>1. \A u \in sent : u \in updates /\ u.seq \in Nat
  BY EpochBounds DEF entriesForRunner, EpochInv, EpochTypeOK, Sequences
<1>2. /\ (sent = {} /\ v = a.baseline.version) \/ \E u \in sent : u.version = v /\ \A w \in sent : w.seq <= u.seq
      /\ (sent = {} /\ x = a.baseline.version) \/ \E u \in sent : u.version = x /\ \A w \in sent : w.seq <= u.seq
  BY DEF Tells
<1> HIDE DEF sent
<1>3. ASSUME NEW u \in sent, NEW w \in sent, \A y \in sent : y.seq <= u.seq, \A y \in sent : y.seq <= w.seq
      PROVE  u = w
  BY <1>1, <1>3 DEF UpdatesOrdered
<1> QED BY <1>2, <1>3

\* Rows an attempt holds have a revision.
LEMMA RowsTyped ==
    ASSUME EpochInv, NEW r \in Attempts
    PROVE  /\ turn[r].stored # Unset => turn[r].stored \in EpochRows /\ turn[r].stored.revision \in Nat
           /\ turn[r].system # Unset => turn[r].system \in EpochRows /\ turn[r].system.revision \in Nat
           /\ epoch # Unset => epoch \in EpochRows /\ epoch.revision \in Nat
<1>1. /\ turn[r].stored \in Or(EpochRows) /\ turn[r].system \in Or(EpochRows)
      /\ epoch \in Or(EpochRows)
  BY TurnTyped DEF Turns, EpochInv, EpochTypeOK
<1> QED BY <1>1 DEF Or, EpochRows

\* A step of one attempt that reads.
LEMMA ReadsOnly ==
    ASSUME EpochInv, CurrentInv, NEW r \in Attempts, NEW t,
           turn' = [turn EXCEPT ![r] = t], UNCHANGED <<session, epoch, latest, updates, world>>,
           Steady => Informed(t)
    PROVE  CurrentInv'
<1>1. \A q \in Attempts : turn'[q] = IF q = r THEN t ELSE turn[q]
  BY DEF EpochInv, EpochTypeOK
<1>2. Steady' = Steady /\ UpdatesOrdered' = UpdatesOrdered /\ Announced' = Announced
  BY DEF world, Steady, UpdatesOrdered, Announced, Tells, entriesForRunner
<1>3. Steady => \A q \in Attempts : Informed(turn'[q])
  BY <1>1 DEF CurrentInv
<1>4. (\A q \in Attempts : Informed(turn'[q])) => \A q \in Attempts : Informed(turn[q])'
  BY DEF Informed, KnowsRow, KnowsSystem, Follows, Still, SameRow, world
<1> QED BY <1>2, <1>3, <1>4 DEF CurrentInv

\* An attempt that has not read the row, or is done with it, knows nothing of it.
LEMMA ReadsNothing ==
    ASSUME EpochInv, CurrentInv, NEW r \in Attempts, NEW t,
           turn' = [turn EXCEPT ![r] = t], UNCHANGED <<session, epoch, latest, updates, world>>,
           t.pc = "idle" \/ t.pc = "attempt" \/ t.pc = "find" \/ t.pc = "called"
    PROVE  CurrentInv'
<1>1. Informed(t)
  BY DEF Informed, KnowsRow, KnowsSystem
<1> QED BY <1>1, ReadsOnly

LEMMA CurrentStops ==
    ASSUME EpochInv, CurrentInv, NEW r \in Attempts, Stop(r) \/ Rebuild(r),
           UNCHANGED <<session, epoch, latest, updates, world>>
    PROVE  CurrentInv'
<1>1. CASE Stop(r)
  BY <1>1, NoAttemptTyped, ReadsNothing DEF Stop
<1>2. CASE Rebuild(r)
  <2> DEFINE t == [NoAttempt EXCEPT !.pc = "attempt", !.location = turn[r].location]
  <2>1. t.pc = "attempt"
    BY NoAttemptTyped DEF Turns
  <2>2. turn' = [turn EXCEPT ![r] = t]
    BY <1>2 DEF Rebuild
  <2> HIDE DEF t
  <2> QED BY <2>1, <2>2, ReadsNothing
<1> QED BY <1>1, <1>2

LEMMA CurrentAgain ==
    ASSUME EpochInv, CurrentInv, NEW r \in Attempts, Again(r)
    PROVE  CurrentInv'
<1> DEFINE t == [turn[r] EXCEPT !.pc = "find", !.stored = Unset, !.seen = Unset, !.result = "none", !.cut = 0]
<1>1. t.pc = "find"
  BY TurnTyped DEF Turns
<1>2. turn' = [turn EXCEPT ![r] = t] /\ UNCHANGED <<session, epoch, latest, updates, world>>
  BY DEF Again
<1> HIDE DEF t
<1> QED BY <1>1, <1>2, ReadsNothing

LEMMA CurrentFirst ==
    ASSUME EpochInv, CurrentInv, NEW r \in Attempts, drain(r) \/ runTurnAttempt(r) \/ find(r)
    PROVE  CurrentInv'
<1>1. CASE drain(r)
  <2> DEFINE t == [NoAttempt EXCEPT !.pc = "attempt", !.location = session.location]
  <2>1. t.pc = "attempt"
    BY NoAttemptTyped DEF Turns
  <2>2. turn' = [turn EXCEPT ![r] = t] /\ UNCHANGED <<session, epoch, latest, updates, world>>
    BY <1>1 DEF drain
  <2> HIDE DEF t
  <2> QED BY <2>1, <2>2, ReadsNothing
<1>2. CASE runTurnAttempt(r)
  <2>1. CASE Stop(r)
    BY <1>2, <2>1, CurrentStops DEF runTurnAttempt
  <2>2. CASE ~Stop(r)
    <3> DEFINE t == [turn[r] EXCEPT !.pc = "find", !.agent = select(session.agent), !.model = session.model]
    <3>1. turn' = [turn EXCEPT ![r] = t] /\ UNCHANGED <<session, epoch, latest, updates, world>>
      BY <1>2, <2>2 DEF runTurnAttempt
    <3>2. t.pc = "find"
      BY TurnTyped DEF Turns
    <3> HIDE DEF t
    <3> QED BY <3>1, <3>2, ReadsNothing
  <2> QED BY <2>1, <2>2
<1>3. CASE find(r)
  <2> DEFINE t == [turn[r] EXCEPT !.pc = "observe", !.stored = epoch]
  <2>1. turn' = [turn EXCEPT ![r] = t] /\ UNCHANGED <<session, epoch, latest, updates, world>>
    BY <1>3 DEF find
  <2>2. t.pc = "observe" /\ t.stored = epoch
    BY TurnTyped DEF Turns
  <2> HIDE DEF t
  <2>3. epoch # Unset => epoch.revision <= epoch.revision
    BY RowsTyped
  <2>4. Informed(t)
    BY <2>2, <2>3 DEF Informed, KnowsRow, KnowsSystem, Follows
  <2> QED BY <2>1, <2>4, ReadsOnly
<1> QED BY <1>1, <1>2, <1>3

\* A baseline is observed after the row was read: it covers every update so far.
LEMMA CurrentObserves ==
    ASSUME EpochInv, CurrentInv, NEW r \in Attempts, observe(r)
    PROVE  CurrentInv'
<1>1. CASE Stop(r)
  BY <1>1, CurrentStops DEF observe
<1>2. CASE ~Stop(r)
  <2> DEFINE cut(result) == IF result # "ready" THEN 0
                            ELSE IF turn[r].stored.replacementSeq # Unset
                                 THEN turn[r].stored.replacementSeq ELSE latest
             told(result) == [turn[r] EXCEPT !.pc = "commit", !.result = result, !.seen = version,
                                             !.cut = cut(result)]
  <2>1. \E result : turn' = [turn EXCEPT ![r] = told(result)]
    BY <1>2 DEF observe
  <2>2. PICK result : turn' = [turn EXCEPT ![r] = told(result)]
    BY <2>1
  <2> DEFINE t == told(result)
  <2>3. /\ t.pc = "commit" /\ t.stored = turn[r].stored /\ t.result = result /\ t.cut = cut(result)
    BY TurnTyped DEF Turns
  <2>4. turn[r].pc = "observe" /\ UNCHANGED <<session, epoch, latest, updates, world>>
    BY DEF observe
  <2>5. ASSUME result = "ready", turn[r].stored = epoch, epoch # Unset, Steady
        PROVE  \A u \in updates : u.seq <= cut(result)
    <3>1. CASE epoch.replacementSeq # Unset
      BY <2>5, <3>1 DEF CurrentInv, Announced
    <3>2. CASE epoch.replacementSeq = Unset
      BY <2>5, <3>2 DEF CurrentInv, UpdatesOrdered
    <3> QED BY <3>1, <3>2
  <2> HIDE DEF cut, t, told
  <2>6. Steady => Informed(t)
    BY <2>3, <2>4, <2>5 DEF Informed, KnowsRow, KnowsSystem, CurrentInv, Still
  <2>7. turn' = [turn EXCEPT ![r] = t]
    BY <2>2 DEF t
  <2> QED BY <2>4, <2>6, <2>7, ReadsOnly
<1> QED BY <1>1, <1>2

LEMMA CurrentFences ==
    ASSUME EpochInv, CurrentInv, NEW r \in Attempts, insertElsewhere(r) \/ agentMismatch(r) \/ fence(r)
    PROVE  CurrentInv'
<1>1. CASE insertElsewhere(r) \/ agentMismatch(r)
  BY <1>1, CurrentStops DEF insertElsewhere, agentMismatch
<1>2. CASE fence(r) /\ Again(r)
  BY <1>2, CurrentAgain
<1>3. CASE fence(r) /\ Stop(r) /\ ~Again(r)
  BY <1>3, CurrentStops DEF fence
<1>4. CASE fence(r) /\ ~Again(r) /\ ~Stop(r)
  <2> DEFINE t == [turn[r] EXCEPT !.pc = "reread", !.system = turn[r].stored, !.stored = Unset, !.seen = Unset,
                                  !.result = "none"]
  <2>1. /\ turn[r].pc = "commit" /\ turn[r].result # "insert"
        /\ turn' = [turn EXCEPT ![r] = t] /\ UNCHANGED <<session, epoch, latest, updates, world>>
    BY <1>4 DEF fence
  <2>2. t.pc = "reread" /\ t.system = turn[r].stored
    BY TurnTyped DEF Turns
  <2> HIDE DEF t
  <2>3. turn[r].stored # Unset
    BY <2>1, TurnTyped DEF Holding
  <2>4. Steady => Informed(t)
    BY <2>1, <2>2, <2>3 DEF Informed, KnowsRow, KnowsSystem, CurrentInv, SameRow
  <2> QED BY <2>1, <2>4, ReadsOnly
<1> QED BY <1>1, <1>2, <1>3, <1>4

LEMMA CurrentLast ==
    ASSUME EpochInv, CurrentInv, NEW r \in Attempts,
           reread(r) \/ load(r) \/ callProvider(r) \/ again(r) \/ quit(r)
    PROVE  CurrentInv'
<1>0. UNCHANGED <<session, epoch, latest, updates, world>>
  BY DEF reread, load, callProvider, again, quit
<1>1. CASE Stop(r) \/ Rebuild(r)
  BY <1>0, <1>1, CurrentStops
<1>2. CASE reread(r) /\ ~Rebuild(r)
  <2> DEFINE t == [turn[r] EXCEPT !.pc = "load"]
  <2>1. turn[r].pc = "reread" /\ session.model = turn[r].model /\ turn' = [turn EXCEPT ![r] = t]
    BY <1>2 DEF reread, Go
  <2>2. t.pc = "load" /\ t.system = turn[r].system /\ t.model = turn[r].model
    BY TurnTyped DEF Turns
  <2> HIDE DEF t
  <2>3. Steady => Informed(t)
    BY <2>1, <2>2 DEF Informed, KnowsRow, KnowsSystem, CurrentInv
  <2> QED BY <1>0, <2>1, <2>3, ReadsOnly
<1>3. CASE load(r)
  <2> PICK v \in Versions : /\ Tells(turn[r].system, v)
                            /\ turn' = [turn EXCEPT ![r].pc = "check", ![r].told = v]
    BY <1>3 DEF load
  <2> DEFINE t == [turn[r] EXCEPT !.pc = "check", !.told = v]
  <2>1. turn[r].pc = "load" /\ turn' = [turn EXCEPT ![r] = t]
    BY <1>3 DEF load
  <2>2. t.pc = "check" /\ t.system = turn[r].system /\ t.model = turn[r].model /\ t.told = v
    BY TurnTyped DEF Turns
  <2> HIDE DEF t
  <2>3. Steady /\ Still(turn[r].system) /\ epoch.replacementSeq = Unset => v = epoch.snapshot
    BY <2>1, TellsOne DEF Informed, KnowsSystem, CurrentInv, SameRow, Announced, Still
  <2>4. Steady => Informed(t)
    BY <2>1, <2>2, <2>3 DEF Informed, KnowsRow, KnowsSystem, CurrentInv
  <2> QED BY <1>0, <2>1, <2>4, ReadsOnly
<1>4. CASE callProvider(r) /\ ~Rebuild(r)
  <2> DEFINE t == [turn[r] EXCEPT !.pc = "called"]
  <2>1. t.pc = "called"
    BY TurnTyped DEF Turns
  <2>2. turn' = [turn EXCEPT ![r] = t]
    BY <1>4 DEF callProvider, Go
  <2> HIDE DEF t
  <2> QED BY <1>0, <2>1, <2>2, ReadsNothing
<1> QED BY <1>1, <1>2, <1>3, <1>4 DEF again, quit

-----------------------------------------------------------------------------
(* Whatever is written, what an attempt read before is overtaken.           *)

Passed ==
    \/ epoch = Unset /\ epoch' = Unset
    \/ epoch # Unset /\ epoch' # Unset /\ epoch'.revision = epoch.revision + 1

LEMMA Surpassed ==
    ASSUME EpochInv, NEW q \in Attempts, Informed(turn[q]), turn'[q] = turn[q], moved' = moved, Passed
    PROVE  Informed(turn[q])'
<1> DEFINE stored == turn[q].stored
           system == turn[q].system
<1>1. /\ stored # Unset => stored.revision \in Nat
      /\ system # Unset => system.revision \in Nat
      /\ epoch # Unset => epoch.revision \in Nat
  BY RowsTyped
<1>2. ASSUME NEW read, read.revision \in Nat, Follows(read)
      PROVE  Follows(read)' /\ ~Still(read)'
  BY <1>1, <1>2 DEF Follows, Still, Passed
<1>3. KnowsRow(turn[q])'
  <2>1. turn[q].pc \in {"observe", "commit"} /\ stored # Unset => Follows(stored)' /\ ~Still(stored)'
    BY <1>1, <1>2 DEF Informed, KnowsRow
  <2> QED BY <2>1 DEF KnowsRow
<1>4. KnowsSystem(turn[q])'
  <2>1. turn[q].pc \in {"reread", "load", "check"} =>
          system # Unset /\ Follows(system)' /\ ~Still(system)'
    BY <1>1, <1>2 DEF Informed, KnowsSystem
  <2> QED BY <2>1 DEF KnowsSystem
<1> QED BY <1>3, <1>4 DEF Informed

\* An update at the next sequence keeps them in order.
LEMMA NextUpdate ==
    ASSUME EpochInv, UpdatesOrdered, NewEvent, NEW v,
           updates' \subseteq updates \cup {[seq |-> latest + 1, version |-> v]}
    PROVE  UpdatesOrdered' /\ \A u \in updates' : u.seq <= latest + 1
<1> DEFINE new == [seq |-> latest + 1, version |-> v]
<1>1. new.seq = latest + 1 /\ latest \in Nat /\ latest' = latest + 1
  BY NewEvents, EpochBounds DEF Sequences
<1>2. \A u \in updates : u.seq \in Nat /\ u.seq <= latest
  BY EpochBounds DEF EpochInv, EpochTypeOK, Sequences, UpdatesOrdered
<1>3. \A u \in updates' : u \in updates \/ u = new
  OBVIOUS
<1> HIDE DEF new
<1>4. \A u \in updates' : u.seq \in Nat /\ u.seq <= latest + 1
  BY <1>1, <1>2, <1>3
<1>5. ASSUME NEW u \in updates', NEW w \in updates', u.seq = w.seq PROVE u = w
  <2>1. CASE u \in updates /\ w \in updates
    BY <1>5, <2>1 DEF UpdatesOrdered
  <2>2. CASE u = new /\ w = new
    BY <2>2
  <2>3. CASE (u \in updates /\ w = new) \/ (u = new /\ w \in updates)
    BY <1>1, <1>2, <1>5, <2>3
  <2> QED BY <1>3, <2>1, <2>2, <2>3
<1> QED BY <1>1, <1>4, <1>5 DEF UpdatesOrdered

\* A request for a replacement comes after every update.
LEMMA Bumps ==
    ASSUME EpochInv, CurrentInv, NewEvent, epoch' = requestReplacement(latest + 1), NEW v,
           updates' \subseteq updates \cup {[seq |-> latest + 1, version |-> v]},
           \A q \in Attempts : turn'[q] = turn[q] \/ turn'[q].pc = "attempt",
           alone' = alone, moved' = moved
    PROVE  CurrentInv'
<1>1. /\ epoch = Unset => epoch' = Unset
      /\ epoch # Unset => /\ epoch' # Unset /\ epoch'.replacementSeq = latest + 1
                          /\ epoch'.replacementSeq # Unset
                          /\ epoch'.revision = epoch.revision + 1
  BY NewEvents, Requested
<1>2. UpdatesOrdered' /\ \A u \in updates' : u.seq <= latest + 1
  BY NextUpdate DEF CurrentInv
<1>3. Announced'
  BY <1>1, <1>2 DEF Announced
<1>4. Passed
  BY <1>1 DEF Passed
<1>5. ASSUME NEW q \in Attempts, Steady PROVE Informed(turn[q])'
  <2>1. CASE turn'[q] = turn[q]
    BY <1>4, <1>5, <2>1, Surpassed DEF CurrentInv
  <2>2. CASE turn'[q].pc = "attempt"
    BY <2>2 DEF Informed, KnowsRow, KnowsSystem
  <2> QED BY <2>1, <2>2
<1> QED BY <1>2, <1>3, <1>5 DEF CurrentInv, Steady

LEMMA CurrentBumps ==
    ASSUME EpochInv, CurrentInv,
           \/ \E a \in Agents : agentSwitched(a)
           \/ \E m \in Models : modelSwitched(m)
           \/ \E v \in Versions : contextUpdatedReplayed(v)
           \/ \E r \in Attempts : compact(r)
    PROVE  CurrentInv'
<1>1. NewEvent /\ epoch' = requestReplacement(latest + 1) /\ UNCHANGED world
  BY DEF agentSwitched, modelSwitched, contextUpdatedReplayed, compact
<1>2. \E v : updates' \subseteq updates \cup {[seq |-> latest + 1, version |-> v]}
  BY DEF agentSwitched, modelSwitched, contextUpdatedReplayed, compact
<1>3. \A q \in Attempts : turn'[q] = turn[q] \/ turn'[q].pc = "attempt"
  <2>1. CASE turn' = turn
    BY <2>1
  <2>2. ASSUME NEW r \in Attempts, Rebuild(r)
        PROVE  \A q \in Attempts : turn'[q] = turn[q] \/ turn'[q].pc = "attempt"
    <3> DEFINE t == [NoAttempt EXCEPT !.pc = "attempt", !.location = turn[r].location]
    <3>1. t.pc = "attempt"
      BY NoAttemptTyped DEF Turns
    <3>2. turn' = [turn EXCEPT ![r] = t]
      BY <2>2 DEF Rebuild
    <3> HIDE DEF t
    <3> QED BY <3>1, <3>2 DEF EpochInv, EpochTypeOK
  <2> QED BY <2>1, <2>2 DEF agentSwitched, modelSwitched, contextUpdatedReplayed, compact
<1> QED BY <1>1, <1>2, <1>3, Bumps DEF world

\* The turn an attempt makes of the row it writes.
LEMMA KnowsOwn ==
    ASSUME EpochInv', NEW t, t.pc = "reread", t.system # Unset, epoch' # Unset,
           t.system.baseline = epoch'.baseline, t.system.baselineSeq = epoch'.baselineSeq,
           t.system.replacementSeq = epoch'.replacementSeq, t.system.revision = epoch'.revision
    PROVE  Informed(t)'
<1>1. epoch'.revision \in Nat
  BY DEF EpochInv, EpochTypeOK, Or, EpochRows
<1>2. Follows(t.system)' /\ SameRow(t.system)'
  BY <1>1 DEF Follows, SameRow
<1> QED BY <1>2 DEF Informed, KnowsRow, KnowsSystem

\* A row takes the place of the one an attempt has read.
LEMMA Writes ==
    ASSUME EpochInv, EpochInv', CurrentInv, NEW r \in Attempts, NEW t,
           turn' = [turn EXCEPT ![r] = t], t.pc = "reread", t.system # Unset, epoch' # Unset,
           t.system.baseline = epoch'.baseline, t.system.baselineSeq = epoch'.baselineSeq,
           t.system.replacementSeq = epoch'.replacementSeq, t.system.revision = epoch'.revision,
           UNCHANGED world, UpdatesOrdered', Steady => Announced',
           ASSUME Steady, NEW q \in Attempts, q # r, turn'[q] = turn[q]
           PROVE  Informed(turn[q])'
    PROVE  CurrentInv'
<1>1. \A q \in Attempts : turn'[q] = IF q = r THEN t ELSE turn[q]
  BY DEF EpochInv, EpochTypeOK
<1>2. Informed(t)'
  BY KnowsOwn
<1>3. ASSUME Steady, NEW q \in Attempts PROVE Informed(turn[q])'
  <2>1. CASE q = r
    <3>1. turn'[q] = t
      BY <1>1, <2>1
    <3> QED BY <1>2, <3>1 DEF Informed, KnowsRow, KnowsSystem, Follows, Still, SameRow
  <2>2. CASE q # r
    BY <1>1, <1>3, <2>2
  <2> QED BY <2>1, <2>2
<1> QED BY <1>3 DEF CurrentInv, Steady, world

LEMMA CurrentInserts ==
    ASSUME EpochInv, EpochInv', CurrentInv, NEW r \in Attempts, insert(r)
    PROVE  CurrentInv'
<1>1. CASE Again(r)
  BY <1>1, CurrentAgain
<1>2. CASE ~Again(r)
  <2> DEFINE row == [baseline |-> Generation(r), snapshot |-> turn[r].seen, baselineSeq |-> latest,
                     replacementSeq |-> Unset, revision |-> 0]
             t == [turn[r] EXCEPT !.pc = "reread", !.system = row, !.stored = Unset, !.seen = Unset,
                                  !.result = "none", !.cut = 0]
  <2>1. /\ turn[r].pc = "commit" /\ epoch = Unset /\ epoch' = row
        /\ UNCHANGED <<session, latest, updates, world>>
    BY <1>2 DEF insert
  <2>2. turn' = [turn EXCEPT ![r] = t]
    BY <1>2 DEF insert, Prepared
  <2>3. row \in EpochRows
    BY <2>1, Generated, EpochBounds DEF EpochRows, EpochInv, EpochTypeOK
  <2>4. row # Unset
    BY <2>3, UnsetAssumption
  <2>5. t.pc = "reread" /\ t.system = row
    BY TurnTyped DEF Turns
  <2>6. row.baselineSeq = latest /\ row.baseline.version = row.snapshot /\ row.replacementSeq = Unset
    BY DEF Generation
  <2> HIDE DEF t, row
  <2>7. UpdatesOrdered'
    BY <2>1 DEF CurrentInv, UpdatesOrdered
  <2>8. \A u \in updates : ~(u.seq > latest)
    BY EpochBounds DEF CurrentInv, UpdatesOrdered, EpochInv, EpochTypeOK, Sequences
  <2>9. Announced'
    BY <2>1, <2>6, <2>8 DEF Announced, Tells, entriesForRunner
  <2>10. ASSUME Steady, NEW q \in Attempts, q # r, turn'[q] = turn[q]
         PROVE  Informed(turn[q])'
    <3>1. CASE alone
      <4>1. turn[q].pc = "idle"
        BY <2>1, <2>10, <3>1, OthersIdle
      <4> QED BY <2>10, <4>1 DEF Informed, KnowsRow, KnowsSystem
    <3>2. CASE ~moved
      <4>1. Informed(turn[q])
        BY <2>10 DEF CurrentInv
      <4>2. /\ ~(turn[q].pc \in {"observe", "commit"} /\ turn[q].stored # Unset)
            /\ turn[q].pc \notin {"reread", "load", "check"}
        BY <2>1, <3>2, <4>1 DEF Informed, KnowsRow, KnowsSystem, Follows
      <4> QED BY <2>10, <4>2 DEF Informed, KnowsRow, KnowsSystem
    <3> QED BY <2>10, <3>1, <3>2 DEF Steady
  <2> QED BY <2>1, <2>2, <2>4, <2>5, <2>7, <2>9, <2>10, Writes
<1> QED BY <1>1, <1>2

\* A row that is still the one read is the durable one.
LEMMA StillRead ==
    ASSUME EpochInv, CurrentInv, Steady, NEW r \in Attempts, turn[r].pc = "commit",
           turn[r].stored # Unset, sameRevision(r)
    PROVE  /\ turn[r].stored = epoch
           /\ turn[r].result = "ready" => \A u \in updates : u.seq <= turn[r].cut
BY DEF CurrentInv, Informed, KnowsRow, Still, sameRevision

LEMMA CurrentReplaces ==
    ASSUME EpochInv, EpochInv', CurrentInv, NEW r \in Attempts, replace(r)
    PROVE  CurrentInv'
<1>1. CASE ~sameRevision(r)
  BY <1>1, CurrentAgain DEF replace
<1>2. CASE sameRevision(r)
  <2> DEFINE row == [baseline |-> Generation(r), snapshot |-> turn[r].seen, baselineSeq |-> turn[r].cut,
                     replacementSeq |-> Unset, revision |-> turn[r].stored.revision + 1]
             t == [turn[r] EXCEPT !.pc = "reread", !.system = row, !.stored = Unset, !.seen = Unset,
                                  !.result = "none", !.cut = 0]
  <2>1. /\ turn[r].pc = "commit" /\ turn[r].result = "ready" /\ epoch' = row
        /\ UNCHANGED <<session, latest, updates, world>>
    BY <1>2 DEF replace
  <2>2. turn' = [turn EXCEPT ![r] = t]
    BY <1>2 DEF replace, Prepared
  <2>3. turn[r].stored # Unset
    BY <2>1, TurnTyped DEF Holding
  <2>4. epoch # Unset /\ epoch.revision = turn[r].stored.revision
    BY <1>2 DEF sameRevision
  <2>5. row \in EpochRows
    <3>1. turn[r].stored.revision + 1 \in Nat
      BY <2>3, RowsTyped
    <3>2. turn[r].cut \in Sequences
      BY TurnTyped DEF Turns
    <3> QED BY <2>1, <3>1, <3>2, Generated DEF EpochRows
  <2>6. row # Unset
    BY <2>5, UnsetAssumption
  <2>7. t.pc = "reread" /\ t.system = row
    BY TurnTyped DEF Turns
  <2>8. /\ row.baselineSeq = turn[r].cut /\ row.baseline.version = row.snapshot /\ row.replacementSeq = Unset
        /\ row.revision = turn[r].stored.revision + 1
    BY DEF Generation
  <2> HIDE DEF t, row
  <2>9. UpdatesOrdered'
    BY <2>1 DEF CurrentInv, UpdatesOrdered
  <2>10. Passed
    BY <2>1, <2>4, <2>6, <2>8 DEF Passed
  <2>11. ASSUME Steady PROVE Announced'
    <3>1. \A u \in updates : u.seq <= turn[r].cut
      BY <1>2, <2>1, <2>3, <2>11, StillRead
    <3>2. \A u \in updates : ~(u.seq > turn[r].cut)
      BY <3>1, TurnTyped, EpochBounds DEF Turns, EpochInv, EpochTypeOK, Sequences
    <3> QED BY <2>1, <2>8, <3>2 DEF Announced, Tells, entriesForRunner
  <2>12. ASSUME Steady, NEW q \in Attempts, q # r, turn'[q] = turn[q]
         PROVE  Informed(turn[q])'
    BY <2>1, <2>10, <2>12, Surpassed DEF CurrentInv, world
  <2> QED BY <2>1, <2>2, <2>6, <2>7, <2>9, <2>11, <2>12, Writes
<1> QED BY <1>1, <1>2

LEMMA CurrentAdvances ==
    ASSUME EpochInv, EpochInv', CurrentInv, NEW r \in Attempts, advance(r)
    PROVE  CurrentInv'
<1>1. CASE ~(sameRevision(r) /\ epoch.replacementSeq = Unset)
  BY <1>1, CurrentAgain DEF advance
<1>2. CASE sameRevision(r) /\ epoch.replacementSeq = Unset
  <2> DEFINE new == [seq |-> latest + 1, version |-> turn[r].seen]
             row == [epoch EXCEPT !.snapshot = turn[r].seen, !.revision = epoch.revision + 1]
             system == [turn[r].stored EXCEPT !.revision = turn[r].stored.revision + 1]
             t == [turn[r] EXCEPT !.pc = "reread", !.stored = Unset, !.seen = Unset, !.result = "none",
                                  !.system = system]
  <2>1. /\ turn[r].pc = "commit" /\ turn[r].result = "updated" /\ NewEvent /\ epoch' = row
        /\ updates' = updates \cup {new} /\ UNCHANGED <<session, world>>
    BY <1>2 DEF advance
  <2>2. turn' = [turn EXCEPT ![r] = t]
    BY <1>2 DEF advance
  <2>3. turn[r].stored # Unset
    BY <2>1, TurnTyped DEF Holding
  <2>4. epoch # Unset /\ epoch \in EpochRows /\ epoch.revision \in Nat
        /\ turn[r].stored \in EpochRows /\ turn[r].stored.revision = epoch.revision /\ turn[r].seen \in Versions
    BY <1>2, <2>1, <2>3, RowsTyped, Generated DEF sameRevision
  <2>5. /\ row.baseline = epoch.baseline /\ row.baselineSeq = epoch.baselineSeq
        /\ row.replacementSeq = epoch.replacementSeq
        /\ row.revision = epoch.revision + 1 /\ row.snapshot = turn[r].seen
    BY <2>4 DEF EpochRows
  <2>6. row \in EpochRows /\ system \in EpochRows
    <3>1. epoch.revision + 1 \in Nat /\ turn[r].stored.revision + 1 \in Nat
      BY <2>4
    <3> QED BY <2>4, <3>1 DEF EpochRows
  <2>7. row # Unset /\ system # Unset
    BY <2>6, UnsetAssumption
  <2>8. /\ system.baseline = turn[r].stored.baseline /\ system.baselineSeq = turn[r].stored.baselineSeq
        /\ system.replacementSeq = turn[r].stored.replacementSeq
        /\ system.revision = turn[r].stored.revision + 1
    BY <2>4 DEF EpochRows
  <2>9. t.pc = "reread" /\ t.system = system
    BY TurnTyped DEF Turns
  <2>10. new.seq = latest + 1 /\ new.version = turn[r].seen
    OBVIOUS
  <2> HIDE DEF t, row, system, new
  <2>11. UpdatesOrdered' /\ \A u \in updates' : u.seq <= latest + 1
    BY <2>1, NextUpdate DEF CurrentInv, new
  <2>12. Passed
    BY <2>1, <2>4, <2>5, <2>7 DEF Passed
  <2>13. Announced'
    <3>1. epoch.baselineSeq <= latest /\ epoch.baselineSeq \in Nat /\ latest \in Nat
      BY <2>1, <2>4, NewEvents, EpochBounds DEF EpochInv, RowBehind, EpochRows, Sequences
    <3> DEFINE sent == {u \in updates' : u.seq > epoch'.baselineSeq}
    <3>2. new \in sent
      BY <2>1, <2>5, <2>10, <3>1
    <3>3. new.version = epoch'.snapshot /\ \A w \in sent : w.seq <= new.seq
      BY <2>1, <2>5, <2>10, <2>11
    <3>4. Tells(epoch, epoch.snapshot)'
      BY <3>2, <3>3 DEF Tells, entriesForRunner
    <3>5. epoch'.replacementSeq = Unset
      BY <1>2, <2>1, <2>5
    <3> QED BY <3>4, <3>5 DEF Announced
  <2>14. ASSUME Steady, NEW q \in Attempts, q # r, turn'[q] = turn[q]
         PROVE  Informed(turn[q])'
    BY <2>1, <2>12, <2>14, Surpassed DEF CurrentInv, world
  <2>15. CASE Steady
    <3>1. turn[r].stored = epoch
      BY <1>2, <2>1, <2>3, <2>15, StillRead
    <3> QED BY <2>1, <2>2, <2>4, <2>5, <2>7, <2>8, <2>9, <2>11, <2>13, <2>14, <3>1, Writes
  <2>16. CASE ~Steady
    BY <2>1, <2>11, <2>16 DEF CurrentInv, Steady, world
  <2> QED BY <2>15, <2>16
<1> QED BY <1>1, <1>2

\* The epoch is reset where the Session moves: only an attempt of another process keeps
\* what it read, and its row is gone.
LEMMA CurrentMoves ==
    ASSUME EpochInv, CurrentInv, NEW l \in Locations, movedTo(l)
    PROVE  CurrentInv'
<1>1. NewEvent /\ epoch' = Unset /\ moved' = TRUE /\ UNCHANGED <<updates, turn, alone>>
  BY DEF movedTo
<1>2. UpdatesOrdered'
  <2>1. updates' \subseteq updates \cup {[seq |-> latest + 1, version |-> 0]}
    BY <1>1
  <2> QED BY <1>1, <2>1, NextUpdate DEF CurrentInv
<1>3. Announced'
  BY <1>1 DEF Announced
<1>4. ASSUME Steady', NEW q \in Attempts PROVE Informed(turn[q])'
  <2>1. Informed(turn[q])
    BY <1>1, <1>4 DEF Steady, CurrentInv
  <2> QED BY <1>1, <2>1 DEF Informed, KnowsRow, KnowsSystem, Follows, Still
<1> QED BY <1>2, <1>3, <1>4 DEF CurrentInv

LEMMA CurrentStep == EpochInv /\ CurrentInv /\ [EpochNext]_epochVars => CurrentInv'
<1> SUFFICES ASSUME EpochInv, CurrentInv, [EpochNext]_epochVars PROVE CurrentInv'
  OBVIOUS
<1>0. EpochInv'
  BY EpochStep
<1>1. ASSUME UNCHANGED <<session, epoch, latest, updates, turn, alone, moved>> PROVE CurrentInv'
  BY <1>1 DEF CurrentInv, UpdatesOrdered, Steady, Announced, Tells, entriesForRunner,
              Informed, KnowsRow, KnowsSystem, Follows, Still, SameRow
<1>2. ASSUME NEW r \in Attempts, runTurn(r) PROVE CurrentInv'
  <2>1. CASE drain(r) \/ runTurnAttempt(r) \/ find(r)
    BY <2>1, CurrentFirst
  <2>2. CASE observe(r)
    BY <2>2, CurrentObserves
  <2>3. CASE insert(r) \/ replace(r) \/ advance(r)
    BY <1>0, <2>3, CurrentInserts, CurrentReplaces, CurrentAdvances
  <2>4. CASE insertElsewhere(r) \/ agentMismatch(r) \/ fence(r)
    BY <2>4, CurrentFences
  <2>5. CASE reread(r) \/ load(r) \/ callProvider(r) \/ again(r) \/ quit(r)
    BY <2>5, CurrentLast
  <2>6. CASE compact(r)
    BY <2>6, CurrentBumps
  <2> QED BY <1>2, <2>1, <2>2, <2>3, <2>4, <2>5, <2>6 DEF runTurn, prepareOnce
<1>3. ASSUME NEW a \in Agents, sourcesChange(a) PROVE CurrentInv'
  BY <1>1, <1>3 DEF sourcesChange
<1>4. ASSUME NEW l \in Locations, movedTo(l) PROVE CurrentInv'
  BY <1>4, CurrentMoves
<1>5. CASE UNCHANGED epochVars
  BY <1>1, <1>5 DEF epochVars
<1> QED BY <1>2, <1>3, <1>4, <1>5, CurrentBumps DEF EpochNext

\* Only the last look calls the provider.
LEMMA CalledOnly ==
    ASSUME EpochInv, [EpochNext]_epochVars, NEW r \in Attempts,
           turn[r].pc = "check", turn'[r].pc = "called"
    PROVE  current(r)
<1>0. turn \in [Attempts -> Turns]
  BY DEF EpochInv, EpochTypeOK
<1>1. turn' # turn
  OBVIOUS
<1>2. PICK q \in Attempts : runTurn(q)
  BY <1>1 DEF EpochNext, epochVars, agentSwitched, sourcesChange, modelSwitched, movedTo, contextUpdatedReplayed
<1>3. ASSUME NEW t, turn' = [turn EXCEPT ![q] = t] PROVE q = r /\ t.pc = "called"
  BY <1>0, <1>3
<1>4. CASE Rebuild(q)
  <2> DEFINE t == [NoAttempt EXCEPT !.pc = "attempt", !.location = turn[q].location]
  <2>1. t.pc = "attempt"
    BY NoAttemptTyped DEF Turns
  <2>2. turn' = [turn EXCEPT ![q] = t]
    BY <1>4 DEF Rebuild
  <2> HIDE DEF t
  <2> QED BY <1>3, <2>1, <2>2
<1>5. CASE Stop(q)
  BY <1>3, <1>5, NoAttemptTyped DEF Stop
<1>6. ASSUME q # r PROVE turn'[r] = turn[r]
  <2>1. CASE drain(q) \/ find(q) \/ reread(q)
    BY <1>0, <1>6, <2>1 DEF drain, find, reread, Go, Rebuild
  <2>2. CASE observe(q)
    BY <1>0, <1>6, <2>2 DEF observe, Stop
  <2>3. CASE runTurnAttempt(q)
    BY <1>0, <1>6, <2>3 DEF runTurnAttempt, Stop
  <2>4. CASE insert(q) \/ replace(q) \/ advance(q)
    BY <1>0, <1>6, <2>4 DEF insert, replace, advance, Again, Prepared
  <2>5. CASE insertElsewhere(q) \/ agentMismatch(q) \/ fence(q)
    BY <1>0, <1>6, <2>5 DEF insertElsewhere, agentMismatch, fence, Again, Stop, Rebuild
  <2>6. CASE load(q) \/ compact(q) \/ callProvider(q) \/ again(q) \/ quit(q)
    BY <1>0, <1>6, <2>6 DEF load, compact, callProvider, Go, again, quit, Stop, Rebuild
  <2> QED BY <1>2, <2>1, <2>2, <2>3, <2>4, <2>5, <2>6 DEF runTurn, prepareOnce
<1>7. q = r
  BY <1>6
<1>8. callProvider(r) \/ compact(r) \/ quit(r)
  BY <1>2, <1>7 DEF runTurn, prepareOnce, drain, runTurnAttempt, find, observe, insert, insertElsewhere,
                    agentMismatch, fence, replace, advance, reread, load, again
<1> QED BY <1>4, <1>5, <1>7, <1>8 DEF callProvider, compact, quit

LEMMA CurrentAlways == EpochSpec => []CurrentInv
<1>1. EpochInit => CurrentInv
  BY CurrentInit
<1>2. EpochInv /\ CurrentInv /\ [EpochNext]_epochVars => CurrentInv'
  BY CurrentStep
<1> QED BY <1>1, <1>2, EpochAlways, PTL DEF EpochSpec

-----------------------------------------------------------------------------
\* Once no replacement is due, the durable baseline is the selected agent's, whoever
\* prepared it and however late (context-epoch.ts, requireAgentSelection and replace).
THEOREM EpochIsOwned == EpochSpec => []EpochOwned
<1>1. EpochInv => EpochOwned
  BY DEF EpochInv
<1> QED BY EpochAlways, <1>1, PTL

\* The durable baseline was observed at the Session's Location, where drains exclude
\* each other or the Session never moved (context-epoch.ts, insert and reset).
THEOREM EpochIsPlaced == EpochSpec => []EpochPlaced
<1>1. EpochInv => EpochPlaced
  BY DEF EpochInv
<1> QED BY EpochAlways, <1>1, PTL

\* A provider is only called with the selected agent and model at the Session's Location,
\* with the durable baseline and with a history that tells the model exactly what the
\* snapshot says, unless a replacement is due: nothing slips in between the reads a
\* request is made of (llm.ts, runTurnAttempt; context-epoch.ts, current).
THEOREM CallsAreCurrent == EpochSpec => TurnIsCurrent
<1> DEFINE Current(r) ==
        (alone \/ ~moved) /\ turn[r].pc = "check" /\ turn'[r].pc = "called" =>
           /\ session.agent \in {Unset, turn[r].agent} /\ session.model = turn[r].model
           /\ session.location = turn[r].location
           /\ epoch.baseline = turn[r].system.baseline
           /\ epoch.replacementSeq = Unset => turn[r].told = epoch.snapshot
<1>1. ASSUME EpochInv, CurrentInv, [EpochNext]_epochVars PROVE \A r \in Attempts : Current(r)
  <2> SUFFICES ASSUME NEW r \in Attempts, alone \/ ~moved, turn[r].pc = "check", turn'[r].pc = "called"
               PROVE  /\ session.agent \in {Unset, turn[r].agent} /\ session.model = turn[r].model
                      /\ session.location = turn[r].location
                      /\ epoch.baseline = turn[r].system.baseline
                      /\ epoch.replacementSeq = Unset => turn[r].told = epoch.snapshot
    OBVIOUS
  <2>1. /\ epoch # Unset /\ session.agent \in {Unset, turn[r].agent}
        /\ epoch.revision = turn[r].system.revision
    BY <1>1, CalledOnly DEF current
  <2>2. session.location = turn[r].location
    BY <1>1, <2>1, TurnTyped DEF Located
  <2>3. KnowsSystem(turn[r])
    BY <1>1 DEF CurrentInv, Steady, Informed
  <2> QED BY <2>1, <2>2, <2>3 DEF KnowsSystem, Still, SameRow
<1>2. EpochInv /\ CurrentInv /\ [EpochNext]_epochVars => [\A r \in Attempts : Current(r)]_epochVars
  BY <1>1
<1> QED BY <1>2, EpochAlways, CurrentAlways, PTL DEF EpochSpec, TurnIsCurrent

\* The row, the Session and the attempts have their types.
THEOREM EpochTyped == EpochSpec => []EpochTypeOK
<1>1. EpochInv => EpochTypeOK
  BY DEF EpochInv
<1> QED BY EpochAlways, <1>1, PTL
=============================================================================
