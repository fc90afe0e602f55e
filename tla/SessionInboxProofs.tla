------------------------- MODULE SessionInboxProofs -------------------------
(***************************************************************************)
(* What holds of the inbox for any Sessions, ids, callers and runners.     *)
(*                                                                         *)
(* Every step leaves the tables alone or makes one of four commits         *)
(* (TableStep); the invariants of the tables follow from these, and those  *)
(* of callers and runners from the fact that rows and messages, once       *)
(* there, are kept.                                                        *)
(***************************************************************************)
EXTENDS SessionInbox, TLAPS

-----------------------------------------------------------------------------
(* Type correctness.                                                        *)

RowType == [session : Sessions, content : Contents, delivery : Deliveries,
            admitted : Seqs, promoted : Seqs]
MessageType == [kind : {"none", "user", "other"}, session : Sessions,
                content : Contents, seq : Seqs]
CallType == [ask : Asks, receipt : Seqs,
             pc : {"ready", "publish", "refind", "admitted", "conflict"}]
RunnerType == [pc : {"off", "selectQueued", "selectSteers", "publishQueued",
                     "publishSteers", "recheckQueued", "recheckSteers", "died"},
               session : Sessions, cutoff : Seqs, todo : SUBSET Ids]

TablesOK ==
    /\ row \in [Ids -> RowType]
    /\ message \in [Ids -> MessageType]
    /\ sequence \in [Sessions -> Seqs]
CallsOK == call \in [Callers -> CallType]
RunnersOK == runner \in [Runners -> RunnerType]

LEMMA TypeParts == TypeOK <=> TablesOK /\ CallsOK /\ RunnersOK
  BY DEF TypeOK, TablesOK, CallsOK, RunnersOK, RowType, MessageType, CallType, RunnerType

\* The choices of Init are what they should be.
LEMMA Chosen == Ask0 \in Asks /\ (CHOOSE s \in Sessions : TRUE) \in Sessions
  <1>1. Asks # {}
    <2>1. PICK id \in Ids, s \in Sessions, x \in Contents : TRUE
      BY NonemptyAssumption
    <2>2. [id |-> id, session |-> s, content |-> x, delivery |-> "steer"] \in Asks
      BY DEF Asks, Deliveries
    <2> QED  BY <2>2
  <1> QED  BY <1>1, NonemptyAssumption DEF Ask0

LEMMA IdleType == Idle \in RunnerType
  BY Chosen, BoundAssumption DEF Idle, RunnerType, Seqs

\* A commit stays within the bound.
LEMMA CommitType ==
    ASSUME TablesOK, NEW s \in Sessions, Commit(s)
    PROVE  next(s) \in Seqs /\ next(s) # 0 /\ sequence' \in [Sessions -> Seqs]
  BY BoundAssumption DEF TablesOK, Commit, next, Seqs

LEMMA RowIsTyped ==
    ASSUME NEW ask \in Asks, NEW n \in Seqs, NEW k \in Seqs
    PROVE  Row(ask, n, k) \in RowType
  BY DEF Asks, Row, RowType

LEMMA MessageIsTyped ==
    ASSUME NEW kind \in {"none", "user", "other"}, NEW s \in Sessions, NEW x \in Contents, NEW n \in Seqs
    PROVE  Message(kind, s, x, n) \in MessageType
  BY DEF Message, MessageType

\* What a commit does to the tables, or that there was none.
admits(ask) ==
    /\ ~Exists(ask.id) /\ message[ask.id].kind = "none"
    /\ Commit(ask.session)
    /\ row' = [row EXCEPT ![ask.id] = Row(ask, next(ask.session), 0)]
    /\ UNCHANGED message

promotes(r, id) ==
    /\ id \in First(runner[r].todo)
    /\ IsPending(id) /\ row[id].session = runner[r].session /\ message[id].kind = "none"
    /\ Commit(runner[r].session)
    /\ row' = [row EXCEPT ![id].promoted = next(runner[r].session)]
    /\ message' = [message EXCEPT ![id] =
                      Message("user", runner[r].session, row[id].content, next(runner[r].session))]

bridges(ask) ==
    /\ ~Exists(ask.id) /\ message[ask.id].kind = "none"
    /\ Commit(ask.session)
    /\ message' = [message EXCEPT ![ask.id] = Message("user", ask.session, ask.content, next(ask.session))]
    /\ row' = [row EXCEPT ![ask.id] = Row(ask, next(ask.session), next(ask.session))]

occupies(id, s, x) ==
    /\ ~Exists(id) /\ message[id].kind = "none"
    /\ Commit(s)
    /\ message' = [message EXCEPT ![id] = Message("other", s, x, next(s))]
    /\ UNCHANGED row

TableStep ==
    \/ UNCHANGED <<row, message, sequence>>
    \/ \E ask \in Asks : admits(ask) \/ bridges(ask)
    \/ \E r \in Runners, id \in Ids : promotes(r, id)
    \/ \E id \in Ids, s \in Sessions, x \in Contents : occupies(id, s, x)

\* Every step of the inbox is one of these.
LEMMA StepOfTables ==
    ASSUME TypeOK, [Next]_vars
    PROVE  TableStep
  <1> USE TypeParts
  <1>1. ASSUME UNCHANGED vars PROVE TableStep
    BY <1>1 DEF vars, TableStep
  <1>2. ASSUME NEW c \in Callers, Caller(c) PROVE TableStep
    <2>1. ASSUME publishAdmitted(c) PROVE TableStep
      <3>1. call[c].ask \in Asks
        BY DEF CallsOK, CallType
      <3> QED  BY <2>1, <3>1 DEF publishAdmitted, admittedConflict, TableStep, admits
    <2>2. ASSUME NEW ask \in Asks, findInput(c, ask) PROVE TableStep
      BY <2>2 DEF findInput, TableStep
    <2>3. ASSUME refind(c) \/ crashCaller(c) PROVE TableStep
      BY <2>3 DEF refind, crashCaller, TableStep
    <2> QED  BY <1>2, <2>1, <2>2, <2>3 DEF Caller
  <1>3. ASSUME NEW r \in Runners, Runner(r) PROVE TableStep
    <2>1. ASSUME NEW s \in Sessions, readCutoff(r, s) PROVE TableStep
      BY <2>1 DEF readCutoff, Advance, TableStep
    <2>2. ASSUME selectQueued(r) PROVE TableStep
      BY <2>2 DEF selectQueued, Advance, TableStep
    <2>3. ASSUME selectSteers(r) \/ recheckPromoted(r) \/ promotionDone(r) \/ interruptRunner(r)
          PROVE  TableStep
      BY <2>3 DEF selectSteers, recheckPromoted, promotionDone, interruptRunner, Advance, TableStep
    <2>4. ASSUME publishPromoted(r) PROVE TableStep
      <3>1. PICK id \in First(runner[r].todo) :
               \/ promotes(r, id)
               \/ UNCHANGED <<row, message, sequence>>
        BY <2>4 DEF publishPromoted, promotes, promotedConflict, Advance
      <3>2. id \in Ids
        BY DEF First, RunnersOK, RunnerType
      <3> QED  BY <3>1, <3>2 DEF TableStep
    <2> QED  BY <1>3, <2>1, <2>2, <2>3, <2>4 DEF Runner
  <1>4. ASSUME NEW id \in Ids, NEW s \in Sessions, otherMessage(id, s) \/ generatedMessage(id, s)
        PROVE  TableStep
    BY <1>4 DEF otherMessage, generatedMessage, Writes, guardReservedID, TableStep, occupies
  <1>5. ASSUME NEW ask \in Asks, legacyPrompted(ask) PROVE TableStep
    BY <1>5 DEF legacyPrompted, TableStep, bridges
  <1> QED  BY <1>1, <1>2, <1>3, <1>4, <1>5 DEF Next

-----------------------------------------------------------------------------
LEMMA TablesStayTyped ==
    ASSUME TablesOK, RunnersOK, TableStep
    PROVE  TablesOK'
  <1>1. CASE UNCHANGED <<row, message, sequence>>
    BY <1>1 DEF TablesOK
  <1>2. ASSUME NEW ask \in Asks, admits(ask) PROVE TablesOK'
    <2>1. ask.id \in Ids /\ ask.session \in Sessions
      BY DEF Asks
    <2>2. next(ask.session) \in Seqs /\ sequence' \in [Sessions -> Seqs]
      BY <1>2, <2>1, CommitType DEF admits
    <2>3. Row(ask, next(ask.session), 0) \in RowType
      BY <2>2, RowIsTyped, BoundAssumption DEF Seqs
    <2> QED  BY <1>2, <2>1, <2>2, <2>3 DEF admits, TablesOK
  <1>3. ASSUME NEW ask \in Asks, bridges(ask) PROVE TablesOK'
    <2>1. ask.id \in Ids /\ ask.session \in Sessions /\ ask.content \in Contents
      BY DEF Asks
    <2>2. next(ask.session) \in Seqs /\ sequence' \in [Sessions -> Seqs]
      BY <1>3, <2>1, CommitType DEF bridges
    <2>3. Row(ask, next(ask.session), next(ask.session)) \in RowType
      BY <2>2, RowIsTyped
    <2>4. Message("user", ask.session, ask.content, next(ask.session)) \in MessageType
      BY <2>1, <2>2, MessageIsTyped
    <2> QED  BY <1>3, <2>1, <2>2, <2>3, <2>4 DEF bridges, TablesOK
  <1>4. ASSUME NEW r \in Runners, NEW id \in Ids, promotes(r, id) PROVE TablesOK'
    <2>1. runner[r].session \in Sessions /\ row[id] \in RowType
      BY DEF RunnersOK, RunnerType, TablesOK
    <2>2. next(runner[r].session) \in Seqs /\ sequence' \in [Sessions -> Seqs]
      BY <1>4, <2>1, CommitType DEF promotes
    <2>3. row' \in [Ids -> RowType]
      BY <1>4, <2>1, <2>2 DEF promotes, TablesOK, RowType
    <2>4. Message("user", runner[r].session, row[id].content, next(runner[r].session)) \in MessageType
      BY <2>1, <2>2, MessageIsTyped DEF RowType
    <2> QED  BY <1>4, <2>2, <2>3, <2>4 DEF promotes, TablesOK
  <1>5. ASSUME NEW id \in Ids, NEW s \in Sessions, NEW x \in Contents, occupies(id, s, x) PROVE TablesOK'
    <2>1. next(s) \in Seqs /\ sequence' \in [Sessions -> Seqs]
      BY <1>5, CommitType DEF occupies
    <2>2. Message("other", s, x, next(s)) \in MessageType
      BY <2>1, MessageIsTyped
    <2> QED  BY <1>5, <2>1, <2>2 DEF occupies, TablesOK
  <1> QED  BY <1>1, <1>2, <1>3, <1>4, <1>5 DEF TableStep

\* What a caller is left with.
LEMMA CallsStayTyped ==
    ASSUME TablesOK, CallsOK, [Next]_vars
    PROVE  CallsOK'
  <1>1. CASE UNCHANGED call
    BY <1>1 DEF CallsOK
  <1>2. ASSUME NEW c \in Callers, NEW pc \in {"ready", "refind", "conflict", "admitted"}, NEW n \in Seqs,
               Tell(c, pc, n)
        PROVE  CallsOK'
    BY <1>2 DEF Tell, CallsOK, CallType
  <1>3. ASSUME NEW c \in Callers, NEW ask \in Asks, Reconcile(c, ask)
        PROVE  CallsOK'
    <2>1. ask.id \in Ids
      BY DEF Asks
    <2>2. row[ask.id].admitted \in Seqs
      BY <2>1 DEF TablesOK, RowType
    <2> QED  BY <1>3, <2>2 DEF Reconcile, CallsOK, CallType
  <1>4. 0 \in Seqs
    BY BoundAssumption DEF Seqs
  <1>5. ASSUME NEW c \in Callers, Caller(c) PROVE CallsOK'
    <2>0. call[c].ask \in Asks
      BY DEF CallsOK, CallType
    <2>1. ASSUME NEW ask \in Asks, findInput(c, ask) PROVE CallsOK'
      <3>1. CASE Reconcile(c, ask)
        BY <1>3, <3>1
      <3>2. CASE call' = [call EXCEPT ![c] = [ask |-> ask, receipt |-> 0, pc |-> "publish"]]
        BY <1>4, <3>2 DEF CallsOK, CallType
      <3> QED  BY <2>1, <3>1, <3>2 DEF findInput
    <2>2. ASSUME publishAdmitted(c) PROVE CallsOK'
      <3>1. CASE Tell(c, "refind", 0)
        BY <1>2, <1>4, <3>1
      <3>2. CASE Commit(call[c].ask.session) /\ Tell(c, "admitted", next(call[c].ask.session))
        <4>1. next(call[c].ask.session) \in Seqs
          BY <2>0, <3>2, CommitType DEF Asks
        <4> QED  BY <1>2, <3>2, <4>1
      <3> QED  BY <2>2, <3>1, <3>2 DEF publishAdmitted
    <2>3. ASSUME refind(c) PROVE CallsOK'
      BY <1>2, <1>3, <1>4, <2>0, <2>3 DEF refind
    <2>4. ASSUME crashCaller(c) PROVE CallsOK'
      BY <1>2, <1>4, <2>4 DEF crashCaller
    <2> QED  BY <1>5, <2>1, <2>2, <2>3, <2>4 DEF Caller
  <1>6. ASSUME NEW r \in Runners, Runner(r) PROVE UNCHANGED call
    BY <1>6 DEF Runner, readCutoff, selectQueued, selectSteers, publishPromoted, recheckPromoted,
                promotionDone, interruptRunner, Advance
  <1> QED  BY <1>1, <1>5, <1>6 DEF Next, vars, otherMessage, generatedMessage, Writes, legacyPrompted

\* Where a runner is left.
LEMMA RunnersStayTyped ==
    ASSUME TablesOK, RunnersOK, [Next]_vars
    PROVE  RunnersOK'
  <1>1. CASE UNCHANGED runner
    BY <1>1 DEF RunnersOK
  <1>2. ASSUME NEW r \in Runners, NEW record \in RunnerType, runner' = [runner EXCEPT ![r] = record]
        PROVE  RunnersOK'
    BY <1>2 DEF RunnersOK
  <1>3. ASSUME NEW r \in Runners, Runner(r) PROVE RunnersOK'
    <2>0. runner[r] \in RunnerType
      BY DEF RunnersOK
    <2>1. ASSUME NEW s \in Sessions, readCutoff(r, s) PROVE RunnersOK'
      <3>1. PICK pc \in {"selectQueued", "selectSteers"} :
               runner' = [runner EXCEPT ![r] = [pc |-> pc, session |-> s, cutoff |-> sequence[s], todo |-> {}]]
        BY <2>1 DEF readCutoff, Advance
      <3>2. [pc |-> pc, session |-> s, cutoff |-> sequence[s], todo |-> {}] \in RunnerType
        BY DEF TablesOK, RunnerType
      <3> QED  BY <1>2, <3>1, <3>2
    <2>2. ASSUME selectQueued(r) PROVE RunnersOK'
      <3>1. PICK record \in RunnerType : runner' = [runner EXCEPT ![r] = record]
        <4>1. CASE PendingOf(runner[r].session, "queue") = {}
          <5>1. [runner[r] EXCEPT !.pc = "selectSteers"] \in RunnerType
            BY <2>0 DEF RunnerType
          <5> QED  BY <2>2, <4>1, <5>1 DEF selectQueued, Advance
        <4>2. CASE PendingOf(runner[r].session, "queue") # {}
          <5>1. PICK id \in First(PendingOf(runner[r].session, "queue")) :
                   runner' = [runner EXCEPT ![r] = [runner[r] EXCEPT !.pc = "publishQueued", !.todo = {id}]]
            BY <2>2, <4>2 DEF selectQueued, Advance
          <5>2. id \in Ids
            BY DEF First, PendingOf
          <5>3. [runner[r] EXCEPT !.pc = "publishQueued", !.todo = {id}] \in RunnerType
            BY <2>0, <5>2 DEF RunnerType
          <5> QED  BY <5>1, <5>3
        <4> QED  BY <4>1, <4>2
      <3> QED  BY <1>2, <3>1
    <2>3. ASSUME selectSteers(r) PROVE RunnersOK'
      <3> DEFINE found == {id \in PendingOf(runner[r].session, "steer") : row[id].admitted <= runner[r].cutoff}
      <3>1. found \in SUBSET Ids
        BY DEF PendingOf
      <3> HIDE DEF found
      <3>2. [runner[r] EXCEPT !.pc = "publishSteers", !.todo = found] \in RunnerType
        BY <2>0, <3>1 DEF RunnerType
      <3>3. runner' = [runner EXCEPT ![r] = [runner[r] EXCEPT !.pc = "publishSteers", !.todo = found]]
        BY <2>3 DEF selectSteers, Advance, found
      <3> QED  BY <1>2, <3>2, <3>3
    <2>4. ASSUME publishPromoted(r) PROVE RunnersOK'
      <3>1. PICK id \in First(runner[r].todo) :
               \/ runner' = Rest(r, id)
               \/ runner' = [runner EXCEPT ![r] = [runner[r] EXCEPT !.pc = "died"]]
               \/ runner' = [runner EXCEPT ![r] = [runner[r] EXCEPT !.pc =
                                IF @ = "publishQueued" THEN "recheckQueued" ELSE "recheckSteers"]]
        BY <2>4 DEF publishPromoted, Advance
      <3>2. [runner[r] EXCEPT !.pc = "died"] \in RunnerType
        BY <2>0 DEF RunnerType
      <3>3. [runner[r] EXCEPT !.pc = IF @ = "publishQueued" THEN "recheckQueued" ELSE "recheckSteers"] \in RunnerType
        BY <2>0 DEF RunnerType
      <3>4. ASSUME runner' = Rest(r, id) PROVE RunnersOK'
        BY <2>0, <3>4 DEF Rest, RunnersOK, RunnerType
      <3> QED  BY <1>2, <3>1, <3>2, <3>3, <3>4
    <2>5. ASSUME recheckPromoted(r) PROVE RunnersOK'
      <3>1. PICK id \in First(runner[r].todo) :
               \/ runner' = [runner EXCEPT ![r] = [runner[r] EXCEPT !.todo = @ \ {id},
                               !.pc = IF @ = "recheckQueued" THEN "publishQueued" ELSE "publishSteers"]]
               \/ runner' = [runner EXCEPT ![r] = [runner[r] EXCEPT !.pc = "died"]]
        BY <2>5 DEF recheckPromoted, Advance
      <3>2. [runner[r] EXCEPT !.pc = "died"] \in RunnerType
        BY <2>0 DEF RunnerType
      <3>3. [runner[r] EXCEPT !.todo = @ \ {id},
                !.pc = IF @ = "recheckQueued" THEN "publishQueued" ELSE "publishSteers"] \in RunnerType
        BY <2>0 DEF RunnerType
      <3> QED  BY <1>2, <3>1, <3>2, <3>3
    <2>6. ASSUME promotionDone(r) PROVE RunnersOK'
      <3>1. [runner[r] EXCEPT !.pc = "selectSteers"] \in RunnerType
        BY <2>0 DEF RunnerType
      <3> QED  BY <1>2, <2>6, <3>1, IdleType DEF promotionDone, Advance
    <2>7. ASSUME interruptRunner(r) PROVE RunnersOK'
      BY <1>2, <2>7, IdleType DEF interruptRunner, Advance
    <2> QED  BY <1>3, <2>1, <2>2, <2>3, <2>4, <2>5, <2>6, <2>7 DEF Runner
  <1>4. ASSUME NEW c \in Callers, Caller(c) PROVE UNCHANGED runner
    BY <1>4 DEF Caller, findInput, publishAdmitted, refind, crashCaller
  <1> QED  BY <1>1, <1>3, <1>4 DEF Next, vars, otherMessage, generatedMessage, Writes, legacyPrompted

LEMMA InitType == Init => TypeOK
  <1> SUFFICES ASSUME Init PROVE TypeOK  OBVIOUS
  <1>0. 0 \in Seqs
    BY BoundAssumption DEF Seqs
  <1>1. Row(Ask0, 0, 0) \in RowType
    BY <1>0, Chosen, RowIsTyped
  <1>2. Message("none", Ask0.session, Ask0.content, 0) \in MessageType
    BY <1>0, Chosen, MessageIsTyped DEF Asks
  <1>3. TablesOK
    BY <1>0, <1>1, <1>2 DEF Init, TablesOK
  <1>4. CallsOK
    BY <1>0, Chosen DEF Init, CallsOK, CallType
  <1>5. RunnersOK
    BY IdleType DEF Init, RunnersOK
  <1> QED  BY <1>3, <1>4, <1>5, TypeParts

LEMMA TypeStep == TypeOK /\ [Next]_vars => TypeOK'
  <1> SUFFICES ASSUME TypeOK, [Next]_vars PROVE TypeOK'  OBVIOUS
  <1>1. TablesOK /\ CallsOK /\ RunnersOK
    BY TypeParts
  <1>2. TablesOK'
    BY <1>1, StepOfTables, TablesStayTyped
  <1>3. CallsOK' /\ RunnersOK'
    BY <1>1, CallsStayTyped, RunnersStayTyped
  <1> QED  BY <1>2, <1>3 DEF TypeOK, TablesOK, CallsOK, RunnersOK, RowType, MessageType, CallType, RunnerType

\* Every variable keeps its type.
THEOREM InboxTypes == Spec => []TypeOK
  BY InitType, TypeStep, PTL DEF Spec

-----------------------------------------------------------------------------
(* Rows and messages, once there, are kept.                                 *)

RowKept(id) ==
    Exists(id) =>
        /\ row'[id].session = row[id].session /\ row'[id].content = row[id].content
        /\ row'[id].delivery = row[id].delivery /\ row'[id].admitted = row[id].admitted
        /\ row[id].promoted # 0 => row'[id].promoted = row[id].promoted

MessageKept(id) == message[id].kind # "none" => message'[id] = message[id]

LEMMA Kept ==
    ASSUME TablesOK, TableStep, NEW id \in Ids
    PROVE  RowKept(id) /\ MessageKept(id)
  <1>0. row[id] \in RowType
    BY DEF TablesOK
  <1>1. CASE UNCHANGED <<row, message, sequence>>
    BY <1>1 DEF RowKept, MessageKept
  <1>2. ASSUME NEW ask \in Asks, admits(ask) \/ bridges(ask) PROVE RowKept(id) /\ MessageKept(id)
    BY <1>2 DEF admits, bridges, RowKept, MessageKept, TablesOK, Exists
  <1>3. ASSUME NEW r \in Runners, NEW other \in Ids, promotes(r, other) PROVE RowKept(id) /\ MessageKept(id)
    BY <1>0, <1>3 DEF promotes, IsPending, RowKept, MessageKept, TablesOK, RowType
  <1>4. ASSUME NEW other \in Ids, NEW s \in Sessions, NEW x \in Contents, occupies(other, s, x)
        PROVE  RowKept(id) /\ MessageKept(id)
    BY <1>4 DEF occupies, RowKept, MessageKept, TablesOK
  <1> QED  BY <1>1, <1>2, <1>3, <1>4 DEF TableStep

-----------------------------------------------------------------------------
(* Rows and messages agree.                                                 *)

ProjectedAt(id) ==
    /\ message[id].kind = "user" <=> Exists(id) /\ row[id].promoted # 0
    /\ message[id].kind = "user" =>
          /\ message[id].seq = row[id].promoted
          /\ message[id].session = row[id].session /\ message[id].content = row[id].content
    /\ message[id].kind = "other" => ~Exists(id)

LEMMA ProjectedParts == InboxProjected <=> \A id \in Ids : ProjectedAt(id)
  BY DEF InboxProjected, ProjectedAt

LEMMA ProjectedStep ==
    ASSUME TablesOK, RunnersOK, TableStep, NEW id \in Ids, ProjectedAt(id)
    PROVE  ProjectedAt(id)'
  <1>0. row[id] \in RowType /\ message[id] \in MessageType
    BY DEF TablesOK
  <1>1. CASE UNCHANGED <<row, message, sequence>>
    BY <1>1 DEF ProjectedAt, Exists
  <1>2. ASSUME NEW ask \in Asks, admits(ask) PROVE ProjectedAt(id)'
    <2>1. CASE id = ask.id
      BY <1>2, <2>1 DEF admits, Row, ProjectedAt, Exists, TablesOK
    <2>2. CASE id # ask.id
      BY <1>2, <2>2 DEF admits, ProjectedAt, Exists, TablesOK
    <2> QED  BY <2>1, <2>2
  <1>3. ASSUME NEW ask \in Asks, bridges(ask) PROVE ProjectedAt(id)'
    <2>1. CASE id = ask.id
      <3>1. next(ask.session) # 0
        BY <1>3, CommitType DEF bridges, Asks
      <3> QED  BY <1>3, <2>1, <3>1 DEF bridges, Row, Message, ProjectedAt, Exists, TablesOK
    <2>2. CASE id # ask.id
      BY <1>3, <2>2 DEF bridges, ProjectedAt, Exists, TablesOK
    <2> QED  BY <2>1, <2>2
  <1>4. ASSUME NEW r \in Runners, NEW other \in Ids, promotes(r, other) PROVE ProjectedAt(id)'
    <2>1. CASE id = other
      <3>1. next(runner[r].session) # 0
        BY <1>4, CommitType DEF promotes, RunnersOK, RunnerType
      <3> QED  BY <1>0, <1>4, <2>1, <3>1
               DEF promotes, IsPending, Message, ProjectedAt, Exists, TablesOK, RowType
    <2>2. CASE id # other
      BY <1>4, <2>2 DEF promotes, ProjectedAt, Exists, TablesOK
    <2> QED  BY <2>1, <2>2
  <1>5. ASSUME NEW other \in Ids, NEW s \in Sessions, NEW x \in Contents, occupies(other, s, x)
        PROVE  ProjectedAt(id)'
    <2>1. CASE id = other
      BY <1>5, <2>1 DEF occupies, Message, ProjectedAt, Exists, TablesOK
    <2>2. CASE id # other
      BY <1>5, <2>2 DEF occupies, ProjectedAt, Exists, TablesOK
    <2> QED  BY <2>1, <2>2
  <1> QED  BY <1>1, <1>2, <1>3, <1>4, <1>5 DEF TableStep

LEMMA InitProjected == Init => InboxProjected
  BY DEF Init, InboxProjected, Row, Message, Exists

LEMMA ProjectedNext == TypeOK /\ InboxProjected /\ [Next]_vars => InboxProjected'
  BY TypeParts, StepOfTables, ProjectedStep DEF InboxProjected, ProjectedAt

\* An id names a user message exactly while its input is promoted, and a pending
\* input's id names none.
THEOREM Projected == Spec => []InboxProjected
  BY InboxTypes, InitProjected, ProjectedNext, PTL DEF Spec

-----------------------------------------------------------------------------
(* What callers were told.                                                  *)

\* A caller whose commit died finds the id taken.
RefindMeansTaken(c) == call[c].pc = "refind" => admittedConflict(call[c].ask.id)
Receipt(c) ==
    call[c].pc = "admitted" => IsAsked(c) /\ row[call[c].ask.id].admitted = call[c].receipt
Conflict(c) ==
    call[c].pc = "conflict" =>
        message[call[c].ask.id].kind = "other" \/ (Exists(call[c].ask.id) /\ ~IsAsked(c))

Told(c) == RefindMeansTaken(c) /\ Receipt(c) /\ Conflict(c)
CallInv == \A c \in Callers : Told(c)

\* A caller that waits is told the same as before.
LEMMA ToldStays ==
    ASSUME TypeOK, TableStep, NEW c \in Callers, Told(c), UNCHANGED call[c]
    PROVE  Told(c)'
  <1>1. call[c].ask \in Asks
    BY DEF TypeOK
  <1>2. call[c].ask.id \in Ids
    BY <1>1 DEF Asks
  <1>3. RowKept(call[c].ask.id) /\ MessageKept(call[c].ask.id)
    BY <1>2, Kept, TypeParts
  <1> QED  BY <1>3 DEF Told, RefindMeansTaken, Receipt, Conflict, IsAsked, admittedConflict, Exists,
                       RowKept, MessageKept

LEMMA ReconcileTold ==
    ASSUME TypeOK, NEW c \in Callers, NEW ask \in Asks, Exists(ask.id), Reconcile(c, ask),
           UNCHANGED <<row, message>>
    PROVE  Told(c)'
  <1>1. call'[c] = [ask |-> ask, receipt |-> row[ask.id].admitted,
                    pc |-> IF equivalent(row[ask.id], ask) THEN "admitted" ELSE "conflict"]
    BY DEF Reconcile, TypeOK
  <1>2. CASE equivalent(row[ask.id], ask)
    BY <1>1, <1>2 DEF Told, RefindMeansTaken, Receipt, Conflict, IsAsked, equivalent, Exists
  <1>3. CASE ~equivalent(row[ask.id], ask)
    BY <1>1, <1>3 DEF Told, RefindMeansTaken, Receipt, Conflict, IsAsked, equivalent, Exists
  <1> QED  BY <1>2, <1>3

LEMMA CallerTold ==
    ASSUME TypeOK, InboxProjected, NEW c \in Callers, Told(c), Caller(c)
    PROVE  Told(c)'
  <1>0. call[c] \in CallType /\ call \in [Callers -> CallType]
    BY TypeParts DEF CallsOK
  <1>1. call[c].ask \in Asks /\ call[c].ask.id \in Ids /\ call[c].ask.session \in Sessions
    BY <1>0 DEF CallType, Asks
  <1>2. ASSUME NEW ask \in Asks, findInput(c, ask) PROVE Told(c)'
    <2>1. CASE Exists(ask.id) /\ Reconcile(c, ask)
      BY <1>2, <2>1, ReconcileTold DEF findInput
    <2>2. CASE call' = [call EXCEPT ![c] = [ask |-> ask, receipt |-> 0, pc |-> "publish"]]
      BY <1>0, <2>2 DEF Told, RefindMeansTaken, Receipt, Conflict
    <2> QED  BY <1>2, <2>1, <2>2 DEF findInput
  <1>3. ASSUME publishAdmitted(c) PROVE Told(c)'
    <2> DEFINE ask == call[c].ask
    <2>1. CASE /\ ~admittedConflict(ask.id)
               /\ Commit(ask.session)
               /\ row' = [row EXCEPT ![ask.id] = Row(ask, next(ask.session), 0)]
               /\ Tell(c, "admitted", next(ask.session))
      <3>1. next(ask.session) # 0
        BY <1>1, <2>1, CommitType, TypeParts
      <3>2. call'[c].pc = "admitted" /\ call'[c].receipt = next(ask.session) /\ call'[c].ask = ask
        BY <1>0, <2>1 DEF Tell, CallType
      <3>3. row'[ask.id] = Row(ask, next(ask.session), 0)
        BY <1>1, <2>1 DEF TypeOK
      <3> QED  BY <3>1, <3>2, <3>3 DEF Told, RefindMeansTaken, Receipt, Conflict, IsAsked, Row
    <2>2. CASE admittedConflict(ask.id) /\ Tell(c, "refind", 0) /\ UNCHANGED <<row, sequence>>
      <3>1. call'[c].pc = "refind" /\ call'[c].ask = ask
        BY <1>0, <2>2 DEF Tell, CallType
      <3>2. UNCHANGED message
        BY <1>3 DEF publishAdmitted
      <3> QED  BY <2>2, <3>1, <3>2 DEF Told, RefindMeansTaken, Receipt, Conflict, admittedConflict, Exists
    <2> QED  BY <1>3, <2>1, <2>2 DEF publishAdmitted
  <1>4. ASSUME refind(c) PROVE Told(c)'
    <2>1. CASE Exists(call[c].ask.id) /\ Reconcile(c, call[c].ask)
      BY <1>1, <1>4, <2>1, ReconcileTold DEF refind
    <2>2. CASE ~Exists(call[c].ask.id) /\ Tell(c, "conflict", 0)
      <3>1. call'[c].pc = "conflict" /\ call'[c].ask = call[c].ask /\ UNCHANGED message
        BY <1>0, <1>4, <2>2 DEF refind, Tell, CallType
      <3>2. message[call[c].ask.id].kind = "other"
        <4>1. message[call[c].ask.id].kind # "none"
          BY <1>4, <2>2 DEF refind, Told, RefindMeansTaken, admittedConflict
        <4>2. message[call[c].ask.id].kind # "user"
          BY <1>1, <2>2 DEF InboxProjected
        <4>3. message[call[c].ask.id].kind \in {"none", "user", "other"}
          BY <1>1 DEF TypeOK
        <4> QED  BY <4>1, <4>2, <4>3
      <3> QED  BY <3>1, <3>2 DEF Told, RefindMeansTaken, Receipt, Conflict
    <2> QED  BY <1>4, <2>1, <2>2 DEF refind
  <1>5. ASSUME crashCaller(c) PROVE Told(c)'
    <2>1. call'[c].pc = "ready"
      BY <1>0, <1>5 DEF crashCaller, Tell, CallType
    <2> QED  BY <2>1 DEF Told, RefindMeansTaken, Receipt, Conflict
  <1> QED  BY <1>2, <1>3, <1>4, <1>5 DEF Caller

LEMMA InitTold == Init => CallInv
  BY DEF Init, CallInv, Told, RefindMeansTaken, Receipt, Conflict

LEMMA ToldNext == TypeOK /\ InboxProjected /\ CallInv /\ [Next]_vars => CallInv'
  <1> SUFFICES ASSUME TypeOK, InboxProjected, CallInv, [Next]_vars, NEW c \in Callers
               PROVE  Told(c)'
    BY DEF CallInv
  <1>0. Told(c) /\ TableStep
    BY StepOfTables DEF CallInv
  <1>1. CASE Caller(c)
    BY <1>0, <1>1, CallerTold
  <1>2. CASE UNCHANGED call[c]
    BY <1>0, <1>2, ToldStays
  <1>3. ASSUME NEW d \in Callers, d # c, Caller(d) PROVE UNCHANGED call[c]
    BY <1>3, TypeParts DEF Caller, findInput, publishAdmitted, refind, crashCaller, Reconcile, Tell, CallsOK
  <1>4. ASSUME NEW r \in Runners, Runner(r) PROVE UNCHANGED call[c]
    BY <1>4 DEF Runner, readCutoff, selectQueued, selectSteers, publishPromoted, recheckPromoted,
                promotionDone, interruptRunner, Advance
  <1> QED  BY <1>1, <1>2, <1>3, <1>4 DEF Next, vars, otherMessage, generatedMessage, Writes, legacyPrompted

\* Every caller told that its prompt is admitted holds the receipt of the one row.
THEOREM Receipts == Spec => []ReceiptsAgree
  <1>1. CallInv => ReceiptsAgree
    BY DEF CallInv, Told, Receipt, ReceiptsAgree
  <1> QED  BY <1>1, InboxTypes, Projected, InitTold, ToldNext, PTL DEF Spec

\* A caller told of a conflict met another message or another prompt.
THEOREM Conflicts == Spec => []ConflictIsReal
  <1>1. CallInv => ConflictIsReal
    BY DEF CallInv, Told, Conflict, ConflictIsReal
  <1> QED  BY <1>1, InboxTypes, Projected, InitTold, ToldNext, PTL DEF Spec

-----------------------------------------------------------------------------
(* What runners hold, and the order of promotion.                           *)

\* No row is ahead of its Session.
Bounded(id) ==
    Exists(id) => /\ row[id].admitted <= sequence[row[id].session]
                  /\ row[id].promoted <= sequence[row[id].session]

\* Two inputs of a Session were not admitted at the same position.
Distinct(i, j) ==
    Exists(i) /\ Exists(j) /\ i # j /\ row[i].session = row[j].session
        => row[i].admitted # row[j].admitted

Precedes(i, j) ==
    /\ Exists(i) /\ Exists(j)
    /\ row[i].session = row[j].session /\ row[i].delivery = row[j].delivery
    /\ row[i].admitted < row[j].admitted

Ordered(i, j) ==
    Precedes(i, j) /\ row[j].admitted < row[j].promoted
        => row[i].promoted # 0 /\ row[i].promoted < row[j].promoted

RowsInv ==
    /\ \A id \in Ids : Bounded(id)
    /\ \A i, j \in Ids : Distinct(i, j)

\* The rows of a snapshot are there, and what precedes one of them is promoted or
\* in the snapshot too.
Held(r) ==
    /\ \A id \in runner[r].todo : Exists(id) /\ row[id].session = runner[r].session
    /\ \A j \in runner[r].todo, i \in Ids :
          Precedes(i, j) => row[i].promoted # 0 \/ i \in runner[r].todo

\* A runner that rechecks a row has lost it to another one; none has died.
Lost(r) ==
    runner[r].pc \in {"recheckQueued", "recheckSteers"} =>
        \A id \in First(runner[r].todo) : row[id].promoted # 0
Alive(r) == runner[r].pc # "died"

RunnerInv == \A r \in Runners : Held(r) /\ Lost(r) /\ Alive(r)
OrderInv == \A i, j \in Ids : Ordered(i, j)
PromotionInv == RowsInv /\ RunnerInv /\ OrderInv

\* A new row is behind every row of its Session, and a promotion leaves the rest alone.
LEMMA NewRow ==
    ASSUME TablesOK, RunnersOK, TableStep, NEW id \in Ids, Exists(id)', ~Exists(id)
    PROVE  /\ row'[id].admitted = sequence[row'[id].session] + 1
           /\ row'[id].promoted \in {0, row'[id].admitted}
           /\ sequence'[row'[id].session] = sequence[row'[id].session] + 1
           /\ \A other \in Ids : other # id => row'[other] = row[other]
           /\ \A s \in Sessions : s # row'[id].session => sequence'[s] = sequence[s]
  <1>1. ~UNCHANGED <<row, message, sequence>>
    BY DEF Exists
  <1>2. ASSUME NEW ask \in Asks, admits(ask)
        PROVE  /\ id = ask.id /\ row' = [row EXCEPT ![id] = Row(ask, next(ask.session), 0)]
               /\ Commit(ask.session) /\ ask.session \in Sessions
    BY <1>2 DEF admits, Exists, Asks, TablesOK
  <1>3. ASSUME NEW ask \in Asks, bridges(ask)
        PROVE  /\ id = ask.id /\ row' = [row EXCEPT ![id] = Row(ask, next(ask.session), next(ask.session))]
               /\ Commit(ask.session) /\ ask.session \in Sessions
    BY <1>3 DEF bridges, Exists, Asks, TablesOK
  <1>4. ASSUME NEW r \in Runners, NEW other \in Ids, promotes(r, other) PROVE FALSE
    BY <1>4 DEF promotes, IsPending, Exists, TablesOK, RowType
  <1>5. ASSUME NEW other \in Ids, NEW s \in Sessions, NEW x \in Contents, occupies(other, s, x) PROVE FALSE
    BY <1>5 DEF occupies, Exists
  <1>6. PICK ask \in Asks : admits(ask) \/ bridges(ask)
    BY <1>1, <1>4, <1>5 DEF TableStep
  <1>7. PICK k \in {0, next(ask.session)} :
           /\ row' = [row EXCEPT ![id] = Row(ask, next(ask.session), k)]
           /\ Commit(ask.session) /\ ask.session \in Sessions
    BY <1>2, <1>3, <1>6
  <1>8. row'[id] = Row(ask, next(ask.session), k)
    BY <1>7 DEF TablesOK
  <1> QED  BY <1>7, <1>8 DEF Row, Commit, next, TablesOK

\* A row whose promotion changes was pending, and takes its Session's next position.
LEMMA Promotion ==
    ASSUME TablesOK, RunnersOK, TableStep, NEW id \in Ids, Exists(id), row'[id].promoted # row[id].promoted
    PROVE  \E r \in Runners :
              /\ promotes(r, id)
              /\ row'[id].promoted = sequence[row[id].session] + 1
              /\ sequence'[row[id].session] = sequence[row[id].session] + 1
              /\ \A other \in Ids : other # id => row'[other] = row[other]
  <1>1. CASE UNCHANGED <<row, message, sequence>>
    BY <1>1
  <1>2. ASSUME NEW ask \in Asks, admits(ask) \/ bridges(ask) PROVE FALSE
    BY <1>2 DEF admits, bridges, Exists, TablesOK
  <1>3. ASSUME NEW other \in Ids, NEW s \in Sessions, NEW x \in Contents, occupies(other, s, x) PROVE FALSE
    BY <1>3 DEF occupies
  <1>4. PICK r \in Runners, other \in Ids : promotes(r, other)
    BY <1>1, <1>2, <1>3 DEF TableStep
  <1>5. other = id
    BY <1>4 DEF promotes, TablesOK
  <1>6. runner[r].session \in Sessions /\ row[id].session = runner[r].session
    BY <1>4, <1>5 DEF promotes, RunnersOK, RunnerType
  <1> QED  BY <1>4, <1>5, <1>6 DEF promotes, Commit, next, TablesOK, RowType

LEMMA SequenceGrows ==
    ASSUME TablesOK, RunnersOK, TableStep, NEW s \in Sessions
    PROVE  sequence'[s] \in Nat /\ sequence[s] \in Nat /\ sequence'[s] >= sequence[s]
  <1>0. sequence[s] \in Nat
    BY BoundAssumption DEF TablesOK, Seqs
  <1>1. ASSUME NEW other \in Sessions, Commit(other) PROVE sequence'[s] \in Nat /\ sequence'[s] >= sequence[s]
    BY <1>0, <1>1 DEF Commit, next, TablesOK
  <1>2. ASSUME NEW r \in Runners, NEW id \in Ids, promotes(r, id) PROVE Commit(runner[r].session) /\ runner[r].session \in Sessions
    BY <1>2 DEF promotes, RunnersOK, RunnerType
  <1> QED  BY <1>0, <1>1, <1>2 DEF TableStep, admits, bridges, occupies, Asks

LEMMA RowsStep ==
    ASSUME TablesOK, RunnersOK, TableStep, RowsInv
    PROVE  RowsInv'
  <1>0. \A id \in Ids : row[id] \in RowType /\ row'[id] \in RowType
    BY TablesStayTyped DEF TablesOK
  <1>1. ASSUME NEW id \in Ids PROVE Bounded(id)'
    <2> SUFFICES ASSUME Exists(id)'
                 PROVE  row'[id].admitted <= sequence'[row'[id].session] /\ row'[id].promoted <= sequence'[row'[id].session]
      BY DEF Bounded
    <2>1. CASE ~Exists(id)
      <3>1. sequence[row'[id].session] \in Nat
        BY <1>0, SequenceGrows DEF RowType
      <3> QED  BY <2>1, <3>1, NewRow
    <2>2. CASE Exists(id)
      <3>1. RowKept(id) /\ Bounded(id)
        BY Kept DEF RowsInv
      <3>2. row[id].session \in Sessions /\ row[id].admitted \in Nat /\ row[id].promoted \in Nat
        BY <1>0, BoundAssumption DEF RowType, Seqs
      <3>3. row'[id].session = row[id].session /\ row'[id].admitted = row[id].admitted
        BY <2>2, <3>1 DEF RowKept
      <3>4. /\ sequence'[row[id].session] \in Nat /\ sequence[row[id].session] \in Nat
            /\ sequence'[row[id].session] >= sequence[row[id].session]
        BY <3>2, SequenceGrows
      <3>5. row[id].admitted <= sequence[row[id].session] /\ row[id].promoted <= sequence[row[id].session]
        BY <2>2, <3>1 DEF Bounded
      <3>6. CASE row'[id].promoted = row[id].promoted
        BY <3>2, <3>3, <3>4, <3>5, <3>6
      <3>7. CASE row'[id].promoted # row[id].promoted
        <4>1. row'[id].promoted = sequence[row[id].session] + 1 /\ sequence'[row[id].session] = sequence[row[id].session] + 1
          BY <2>2, <3>7, Promotion
        <4> QED  BY <3>2, <3>3, <3>4, <3>5, <4>1
      <3> QED  BY <3>6, <3>7
    <2> QED  BY <2>1, <2>2
  <1>2. ASSUME NEW i \in Ids, NEW j \in Ids, ~Exists(i), Exists(i)', Exists(j)', i # j, row'[i].session = row'[j].session
        PROVE  Exists(j) /\ row'[j].admitted < row'[i].admitted
    <2>1. row'[i].admitted = sequence[row'[i].session] + 1 /\ row'[j] = row[j]
      BY <1>2, NewRow
    <2>2. Exists(j) /\ Bounded(j)
      BY <1>2, <2>1 DEF RowsInv, Exists
    <2>3. row[j].admitted <= sequence[row[j].session] /\ sequence[row[j].session] \in Nat /\ row[j].admitted \in Nat
      <3>1. row[j].session \in Sessions /\ row[j].admitted \in Nat
        BY <1>0, BoundAssumption DEF RowType, Seqs
      <3> QED  BY <2>2, <3>1, SequenceGrows DEF Bounded
    <2> QED  BY <1>2, <2>1, <2>2, <2>3
  <1>3. ASSUME NEW i \in Ids, NEW j \in Ids PROVE Distinct(i, j)'
    <2> SUFFICES ASSUME Exists(i)', Exists(j)', i # j, row'[i].session = row'[j].session
                 PROVE  row'[i].admitted # row'[j].admitted
      BY DEF Distinct
    <2>0. row'[i].admitted \in Nat /\ row'[j].admitted \in Nat
      BY <1>0, BoundAssumption DEF RowType, Seqs
    <2>1. CASE ~Exists(i) \/ ~Exists(j)
      BY <1>2, <2>0, <2>1
    <2>2. CASE Exists(i) /\ Exists(j)
      BY <2>2, Kept DEF RowKept, RowsInv, Distinct
    <2> QED  BY <2>1, <2>2
  <1> QED  BY <1>1, <1>3 DEF RowsInv

\* What precedes a row that was there was there itself.
LEMMA PrecedesBefore ==
    ASSUME TablesOK, RunnersOK, TableStep, RowsInv, NEW i \in Ids, NEW j \in Ids, Exists(j), Precedes(i, j)'
    PROVE  Precedes(i, j)
  <1>0. row[j] \in RowType /\ row[i] \in RowType
    BY DEF TablesOK
  <1>1. RowKept(j) /\ RowKept(i)
    BY Kept
  <1>2. CASE Exists(i)
    BY <1>1, <1>2 DEF Precedes, RowKept, Exists
  <1>3. CASE ~Exists(i)
    <2>1. row'[i].admitted = sequence[row'[i].session] + 1
      BY <1>3, NewRow DEF Precedes
    <2>2. row'[i].session = row[j].session /\ row'[i].admitted < row[j].admitted
      BY <1>1 DEF Precedes, RowKept
    <2>3. row[j].admitted <= sequence[row[j].session] /\ sequence[row[j].session] \in Nat /\ row[j].admitted \in Nat
      <3>1. row[j].session \in Sessions /\ row[j].admitted \in Nat
        BY <1>0, BoundAssumption DEF RowType, Seqs
      <3> QED  BY <3>1, SequenceGrows DEF Bounded, RowsInv
    <2> QED  BY <2>1, <2>2, <2>3
  <1> QED  BY <1>2, <1>3

\* The rows a runner may take next are the same before and after a step.
LEMMA FirstKept ==
    ASSUME TablesOK, TableStep, NEW ids \in SUBSET Ids, \A id \in ids : Exists(id)
    PROVE  First(ids)' = First(ids)
  BY Kept DEF First, RowKept

\* A runner that does not move keeps what it holds.
LEMMA RunnerStays ==
    ASSUME TypeOK, TableStep, RowsInv, NEW r \in Runners, Held(r), Lost(r), Alive(r), UNCHANGED runner[r]
    PROVE  Held(r)' /\ Lost(r)' /\ Alive(r)'
  <1>0. TablesOK /\ RunnersOK /\ runner[r].todo \in SUBSET Ids
    BY TypeParts DEF TypeOK
  <1>1. \A id \in Ids : RowKept(id)
    BY <1>0, Kept
  <1>2. \A id \in runner[r].todo : (Exists(id) /\ row[id].session = runner[r].session)'
    BY <1>0, <1>1 DEF Held, RowKept, Exists
  <1>3. ASSUME NEW j \in runner[r].todo, NEW i \in Ids, Precedes(i, j)'
        PROVE  row'[i].promoted # 0 \/ i \in runner'[r].todo
    <2>1. j \in Ids /\ Exists(j)
      BY <1>0 DEF Held
    <2>2. Precedes(i, j)
      BY <1>0, <1>3, <2>1, PrecedesBefore
    <2> QED  BY <1>1, <2>2 DEF Held, RowKept, Precedes
  <1>4. Held(r)'
    BY <1>2, <1>3 DEF Held
  <1>5. Lost(r)'
    <2>1. First(runner[r].todo)' = First(runner[r].todo)
      BY <1>0, FirstKept DEF Held
    <2>2. \A id \in First(runner[r].todo) : id \in Ids /\ Exists(id)
      BY <1>0 DEF First, Held
    <2> QED  BY <1>1, <2>1, <2>2 DEF Lost, RowKept
  <1> QED  BY <1>4, <1>5 DEF Alive

\* The projection and the guard leave a pending row free to be promoted.
LEMMA PendingIsFree ==
    ASSUME InboxProjected, TablesOK, NEW id \in Ids, IsPending(id)
    PROVE  message[id].kind = "none"
  <1>1. message[id].kind \in {"none", "user", "other"}
    BY DEF TablesOK, MessageType
  <1> QED  BY <1>1 DEF InboxProjected, IsPending

\* Rows of one snapshot that may be taken next are one row.
LEMMA FirstIsOne ==
    ASSUME TablesOK, RowsInv, NEW r \in Runners, Held(r), runner[r].todo \in SUBSET Ids,
           NEW i \in First(runner[r].todo), NEW j \in First(runner[r].todo)
    PROVE  i = j
  <1>1. i \in Ids /\ j \in Ids /\ i \in runner[r].todo /\ j \in runner[r].todo
    BY DEF First
  <1>2. row[i].admitted <= row[j].admitted /\ row[j].admitted <= row[i].admitted
    BY DEF First
  <1>3. row[i].admitted \in Nat /\ row[j].admitted \in Nat
    BY <1>1, BoundAssumption DEF TablesOK, RowType, Seqs
  <1> QED  BY <1>1, <1>2, <1>3 DEF Held, RowsInv, Distinct

\* What a runner holds after a step of its own.
LEMMA RunnerMoves ==
    ASSUME TypeOK, InboxProjected, TableStep, RowsInv, NEW r \in Runners,
           Held(r), Lost(r), Alive(r), Runner(r)
    PROVE  Held(r)' /\ Lost(r)' /\ Alive(r)'
  <1>0. /\ TablesOK /\ RunnersOK /\ runner[r] \in RunnerType
        /\ runner \in [Runners -> RunnerType] /\ runner[r].todo \in SUBSET Ids
    BY TypeParts DEF RunnersOK, RunnerType
  <1>1. ASSUME NEW s \in Sessions, readCutoff(r, s) PROVE Held(r)' /\ Lost(r)' /\ Alive(r)'
    <2>1. PICK pc \in {"selectQueued", "selectSteers"} :
             runner'[r] = [pc |-> pc, session |-> s, cutoff |-> sequence[s], todo |-> {}]
      BY <1>0, <1>1 DEF readCutoff, Advance
    <2> QED  BY <2>1 DEF Held, Lost, Alive
  <1>2. ASSUME runner'[r].todo = {}, runner'[r].pc \in {"off", "selectSteers"}
        PROVE  Held(r)' /\ Lost(r)' /\ Alive(r)'
    BY <1>2 DEF Held, Lost, Alive
  <1>3. ASSUME selectQueued(r) PROVE Held(r)' /\ Lost(r)' /\ Alive(r)'
    <2> DEFINE pending == PendingOf(runner[r].session, "queue")
    <2>1. CASE pending = {}
      <3>1. runner'[r] = [runner[r] EXCEPT !.pc = "selectSteers"] /\ UNCHANGED row
        BY <1>0, <1>3, <2>1 DEF selectQueued, Advance
      <3>2. runner'[r].todo = runner[r].todo /\ runner'[r].pc = "selectSteers" /\ runner'[r].session = runner[r].session
        BY <1>0, <3>1 DEF RunnerType
      <3> QED  BY <3>1, <3>2 DEF Held, Lost, Alive, Precedes, Exists
    <2>2. CASE pending # {}
      <3>1. PICK id \in First(pending) :
               runner' = [runner EXCEPT ![r] = [runner[r] EXCEPT !.pc = "publishQueued", !.todo = {id}]]
        BY <1>3, <2>2 DEF selectQueued, Advance
      <3>2. /\ UNCHANGED row
            /\ runner'[r].todo = {id} /\ runner'[r].pc = "publishQueued" /\ runner'[r].session = runner[r].session
        BY <1>0, <1>3, <2>2, <3>1 DEF selectQueued, Advance, RunnerType
      <3>3. id \in pending /\ \A other \in pending : row[id].admitted <= row[other].admitted
        BY DEF First
      <3>4. ASSUME NEW i \in Ids, Precedes(i, id) PROVE row[i].promoted # 0
        <4>1. row[i].admitted \in Nat /\ row[id].admitted \in Nat
          BY <1>0, <3>3, BoundAssumption DEF PendingOf, TablesOK, RowType, Seqs
        <4>2. i \notin pending
          BY <3>3, <3>4, <4>1 DEF Precedes
        <4> QED  BY <3>3, <3>4, <4>2 DEF PendingOf, IsPending, Precedes
      <3> QED  BY <3>2, <3>3, <3>4 DEF Held, Lost, Alive, PendingOf, IsPending, Precedes, Exists
    <2> QED  BY <2>1, <2>2
  <1>4. ASSUME selectSteers(r) PROVE Held(r)' /\ Lost(r)' /\ Alive(r)'
    <2> DEFINE found == {id \in PendingOf(runner[r].session, "steer") : row[id].admitted <= runner[r].cutoff}
    <2>1. /\ UNCHANGED row
          /\ runner'[r].todo = found /\ runner'[r].pc = "publishSteers" /\ runner'[r].session = runner[r].session
      BY <1>0, <1>4 DEF selectSteers, Advance, RunnerType
    <2>2. \A id \in found : id \in Ids /\ Exists(id) /\ row[id].session = runner[r].session
      BY DEF PendingOf, IsPending
    <2>3. ASSUME NEW j \in found, NEW i \in Ids, Precedes(i, j), row[i].promoted = 0 PROVE i \in found
      <3>1. i \in PendingOf(runner[r].session, "steer")
        BY <2>3 DEF PendingOf, IsPending, Precedes
      <3>2. row[i].admitted \in Nat /\ row[j].admitted \in Nat /\ runner[r].cutoff \in Nat
        BY <1>0, <2>2, BoundAssumption DEF TablesOK, RowType, RunnerType, Seqs
      <3> QED  BY <2>3, <3>1, <3>2 DEF Precedes
    <2> HIDE DEF found
    <2> QED  BY <2>1, <2>2, <2>3 DEF Held, Lost, Alive, Precedes, Exists
  <1>5. ASSUME publishPromoted(r) PROVE Held(r)' /\ Lost(r)' /\ Alive(r)'
    <2>1. PICK id \in First(runner[r].todo) :
             \/ IsPending(id) /\ promotes(r, id) /\ runner' = Rest(r, id)
             \/ IsPending(id) /\ message[id].kind # "none"
             \/ /\ promotedConflict(r, id) /\ UNCHANGED <<row, message, sequence>>
                /\ runner' = [runner EXCEPT ![r] = [runner[r] EXCEPT !.pc =
                                 IF @ = "publishQueued" THEN "recheckQueued" ELSE "recheckSteers"]]
      BY <1>5 DEF publishPromoted, promotes, promotedConflict, Advance
    <2>2. id \in Ids /\ id \in runner[r].todo
      BY <1>0 DEF First
    <2>3. CASE promotes(r, id) /\ runner' = Rest(r, id)
      <3>1. runner'[r].todo = runner[r].todo \ {id} /\ runner'[r].pc = runner[r].pc /\ runner'[r].session = runner[r].session
        BY <1>0, <2>3 DEF Rest, RunnerType
      <3>2. runner[r].pc \in {"publishQueued", "publishSteers"}
        BY <1>5 DEF publishPromoted, Publishing
      <3>3. row'[id].promoted # 0
        <4>1. next(runner[r].session) # 0
          BY <1>0, <2>3, CommitType DEF promotes, RunnerType
        <4> QED  BY <1>0, <2>2, <2>3, <4>1 DEF promotes, TablesOK, RowType
      <3>4. \A other \in Ids : RowKept(other)
        BY <1>0, Kept
      <3>5. ASSUME NEW j \in runner[r].todo \ {id}, NEW i \in Ids, Precedes(i, j)'
            PROVE  row'[i].promoted # 0 \/ i \in runner'[r].todo
        <4>1. j \in Ids /\ Exists(j)
          BY <1>0 DEF Held
        <4>2. Precedes(i, j)
          BY <1>0, <3>5, <4>1, PrecedesBefore
        <4> QED  BY <3>1, <3>3, <3>4, <4>2 DEF Held, RowKept, Precedes
      <3>6. \A j \in runner'[r].todo : (Exists(j) /\ row[j].session = runner[r].session)'
        BY <1>0, <3>1, <3>4 DEF Held, RowKept, Exists
      <3>7. Held(r)'
        BY <3>1, <3>5, <3>6 DEF Held
      <3> QED  BY <3>1, <3>2, <3>7 DEF Lost, Alive
    <2>4. ~(IsPending(id) /\ message[id].kind # "none")
      BY <1>0, <2>2, PendingIsFree
    <2>5. CASE /\ promotedConflict(r, id) /\ UNCHANGED <<row, message, sequence>>
               /\ runner' = [runner EXCEPT ![r] = [runner[r] EXCEPT !.pc =
                                IF @ = "publishQueued" THEN "recheckQueued" ELSE "recheckSteers"]]
      <3>1. /\ runner'[r].todo = runner[r].todo /\ runner'[r].session = runner[r].session
            /\ runner'[r].pc \in {"recheckQueued", "recheckSteers"}
        BY <1>0, <2>5 DEF RunnerType
      <3>2. row[id].promoted # 0
        BY <2>2, <2>5 DEF promotedConflict, IsPending, Held
      <3>3. \A other \in First(runner[r].todo) : row[other].promoted # 0
        BY <1>0, <3>2, FirstIsOne
      <3>4. First(runner[r].todo)' = First(runner[r].todo)
        BY <2>5, <3>1 DEF First
      <3>5. Lost(r)'
        BY <2>5, <3>1, <3>3, <3>4 DEF Lost
      <3> QED  BY <2>5, <3>1, <3>5 DEF Held, Alive, Precedes, Exists
    <2> QED  BY <2>1, <2>3, <2>4, <2>5
  <1>6. ASSUME recheckPromoted(r) PROVE Held(r)' /\ Lost(r)' /\ Alive(r)'
    <2>1. PICK id \in First(runner[r].todo) :
             runner' = [runner EXCEPT ![r] =
                IF Exists(id) /\ row[id].promoted # 0
                THEN [runner[r] EXCEPT !.todo = @ \ {id},
                         !.pc = IF @ = "recheckQueued" THEN "publishQueued" ELSE "publishSteers"]
                ELSE [runner[r] EXCEPT !.pc = "died"]]
      BY <1>6 DEF recheckPromoted, Advance
    <2>2. UNCHANGED row
      BY <1>6 DEF recheckPromoted, Advance
    <2>3. Exists(id) /\ row[id].promoted # 0
      BY <1>6 DEF recheckPromoted, Lost, Held, First
    <2>4. /\ runner'[r].todo = runner[r].todo \ {id} /\ runner'[r].session = runner[r].session
          /\ runner'[r].pc \in {"publishQueued", "publishSteers"}
      BY <1>0, <2>1, <2>3 DEF RunnerType
    <2>5. ASSUME NEW j \in runner'[r].todo, NEW i \in Ids, Precedes(i, j)
          PROVE  row[i].promoted # 0 \/ i \in runner'[r].todo
      BY <2>3, <2>4, <2>5 DEF Held
    <2> QED  BY <2>2, <2>4, <2>5 DEF Held, Lost, Alive, Precedes, Exists
  <1>7. ASSUME promotionDone(r) \/ interruptRunner(r) PROVE Held(r)' /\ Lost(r)' /\ Alive(r)'
    <2>1. Idle.todo = {} /\ Idle.pc = "off"
      BY DEF Idle
    <2>2. CASE runner'[r] = Idle
      BY <1>2, <2>1, <2>2
    <2>3. CASE promotionDone(r) /\ runner'[r] = [runner[r] EXCEPT !.pc = "selectSteers"]
      <3>1. runner'[r].todo = {} /\ runner'[r].pc = "selectSteers"
        BY <1>0, <2>3 DEF promotionDone, RunnerType
      <3> QED  BY <1>2, <3>1
    <2> QED  BY <1>0, <1>7, <2>2, <2>3 DEF promotionDone, interruptRunner, Advance
  <1> QED  BY <1>1, <1>3, <1>4, <1>5, <1>6, <1>7 DEF Runner

LEMMA OrderStep ==
    ASSUME TypeOK, TableStep, RowsInv, RunnerInv, NEW i \in Ids, NEW j \in Ids, Ordered(i, j)
    PROVE  Ordered(i, j)'
  <1> SUFFICES ASSUME Precedes(i, j)', row'[j].admitted < row'[j].promoted
               PROVE  row'[i].promoted # 0 /\ row'[i].promoted < row'[j].promoted
    BY DEF Ordered
  <1>0. TablesOK /\ RunnersOK /\ row[i] \in RowType /\ row[j] \in RowType
    BY TypeParts DEF TablesOK
  <1>1. Exists(j)
    <2> SUFFICES ASSUME ~Exists(j) PROVE FALSE  OBVIOUS
    <2>1. row'[j].promoted \in {0, row'[j].admitted}
      BY <1>0, NewRow DEF Precedes
    <2>2. row'[j] \in RowType
      BY <1>0, TablesStayTyped DEF TablesOK
    <2> QED  BY <2>1, <2>2, BoundAssumption DEF RowType, Seqs
  <1>2. Precedes(i, j)
    BY <1>0, <1>1, PrecedesBefore
  <1>3. RowKept(i) /\ RowKept(j) /\ Exists(i)
    BY <1>0, <1>2, Kept DEF Precedes
  <1>4. CASE row'[j].promoted = row[j].promoted
    <2>1. row[i].promoted # 0 /\ row[i].promoted < row[j].promoted
      BY <1>1, <1>2, <1>3, <1>4 DEF Ordered, RowKept
    <2> QED  BY <1>3, <1>4, <2>1 DEF RowKept
  <1>5. CASE row'[j].promoted # row[j].promoted
    <2>1. PICK r \in Runners :
             /\ promotes(r, j)
             /\ row'[j].promoted = sequence[row[j].session] + 1
             /\ \A other \in Ids : other # j => row'[other] = row[other]
      BY <1>0, <1>1, <1>5, Promotion
    <2>2. row[i].admitted \in Nat /\ row[j].admitted \in Nat /\ row[i].promoted \in Nat /\ row[j].session \in Sessions
      BY <1>0, BoundAssumption DEF RowType, Seqs
    <2>3. sequence[row[j].session] \in Nat
      BY <1>0, <2>2, SequenceGrows
    <2>4. i # j
      BY <1>2, <2>2 DEF Precedes
    <2>5. i \notin runner[r].todo
      BY <1>2, <2>1, <2>2 DEF promotes, First, Precedes
    <2>6. row[i].promoted # 0
      BY <1>2, <2>1, <2>5 DEF RunnerInv, Held, promotes, First
    <2>7. row[i].promoted <= sequence[row[j].session]
      BY <1>2 DEF RowsInv, Bounded, Precedes
    <2> QED  BY <2>1, <2>2, <2>3, <2>4, <2>6, <2>7
  <1> QED  BY <1>4, <1>5

LEMMA InitPromotion == Init => PromotionInv
  <1> SUFFICES ASSUME Init PROVE PromotionInv  OBVIOUS
  <1>1. \A id \in Ids : ~Exists(id)
    BY DEF Init, Row, Exists
  <1>2. \A r \in Runners : runner[r].todo = {} /\ runner[r].pc = "off"
    BY DEF Init, Idle
  <1> QED  BY <1>1, <1>2 DEF PromotionInv, RowsInv, RunnerInv, OrderInv, Bounded, Distinct, Ordered, Precedes,
                            Held, Lost, Alive

LEMMA PromotionNext == TypeOK /\ InboxProjected /\ PromotionInv /\ [Next]_vars => PromotionInv'
  <1> SUFFICES ASSUME TypeOK, InboxProjected, PromotionInv, [Next]_vars PROVE PromotionInv'  OBVIOUS
  <1>0. TableStep /\ TablesOK /\ RunnersOK /\ RowsInv /\ RunnerInv /\ OrderInv
    BY StepOfTables, TypeParts DEF PromotionInv
  <1>1. RowsInv'
    BY <1>0, RowsStep
  <1>2. OrderInv'
    BY <1>0, OrderStep DEF OrderInv
  <1>3. ASSUME NEW r \in Runners PROVE Held(r)' /\ Lost(r)' /\ Alive(r)'
    <2>0. Held(r) /\ Lost(r) /\ Alive(r)
      BY <1>0 DEF RunnerInv
    <2>1. CASE Runner(r)
      BY <1>0, <2>0, <2>1, RunnerMoves
    <2>2. CASE UNCHANGED runner[r]
      BY <1>0, <2>0, <2>2, RunnerStays
    <2>3. ASSUME NEW other \in Runners, other # r, Runner(other) PROVE UNCHANGED runner[r]
      BY <1>0, <2>3 DEF Runner, readCutoff, selectQueued, selectSteers, publishPromoted, recheckPromoted,
                        promotionDone, interruptRunner, Advance, Rest, RunnersOK
    <2>4. ASSUME NEW c \in Callers, Caller(c) PROVE UNCHANGED runner
      BY <2>4 DEF Caller, findInput, publishAdmitted, refind, crashCaller
    <2> QED  BY <2>1, <2>2, <2>3, <2>4 DEF Next, vars, otherMessage, generatedMessage, Writes, legacyPrompted
  <1> QED  BY <1>1, <1>2, <1>3 DEF PromotionInv, RunnerInv

\* Of two inputs of a Session and a delivery, the one admitted first is promoted
\* first, however runners' snapshots overlap.
THEOREM DurableOrder == Spec => []InDurableOrder
  <1>1. PromotionInv => InDurableOrder
    BY DEF PromotionInv, OrderInv, Ordered, Precedes, InDurableOrder
  <1> QED  BY <1>1, InboxTypes, Projected, InitPromotion, PromotionNext, PTL DEF Spec

\* No runner dies of a row that another one promoted, or of an id that names a message.
THEOREM RunnersSurvive == Spec => []NoRunnerDies
  <1>1. PromotionInv => NoRunnerDies
    BY DEF PromotionInv, RunnerInv, Alive, NoRunnerDies
  <1> QED  BY <1>1, InboxTypes, Projected, InitPromotion, PromotionNext, PTL DEF Spec
=============================================================================
