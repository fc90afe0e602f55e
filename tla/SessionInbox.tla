---------------------------- MODULE SessionInbox ----------------------------
(***************************************************************************)
(* The durable inbox of Sessions (packages/core/src/session/input.ts and   *)
(* its projectors in session/projector.ts): callers admit prompts under    *)
(* message ids they chose, runners promote pending inputs to messages, and *)
(* other writers put messages under ids of their own.                      *)
(*                                                                         *)
(* Every commit of the event log is one transaction and so one step here;  *)
(* the reads before it and the reconciliation after it are steps of their  *)
(* own, and callers and runners, of one process or of several that share   *)
(* the database, interleave between them.                                  *)
(***************************************************************************)
EXTENDS Integers

CONSTANTS
    Sessions, Ids, Contents,
    Callers,        \* fibers in V2Session.prompt
    Runners,        \* drains at their promotion
    MaxSeq          \* bound: events of one Session

ASSUME BoundAssumption == MaxSeq \in Nat
ASSUME NonemptyAssumption == Sessions # {} /\ Ids # {} /\ Contents # {}

VARIABLES
    row,            \* session_input, by id
    message,        \* session_message, by id
    sequence,       \* the latest sequence of each Session; 0 is its creation
    call,           \* what each caller asked for and what it was told
    runner          \* where each runner is

vars == <<row, message, sequence, call, runner>>

Deliveries == {"steer", "queue"}
Asks == [id : Ids, session : Sessions, content : Contents, delivery : Deliveries]

\* Rows that are not there have admitted = 0; rows not promoted have promoted = 0.
Exists(id) == row[id].admitted # 0
IsPending(id) == Exists(id) /\ row[id].promoted = 0

Row(ask, admitted, promoted) ==
    [session |-> ask.session, content |-> ask.content, delivery |-> ask.delivery,
     admitted |-> admitted, promoted |-> promoted]

Message(kind, session, content, seq) ==
    [kind |-> kind, session |-> session, content |-> content, seq |-> seq]

\* A commit takes the Session's next sequence.
next(s) == sequence[s] + 1
Commit(s) == sequence[s] < MaxSeq /\ sequence' = [sequence EXCEPT ![s] = next(s)]

-----------------------------------------------------------------------------
(* V2Session.prompt and SessionInput.admit.                                 *)

Tell(c, pc, receipt) == call' = [call EXCEPT ![c].pc = pc, ![c].receipt = receipt]

equivalent(stored, ask) ==
    /\ stored.session = ask.session /\ stored.content = ask.content
    /\ stored.delivery = ask.delivery

\* The caller answers with what is stored, or with a conflict.
Reconcile(c, ask) ==
    call' = [call EXCEPT ![c] =
        [ask |-> ask, receipt |-> row[ask.id].admitted,
         pc |-> IF equivalent(row[ask.id], ask) THEN "admitted" ELSE "conflict"]]

\* A prompt call begins by looking for its id.
findInput(c, ask) ==
    /\ call[c].pc \in {"ready", "admitted", "conflict"}
    /\ \/ Exists(ask.id) /\ Reconcile(c, ask)
       \/ /\ ~Exists(ask.id)
          /\ call' = [call EXCEPT ![c] = [ask |-> ask, receipt |-> 0, pc |-> "publish"]]
    /\ UNCHANGED <<row, message, sequence, runner>>

\* Mutant: an input that is there is written over.
admittedConflictMessagesOnly(id) == message[id].kind # "none"

\* projectAdmitted dies when the id is taken, by a message or by an input.
admittedConflict(id) == message[id].kind # "none" \/ Exists(id)

publishAdmitted(c) ==
    LET ask == call[c].ask
    IN  /\ call[c].pc = "publish"
        /\ \/ /\ ~admittedConflict(ask.id)
              /\ Commit(ask.session)
              /\ row' = [row EXCEPT ![ask.id] = Row(ask, next(ask.session), 0)]
              /\ Tell(c, "admitted", next(ask.session))
           \/ /\ admittedConflict(ask.id)
              /\ Tell(c, "refind", 0)
              /\ UNCHANGED <<row, sequence>>
        /\ UNCHANGED <<message, runner>>

\* Mutant: a lost race is reported as a conflict.
refindConflict(c) ==
    /\ call[c].pc = "refind"
    /\ Tell(c, "conflict", 0)
    /\ UNCHANGED <<row, message, sequence, runner>>

\* The defect of the commit is an exact retry's if the input is there after all.
refind(c) ==
    /\ call[c].pc = "refind"
    /\ \/ Exists(call[c].ask.id) /\ Reconcile(c, call[c].ask)
       \/ ~Exists(call[c].ask.id) /\ Tell(c, "conflict", 0)
    /\ UNCHANGED <<row, message, sequence, runner>>

-----------------------------------------------------------------------------
(* Other writers of messages.                                               *)

\* Mutant: an id reserved by an admitted input may be used.
guardReservedIDNever(id) == FALSE

guardReservedID(id) == Exists(id)

\* A message of another kind.
Writes(id, s) ==
    /\ message[id].kind = "none"
    /\ Commit(s)
    /\ \E content \in Contents : message' = [message EXCEPT ![id] = Message("other", s, content, next(s))]
    /\ UNCHANGED <<row, call, runner>>

\* A model or agent switch, a step, a shell, a synthetic text.
otherMessage(id, s) == ~guardReservedID(id) /\ Writes(id, s)

\* A context update or the end of a compaction, whose ids are not guarded: the server
\* has generated them, so nothing has such an id and no caller asks for it.
generatedMessage(id, s) ==
    /\ ~Exists(id) /\ \A c \in Callers : call[c].pc # "ready" => call[c].ask.id # id
    /\ Writes(id, s)

\* Prompted, from the V1 bridge: a message and its input, promoted from the start.
legacyPrompted(ask) ==
    /\ ~guardReservedID(ask.id) /\ message[ask.id].kind = "none" /\ ~Exists(ask.id)
    /\ Commit(ask.session)
    /\ message' = [message EXCEPT ![ask.id] = Message("user", ask.session, ask.content, next(ask.session))]
    /\ row' = [row EXCEPT ![ask.id] = Row(ask, next(ask.session), next(ask.session))]
    /\ UNCHANGED <<call, runner>>

-----------------------------------------------------------------------------
(* The runner's promotion.                                                  *)

Idle == [pc |-> "off", session |-> CHOOSE s \in Sessions : TRUE, cutoff |-> 0, todo |-> {}]

PendingOf(s, delivery) ==
    {id \in Ids : IsPending(id) /\ row[id].session = s /\ row[id].delivery = delivery}

\* Mutant: rows come in the order of their ids.
FirstAny(ids) == ids

\* Rows are ordered by the sequence of their admission.
First(ids) == {id \in ids : \A other \in ids : row[id].admitted <= row[other].admitted}

Advance(r, record) == runner' = [runner EXCEPT ![r] = record] /\ UNCHANGED <<row, message, sequence, call>>

\* A turn that promotes begins with the cutoff of its steers.
readCutoff(r, s) ==
    /\ runner[r].pc = "off"
    /\ \E pc \in {"selectQueued", "selectSteers"} :
          Advance(r, [pc |-> pc, session |-> s, cutoff |-> sequence[s], todo |-> {}])

selectQueued(r) ==
    /\ runner[r].pc = "selectQueued"
    /\ IF PendingOf(runner[r].session, "queue") = {}
       THEN Advance(r, [runner[r] EXCEPT !.pc = "selectSteers"])
       ELSE \E id \in First(PendingOf(runner[r].session, "queue")) :
               Advance(r, [runner[r] EXCEPT !.pc = "publishQueued", !.todo = {id}])

selectSteers(r) ==
    /\ runner[r].pc = "selectSteers"
    /\ Advance(r, [runner[r] EXCEPT !.pc = "publishSteers",
          !.todo = {id \in PendingOf(runner[r].session, "steer") : row[id].admitted <= runner[r].cutoff}])

Publishing(r) == runner[r].pc \in {"publishQueued", "publishSteers"}
Rest(r, id) == [runner EXCEPT ![r].todo = @ \ {id}]

\* Mutant: the projector does not look whether the input is still pending.
promotedConflictNever(r, id) == row[id].session # runner[r].session

\* projectPromoted finds no pending input to update.
promotedConflict(r, id) == ~IsPending(id) \/ row[id].session # runner[r].session

\* One row becomes a message, in one transaction; an id that names a message already
\* rolls it back, and the defect ends the turn.
publishPromoted(r) ==
    /\ Publishing(r)
    /\ \E id \in First(runner[r].todo) :
          LET s == runner[r].session
          IN  \/ /\ ~promotedConflict(r, id) /\ message[id].kind = "none"
                 /\ Commit(s)
                 /\ row' = [row EXCEPT ![id].promoted = next(s)]
                 /\ message' = [message EXCEPT ![id] = Message("user", s, row[id].content, next(s))]
                 /\ runner' = Rest(r, id)
                 /\ UNCHANGED call
              \/ /\ ~promotedConflict(r, id) /\ message[id].kind # "none"
                 /\ Advance(r, [runner[r] EXCEPT !.pc = "died"])
              \/ promotedConflict(r, id) /\ Advance(r, [runner[r] EXCEPT !.pc =
                    IF @ = "publishQueued" THEN "recheckQueued" ELSE "recheckSteers"])

\* A conflict is harmless when somebody else has promoted the row.
recheckPromoted(r) ==
    /\ runner[r].pc \in {"recheckQueued", "recheckSteers"}
    /\ \E id \in First(runner[r].todo) :
          Advance(r, IF Exists(id) /\ row[id].promoted # 0
                     THEN [runner[r] EXCEPT !.todo = @ \ {id},
                              !.pc = IF @ = "recheckQueued" THEN "publishQueued" ELSE "publishSteers"]
                     ELSE [runner[r] EXCEPT !.pc = "died"])

promotionDone(r) ==
    /\ Publishing(r) /\ runner[r].todo = {}
    /\ Advance(r, IF runner[r].pc = "publishQueued" THEN [runner[r] EXCEPT !.pc = "selectSteers"] ELSE Idle)

\* The drain is stopped between two steps.
interruptRunner(r) ==
    /\ runner[r].pc # "off"
    /\ Advance(r, Idle)

\* The process of a caller dies; the others go on.
crashCaller(c) ==
    /\ call[c].pc \in {"publish", "refind"}
    /\ Tell(c, "ready", 0)
    /\ UNCHANGED <<row, message, sequence, runner>>

-----------------------------------------------------------------------------
Ask0 == CHOOSE ask \in Asks : TRUE

Init ==
    /\ row = [id \in Ids |-> Row(Ask0, 0, 0)]
    /\ message = [id \in Ids |-> Message("none", Ask0.session, Ask0.content, 0)]
    /\ sequence = [s \in Sessions |-> 0]
    /\ call = [c \in Callers |-> [ask |-> Ask0, receipt |-> 0, pc |-> "ready"]]
    /\ runner = [r \in Runners |-> Idle]

Caller(c) ==
    \/ \E ask \in Asks : findInput(c, ask)
    \/ publishAdmitted(c) \/ refind(c) \/ crashCaller(c)

Runner(r) ==
    \/ \E s \in Sessions : readCutoff(r, s)
    \/ selectQueued(r) \/ selectSteers(r) \/ publishPromoted(r) \/ recheckPromoted(r)
    \/ promotionDone(r) \/ interruptRunner(r)

Next ==
    \/ \E c \in Callers : Caller(c)
    \/ \E r \in Runners : Runner(r)
    \/ \E id \in Ids, s \in Sessions : otherMessage(id, s) \/ generatedMessage(id, s)
    \/ \E ask \in Asks : legacyPrompted(ask)

Spec == Init /\ [][Next]_vars

-----------------------------------------------------------------------------
(* Properties                                                               *)

Seqs == 0 .. MaxSeq

\* The input stored under the id a caller asked for is the caller's prompt.
IsAsked(c) ==
    LET stored == row[call[c].ask.id]
    IN  /\ stored.admitted # 0
        /\ stored.session = call[c].ask.session /\ stored.content = call[c].ask.content
        /\ stored.delivery = call[c].ask.delivery

\* Every variable has its type.
TypeOK ==
    /\ row \in [Ids -> [session : Sessions, content : Contents, delivery : Deliveries,
                        admitted : Seqs, promoted : Seqs]]
    /\ message \in [Ids -> [kind : {"none", "user", "other"}, session : Sessions,
                            content : Contents, seq : Seqs]]
    /\ sequence \in [Sessions -> Seqs]
    /\ call \in [Callers -> [ask : Asks, receipt : Seqs,
                             pc : {"ready", "publish", "refind", "admitted", "conflict"}]]
    /\ runner \in [Runners -> [pc : {"off", "selectQueued", "selectSteers", "publishQueued",
                                     "publishSteers", "recheckQueued", "recheckSteers", "died"},
                               session : Sessions, cutoff : Seqs, todo : SUBSET Ids]]

\* "The projector atomically writes the visible user message and marks its inbox row
\* promoted" (specs/v2/session.md:30): an id names a user message exactly while its
\* input is promoted, at the same sequence and with the same content, and a pending
\* input's id names no message of any kind.
InboxProjected ==
    \A id \in Ids :
        /\ message[id].kind = "user" <=> Exists(id) /\ row[id].promoted # 0
        /\ message[id].kind = "user" =>
              /\ message[id].seq = row[id].promoted
              /\ message[id].session = row[id].session /\ message[id].content = row[id].content
        /\ message[id].kind = "other" => ~Exists(id)

\* "exact reuse returns the same admitted lifecycle receipt" (session.md:16): whoever
\* admitted the prompt, every caller told so holds the sequence of the one row, which
\* is its own prompt's.
ReceiptsAgree ==
    \A c \in Callers :
        call[c].pc = "admitted" =>
            IsAsked(c) /\ row[call[c].ask.id].admitted = call[c].receipt

\* A conflict is never a race between equal prompts: the id names another message, or
\* an input of another Session, prompt or delivery.
ConflictIsReal ==
    \A c \in Callers :
        call[c].pc = "conflict" =>
            \/ message[call[c].ask.id].kind = "other"
            \/ Exists(call[c].ask.id) /\ ~IsAsked(c)

\* "in durable admission order ... in FIFO order" (session.md:165), with several
\* runners at their snapshots: of two inputs of a Session and a delivery, the one
\* admitted first is promoted first.
InDurableOrder ==
    \A i, j \in Ids :
        /\ Exists(i) /\ Exists(j)
        /\ row[i].session = row[j].session /\ row[i].delivery = row[j].delivery
        /\ row[i].admitted < row[j].admitted
        /\ row[j].admitted < row[j].promoted
        => row[i].promoted # 0 /\ row[i].promoted < row[j].promoted

\* A runner that loses a row to another one, or to a stop and a later drain, goes on.
NoRunnerDies == \A r \in Runners : runner[r].pc # "died"
=============================================================================
