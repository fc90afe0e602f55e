----------------------------- MODULE TurnProofs -----------------------------
(***************************************************************************)
(* Turns of both Session runners, for any set of calls, prompts and        *)
(* cancels: the settlement of tool calls (SettledOnce, ImplementsLedger)   *)
(* and the runs of the released server (NoStrandedPrompt,                  *)
(* QuietMeansIdle).                                                        *)
(***************************************************************************)
EXTENDS TurnSettlement, RunState, TLAPS

-----------------------------------------------------------------------------
(* Tool calls.  SettledOnce follows from what the publisher remembers:     *)
(* while a turn is under way, a call it knows and has not settled has no   *)
(* settlement, what a fiber will publish belongs to a call that is         *)
(* running or was settled, and no fiber is left once the turn is over.     *)

Tools == [known : BOOLEAN, called : BOOLEAN, hosted : BOOLEAN, settled : BOOLEAN]

TurnTypeOK ==
    /\ part \in [Calls -> {"none", "pending", "running", "completed", "error"}]
    /\ settlements \in [Calls -> Nat]
    /\ tool \in [Calls -> Tools]
    /\ fiber \in [Calls -> {"none", "running"} \cup Publishing]

\* The publisher has the call and owes its settlement.
Owed(c) == tool[c].known /\ ~tool[c].settled

SettledParts(c) ==
    /\ settlements[c] <= 1
    /\ settlements[c] = 1 => part[c] \notin {"pending", "running"}

\* What the publisher's memory says of the durable part while a turn is under way.
Remembered(c) ==
    phase \notin Between =>
        /\ tool[c].called \/ tool[c].settled => tool[c].known
        /\ Owed(c) => settlements[c] = 0
        /\ phase = "stream" => /\ tool[c].settled => tool[c].called
                               /\ Owed(c) /\ tool[c].called => part[c] = "running"
        /\ fiber[c] # "none" => /\ tool[c].called
                                /\ Owed(c) => part[c] = "running"

NoneLeft(c) == phase \in Between => fiber[c] = "none"

TurnInv == TurnTypeOK /\ \A c \in Calls : SettledParts(c) /\ Remembered(c) /\ NoneLeft(c)

-----------------------------------------------------------------------------
LEMMA TurnInitInv == TurnInit => TurnInv
BY DEF TurnInit, TurnInv, TurnTypeOK, SettledParts, Remembered, NoneLeft, Fresh, Unknown, NoFibers,
   Tools, Between, Owed

\* One settlement of a call that has none, of a part that can take it.
LEMMA Settles ==
    ASSUME TurnTypeOK, NEW c \in Calls, SettledParts(c), settlements[c] = 0,
           \/ toolFailed(c)
           \/ toolSuccess(c) /\ part[c] = "running"
    PROVE  /\ settlements' = [settlements EXCEPT ![c] = 1]
           /\ \E value \in {"none", "completed", "error"} : part' = [part EXCEPT ![c] = value]
BY DEF TurnTypeOK, SettledParts, toolFailed, toolSuccess, Settled

\* Steps that settle nothing and leave the publisher's memory alone.
LEMMA Quiet ==
    ASSUME TurnInv, UNCHANGED <<part, settlements, tool>>,
           fiber' \in [Calls -> {"none", "running"} \cup Publishing],
           \A c \in Calls : fiber'[c] # "none" => fiber[c] # "none",
           phase' # "stream" \/ phase = "stream",
           phase' \in Between \/ phase \notin Between,
           phase' \in Between => \A c \in Calls : fiber'[c] = "none"
    PROVE  TurnInv'
BY DEF TurnInv, TurnTypeOK, SettledParts, Remembered, NoneLeft, Owed

\* The publisher, or the repair of a later drain, settles a call that is owed an answer.
LEMMA Answers ==
    ASSUME TurnInv, NEW c \in Calls, settlements[c] = 0,
           \/ toolFailed(c)
           \/ toolSuccess(c) /\ part[c] = "running",
           \/ tool' = tool /\ phase \in Between
           \/ tool' = [tool EXCEPT ![c].settled = TRUE] /\ tool[c].known,
           phase = "stream" => tool[c].called,
           fiber' = fiber \/ fiber' = [fiber EXCEPT ![c] = "none"],
           UNCHANGED phase
    PROVE  TurnInv'
<1>1. PICK value \in {"none", "completed", "error"} :
         settlements' = [settlements EXCEPT ![c] = 1] /\ part' = [part EXCEPT ![c] = value]
  BY Settles DEF TurnInv
<1>2. TurnTypeOK'
  <2>1. tool' \in [Calls -> Tools]
    <3>1. tool \in [Calls -> Tools]
      BY DEF TurnInv, TurnTypeOK
    <3>2. [tool EXCEPT ![c].settled = TRUE] \in [Calls -> Tools]
      BY <3>1 DEF Tools
    <3> QED BY <3>1, <3>2
  <2>2. fiber' \in [Calls -> {"none", "running"} \cup Publishing]
    BY DEF TurnInv, TurnTypeOK
  <2> QED BY <1>1, <2>1, <2>2 DEF TurnInv, TurnTypeOK
<1>3. ASSUME NEW d \in Calls PROVE SettledParts(d)' /\ Remembered(d)' /\ NoneLeft(d)'
  <2>1. CASE d = c
    BY <1>1, <2>1 DEF TurnInv, TurnTypeOK, Tools, SettledParts, Remembered, NoneLeft, Owed
  <2>2. CASE d # c
    <3>1. part'[d] = part[d] /\ settlements'[d] = settlements[d] /\ tool'[d] = tool[d] /\ fiber'[d] = fiber[d]
      BY <1>1, <2>2 DEF TurnInv, TurnTypeOK
    <3> QED BY <3>1 DEF TurnInv, SettledParts, Remembered, NoneLeft, Owed
  <2> QED BY <2>1, <2>2
<1> QED BY <1>2, <1>3 DEF TurnInv

LEMMA Repairs ==
    ASSUME TurnInv, failInterruptedTools
    PROVE  TurnInv'
<1>1. phase = "repair" /\ UNCHANGED <<tool, fiber>>
  BY DEF failInterruptedTools, memory
<1>2. CASE \E c \in Left : toolFailed(c) /\ UNCHANGED phase
  <2> PICK c \in Left : toolFailed(c) /\ UNCHANGED phase
    BY <1>2
  <2>1. c \in Calls /\ settlements[c] = 0
    BY DEF Left, TurnInv, TurnTypeOK, SettledParts
  <2>2. tool' = tool /\ fiber' = fiber /\ phase \in Between /\ phase # "stream"
    BY <1>1 DEF Between
  <2>3. toolFailed(c) /\ UNCHANGED phase
    OBVIOUS
  <2> QED BY <2>1, <2>2, <2>3, Answers
<1>3. CASE phase' = "request" /\ UNCHANGED <<part, settlements>>
  BY <1>1, <1>3, Quiet DEF TurnInv, TurnTypeOK, NoneLeft, Between
<1> QED BY <1>2, <1>3 DEF failInterruptedTools

LEMMA StartsTurn ==
    ASSUME TurnInv, request
    PROVE  TurnInv'
BY DEF request, TurnInv, TurnTypeOK, SettledParts, Remembered, NoneLeft, Owed, Fresh, Unknown, NoFibers,
   Tools, Between

\* The stream announces a call, or calls it.
LEMMA Streams ==
    ASSUME TurnInv, NEW c \in Calls,
           startToolInput(c) \/ \E hosted \in BOOLEAN : toolCall(c, hosted)
    PROVE  TurnInv'
<1>1. phase = "stream" /\ phase' = phase /\ settlements' = settlements
  BY DEF startToolInput, toolCall, Streaming
<1> DEFINE Calling(called) ==
        /\ tool' \in [Calls -> Tools]
        /\ \A d \in Calls : d # c => tool'[d] = tool[d]
        /\ tool'[c].known /\ (tool'[c].called <=> called) /\ (tool'[c].settled <=> tool[c].settled)
        /\ part' = [part EXCEPT ![c] = IF called THEN "running" ELSE "pending"]
        /\ called => tool[c].known /\ ~tool[c].called
        /\ ~called => ~tool[c].known /\ settlements[c] = 0
        /\ fiber' \in {fiber, [fiber EXCEPT ![c] = IF called THEN "running" ELSE fiber[c]]}
<1>2. PICK called \in BOOLEAN : Calling(called)
  <2>1. CASE startToolInput(c)
    <3>1. ~tool[c].known /\ ~tool[c].called
      BY <1>1, <2>1 DEF startToolInput, TurnInv, Remembered, Between
    <3>2. Calling(FALSE)
      BY <2>1, <3>1 DEF startToolInput, TurnInv, TurnTypeOK, Tools
    <3> QED BY <3>2
  <2>2. ASSUME NEW hosted \in BOOLEAN, toolCall(c, hosted)
        PROVE  Calling(TRUE)
    <3>1. tool' = Called(c, hosted) /\ tool[c].known /\ ~tool[c].called
      BY <2>2 DEF toolCall
    <3>2. tool' \in [Calls -> Tools] /\ \A d \in Calls : d # c => tool'[d] = tool[d]
      BY <3>1 DEF Called, TurnInv, TurnTypeOK, Tools
    <3>3. tool'[c].known /\ tool'[c].called /\ (tool'[c].settled <=> tool[c].settled)
      BY <3>1 DEF Called, TurnInv, TurnTypeOK, Tools
    <3>4. part' = [part EXCEPT ![c] = "running"] /\ fiber' \in {fiber, [fiber EXCEPT ![c] = "running"]}
      BY <2>2 DEF toolCall
    <3> QED BY <3>1, <3>2, <3>3, <3>4
  <2> QED BY <2>1, <2>2
<1>3. TurnTypeOK'
  BY <1>1, <1>2 DEF TurnInv, TurnTypeOK
<1>4. settlements[c] = 0
  BY <1>1, <1>2 DEF TurnInv, Remembered, Owed, Between
<1>5. ASSUME NEW d \in Calls PROVE SettledParts(d)' /\ Remembered(d)' /\ NoneLeft(d)'
  <2>1. CASE d = c
    BY <1>1, <1>2, <1>4, <2>1 DEF TurnInv, TurnTypeOK, Tools, SettledParts, Remembered, NoneLeft, Owed,
       Between
  <2>2. CASE d # c
    <3>1. part'[d] = part[d] /\ tool'[d] = tool[d] /\ fiber'[d] = fiber[d]
      BY <1>2, <2>2 DEF TurnInv, TurnTypeOK
    <3> QED BY <1>1, <3>1 DEF TurnInv, SettledParts, Remembered, NoneLeft, Owed
  <2> QED BY <2>1, <2>2
<1> QED BY <1>3, <1>5 DEF TurnInv

LEMMA ResultSettles ==
    ASSUME NEW c \in Calls, NEW result \in Publishing, Result(c, result)
    PROVE  toolFailed(c) \/ toolSuccess(c)
BY DEF Result

LEMMA HostedResult ==
    ASSUME TurnInv, NEW c \in Calls, NEW result \in Publishing, toolResult(c, result)
    PROVE  TurnInv'
<1>1. phase = "stream" /\ tool[c].known /\ ~tool[c].settled /\ tool[c].called
  BY DEF toolResult, Streaming, TurnInv, Remembered, Between
<1>2. settlements[c] = 0 /\ part[c] = "running"
  BY <1>1 DEF TurnInv, Remembered, Owed, Between
<1> QED BY <1>1, <1>2, ResultSettles, Answers DEF toolResult

\* The stream is interrupted while the publisher takes a note of an event.
LEMMA CutsOff ==
    ASSUME TurnInv, NEW c \in Calls, cutOff(c)
    PROVE  TurnInv'
<1>1. phase = "stream" /\ phase' \in {"failHosted", "clear", "await"}
        /\ UNCHANGED <<part, settlements, fiber>>
  BY DEF cutOff, Streaming, Ended
<1>2. \A d \in Calls : d # c => tool'[d] = tool[d]
  BY DEF cutOff, Called, TurnInv, TurnTypeOK
<1>3. tool' \in [Calls -> Tools]
  <2>1. CASE tool' = [tool EXCEPT ![c].known = TRUE] \/ tool' = [tool EXCEPT ![c].settled = TRUE]
    BY <2>1 DEF TurnInv, TurnTypeOK, Tools
  <2>2. ASSUME NEW hosted \in BOOLEAN, tool' = Called(c, hosted) PROVE tool' \in [Calls -> Tools]
    BY <2>2 DEF Called, TurnInv, TurnTypeOK, Tools
  <2> QED BY <2>1, <2>2 DEF cutOff
<1>4. tool'[c].known /\ (tool[c].called => tool'[c].called)
        /\ (~tool'[c].settled => settlements[c] = 0 /\ (tool[c].called => Owed(c)))
  BY <1>1 DEF cutOff, Called, TurnInv, TurnTypeOK, Tools, Remembered, Owed, Between
<1>5. ASSUME NEW d \in Calls PROVE SettledParts(d)' /\ Remembered(d)' /\ NoneLeft(d)'
  BY <1>1, <1>2, <1>4 DEF TurnInv, SettledParts, Remembered, NoneLeft, Owed, Between
<1> QED BY <1>1, <1>3, <1>5 DEF TurnInv, TurnTypeOK

LEMMA FiberPublishes ==
    ASSUME TurnInv, NEW c \in Calls, publishResult(c)
    PROVE  TurnInv'
<1>1. fiber[c] \in Publishing /\ fiber' = [fiber EXCEPT ![c] = "none"] /\ UNCHANGED phase
  BY DEF publishResult
<1>2. phase \notin Between /\ tool[c].called /\ tool[c].known
  BY <1>1 DEF TurnInv, NoneLeft, Remembered, Publishing
<1>3. CASE Late(c)
  BY <1>1, <1>2, <1>3, Quiet DEF publishResult, TurnInv, TurnTypeOK
<1>4. CASE ~Late(c)
  <2>1. settlements[c] = 0 /\ part[c] = "running"
    BY <1>1, <1>2, <1>4 DEF TurnInv, Remembered, Owed, Late, Publishing
  <2> QED BY <1>1, <1>2, <1>4, <2>1, ResultSettles, Answers DEF publishResult
<1> QED BY <1>3, <1>4

\* What the runner does for itself at the end of a turn.
LEMMA FailsUnsettled ==
    ASSUME TurnInv, NEW at \in {"failHosted", "failAll", "failLeft"}, NEW hostedOnly \in BOOLEAN,
           NEW next \in {"await", "close"}, failUnsettledTools(at, hostedOnly, next)
    PROVE  TurnInv'
<1>1. phase = at /\ UNCHANGED fiber
  BY DEF failUnsettledTools
<1>2. ASSUME NEW c \in Unsettled(hostedOnly), tool' = [tool EXCEPT ![c].settled = TRUE], toolFailed(c), UNCHANGED phase
      PROVE  TurnInv'
  <2>1. c \in Calls /\ Owed(c)
    BY <1>2 DEF Unsettled, Owed
  <2>2. settlements[c] = 0
    BY <1>1, <2>1 DEF TurnInv, Remembered, Between
  <2> QED BY <1>1, <1>2, <2>1, <2>2, Answers DEF Owed
<1>3. CASE phase' = next /\ UNCHANGED <<part, settlements, tool>>
  BY <1>1, <1>3, Quiet DEF TurnInv, TurnTypeOK, Between
<1> QED BY <1>2, <1>3 DEF failUnsettledTools

LEMMA Clears ==
    ASSUME TurnInv
    PROVE  /\ clearFibers \in [Calls -> {"none", "running"} \cup Publishing]
           /\ \A c \in Calls : clearFibers[c] # "none" => fiber[c] # "none"
           /\ Alive = {} => \A c \in Calls : clearFibers[c] = "none"
BY DEF TurnInv, TurnTypeOK, clearFibers, Alive, Publishing

LEMMA SettlesTurn ==
    ASSUME TurnInv, settleTurn
    PROVE  TurnInv'
<1>1. CASE \/ failUnsettledTools("failHosted", TRUE, "await")
           \/ failUnsettledTools("failAll", FALSE, "close")
           \/ failUnsettledTools("failLeft", TRUE, "close")
  BY <1>1, FailsUnsettled
<1>2. CASE clear("clear", "await") \/ clear("clearLeft", "failAll")
  BY <1>2, Clears, Quiet DEF clear, Between
<1>3. CASE awaitToolFibers
  <2>1. phase = "await" /\ phase' \in {"clearLeft", "failAll", "failLeft", "close"}
          /\ UNCHANGED <<part, settlements, tool, fiber>>
    BY <1>3 DEF awaitToolFibers, AfterAwait
  <2> QED BY <2>1, Quiet DEF Between, TurnInv, TurnTypeOK
<1>4. CASE close
  BY <1>4, Clears, Quiet DEF close, Between
<1> QED BY <1>1, <1>2, <1>3, <1>4 DEF settleTurn

LEMMA TurnStep == TurnInv /\ [TurnNext]_turnVars => TurnInv'
<1> SUFFICES ASSUME TurnInv, [TurnNext]_turnVars PROVE TurnInv'
  OBVIOUS
<1>1. CASE UNCHANGED turnVars
  BY <1>1 DEF turnVars, TurnInv, TurnTypeOK, SettledParts, Remembered, NoneLeft, Owed
<1>2. CASE run
  BY <1>2, Quiet DEF run, memory, TurnInv, TurnTypeOK, NoneLeft, Between
<1>3. CASE failInterruptedTools \/ request
  BY <1>3, Repairs, StartsTurn
<1>4. CASE streamEvent
  <2>1. CASE providerError
    BY <2>1, Quiet DEF providerError, TurnInv, TurnTypeOK, NoneLeft
  <2>2. ASSUME NEW outcome \in {"success", "failure", "defect", "interrupted"}, endStream(outcome)
        PROVE  TurnInv'
    <3>1. phase = "stream" /\ phase' \in {"failHosted", "clear", "await"}
            /\ UNCHANGED <<part, settlements, tool, fiber>>
      BY <2>2 DEF endStream, Ended
    <3> QED BY <3>1, Quiet DEF Between, TurnInv, TurnTypeOK
  <2> QED BY <1>4, <2>1, <2>2, Streams, HostedResult, CutsOff DEF streamEvent
<1>5. ASSUME NEW c \in Calls, NEW result \in Publishing, settle(c, result)
      PROVE  TurnInv'
  BY <1>5, Quiet DEF settle, TurnInv, TurnTypeOK, NoneLeft
<1>6. ASSUME NEW c \in Calls, NEW kind \in {"failed", "rejected"}, fail(c, kind)
      PROVE  TurnInv'
  BY <1>6, Quiet DEF fail, TurnInv, TurnTypeOK, NoneLeft
<1>7. CASE interrupt
  BY <1>7, Quiet DEF interrupt, memory, TurnInv, TurnTypeOK, NoneLeft, Between
<1>8. CASE crash
  BY <1>8 DEF crash, TurnInv, TurnTypeOK, SettledParts, Remembered, NoneLeft, Fresh, Unknown, NoFibers,
     Tools, Between
<1> QED BY <1>1, <1>2, <1>3, <1>4, <1>5, <1>6, <1>7, <1>8, FiberPublishes, SettlesTurn DEF TurnNext

\* Every call is settled by one durable event and no more, whatever its tool, the
\* provider, the interrupts and the crashes do (session/runner/llm.ts and its publisher).
THEOREM CallsSettleOnce == TurnSpec => []SettledOnce
<1>1. TurnInv => SettledOnce
  BY DEF TurnInv, SettledParts, SettledOnce
<1> QED BY TurnInitInv, TurnStep, <1>1, PTL DEF TurnSpec

\* Parts, settlements, the publisher's memory and the fibers have their types.
THEOREM TurnTyped == TurnSpec => []TurnTypeOK
<1>1. TurnInv => TurnTypeOK
  BY DEF TurnInv
<1> QED BY TurnInitInv, TurnStep, <1>1, PTL DEF TurnSpec

-----------------------------------------------------------------------------
(* The ledger.  Between turns no tool has effects and no call is open: a   *)
(* part left running belongs to a call of the turn under way that has no   *)
(* settlement, which its fiber still owes it, or else the runner.          *)

Serving == {"stream", "failHosted", "await"}

Opened(c) ==
    /\ phase = "request" => part[c] # "running"
    /\ phase \notin Between /\ part[c] = "running" /\ stream # "interrupted" =>
          tool[c].called /\ ~tool[c].settled
    /\ phase = "stream" /\ tool[c].known /\ ~tool[c].called => part[c] = "pending"

Pursued(c) ==
    tool[c].called /\ ~tool[c].settled =>
        /\ phase \in Serving /\ stream # "interrupted" /\ joined = "none" /\ ~tool[c].hosted => fiber[c] # "none"
        /\ phase = "failLeft" => tool[c].hosted
        /\ phase = "close" => stream # "success"

Ends ==
    /\ phase = "stream" => stream = "open"
    /\ phase \in {"clear", "clearLeft"} => stream = "interrupted"

LedgerInv == Ends /\ \A c \in Calls : Opened(c) /\ Pursued(c)

LEMMA LedgerInitInv == TurnInit => LedgerInv
BY DEF TurnInit, LedgerInv, Ends, Opened, Pursued, Fresh, Unknown, Between, Serving

\* One call is answered: it is open no more, and its settlement is not owed.
LEMMA LedgerAnswers ==
    ASSUME TurnInv, LedgerInv, NEW c \in Calls,
           toolFailed(c) \/ (toolSuccess(c) /\ part[c] = "running"),
           tool' = [tool EXCEPT ![c].settled = TRUE],
           fiber' = fiber \/ fiber' = [fiber EXCEPT ![c] = "none"],
           phase = "stream" => tool[c].called,
           UNCHANGED <<joined, phase, stream>>
    PROVE  LedgerInv'
<1>1. part'[c] # "running" /\ tool'[c].settled /\ (phase = "stream" => tool'[c].called)
  BY DEF TurnInv, TurnTypeOK, Tools, toolFailed, toolSuccess
<1>2. ASSUME NEW d \in Calls, d # c
      PROVE  part'[d] = part[d] /\ tool'[d] = tool[d] /\ fiber'[d] = fiber[d]
  BY <1>2 DEF TurnInv, TurnTypeOK, toolFailed, toolSuccess
<1>3. ASSUME NEW d \in Calls PROVE Opened(d)' /\ Pursued(d)'
  <2>1. CASE d = c
    BY <1>1, <2>1 DEF Opened, Pursued
  <2>2. CASE d # c
    BY <1>2, <2>2 DEF LedgerInv, Opened, Pursued
  <2> QED BY <2>1, <2>2
<1> QED BY <1>3 DEF LedgerInv, Ends

\* A fiber that ends without a result leaves a failure to the join.
LEMMA FirstFails ==
    ASSUME NEW kind \in {"failed", "rejected"}
    PROVE  FirstFailure(kind) # "none"
BY DEF FirstFailure

LEMMA LedgerStreams ==
    ASSUME TurnInv, LedgerInv, streamEvent
    PROVE  LedgerInv'
<1>1. ASSUME NEW c \in Calls, startToolInput(c)
      PROVE  LedgerInv'
  <2>1. /\ phase = "stream" /\ UNCHANGED <<fiber, joined, phase, stream>>
        /\ ~tool[c].known
        /\ tool' = [tool EXCEPT ![c].known = TRUE] /\ part' = [part EXCEPT ![c] = "pending"]
    BY <1>1 DEF startToolInput, Streaming
  <2>2. /\ part'[c] = "pending" /\ ~tool'[c].called
        /\ \A d \in Calls : d # c => part'[d] = part[d] /\ tool'[d] = tool[d]
    BY <2>1 DEF TurnInv, TurnTypeOK, Tools, Remembered, Between
  <2> QED BY <2>1, <2>2 DEF LedgerInv, Opened, Pursued, Ends
<1>2. ASSUME NEW c \in Calls, NEW hosted \in BOOLEAN, toolCall(c, hosted)
      PROVE  LedgerInv'
  <2>1. /\ phase = "stream" /\ UNCHANGED <<joined, phase, stream>>
        /\ tool[c].known /\ ~tool[c].called
        /\ tool' = Called(c, hosted) /\ part' = [part EXCEPT ![c] = "running"]
        /\ fiber' = IF hosted THEN fiber ELSE [fiber EXCEPT ![c] = "running"]
    BY <1>2 DEF toolCall, Streaming
  <2>2. ~tool[c].settled
    BY <2>1 DEF TurnInv, Remembered, Between
  <2>3. /\ part'[c] = "running" /\ tool'[c].called /\ ~tool'[c].settled /\ tool'[c].hosted = hosted
        /\ \A d \in Calls : d # c => part'[d] = part[d] /\ tool'[d] = tool[d]
    BY <2>1, <2>2 DEF TurnInv, TurnTypeOK, Tools, Called
  <2>4. \A d \in Calls : fiber'[d] # fiber[d] => fiber'[d] # "none"
    BY <2>1 DEF TurnInv, TurnTypeOK
  <2>5. ~hosted => fiber'[c] # "none"
    BY <2>1 DEF TurnInv, TurnTypeOK
  <2> QED BY <2>1, <2>3, <2>4, <2>5 DEF LedgerInv, Opened, Pursued, Ends
<1>3. ASSUME NEW c \in Calls, NEW result \in Publishing, toolResult(c, result)
      PROVE  LedgerInv'
  <2>1. phase = "stream" /\ tool[c].known /\ ~tool[c].settled /\ tool[c].called
    BY <1>3 DEF toolResult, Streaming, TurnInv, Remembered, Between
  <2>2. part[c] = "running"
    BY <2>1 DEF TurnInv, Remembered, Owed, Between
  <2> QED BY <1>3, <2>1, <2>2, ResultSettles, LedgerAnswers DEF toolResult
<1>4. ASSUME NEW c \in Calls, cutOff(c)
      PROVE  LedgerInv'
  <2>1. phase' = "clear" /\ stream' = "interrupted"
    BY <1>4 DEF cutOff, Ended
  <2> QED BY <2>1 DEF LedgerInv, Opened, Pursued, Ends, Serving
<1>5. CASE providerError
  BY <1>5 DEF providerError, LedgerInv, Opened, Pursued, Ends
<1>6. ASSUME NEW outcome \in {"success", "failure", "defect", "interrupted"}, endStream(outcome)
      PROVE  LedgerInv'
  <2>1. /\ phase = "stream" /\ UNCHANGED <<part, tool, fiber, joined>>
        /\ stream' = outcome /\ phase' \in {"failHosted", "clear", "await"}
        /\ phase' = "clear" => outcome = "interrupted"
    BY <1>6 DEF endStream, Ended
  <2>2. ASSUME NEW c \in Calls PROVE Opened(c)' /\ Pursued(c)'
    BY <2>1 DEF LedgerInv, Ends, Opened, Pursued, Between, Serving
  <2> QED BY <2>1, <2>2 DEF LedgerInv, Ends
<1> QED BY <1>1, <1>2, <1>3, <1>4, <1>5, <1>6 DEF streamEvent

LEMMA LedgerFailsUnsettled ==
    ASSUME TurnInv, LedgerInv,
           NEW at \in {"failHosted", "failAll", "failLeft"}, NEW hostedOnly \in BOOLEAN,
           NEW next \in {"await", "close"}, failUnsettledTools(at, hostedOnly, next),
           at = "failHosted" <=> next = "await", at = "failAll" => ~hostedOnly
    PROVE  LedgerInv'
<1>1. phase = at /\ UNCHANGED <<fiber, joined, stream>>
  BY DEF failUnsettledTools
<1>2. ASSUME NEW c \in Calls, tool' = [tool EXCEPT ![c].settled = TRUE], toolFailed(c), UNCHANGED phase
      PROVE  LedgerInv'
  <2>1. fiber' = fiber \/ fiber' = [fiber EXCEPT ![c] = "none"]
    BY <1>1
  <2>2. UNCHANGED <<joined, phase, stream>>
    BY <1>1, <1>2
  <2>3. phase = "stream" => tool[c].called
    BY <1>1
  <2>4. toolFailed(c) \/ (toolSuccess(c) /\ part[c] = "running")
    BY <1>2
  <2>5. tool' = [tool EXCEPT ![c].settled = TRUE]
    BY <1>2
  <2> QED BY <2>1, <2>2, <2>3, <2>4, <2>5, LedgerAnswers, Zenon
<1>3. ASSUME Unsettled(hostedOnly) = {}, phase' = next, UNCHANGED <<part, settlements, tool>>
      PROVE  LedgerInv'
  <2>1. ASSUME NEW c \in Calls, phase' = "close", tool[c].called, ~tool[c].settled
        PROVE  FALSE
    <3>1. tool[c].known
      BY <1>1, <2>1 DEF TurnInv, Remembered, Between
    <3>2. at = "failLeft" => tool[c].hosted
      BY <1>1, <2>1 DEF LedgerInv, Pursued
    <3> QED BY <1>3, <2>1, <3>1, <3>2 DEF Unsettled
  <2>2. ASSUME NEW c \in Calls PROVE Opened(c)' /\ Pursued(c)'
    BY <1>1, <1>3, <2>1 DEF LedgerInv, Opened, Pursued, Between, Serving
  <2> QED BY <1>3, <2>2 DEF LedgerInv, Ends
<1> QED BY <1>2, <1>3 DEF failUnsettledTools, Unsettled

LEMMA LedgerSettlesTurn ==
    ASSUME TurnInv, LedgerInv, settleTurn
    PROVE  LedgerInv'
<1>1. CASE \/ failUnsettledTools("failHosted", TRUE, "await")
           \/ failUnsettledTools("failAll", FALSE, "close")
           \/ failUnsettledTools("failLeft", TRUE, "close")
  BY <1>1, LedgerFailsUnsettled
<1>2. CASE clear("clear", "await") \/ clear("clearLeft", "failAll")
  <2>1. /\ phase \in {"clear", "clearLeft"} /\ UNCHANGED <<part, tool, joined, stream>>
        /\ phase' \in {"clear", "clearLeft", "await", "failAll"}
    BY <1>2 DEF clear
  <2>2. stream = "interrupted"
    BY <2>1 DEF LedgerInv, Ends
  <2> QED BY <2>1, <2>2 DEF LedgerInv, Opened, Pursued, Ends, Between, Serving
<1>3. CASE awaitToolFibers
  <2> PICK how \in {"success", "failed", "rejected", "interrupted"} :
         /\ how = "success" => Alive = {} /\ joined = "none"
         /\ phase' = AfterAwait(how)
         /\ stream' = IF how = "success" THEN stream
                      ELSE IF how = "failed" /\ stream # "interrupted" THEN "failure" ELSE "interrupted"
    BY <1>3 DEF awaitToolFibers
  <2>1. phase = "await" /\ UNCHANGED <<part, tool, fiber, joined>>
    BY <1>3 DEF awaitToolFibers
  <2>2. /\ phase' \in {"clearLeft", "failAll", "failLeft", "close"}
        /\ phase' = "clearLeft" => stream' = "interrupted"
        /\ phase' \in {"failLeft", "close"} => how = "success" /\ stream' = stream /\ stream # "interrupted"
        /\ phase' = "close" => stream # "success"
        /\ stream = "interrupted" => stream' = "interrupted"
    BY DEF AfterAwait
  <2>3. ASSUME NEW c \in Calls, tool[c].called, ~tool[c].settled, phase' = "failLeft"
        PROVE  tool[c].hosted
    <3>1. fiber[c] = "none"
      BY <2>2, <2>3 DEF Alive
    <3> QED BY <2>1, <2>2, <2>3, <3>1 DEF LedgerInv, Pursued, Serving
  <2>4. ASSUME NEW c \in Calls PROVE Opened(c)' /\ Pursued(c)'
    BY <2>1, <2>2, <2>3 DEF LedgerInv, Opened, Pursued, Between, Serving
  <2> QED BY <2>1, <2>2, <2>4 DEF LedgerInv, Ends
<1>4. CASE close
  <2>1. /\ phase = "close" /\ UNCHANGED <<part, tool, joined, stream>>
        /\ phase' \in {"close", "request", "off"} /\ (phase' = "request" => stream = "success")
    BY <1>4 DEF close
  <2>2. ASSUME NEW c \in Calls, phase' = "request", part[c] = "running" PROVE FALSE
    BY <2>1, <2>2 DEF LedgerInv, Opened, Pursued, Between
  <2> QED BY <2>1, <2>2 DEF LedgerInv, Opened, Pursued, Ends, Between, Serving
<1> QED BY <1>1, <1>2, <1>3, <1>4 DEF settleTurn

LEMMA LedgerStep == TurnInv /\ LedgerInv /\ [TurnNext]_turnVars => LedgerInv'
<1> SUFFICES ASSUME TurnInv, LedgerInv, [TurnNext]_turnVars PROVE LedgerInv'
  OBVIOUS
<1>1. CASE UNCHANGED turnVars
  BY <1>1 DEF turnVars, LedgerInv, Opened, Pursued, Ends
<1>2. CASE run
  BY <1>2 DEF run, memory, LedgerInv, Opened, Pursued, Ends, Between, Serving
<1>3. CASE failInterruptedTools
  <2>1. /\ phase = "repair" /\ phase' \in {"repair", "request"} /\ UNCHANGED <<tool, fiber, joined, stream>>
        /\ phase' = "request" => Left = {} /\ part' = part
    BY <1>3 DEF failInterruptedTools, memory
  <2> QED BY <2>1 DEF LedgerInv, Opened, Pursued, Ends, Between, Serving, Left
<1>4. CASE request
  <2>1. phase = "request" /\ phase' = "stream" /\ stream' = "open" /\ tool' = Fresh /\ UNCHANGED part
    BY <1>4 DEF request
  <2> QED BY <2>1 DEF LedgerInv, Opened, Pursued, Ends, Between, Fresh, Unknown
<1>5. CASE streamEvent
  BY <1>5, LedgerStreams
<1>6. ASSUME NEW c \in Calls, NEW result \in Publishing, settle(c, result)
      PROVE  LedgerInv'
  <2>1. UNCHANGED <<part, tool, joined, phase, stream>> /\ \A d \in Calls : fiber'[d] = "none" => fiber[d] = "none"
    BY <1>6 DEF settle, TurnInv, TurnTypeOK, Publishing
  <2> QED BY <2>1 DEF LedgerInv, Opened, Pursued, Ends
<1>7. ASSUME NEW c \in Calls, NEW kind \in {"failed", "rejected"}, fail(c, kind)
      PROVE  LedgerInv'
  <2>1. UNCHANGED <<part, tool, phase, stream>> /\ joined' # "none"
    BY <1>7, FirstFails DEF fail
  <2> QED BY <2>1 DEF LedgerInv, Opened, Pursued, Ends
<1>8. ASSUME NEW c \in Calls, publishResult(c)
      PROVE  LedgerInv'
  <2>1. /\ fiber[c] \in Publishing /\ fiber' = [fiber EXCEPT ![c] = "none"] /\ UNCHANGED <<phase, stream>>
        /\ phase \notin Between /\ tool[c].called /\ tool[c].known
    BY <1>8 DEF publishResult, TurnInv, NoneLeft, Remembered, Publishing
  <2>2. CASE Late(c)
    <3>1. /\ UNCHANGED <<part, tool>> /\ tool[c].settled
          /\ joined' = "none" => joined = "none"
      BY <1>8, <2>2, FirstFails DEF publishResult, Late
    <3>2. \A d \in Calls : d # c => fiber'[d] = fiber[d]
      BY <2>1 DEF TurnInv, TurnTypeOK
    <3> QED BY <2>1, <3>1, <3>2 DEF LedgerInv, Opened, Pursued, Ends
  <2>3. CASE ~Late(c)
    <3>1. part[c] = "running"
      BY <2>1, <2>3 DEF TurnInv, Remembered, Owed, Late, Publishing
    <3> QED BY <1>8, <2>1, <2>3, <3>1, ResultSettles, LedgerAnswers DEF publishResult
  <2> QED BY <2>2, <2>3
<1>9. CASE settleTurn
  BY <1>9, LedgerSettlesTurn
<1>10. CASE interrupt
  <2>1. UNCHANGED <<part, tool, fiber, joined, stream>> /\ phase' \in {phase, "off"}
    BY <1>10 DEF interrupt, memory
  <2> QED BY <2>1 DEF LedgerInv, Opened, Pursued, Ends, Between, Serving
<1>11. CASE crash
  BY <1>11 DEF crash, LedgerInv, Opened, Pursued, Ends, Between, Serving, Fresh, Unknown
<1> QED BY <1>1, <1>2, <1>3, <1>4, <1>5, <1>6, <1>7, <1>8, <1>9, <1>10, <1>11 DEF TurnNext

\* The steps of a turn as the ledger sees them.
LEMMA Stutters ==
    ASSUME UNCHANGED part, Alive' = Alive, phase' \in Between <=> phase \in Between
    PROVE  UNCHANGED Ledger!ledgerVars
BY DEF Ledger!ledgerVars, history

LEMMA Ceases ==
    ASSUME UNCHANGED part, Alive' \subseteq Alive, phase' \in Between <=> phase \in Between
    PROVE  Ledger!LedgerNext
<1>1. Ledger!Cease
  BY DEF Ledger!Cease, history
<1> QED BY <1>1 DEF Ledger!LedgerNext

LEMMA Answered ==
    ASSUME TurnTypeOK, NEW c \in Calls, part[c] \in {"pending", "running"},
           toolFailed(c) \/ (toolSuccess(c) /\ part[c] = "running"),
           Alive' \in {Alive, Alive \ {c}}, UNCHANGED phase
    PROVE  Ledger!LedgerNext
<1>1. PICK value \in {"completed", "error"} : part' = [part EXCEPT ![c] = value]
  BY DEF TurnTypeOK, toolFailed, toolSuccess
<1>2. history[c] \in {"announced", "open"}
  BY DEF history
<1>3. history' = [history EXCEPT ![c] = "answered"]
  BY <1>1 DEF history, TurnTypeOK
<1>4. Ledger!Answer(c)
  BY <1>2, <1>3 DEF Ledger!Answer
<1> QED BY <1>4 DEF Ledger!LedgerNext

\* The fibers in terms of the ledger: who starts, who ends.
LEMMA AliveWithout ==
    ASSUME TurnTypeOK, NEW c \in Calls, fiber' = [fiber EXCEPT ![c] = "none"]
    PROVE  Alive' = Alive \ {c}
BY DEF TurnTypeOK, Alive

LEMMA AliveCleared ==
    ASSUME fiber' = clearFibers
    PROVE  Alive' \subseteq Alive
BY DEF Alive, clearFibers

LEMMA AliveNone == fiber' = NoFibers => Alive' = {}
BY DEF NoFibers, Alive

LEMMA NoneAlive == TurnInv /\ phase \in Between => Alive = {}
BY DEF TurnInv, NoneLeft, Alive

LEMMA AsksProvider ==
    ASSUME TurnInv, LedgerInv, request
    PROVE  Ledger!LedgerNext
<1>1. phase = "request" /\ phase' = "stream" /\ fiber' = NoFibers /\ part' = part
  BY DEF request
<1>2. Alive = {} /\ Alive' = {}
  BY <1>1, NoneAlive, AliveNone DEF Between
<1>3. \A c \in Calls : history[c] # "open"
  BY <1>1 DEF LedgerInv, Opened, history, TurnInv, TurnTypeOK
<1>4. Ledger!Ask
  BY <1>1, <1>2, <1>3 DEF Ledger!Ask, history, Between
<1> QED BY <1>4 DEF Ledger!LedgerNext

LEMMA RefinesStream ==
    ASSUME TurnInv, LedgerInv, streamEvent
    PROVE  [Ledger!LedgerNext]_(Ledger!ledgerVars)
<1>1. ASSUME NEW c \in Calls, startToolInput(c)
      PROVE  Ledger!LedgerNext
  <2>1. /\ phase = "stream" /\ UNCHANGED <<fiber, phase>>
        /\ part[c] = "none" /\ part' = [part EXCEPT ![c] = "pending"]
    BY <1>1 DEF startToolInput, Streaming
  <2>2. history[c] = "none" /\ history' = [history EXCEPT ![c] = "announced"]
    BY <2>1 DEF history, TurnInv, TurnTypeOK
  <2>3. Alive' = Alive
    BY <2>1 DEF Alive
  <2>4. Ledger!Announce(c)
    BY <2>1, <2>2, <2>3 DEF Ledger!Announce, Between
  <2> QED BY <2>4 DEF Ledger!LedgerNext
<1>2. ASSUME NEW c \in Calls, NEW hosted \in BOOLEAN, toolCall(c, hosted)
      PROVE  Ledger!LedgerNext
  <2>1. /\ phase = "stream" /\ UNCHANGED phase /\ tool[c].known /\ ~tool[c].called
        /\ part' = [part EXCEPT ![c] = "running"]
        /\ fiber' = IF hosted THEN fiber ELSE [fiber EXCEPT ![c] = "running"]
    BY <1>2 DEF toolCall, Streaming
  <2>2. part[c] = "pending"
    BY <2>1 DEF LedgerInv, Opened
  <2>3. history[c] = "announced" /\ history' = [history EXCEPT ![c] = "open"]
    BY <2>1, <2>2 DEF history, TurnInv, TurnTypeOK
  <2>4. Alive' \in {Alive, Alive \cup {c}}
    BY <2>1 DEF Alive, TurnInv, TurnTypeOK
  <2>5. Ledger!Open(c)
    BY <2>1, <2>3, <2>4 DEF Ledger!Open, Between
  <2> QED BY <2>5 DEF Ledger!LedgerNext
<1>3. ASSUME NEW c \in Calls, NEW result \in Publishing, toolResult(c, result)
      PROVE  Ledger!LedgerNext
  <2>1. phase = "stream" /\ ~tool[c].settled /\ tool[c].known /\ tool[c].called /\ UNCHANGED <<fiber, phase>>
    BY <1>3 DEF toolResult, Streaming, TurnInv, Remembered, Between
  <2>2. part[c] = "running"
    BY <2>1 DEF TurnInv, Remembered, Owed, Between
  <2>3. toolFailed(c) \/ toolSuccess(c)
    BY <1>3, ResultSettles DEF toolResult
  <2>4. Alive' = Alive
    BY <2>1 DEF Alive
  <2> QED BY <2>1, <2>2, <2>3, <2>4, Answered DEF TurnInv
<1>4. ASSUME \/ \E c \in Calls : cutOff(c)
             \/ providerError
             \/ \E outcome \in {"success", "failure", "defect", "interrupted"} : endStream(outcome)
      PROVE  UNCHANGED Ledger!ledgerVars
  <2>1. /\ phase = "stream" /\ phase' \in {"stream", "failHosted", "clear", "await"}
        /\ UNCHANGED <<part, fiber>>
    BY <1>4 DEF cutOff, providerError, endStream, Ended, Streaming
  <2>2. Alive' = Alive
    BY <2>1 DEF Alive
  <2> QED BY <2>1, <2>2, Stutters DEF Between
<1> QED BY <1>1, <1>2, <1>3, <1>4 DEF streamEvent

LEMMA RefinesSettlement ==
    ASSUME TurnInv, LedgerInv, settleTurn
    PROVE  [Ledger!LedgerNext]_(Ledger!ledgerVars)
<1>1. ASSUME NEW at \in {"failHosted", "failAll", "failLeft"}, NEW hostedOnly \in BOOLEAN,
             NEW next \in {"await", "close"}, failUnsettledTools(at, hostedOnly, next)
      PROVE  [Ledger!LedgerNext]_(Ledger!ledgerVars)
  <2>1. phase = at /\ fiber' = fiber /\ Alive' = Alive
    BY <1>1 DEF failUnsettledTools, Alive
  <2>2. ASSUME NEW c \in Calls, toolFailed(c), UNCHANGED phase
        PROVE  [Ledger!LedgerNext]_(Ledger!ledgerVars)
    <3>1. CASE part[c] \in {"pending", "running"}
      BY <2>1, <2>2, <3>1, Answered DEF TurnInv
    <3>2. CASE part[c] \notin {"pending", "running"}
      <4>1. part' = part
        BY <2>2, <3>2 DEF toolFailed, TurnInv, TurnTypeOK
      <4> QED BY <2>1, <2>2, <4>1, Stutters
    <3> QED BY <3>1, <3>2
  <2>3. CASE phase' = next /\ part' = part
    BY <2>1, <2>3, Stutters DEF Between
  <2> QED BY <1>1, <2>2, <2>3 DEF failUnsettledTools, Unsettled
<1>2. CASE \/ failUnsettledTools("failHosted", TRUE, "await")
           \/ failUnsettledTools("failAll", FALSE, "close")
           \/ failUnsettledTools("failLeft", TRUE, "close")
  BY <1>1, <1>2
<1>3. CASE clear("clear", "await") \/ clear("clearLeft", "failAll")
  BY <1>3, AliveCleared, Ceases DEF clear, Between
<1>4. CASE awaitToolFibers
  <2>1. /\ phase = "await" /\ phase' \in {"clearLeft", "failAll", "failLeft", "close"}
        /\ UNCHANGED <<part, fiber>>
    BY <1>4 DEF awaitToolFibers, AfterAwait
  <2>2. Alive' = Alive
    BY <2>1 DEF Alive
  <2> QED BY <2>1, <2>2, Stutters DEF Between
<1>5. CASE close
  <2>1. phase = "close" /\ fiber' = clearFibers /\ part' = part
    BY <1>5 DEF close
  <2>2. CASE Alive # {}
    BY <1>5, <2>1, <2>2, AliveCleared, Ceases DEF close
  <2>3. CASE Alive = {}
    <3>1. phase' \in Between
      BY <1>5, <2>3 DEF close, Between
    <3>2. Alive' = {}
      BY <2>1, <2>3, AliveCleared
    <3>3. Ledger!Close
      BY <2>1, <3>1, <3>2 DEF Ledger!Close, Between, history
    <3> QED BY <3>3 DEF Ledger!LedgerNext
  <2> QED BY <2>2, <2>3
<1> QED BY <1>2, <1>3, <1>4, <1>5 DEF settleTurn

LEMMA RefinesStep ==
    TurnInv /\ LedgerInv /\ [TurnNext]_turnVars => [Ledger!LedgerNext]_(Ledger!ledgerVars)
<1> SUFFICES ASSUME TurnInv, LedgerInv, [TurnNext]_turnVars
             PROVE  [Ledger!LedgerNext]_(Ledger!ledgerVars)
  OBVIOUS
<1>1. CASE UNCHANGED turnVars \/ run \/ interrupt
  <2>1. /\ UNCHANGED <<part, fiber>> /\ Alive' = Alive
        /\ phase' \in Between <=> phase \in Between
    BY <1>1 DEF turnVars, run, interrupt, memory, Alive, Between
  <2> QED BY <2>1, Stutters
<1>2. CASE failInterruptedTools
  <2>1. phase = "repair" /\ fiber' = fiber /\ Alive' = Alive
    BY <1>2 DEF failInterruptedTools, memory, Alive
  <2>2. CASE \E c \in Left : toolFailed(c) /\ UNCHANGED phase
    BY <2>1, <2>2, Answered DEF Left, TurnInv
  <2>3. CASE phase' = "request" /\ UNCHANGED <<part, settlements>>
    BY <2>1, <2>3, Stutters DEF Between
  <2> QED BY <1>2, <2>2, <2>3 DEF failInterruptedTools
<1>3. CASE request
  BY <1>3, AsksProvider
<1>4. CASE streamEvent
  BY <1>4, RefinesStream
<1>5. ASSUME NEW c \in Calls, NEW result \in Publishing, settle(c, result)
      PROVE  UNCHANGED Ledger!ledgerVars
  <2>1. UNCHANGED <<part, phase>>
    BY <1>5 DEF settle
  <2>2. Alive' = Alive
    BY <1>5 DEF settle, Alive, TurnInv, TurnTypeOK, Publishing
  <2> QED BY <2>1, <2>2, Stutters
<1>6. ASSUME NEW c \in Calls, NEW kind \in {"failed", "rejected"}, fail(c, kind)
      PROVE  Ledger!LedgerNext
  <2>1. UNCHANGED <<part, phase>> /\ fiber' = [fiber EXCEPT ![c] = "none"]
    BY <1>6 DEF fail
  <2>2. Alive' \subseteq Alive
    BY <2>1, AliveWithout DEF TurnInv
  <2> QED BY <2>1, <2>2, Ceases
<1>7. ASSUME NEW c \in Calls, publishResult(c)
      PROVE  Ledger!LedgerNext
  <2>1. fiber[c] \in Publishing /\ fiber' = [fiber EXCEPT ![c] = "none"] /\ phase' = phase
    BY <1>7 DEF publishResult
  <2>2. Alive' = Alive \ {c}
    BY <2>1, AliveWithout DEF TurnInv
  <2>3. CASE Late(c)
    <3>1. part' = part /\ Alive' \subseteq Alive
      BY <1>7, <2>2, <2>3 DEF publishResult
    <3> QED BY <2>1, <3>1, Ceases
  <2>4. CASE ~Late(c)
    <3>1. phase \notin Between /\ tool[c].called /\ tool[c].known
      BY <2>1 DEF TurnInv, NoneLeft, Remembered, Publishing
    <3>2. part[c] = "running"
      BY <2>1, <2>4, <3>1 DEF TurnInv, Remembered, Owed, Late, Publishing
    <3>3. toolFailed(c) \/ toolSuccess(c)
      BY <1>7, <2>1, <2>4, ResultSettles DEF publishResult
    <3> QED BY <2>1, <2>2, <3>2, <3>3, Answered DEF TurnInv
  <2> QED BY <2>3, <2>4
<1>8. CASE settleTurn
  BY <1>8, RefinesSettlement
<1>9. CASE crash
  <2>1. phase' = "off" /\ part' = part /\ Alive' = {}
    BY <1>9, AliveNone DEF crash
  <2>2. CASE phase \in Between
    BY <2>1, <2>2, NoneAlive, Stutters DEF Between
  <2>3. CASE phase \notin Between
    <3>1. Ledger!Close
      BY <2>1, <2>3 DEF Ledger!Close, history, Between
    <3> QED BY <3>1 DEF Ledger!LedgerNext
  <2> QED BY <2>2, <2>3
<1> QED BY <1>1, <1>2, <1>3, <1>4, <1>5, <1>6, <1>7, <1>8, <1>9 DEF TurnNext

\* Whatever the tools, the stream, the interrupts and the crashes do, the history of a
\* Session follows the ledger: a call is answered at most once, and the provider is asked
\* again only when no call is open and no tool still has effects (runner/llm.ts).
THEOREM TurnKeepsLedger == TurnSpec => ImplementsLedger
<1>1. TurnInit => Ledger!LedgerInit
  BY DEF TurnInit, Ledger!LedgerInit, history, Alive, NoFibers, Between
<1> QED BY TurnInitInv, LedgerInitInv, TurnStep, LedgerStep, RefinesStep, <1>1,
           PTL DEF TurnSpec, ImplementsLedger, Ledger!LedgerSpec

-----------------------------------------------------------------------------
(* Runs.  A prompt that waits has a runner that employs its work, a        *)
(* cancel knows what it stops, and only a runner without work says it is   *)
(* idle.                                                                   *)

Tags == {"none", "Idle", "Running", "Shell", "ShellThenRun"}
Ats == {"none", "queued", "ended"} \cup Live
Active == {"new", "working", "cleanup"}
WorkRows == [kind : {"none", "run", "shell"}, runner : RunnerIds \cup {0}, at : Ats,
             done : {"none", "open", "exit", "cancelled"}]
RunnerRows == [tag : Tags, shell : WorkIds \cup {0}, run : WorkIds \cup {0}]
CancelRows == [at : {"off", "jobs", "latch", "stopping", "idling"}, runner : RunnerIds \cup {0},
               shell : WorkIds \cup {0}, run : WorkIds \cup {0}]

RunTypeOK ==
    /\ entry \in RunnerIds \cup {0}
    /\ runners \in [RunnerIds -> RunnerRows]
    /\ works \in [WorkIds -> WorkRows]
    /\ waits \in [Prompts -> WorkIds \cup {0}]
    /\ cancels \in [Cancels -> CancelRows]
    /\ status \in {"idle", "busy"}

Busy(k) == runners[k].tag \in {"Running", "Shell", "ShellThenRun"}
Cancelling(c) == cancels[c].at \in {"latch", "stopping"}

\* A runner's state names works of its own.
WorksFor(k, w, kind, at) ==
    w \in WorkIds /\ works[w].kind = kind /\ works[w].runner = k /\ works[w].at \in at

Employs(k) ==
    /\ runners[k].tag \in {"none", "Idle"} => runners[k].shell = 0 /\ runners[k].run = 0
    /\ runners[k].tag = "Running" => runners[k].shell = 0 /\ WorksFor(k, runners[k].run, "run", Active)
    /\ runners[k].tag = "Shell" => runners[k].run = 0 /\ WorksFor(k, runners[k].shell, "shell", Active)
    /\ runners[k].tag = "ShellThenRun" => /\ WorksFor(k, runners[k].shell, "shell", Active)
                                          /\ WorksFor(k, runners[k].run, "run", {"queued"})

\* A run that has not stopped is its runner's, and one nobody has completed is on its way.
Employed(w) ==
    /\ works[w].kind # "none" => works[w].runner \in RunnerIds
    /\ works[w].kind = "run" /\ works[w].at \in {"new", "working"} =>
          runners[works[w].runner].tag = "Running" /\ runners[works[w].runner].run = w
    /\ works[w].kind = "run" /\ works[w].done = "open" =>
          \/ works[w].at \in Live
          \/ /\ runners[works[w].runner].tag = "ShellThenRun"
             /\ runners[works[w].runner].run = w
          \/ \E c \in Cancels : Stops(c, w)

\* What a cancel stops is nobody's any more.
Dismissed(c) ==
    Cancelling(c) =>
        /\ cancels[c].runner \in RunnerIds /\ runners[cancels[c].runner].tag # "none"
        /\ cancels[c].at = "latch" => cancels[c].shell # 0
        /\ cancels[c].shell # 0 => works[cancels[c].shell].kind = "shell"
        /\ cancels[c].run # 0 => /\ works[cancels[c].run].kind = "run"
                                 /\ runners[works[cancels[c].run].runner].run # cancels[c].run

Awaited(p) == waits[p] # 0 => works[waits[p]].kind = "run"

\* Whoever leaves the Session's runner idle will forget it, ...
Forgets ==
    entry # 0 =>
        /\ runners[entry].tag # "none"
        /\ Busy(entry) \/ \E c \in Cancels : Cancelling(c) /\ cancels[c].runner = entry

\* ... and whoever made the Session busy, or stops what did, will say that it is idle.
SaysIdle ==
    status = "busy" =>
        \/ \E k \in RunnerIds : Busy(k)
        \/ \E w \in WorkIds : works[w].at = "idling"
        \/ \E c \in Cancels : Cancelling(c) \/ cancels[c].at = "idling"

RunInv ==
    /\ RunTypeOK
    /\ \A k \in RunnerIds : Employs(k)
    /\ \A w \in WorkIds : Employed(w)
    /\ \A c \in Cancels : Dismissed(c)
    /\ \A p \in Prompts : Awaited(p)
    /\ Forgets /\ SaysIdle

-----------------------------------------------------------------------------
LEMMA NoIdIsZero == 0 \notin RunnerIds /\ 0 \notin WorkIds
BY RunStateBounds DEF RunnerIds, WorkIds

LEMMA RowsTyped ==
    ASSUME RunInv
    PROVE  /\ \A k \in RunnerIds : /\ runners[k] \in RunnerRows /\ runners[k].tag \in Tags
                                   /\ runners[k].shell \in WorkIds \cup {0}
                                   /\ runners[k].run \in WorkIds \cup {0}
           /\ \A w \in WorkIds : /\ works[w] \in WorkRows /\ works[w].at \in Ats
                                 /\ works[w].kind \in {"none", "run", "shell"}
                                 /\ works[w].runner \in RunnerIds \cup {0}
           /\ \A c \in Cancels : /\ cancels[c] \in CancelRows
                                 /\ cancels[c].shell \in WorkIds \cup {0}
                                 /\ cancels[c].run \in WorkIds \cup {0}
<1>1. /\ \A k \in RunnerIds : runners[k] \in RunnerRows
      /\ \A w \in WorkIds : works[w] \in WorkRows
      /\ \A c \in Cancels : cancels[c] \in CancelRows
  BY DEF RunInv, RunTypeOK
<1> QED BY <1>1 DEF RunnerRows, WorkRows, CancelRows

LEMMA RunInitInv == RunInit => RunInv
<1> SUFFICES ASSUME RunInit PROVE RunInv
  OBVIOUS
<1>1. RunTypeOK
  BY DEF RunInit, RunTypeOK, Idle, NotMade, NoCancel, RunnerRows, WorkRows, CancelRows, Tags, Ats
<1>2. \A k \in RunnerIds : Employs(k)
  BY DEF RunInit, Idle, Employs
<1>3. \A w \in WorkIds : Employed(w)
  BY DEF RunInit, NotMade, Employed
<1>4. \A c \in Cancels : Dismissed(c)
  BY DEF RunInit, NoCancel, Dismissed, Cancelling
<1>5. (\A p \in Prompts : Awaited(p)) /\ Forgets /\ SaysIdle
  BY DEF RunInit, Awaited, Forgets, SaysIdle
<1> QED BY <1>1, <1>2, <1>3, <1>4, <1>5 DEF RunInv

-----------------------------------------------------------------------------
(* Steps that leave the runners alone.                                      *)

\* A cancel that goes on stops what it stopped.
SameStop(c) ==
    Cancelling(c)' => /\ Cancelling(c) /\ cancels'[c].runner = cancels[c].runner
                      /\ cancels'[c].at = "latch" => cancels[c].at = "latch"
                      /\ cancels'[c].shell = cancels[c].shell /\ cancels'[c].run = cancels[c].run

NoEmployer(w) == \A k \in RunnerIds : runners[k].run # w /\ runners[k].shell # w

\* A work moves on, out of a runner's hands or in them.
Moves(x, row) ==
    /\ row.kind = works[x].kind /\ row.runner = works[x].runner
    /\ \/ works[x].at \in Active /\ row.at \in Active
       \/ row.at = works[x].at
       \/ NoEmployer(x)
    /\ row.kind = "run" =>
          /\ row.at \in {"new", "working"} => works[x].at \in {"new", "working"}
          /\ row.done = "open" => row.at \in Live

LEMMA WorkMoves ==
    ASSUME RunInv, RunTypeOK', Forgets', SaysIdle', runners' = runners,
           \A x \in WorkIds : works'[x] = works[x] \/ Moves(x, works'[x]),
           \A c \in Cancels : SameStop(c),
           \A c \in Cancels, x \in WorkIds : Stops(c, x) => Stops(c, x)' \/ works'[x].done # "open",
           \A p \in Prompts : waits'[p] = waits[p] \/ waits'[p] = 0
    PROVE  RunInv'
<1>1. \A x \in WorkIds : works'[x].kind = works[x].kind /\ works'[x].runner = works[x].runner
  BY DEF Moves
<1>2. ASSUME NEW k \in RunnerIds PROVE Employs(k)'
  <2>1. ASSUME NEW x, NEW kind, WorksFor(k, x, kind, Active), runners[k].run = x \/ runners[k].shell = x
        PROVE  WorksFor(k, x, kind, Active)'
    BY <1>1, <2>1 DEF WorksFor, NoEmployer, Moves
  <2>2. ASSUME NEW x, WorksFor(k, x, "run", {"queued"}), runners[k].run = x
        PROVE  WorksFor(k, x, "run", {"queued"})'
    BY <1>1, <2>2 DEF WorksFor, NoEmployer, Active, Moves
  <2>3. Employs(k)
    BY DEF RunInv
  <2> QED BY <2>1, <2>2, <2>3 DEF Employs
<1>3. ASSUME NEW x \in WorkIds PROVE Employed(x)'
  <2>1. Employed(x)
    BY DEF RunInv
  <2>2. CASE works'[x] = works[x]
    BY <2>1, <2>2 DEF Employed
  <2>3. CASE Moves(x, works'[x])
    BY <2>1, <2>3 DEF Employed, Moves
  <2> QED BY <2>2, <2>3
<1>4. ASSUME NEW c \in Cancels PROVE Dismissed(c)'
  <2>1. CASE Cancelling(c)'
    <3>1. Dismissed(c) /\ Cancelling(c) /\ SameStop(c)
      BY <2>1 DEF RunInv, SameStop
    <3>2. cancels[c].shell \in WorkIds \cup {0} /\ cancels[c].run \in WorkIds \cup {0}
      BY RowsTyped
    <3> QED BY <1>1, <2>1, <3>1, <3>2 DEF Dismissed, SameStop
  <2> QED BY <2>1 DEF Dismissed
<1>5. ASSUME NEW p \in Prompts PROVE Awaited(p)'
  <2>1. waits[p] \in WorkIds \cup {0} /\ Awaited(p)
    BY DEF RunInv, RunTypeOK
  <2> QED BY <1>1, <2>1 DEF Awaited
<1> QED BY <1>2, <1>3, <1>4, <1>5 DEF RunInv

\* No work moves.
LEMMA WorksRest ==
    ASSUME RunInv, RunTypeOK', Forgets', SaysIdle', UNCHANGED <<works, runners>>,
           \A c \in Cancels : SameStop(c) /\ (Cancelling(c) => Cancelling(c)'),
           \A p \in Prompts : waits'[p] = waits[p] \/ waits'[p] = 0
    PROVE  RunInv'
<1>1. \A c \in Cancels, x \in WorkIds : Stops(c, x) => Stops(c, x)'
  BY DEF Stops, SameStop, Cancelling
<1> QED BY <1>1, WorkMoves

\* A work that has neither stopped nor waits is all a runner employs.
LEMMA Unemployed ==
    ASSUME RunInv, NEW w \in WorkIds, works[w].at \notin Active \cup {"queued"}
    PROVE  NoEmployer(w)
<1>1. ASSUME NEW k \in RunnerIds, runners[k].run = w \/ runners[k].shell = w PROVE FALSE
  <2>1. Employs(k) /\ runners[k].tag \in Tags
    BY RowsTyped DEF RunInv
  <2> QED BY <1>1, <2>1, NoIdIsZero DEF Employs, WorksFor, Tags
<1> QED BY <1>1 DEF NoEmployer

LEMMA FibersRun ==
    ASSUME RunInv, NEW w \in WorkIds, begin(w) \/ abandonShell(w)
    PROVE  RunInv'
<1>1. PICK to \in {"working", "cleanup"} :
         /\ works' = [works EXCEPT ![w].at = to] /\ works[w].at \in Active
         /\ to = "working" => works[w].at = "new"
  BY DEF begin, abandonShell, Active
<1>2. UNCHANGED <<entry, runners, waits, cancels, status>>
  BY DEF begin, abandonShell
<1> DEFINE row == [works[w] EXCEPT !.at = to]
<1>3. works[w] \in WorkRows
  BY RowsTyped
<1>4. row \in WorkRows /\ row.kind = works[w].kind /\ row.runner = works[w].runner /\ row.at = to
  BY <1>3 DEF WorkRows, Ats, Live
<1>5. works' = [works EXCEPT ![w] = row]
  BY <1>1
<1> HIDE DEF row
<1>6. \A x \in WorkIds : works'[x] = IF x = w THEN row ELSE works[x]
  BY <1>5 DEF RunInv, RunTypeOK
<1>7. RunTypeOK'
  BY <1>2, <1>4, <1>5 DEF RunInv, RunTypeOK
<1>8. Forgets' /\ SaysIdle'
  BY <1>1, <1>2, <1>6 DEF RunInv, Forgets, SaysIdle, Busy, Cancelling, Active
<1>9. \A x \in WorkIds : works'[x] = works[x] \/ Moves(x, works'[x])
  BY <1>1, <1>4, <1>6 DEF Moves, Active, Live
<1>10. \A c \in Cancels : SameStop(c) /\ \A x \in WorkIds : Stops(c, x) => Stops(c, x)'
  BY <1>2 DEF SameStop, Stops, Cancelling
<1> QED BY <1>2, <1>7, <1>8, <1>9, <1>10, WorkMoves

\* A turn begins while its run is its runner's.
LEMMA TurnsBegin ==
    ASSUME RunInv, NEW w \in WorkIds, runLoop(w)
    PROVE  RunInv'
<1>1. works[w].kind = "run" /\ works[w].at = "working" /\ UNCHANGED <<entry, runners, works, waits, cancels>>
        /\ status' = "busy"
  BY DEF runLoop
<1>2. works[w].runner \in RunnerIds /\ runners[works[w].runner].tag = "Running"
  BY <1>1 DEF RunInv, Employed
<1>3. RunTypeOK' /\ Forgets' /\ SaysIdle'
  BY <1>1, <1>2 DEF RunInv, RunTypeOK, Forgets, SaysIdle, Busy, Cancelling
<1> QED BY <1>1, <1>3, WorksRest DEF SameStop, Cancelling

LEMMA PromptAnswered ==
    ASSUME RunInv, NEW p \in Prompts, awaitDone(p)
    PROVE  RunInv'
<1>1. UNCHANGED <<entry, runners, works, cancels, status>> /\ waits' = [waits EXCEPT ![p] = 0]
  BY DEF awaitDone
<1>2. RunTypeOK' /\ Forgets' /\ SaysIdle'
  BY <1>1 DEF RunInv, RunTypeOK, Forgets, SaysIdle, Busy, Cancelling
<1>3. \A q \in Prompts : waits'[q] = waits[q] \/ waits'[q] = 0
  BY <1>1 DEF RunInv, RunTypeOK
<1> QED BY <1>1, <1>2, <1>3, WorksRest DEF SameStop, Cancelling

-----------------------------------------------------------------------------
(* Cancels.                                                                 *)

\* A cancel that moves on and moves nothing.
LEMMA CancelRests ==
    ASSUME RunInv, NEW c \in Cancels, cancelBackgroundJobs(c) \/ cancelIdles(c)
    PROVE  RunInv'
<1>1. PICK row \in CancelRows :
         cancels' = [cancels EXCEPT ![c] = row] /\ row.at \in {"off", "jobs"}
  <2>1. CASE cancelBackgroundJobs(c)
    <3> DEFINE row == [cancels[c] EXCEPT !.at = "jobs"]
    <3>1. row \in CancelRows /\ row.at = "jobs"
      BY RowsTyped DEF CancelRows
    <3>2. cancels' = [cancels EXCEPT ![c] = row]
      BY <2>1 DEF cancelBackgroundJobs
    <3> HIDE DEF row
    <3> QED BY <3>1, <3>2
  <2>2. CASE cancelIdles(c)
    <3>1. NoCancel \in CancelRows /\ NoCancel.at = "off"
      BY DEF NoCancel, CancelRows
    <3> QED BY <2>2, <3>1 DEF cancelIdles
  <2> QED BY <2>1, <2>2
<1>2. /\ UNCHANGED <<entry, runners, works, waits>> /\ ~Cancelling(c)
      /\ status' = "idle" \/ (status' = status /\ cancels[c].at = "off")
  BY DEF cancelBackgroundJobs, cancelIdles, Cancelling
<1>3. \A d \in Cancels : cancels'[d] = IF d = c THEN row ELSE cancels[d]
  BY <1>1 DEF RunInv, RunTypeOK
<1>4. \A d \in Cancels : SameStop(d) /\ (Cancelling(d) => Cancelling(d)')
        /\ (cancels[d].at = "idling" => cancels'[d].at = "idling" \/ status' = "idle")
  BY <1>1, <1>2, <1>3 DEF SameStop, Cancelling
<1>5. RunTypeOK'
  BY <1>1, <1>2 DEF RunInv, RunTypeOK
<1>6. Forgets'
  <2>1. \A d \in Cancels : Cancelling(d) => cancels'[d] = cancels[d]
    BY <1>2, <1>3
  <2> QED BY <1>2, <1>4, <2>1 DEF RunInv, Forgets, Busy
<1>7. SaysIdle'
  BY <1>2, <1>4 DEF RunInv, SaysIdle, Busy
<1> QED BY <1>2, <1>4, <1>5, <1>6, <1>7, WorksRest

\* No runner has a run that a cancel stops.
LEMMA DismissedRun ==
    ASSUME RunInv, NEW c \in Cancels, Cancelling(c), cancels[c].run # 0
    PROVE  cancels[c].run \in WorkIds /\ NoEmployer(cancels[c].run)
<1> DEFINE w == cancels[c].run
<1>1. w \in WorkIds /\ works[w].kind = "run" /\ runners[works[w].runner].run # w
  BY RowsTyped DEF RunInv, Dismissed
<1>2. ASSUME NEW k \in RunnerIds, runners[k].run = w \/ runners[k].shell = w PROVE FALSE
  <2>1. Employs(k) /\ runners[k].tag \in Tags
    BY RowsTyped DEF RunInv
  <2> QED BY <1>1, <1>2, <2>1, NoIdIsZero DEF Employs, WorksFor, Tags
<1> QED BY <1>1, <1>2 DEF NoEmployer

-----------------------------------------------------------------------------
(* Ends of fibers.  The cancels that waited for one go on.                  *)

\* A cancel of "cs" goes on: its runner was idle and is forgotten, or has work again.
WentOn(c, cs) ==
    /\ cs[c].at = "stopping"
    /\ \/ cancels'[c].at = "idling" /\ entry' = 0
       \/ cancels'[c].at = "off" /\ runners'[cs[c].runner].tag # "Idle"

\* The row a work has once a cancel of its run has gone on.
Over(row, of) == row.kind = of.kind /\ row.runner = of.runner /\ row.at = "ended" /\ row.done # "open"

\* What goOn does to a work and to a cancel.
Dropping(x, ws, cs) ==
    \/ works'[x] = ws[x]
    \/ Over(works'[x], ws[x]) /\ \E c \in Cancels : WentOn(c, cs) /\ cs[c].run = x

Going(c, cs) ==
    \/ cancels'[c] = cs[c]
    \/ WentOn(c, cs) /\ \A x \in WorkIds : cs[c].run = x => works'[x].done # "open"

LEMMA GoesOn ==
    ASSUME NEW ws \in [WorkIds -> WorkRows], NEW cs \in [Cancels -> CancelRows], goOn(ws, cs)
    PROVE  /\ works' \in [WorkIds -> WorkRows] /\ cancels' \in [Cancels -> CancelRows] /\ entry' \in {0, entry}
           /\ \A x \in WorkIds : Dropping(x, ws, cs)
           /\ \A c \in Cancels : Going(c, cs)
<1> DEFINE over == {c \in Cancels : cs[c].at = "stopping" /\ ws[Fiber(cs[c])].at = "ended"}
           idle == {c \in over : becameIdle(cs[c].runner)}
           ends(x) == x \in Cancelled({cs[c] : c \in over})
           done(x) == IF ws[x].done = "open" THEN "cancelled" ELSE ws[x].done
           row(x) == [ws[x] EXCEPT !.at = "ended", !.done = done(x)]
           gone(c) == [NoCancel EXCEPT !.at = IF c \in idle THEN "idling" ELSE "off"]
<1>1. /\ works' = [x \in WorkIds |-> IF ends(x) THEN row(x) ELSE ws[x]]
      /\ entry' = IF idle # {} THEN 0 ELSE entry
      /\ cancels' = [c \in Cancels |-> IF c \notin over THEN cs[c] ELSE gone(c)]
  BY DEF goOn
<1>2. ASSUME NEW x \in WorkIds PROVE row(x) \in WorkRows /\ Over(row(x), ws[x])
  <2>1. ws[x] \in WorkRows
    OBVIOUS
  <2>2. done(x) \in {"none", "open", "exit", "cancelled"} /\ done(x) # "open"
    BY <2>1 DEF WorkRows
  <2> HIDE DEF done
  <2> QED BY <2>1, <2>2 DEF WorkRows, Ats, Over
<1>3. ASSUME NEW c \in Cancels PROVE gone(c) \in CancelRows /\ gone(c).at = IF c \in idle THEN "idling" ELSE "off"
  <2> HIDE DEF idle
  <2> QED BY DEF NoCancel, CancelRows
<1>4. \A x \in WorkIds : ends(x) <=> \E c \in over : cs[c].run = x
  BY DEF Cancelled
<1>5. \A c \in over : cs[c].at = "stopping" /\ (c \notin idle => runners'[cs[c].runner].tag # "Idle")
  BY DEF becameIdle
<1>6. idle \subseteq over /\ over \subseteq Cancels
  OBVIOUS
<1> HIDE DEF over, idle, ends, row, gone
<1>7. \A c \in over : WentOn(c, cs)
  BY <1>1, <1>3, <1>5, <1>6 DEF WentOn
<1>8. works' \in [WorkIds -> WorkRows] /\ cancels' \in [Cancels -> CancelRows] /\ entry' \in {0, entry}
  BY <1>1, <1>2, <1>3
<1>9. ASSUME NEW x \in WorkIds
      PROVE  Dropping(x, ws, cs)
  <2>1. CASE ends(x)
    <3>1. works'[x] = row(x) /\ Over(row(x), ws[x])
      BY <1>1, <1>2, <2>1
    <3> QED BY <1>4, <1>6, <1>7, <2>1, <3>1 DEF Dropping
  <2>2. CASE ~ends(x)
    BY <1>1, <2>2 DEF Dropping
  <2> QED BY <2>1, <2>2
<1>10. ASSUME NEW c \in over, NEW x \in WorkIds, cs[c].run = x PROVE works'[x].done # "open"
  <2>1. works'[x] = row(x) /\ Over(row(x), ws[x])
    BY <1>1, <1>2, <1>4, <1>10
  <2> QED BY <2>1 DEF Over
<1>11. \A c \in Cancels : Going(c, cs)
  BY <1>1, <1>7, <1>10 DEF Going
<1> QED BY <1>8, <1>9, <1>11

\* A cancel that waits for the latch may wait for the fiber next.
Waited(c, row) ==
    \/ row = cancels[c]
    \/ /\ cancels[c].at = "latch" /\ row.at = "stopping" /\ row.runner = cancels[c].runner
       /\ row.shell = cancels[c].shell /\ row.run = cancels[c].run

\* A work moves and cancels go on, and no runner changes.
LEMMA EndsGoOn ==
    ASSUME RunInv, NEW ws \in [WorkIds -> WorkRows], NEW cs \in [Cancels -> CancelRows], goOn(ws, cs),
           UNCHANGED <<runners, waits>>, status' \in {status, "idle"},
           \A c \in Cancels : Waited(c, cs[c]),
           \A x \in WorkIds : ws[x] = works[x] \/ Moves(x, ws[x]),
           \A x \in WorkIds : works[x].at = "idling" => ws[x].at = "idling" \/ status' = "idle"
    PROVE  RunInv'
<1>1. /\ works' \in [WorkIds -> WorkRows] /\ cancels' \in [Cancels -> CancelRows] /\ entry' \in {0, entry}
      /\ \A x \in WorkIds : Dropping(x, ws, cs)
      /\ \A c \in Cancels : Going(c, cs)
  BY GoesOn
<1>2. RunTypeOK'
  BY <1>1 DEF RunInv, RunTypeOK
\* A cancel that went on has forgotten the runner, or the runner has work.
<1>3. ASSUME NEW c \in Cancels, WentOn(c, cs)
      PROVE  /\ Cancelling(c) /\ ~Cancelling(c)' /\ cs[c].runner = cancels[c].runner /\ cs[c].run = cancels[c].run
             /\ (cancels'[c].at = "idling" /\ entry' = 0) \/ \E k \in RunnerIds : k = cancels[c].runner /\ Busy(k)'
  <2>1. Cancelling(c) /\ ~Cancelling(c)' /\ cs[c].runner = cancels[c].runner /\ cs[c].run = cancels[c].run
    BY <1>3 DEF WentOn, Waited, Cancelling
  <2>2. cancels[c].runner \in RunnerIds /\ runners[cancels[c].runner].tag \in Tags \ {"none"}
    <3>1. Dismissed(c)
      BY DEF RunInv
    <3> QED BY <2>1, <3>1, RowsTyped DEF Dismissed
  <2>3. runners' = runners
    OBVIOUS
  <2> QED BY <1>3, <2>1, <2>2, <2>3 DEF WentOn, Busy, Tags
<1>4. Forgets'
  <2>1. CASE entry' # 0
    <3>1. entry' = entry
      BY <1>1, <2>1
    <3>2. ASSUME NEW c \in Cancels, Cancelling(c), cancels[c].runner = entry
          PROVE  Busy(entry)' \/ (Cancelling(c)' /\ cancels'[c].runner = entry)
      <4>1. CASE cancels'[c] = cs[c]
        BY <3>2, <4>1 DEF Waited, Cancelling
      <4>2. CASE WentOn(c, cs)
        BY <1>3, <2>1, <3>1, <3>2, <4>2
      <4> QED BY <1>1, <4>1, <4>2 DEF Going
    <3> QED BY <3>1, <3>2 DEF RunInv, Forgets, Busy
  <2> QED BY <2>1 DEF Forgets
<1>5. SaysIdle'
  <2>1. CASE \E c \in Cancels : WentOn(c, cs)
    <3>1. (\E c \in Cancels : cancels'[c].at = "idling") \/ \E k \in RunnerIds : Busy(k)'
      BY <1>3, <2>1
    <3> QED BY <3>1 DEF SaysIdle
  <2>2. CASE ~\E c \in Cancels : WentOn(c, cs)
    <3>1. (\A x \in WorkIds : works'[x] = ws[x]) /\ \A c \in Cancels : cancels'[c] = cs[c]
      BY <1>1, <2>2 DEF Dropping, Going
    <3>2. \A c \in Cancels : /\ Cancelling(c) => Cancelling(c)'
                             /\ cancels[c].at = "idling" => cancels'[c].at = "idling"
      BY <3>1 DEF Waited, Cancelling
    <3> QED BY <3>1, <3>2 DEF RunInv, SaysIdle, Busy
  <2> QED BY <2>1, <2>2
<1>6. ASSUME NEW x \in WorkIds PROVE works'[x] = works[x] \/ Moves(x, works'[x])
  <2>1. CASE works'[x] = ws[x]
    BY <2>1
  <2>2. CASE works'[x] # ws[x]
    <3>1. Over(works'[x], ws[x]) /\ \E c \in Cancels : WentOn(c, cs) /\ cs[c].run = x
      BY <1>1, <2>2 DEF Dropping
    <3>2. NoEmployer(x)
      BY <1>3, <3>1, DismissedRun, NoIdIsZero
    <3>3. works'[x].kind = works[x].kind /\ works'[x].runner = works[x].runner
      BY <3>1 DEF Over, Moves
    <3> QED BY <3>1, <3>2, <3>3 DEF Over, Moves
  <2> QED BY <2>1, <2>2
<1>7. ASSUME NEW c \in Cancels
      PROVE  SameStop(c) /\ \A x \in WorkIds : Stops(c, x) => Stops(c, x)' \/ works'[x].done # "open"
  <2>1. CASE cancels'[c] = cs[c]
    BY <2>1 DEF SameStop, Stops, Cancelling, Waited
  <2>2. CASE cancels'[c] # cs[c]
    BY <1>1, <1>3, <2>2 DEF SameStop, Stops, Going
  <2> QED BY <2>1, <2>2
<1> QED BY <1>2, <1>4, <1>5, <1>6, <1>7, WorkMoves

\* The latch of a shell has opened: the shell is interrupted.
LEMMA ShellStopped ==
    ASSUME RunInv, NEW c \in Cancels, stopShell(c)
    PROVE  RunInv'
<1>1. PICK s \in WorkIds : s = cancels[c].shell /\ works[s].kind = "shell"
  <2>1. cancels[c].at = "latch" /\ Dismissed(c)
    BY DEF stopShell, RunInv
  <2> QED BY <2>1, RowsTyped DEF Dismissed, Cancelling
<1> DEFINE row == [works[s] EXCEPT !.at = Stopped(works[s].at)]
           cut == [cancels[c] EXCEPT !.at = "stopping"]
           ws == [works EXCEPT ![s] = row]
           cs == [cancels EXCEPT ![c] = cut]
<1>2. /\ cancels[c].at = "latch" /\ works[s].at # "new" /\ UNCHANGED <<runners, waits, status>>
      /\ goOn(ws, cs)
  BY <1>1, NoIdIsZero DEF stopShell, latched, interruptFiber, Fiber
<1>3. works[s] \in WorkRows /\ works[s].at \in Ats /\ cancels[c] \in CancelRows
  BY RowsTyped
<1>4. Stopped(works[s].at) = IF works[s].at = "working" THEN "cleanup" ELSE works[s].at
  BY <1>2 DEF Stopped
<1>5. /\ row \in WorkRows /\ row.kind = "shell" /\ row.runner = works[s].runner
      /\ row.at = works[s].at \/ (works[s].at \in Active /\ row.at \in Active)
      /\ works[s].at = "idling" => row.at = "idling"
  BY <1>1, <1>3, <1>4 DEF WorkRows, Ats, Live, Active
<1>6. cut \in CancelRows /\ Waited(c, cut)
  BY <1>2, <1>3 DEF CancelRows, Waited
<1> HIDE DEF row, cut
<1>7. ws \in [WorkIds -> WorkRows] /\ \A x \in WorkIds : ws[x] = IF x = s THEN row ELSE works[x]
  BY <1>5 DEF RunInv, RunTypeOK
<1>8. cs \in [Cancels -> CancelRows] /\ \A d \in Cancels : Waited(d, cs[d])
  BY <1>6 DEF RunInv, RunTypeOK, Waited
<1> HIDE DEF ws, cs
<1>9. \A x \in WorkIds : ws[x] = works[x] \/ Moves(x, ws[x])
  BY <1>1, <1>5, <1>7 DEF Moves
<1> QED BY <1>2, <1>5, <1>7, <1>8, <1>9, EndsGoOn

\* A fiber that no runner has any more completes its run, and ends.
LEMMA Completes ==
    ASSUME RunInv, NEW w \in WorkIds, NoEmployer(w), complete(w), UNCHANGED <<runners, waits>>,
           status' = "idle" \/ (status' = status /\ works[w].at # "idling")
    PROVE  RunInv'
<1> DEFINE done == IF works[w].done = "open" THEN "exit" ELSE works[w].done
           row == [works[w] EXCEPT !.at = "ended", !.done = done]
           ws == [works EXCEPT ![w] = row]
<1>1. goOn([works EXCEPT ![w].at = "ended", ![w].done = IF @ = "open" THEN "exit" ELSE @], cancels)
  BY DEF complete
<1>2. works[w] \in WorkRows /\ works \in [WorkIds -> WorkRows] /\ cancels \in [Cancels -> CancelRows]
  BY RowsTyped DEF RunInv, RunTypeOK
<1>3. [works EXCEPT ![w].at = "ended", ![w].done = IF @ = "open" THEN "exit" ELSE @] = ws
  BY <1>2 DEF WorkRows
<1>4. done \in {"none", "open", "exit", "cancelled"} /\ done # "open"
  BY <1>2 DEF WorkRows
<1> HIDE DEF done
<1>5. row \in WorkRows /\ Over(row, works[w])
  BY <1>2, <1>4 DEF WorkRows, Ats, Over
<1> HIDE DEF row
<1>6. ws \in [WorkIds -> WorkRows] /\ \A x \in WorkIds : ws[x] = IF x = w THEN row ELSE works[x]
  BY <1>2, <1>5
<1>7. goOn(ws, cancels)
  BY <1>1, <1>3
<1> HIDE DEF ws
<1>8. \A x \in WorkIds : ws[x] = works[x] \/ Moves(x, ws[x])
  BY <1>5, <1>6 DEF Moves, Over
<1>9. \A x \in WorkIds : works[x].at = "idling" => ws[x].at = "idling" \/ status' = "idle"
  BY <1>6
<1>10. \A c \in Cancels : Waited(c, cancels[c])
  BY DEF Waited
<1> QED BY <1>2, <1>6, <1>7, <1>8, <1>9, <1>10, EndsGoOn

\* onIdle publishes the status of a runner that was left idle.
LEMMA Publishes ==
    ASSUME RunInv, NEW w \in WorkIds, publishIdle(w)
    PROVE  RunInv'
<1>1. works[w].at = "idling" /\ status' = "idle" /\ UNCHANGED <<runners, waits>> /\ complete(w)
  BY DEF publishIdle
<1>2. NoEmployer(w)
  BY <1>1, Unemployed DEF Active
<1> QED BY <1>1, <1>2, Completes

-----------------------------------------------------------------------------
(* Steps of a runner: its works change with its state.                      *)

\* A run that a cancel was to end is over.
Dropped(x) == NoEmployer(x) /\ Over(works'[x], works[x])

\* A work the runner has made, or goes on with.
Kept(k, x) ==
    works'[x].runner = k /\ (works[x].kind = "none" \/ (works[x].runner = k /\ works'[x].kind = works[x].kind))

\* A cancel has ended what it stopped.
Lets(c) == \A x \in WorkIds : Stops(c, x) => works'[x].done # "open"

LEMMA RunnerMoves ==
    ASSUME RunInv, RunTypeOK', NEW k \in RunnerIds, NEW st \in RunnerRows,
           runners' = [runners EXCEPT ![k] = st], st.tag # "none",
           st.run = 0 \/ st.run = runners[k].run \/ works[st.run].kind = "none",
           \A x \in WorkIds : works'[x] = works[x] \/ Dropped(x) \/ Kept(k, x),
           Employs(k)', \A x \in WorkIds : works'[x].runner = k => Employed(x)',
           \A c \in Cancels : cancels'[c] = cancels[c] \/ (Dismissed(c)' /\ Lets(c)),
           \A p \in Prompts : waits'[p] = waits[p] \/ works'[waits'[p]].kind = "run",
           Forgets', SaysIdle'
    PROVE  RunInv'
<1>1. \A j \in RunnerIds : runners'[j] = IF j = k THEN st ELSE runners[j]
  BY DEF RunInv, RunTypeOK
<1>2. ASSUME NEW j \in RunnerIds PROVE Employs(j)'
  <2>1. ASSUME j # k, NEW x, NEW kind \in {"run", "shell"}, NEW at, WorksFor(j, x, kind, at),
               runners[j].run = x \/ runners[j].shell = x
        PROVE  WorksFor(j, x, kind, at)'
    BY <2>1 DEF WorksFor, Dropped, NoEmployer, Kept
  <2>2. CASE j # k
    <3>1. Employs(j) /\ runners'[j] = runners[j]
      BY <1>1, <2>2 DEF RunInv
    <3> QED BY <2>1, <2>2, <3>1 DEF Employs
  <2> QED BY <2>2
<1>3. ASSUME NEW x \in WorkIds PROVE Employed(x)'
  <2>1. CASE works'[x].runner = k
    BY <2>1
  <2>2. CASE works'[x].runner # k
    <3>1. Employed(x) /\ (works'[x] = works[x] \/ Dropped(x))
      BY <2>2 DEF RunInv, Kept
    <3>2. CASE Dropped(x)
      BY <3>1, <3>2 DEF Employed, Dropped, Over
    <3>3. CASE works'[x] = works[x]
      <4>1. works[x].kind # "none" => runners'[works[x].runner] = runners[works[x].runner]
        BY <1>1, <2>2, <3>1, <3>3 DEF Employed
      <4>2. \A c \in Cancels : Stops(c, x) => Stops(c, x)' \/ works'[x].done # "open"
        BY DEF Stops, Lets
      <4> QED BY <3>1, <3>3, <4>1, <4>2 DEF Employed
    <3> QED BY <3>1, <3>2, <3>3
  <2> QED BY <2>1, <2>2
<1>4. ASSUME NEW c \in Cancels PROVE Dismissed(c)'
  <2>1. CASE cancels'[c] = cancels[c] /\ Cancelling(c)
    <3> DEFINE w == cancels[c].run
               s == cancels[c].shell
    <3>1. /\ cancels[c].runner \in RunnerIds /\ runners[cancels[c].runner].tag # "none"
          /\ cancels[c].at = "latch" => s # 0
          /\ s # 0 => works[s].kind = "shell"
          /\ w # 0 => works[w].kind = "run" /\ runners[works[w].runner].run # w
      BY <2>1 DEF RunInv, Dismissed
    <3>2. s \in WorkIds \cup {0} /\ w \in WorkIds \cup {0}
      BY RowsTyped
    <3>3. s # 0 => works'[s].kind = "shell"
      BY <3>1, <3>2 DEF Dropped, Over, Kept
    <3>4. w # 0 => works'[w].kind = "run" /\ works'[w].runner = works[w].runner /\ works[w].runner \in RunnerIds
      BY <3>1, <3>2 DEF RunInv, Employed, Dropped, Over, Kept
    <3>5. w # 0 => runners'[works'[w].runner].run # w
      BY <1>1, <3>1, <3>4
    <3>6. runners'[cancels[c].runner].tag # "none"
      BY <1>1, <3>1
    <3> QED BY <2>1, <3>1, <3>3, <3>4, <3>5, <3>6 DEF Dismissed
  <2>2. CASE cancels'[c] = cancels[c] /\ ~Cancelling(c)
    BY <2>2 DEF Dismissed, Cancelling
  <2>3. CASE cancels'[c] # cancels[c]
    BY <2>3
  <2> QED BY <2>1, <2>2, <2>3
<1>5. ASSUME NEW p \in Prompts PROVE Awaited(p)'
  <2>1. waits[p] \in WorkIds \cup {0} /\ Awaited(p)
    BY DEF RunInv, RunTypeOK
  <2> QED BY <2>1 DEF Awaited, Dropped, Over, Kept
<1> QED BY <1>2, <1>3, <1>4, <1>5 DEF RunInv

\* The next work is one nobody has heard of.
LEMMA NextWorks ==
    ASSUME RunInv, NEW w \in NextWork
    PROVE  w \in WorkIds /\ w # 0 /\ works[w].kind = "none"
BY NoIdIsZero DEF NextWork, FirstOf

\* The rows of what is made.
LEMMA Made ==
    ASSUME NEW k \in RunnerIds, NEW w \in WorkIds, NEW s \in WorkIds
    PROVE  /\ Running(w) \in RunnerRows /\ Running(w).tag = "Running" /\ Running(w).run = w /\ Running(w).shell = 0
           /\ Shell(w) \in RunnerRows /\ Shell(w).tag = "Shell" /\ Shell(w).shell = w /\ Shell(w).run = 0
           /\ ShellThenRun(s, w) \in RunnerRows /\ ShellThenRun(s, w).tag = "ShellThenRun"
           /\ ShellThenRun(s, w).shell = s /\ ShellThenRun(s, w).run = w
           /\ Idle \in RunnerRows /\ Idle.tag = "Idle" /\ Idle.shell = 0 /\ Idle.run = 0
           /\ \A at \in {"queued", "new"} :
                 /\ Run(k, at) \in WorkRows /\ Run(k, at).kind = "run" /\ Run(k, at).runner = k
                 /\ Run(k, at).at = at /\ Run(k, at).done = "open"
           /\ ShellWork(k) \in WorkRows /\ ShellWork(k).kind = "shell" /\ ShellWork(k).runner = k
           /\ ShellWork(k).at = "new" /\ ShellWork(k).done = "none"
BY DEF Running, Shell, ShellThenRun, Idle, Run, ShellWork, RunnerRows, WorkRows, Tags, Ats, Live

\* How a runner takes a work: an idle one runs it, one with a shell queues it.
Takes(k, st, w, row) ==
    \/ /\ runners[k].tag \in {"none", "Idle"}
       /\ \/ st.tag = "Running" /\ st.shell = 0 /\ st.run = w /\ row.kind = "run"
          \/ st.tag = "Shell" /\ st.shell = w /\ st.run = 0 /\ row.kind = "shell"
       /\ row.at = "new"
    \/ /\ runners[k].tag = "Shell"
       /\ st.tag = "ShellThenRun" /\ st.shell = runners[k].shell /\ st.run = w
       /\ row.kind = "run" /\ row.at = "queued"

\* The prompt that made it, if any, awaits it.
Awaits(w, row) ==
    waits' = waits \/ \E p \in Prompts : waits' = [waits EXCEPT ![p] = w] /\ row.kind = "run"

LEMMA TakesWork ==
    ASSUME RunInv, NEW k \in RunnerIds, NEW w \in NextWork, NEW st \in RunnerRows, NEW row \in WorkRows,
           runners' = [runners EXCEPT ![k] = st], works' = [works EXCEPT ![w] = row],
           entry' = k, UNCHANGED cancels, status' \in {status, "busy"},
           row.runner = k, Takes(k, st, w, row), Awaits(w, row)
    PROVE  RunInv'
<1>1. w \in WorkIds /\ w # 0 /\ works[w].kind = "none"
  BY NextWorks
<1>2. \A x \in WorkIds : works'[x] = IF x = w THEN row ELSE works[x]
  BY DEF RunInv, RunTypeOK
<1>3. runners'[k] = st /\ Busy(k)'
  BY DEF RunInv, RunTypeOK, Busy, Takes
<1>4. Employs(k)'
  <2>1. CASE st.tag \in {"Running", "Shell"}
    BY <1>1, <1>2, <1>3, <2>1 DEF Employs, WorksFor, Active, Takes
  <2>2. CASE st.tag = "ShellThenRun"
    <3>1. runners[k].tag = "Shell" /\ st.shell = runners[k].shell /\ st.run = w
            /\ row.kind = "run" /\ row.at = "queued"
      BY <2>2 DEF Takes
    <3>2. WorksFor(k, st.shell, "shell", Active)
      BY <3>1 DEF RunInv, Employs
    <3>3. WorksFor(k, st.shell, "shell", Active)'
      BY <1>1, <1>2, <3>2 DEF WorksFor
    <3>4. WorksFor(k, st.run, "run", {"queued"})'
      BY <1>1, <1>2, <3>1 DEF WorksFor
    <3> QED BY <1>3, <2>2, <3>3, <3>4 DEF Employs
  <2> QED BY <2>1, <2>2 DEF Takes
<1>5. ASSUME NEW x \in WorkIds, works'[x].runner = k PROVE Employed(x)'
  <2>1. CASE x = w
    BY <1>2, <1>3, <2>1 DEF Employed, Live, Takes
  <2>2. CASE x # w
    <3>1. works'[x] = works[x] /\ Employed(x) /\ works[x].runner = k
      BY <1>2, <1>5, <2>2 DEF RunInv
    <3>2. \A c \in Cancels : Stops(c, x) => Stops(c, x)'
      BY DEF Stops
    <3>3. runners[k].tag \notin {"Running", "ShellThenRun"}
      BY DEF Takes
    <3> QED BY <3>1, <3>2, <3>3 DEF Employed
  <2> QED BY <2>1, <2>2
<1>6. RunTypeOK'
  <2>1. waits' \in [Prompts -> WorkIds \cup {0}]
    BY <1>1 DEF RunInv, RunTypeOK, Awaits
  <2> QED BY <2>1 DEF RunInv, RunTypeOK
<1>7. \A p \in Prompts : waits'[p] = waits[p] \/ works'[waits'[p]].kind = "run"
  BY <1>1, <1>2 DEF RunInv, RunTypeOK, Awaits
<1>8. Forgets' /\ SaysIdle'
  BY <1>3 DEF Forgets, SaysIdle, Busy
<1>9. \A x \in WorkIds : works'[x] = works[x] \/ Kept(k, x)
  BY <1>1, <1>2 DEF Kept
<1>10. st.tag # "none" /\ (st.run = 0 \/ works[st.run].kind = "none")
  BY <1>1 DEF Takes
<1> QED BY <1>4, <1>5, <1>6, <1>7, <1>8, <1>9, <1>10, RunnerMoves

LEMMA PromptsEnter ==
    ASSUME RunInv, NEW p \in Prompts, ensureRunning(p)
    PROVE  RunInv'
<1>1. PICK k \in RunnerIds :
         /\ entry' = k
         /\ runner(k)
         /\ \/ /\ State(k).tag \in {"Running", "ShellThenRun"}
               /\ waits' = [waits EXCEPT ![p] = State(k).run]
               /\ UNCHANGED <<runners, works>>
            \/ \E w \in NextWork :
                  /\ waits' = [waits EXCEPT ![p] = w]
                  /\ \/ /\ State(k).tag = "Shell"
                        /\ runners' = [runners EXCEPT ![k] = ShellThenRun(@.shell, w)]
                        /\ works' = [works EXCEPT ![w] = Run(k, "queued")]
                     \/ /\ State(k).tag = "Idle"
                        /\ runners' = [runners EXCEPT ![k] = Running(w)]
                        /\ works' = [works EXCEPT ![w] = Run(k, "new")]
  BY DEF ensureRunning
<1>2. UNCHANGED <<cancels, status>>
  BY DEF ensureRunning
<1>3. /\ State(k).tag = "Idle" => runners[k].tag \in {"none", "Idle"}
      /\ State(k).tag # "Idle" => State(k) = runners[k]
  BY DEF State, Idle
<1>4. CASE /\ State(k).tag \in {"Running", "ShellThenRun"}
           /\ waits' = [waits EXCEPT ![p] = State(k).run]
           /\ UNCHANGED <<runners, works>>
  <2>1. /\ runners[k].tag \in {"Running", "ShellThenRun"} /\ waits' = [waits EXCEPT ![p] = runners[k].run]
        /\ Employs(k)
    BY <1>3, <1>4 DEF RunInv
  <2>2. runners[k].run \in WorkIds /\ works[runners[k].run].kind = "run"
    BY <2>1 DEF Employs, WorksFor
  <2>3. RunTypeOK'
    BY <1>1, <1>2, <1>4, <2>1, <2>2 DEF RunInv, RunTypeOK
  <2>4. \A q \in Prompts : waits'[q] = waits[q] \/ works'[waits'[q]].kind = "run"
    BY <1>4, <2>1, <2>2 DEF RunInv, RunTypeOK
  <2>5. Forgets' /\ SaysIdle'
    BY <1>1, <1>2, <1>4, <2>1 DEF Forgets, SaysIdle, Busy
  <2>6. \A x \in Prompts : Awaited(x)'
    BY <1>4, <2>4 DEF RunInv, Awaited
  <2>7. (\A j \in RunnerIds : Employs(j)') /\ (\A w \in WorkIds : Employed(w)') /\ \A c \in Cancels : Dismissed(c)'
    BY <1>2, <1>4 DEF RunInv, Employs, WorksFor, Employed, Stops, Dismissed, Cancelling
  <2> QED BY <2>3, <2>5, <2>6, <2>7 DEF RunInv
<1>5. ASSUME NEW w \in NextWork, waits' = [waits EXCEPT ![p] = w], State(k).tag = "Shell",
             runners' = [runners EXCEPT ![k] = ShellThenRun(@.shell, w)],
             works' = [works EXCEPT ![w] = Run(k, "queued")]
      PROVE  RunInv'
  <2>1. runners[k].tag = "Shell" /\ runners[k].shell \in WorkIds
    BY <1>3, <1>5 DEF RunInv, Employs, WorksFor
  <2> DEFINE st == ShellThenRun(runners[k].shell, w)
             row == Run(k, "queued")
  <2>2. w \in WorkIds
    BY NextWorks
  <2>3. st \in RunnerRows /\ st.tag = "ShellThenRun" /\ st.shell = runners[k].shell /\ st.run = w
    BY <2>1, <2>2, Made
  <2>4. row \in WorkRows /\ row.kind = "run" /\ row.runner = k /\ row.at = "queued"
    BY <2>2, Made
  <2>5. runners' = [runners EXCEPT ![k] = st] /\ works' = [works EXCEPT ![w] = row]
    BY <1>5
  <2> HIDE DEF st, row
  <2>6. Takes(k, st, w, row) /\ Awaits(w, row)
    BY <1>5, <2>1, <2>3, <2>4 DEF Takes, Awaits
  <2> QED BY <1>1, <1>2, <2>3, <2>4, <2>5, <2>6, TakesWork
<1>6. ASSUME NEW w \in NextWork, waits' = [waits EXCEPT ![p] = w], State(k).tag = "Idle",
             runners' = [runners EXCEPT ![k] = Running(w)],
             works' = [works EXCEPT ![w] = Run(k, "new")]
      PROVE  RunInv'
  <2>1. w \in WorkIds
    BY NextWorks
  <2> DEFINE st == Running(w)
             row == Run(k, "new")
  <2>2. st \in RunnerRows /\ st.tag = "Running" /\ st.shell = 0 /\ st.run = w
    BY <2>1, Made
  <2>3. row \in WorkRows /\ row.kind = "run" /\ row.runner = k /\ row.at = "new"
    BY <2>1, Made
  <2>4. runners' = [runners EXCEPT ![k] = st] /\ works' = [works EXCEPT ![w] = row]
    BY <1>6
  <2> HIDE DEF st, row
  <2>5. Takes(k, st, w, row) /\ Awaits(w, row)
    BY <1>3, <1>6, <2>2, <2>3 DEF Takes, Awaits
  <2> QED BY <1>1, <1>2, <2>2, <2>3, <2>4, <2>5, TakesWork
<1> QED BY <1>1, <1>4, <1>5, <1>6

LEMMA ShellsStart ==
    ASSUME RunInv, startShell
    PROVE  RunInv'
<1>1. PICK k \in RunnerIds, s \in NextWork :
         /\ State(k).tag = "Idle" /\ entry' = k
         /\ runners' = [runners EXCEPT ![k] = Shell(s)]
         /\ works' = [works EXCEPT ![s] = ShellWork(k)]
  BY DEF startShell
<1>2. status' = "busy" /\ UNCHANGED <<waits, cancels>>
  BY DEF startShell
<1>3. runners[k].tag \in {"none", "Idle"}
  BY <1>1 DEF State, Idle
<1>4. s \in WorkIds
  BY NextWorks
<1> DEFINE st == Shell(s)
           row == ShellWork(k)
<1>5. st \in RunnerRows /\ st.tag = "Shell" /\ st.shell = s /\ st.run = 0
  BY <1>4, Made
<1>6. row \in WorkRows /\ row.kind = "shell" /\ row.runner = k /\ row.at = "new"
  BY <1>4, Made
<1>7. runners' = [runners EXCEPT ![k] = st] /\ works' = [works EXCEPT ![s] = row]
  BY <1>1
<1> HIDE DEF st, row
<1>8. Takes(k, st, s, row) /\ Awaits(s, row)
  BY <1>2, <1>3, <1>5, <1>6 DEF Takes, Awaits
<1> QED BY <1>1, <1>2, <1>5, <1>6, <1>7, <1>8, TakesWork

\* A work whose runner has let go of it has no other.
LEMMA NobodysWork ==
    ASSUME RunInv, NEW w \in WorkIds, works[w].at \in Active,
           works[w].kind = "run" => runners[works[w].runner] # Running(w),
           works[w].kind = "shell" => runners[works[w].runner].shell # w
    PROVE  NoEmployer(w)
<1>1. ASSUME NEW j \in RunnerIds, runners[j].run = w \/ runners[j].shell = w PROVE FALSE
  <2>1. Employs(j) /\ runners[j] \in RunnerRows /\ runners[j].tag \in Tags
    BY RowsTyped DEF RunInv
  <2>2. CASE runners[j].shell = w
    BY <2>1, <2>2, NoIdIsZero DEF Employs, WorksFor, Tags
  <2>3. CASE runners[j].run = w /\ runners[j].tag = "Running"
    <3>1. runners[j].shell = 0 /\ works[w].kind = "run" /\ works[w].runner = j
      BY <2>1, <2>3 DEF Employs, WorksFor
    <3>2. runners[j] = Running(w)
      BY <2>1, <2>3, <3>1 DEF RunnerRows, Running
    <3> QED BY <3>1, <3>2
  <2>4. CASE runners[j].run = w /\ runners[j].tag # "Running"
    BY <2>1, <2>4, NoIdIsZero DEF Employs, WorksFor, Tags, Active
  <2> QED BY <1>1, <2>2, <2>3, <2>4
<1> QED BY <1>1 DEF NoEmployer

\* onIdle leaves a runner idle and forgets the Session's.
LEMMA LeftIdle ==
    ASSUME RunInv, NEW w \in WorkIds, NEW k \in RunnerIds, works[w].runner = k, works[w].kind # "none",
           runners[k].run = w \/ (runners[k].shell = w /\ runners[k].run = 0),
           onIdle(w), UNCHANGED <<waits, status>>
    PROVE  RunInv'
<1> DEFINE row == [works[w] EXCEPT !.at = "idling"]
<1>1. /\ runners' = [runners EXCEPT ![k] = Idle] /\ entry' = 0 /\ UNCHANGED cancels
      /\ works' = [works EXCEPT ![w] = row]
  BY DEF onIdle
<1>2. works[w] \in WorkRows
  BY RowsTyped
<1>3. row \in WorkRows /\ row.kind = works[w].kind /\ row.runner = k /\ row.at = "idling"
  BY <1>2 DEF WorkRows, Ats, Live
<1> HIDE DEF row
<1>4. \A x \in WorkIds : works'[x] = IF x = w THEN row ELSE works[x]
  BY <1>1 DEF RunInv, RunTypeOK
<1>5. Idle \in RunnerRows /\ Idle.tag = "Idle" /\ Idle.shell = 0 /\ Idle.run = 0
  BY Made
<1>6. runners'[k] = Idle /\ Employs(k)'
  BY <1>1, <1>5 DEF RunInv, RunTypeOK, Employs
<1>7. ASSUME NEW x \in WorkIds, works'[x].runner = k PROVE Employed(x)'
  <2>1. CASE x = w
    BY <1>3, <1>4, <2>1 DEF Employed, Live
  <2>2. CASE x # w
    <3>1. works'[x] = works[x] /\ Employed(x) /\ works[x].runner = k
      BY <1>4, <1>7, <2>2 DEF RunInv
    <3>2. \A c \in Cancels : Stops(c, x) => Stops(c, x)'
      BY <1>1 DEF Stops
    <3>3. runners[k].run # x
      BY <2>2, NoIdIsZero
    <3> QED BY <3>1, <3>2, <3>3 DEF Employed
  <2> QED BY <2>1, <2>2
<1>8. RunTypeOK'
  BY <1>1, <1>3, <1>5 DEF RunInv, RunTypeOK
<1>9. Forgets' /\ SaysIdle'
  BY <1>1, <1>3, <1>4 DEF Forgets, SaysIdle
<1>10. \A x \in WorkIds : works'[x] = works[x] \/ Kept(k, x)
  BY <1>3, <1>4 DEF Kept
<1> QED BY <1>1, <1>5, <1>6, <1>7, <1>8, <1>9, <1>10, RunnerMoves

LEMMA RunEnds ==
    ASSUME RunInv, NEW w \in WorkIds, finishRun(w)
    PROVE  RunInv'
<1>1. works[w].kind = "run" /\ works[w].at \in Active /\ works[w].at # "idling" /\ UNCHANGED <<waits, status>>
  BY DEF finishRun, Finishes, Active
<1>2. PICK k \in RunnerIds : k = works[w].runner
  BY <1>1 DEF RunInv, Employed
<1>3. CASE runners[k] = Running(w) /\ onIdle(w)
  <2>1. runners[k].run = w
    BY <1>3 DEF Running
  <2> QED BY <1>1, <1>2, <1>3, <2>1, LeftIdle
<1>4. CASE runners[k] # Running(w) /\ UNCHANGED runners /\ complete(w)
  <2>1. NoEmployer(w)
    BY <1>1, <1>2, <1>4, NobodysWork
  <2> QED BY <1>1, <1>4, <2>1, Completes
<1> QED BY <1>2, <1>3, <1>4 DEF finishRun

LEMMA ShellEnds ==
    ASSUME RunInv, NEW s \in WorkIds, finishShell(s)
    PROVE  RunInv'
<1>0. /\ works[s].kind = "shell" /\ works[s].at \in Active /\ works[s].at # "idling"
      /\ UNCHANGED <<waits, status>>
  BY DEF finishShell, Finishes, Active
<1>1. PICK k \in RunnerIds : k = works[s].runner
  BY <1>0 DEF RunInv, Employed
<1>2. Employs(k) /\ runners[k] \in RunnerRows /\ runners[k].tag \in Tags
  BY RowsTyped DEF RunInv
<1> DEFINE mine == runners[k].shell = s
<1>3. CASE ~mine
  <2>1. UNCHANGED runners /\ complete(s)
    BY <1>1, <1>3 DEF finishShell
  <2>2. NoEmployer(s)
    BY <1>0, <1>1, <1>3, NobodysWork
  <2> QED BY <1>0, <2>1, <2>2, Completes
<1>4. CASE mine
  <2>0. PICK n \in WorkIds \cup {0} : n = runners[k].run
    BY RowsTyped
  <2>1. n # 0 => runners[k].tag = "ShellThenRun" /\ WorksFor(k, n, "run", {"queued"})
    BY <1>2, <1>4, <2>0, NoIdIsZero DEF Employs, WorksFor, Tags
  <2>2. CASE n = 0
    <3>1. onIdle(s)
      BY <1>1, <1>4, <2>0, <2>2 DEF finishShell
    <3> QED BY <1>0, <1>1, <1>4, <2>0, <2>2, <3>1, LeftIdle
  <2>3. CASE n # 0
    <3>1. /\ runners' = [runners EXCEPT ![k] = Running(n)] /\ entry' = entry
          /\ works' = [works EXCEPT ![s].at = "ended", ![n].at = "new"] /\ UNCHANGED cancels
      BY <1>1, <1>4, <2>0, <2>3 DEF finishShell
    <3>2. n \in WorkIds /\ n # s /\ works[n].kind = "run" /\ works[n].runner = k
      BY <1>0, <2>1, <2>3 DEF WorksFor
    <3> DEFINE ended == [works[s] EXCEPT !.at = "ended"]
               begun == [works[n] EXCEPT !.at = "new"]
    <3>3. works[s] \in WorkRows /\ works[n] \in WorkRows
      BY <3>2, RowsTyped
    <3>4. /\ ended \in WorkRows /\ ended.kind = "shell" /\ ended.runner = k /\ ended.at = "ended"
          /\ begun \in WorkRows /\ begun.kind = "run" /\ begun.runner = k /\ begun.at = "new"
      BY <1>0, <1>1, <3>2, <3>3 DEF WorkRows, Ats, Live
    <3>5. works' = [works EXCEPT ![s] = ended, ![n] = begun]
      BY <3>1, <3>2 DEF RunInv, RunTypeOK
    <3> HIDE DEF ended, begun
    <3>6. \A x \in WorkIds : works'[x] = IF x = n THEN begun ELSE IF x = s THEN ended ELSE works[x]
      BY <3>5 DEF RunInv, RunTypeOK
    <3>7. Running(n) \in RunnerRows /\ Running(n).tag = "Running" /\ Running(n).run = n /\ Running(n).shell = 0
      BY <3>2, Made
    <3>8. runners'[k] = Running(n)
      BY <3>1 DEF RunInv, RunTypeOK
    <3>9. Employs(k)' /\ Busy(k)'
      BY <3>2, <3>4, <3>6, <3>7, <3>8 DEF Employs, WorksFor, Active, Busy
    <3>10. ASSUME NEW x \in WorkIds, works'[x].runner = k PROVE Employed(x)'
      <4>1. CASE x = n \/ x = s
        BY <3>2, <3>4, <3>6, <3>7, <3>8, <4>1 DEF Employed, Live
      <4>2. CASE x # n /\ x # s
        <5>1. works'[x] = works[x] /\ Employed(x) /\ works[x].runner = k
          BY <3>6, <3>10, <4>2 DEF RunInv
        <5>2. \A c \in Cancels : Stops(c, x) => Stops(c, x)'
          BY <3>1 DEF Stops
        <5> QED BY <2>0, <2>1, <2>3, <4>2, <5>1, <5>2 DEF Employed
      <4> QED BY <4>1, <4>2
    <3>11. RunTypeOK'
      BY <1>0, <3>1, <3>2, <3>4, <3>5, <3>7 DEF RunInv, RunTypeOK
    <3>12. SaysIdle'
      BY <3>9 DEF SaysIdle
    <3>13. Forgets'
      <4>1. \A j \in RunnerIds : j # k => runners'[j] = runners[j]
        BY <3>1 DEF RunInv, RunTypeOK
      <4>2. entry \in RunnerIds \cup {0}
        BY DEF RunInv, RunTypeOK
      <4> QED BY <1>0, <3>1, <3>7, <3>8, <3>9, <4>1, <4>2 DEF RunInv, Forgets, Busy, Cancelling
    <3>14. \A x \in WorkIds : works'[x] = works[x] \/ Kept(k, x)
      BY <1>0, <1>1, <3>2, <3>4, <3>6 DEF Kept
    <3>15. Running(n).tag # "none" /\ Running(n).run = runners[k].run
      BY <2>0, <3>7
    <3> QED BY <1>0, <3>1, <3>7, <3>9, <3>10, <3>11, <3>12, <3>13, <3>14, <3>15, RunnerMoves
  <2> QED BY <2>2, <2>3
<1> QED BY <1>3, <1>4

\* A cancel that stopped "cut" is through with it.
Quits(c, cut) ==
    cancels'[c].at = "idling" /\ entry' = 0 /\ \A x \in WorkIds : cut.run = x => works'[x].done # "open"

\* Of the works of the runner, a cancel touches the shell and the run it stops.
Cut(k, x, cut) ==
    /\ works[x].runner = k /\ works'[x].runner = k /\ works'[x].kind = works[x].kind
    /\ works[x].kind = "run" => x = cut.run

\* A cancel leaves a busy runner idle, and stops its works.
LEMMA RunnerDismissed ==
    ASSUME RunInv, RunTypeOK', NEW c \in Cancels, NEW k \in RunnerIds, entry = k, Busy(k),
           cancels[c].at = "jobs", runners' = [runners EXCEPT ![k] = Idle], UNCHANGED <<waits, status>>,
           entry' \in {0, k}, NEW cut \in CancelRows, cut.at \in {"latch", "stopping"}, cut.runner = k,
           cut.shell = runners[k].shell, cut.run = runners[k].run, cut.at = "latch" => cut.shell # 0,
           cancels'[c] = cut \/ Quits(c, cut),
           \A d \in Cancels : d # c => cancels'[d] = cancels[d] \/ (~Cancelling(d)' /\ Lets(d)),
           \A x \in WorkIds : works'[x] = works[x] \/ Dropped(x) \/ Cut(k, x, cut),
           \A x \in WorkIds : cut.run = x => works'[x].at \notin {"new", "working"}
    PROVE  RunInv'
<1>1. Idle \in RunnerRows /\ Idle.tag = "Idle" /\ Idle.shell = 0 /\ Idle.run = 0
  BY DEF Idle, RunnerRows, Tags
<1>2. runners'[k] = Idle /\ Employs(k)'
  BY <1>1 DEF RunInv, RunTypeOK, Employs
<1>3. ~Cancelling(c) /\ Employs(k)
  BY DEF Cancelling, RunInv
<1>4. ASSUME NEW x \in WorkIds, works'[x].runner = k PROVE Employed(x)'
  <2>1. Employed(x) /\ works[x].runner = k /\ works'[x].kind = works[x].kind
    BY <1>4 DEF RunInv, Dropped, Over, Cut
  <2>2. CASE Dropped(x)
    BY <1>4, <2>2 DEF Employed, Dropped, Over
  <2>3. CASE x = cut.run
    <3>1. works'[x].done = "open" => Stops(c, x)'
      BY <2>3 DEF Stops, Quits
    <3> QED BY <1>4, <2>3, <3>1 DEF Employed
  <2>4. CASE ~Dropped(x) /\ x # cut.run
    <3>1. works'[x].kind = "run" => works'[x] = works[x]
      BY <2>1, <2>4 DEF Cut
    <3>2. \A d \in Cancels : Stops(d, x) => Stops(d, x)' \/ works'[x].done # "open"
      BY <1>3 DEF Stops, Cancelling, Lets
    <3> QED BY <1>4, <2>1, <2>4, <3>1, <3>2 DEF Employed
  <2> QED BY <2>2, <2>3, <2>4
<1>5. Dismissed(c)'
  <2>1. CASE cancels'[c] = cut
    <3>1. cut.shell \in WorkIds \cup {0} /\ cut.run \in WorkIds \cup {0}
      BY DEF CancelRows
    <3>2. cut.shell # 0 => works'[cut.shell].kind = "shell"
      BY <1>3, <3>1 DEF Employs, WorksFor, Busy, Dropped, Over, Cut
    <3>3. cut.run # 0 => works'[cut.run].kind = "run" /\ works'[cut.run].runner = k
      BY <1>3, <3>1 DEF Employs, WorksFor, Busy, Dropped, Over, Cut
    <3> QED BY <1>1, <1>2, <2>1, <3>2, <3>3, NoIdIsZero DEF Dismissed
  <2>2. CASE cancels'[c] # cut
    BY <2>2 DEF Dismissed, Quits, Cancelling
  <2> QED BY <2>1, <2>2
<1>6. \A d \in Cancels : cancels'[d] = cancels[d] \/ (Dismissed(d)' /\ Lets(d))
  <2>1. Lets(c)
    BY <1>3 DEF Lets, Stops, Cancelling
  <2>2. ASSUME NEW d \in Cancels, d # c PROVE cancels'[d] = cancels[d] \/ (Dismissed(d)' /\ Lets(d))
    BY <2>2 DEF Dismissed
  <2> QED BY <1>5, <2>1, <2>2
<1>7. Forgets' /\ SaysIdle'
  BY <1>1, <1>2 DEF Forgets, SaysIdle, Cancelling, Quits
<1>8. \A x \in WorkIds : works'[x] = works[x] \/ Dropped(x) \/ Kept(k, x)
  BY DEF Cut, Kept
<1> QED BY <1>1, <1>2, <1>4, <1>6, <1>7, <1>8, RunnerMoves

LEMMA CancelBegins ==
    ASSUME RunInv, NEW c \in Cancels, cancel(c)
    PROVE  RunInv'
<1>1. cancels[c].at = "jobs" /\ UNCHANGED <<waits, status>> /\ cancels[c] \in CancelRows
  BY RowsTyped DEF cancel
<1>2. NoCancel \in CancelRows /\ NoCancel.at = "off"
  BY DEF NoCancel, CancelRows
<1>3. ASSUME NEW row \in CancelRows, cancels' = [cancels EXCEPT ![c] = row], row.at \in {"off", "idling"},
             UNCHANGED <<entry, runners, works>>
      PROVE  RunInv'
  <2>1. \A d \in Cancels : cancels'[d] = IF d = c THEN row ELSE cancels[d]
    BY <1>3 DEF RunInv, RunTypeOK
  <2>2. \A d \in Cancels : SameStop(d) /\ (Cancelling(d) => Cancelling(d)' /\ cancels'[d] = cancels[d])
          /\ (cancels[d].at = "idling" => cancels'[d].at = "idling")
    BY <1>1, <1>3, <2>1 DEF SameStop, Cancelling
  <2>3. RunTypeOK' /\ Forgets' /\ SaysIdle'
    BY <1>1, <1>3, <2>2 DEF RunInv, RunTypeOK, Forgets, SaysIdle, Busy
  <2> QED BY <1>1, <1>3, <2>2, <2>3, WorksRest
<1>4. CASE entry = 0
  <2> DEFINE row == [cancels[c] EXCEPT !.at = "idling"]
  <2>1. row \in CancelRows /\ row.at = "idling"
    BY <1>1 DEF CancelRows
  <2>2. cancels' = [cancels EXCEPT ![c] = row] /\ UNCHANGED <<entry, runners, works>>
    BY <1>4 DEF cancel
  <2> HIDE DEF row
  <2> QED BY <1>3, <2>1, <2>2
<1>5. CASE entry # 0
  <2>1. PICK k \in RunnerIds : k = entry
    BY <1>5 DEF RunInv, RunTypeOK
  <2>2. PICK st \in RunnerRows : st = runners[k]
    BY RowsTyped
  <2> DEFINE waiting == st.shell # 0 /\ ~latched(st.shell)
             stop == [at |-> "latch", runner |-> k, shell |-> st.shell, run |-> st.run]
  <2>3. /\ runners' = [runners EXCEPT ![k] = Idle]
        /\ \/ /\ st.tag = "Idle" \/ waiting
              /\ cancels' = [cancels EXCEPT ![c] = IF waiting THEN stop ELSE NoCancel]
              /\ UNCHANGED <<entry, works>>
           \/ st.tag # "Idle" /\ ~waiting /\ interruptFiber(c, stop)
    BY <1>5, <2>1, <2>2 DEF cancel
  <2>4. Employs(k) /\ st.tag \in Tags \ {"none"}
    BY <1>5, <2>1, <2>2, RowsTyped DEF RunInv, Forgets
  <2>5. st.shell \in WorkIds \cup {0} /\ st.run \in WorkIds \cup {0}
    BY DEF RunnerRows
  <2>6. CASE st.tag = "Idle"
    <3>1. st = Idle /\ ~waiting
      BY <2>2, <2>4, <2>6 DEF Employs, Idle, RunnerRows
    <3>2. UNCHANGED <<entry, runners, works>> /\ cancels' = [cancels EXCEPT ![c] = NoCancel]
      BY <2>2, <2>3, <2>6, <3>1 DEF RunInv, RunTypeOK
    <3> QED BY <1>2, <1>3, <3>2
  <2>7. CASE st.tag # "Idle"
    <3>1. Busy(k) /\ st.tag \in {"Running", "Shell", "ShellThenRun"}
      BY <2>2, <2>4, <2>7 DEF Busy, Tags
    <3>2. stop \in CancelRows
      BY <2>5 DEF CancelRows
    \* The run behind a shell is queued.
    <3>3. /\ st.shell # 0 => WorksFor(k, st.shell, "shell", Active)
          /\ st.run # 0 => WorksFor(k, st.run, "run", Active \cup {"queued"})
          /\ st.shell # 0 /\ st.run # 0 => works[st.run].at = "queued"
          /\ st.shell = 0 => st.run # 0 /\ works[st.run].at \in Active
      BY <2>2, <2>4, <3>1, NoIdIsZero DEF Employs, WorksFor
    <3>4. CASE waiting
      <4>1. cancels' = [cancels EXCEPT ![c] = stop] /\ UNCHANGED <<entry, works>>
        BY <2>3, <3>4
      <4>2. stop.at = "latch" /\ stop.runner = k /\ stop.shell = st.shell /\ stop.run = st.run /\ st.shell # 0
        BY <3>4
      <4> HIDE DEF stop, waiting
      <4>3. \A d \in Cancels : cancels'[d] = IF d = c THEN stop ELSE cancels[d]
        BY <4>1 DEF RunInv, RunTypeOK
      <4>4. RunTypeOK'
        <5>1. runners' \in [RunnerIds -> RunnerRows]
          BY <2>3, Made DEF RunInv, RunTypeOK, Idle, RunnerRows, Tags
        <5> QED BY <1>1, <3>2, <4>1, <5>1 DEF RunInv, RunTypeOK
      <4>5. \A x \in WorkIds : stop.run = x => works'[x].at \notin {"new", "working"}
        BY <3>3, <4>1, <4>2, NoIdIsZero
      <4>6. \A d \in Cancels : d # c => cancels'[d] = cancels[d]
        BY <4>3
      <4>7. cancels'[c] = stop /\ entry' = k /\ \A x \in WorkIds : works'[x] = works[x]
        BY <2>1, <4>1, <4>3
      <4> QED BY <1>1, <2>1, <2>2, <2>3, <3>1, <3>2, <4>1, <4>2, <4>4, <4>5, <4>6, <4>7, RunnerDismissed
    <3>5. CASE ~waiting
      <4>1. PICK f \in WorkIds : f = Fiber(stop) /\ WorksFor(k, f, works[f].kind, Active)
              /\ f = IF st.shell # 0 THEN st.shell ELSE st.run
        BY <2>5, <3>3 DEF Fiber, WorksFor
      <4> DEFINE row == [works[f] EXCEPT !.at = Stopped(works[f].at)]
                 cut == [stop EXCEPT !.at = "stopping"]
                 ws == [works EXCEPT ![f] = row]
                 cs == [cancels EXCEPT ![c] = cut]
      <4>2. goOn(ws, cs)
        BY <2>3, <2>7, <3>5, <4>1 DEF interruptFiber
      <4>3. works[f] \in WorkRows /\ works[f].at \in Active /\ works[f].runner = k
        BY <4>1, RowsTyped DEF WorksFor
      <4>4. Stopped(works[f].at) \in {"ended", "cleanup"}
        BY <4>3 DEF Stopped, Active
      <4>5. row \in WorkRows /\ row.kind = works[f].kind /\ row.runner = k /\ row.at \in {"ended", "cleanup"}
        BY <4>3, <4>4 DEF WorkRows, Ats, Live
      <4>6. cut \in CancelRows /\ cut.at = "stopping" /\ cut.runner = k /\ cut.shell = st.shell /\ cut.run = st.run
        BY <3>2 DEF CancelRows
      <4> HIDE DEF row, cut
      <4>7. ws \in [WorkIds -> WorkRows] /\ \A x \in WorkIds : ws[x] = IF x = f THEN row ELSE works[x]
        BY <4>5 DEF RunInv, RunTypeOK
      <4>8. cs \in [Cancels -> CancelRows] /\ \A d \in Cancels : cs[d] = IF d = c THEN cut ELSE cancels[d]
        BY <4>6 DEF RunInv, RunTypeOK
      <4> HIDE DEF ws, cs, stop, waiting
      <4>9. /\ works' \in [WorkIds -> WorkRows] /\ cancels' \in [Cancels -> CancelRows] /\ entry' \in {0, entry}
            /\ \A x \in WorkIds : Dropping(x, ws, cs)
            /\ \A d \in Cancels : Going(d, cs)
        BY <4>2, <4>7, <4>8, GoesOn
      <4>10. runners' \in [RunnerIds -> RunnerRows] /\ runners'[k].tag = "Idle"
        BY <2>3 DEF RunInv, RunTypeOK, Idle, RunnerRows, Tags
      <4>11. RunTypeOK'
        BY <1>1, <4>9, <4>10 DEF RunInv, RunTypeOK
      <4>12. ASSUME NEW d \in Cancels, cancels'[d] # cs[d]
             PROVE  /\ ~Cancelling(d)' /\ \A x \in WorkIds : cs[d].run = x => works'[x].done # "open"
                    /\ d = c => cancels'[c].at = "idling" /\ entry' = 0
        <5>1. WentOn(d, cs) /\ \A x \in WorkIds : cs[d].run = x => works'[x].done # "open"
          BY <4>9, <4>12 DEF Going
        <5> QED BY <4>6, <4>8, <4>10, <5>1 DEF WentOn, Cancelling
      <4>13. cancels'[c] = cut \/ Quits(c, cut)
        BY <4>8, <4>12 DEF Quits
      <4>14. ASSUME NEW d \in Cancels, d # c PROVE cancels'[d] = cancels[d] \/ (~Cancelling(d)' /\ Lets(d))
        BY <4>8, <4>12, <4>14 DEF Lets, Stops
      <4>15. \A x \in WorkIds : ws[x].kind = works[x].kind /\ ws[x].runner = works[x].runner
        BY <4>3, <4>5, <4>7
      <4>16. ASSUME NEW x \in WorkIds
             PROVE  works'[x] = works[x] \/ Dropped(x) \/ Cut(k, x, cut)
        <5>1. CASE works'[x] = ws[x]
          <6>1. works[f].kind = "run" => f = cut.run
            BY <3>3, <4>1, <4>6 DEF WorksFor
          <6> QED BY <4>3, <4>7, <4>15, <5>1, <6>1 DEF Cut
        <5>2. CASE works'[x] # ws[x]
          <6>1. PICK d \in Cancels : WentOn(d, cs) /\ cs[d].run = x
            BY <4>9, <5>2 DEF Dropping
          <6>2. Over(works'[x], ws[x])
            BY <4>9, <5>2 DEF Dropping
          <6>3. CASE d = c
            <7>1. x = cut.run /\ x # 0 /\ works[x].runner = k
              BY <3>3, <4>6, <4>8, <6>1, <6>3, NoIdIsZero DEF WorksFor
            <7> QED BY <4>15, <6>2, <7>1 DEF Over, Cut
          <6>4. CASE d # c
            <7>1. Cancelling(d) /\ cancels[d].run = x /\ x # 0
              BY <4>8, <6>1, <6>4, NoIdIsZero DEF WentOn, Cancelling
            <7>2. NoEmployer(x)
              BY <7>1, DismissedRun
            <7>3. Over(works'[x], works[x])
              BY <4>15, <6>2 DEF Over
            <7> QED BY <7>2, <7>3 DEF Dropped
          <6> QED BY <6>3, <6>4
        <5> QED BY <5>1, <5>2
      <4>17. \A x \in WorkIds : cut.run = x => works'[x].at \notin {"new", "working"}
        <5> SUFFICES ASSUME NEW x \in WorkIds, cut.run = x PROVE works'[x].at \notin {"new", "working"}
          OBVIOUS
        <5>1. ws[x].at \notin {"new", "working"}
          BY <3>3, <4>1, <4>5, <4>6, <4>7, NoIdIsZero
        <5> QED BY <4>9, <5>1 DEF Over, Dropping
      <4>18. entry' \in {0, k} /\ (cut.at = "latch" => cut.shell # 0) /\ cut.at \in {"latch", "stopping"}
        BY <2>1, <4>6, <4>9
      <4> QED BY <1>1, <2>1, <2>2, <2>3, <3>1, <4>6, <4>11, <4>13, <4>14, <4>16, <4>17, <4>18, RunnerDismissed
    <3> QED BY <3>4, <3>5
  <2> QED BY <2>6, <2>7
<1> QED BY <1>4, <1>5

-----------------------------------------------------------------------------
LEMMA RunStep == RunInv /\ [RunNext]_runVars => RunInv'
<1> SUFFICES ASSUME RunInv, [RunNext]_runVars PROVE RunInv'
  OBVIOUS
<1>1. CASE UNCHANGED runVars
  <2>1. RunTypeOK' /\ Forgets' /\ SaysIdle'
    BY <1>1 DEF runVars, RunInv, RunTypeOK, Forgets, SaysIdle, Busy, Cancelling
  <2> QED BY <1>1, <2>1, WorksRest DEF runVars, SameStop, Cancelling
<1>2. ASSUME NEW p \in Prompts, ensureRunning(p) \/ awaitDone(p) PROVE RunInv'
  BY <1>2, PromptsEnter, PromptAnswered
<1>3. CASE startShell
  BY <1>3, ShellsStart
<1>4. ASSUME NEW w \in WorkIds, workStep(w) \/ finish(w) \/ runLoop(w) \/ abandonShell(w) PROVE RunInv'
  <2>1. CASE begin(w) \/ abandonShell(w)
    BY <2>1, FibersRun
  <2>2. CASE finishRun(w) \/ finishShell(w)
    BY <2>2, RunEnds, ShellEnds
  <2>3. CASE publishIdle(w) \/ runLoop(w)
    BY <2>3, Publishes, TurnsBegin
  <2> QED BY <1>4, <2>1, <2>2, <2>3 DEF workStep, finish
<1>5. ASSUME NEW c \in Cancels, cancelBackgroundJobs(c) \/ cancelStep(c) PROVE RunInv'
  <2>1. CASE cancelBackgroundJobs(c) \/ cancelIdles(c)
    BY <2>1, CancelRests
  <2>2. CASE cancel(c) \/ stopShell(c)
    BY <2>2, CancelBegins, ShellStopped
  <2> QED BY <1>5, <2>1, <2>2 DEF cancelStep
<1> QED BY <1>1, <1>2, <1>3, <1>4, <1>5 DEF RunNext

LEMMA RunAlways == RunSpec => []RunInv
BY RunInitInv, RunStep, PTL DEF RunSpec

\* A prompt never awaits a run that nobody will complete, whatever runs, shells and
\* cancels replaced each other meanwhile (effect/runner.ts, ensureRunning and stop).
THEOREM NoPromptStrands == RunSpec => []NoStrandedPrompt
<1>1. ASSUME RunInv PROVE NoStrandedPrompt
  <2> SUFFICES ASSUME NEW p \in Prompts, waits[p] # 0, works[waits[p]].done = "open"
               PROVE  LET w == waits[p]
                          k == works[w].runner
                      IN  \/ works[w].at \in Live
                          \/ /\ runners[k].tag = "ShellThenRun" /\ runners[k].run = w
                             /\ works[runners[k].shell].at \in Live
                          \/ \E c \in Cancels : Stops(c, w)
    BY DEF NoStrandedPrompt
  <2>1. PICK w \in WorkIds : w = waits[p]
    BY <1>1 DEF RunInv, RunTypeOK
  <2>2. works[w].kind = "run" /\ Employed(w)
    BY <1>1, <2>1 DEF RunInv, Awaited
  <2>3. PICK k \in RunnerIds : k = works[w].runner
    BY <2>2 DEF Employed
  <2>4. Employs(k)
    BY <1>1 DEF RunInv
  <2>5. runners[k].tag = "ShellThenRun" => works[runners[k].shell].at \in Live
    BY <2>4 DEF Employs, WorksFor, Active, Live
  <2> QED BY <2>1, <2>2, <2>3, <2>5 DEF Employed
<1> QED BY RunAlways, <1>1, PTL

\* When nothing runs and no cancel is under way the Session has no runner and shows idle
\* (run-state.ts, onIdle; effect/runner.ts, finishRun, finishShell and cancel).
THEOREM QuietIsIdle == RunSpec => []QuietMeansIdle
<1>1. ASSUME RunInv PROVE QuietMeansIdle
  <2> SUFFICES ASSUME \A w \in WorkIds : works[w].at \in {"none", "ended"},
                      \A c \in Cancels : cancels[c].at \in {"off", "jobs"}
               PROVE  entry = 0 /\ status = "idle"
    BY DEF QuietMeansIdle
  <2>1. ASSUME NEW k \in RunnerIds PROVE ~Busy(k)
    <3>1. Employs(k)
      BY <1>1 DEF RunInv
    <3> QED BY <3>1 DEF Busy, Employs, WorksFor, Active
  <2>2. \A c \in Cancels : ~Cancelling(c) /\ cancels[c].at # "idling"
    BY DEF Cancelling
  <2>3. entry \in RunnerIds \cup {0} /\ status \in {"idle", "busy"}
    BY <1>1 DEF RunInv, RunTypeOK
  <2> QED BY <1>1, <2>1, <2>2, <2>3 DEF RunInv, Forgets, SaysIdle
<1> QED BY RunAlways, <1>1, PTL

\* The runner, the works, the prompts and the cancels have their types.
THEOREM RunTyped == RunSpec => []RunTypeOK
<1>1. RunInv => RunTypeOK
  BY DEF RunInv
<1> QED BY RunAlways, <1>1, PTL
=============================================================================
