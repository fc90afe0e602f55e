--------------------------- MODULE TurnSettlement ---------------------------
(***************************************************************************)
(* The second half of runTurnAttempt (packages/core/src/session/runner/    *)
(* llm.ts) with its publisher (runner/publish-llm-event.ts) and the        *)
(* projector of tool parts (session/message-updater.ts): a provider stream *)
(* calls tools, each local call runs in a fiber of its own that publishes  *)
(* its result, and the runner settles what is left, whatever of these      *)
(* fails, and whenever the drain is interrupted or its process dies.       *)
(*                                                                         *)
(* Publications are serialised by the permit (withPublication): a loop     *)
(* that holds it is a phase in which no fiber publishes.  Text and         *)
(* reasoning, which no decision depends on, are left out.                  *)
(***************************************************************************)
EXTENDS Naturals

CONSTANT Calls

VARIABLES
    part,           \* durable tool part of each call
    settlements,    \* Tool.Success and Tool.Failed events of each call
    tool,           \* the publisher's memory of each call, for one turn
    fiber,          \* FiberSet: the fiber of each local call
    joined,         \* the first failure of a tool fiber
    phase,          \* where the runner is
    stream,         \* how the provider stream ended
    providerFailed, \* publisher.hasProviderError
    interrupted     \* the drain was interrupted

turnVars == <<part, settlements, tool, fiber, joined, phase, stream, providerFailed, interrupted>>
memory == <<tool, fiber, joined, stream, providerFailed>>

Unknown == [known |-> FALSE, called |-> FALSE, hosted |-> FALSE, settled |-> FALSE]
Fresh == [c \in Calls |-> Unknown]
NoFibers == [c \in Calls |-> "none"]
Publishing == {"ok", "error"}
Alive == {c \in Calls : fiber[c] # "none"}
Permit == phase \notin {"failHosted", "failAll", "failLeft"}

-----------------------------------------------------------------------------
(* The durable part, as message-updater projects the events.               *)

Settled(c) == settlements' = [settlements EXCEPT ![c] = @ + 1]

toolFailed(c) ==
    /\ Settled(c)
    /\ part' = [part EXCEPT ![c] = IF @ \in {"pending", "running"} THEN "error" ELSE @]

toolSuccess(c) ==
    /\ Settled(c)
    /\ part' = [part EXCEPT ![c] = IF @ = "running" THEN "completed" ELSE @]

Result(c, result) == IF result = "ok" THEN toolSuccess(c) ELSE toolFailed(c)

-----------------------------------------------------------------------------
(* A drain, and the turns in it.                                           *)

run ==
    /\ phase = "off"
    /\ phase' = "repair"
    /\ UNCHANGED <<part, settlements, memory, interrupted>>

Left == {c \in Calls : part[c] \in {"pending", "running"}}

\* Every part an earlier drain left unsettled is failed, one event at a time.
failInterruptedTools ==
    /\ phase = "repair"
    /\ \/ \E c \in Left : toolFailed(c) /\ UNCHANGED phase
       \/ Left = {} /\ phase' = "request" /\ UNCHANGED <<part, settlements>>
    /\ UNCHANGED <<memory, interrupted>>

\* History is complete: the provider is asked, with a new publisher.
request ==
    /\ phase = "request"
    /\ phase' = "stream"
    /\ tool' = Fresh /\ fiber' = NoFibers /\ joined' = "none"
    /\ stream' = "open" /\ providerFailed' = FALSE
    /\ UNCHANGED <<part, settlements, interrupted>>

Streaming == phase = "stream" /\ ~providerFailed

startToolInput(c) ==
    /\ Streaming /\ part[c] = "none" /\ settlements[c] = 0 /\ ~tool[c].known
    /\ tool' = [tool EXCEPT ![c].known = TRUE]
    /\ part' = [part EXCEPT ![c] = "pending"]
    /\ UNCHANGED <<settlements, fiber, joined, phase, stream, providerFailed, interrupted>>

Called(c, hosted) == [tool EXCEPT ![c].called = TRUE, ![c].hosted = hosted]

\* A call is projected as running before its tool is started.
toolCall(c, hosted) ==
    /\ Streaming /\ tool[c].known /\ ~tool[c].called
    /\ tool' = Called(c, hosted)
    /\ part' = [part EXCEPT ![c] = "running"]
    /\ fiber' = IF hosted THEN fiber ELSE [fiber EXCEPT ![c] = "running"]
    /\ UNCHANGED <<settlements, joined, phase, stream, providerFailed, interrupted>>

\* The provider answers a call it executes itself.
toolResult(c, result) ==
    /\ Streaming /\ tool[c].called /\ tool[c].hosted /\ ~tool[c].settled
    /\ tool' = [tool EXCEPT ![c].settled = TRUE]
    /\ Result(c, result)
    /\ UNCHANGED <<fiber, joined, phase, stream, providerFailed, interrupted>>

\* After a provider error the rest of the stream is ignored.
providerError ==
    /\ Streaming
    /\ providerFailed' = TRUE
    /\ UNCHANGED <<part, settlements, tool, fiber, joined, phase, stream, interrupted>>

Ended(outcome) ==
    /\ stream' = outcome
    /\ phase' = IF outcome = "failure" /\ ~providerFailed THEN "failHosted"
                ELSE IF outcome = "interrupted" THEN "clear" ELSE "await"

\* The stream succeeds, fails with an LLMError, dies of a defect (such as a duplicate
\* event), or is interrupted.
endStream(outcome) ==
    /\ phase = "stream"
    /\ outcome = "interrupted" => interrupted
    /\ Ended(outcome)
    /\ UNCHANGED <<part, settlements, tool, fiber, joined, providerFailed, interrupted>>

\* The stream is interrupted after the publisher noted an event and before the event
\* was committed.
cutOff(c) ==
    /\ Streaming /\ interrupted
    /\ Ended("interrupted")
    /\ \/ /\ part[c] = "none" /\ settlements[c] = 0 /\ ~tool[c].known
          /\ tool' = [tool EXCEPT ![c].known = TRUE]
       \/ tool[c].known /\ ~tool[c].called /\ \E hosted \in BOOLEAN : tool' = Called(c, hosted)
       \/ /\ tool[c].called /\ tool[c].hosted /\ ~tool[c].settled
          /\ tool' = [tool EXCEPT ![c].settled = TRUE]
    /\ UNCHANGED <<part, settlements, fiber, joined, providerFailed, interrupted>>

-----------------------------------------------------------------------------
(* Tool fibers.                                                             *)

FirstFailure(kind) == IF joined = "none" THEN kind ELSE joined

\* The tool returns a result; from here the fiber cannot be interrupted.
settle(c, result) ==
    /\ fiber[c] = "running"
    /\ fiber' = [fiber EXCEPT ![c] = result]
    /\ UNCHANGED <<part, settlements, tool, joined, phase, stream, providerFailed, interrupted>>

\* The tool fails operationally, or its question is dismissed.
fail(c, kind) ==
    /\ fiber[c] = "running"
    /\ fiber' = [fiber EXCEPT ![c] = "none"]
    /\ joined' = FirstFailure(kind)
    /\ UNCHANGED <<part, settlements, tool, phase, stream, providerFailed, interrupted>>

\* Mutant: a result is published whether or not the call was settled.
LateNever(c) == FALSE

Late(c) == tool[c].settled

\* A late result of a settled call is dropped; a late success is also a defect.
publishResult(c) ==
    /\ fiber[c] \in Publishing /\ Permit
    /\ fiber' = [fiber EXCEPT ![c] = "none"]
    /\ IF Late(c)
       THEN /\ joined' = IF fiber[c] = "ok" THEN FirstFailure("failed") ELSE joined
            /\ UNCHANGED <<part, settlements, tool>>
       ELSE /\ tool' = [tool EXCEPT ![c].settled = TRUE]
            /\ Result(c, fiber[c])
            /\ UNCHANGED joined
    /\ UNCHANGED <<phase, stream, providerFailed, interrupted>>

-----------------------------------------------------------------------------
(* Settlement of the turn.                                                  *)

Unsettled(hostedOnly) ==
    {c \in Calls : tool[c].known /\ ~tool[c].settled /\ (hostedOnly => tool[c].hosted)}

\* One event of failUnsettledTools, or the phase after it.
failUnsettledTools(at, hostedOnly, next) ==
    /\ phase = at
    /\ \/ \E c \in Unsettled(hostedOnly) :
             /\ tool' = [tool EXCEPT ![c].settled = TRUE]
             /\ toolFailed(c)
             /\ UNCHANGED phase
       \/ Unsettled(hostedOnly) = {} /\ phase' = next /\ UNCHANGED <<part, settlements, tool>>
    /\ UNCHANGED <<fiber, joined, stream, providerFailed, interrupted>>

\* Mutant: the fibers are awaited but not interrupted.
clearWaits == fiber

\* FiberSet.clear interrupts every fiber; one that publishes is waited for.
clearFibers == [c \in Calls |-> IF fiber[c] = "running" THEN "none" ELSE fiber[c]]

clear(at, next) ==
    /\ phase = at
    /\ fiber' = clearFibers
    /\ phase' = IF Alive = {} THEN next ELSE phase
    /\ UNCHANGED <<part, settlements, tool, joined, stream, providerFailed, interrupted>>

\* Mutant: hosted calls without a result are not failed at the end of the stream.
AfterAwaitLocal(exit) ==
    IF exit \in {"rejected", "interrupted"} \/ stream = "interrupted" THEN "clearLeft"
    ELSE IF exit = "failed" \/ providerFailed THEN "failAll" ELSE "close"

\* What remains to be done once the fibers were awaited with this exit.
AfterAwait(exit) ==
    IF exit \in {"rejected", "interrupted"} \/ stream = "interrupted" THEN "clearLeft"
    ELSE IF exit = "failed" \/ providerFailed THEN "failAll"
    ELSE IF stream = "success" THEN "failLeft"
    ELSE "close"

\* raceFirst of join and awaitEmpty: the first failure, or no fiber left.  A question
\* that was dismissed interrupts the drain.
awaitToolFibers ==
    /\ phase = "await"
    /\ \E exit \in {"success", "failed", "rejected", "interrupted"} :
          /\ exit = "interrupted" => interrupted
          /\ exit \in {"failed", "rejected"} => joined = exit
          /\ exit = "success" => Alive = {} /\ joined = "none"
          /\ phase' = AfterAwait(exit)
          /\ stream' = IF exit = "success" THEN stream
                       ELSE IF exit = "failed" /\ stream # "interrupted" THEN "failure" ELSE "interrupted"
    /\ UNCHANGED <<part, settlements, tool, fiber, joined, providerFailed, interrupted>>

\* The scope of the turn closes, which interrupts what still runs.  Only a turn whose
\* stream and tools succeeded may be followed by another of the same drain.
close ==
    /\ phase = "close"
    /\ fiber' = clearFibers
    /\ IF Alive # {} THEN UNCHANGED <<phase, interrupted>>
       ELSE \/ stream = "success" /\ ~interrupted /\ phase' = "request" /\ UNCHANGED interrupted
            \/ phase' = "off" /\ interrupted' = FALSE
    /\ UNCHANGED <<part, settlements, tool, joined, stream, providerFailed>>

settleTurn ==
    \/ failUnsettledTools("failHosted", TRUE, "await")
    \/ clear("clear", "await")
    \/ awaitToolFibers
    \/ clear("clearLeft", "failAll")
    \/ failUnsettledTools("failAll", FALSE, "close")
    \/ failUnsettledTools("failLeft", TRUE, "close")
    \/ close

\* An interrupt reaches a drain; before and between its turns it ends at once.
interrupt ==
    /\ phase # "off" /\ ~interrupted
    /\ IF phase \in {"repair", "request"}
       THEN phase' = "off" /\ UNCHANGED interrupted
       ELSE interrupted' = TRUE /\ UNCHANGED phase
    /\ UNCHANGED <<part, settlements, memory>>

crash ==
    /\ phase # "off"
    /\ phase' = "off" /\ interrupted' = FALSE
    /\ tool' = Fresh /\ fiber' = NoFibers /\ joined' = "none"
    /\ stream' = "open" /\ providerFailed' = FALSE
    /\ UNCHANGED <<part, settlements>>

TurnInit ==
    /\ part = [c \in Calls |-> "none"] /\ settlements = [c \in Calls |-> 0]
    /\ tool = Fresh /\ fiber = NoFibers /\ joined = "none"
    /\ phase = "off" /\ stream = "open" /\ providerFailed = FALSE /\ interrupted = FALSE

streamEvent ==
    \/ \E c \in Calls : \/ startToolInput(c) \/ cutOff(c)
                        \/ \E hosted \in BOOLEAN : toolCall(c, hosted)
                        \/ \E result \in Publishing : toolResult(c, result)
    \/ providerError
    \/ \E outcome \in {"success", "failure", "defect", "interrupted"} : endStream(outcome)

TurnNext ==
    \/ run \/ failInterruptedTools \/ request \/ streamEvent
    \/ \E c \in Calls :
          \/ \E result \in Publishing : settle(c, result)
          \/ \E kind \in {"failed", "rejected"} : fail(c, kind)
          \/ publishResult(c)
    \/ settleTurn \/ interrupt \/ crash

TurnSpec == TurnInit /\ [][TurnNext]_turnVars

\* The runner runs on, an interrupted stream ends, and a fiber that has its result
\* publishes it.  Tools, providers and clients owe nothing.
TurnFairness ==
    /\ WF_turnVars(settleTurn)
    /\ WF_turnVars(endStream("interrupted"))
    /\ \A c \in Calls : WF_turnVars(publishResult(c))

-----------------------------------------------------------------------------
(* Properties                                                               *)

\* A call as a reader of the history sees it, and whether a turn is under way.
history == [c \in Calls |-> CASE part[c] = "none" -> "none" [] part[c] = "pending" -> "announced"
                              [] part[c] = "running" -> "open" [] OTHER -> "answered"]
Between == {"off", "repair", "request"}

Ledger == INSTANCE ToolLedger WITH ledger <- history, effects <- Alive, asked <- phase \notin Between

\* However tools, stream, interrupts and crashes interleave, every call is answered at
\* most once, and the provider is asked again only when no call is open and no tool of
\* an earlier turn still runs ("a dangling tool call ... made later provider
\* continuation invalid", specs/v2/schema-changelog.md:631).
ImplementsLedger == Ledger!LedgerSpec

\* Every call is settled by one durable event and no more, whether its tool answers
\* late, the provider never does, the turn fails, or a later process finds it.
SettledOnce ==
    \A c \in Calls :
        /\ settlements[c] <= 1
        /\ settlements[c] = 1 => part[c] \notin {"pending", "running"}

\* An interrupted drain ends even if its tools and its provider never answer.
InterruptEndsDrain == interrupted ~> phase = "off"
=============================================================================
