----------------------------- MODULE PromptLoop -----------------------------
(***************************************************************************)
(* Prompts of one Session and the loop that answers them                   *)
(* (packages/opencode/src/session/prompt.ts: prompt, createUserMessage,    *)
(* loop, runLoop).  A prompt takes its message id before it resolves its   *)
(* parts and saves the message; the loop compares ids to see whether there *)
(* is something to answer.  Runs are abstracted to what prompts see of     *)
(* them (RunState): ensureRunning joins the Session's run or starts one.   *)
(***************************************************************************)
EXTENDS Naturals, FiniteSets

CONSTANTS
    Asks,           \* calls of SessionPrompt.prompt
    MaxToolTurns,   \* bound: turns of a Session that end in tool calls
    MaxStops        \* bound: cancels

ASSUME PromptLoopBounds == MaxToolTurns \in Nat /\ MaxStops \in Nat

VARIABLES
    ids,            \* MessageID.ascending: the newest id
    ask,            \* each call: its progress and its message id
    users,          \* ids of the saved user messages
    assistant,      \* the newest assistant message: its id and its finish
    included,       \* history: user messages some request has contained
    loop,           \* the run: where it is and the user messages it has read
    toolTurns, stops

promptVars == <<ids, ask, users, assistant, included, loop, toolTurns, stops>>

NoLoop == [at |-> "off", read |-> {}, broke |-> FALSE]
MaxIds == 2 * Cardinality(Asks) + MaxToolTurns + MaxStops + 1
NewID == ids < MaxIds /\ ids' = ids + 1

-----------------------------------------------------------------------------
(* SessionPrompt.prompt                                                     *)

createUserMessage(a) ==
    /\ ask[a].at = "off"
    /\ NewID
    /\ ask' = [ask EXCEPT ![a] = [at |-> "resolving", id |-> ids + 1]]
    /\ UNCHANGED <<users, assistant, included, loop, toolTurns, stops>>

\* The message is saved once its parts are resolved.
updateMessage(a) ==
    /\ ask[a].at = "resolving"
    /\ ask' = [ask EXCEPT ![a].at = "saved"]
    /\ users' = users \cup {ask[a].id}
    /\ UNCHANGED <<ids, assistant, included, loop, toolTurns, stops>>

\* The call joins the run, or starts one.
joinLoop(a) ==
    /\ ask[a].at = "saved"
    /\ ask' = [ask EXCEPT ![a].at = "waiting"]
    /\ loop' = IF loop.at = "off" THEN [NoLoop EXCEPT !.at = "read"] ELSE loop
    /\ UNCHANGED <<ids, users, assistant, included, toolTurns, stops>>

-----------------------------------------------------------------------------
(* runLoop                                                                  *)

\* The newest assistant message has finished and is newer than every user message.
answeredAll(read) == assistant.finish /\ \A id \in read : id < assistant.id

readMessages ==
    /\ loop.at = "read"
    /\ loop' = [loop EXCEPT !.read = users, !.at = IF answeredAll(users) THEN "leaving" ELSE "turn"]
    /\ UNCHANGED <<ids, ask, users, assistant, included, toolTurns, stops>>

\* The assistant message takes its id; the request contains what was read before.
startTurn ==
    /\ loop.at = "turn"
    /\ NewID
    /\ assistant' = [id |-> ids + 1, finish |-> FALSE]
    /\ included' = included \cup loop.read
    /\ loop' = [loop EXCEPT !.at = "process"]
    /\ UNCHANGED <<ask, users, toolTurns, stops>>

\* The turn finishes, wants tool results, or breaks the loop.
process(outcome) ==
    /\ loop.at = "process"
    /\ outcome = "tool-calls" => toolTurns < MaxToolTurns
    /\ toolTurns' = IF outcome = "tool-calls" THEN toolTurns + 1 ELSE toolTurns
    /\ assistant' = [assistant EXCEPT !.finish = outcome = "stop"]
    /\ loop' = [loop EXCEPT !.at = IF outcome = "break" THEN "leaving" ELSE "read",
                            !.broke = outcome = "break"]
    /\ UNCHANGED <<ids, ask, users, included, stops>>

\* Mutant: only calls whose message the loop has read are answered.
ReturnRead(result) ==
    [a \in Asks |-> IF ask[a].at = "waiting" /\ ask[a].id \in loop.read
                    THEN [ask[a] EXCEPT !.at = result] ELSE ask[a]]

Return(result) == [a \in Asks |-> IF ask[a].at = "waiting" THEN [ask[a] EXCEPT !.at = result] ELSE ask[a]]

\* The loop reads the last assistant message, and its run answers every call.
leave ==
    /\ loop.at = "leaving"
    /\ loop' = NoLoop
    /\ ask' = Return(IF loop.broke THEN "broken" ELSE "answered")
    /\ UNCHANGED <<ids, users, assistant, included, toolTurns, stops>>

cancelLoop ==
    /\ loop.at # "off" /\ stops < MaxStops
    /\ stops' = stops + 1
    /\ loop' = NoLoop
    /\ ask' = Return("cancelled")
    /\ UNCHANGED <<ids, users, assistant, included, toolTurns>>

-----------------------------------------------------------------------------
PromptInit ==
    /\ ids = 0 /\ users = {} /\ included = {}
    /\ ask = [a \in Asks |-> [at |-> "off", id |-> 0]]
    /\ assistant = [id |-> 0, finish |-> FALSE]
    /\ loop = NoLoop
    /\ toolTurns = 0 /\ stops = 0

processTurn == \E outcome \in {"stop", "tool-calls", "break"} : process(outcome)

loopStep == readMessages \/ startTurn \/ processTurn \/ leave

PromptNext ==
    \/ \E a \in Asks : createUserMessage(a) \/ updateMessage(a) \/ joinLoop(a)
    \/ loopStep \/ cancelLoop

PromptSpec == PromptInit /\ [][PromptNext]_promptVars

\* The loop runs on and its turns end.
PromptFairness == WF_promptVars(loopStep)

-----------------------------------------------------------------------------
(* Properties                                                               *)

\* A loop ends for all its callers, however many prompts join it and in whatever order
\* their ids were taken and their messages saved.
PromptsReturn == \A a \in Asks : ask[a].at = "waiting" ~> ask[a].at # "waiting"

\* "prompt submitted during an active run is included in the next LLM input"
\* (test/session/prompt.test.ts:1287): a call that returns normally was in a request.
PromptIncluded == \A a \in Asks : ask[a].at = "answered" => ask[a].id \in included
=============================================================================
