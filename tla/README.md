# Verification of the Session core

TLA+ models, TLC configurations and TLAPS proofs for the part of this repository that
decides *when an agent runs, what it runs on and what becomes of its work*: the durable
event log, the inbox and the context epoch of a Session, the coordinator that runs at most
one drain of a Session at a time, the drains and the settlement of their turns, and,
around them, permission requests, background jobs, file locks and the runs of the released
server. Paths below are relative to `src/packages/`; the exact lines behind every
definition are in `PROJECT.json` under `map`.

    tlc -workers 2 -config Sessions_safety.cfg MCSessions
    tlapm RunCoordinatorProofs.tla

## 1. The system

A *Session* is an aggregate of the event log. A client *prompts* it: the prompt is
admitted to the Session's inbox (a durable event and its projected row) and an advisory
*wake* goes to the coordinator. The coordinator gives the Session's lane to one *drain*
at a time. A drain promotes inputs from the inbox to messages, prepares the context epoch
for a turn, calls the provider, runs the tools it calls, and goes on until nothing is left
to do. An *interrupt* is first recorded in the log and then stops the lane; wakes carry
the sequence of their admission so that a late one can be told from a new one. Tools ask
for *permission* and may hand work to a *background job*. The released server
(`opencode/src/session`) still drives its Sessions by a runner and a prompt loop of its
own; they are modelled too.

| Component | Source | State | Operations | Status |
|---|---|---|---|---|
| Run coordinator | `core/src/session/run-coordinator.ts`, `execution/local.ts` | active entry, interrupt boundary, owner fiber per key | run, wake, interrupt, awaitIdle, settle, finalizer | modelled, proved |
| Durable event log | `core/src/event.ts` | `event`, `event_sequence`, signal queues of tails | publish, replay, replayAll, claim, remove, streamEvents | partly, proved |
| Session inbox | `session/input.ts`, `session/projector.ts` | `session_input`, `session_message` | admit, promote, reserve ids, the V1 bridge | partly, proved |
| Context epoch | `session/context-epoch.ts`, `runner/llm.ts`, `projector.ts` | one revisioned row per Session | initialize, prepare, replace, advance, reset, the checks before a provider call | partly, proved |
| Turn settlement | `runner/llm.ts`, `runner/publish-llm-event.ts`, `message-updater.ts` | tool parts, tool fibers, the publisher's memory | publish, settle, fail, interrupt, repair | partly, proved |
| Locks | `core/src/util/effect-flock.ts` | lock and breaker directories | acquire, break, release | partly, proved |
| Session execution | `core/src/session.ts`, `session/input.ts`, `runner/llm.ts` | inbox, calls under way, the run in progress | prompt, resume, interrupt, the drain loop | partly, proved |
| Permissions and questions | `core/src/permission.ts` | map of pending requests, saved rules | assert, reply, finalizer | partly, proved |
| Background jobs | `core/src/background-job.ts`, `opencode/src/tool/task.ts` | map of jobs, works, notifiers | start, extend, promote, cancel, settle; the task tool | partly, proved |
| Legacy Session runner | `opencode/src/effect/runner.ts`, `session/run-state.ts` | map of runners, their state, the status | ensureRunning, startShell, cancel | partly, proved |
| Legacy Session | `opencode/src/session/prompt.ts` | message ids, messages, the loop | prompt, loop | partly |
| Instance store | `opencode/src/project/instance-store.ts` | cache of instances | load, reload, dispose, disposeDirectory, disposeAll | partly, proved |
| Scoped state | `core/src/state.ts` and its users | transforms, materialised state | transform, update, mutate | planned |
| Terminals | `core/src/pty.ts` | buffer and cursor, subscribers | attach, write, exit, remove | planned |
| Workspaces | `opencode/src/control-plane/workspace.ts` | owner of each Session | sync, claim, move | its calls of the log only |

The rest is in section 7.

What makes these parts hard, and what must be right about them:

* **Coordinator.** Wakes and interrupts are delivered by forked fibers in any order. A
  run may join, upgrade or queue behind what is there; a chain may fail while others
  wait; a stop may arrive twice or too late. Two drains must never overlap, nobody may
  wait on a deferred that no fiber will complete, no accepted work may be forgotten, and
  nothing from before a stop may run after it.
* **Event log.** Events of one Session come from local fibers and other servers, twice,
  late or altered. The log must take each once, at its place, keep owners fenced off,
  and announce every commit to tails that are just moving from reading history to
  following signals.
* **Session execution.** Admission, wake, drain and interrupt are four actors on two
  clocks (the log's sequence and the coordinator's order). A prompt that was admitted
  and not interrupted must be run; a stopped or failed drain leaves its inputs in the
  inbox, and the next one takes them.
* **Inbox.** Message ids are chosen by clients, so equal and unequal prompts race for
  an id with each other, with promotion and with messages of other kinds; promotion
  commits row by row and can be cut off after each.
* **Context epoch.** A request to the provider is put together from several reads, with
  awaits between them: agent and model of the Session, the observed context, the epoch's
  row, the history. Switches, moves, compaction, replayed updates and other preparers
  commit in between. What is sent must nevertheless belong together.
* **Turn settlement.** Tools run in fibers beside the stream that called them. The stream
  may fail, the provider may report an error, the user may dismiss a question, the drain
  may be interrupted and the process may die. Every call must be answered by one durable
  event and no more, or the next request to the provider is invalid.
* **File lock.** Processes that share nothing but a file system make, inspect and remove
  directories, and any of them may die between any two calls.
* **Permissions.** A reply answers other requests besides its own while it iterates a Map
  that askers and other replies change, with awaits in the iteration.
* **Background jobs.** A job may be extended, promoted, cancelled and replaced by another
  of the same id while its works end and calls wait for it or give up.
* **Instance store.** A directory's instance is loaded, reloaded and disposed by several
  clients while it boots, fails to boot, or is still being disposed.
* **Legacy runner and loop.** A run may queue behind a shell, be cancelled while its
  cleanup is still running, and be replaced before it has ended; prompts join a loop that
  may be just leaving.

`PROJECT.json` lists every hazard at its line with the properties that would catch it.
One has none and says why.

## 2. Modules

### RunCoordinator (and DrainLane)

One lane. Lanes of different keys share nothing: every map in the coordinator is indexed
by the key, so one lane is the whole component. JavaScript runs each transition to
completion ("Every in-memory transition is synchronous"), so a call of `run`, `wake`,
`interrupt`, `awaitIdle`, `settle` or the finalizer is one action, split into one
disjunct per early return: `runClosed`, `runBehindStop`, `runUpgrade`, `runJoin`,
`runStart`; `wakeStart`, `wakeCoalesce`; `staleInterrupt`, `interruptPassed`,
`interruptStop`; `settleClosed`, `settleForeign`, `settleContinue`, `settleIdle`,
`settleSuccessor`. What interleaves is everything in between: drains starting and
exiting, callers being resumed or giving up, and the order in which calls arrive.

| Code | Model |
|---|---|
| `active` map | `active` |
| `Entry` (current, pending, explicit deferred, stop barrier) | `entry[e]`; identities are reused once nothing refers to them |
| owner fiber of an entry | `fiber[e]`: none, queued (a successor behind a yield) or running |
| `interruptSeqs` map | `interruptSeq` |
| a caller's suspended fiber | `pc`, `at`, `result` |
| – | history: `ran`, `cut` (per caller), `owed`, `merged` (wakes) |

`NoSeq` is an absent sequence. It is 0, which no admission or interrupt request can
carry: event 0 of a Session is its creation. `settle` completes the deferreds it
completes in one step and the waiting callers with them; what a resumed caller does next
is a step of its own.

`DrainLane` is the header comment of the file as a specification: a lane is idle or
drains for a run or a wake, owes at most one follow-up, a run dominates a wake, and a
stop drops everything but wakes from after it. `RunCoordinator` implements it through a
refinement mapping that looks at the published entry only.

### EventLog (and EventFeed)

Each transaction is one action, since SQLite's `behavior: "immediate"` serialises
writers; the guards of `commitSyncEvent` become named predicates (`strictMismatch`,
`exact`, `Diverged`, `misplaced`, `reused`, `Foreign`) and its outcomes the actions
`commitRefused`, `commitRolledBack`, `replayExact`, `replayForeign` and `append`. After
the transaction a fiber wakes the tails and then notifies live observers, each a step
another fiber may precede. `replayAll` goes through its batch event by event. A tail
(`streamEvents`) registers its queue of one signal, reads, delivers, and reads again on
a signal. `Crash` drops fibers and tails and keeps the tables. `Wire` holds what other
servers send: whole and partial histories and events that contradict them; what
`replayAll` rejects before it commits anything is an assumption on `Wire`.

`EventFeed` is what its users rely on: one sequence per aggregate that grows at its end,
and readers that pass it in order from where they chose to start.

Left out: typed encoding and versions of events, several listeners of the same commit
(they are told together), events that are not durable (no state of the log changes), and
projectors, which appear as the possibility that a transaction rolls back.

### SessionExecution

Extends `RunCoordinator`: the lane keeps its actions, and this module says which wakes
and interrupts reach it (`deliverWake`, `deliverInterrupt`, in any order) and what a
drain does between its start and its exit. A drain goes through the steps of
`runner/llm.ts`: it looks for a steer, then for a queued input, reads the cutoff,
takes a
snapshot of the pending rows and promotes them row by row, calls the provider (one nondeterministic answer: more to do,
settled, failed or interrupted), counts its steps and opens the next activity. Callers
admit, ask again, resume and interrupt; `Crash` restarts the process with the same
inbox and an idle lane.

Only admissions and interrupt requests are counted in the event sequence, because no
other sequence is compared with theirs. A turn that is rebuilt after a concurrent change
does not change this module's state before it reaches the provider again. The scope's
finalizer (`Close`) is left out here, since `Crash` covers the end of the process;
`awaitIdle` is not reachable through the Session's API. `excused` and `dropped` are
history for `PromptsRun`: prompts nobody promised to run (admitted without resume,
interrupted later, their drain failed or stopped, the process died), and prompts whose
wake was folded into a run that a stop drops (finding 1).

### SessionInbox

The tables behind the inbox: `row` (`session_input`) and `message` (`session_message`),
by id, with the Session's sequence. Callers look an id up, publish, and after a defect
look again; runners read the cutoff, take a snapshot of the pending rows, publish one
row at a time and re-check after a conflict; other writers (`otherMessage`,
`legacyPrompted`) put messages under ids that the guard has looked at, and
`generatedMessage` those of context updates and compactions, for which the guard has no
case: their ids are the server's own, and fresh. Each projector runs inside the commit's
transaction, so commit and projection are one step, and reads and reconciliations are
steps of their own. Several runners stand for processes that share the database, and
for the drain after a stop.

Left out: deletion of Sessions, replay from other servers, and a clash of an id the
server generated itself (taken to be fresh).

### ContextEpoch

The row of `SessionContextEpochTable` with its revision, and the first half of
`runTurnAttempt`, which makes a request from it. A system context is abstracted to what
the code tells apart: the agent and the Location it was observed for and a version of its
sources. An attempt goes through *find* (the row), *observe* (the context), the
transaction that inserts, fences, replaces or advances the row, *reread* (the Session),
*load* (the history), perhaps *compact*, the *check* of the session's agent, model and
revision, and the call. Each read and each transaction is a step, because other fibers
commit between them: `agentSwitched`, `modelSwitched`, `movedTo` (which deletes the row,
as `reset` does), `contextUpdatedReplayed`, `sourcesChange` and the other attempt.

`alone` says whether the attempts belong to one process, whose coordinator runs one drain
of a Session at a time, or to two that share the database; `moved` is history. Left out:
the text of the baseline and of the messages, and sources that cannot be read, which
appear as the outcome that an observation is unavailable.

### TurnSettlement (and ToolLedger)

The second half of `runTurnAttempt`: the provider's stream announces and calls tools
(`startToolInput`, `toolCall`); each local call runs in a fiber that publishes its result
(`settle`, `fail`, `publishResult`); a hosted call is answered by the stream
(`toolResult`); the stream ends in one of four ways (`endStream`). `settleTurn` is the
rest of the function, phase by phase: the wait for the fibers or the first failure, the
interruption of the others, the loops that fail hosted, unsettled and remaining calls
while they hold the publisher's permit. `interrupt` may come anywhere; `crash` forgets
everything but the durable parts, and the next drain repairs those
(`failInterruptedTools`) before it does anything else.

`ToolLedger` is what a Session's history may rely on: a call is announced, opened and
answered once, and the provider is not asked again while a call is open or a tool of an
earlier turn may still act.

Left out: text and reasoning fragments, steps and usage, and the recovery from a context
overflow, which ends in the same settlement.

### FileLock

One key. Every change of the file system and every look at it is a step of a process:
`atomicMkdir`, `isStale` (its `stat`s are one step, since the last one made decides), the
making, inspection and cleaning of the breaker directory, the second look under it,
removal and remaking of the lock, the exclusive writes of heartbeat and owner file, the
token that is read back before a release. A process may time out between two
attempts and die at any step. Time is abstracted by what the 60 s of `STALE_MS` are
chosen for: what a live process keeps fresh or has just made is not stale, what a dead
process left may be. `orphaned` is history: a process died while it held the breaker.

### Permission

`assert`, `reply` and the finalizer of one Location. A step runs to the next suspension:
an event that is published, a row that is read or written, the wait for an answer. The
pending requests are a JavaScript Map: `order` is the order of insertion, which an
iteration follows, and a reply's `cursor` how far its iteration has come; deletions and
insertions meanwhile have the effect they have on a Map's iterator. `selectAgent` changes
the rules that a later look will apply. A call may end with a defect wherever it reads or
writes a row or publishes an event.

### BackgroundJob and TaskTool

One id of the registry. Calls are numbered in the order they come, jobs in the order they
are started (the token of the code), works by their sequence within the job. A
modification of the `SynchronizedRef` and the code up to its next suspension are one
step; the fibers of the works and their `settle` interleave with everything else,
including those of an earlier job under the same id. `TaskTool` adds the calls of the
task tool: in the foreground they race the job's result against its promotion, in the
background and after a promotion they get a notifier; an interrupted call releases the
job by its id.

### InstanceStore

One directory. An entry of the cache is numbered as it is made; its number stands for its
deferred, its fiber and its context. `load` joins the cached entry or makes one that boots;
`reload` makes one at once, whose fiber waits for the one it replaces, runs the disposers
of the directory's states and boots; `dispose` with a context that may be old,
`disposeDirectory` and what `disposeAll` does to an entry wait for the entry they found and
look whether it is still cached before and after they run the disposers. Boots fail,
clients give up. `unwanted` and `lost` are history: the instances somebody asked to
dispose, and those whose states disposers have dropped.

### RunState and PromptLoop

`RunState` is one Session of the released server: the map's `entry`, the runners that were
ever made with their states (Idle, Running, Shell, ShellThenRun), the run and shell fibers
(`works`) with the steps of their endings, the cancels with the latch they wait on, and
the published status. The cancels that waited for a fiber go on in the step that ends it
(`goOn`), as nothing suspends there; what suspends are the latch, the cleanup of an
interrupted work and the publication of the status. `PromptLoop` is what prompts and the loop see of each other: a
message id is taken when a prompt arrives and its message saved after its parts are
resolved; the loop reads the messages, compares ids to see whether it may leave, takes
the id of its answer, and makes a turn. To it a run is what `RunState` promises: it is
joined or started, and ends for all who wait for it.

### The MC modules

`MCEventLog`, `MCRunCoordinator` and `MCSessionExecution` give one module its constants.
`MCSessions`, `MCTables` and `MCTurns` each explore several modules *beside each other*: a
variable (`focus`, `table`, `work`) chosen at the start says which part a behaviour works
on, and the other parts stay as they were, so that a run costs the sum and not the product
of its parts. Parts that really act on each other (the lane and the execution of a
Session, jobs and task calls) share their state and are composed in full.

## 3. Runs

| Run | States | Question |
|---|---|---|
| `sessions_safety` | 2.5M | Lane: do drains exclude each other, do callers always have somebody to answer them, are stops barriers, is accepted work kept? Execution: does a drain empty the inbox across stops, failures and crashes? Permissions: does a reply leave nobody waiting for what it decided? Tasks: is each result delivered once, by the last work, to all who wait? Instances: does the newest one stay, whatever ends of earlier ones? |
| `coordinator_liveness` | 105k | Is everyone who waits let go under endless wakes, do runs return when the environment is quiet, is the lane a fair `DrainLane`? |
| `coordinator_lost_wake` | finding | Do all wakes after a boundary run? |
| `log_replay` | 1.8M | Is the log gapless and free of duplicates, are batches stored as sent, are owners fenced? |
| `log_tails` | 89k | Does the handoff from reading to signals lose nothing and repeat nothing; does every tail catch up; is it a fair `EventFeed`? |
| `log_former_owner` | finding | Are events of a former owner ignored? |
| `session_liveness` | 486k | Is every prompt that was promised a run promoted? |
| `tables_safety` | 2.5M | Inbox: do rows and messages agree, are receipts and conflicts right, is order kept, do runners survive each other? Epoch: does the baseline belong to the Session's agent and place, is what the provider is called with current? Lock: is it held once? |
| `turns_liveness` | 100k | Is every tool call settled once and the history a `ToolLedger`; do interrupted drains and cancelled runs end, do prompts return, is nobody stranded, is a quiet Session idle? |
| `legacy_busy` | finding | Is a Session busy while its loop runs? |
| `legacy_prompt_lost` | finding | Is a prompt that a run answers in one of its requests? |
| `task_promise` | finding | Is a task that was told it will be notified, notified? |

**Bounds and why they are enough.**
*Lane:* two callers (a third adds no relation: entries treat all waiters of one deferred
alike), two entry identities (one owner and one handed over), wakes and interrupts 1..3,
each deliverable in any order and any number of times; a wake can be before, between and
after two boundaries, or as old as one. There is no bound on steps. The liveness run keeps
one boundary and one wake after it.
*Execution:* two prompts with three sequence numbers (two admissions and an interrupt in
any order), one caller of explicit runs and two steps per activity, so that the step
limit, a steer between turns and a second activity all occur. The liveness run has one
prompt, which may be interrupted twice or sent again.
*Permissions:* two Sessions that ask for two resources, one of which may come to be denied
in one Session; three requests with one reply or two with two, so that a sweep meets
requests that come, go, are answered by another sweep, and are not covered by its rule.
The requests arrive in the order of their names, as the code tells no two of them apart
but by that order. *Tasks:* two calls, each of which starts or extends:
one job with two works, or two jobs under one id. *Instances:* two clients
and three entries; a boot or a reload goes on without its client, so two disposals of one
entry can end around the load of the next.
*Log:* `log_replay` has two fibers, two owners, three event ids, positions 0 to 2 and one
removal: a batch of two, its parts, the batch that follows it and one that contradicts it
race with local publications and a claim. `log_tails` swaps owners for a reader; its
positions let one signal stand for two commits.
*Inbox:* one Session, two ids, two callers, two runners, four events: two admissions and
two promotions, or other writers in between. *Epoch:* two attempts, two agents, models and
Locations, two events of other fibers, one change of the sources; a replacement nobody
asked for is left out (`MaxRevision` 0), as a switch or a move asks for one. *Lock:* three
processes: a holder that dies, one that takes over, and one that comes between; a fourth
shows nothing more while nobody dies under the breaker.
*Turns:* two calls, of which one may settle while the other hangs. *Runs:* two prompts,
two cancels (one in the runs of findings), two runners and three works: a run, the shell
or run that replaces it, and one more. *Prompts:* two, one turn of tool calls, one cancel.
The proofs are for every value of these constants.

Symmetry is used only in runs without liveness and over sets whose members the code does
not distinguish; `MCTables` lets its parts share their model values, which keeps the group
small. Deadlock is checked except in the runs of `MCTurns`, where runners, works, calls
and prompts are used once and a behaviour ends when they are used up. Where the calls of
`MCSessions` are used up, `PermissionOver` and `TasksOver` allow a stutter only in states
in which every call has returned: a call that hangs is a deadlock.

**Fairness and why the code justifies it.** *Coordinator:* drains end, because the
runner bounds the steps of an activity and its provider calls time out or fail; queued
fibers are scheduled; a resumed caller runs on. Nothing obliges anybody to call. Endless
wakes are allowed, so `RunReturns` is stated for environments whose wakes and interrupts
cease, and `WaitersAnswered` without that condition. *Log:* the wake follows its
commit because both are uninterruptible, and a tail that can read does. Publication is
not fair: it may be interrupted. *Session:* the provider answers, fibers are scheduled
and a prompt call that has admitted goes on to wake (it is forked into the service's
scope). *Turns:* the runner runs on, an interrupted stream ends and a tool that has its
result publishes it; tools, providers and clients owe nothing, and `InterruptEndsDrain`
holds all the same. *Runs:* fibers are scheduled and an interrupted work ends its cleanup;
works owe no end of their own. *Prompts:* the loop runs on and its turns end. Each action
is weakly fair; strong fairness is not needed anywhere.

Every property has a mutant in the module (operators whose comment begins with
"Mutant:"): a plausible slip in the code under which TLC finds the property violated in
the same run.

## 4. Findings

1. `coalesce` (`run-coordinator.ts:54`) drops the sequence of a wake when a run joins, so
   an interrupt that suppresses the run also loses a wake admitted after the boundary;
   lines 26-27 promise that such wakes run after cleanup. The prompt stays in the inbox
   until something else wakes the Session. (`coordinator_lost_wake`; it is why
   `PromptsRun` has the exception `dropped`.)
2. After a claim, the sync of the former owner fails where its event contradicts the
   log, while `control-plane/workspace.ts:603-604` says future events of the old workspace
   are ignored: staleness is checked before ownership. (`log_former_owner`)
3. A cancel waits for the cleanup of its run (`runner.ts:178`), finds the runner it stopped
   idle (`runner.ts:180`), and forgets whatever runner the Session has by then (`run-state.ts:61`). If that is a newer one, the Session
   is not busy while it runs, and the next prompt starts a second run beside it;
   `prompt.test.ts:1355` expects `BusyError`. (`legacy_busy`)
4. A prompt takes its message id before it resolves its parts and saves the message. If it
   is saved while a turn is being made, it is older than the answer, and the loop leaves
   (`prompt.ts:1168`): the call returns the answer to another prompt and its own is never
   sent to the provider; `prompt.test.ts:1287` says it is included in the next request.
   (`legacy_prompt_lost`)
5. A call of the task tool that extends a job somebody else waits for in the foreground is
   told "You will be notified automatically when it finishes" (`task.ts:38`), but only
   background and promoted jobs have a notifier. (`task_promise`)

Observations that are not runs, because no text of the repository contradicts them
clearly, because another finding is close by, or because they lie outside the models:

* `interrupt` (`run-coordinator.ts:207`) returns when the active drain serves a newer wake,
  before it suppresses an older pending one, which then runs.
* A retry of a prompt that an interrupt left pending wakes with the sequence of its
  admission, which the boundary refuses (`session.ts:174`; `specs/v2/session.md:18`).
* `replace` of the epoch is fenced by the agent and the revision, not by the Location
  (`context-epoch.ts:253`; `specs/v2/session.md:75`): with two processes and a move the
  baseline of the old place may be stored, hence the condition of `EpochPlaced`.
* With a process that died under the breaker, `cleanStaleBreaker` may remove a breaker
  that was just made (its `stat` and its removal are two calls), and four processes can
  bring about two holders, hence `orphaned` in `MutualExclusion`. A process suspended for
  longer than `STALE_MS` may lose its lock; the code notices that when it releases.
* A tool input that was announced and never called stays pending until the next drain.
* The parts of a prompt are saved one by one after its message (`prompt.ts:1029-1030`), and
  a loop may read it without them. A prompt that joins the loop as it leaves gets its
  answer without being asked.
* An interrupted task call cancels the job its id names by then, which may be another
  call's (`task.ts:325`); a promotion whose metadata cannot be written never notifies
  (`task.ts:264-270`).
* A load that arrives while the directory's instance is being disposed gets that instance
  (`instance-store.ts:102-113`); the states it then creates again outlive the disposal and
  are met by the next instance's boot. A disposal that is interrupted leaves the instance
  cached without its states.
* A request made between the last look of an "always" reply and its return stays pending
  (`permission.ts:226`).

## 5. Proofs

All theorems are for every value of the constants that satisfies the assumptions; tlapm
checks them with Z3, Zenon and LS4. In each module the safety invariant is strengthened to
an inductive one, one lemma per action shows that the action keeps it, and a temporal step
concludes.

**RunCoordinatorProofs** (from `SeqAssumption`: sequences are positive; `NoneAssumption`:
`None` is no entry). `TypeCorrect` is inductive as it stands. `SingleDrain` is not: a
new chain starts where no entry is published, and only with `OwnerPublished` does that
mean that no fiber lives. *Ownership* is the two together; after the scope closes nothing
is published and no chain starts. It gives `SingleDrainTheorem` and
`OwnerPublishedTheorem`, and with the types `StopBarrierTheorem`, whose interesting cases
are the stop itself (`BarrierStop`), a wake accepted during the stop (`BarrierWake`) and
the hand-over (`BarrierSettle`). `NoStrandedCaller` and `RunMeansDrained` depend on each
other, since whether a caller will be answered and by what are the same bookkeeping;
*Accounted* states them together with `StopsAreJoined`, and the proof goes through what
`settle` does to callers of the settled entry and to the others (`AnsweredCaller`,
`AnswerElsewhere`).
`WakeKept` is not inductive: a queued successor may be stopped before it starts, and then
the demand it was to drain no longer counts. *Wakes* adds that the successor is not
stopping; the demand a stop reaches is never newer than the boundary (the early return at
line 207), so what is newer must be the follow-up, which the stop leaves alone
(`WakesInterrupt`), and the entry that settles hands it on (`WakesSettle`).
`NotCarriedAcrossStop` rests on `CutIsStopped`: a waiter that a stop has reached is at an
entry that is stopping, so the exit of its drain answers it. `Refinement` shows that every
step of the coordinator is a step of `DrainLane` or stutters, using types, ownership and
the stop barrier.

**EventLogProofs** (from `OwnerAssumption`, `AggregateAssumption`, `BoundAssumption` and
`WireAssumption`: what a batch looks like once `replayAll` has accepted it). *LogInv* is
`TypeOK` with `LogContiguous`: they need each other, because a tail's cursor is typed by
the rows it reads. `Fenced` needs that a fence names the owner of the row (*OwnerHeld*),
since that row is what `Foreign` compares with. `BatchStored` needs *Strict*: a strict
batch is one of the wire's, its life is not ahead of its aggregate's, and the event a wake
or a notification follows is stored. `NoLostWake` is inductive beside them:
a read takes a tail to the last row, which is the position its aggregate names (`LastRow`),
and only a fiber itself ends its wake (`WakeKept`). `StreamIsExact` needs *Streams*: what
a tail has fetched is on its way to the consumer and not yet delivered, and a cursor that
has moved is not beyond the log. For
`LogImplementsFeed` the mapping is `Shown` (the rows of an aggregate by position) and
`Following` (where each tail is); an append extends `Shown` at its end because the log is
gapless, and everything else leaves it alone or removes the aggregate.

**SessionInboxProofs** (from `BoundAssumption` and `NonemptyAssumption`). `StepOfTables`
classifies all steps into five: the tables are left alone, or one of four commits
happens (admission, promotion, another message, the V1 bridge). The rest argues about these
only. `Projected` is inductive with the types. `Receipts` and `Conflicts` rest on *Kept*:
a row or message, once there, keeps what callers compare; a caller whose publication
failed carries the fact that its id is taken, so its second look cannot miss.
`DurableOrder` and `RunnersSurvive` need what a runner knows about its snapshot: its rows
exist, and whatever precedes one of them is promoted or in the snapshot too; a runner
that checks again after a conflict has lost its row to another. *PromotionInv* states
this together with two facts about the rows: no row is ahead of its Session, and
admissions are at distinct positions.

**SessionExecutionProofs** (from `SequenceAssumption` and those of the coordinator).
Every step of a Session is a step of its lane, leaves the lane alone or is a crash,
which makes the lane a new one (`LaneStep`); so the coordinator's inductive invariants
hold of the lane of a Session (`SessionLane`), whatever order its wakes and interrupts
arrive in. Above it, *Driven* says that a run is in progress exactly while a fiber of
the lane runs, and *Drained* adds to `DrainEmptiesInbox` what a run has behind it
earlier: one that looks at the queue or for the next activity owes no steer any more.
*PromptsHeld* is the safety half of the
liveness property `PromptsRun`: a prompt that was promised a run has a wake on the way,
or the run in progress owes it, or the lane holds a demand for it that no stop has
reached; fairness then only has to let the holder go on.

**ContextEpochProofs** (from `UnsetAssumption` and `EpochBounds`). *EpochInv* adds to
the types, `EpochOwned` and `EpochPlaced` what an attempt knows at each of its steps: no
sequence it holds is ahead of the aggregate, and an attempt past its first look is at
the Session's Location or its transaction will find no row (a move deletes it). The
second is what makes a late insert harmless. `TurnIsCurrent` is about one step, the
check before the provider is called, but what the check compares (agent, model,
revision) says nothing of the history that was loaded before. *CurrentInv* does: updates
have sequences of their own; the snapshot of a row that waits for no replacement is what
its baseline and the updates since then tell; and an attempt that has read a row, or
prepared a system, which still has its revision knows the row, the model selected with
it and what it tells the model. The last two hold while drains exclude each other or the
Session has not moved, which is the condition of the property.

**TurnProofs**, tool calls (no assumption on `Calls`). *TurnInv* has three parts besides
the types: a call has at most one settlement, and then its part is not open
(*SettledParts*); while a turn is under way, a call that the publisher still owes a result
has none, and what its memory and its fiber say of the part is so (*Remembered*); between
turns no tool fiber is alive (*NoneLeft*). The second is what late fibers need: they are
held off by the publisher's memory, not by the durable part.
`TurnKeepsLedger` shows that every step of `TurnSettlement` is a step of `ToolLedger` or
stutters. The hard step is the next request, which the ledger allows only when no call is
open. *LedgerInv* follows an open call through the phases of the settlement: its part is
running only while the publisher knows the call and has not settled it (*Opened*); such a
call has its fiber while the fibers are awaited, unless it is hosted or a failure was
left to the join; past the wait for a successful stream only hosted ones remain; and none
does where the turn closes as a success (*Pursued*). An interrupted turn may leave parts
running, but only by way of a drain that ends, and the repair comes before the next request.

**TurnProofs**, runs (from `RunStateBounds`). *RunInv* relates the four collections the
code keeps apart: a runner's state names works of its own that have not ended (*Employs*);
a run nobody has completed is on its way, queued behind its runner's shell, or in the
hands of a cancel (*Employed*); what a cancel stops is nobody's any more (*Dismissed*);
the Session's runner is busy or is being cancelled (*Forgets*); and a Session shown as busy
has somebody who will say that it is idle (*SaysIdle*). `NoStrandedPrompt` and
`QuietMeansIdle` follow. Neither is inductive alone: a shell that ends starts the run
queued behind it, and a cancel replaces the state of a runner whose works go on ending.
The end of a fiber and what the cancels that waited for it do then are one step, so the
proof first says what that step may do to works and cancels (`GoesOn`): a work it ends is
no runner's, and a cancel that goes on forgets the Session's runner or leaves a busy one.

**ServiceProofs**, file lock (from `NoProcAssumption`). *LockInv* is the types and, unless
a process died under the breaker: whoever is at a step under the breaker made it, a
breaker that is there is in use and nobody cleans it, whoever has made the directory and
not let it go owns it, and what is about to be removed under the breaker is a dead
process's. `MutualExclusion` follows, since two holders would both own the one directory.

**ServiceProofs**, instances (from `InstancesAssumption`). *StoreInv* adds to the types
that the cache holds the newest entry or none, so a reload replaces the entry made just
before it; that an entry that has begun to dispose or to boot has only completed ones
before it (*InOrder*); that an instance that loads is cached (*LoadingIsCached*); and that
a client that runs disposers asked for it, and for an entry that was ready (*AskedFor*).
Together they say why nothing that a late client does can reach the newest entry.

**ServiceProofs**, permissions (from `DeniableAssumption`; any set of requests, finite or
not: only finitely many are ever in the Map). *PermissionInv* says that requests are
inserted once, each after all before it (*InMap*, *InsertedOnce*, by cardinality), that an
unanswered request is in the Map, and that a reply that iterates has decided on every
request up to its cursor that still waits, save the one it is at (*Swept*). A request that
is created meanwhile is ahead of every cursor (`AskerCreates`), so a reply that finds
nothing ahead has met them all; that it finds the next one if there is one uses that the
positions have a least element (`NextIsLeast`, from the well-foundedness of `<`).

**TaskToolProofs** (from `TasksAssumption`). *TaskInv* says of the registry that every job
before the one it holds has ended, and that a job that runs has as many pending works as
there are fibers that have not settled (*Running*, by cardinality) and that those that have
settled ended well; so the work that brings the count to zero is the only one left, and
the output is that of the last. Of the calls it says that a job is one call's to promote
(*CallOK*), and that the call that would make the next job or work leaves room for it
(*RoomLeft*). `DeliveredOnce` follows since a notifier is made only for a job in the
background, and a call gets a result only from a job that has ended outside it.

`PROJECT.json` lists the theorems and the run that checks the same property.

**Only model-checked:** the liveness properties `WaitersAnswered`, `RunReturns`,
`StreamsCatchUp`, `PromptsRun`, `InterruptEndsDrain`, `CancelEndsRun` and `PromptsReturn`,
and the fair refinements `ImplementsFairLane` and `ImplementsFairFeed`, whose safety halves
`Refinement` and `LogImplementsFeed` are proved. They rest on fairness and ENABLED, which
are out of the prover's reach, as are induction over data and recursive operators (the
models use neither). Every invariant, action property and refinement of the runs that are
expected to pass is proved.

## 6. Plan

1. Safety lemmas behind the liveness properties, as `PromptsHeld` is behind `PromptsRun`:
   that a waiter, a cancel or an interrupted drain always has somebody who can take a step
   for it; and the lane's refinement for a Session, across crashes.
2. Questions beside permissions, and requests for several resources.
3. The states of an instance (`instance-state.ts`) with users that outlive it, against the
   promise that an instance meets no state of an earlier one.
4. `ScopedState` (transforms replayed under a semaphore), then `Terminal` (the retained
   buffer and its cursors).
5. Two `EventLog`s joined by the sync of a workspace, with the claim and the move of a
   Session between them.

## 7. Not modelled

The models cover the control of the Session core. By lines, most of this repository is
something else, and no model would say much about it:

* *Generated and presented:* the SDK's generated clients, the terminal and web user
  interfaces, stories, the command line, the test recorder and scripts.
* *Adapters:* provider protocols (their outcome is a choice in the models), MCP, LSP and
  ACP clients, git and filesystem wrappers, snapshots, the repository cache (it relies on
  what `FileLock` promises), the HTTP server, the SQLite drivers and migrations. The models
  rely on one property of the last: an immediate transaction is serialised with every other
  writer.
* *Data rather than control:* configuration, models and accounts, plugins and skills, the
  projection of events to messages beyond the inbox and the tool parts, what compaction
  summarises and when, the reconciliation of context sources (its results are a choice in
  `ContextEpoch`), the tools themselves.
* *Candidates for a later module:* scoped state, terminals, workspaces
  (section 6), the queue of shared Sessions, the registry of tools.

Within the modelled components, the note of each in `PROJECT.json` says what is left out.
