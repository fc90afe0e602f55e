------------------------------ MODULE FileLock ------------------------------
(***************************************************************************)
(* The lock of one key that processes share through the file system        *)
(* (packages/core/src/util/effect-flock.ts): a directory made atomically,  *)
(* with a heartbeat and the owner's token in it, and a second directory,   *)
(* the breaker, under which the directory of a dead owner is taken over.   *)
(*                                                                         *)
(* Every file-system call that changes something is a step, and so is      *)
(* every look at the directories.  Time is abstracted by what the 60 s of  *)
(* STALE_MS are chosen for: whatever a live process keeps fresh or has     *)
(* just made is not stale, what a dead process left may be.                *)
(***************************************************************************)
CONSTANTS
    Procs,          \* processes that use the lock
    NoProc

ASSUME NoProcAssumption == NoProc \notin Procs

VARIABLES
    lock,           \* the lock directory: who made it, whether it lives, its files
    breaker,        \* the breaker directory
    proc,           \* where each process is
    orphaned        \* history: a process died between claiming and removing the breaker

lockVars == <<lock, breaker, proc, orphaned>>

NoDir == [by |-> NoProc, live |-> FALSE, heartbeat |-> FALSE, meta |-> NoProc]
Dir(p) == [by |-> p, live |-> TRUE, heartbeat |-> FALSE, meta |-> NoProc]
There(dir) == dir.by # NoProc
Dead(dir) == There(dir) /\ ~dir.live

At(p, step) == proc[p] = step
Goto(p, step) == proc' = [proc EXCEPT ![p] = step]

-----------------------------------------------------------------------------
(* tryAcquireLockDir, retried while it answers NotAcquired.                 *)

acquire(p) == At(p, "off") /\ Goto(p, "mkdir") /\ UNCHANGED <<lock, breaker, orphaned>>

\* The directory is made, or found to be there: held or, perhaps, stale.
atomicMkdir(p) ==
    /\ At(p, "mkdir")
    /\ IF There(lock) THEN Goto(p, "isStale") /\ UNCHANGED lock
                      ELSE Goto(p, "heartbeat") /\ lock' = Dir(p)
    /\ UNCHANGED <<breaker, orphaned>>

\* What a dead process left is stale from some time on.
isStale(p) ==
    /\ At(p, "isStale")
    /\ \/ Goto(p, "mkdir")
       \/ Dead(lock) /\ Goto(p, "claim")
    /\ UNCHANGED <<lock, breaker, orphaned>>

claimBreaker(p) ==
    /\ At(p, "claim")
    /\ IF There(breaker) THEN Goto(p, "statBreaker") /\ UNCHANGED breaker
                         ELSE Goto(p, "recheck") /\ breaker' = Dir(p)
    /\ UNCHANGED <<lock, orphaned>>

\* cleanStaleBreaker looks at the breaker, then removes whatever is there.
statBreaker(p) ==
    /\ At(p, "statBreaker")
    /\ \/ Goto(p, "mkdir")
       \/ Dead(breaker) /\ Goto(p, "cleanBreaker")
    /\ UNCHANGED <<lock, breaker, orphaned>>

cleanBreaker(p) ==
    /\ At(p, "cleanBreaker")
    /\ breaker' = NoDir
    /\ Goto(p, "mkdir")
    /\ UNCHANGED <<lock, orphaned>>

\* Mutant: what was stale before the breaker was claimed is still stale.
staleBefore(p) == p \in Procs

staleStill(p) == Dead(lock)

\* Under the breaker: look again, remove, make anew.
recheck(p) ==
    /\ At(p, "recheck")
    /\ \/ Goto(p, "unclaim")
       \/ staleStill(p) /\ Goto(p, "remove")
    /\ UNCHANGED <<lock, breaker, orphaned>>

removeLock(p) ==
    /\ At(p, "remove")
    /\ lock' = NoDir
    /\ Goto(p, "remake")
    /\ UNCHANGED <<breaker, orphaned>>

remake(p) ==
    /\ At(p, "remake")
    /\ IF There(lock) THEN Goto(p, "unclaim") /\ UNCHANGED lock
                      ELSE Goto(p, "unclaimOwner") /\ lock' = Dir(p)
    /\ UNCHANGED <<breaker, orphaned>>

removeBreaker(p) ==
    /\ \/ At(p, "unclaim") /\ Goto(p, "mkdir")
       \/ At(p, "unclaimOwner") /\ Goto(p, "heartbeat")
    /\ breaker' = NoDir
    /\ UNCHANGED <<lock, orphaned>>

\* An exclusive write fails if the file is there, or no directory is.
exclusiveWrite(p, absent, written, next) ==
    /\ IF There(lock) /\ absent THEN lock' = written /\ Goto(p, next)
                                ELSE Goto(p, "compromised") /\ UNCHANGED lock
    /\ UNCHANGED <<breaker, orphaned>>

writeHeartbeat(p) ==
    /\ At(p, "heartbeat")
    /\ exclusiveWrite(p, ~lock.heartbeat, [lock EXCEPT !.heartbeat = TRUE], "meta")

writeMeta(p) ==
    /\ At(p, "meta")
    /\ exclusiveWrite(p, lock.meta = NoProc, [lock EXCEPT !.meta = p], "held")

\* LockTimeoutError, between two attempts.
timeout(p) == At(p, "mkdir") /\ Goto(p, "off") /\ UNCHANGED <<lock, breaker, orphaned>>

-----------------------------------------------------------------------------
\* The owner reads its token back, and removes the directory if it is there.
readMeta(p) ==
    /\ At(p, "held")
    /\ Goto(p, IF lock.meta = p THEN "release" ELSE "off")
    /\ UNCHANGED <<lock, breaker, orphaned>>

\* The owner's release, or a LockCompromisedError, removes whatever directory is there.
forceRemove(p) ==
    /\ At(p, "release") \/ At(p, "compromised")
    /\ lock' = NoDir
    /\ Goto(p, "off")
    /\ UNCHANGED <<breaker, orphaned>>

Breaking == {"recheck", "remove", "remake", "unclaim", "unclaimOwner"}

crash(p) ==
    /\ ~At(p, "off")
    /\ Goto(p, "off")
    /\ lock' = IF lock.by = p THEN [lock EXCEPT !.live = FALSE] ELSE lock
    /\ breaker' = IF breaker.by = p THEN [breaker EXCEPT !.live = FALSE] ELSE breaker
    /\ orphaned' = (orphaned \/ proc[p] \in Breaking)

-----------------------------------------------------------------------------
LockInit ==
    /\ lock = NoDir /\ breaker = NoDir
    /\ proc = [p \in Procs |-> "off"]
    /\ orphaned = FALSE

attempt(p) ==
    \/ atomicMkdir(p) \/ isStale(p) \/ claimBreaker(p) \/ statBreaker(p) \/ cleanBreaker(p)
    \/ recheck(p) \/ removeLock(p) \/ remake(p) \/ removeBreaker(p)
    \/ writeHeartbeat(p) \/ writeMeta(p)

LockNext ==
    \E p \in Procs : acquire(p) \/ attempt(p) \/ timeout(p) \/ readMeta(p) \/ forceRemove(p) \/ crash(p)

LockSpec == LockInit /\ [][LockNext]_lockVars

-----------------------------------------------------------------------------
(* Properties                                                               *)

Holds(p) == proc[p] \in {"held", "release"}

\* Two processes never hold the lock, however holders, waiters and those who make the
\* directory die and whoever takes over, unless a process died under the breaker.
MutualExclusion ==
    ~orphaned => \A p, q \in Procs : Holds(p) /\ Holds(q) => p = q
=============================================================================
