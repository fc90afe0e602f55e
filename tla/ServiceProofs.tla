--------------------------- MODULE ServiceProofs ----------------------------
(***************************************************************************)
(* Three services of a process, for any number of their users: the file    *)
(* lock (MutualExclusion), the cache of instances (NewestStays) and the    *)
(* permission requests of a Location (SweepsAreComplete).                  *)
(***************************************************************************)
EXTENDS FileLock, InstanceStore, Permission, FiniteSetTheorems, WellFoundedInduction, TLAPS

-----------------------------------------------------------------------------
(* The file lock.  Mutual exclusion alone is not inductive: a process      *)
(* that removes the lock directory must be the only one to hold the        *)
(* breaker, and must remove a dead owner's.  Safe says so for as long as   *)
(* nobody died under the breaker; then no breaker is stale, and nobody     *)
(* cleans one.                                                             *)

Steps == {"off", "mkdir", "isStale", "claim", "statBreaker", "cleanBreaker", "heartbeat",
          "meta", "held", "release", "compromised"} \cup Breaking
Dirs == [by : Procs \cup {NoProc}, live : BOOLEAN, heartbeat : BOOLEAN, meta : Procs \cup {NoProc}]
Owning == {"unclaimOwner", "heartbeat", "meta", "held", "release", "compromised"}

LockTypeOK ==
    /\ lock \in Dirs /\ breaker \in Dirs
    /\ proc \in [Procs -> Steps]
    /\ orphaned \in BOOLEAN

BreakerHeld == \A p \in Procs : proc[p] \in Breaking => breaker.by = p /\ breaker.live
BreakerUsed == There(breaker) => breaker.live /\ breaker.by \in Procs /\ proc[breaker.by] \in Breaking
NobodyCleans == \A p \in Procs : proc[p] # "cleanBreaker"
LockOwned == \A p \in Procs : proc[p] \in Owning => lock.by = p /\ lock.live
RemovesDead == \A p \in Procs : proc[p] = "remove" => Dead(lock)

Safe == ~orphaned => BreakerHeld /\ BreakerUsed /\ NobodyCleans /\ LockOwned /\ RemovesDead

LockInv == LockTypeOK /\ Safe

-----------------------------------------------------------------------------
\* Every directory a step makes is one, and no directory is anybody's.
LEMMA DirsOK ==
    /\ NoDir \in Dirs /\ ~There(NoDir) /\ NoDir.by = NoProc
    /\ \A p \in Procs : Dir(p) \in Dirs /\ There(Dir(p)) /\ Dir(p).by = p /\ Dir(p).live
BY NoProcAssumption DEF NoDir, Dir, Dirs, There

LEMMA LockInitInv == LockInit => LockInv
BY DirsOK DEF LockInit, LockInv, LockTypeOK, Safe, Steps, BreakerHeld, BreakerUsed, NobodyCleans,
   LockOwned, RemovesDead, Breaking, Owning

\* Steps of one process that move it and leave the directories alone.
LEMMA Moves ==
    ASSUME LockInv, NEW p \in Procs, UNCHANGED <<lock, breaker, orphaned>>,
           NEW step \in Steps, Goto(p, step),
           step \notin Owning \/ proc[p] \in Owning,
           step \notin Breaking \/ proc[p] \in Breaking,
           proc[p] \in Breaking => step \in Breaking,
           step = "cleanBreaker" => Dead(breaker),
           step = "remove" => Dead(lock)
    PROVE  LockInv'
BY DEF LockInv, LockTypeOK, Safe, BreakerHeld, BreakerUsed, NobodyCleans, LockOwned, RemovesDead,
   Goto, Dead, There

\* The parts of Safe, before and after a step that orphans no breaker.
LEMMA Parts ==
    ASSUME LockInv, orphaned' = orphaned, LockTypeOK',
           ~orphaned => (BreakerHeld /\ BreakerUsed /\ NobodyCleans /\ LockOwned /\ RemovesDead)'
    PROVE  LockInv'
BY DEF LockInv, Safe

LEMMA MakesDirectory ==
    ASSUME LockInv, NEW p \in Procs, ~There(lock), lock' = Dir(p), UNCHANGED <<breaker, orphaned>>,
           \/ At(p, "mkdir") /\ Goto(p, "heartbeat")
           \/ At(p, "remake") /\ Goto(p, "unclaimOwner")
    PROVE  LockInv'
<1>1. LockTypeOK'
  BY DirsOK DEF LockInv, LockTypeOK, Goto, Steps, Breaking
<1>2. ASSUME ~orphaned
      PROVE  (BreakerHeld /\ BreakerUsed /\ NobodyCleans /\ LockOwned /\ RemovesDead)'
  <2>1. (BreakerHeld /\ BreakerUsed /\ NobodyCleans)'
    BY <1>2 DEF LockInv, LockTypeOK, Safe, BreakerHeld, BreakerUsed, NobodyCleans, Breaking, At, Goto, There
  <2>2. \A q \in Procs : proc[q] \notin Owning /\ proc[q] # "remove"
    BY <1>2, NoProcAssumption DEF LockInv, Safe, LockOwned, RemovesDead, There, Dead
  <2>3. (LockOwned /\ RemovesDead)'
    BY <2>2, DirsOK DEF LockInv, LockTypeOK, LockOwned, RemovesDead, Goto
  <2> QED BY <2>1, <2>3
<1> QED BY <1>1, <1>2, Parts

LEMMA ClaimsBreaker ==
    ASSUME LockInv, NEW p \in Procs, claimBreaker(p)
    PROVE  LockInv'
<1>1. CASE There(breaker)
  BY <1>1, Moves DEF claimBreaker, At, Owning, Breaking, Steps
<1>2. CASE ~There(breaker)
  <2>1. breaker' = Dir(p) /\ Goto(p, "recheck") /\ UNCHANGED <<lock, orphaned>>
    BY <1>2 DEF claimBreaker
  <2>2. LockTypeOK'
    BY <2>1, DirsOK DEF LockInv, LockTypeOK, Goto, Steps, Breaking
  <2>3. ASSUME ~orphaned
        PROVE  (BreakerHeld /\ BreakerUsed /\ NobodyCleans /\ LockOwned /\ RemovesDead)'
    <3>1. \A q \in Procs : proc[q] \notin Breaking
      BY <1>2, <2>3, NoProcAssumption DEF LockInv, Safe, BreakerHeld, There
    <3>2. (BreakerHeld /\ BreakerUsed)'
      BY <2>1, <3>1, DirsOK DEF LockInv, LockTypeOK, BreakerHeld, BreakerUsed, Goto, Breaking
    <3>3. (NobodyCleans /\ LockOwned /\ RemovesDead)'
      BY <2>1, <2>3 DEF LockInv, LockTypeOK, Safe, NobodyCleans, LockOwned, RemovesDead, Goto, Owning,
         Dead, There
    <3> QED BY <3>2, <3>3
  <2> QED BY <2>1, <2>2, <2>3, Parts
<1> QED BY <1>1, <1>2

\* Whoever removes the breaker, or the lock as a dead one's, is under the breaker alone.
LEMMA RemovesBreaker ==
    ASSUME LockInv, NEW p \in Procs, removeBreaker(p) \/ cleanBreaker(p)
    PROVE  LockInv'
<1> PICK step \in {"mkdir", "heartbeat"} : Goto(p, step) /\ (step = "heartbeat" => proc[p] = "unclaimOwner")
  BY DEF removeBreaker, cleanBreaker, At
<1>1. breaker' = NoDir /\ UNCHANGED <<lock, orphaned>>
  BY DEF removeBreaker, cleanBreaker
<1>2. LockTypeOK'
  BY <1>1, DirsOK DEF LockInv, LockTypeOK, Goto, Steps
<1>3. ASSUME ~orphaned
      PROVE  (BreakerHeld /\ BreakerUsed /\ NobodyCleans /\ LockOwned /\ RemovesDead)'
  <2>1. proc[p] \in Breaking
    BY <1>3 DEF removeBreaker, cleanBreaker, LockInv, Safe, NobodyCleans, At, Breaking
  <2>2. \A q \in Procs : proc[q] \in Breaking => q = p
    BY <1>3, <2>1 DEF LockInv, Safe, BreakerHeld
  <2>3. (BreakerHeld /\ BreakerUsed)'
    BY <1>1, <2>2, DirsOK DEF LockInv, LockTypeOK, BreakerHeld, BreakerUsed, Goto, Breaking
  <2>4. (NobodyCleans /\ LockOwned /\ RemovesDead)'
    BY <1>1, <1>3 DEF LockInv, LockTypeOK, Safe, NobodyCleans, LockOwned, RemovesDead, Goto, Owning, Dead,
       There
  <2> QED BY <2>3, <2>4
<1> QED BY <1>1, <1>2, <1>3, Parts

LEMMA RemovesLock ==
    ASSUME LockInv, NEW p \in Procs, removeLock(p)
    PROVE  LockInv'
<1>1. At(p, "remove") /\ lock' = NoDir /\ Goto(p, "remake") /\ UNCHANGED <<breaker, orphaned>>
  BY DEF removeLock
<1>2. LockTypeOK'
  BY <1>1, DirsOK DEF LockInv, LockTypeOK, Goto, Steps, Breaking
<1>3. ASSUME ~orphaned
      PROVE  (BreakerHeld /\ BreakerUsed /\ NobodyCleans /\ LockOwned /\ RemovesDead)'
  <2>1. (BreakerHeld /\ BreakerUsed /\ NobodyCleans)'
    BY <1>1, <1>3 DEF LockInv, LockTypeOK, Safe, BreakerHeld, BreakerUsed, NobodyCleans, Breaking, At,
       Goto, There
  <2>2. \A q \in Procs : proc[q] \notin Owning
    BY <1>1, <1>3 DEF LockInv, Safe, RemovesDead, LockOwned, At, Dead
  <2>3. \A q \in Procs : proc[q] = "remove" => q = p
    BY <1>1, <1>3 DEF LockInv, Safe, BreakerHeld, Breaking, At
  <2>4. (LockOwned /\ RemovesDead)'
    BY <1>1, <2>2, <2>3 DEF LockInv, LockTypeOK, LockOwned, RemovesDead, Goto, Owning
  <2> QED BY <2>1, <2>4
<1> QED BY <1>1, <1>2, <1>3, Parts

\* The owner writes into its directory, or removes it and owns no more.
LEMMA OwnerActs ==
    ASSUME LockInv, NEW p \in Procs, proc[p] \in {"heartbeat", "meta", "release", "compromised"},
           UNCHANGED <<breaker, orphaned>>, lock' \in Dirs,
           \/ lock' = NoDir /\ Goto(p, "off")
           \/ /\ lock'.by = lock.by /\ lock'.live = lock.live
              /\ \E step \in {"meta", "held"} : Goto(p, step)
    PROVE  LockInv'
<1> PICK step \in {"off", "meta", "held"} : Goto(p, step)
  OBVIOUS
<1>1. LockTypeOK'
  BY DEF LockInv, LockTypeOK, Goto, Steps
<1>2. ASSUME ~orphaned
      PROVE  (BreakerHeld /\ BreakerUsed /\ NobodyCleans /\ LockOwned /\ RemovesDead)'
  <2>1. (BreakerHeld /\ BreakerUsed /\ NobodyCleans)'
    BY <1>2 DEF LockInv, LockTypeOK, Safe, BreakerHeld, BreakerUsed, NobodyCleans, Breaking, Goto, There
  <2>2. lock.by = p /\ lock.live
    BY <1>2 DEF LockInv, Safe, LockOwned, Owning
  <2>3. \A q \in Procs : proc[q] # "remove" /\ (proc[q] \in Owning => q = p)
    BY <1>2, <2>2 DEF LockInv, Safe, LockOwned, RemovesDead, Dead
  <2>4. lock' = NoDir => proc'[p] = "off"
    BY <2>2, DirsOK, NoProcAssumption DEF LockInv, LockTypeOK, Goto
  <2>5. (LockOwned /\ RemovesDead)'
    BY <2>2, <2>3, <2>4 DEF LockInv, LockTypeOK, LockOwned, RemovesDead, Goto, Owning
  <2> QED BY <2>1, <2>5
<1> QED BY <1>1, <1>2, Parts

LEMMA Writes ==
    ASSUME LockInv, NEW p \in Procs, writeHeartbeat(p) \/ writeMeta(p) \/ forceRemove(p)
    PROVE  LockInv'
<1>1. proc[p] \in {"heartbeat", "meta", "release", "compromised"} /\ UNCHANGED <<breaker, orphaned>>
  BY DEF writeHeartbeat, writeMeta, forceRemove, exclusiveWrite, At
<1>2. CASE lock' = NoDir /\ Goto(p, "off")
  BY <1>1, <1>2, DirsOK, OwnerActs
<1>3. CASE lock' = [lock EXCEPT !.heartbeat = TRUE] /\ Goto(p, "meta")
  BY <1>1, <1>3, OwnerActs DEF LockInv, LockTypeOK, Dirs
<1>4. CASE lock' = [lock EXCEPT !.meta = p] /\ Goto(p, "held")
  BY <1>1, <1>4, OwnerActs DEF LockInv, LockTypeOK, Dirs
<1>5. CASE UNCHANGED lock /\ Goto(p, "compromised")
  BY <1>1, <1>5, Moves DEF Owning, Breaking, Steps
<1> QED BY <1>2, <1>3, <1>4, <1>5 DEF writeHeartbeat, writeMeta, forceRemove, exclusiveWrite

\* A process that dies leaves its directories dead; under the breaker it orphans it.
LEMMA Crashes ==
    ASSUME LockInv, NEW p \in Procs, crash(p)
    PROVE  LockInv'
<1>1. LockTypeOK'
  BY DEF crash, LockInv, LockTypeOK, Dirs, Goto, Steps
<1>2. ASSUME ~orphaned'
      PROVE  (BreakerHeld /\ BreakerUsed /\ NobodyCleans /\ LockOwned /\ RemovesDead)'
  <2>1. ~orphaned /\ proc[p] \notin Breaking
    BY <1>2 DEF crash
  <2>2. breaker.by # p /\ breaker' = breaker
    BY <2>1, NoProcAssumption DEF crash, LockInv, Safe, BreakerUsed, There
  <2>3. (BreakerHeld /\ BreakerUsed /\ NobodyCleans)'
    BY <2>1, <2>2 DEF crash, LockInv, LockTypeOK, Safe, BreakerHeld, BreakerUsed, NobodyCleans, Breaking,
       Goto, There
  <2>4. lock'.by = lock.by /\ (lock.by # p => lock' = lock) /\ (lock.by = p => ~lock'.live)
    BY DEF crash, LockInv, LockTypeOK, Dirs
  <2>5. (LockOwned /\ RemovesDead)'
    BY <2>1, <2>4 DEF crash, LockInv, LockTypeOK, Safe, LockOwned, RemovesDead, Owning, Goto, Dead, There
  <2> QED BY <2>3, <2>5
<1> QED BY <1>1, <1>2 DEF LockInv, Safe

LEMMA LockStep == LockInv /\ [LockNext]_lockVars => LockInv'
<1> SUFFICES ASSUME LockInv, [LockNext]_lockVars PROVE LockInv'
  OBVIOUS
<1>1. CASE UNCHANGED lockVars
  BY <1>1 DEF lockVars, LockInv, LockTypeOK, Safe, BreakerHeld, BreakerUsed, NobodyCleans, LockOwned,
     RemovesDead, There, Dead
<1>2. ASSUME NEW p \in Procs, acquire(p) \/ attempt(p) \/ timeout(p) \/ readMeta(p) \/ forceRemove(p) \/ crash(p)
      PROVE  LockInv'
  <2>1. CASE acquire(p) \/ timeout(p)
    BY <2>1, Moves DEF acquire, timeout, At, Owning, Breaking, Steps
  <2>2. CASE atomicMkdir(p)
    <3>1. CASE There(lock)
      BY <2>2, <3>1, Moves DEF atomicMkdir, At, Owning, Breaking, Steps
    <3>2. CASE ~There(lock)
      BY <2>2, <3>2, MakesDirectory DEF atomicMkdir
    <3> QED BY <3>1, <3>2
  <2>3. CASE isStale(p) \/ statBreaker(p) \/ recheck(p) \/ readMeta(p)
    BY <2>3, Moves DEF isStale, statBreaker, recheck, readMeta, staleStill, At, Owning, Breaking, Steps
  <2>4. CASE remake(p)
    <3>1. CASE There(lock)
      BY <2>4, <3>1, Moves DEF remake, At, Owning, Breaking, Steps
    <3>2. CASE ~There(lock)
      BY <2>4, <3>2, MakesDirectory DEF remake
    <3> QED BY <3>1, <3>2
  <2>5. CASE claimBreaker(p) \/ removeBreaker(p) \/ cleanBreaker(p)
    BY <2>5, ClaimsBreaker, RemovesBreaker
  <2>6. CASE removeLock(p)
    BY <2>6, RemovesLock
  <2>7. CASE writeHeartbeat(p) \/ writeMeta(p) \/ forceRemove(p)
    BY <2>7, Writes
  <2>8. CASE crash(p)
    BY <2>8, Crashes
  <2> QED BY <1>2, <2>1, <2>2, <2>3, <2>4, <2>5, <2>6, <2>7, <2>8 DEF attempt
<1> QED BY <1>1, <1>2 DEF LockNext

\* Two processes never hold the lock, however many share it, die and take over, for as
\* long as none died under the breaker (effect-flock.ts, tryAcquireLockDir).
THEOREM LockIsExclusive == LockSpec => []MutualExclusion
<1>1. LockInv => MutualExclusion
  BY DEF LockInv, Safe, LockOwned, Owning, MutualExclusion, Holds
<1> QED BY LockInitInv, LockStep, <1>1, PTL DEF LockSpec

\* The directories, the processes' progress and the history have their types.
THEOREM LockTyped == LockSpec => []LockTypeOK
<1>1. LockInv => LockTypeOK
  BY DEF LockInv
<1> QED BY LockInitInv, LockStep, <1>1, PTL DEF LockSpec

-----------------------------------------------------------------------------
(* The cache of instances.  The cache holds the newest entry or none, so   *)
(* a reload replaces the one made just before it; and entries come to an   *)
(* end in order: one that has begun to dispose or to boot has only         *)
(* completed ones before it.                                               *)

Phases == {"none", "replacing", "disposing", "booting", "ready", "failed"}
Works == [call : {"none", "load", "dispose", "disposers"}, entry : Nat, context : Nat]

StoreTypeOK ==
    /\ made \in 0 .. MaxInstances
    /\ cache \in {0, made}
    /\ instance \in [Instances -> Phases]
    /\ previous \in [Instances -> Nat]
    /\ client \in [Clients -> Works]
    /\ unwanted \subseteq Instances
    /\ lost \subseteq 1 .. made
    /\ \A e \in Instances : instance[e] = "none" <=> e > made

\* A reload replaces the entry before it, and nothing overtakes what still loads.
InOrder ==
    \A e \in Instances :
        /\ instance[e] = "replacing" => e > 1 /\ previous[e] = e - 1
        /\ instance[e] \notin {"none", "replacing"} => \A d \in Instances : d < e => Completed(d)

\* An instance that loads is cached.
LoadingIsCached == made # 0 /\ ~Completed(made) => cache = made

\* Who disposes an entry has asked for it, and runs the disposers of one that is ready.
AskedFor(c) ==
    /\ client[c].call \in {"dispose", "disposers"} => client[c].context \in unwanted
    /\ client[c].call = "disposers" /\ client[c].entry # 0 =>
          client[c].entry = client[c].context /\ instance[client[c].entry] = "ready"

StoreInv ==
    StoreTypeOK /\ InOrder /\ LoadingIsCached /\ NewestStays /\ \A c \in Clients : AskedFor(c)

-----------------------------------------------------------------------------
LEMMA StoreInitInv == StoreInit => StoreInv
BY InstancesAssumption DEF StoreInit, StoreInv, StoreTypeOK, InOrder, LoadingIsCached, NewestStays, AskedFor, Instances,
   Phases, Works, NotCalling, AtWork

\* What a client goes on with is a piece of work.
LEMMA WorksTyped ==
    /\ NotCalling \in Works /\ NotCalling.call = "none"
    /\ \A call \in {"none", "load", "dispose", "disposers"} : \A e, d \in Nat :
          /\ AtWork(call, e, d) \in Works
          /\ AtWork(call, e, d).call = call /\ AtWork(call, e, d).entry = e
          /\ AtWork(call, e, d).context = d
BY DEF Works, NotCalling, AtWork

\* Steps of one client that leave the entries alone.
LEMMA ClientMoves ==
    ASSUME StoreInv, NEW c \in Clients, NEW work \in Works, Enter(c, work),
           UNCHANGED <<cache, made, instance, previous, lost>>,
           unwanted' \subseteq Instances, unwanted \subseteq unwanted',
           work.call \in {"dispose", "disposers"} => work.context \in unwanted',
           work.call = "disposers" => work.entry = 0
    PROVE  StoreInv'
<1>1. StoreTypeOK'
  BY DEF StoreInv, StoreTypeOK, Enter
<1>2. InOrder' /\ LoadingIsCached' /\ NewestStays'
  BY DEF StoreInv, InOrder, LoadingIsCached, NewestStays, Completed
<1>3. \A d \in Clients : AskedFor(d)'
  BY DEF StoreInv, StoreTypeOK, AskedFor, Enter
<1> QED BY <1>1, <1>2, <1>3 DEF StoreInv

\* Disposers that run for an entry somebody asked to dispose, or where nothing is cached.
LEMMA DisposersRun ==
    ASSUME StoreInv, NEW c \in Clients, NEW work \in Works, Enter(c, work), runDisposers,
           UNCHANGED <<cache, made, instance, previous>>,
           unwanted' \subseteq Instances, unwanted \subseteq unwanted',
           work.call = "disposers", work.context \in unwanted',
           \/ cache = 0 /\ work.entry = 0
           \/ cache = work.context /\ work.entry = work.context /\ instance[work.entry] = "ready"
    PROVE  StoreInv'
<1>1. StoreTypeOK'
  <2>1. {e \in Instances : instance[e] \in {"booting", "ready"}} \subseteq 1 .. made
    BY InstancesAssumption DEF StoreInv, StoreTypeOK, Instances
  <2> QED BY <2>1 DEF StoreInv, StoreTypeOK, Enter, runDisposers
<1>2. InOrder' /\ LoadingIsCached' /\ NewestStays'
  BY DEF StoreInv, StoreTypeOK, InOrder, LoadingIsCached, NewestStays, Completed
<1>3. \A d \in Clients : AskedFor(d)'
  BY DEF StoreInv, StoreTypeOK, AskedFor, Enter
<1> QED BY <1>1, <1>2, <1>3 DEF StoreInv

\* An entry leaves the cache when it has failed, or when its disposal was asked for.
LEMMA EntryRemoved ==
    ASSUME StoreInv, NEW c \in Clients, Enter(c, NotCalling), removeEntry(client[c].entry),
           client[c].entry \in Instances =>
               \/ instance[client[c].entry] = "failed"
               \/ instance[client[c].entry] = "ready" /\ client[c].entry \in unwanted,
           UNCHANGED <<made, instance, previous, unwanted, lost>>
    PROVE  StoreInv'
<1>1. StoreTypeOK'
  BY WorksTyped DEF StoreInv, StoreTypeOK, Enter, removeEntry
<1>2. InOrder'
  BY DEF StoreInv, InOrder, Completed
<1>3. LoadingIsCached' /\ NewestStays'
  BY DEF StoreInv, StoreTypeOK, LoadingIsCached, NewestStays, Completed, removeEntry, stillCached, Instances
<1>4. \A d \in Clients : AskedFor(d)'
  BY WorksTyped DEF StoreInv, StoreTypeOK, AskedFor, Enter
<1> QED BY <1>1, <1>2, <1>3, <1>4 DEF StoreInv

\* A new entry becomes the newest; it boots if nothing is cached.
LEMMA EntryMade ==
    ASSUME StoreInv, NEW c \in Clients, NEW at, client[c] = NotCalling,
           at = IF cache = 0 THEN "booting" ELSE "replacing", newInstance(c, at, cache)
    PROVE  StoreInv'
<1>0. made \in Nat /\ made + 1 \in Instances /\ 1 .. made \subseteq Instances
  BY InstancesAssumption DEF StoreInv, StoreTypeOK, newInstance, Instances
<1>1. StoreTypeOK'
  <2>1. client' \in [Clients -> Works]
    BY <1>0, WorksTyped DEF StoreInv, StoreTypeOK, newInstance, Enter
  <2>2. instance' \in [Instances -> Phases] /\ previous' \in [Instances -> Nat]
    BY <1>0 DEF StoreInv, StoreTypeOK, newInstance, Phases
  <2>3. \A e \in Instances : instance'[e] = "none" <=> e > made'
    BY <1>0 DEF StoreInv, StoreTypeOK, newInstance, Instances
  <2> QED BY <1>0, <2>1, <2>2, <2>3 DEF StoreInv, StoreTypeOK, newInstance, Instances
<1>2. cache = 0 => \A d \in Instances : d <= made => Completed(d)
  <2> SUFFICES ASSUME cache = 0, NEW d \in Instances, d <= made PROVE Completed(d)
    OBVIOUS
  <2>1. made \in Instances /\ made # 0
    BY <1>0 DEF Instances
  <2>2. Completed(made)
    BY <2>1 DEF StoreInv, LoadingIsCached
  <2>3. d < made => Completed(d)
    BY <2>1, <2>2 DEF StoreInv, InOrder, Completed
  <2>4. d = made \/ d < made
    BY <1>0 DEF Instances
  <2> QED BY <2>2, <2>3, <2>4
<1>3. InOrder'
  <2> SUFFICES ASSUME NEW e \in Instances
               PROVE  /\ instance'[e] = "replacing" => e > 1 /\ previous'[e] = e - 1
                      /\ instance'[e] \notin {"none", "replacing"} =>
                            \A d \in Instances : d < e => Completed(d)'
    BY DEF InOrder
  <2>1. CASE e = made + 1
    BY <1>0, <1>2, <2>1 DEF StoreInv, StoreTypeOK, newInstance, Completed, Instances
  <2>2. CASE e # made + 1
    BY <1>0, <2>2 DEF StoreInv, StoreTypeOK, InOrder, newInstance, Completed, Instances
  <2> QED BY <2>1, <2>2
<1>4. LoadingIsCached' /\ NewestStays'
  BY <1>0 DEF StoreInv, StoreTypeOK, LoadingIsCached, NewestStays, newInstance
<1>5. \A d \in Clients : AskedFor(d)'
  BY <1>0, WorksTyped DEF StoreInv, StoreTypeOK, AskedFor, newInstance, Enter, Instances
<1> QED BY <1>1, <1>3, <1>4, <1>5 DEF StoreInv

\* An entry that goes on from where it was.
LEMMA Advances ==
    ASSUME StoreInv, NEW e \in Instances, NEW phase \in {"disposing", "booting", "ready", "failed"},
           instance[e] \in {"replacing", "disposing", "booting"},
           instance[e] = "replacing" => Completed(previous[e]),
           instance' = [instance EXCEPT ![e] = phase],
           UNCHANGED <<made, previous, client, unwanted>>,
           lost' \subseteq 1 .. made, made \notin lost' \/ made \in lost,
           IF phase = "failed" THEN removeEntry(e) ELSE UNCHANGED cache
    PROVE  StoreInv'
<1>0. made \in Nat /\ e \in Nat /\ made \in Instances
  BY InstancesAssumption DEF StoreInv, StoreTypeOK, Instances
<1>1. \A f \in Instances : instance'[f] = IF f = e THEN phase ELSE instance[f]
  BY DEF StoreInv, StoreTypeOK
<1>2. \A d \in Instances : d < e => Completed(d)
  <2>1. CASE instance[e] = "replacing"
    <3>0. e > 1 /\ previous[e] = e - 1
      BY <2>1 DEF StoreInv, InOrder
    <3>1. e - 1 \in Instances /\ Completed(e - 1)
      BY <1>0, <2>1, <3>0, InstancesAssumption DEF Completed, Instances
    <3>2. \A d \in Instances : d < e - 1 => Completed(d)
      BY <3>1 DEF StoreInv, InOrder, Completed
    <3>3. \A d \in Instances : d < e => d = e - 1 \/ d < e - 1
      BY <1>0 DEF Instances
    <3> QED BY <3>1, <3>2, <3>3
  <2>2. CASE instance[e] # "replacing"
    BY <2>2 DEF StoreInv, InOrder
  <2> QED BY <2>1, <2>2
<1>3. \A d \in Instances : Completed(d) => Completed(d)'
  BY <1>1 DEF Completed
<1>4. StoreTypeOK'
  <2>1. instance' \in [Instances -> Phases]
    BY DEF StoreInv, StoreTypeOK, Phases
  <2>2. \A f \in Instances : instance'[f] = "none" <=> f > made'
    BY <1>1 DEF StoreInv, StoreTypeOK
  <2> QED BY <2>1, <2>2 DEF StoreInv, StoreTypeOK, removeEntry
<1>5. InOrder'
  BY <1>0, <1>1, <1>2, <1>3 DEF StoreInv, InOrder, Completed
<1>6. LoadingIsCached' /\ NewestStays'
  BY <1>0, <1>1 DEF StoreInv, StoreTypeOK, LoadingIsCached, NewestStays, Completed, removeEntry, stillCached
<1>7. \A d \in Clients : AskedFor(d)'
  BY <1>1 DEF StoreInv, StoreTypeOK, AskedFor, Instances
<1> QED BY <1>4, <1>5, <1>6, <1>7 DEF StoreInv

\* What the fiber of an entry does.
LEMMA EntryMoves ==
    ASSUME StoreInv, NEW e \in Instances, disposePrevious(e) \/ bootReplacement(e) \/ completeLoad(e)
    PROVE  StoreInv'
<1>0. made \in Nat /\ e \in Nat /\ made \in Instances /\ Instances \subseteq Nat
  BY InstancesAssumption DEF StoreInv, StoreTypeOK, Instances,
     disposePrevious, bootReplacement, completeLoad
<1>1. CASE disposePrevious(e)
  <2>1. made # e => instance[made] = "replacing"
    BY <1>0, <1>1 DEF disposePrevious, StoreInv, StoreTypeOK, InOrder, Completed, Instances
  <2>2. {f \in Instances : instance[f] \in {"booting", "ready"}} \subseteq 1 .. made
    BY <1>0 DEF StoreInv, StoreTypeOK, Instances
  <2>3. lost' \subseteq 1 .. made /\ (made \notin lost' \/ made \in lost)
    BY <1>1, <2>1, <2>2 DEF disposePrevious, runDisposers, StoreInv, StoreTypeOK
  <2> QED BY <1>1, <2>3, Advances DEF disposePrevious
<1>2. CASE bootReplacement(e)
  BY <1>2, Advances DEF bootReplacement, StoreInv, StoreTypeOK
<1>3. CASE completeLoad(e)
  <2>1. CASE instance' = [instance EXCEPT ![e] = "ready"] /\ UNCHANGED cache
    BY <1>3, <2>1, Advances DEF completeLoad, StoreInv, StoreTypeOK
  <2>2. CASE instance' = [instance EXCEPT ![e] = "failed"] /\ removeEntry(e)
    BY <1>3, <2>2, Advances DEF completeLoad, StoreInv, StoreTypeOK
  <2> QED BY <1>3, <2>1, <2>2 DEF completeLoad
<1> QED BY <1>1, <1>2, <1>3

LEMMA ClientStep ==
    ASSUME StoreInv, NEW c \in Clients,
           \/ loadExisting(c) \/ loadNew(c) \/ reload(c) \/ loaded(c)
           \/ disposeDirectory(c) \/ \E e \in Instances : dispose(c, e)
           \/ disposeFailed(c) \/ disposeEntry(c) \/ disposed(c) \/ abandon(c)
    PROVE  StoreInv'
<1>0. /\ cache \in Nat /\ (cache # 0 => cache \in Instances) /\ Instances \subseteq Nat /\ client[c] \in Works
      /\ unwanted \subseteq Instances
  BY InstancesAssumption DEF StoreInv, StoreTypeOK, Instances
<1>1. CASE loadExisting(c)
  BY <1>0, <1>1, ClientMoves, WorksTyped DEF loadExisting, StoreInv, StoreTypeOK
<1>2. CASE loadNew(c) \/ reload(c)
  BY <1>2, EntryMade DEF loadNew, reload
<1>3. CASE loaded(c) \/ abandon(c)
  BY <1>0, <1>3, ClientMoves, WorksTyped DEF loaded, abandon
<1>4. CASE disposeDirectory(c)
  <2>1. CASE cache = 0
    BY <1>4, <2>1 DEF disposeDirectory, StoreInv, StoreTypeOK, InOrder, LoadingIsCached, NewestStays, AskedFor, Completed
  <2>2. CASE cache # 0
    <3>1. unwanted' \subseteq Instances /\ unwanted \subseteq unwanted' /\ cache \in unwanted'
      BY <1>0, <1>4, <2>2 DEF disposeDirectory
    <3>2. Enter(c, AtWork("dispose", cache, cache))
      BY <1>4, <2>2 DEF disposeDirectory
    <3> QED BY <1>0, <1>4, <3>1, <3>2, ClientMoves, WorksTyped DEF disposeDirectory
  <2> QED BY <2>1, <2>2
<1>5. ASSUME NEW e \in Instances, dispose(c, e) PROVE StoreInv'
  <2>1. e \in Nat /\ unwanted' \subseteq Instances /\ unwanted \subseteq unwanted' /\ e \in unwanted'
    BY <1>0, <1>5 DEF dispose
  <2>2. CASE cache = 0
    <3>1. Enter(c, AtWork("disposers", 0, e)) /\ runDisposers
      BY <1>5, <2>2 DEF dispose
    <3> QED BY <1>5, <2>1, <2>2, <3>1, DisposersRun, WorksTyped DEF dispose
  <2>3. CASE cache # 0
    <3>1. Enter(c, AtWork("dispose", cache, e)) /\ UNCHANGED lost
      BY <1>5, <2>3 DEF dispose
    <3> QED BY <1>0, <1>5, <2>1, <3>1, ClientMoves, WorksTyped DEF dispose
  <2> QED BY <2>2, <2>3
<1>6. CASE disposeFailed(c)
  BY <1>6, EntryRemoved DEF disposeFailed
<1>7. CASE disposeEntry(c)
  <2>1. CASE client[c].context = client[c].entry /\ stillCached(client[c].entry)
    <3> DEFINE work == [client[c] EXCEPT !.call = "disposers"]
    <3>1. /\ work \in Works /\ work.call = "disposers"
          /\ work.entry = client[c].entry /\ work.context = client[c].context
      BY <1>0 DEF Works
    <3>2. client[c].context \in unwanted
      BY <1>7 DEF disposeEntry, StoreInv, AskedFor
    <3> HIDE DEF work
    <3>3. Enter(c, work) /\ runDisposers /\ UNCHANGED <<cache, made, instance, previous, unwanted>>
      BY <1>7, <2>1 DEF disposeEntry, work
    <3>4. cache = work.context /\ work.entry = work.context /\ instance[work.entry] = "ready"
      BY <1>7, <2>1, <3>1 DEF disposeEntry, stillCached
    <3> QED BY <1>0, <3>1, <3>2, <3>3, <3>4, DisposersRun
  <2>2. CASE ~(client[c].context = client[c].entry /\ stillCached(client[c].entry))
    BY <1>0, <1>7, <2>2, ClientMoves, WorksTyped DEF disposeEntry
  <2> QED BY <2>1, <2>2
<1>8. CASE disposed(c)
  BY <1>0, <1>8, EntryRemoved DEF disposed, StoreInv, AskedFor, Instances
<1> QED BY <1>1, <1>2, <1>3, <1>4, <1>5, <1>6, <1>7, <1>8

LEMMA StoreInvStep == StoreInv /\ [StoreNext]_storeVars => StoreInv'
<1> SUFFICES ASSUME StoreInv, [StoreNext]_storeVars PROVE StoreInv'
  OBVIOUS
<1>1. CASE UNCHANGED storeVars
  BY <1>1 DEF storeVars, StoreInv, StoreTypeOK, InOrder, LoadingIsCached, NewestStays, AskedFor, Completed
<1>2. CASE StoreNext
  BY <1>2, ClientStep, EntryMoves DEF StoreNext
<1> QED BY <1>1, <1>2

LEMMA StoreInvAlways == StoreSpec => []StoreInv
BY StoreInitInv, StoreInvStep, PTL DEF StoreSpec

\* The newest instance keeps its place and its states until it fails or its own disposal
\* is asked for, however many clients load, reload, dispose and give up.
THEOREM NewestInstanceStays == StoreSpec => []NewestStays
<1>1. StoreInv => NewestStays
  BY DEF StoreInv
<1> QED BY <1>1, StoreInvAlways, PTL

\* The cache, the entries and the clients' works keep their types, and only the newest
\* entry is ever cached.
THEOREM StoreTyped == StoreSpec => []StoreTypeOK
<1>1. StoreInv => StoreTypeOK
  BY DEF StoreInv
<1> QED BY <1>1, StoreInvAlways, PTL

-----------------------------------------------------------------------------
(* Permission requests.  The Map is iterated in the order of insertion     *)
(* while requests come and go: what is created is inserted after the       *)
(* cursor of every reply, and what is still in the Map behind the cursor   *)
(* of a reply is what that reply decided to leave, save the item it is     *)
(* at.                                                                     *)

Resources == {ask.resource : ask \in Asks \cup {Nothing}}
RequestSteps == {"ready", "configured", "asking", "waiting", "done"}
ReplySteps == {"ready", "announce", "save", "settle", "reread", "sweep", "check", "tell", "returned"}
RequestRows == [at : RequestSteps, ask : Asks \cup {Nothing}]
ReplyRows == [at : ReplySteps, kind : {"none", "once", "always", "reject"}, request : SUBSET Requests, ask : Asks \cup {Nothing},
              remembered : SUBSET Resources, cursor : Nat, item : Asks \cup {Nothing},
              spared : SUBSET Requests]
Inserts == {q \in Requests : order[q] # 0}

PermissionTypeOK ==
    /\ saved \in SUBSET Resources
    /\ pending \in SUBSET Requests
    /\ order \in [Requests -> Nat]
    /\ IsFiniteSet(Inserts)
    /\ request \in [Requests -> RequestRows]
    /\ reply \in [Replies -> ReplyRows]

\* A request is inserted when it is created, after all that were inserted before,
\* and stays in the Map until it has its answer.
InMap(q) ==
    /\ order[q] <= Inserted
    /\ request[q].at \in {"ready", "configured"} => order[q] = 0
    /\ Unanswered(q) => q \in pending /\ order[q] # 0

InsertedOnce == \A q, r \in Requests : order[q] = order[r] /\ order[q] # 0 => q = r

\* What a reply leaves waiting, it has decided to leave.
Decided(p, q) ==
    /\ reply[p].kind = "reject" => request[q].ask.session # reply[p].ask.session
    /\ reply[p].kind = "always" =>
          request[q].ask.resource \notin reply[p].remembered \/ q \in reply[p].spared

Sweeping == {"sweep", "check", "tell"}

\* A reply that iterates has decided on every request up to its cursor, save the one
\* it is at.
Swept(p) ==
    reply[p].at \in Sweeping =>
        \A q \in Requests : Unanswered(q) /\ order[q] <= reply[p].cursor =>
            \/ Decided(p, q)
            \/ reply[p].at # "sweep" /\ order[q] = reply[p].cursor /\ request[q].ask = reply[p].item

Replying(p) ==
    /\ reply[p].cursor <= Inserted
    /\ reply[p].at \notin Sweeping => reply[p].cursor = 0
    /\ reply[p].at \in {"announce", "save", "settle", "reread"} => reply[p].kind \in {"once", "always", "reject"}
    /\ reply[p].at \in Sweeping => reply[p].kind \in {"always", "reject"}
    /\ reply[p].at \in {"reread", "check"} => reply[p].kind = "always"

PermissionInv ==
    /\ PermissionTypeOK
    /\ InsertedOnce
    /\ \A q \in Requests : InMap(q)
    /\ \A p \in Replies : Replying(p) /\ Swept(p)
-----------------------------------------------------------------------------
\* A set of natural numbers that is not empty has a least one.
Smaller == OpToRel(<, Nat)

LEMMA LeastExists ==
    ASSUME NEW T \in SUBSET Nat, T # {}
    PROVE  \E x \in T : \A y \in T : x <= y
<1>1. IsWellFoundedOn(Smaller, Nat)
  BY NatLessThanWellFounded, Zenon DEF Smaller
<1>2. PICK x \in T : \A y \in T : ~ (<<y, x>> \in Smaller)
  BY <1>1, WFMin, Zenon
<1>3. \A x1, y \in Nat : y < x1 => <<y, x1>> \in Smaller
  BY DEF Smaller, OpToRel
<1>4. ASSUME NEW y \in T PROVE x <= y
  <2>1. x \in Nat /\ y \in Nat
    OBVIOUS
  <2>2. ~ (y < x)
    BY <1>2, <1>3, <2>1, Zenon
  <2> QED BY <2>1, <2>2
<1> QED BY <1>4

LEMMA InsertedIsNat == ASSUME IsFiniteSet(Inserts) PROVE Inserted \in Nat
BY FS_CardinalityType DEF Inserted, Inserts

LEMMA RowsTyped ==
    /\ \A at \in RequestSteps, ask \in Asks \cup {Nothing} : Request(at, ask) \in RequestRows
    /\ \A at \in ReplySteps : NoReply(at) \in ReplyRows
<1>1. \A at \in RequestSteps, ask \in Asks \cup {Nothing} : Request(at, ask) \in RequestRows
  BY DEF Request, RequestRows
<1>2. {} \in SUBSET Requests /\ {} \in SUBSET Resources /\ Nothing \in Asks \cup {Nothing} /\ 0 \in Nat
  OBVIOUS
<1>3. \A at \in ReplySteps : NoReply(at) \in ReplyRows
  BY <1>2 DEF NoReply, ReplyRows
<1> QED BY <1>1, <1>3

LEMMA PermissionInitInv == PermissionInit => PermissionInv
<1> SUFFICES ASSUME PermissionInit PROVE PermissionInv
  OBVIOUS
<1>1. Inserts = {}
  BY DEF PermissionInit, Inserts
<1>2. IsFiniteSet(Inserts) /\ Inserted = 0
  BY <1>1, FS_EmptySet DEF Inserted, Inserts
<1>3. \A q \in Requests : order[q] = 0 /\ request[q].at = "ready"
  BY DEF PermissionInit, Request
<1>4. \A p \in Replies : reply[p].at = "ready" /\ reply[p].cursor = 0
  BY DEF PermissionInit, NoReply
<1>5. request \in [Requests -> RequestRows]
  <2>1. Request("ready", Nothing) \in RequestRows
    BY RowsTyped DEF RequestSteps, ReplySteps
  <2> QED BY <2>1 DEF PermissionInit
<1>6. reply \in [Replies -> ReplyRows]
  <2>1. NoReply("ready") \in ReplyRows
    BY RowsTyped DEF RequestSteps, ReplySteps
  <2> QED BY <2>1 DEF PermissionInit
<1>7. PermissionTypeOK
  BY <1>2, <1>5, <1>6 DEF PermissionInit, PermissionTypeOK
<1>8. InsertedOnce /\ \A q \in Requests : InMap(q)
  BY <1>2, <1>3 DEF InsertedOnce, InMap, Unanswered
<1>9. \A p \in Replies : Replying(p) /\ Swept(p)
  BY <1>2, <1>4 DEF Replying, Swept, Sweeping
<1> QED BY <1>7, <1>8, <1>9 DEF PermissionInv

\* A reply that rests stays right: nothing it has passed is made to wait again.
LEMMA ReplyRests ==
    ASSUME NEW p \in Replies, Replying(p), Swept(p), reply'[p] = reply[p],
           reply[p].cursor \in Nat, Inserted \in Nat, Inserted' \in Nat, Inserted <= Inserted',
           \A q \in Requests : Unanswered(q)' /\ order'[q] <= Inserted =>
              Unanswered(q) /\ order'[q] = order[q] /\ request'[q] = request[q],
           \A q \in Requests : order'[q] \in Nat
    PROVE  Replying(p)' /\ Swept(p)'
<1>1. Replying(p)'
  BY DEF Replying
<1>2. ASSUME NEW q \in Requests, Unanswered(q)', order'[q] <= reply[p].cursor
      PROVE  Unanswered(q) /\ order'[q] = order[q] /\ request'[q] = request[q]
  <2>1. order'[q] <= Inserted
    BY <1>2 DEF Replying
  <2> QED BY <1>2, <2>1
<1>3. Swept(p)'
  BY <1>2 DEF Swept, Decided
<1> QED BY <1>1, <1>3

-----------------------------------------------------------------------------
\* What a step of an asker leaves alone.
Alone(q) ==
    \A r \in Requests : r # q =>
        /\ request'[r] = request[r] /\ order'[r] = order[r]
        /\ (r \in pending' <=> r \in pending)
        /\ (Unanswered(r)' <=> Unanswered(r))

LEMMA AskerAlone ==
    ASSUME PermissionInv, NEW q \in Requests, assertStep(q)
    PROVE  reply' = reply /\ Alone(q)
<1>1. /\ reply' = reply
      /\ \A r \in Requests : r # q => request'[r] = request[r]
  BY DEF assertStep, configured, create, asked, awaited, RequestAt, Ends, PermissionInv, PermissionTypeOK
<1>2. \A r \in Requests : r # q => order'[r] = order[r]
  BY DEF assertStep, configured, create, asked, awaited, PermissionInv, PermissionTypeOK
<1>3. \A r \in Requests : r # q => (r \in pending' <=> r \in pending) /\ (r \in answered' <=> r \in answered)
  BY DEF assertStep, configured, create, asked, awaited
<1> QED BY <1>1, <1>2, <1>3 DEF Alone, Unanswered

LEMMA RequestMoves ==
    ASSUME NEW q \in Requests, request \in [Requests -> RequestRows],
           NEW at \in RequestSteps, RequestAt(q, at)
    PROVE  request' \in [Requests -> RequestRows] /\ request'[q] = [request[q] EXCEPT !.at = at]
<1>1. request[q].ask \in Asks \cup {Nothing}
  BY DEF RequestRows
<1>2. request' \in [Requests -> RequestRows]
  BY <1>1 DEF RequestAt, RequestRows
<1> QED BY <1>2 DEF RequestAt

LEMMA RequestSet ==
    ASSUME NEW q \in Requests, request \in [Requests -> RequestRows],
           NEW at \in RequestSteps, NEW ask \in Asks \cup {Nothing},
           request' = [request EXCEPT ![q] = Request(at, ask)]
    PROVE  request' \in [Requests -> RequestRows] /\ request'[q].at = at
<1>1. Request(at, ask) \in RequestRows
  BY RowsTyped
<1> QED BY <1>1 DEF Request

LEMMA RequestEnds ==
    ASSUME NEW q \in Requests, request \in [Requests -> RequestRows], Ends(q)
    PROVE  request' \in [Requests -> RequestRows] /\ request'[q].at = "done"
<1>1. request' = [request EXCEPT ![q] = Request("done", Nothing)]
  BY DEF Ends
<1>2. "done" \in RequestSteps /\ Nothing \in Asks \cup {Nothing}
  BY DEF RequestSteps
<1> QED BY <1>1, <1>2, RequestSet

\* A step that ends a request, or moves it on in the Map.
LEMMA AskerEnds ==
    ASSUME PermissionInv, NEW q \in Requests, assertStep(q), order' = order,
           request' \in [Requests -> RequestRows], pending' \subseteq pending,
           \/ request'[q].at \in {"done", "configured"} /\ (request'[q].at = "configured" => order[q] = 0)
           \/ /\ request[q].at = "asking" /\ request'[q] = [request[q] EXCEPT !.at = "waiting"]
              /\ pending' = pending /\ answered' = answered
    PROVE  PermissionInv'
<1>1. Inserts' = Inserts /\ Inserted' = Inserted
  BY DEF Inserts, Inserted
<1>2. Inserted \in Nat
  BY InsertedIsNat DEF PermissionInv, PermissionTypeOK
<1>3. reply' = reply /\ Alone(q)
  BY AskerAlone
<1>4. Unanswered(q)' => /\ Unanswered(q) /\ q \in pending' /\ request'[q].ask = request[q].ask
                        /\ request[q].at = "asking" /\ request'[q].at = "waiting"
  BY DEF Unanswered, PermissionInv, PermissionTypeOK, InMap, RequestRows
<1>5. saved' = saved
  BY DEF assertStep, configured, create, asked, awaited
<1>6. PermissionTypeOK'
  BY <1>1, <1>3, <1>5 DEF PermissionInv, PermissionTypeOK
<1>7. ASSUME NEW r \in Requests PROVE InMap(r)'
  <2>1. CASE r = q
    <3>1. request'[q].at \in {"ready", "configured"} => order[q] = 0
      BY DEF PermissionInv, PermissionTypeOK, RequestRows
    <3> QED BY <1>1, <1>4, <2>1, <3>1 DEF PermissionInv, InMap
  <2>2. CASE r # q
    BY <1>1, <1>3, <2>2 DEF PermissionInv, InMap, Alone
  <2> QED BY <2>1, <2>2
<1>8. ASSUME NEW p \in Replies PROVE Replying(p)' /\ Swept(p)'
  <2>1. Replying(p) /\ Swept(p)
    BY DEF PermissionInv
  <2>2. ASSUME NEW r \in Requests, Unanswered(r)'
        PROVE  Unanswered(r) /\ request'[r].ask = request[r].ask
    <3>1. CASE r = q
      BY <1>4, <2>2, <3>1
    <3>2. CASE r # q
      BY <1>3, <2>2, <3>2 DEF Alone
    <3> QED BY <3>1, <3>2
  <2> QED BY <1>1, <1>3, <2>1, <2>2 DEF Replying, Swept, Decided
<1>9. InsertedOnce'
  BY DEF InsertedOnce, PermissionInv
<1> QED BY <1>6, <1>7, <1>8, <1>9 DEF PermissionInv

\* A request that is created comes after all that were.
LEMMA AskerCreates ==
    ASSUME PermissionInv, NEW q \in Requests, create(q), RequestAt(q, "asking"),
           pending' = pending \cup {q}, order' = [order EXCEPT ![q] = Inserted + 1]
    PROVE  PermissionInv'
<1>1. order[q] = 0 /\ q \notin Inserts /\ IsFiniteSet(Inserts)
  BY DEF create, PermissionInv, PermissionTypeOK, InMap, Inserts
<1>2. Inserted \in Nat
  BY <1>1, InsertedIsNat
<1>3. order' \in [Requests -> Nat]
  BY <1>2 DEF PermissionInv, PermissionTypeOK
<1>4. order'[q] = Inserted + 1 /\ \A r \in Requests : r # q => order'[r] = order[r]
  BY DEF PermissionInv, PermissionTypeOK
<1>5. Inserts' = Inserts \cup {q}
  BY <1>2, <1>4 DEF Inserts
<1>6. IsFiniteSet(Inserts') /\ Inserted' = Inserted + 1
  <2>1. IsFiniteSet(Inserts \cup {q}) /\ Cardinality(Inserts \cup {q}) = Cardinality(Inserts) + 1
    BY <1>1, FS_AddElement
  <2>2. Inserted = Cardinality(Inserts) /\ Inserted' = Cardinality(Inserts')
    BY DEF Inserted, Inserts
  <2> QED BY <1>5, <2>1, <2>2
<1>7. assertStep(q)
  BY DEF assertStep
<1>8. reply' = reply /\ Alone(q)
  BY <1>7, AskerAlone
<1>9. request' \in [Requests -> RequestRows] /\ request'[q].at = "asking"
  <2>1. request \in [Requests -> RequestRows]
    BY DEF PermissionInv, PermissionTypeOK
  <2>2. request' \in [Requests -> RequestRows]
    BY <2>1, RequestMoves DEF RequestSteps
  <2> QED BY <2>1, <2>2 DEF RequestAt, RequestRows
<1>10. saved' = saved
  BY DEF create
<1>11. PermissionTypeOK'
  BY <1>3, <1>6, <1>8, <1>9, <1>10 DEF PermissionInv, PermissionTypeOK
<1>12. ASSUME NEW r \in Requests PROVE InMap(r)'
  <2>1. CASE r = q
    BY <1>2, <1>4, <1>6, <1>9, <2>1 DEF InMap
  <2>2. CASE r # q
    <3>1. InMap(r) /\ order[r] \in Nat
      BY DEF PermissionInv, PermissionTypeOK
    <3> QED BY <1>2, <1>4, <1>6, <1>8, <2>2, <3>1 DEF InMap, Alone
  <2> QED BY <2>1, <2>2
<1>13. InsertedOnce'
  <2>1. \A r \in Requests : order[r] \in Nat /\ order[r] <= Inserted
    BY DEF PermissionInv, PermissionTypeOK, InMap
  <2>2. \A r \in Requests : r # q => order'[r] # order'[q]
    BY <1>2, <1>4, <2>1
  <2> QED BY <1>4, <2>2 DEF InsertedOnce, PermissionInv
<1>14. ASSUME NEW p \in Replies PROVE Replying(p)' /\ Swept(p)'
  <2>1. Replying(p) /\ Swept(p) /\ reply[p].cursor \in Nat
    BY DEF PermissionInv, PermissionTypeOK, ReplyRows
  <2>2. ASSUME NEW r \in Requests, Unanswered(r)', order'[r] <= Inserted
        PROVE  Unanswered(r) /\ order'[r] = order[r] /\ request'[r] = request[r]
    <3>1. r # q
      BY <1>2, <1>4, <2>2
    <3> QED BY <1>4, <1>8, <2>2, <3>1 DEF Alone
  <2>3. \A r \in Requests : order'[r] \in Nat
    BY <1>3
  <2> QED BY <1>2, <1>6, <1>8, <2>1, <2>2, <2>3, ReplyRests
<1> QED BY <1>11, <1>12, <1>13, <1>14 DEF PermissionInv

LEMMA AskerStep ==
    ASSUME PermissionInv, NEW q \in Requests, assertStep(q)
    PROVE  PermissionInv'
<1>1. request \in [Requests -> RequestRows] /\ request[q] \in RequestRows
  BY DEF PermissionInv, PermissionTypeOK
<1>2. CASE configured(q)
  <2>1. /\ request[q].at = "ready" /\ order[q] = 0 /\ order' = order /\ pending' = pending
    BY <1>2 DEF configured, PermissionInv, InMap
  <2>3. request' \in [Requests -> RequestRows] /\ request'[q].at \in {"done", "configured"}
    <3>1. CASE Ends(q)
      BY <1>1, <3>1, RequestEnds
    <3>2. ASSUME NEW ask \in Asks, request' = [request EXCEPT ![q] = Request("configured", ask)]
          PROVE  request' \in [Requests -> RequestRows] /\ request'[q].at \in {"done", "configured"}
      BY <1>1, <3>2, RequestSet DEF RequestSteps
    <3> QED BY <1>2, <3>1, <3>2 DEF configured
  <2> QED BY <2>1, <2>3, AskerEnds
<1>3. CASE create(q)
  <2>1. CASE Ends(q) /\ UNCHANGED <<pending, order>>
    <3>1. request' \in [Requests -> RequestRows] /\ request'[q].at = "done"
      BY <1>1, <2>1, RequestEnds
    <3> QED BY <2>1, <3>1, AskerEnds
  <2>2. CASE RequestAt(q, "asking") /\ pending' = pending \cup {q} /\ order' = [order EXCEPT ![q] = Inserted + 1]
    BY <1>3, <2>2, AskerCreates
  <2> QED BY <1>3, <2>1, <2>2 DEF create
<1>4. CASE asked(q)
  <2>1. request[q].at = "asking" /\ order' = order /\ answered' = answered
    BY <1>4 DEF asked
  <2>2. CASE RequestAt(q, "waiting") /\ UNCHANGED pending
    <3>1. request' \in [Requests -> RequestRows] /\ request'[q] = [request[q] EXCEPT !.at = "waiting"]
      BY <1>1, <2>2, RequestMoves DEF RequestSteps
    <3> QED BY <2>1, <2>2, <3>1, AskerEnds
  <2>3. CASE Ends(q) /\ pending' = pending \ {q}
    <3>1. request' \in [Requests -> RequestRows] /\ request'[q].at = "done"
      BY <1>1, <2>3, RequestEnds
    <3> QED BY <2>1, <2>3, <3>1, AskerEnds
  <2> QED BY <1>4, <2>2, <2>3 DEF asked
<1>5. CASE awaited(q)
  <2>1. Ends(q) /\ pending' = pending \ {q} /\ order' = order
    BY <1>5 DEF awaited
  <2>2. request' \in [Requests -> RequestRows] /\ request'[q].at = "done"
    BY <1>1, <2>1, RequestEnds
  <2> QED BY <2>1, <2>2, AskerEnds
<1> QED BY <1>2, <1>3, <1>4, <1>5 DEF assertStep
-----------------------------------------------------------------------------
\* A step of a reply: the others rest, and what it settles waits no more.
Turned(p, at) ==
    /\ reply' \in [Replies -> ReplyRows]
    /\ \A r \in Replies : r # p => reply'[r] = reply[r]
    /\ reply'[p].at = at

Keeps(p) ==
    /\ reply'[p].kind = reply[p].kind /\ reply'[p].cursor = reply[p].cursor
    /\ reply'[p].ask = reply[p].ask /\ reply'[p].remembered = reply[p].remembered

\* No request waits that did not, and what waits is in the Map.
NoneWaitsAnew == \A q \in Requests : Unanswered(q)' => Unanswered(q) /\ q \in pending'

LEMMA Settles ==
    ASSUME PermissionInv, NEW asks \in SUBSET Requests, Settle(asks), UNCHANGED <<order, request>>
    PROVE  /\ pending' \in SUBSET Requests /\ NoneWaitsAnew
           /\ \A q \in asks : ~ Unanswered(q)'
BY DEF Settle, PermissionInv, PermissionTypeOK, InMap, Unanswered, NoneWaitsAnew

LEMMA NoneSettled ==
    ASSUME PermissionInv, UNCHANGED <<pending, order, request, answered>>
    PROVE  pending' \in SUBSET Requests /\ NoneWaitsAnew
BY DEF PermissionInv, PermissionTypeOK, InMap, Unanswered, NoneWaitsAnew

LEMMA ReplyMoves ==
    ASSUME PermissionInv, NEW p \in Replies, NEW at, Turned(p, at),
           UNCHANGED <<order, request>>, saved' \in SUBSET Resources, pending' \in SUBSET Requests,
           NoneWaitsAnew, Replying(p)', Swept(p)'
    PROVE  PermissionInv'
<1>1. Inserts' = Inserts /\ Inserted' = Inserted /\ Inserted \in Nat
  BY InsertedIsNat DEF Inserts, Inserted, PermissionInv, PermissionTypeOK
<1>2. PermissionTypeOK'
  BY <1>1 DEF PermissionInv, PermissionTypeOK, Turned
<1>3. InsertedOnce' /\ \A q \in Requests : InMap(q)'
  BY <1>1 DEF PermissionInv, InsertedOnce, InMap, NoneWaitsAnew
<1>4. ASSUME NEW r \in Replies PROVE Replying(r)' /\ Swept(r)'
  <2>1. CASE r = p
    BY <2>1
  <2>2. CASE r # p
    <3>1. reply'[r] = reply[r] /\ reply[r].cursor \in Nat /\ Replying(r) /\ Swept(r)
      BY <2>2 DEF Turned, PermissionInv, PermissionTypeOK, ReplyRows
    <3>2. \A q \in Requests : Unanswered(q)' => Unanswered(q) /\ order'[q] = order[q] /\ request'[q] = request[q]
      BY DEF NoneWaitsAnew
    <3>3. \A q \in Requests : order'[q] \in Nat
      BY DEF PermissionInv, PermissionTypeOK
    <3>4. Inserted' \in Nat /\ Inserted <= Inserted'
      BY <1>1
    <3> QED BY <1>1, <3>1, <3>2, <3>3, <3>4, ReplyRests
  <2> QED BY <2>1, <2>2
<1> QED BY <1>2, <1>3, <1>4 DEF PermissionInv

LEMMA ReplyReturns ==
    ASSUME PermissionInv, NEW p \in Replies, Return(p), UNCHANGED <<order, request>>
    PROVE  Turned(p, "returned") /\ Replying(p)' /\ Swept(p)'
<1>1. reply \in [Replies -> ReplyRows] /\ NoReply("returned") \in ReplyRows
  BY RowsTyped DEF PermissionInv, PermissionTypeOK, ReplySteps
<1>2. Turned(p, "returned") /\ reply'[p].cursor = 0
  BY <1>1 DEF Return, Turned, NoReply
<1>3. Inserted' = Inserted /\ Inserted \in Nat
  BY InsertedIsNat DEF Inserted, PermissionInv, PermissionTypeOK
<1> QED BY <1>2, <1>3 DEF Turned, Replying, Swept, Sweeping

LEMMA ReplyGoes ==
    ASSUME PermissionInv, NEW p \in Replies, NEW at \in ReplySteps, ReplyAt(p, at)
    PROVE  Turned(p, at) /\ Keeps(p) /\ reply'[p].item = reply[p].item /\ reply'[p].spared = reply[p].spared
<1>1. reply \in [Replies -> ReplyRows] /\ reply[p] \in ReplyRows
  BY DEF PermissionInv, PermissionTypeOK
<1>2. [reply[p] EXCEPT !.at = at] \in ReplyRows
  BY <1>1 DEF ReplyRows
<1>3. reply' = [reply EXCEPT ![p] = [reply[p] EXCEPT !.at = at]]
  BY DEF ReplyAt
<1>4. reply' \in [Replies -> ReplyRows] /\ \A r \in Replies : r # p => reply'[r] = reply[r]
  BY <1>1, <1>2, <1>3
<1>5. reply'[p] = [reply[p] EXCEPT !.at = at]
  BY <1>1, <1>3
<1> QED BY <1>1, <1>4, <1>5 DEF Turned, Keeps, ReplyRows

LEMMA ReplyNexts ==
    ASSUME PermissionInv, NEW p \in Replies, NextOf(p)
    PROVE  Turned(p, "sweep") /\ Keeps(p) /\ reply'[p].spared = reply[p].spared
<1> DEFINE new == [reply[p] EXCEPT !.at = "sweep", !.item = Nothing]
<1>1. reply \in [Replies -> ReplyRows] /\ reply[p] \in ReplyRows
  BY DEF PermissionInv, PermissionTypeOK
<1>2. new \in ReplyRows
  BY <1>1 DEF ReplyRows, ReplySteps
<1>3. /\ new.at = "sweep" /\ new.kind = reply[p].kind /\ new.cursor = reply[p].cursor
      /\ new.ask = reply[p].ask /\ new.remembered = reply[p].remembered /\ new.spared = reply[p].spared
  BY <1>1 DEF ReplyRows
<1>4. reply' = [reply EXCEPT ![p] = new]
  BY DEF NextOf
<1> HIDE DEF new
<1>5. reply' \in [Replies -> ReplyRows] /\ reply'[p] = new /\ \A r \in Replies : r # p => reply'[r] = reply[r]
  BY <1>1, <1>2, <1>4
<1> QED BY <1>3, <1>5 DEF Turned, Keeps

\* A reply that does not iterate yet, or begins to, has passed nothing.
LEMMA Unswept ==
    ASSUME PermissionInv, NEW p \in Replies, UNCHANGED <<order, request>>, NoneWaitsAnew,
           reply'[p].cursor = 0
    PROVE  Swept(p)'
<1>1. \A q \in Requests : Unanswered(q)' => order[q] \in Nat /\ order[q] # 0
  BY DEF NoneWaitsAnew, PermissionInv, PermissionTypeOK, InMap
<1> QED BY <1>1 DEF Swept

\* The steps before a reply iterates.
LEMMA ReplyBegins ==
    ASSUME PermissionInv, NEW p \in Replies,
           beginReply(p) \/ announce(p) \/ saveRule(p) \/ settleReply(p) \/ readRemembered(p)
    PROVE  PermissionInv'
<1> DEFINE row == reply[p]
<1>1. /\ reply \in [Replies -> ReplyRows] /\ row \in ReplyRows /\ Replying(p) /\ row.cursor \in Nat
      /\ row.at \notin Sweeping /\ row.cursor = 0
  BY DEF PermissionInv, PermissionTypeOK, ReplyRows, Replying, Sweeping, beginReply, announce, saveRule,
     settleReply, readRemembered
<1>2. UNCHANGED <<order, request>> /\ Inserted' = Inserted /\ Inserted \in Nat
  BY InsertedIsNat DEF Inserted, PermissionInv, PermissionTypeOK, beginReply, announce, saveRule,
     settleReply, readRemembered
<1>3. saved' \in SUBSET Resources
  BY <1>1 DEF beginReply, announce, saveRule, settleReply, readRemembered, PermissionInv, PermissionTypeOK,
     Resources, ReplyRows
<1>4. pending' \in SUBSET Requests /\ NoneWaitsAnew
  <2>1. CASE settleReply(p)
    BY <1>1, <1>2, <2>1, Settles DEF settleReply, ReplyRows
  <2>2. CASE ~ settleReply(p)
    BY <2>2, NoneSettled DEF beginReply, announce, saveRule, readRemembered
  <2> QED BY <2>1, <2>2
<1>5. CASE Return(p)
  BY <1>2, <1>3, <1>4, <1>5, ReplyReturns, ReplyMoves
<1>6. ASSUME ~Return(p), NEW at, Turned(p, at), reply'[p].cursor = 0,
             reply'[p].kind \in {"once", "always", "reject"},
             at \in {"announce", "save", "settle", "reread", "sweep"},
             at = "reread" => reply'[p].kind = "always",
             at = "sweep" => reply'[p].kind # "once"
      PROVE  PermissionInv'
  <2>1. Replying(p)'
    BY <1>2, <1>6 DEF Turned, Replying, Sweeping
  <2>2. Swept(p)'
    BY <1>2, <1>4, <1>6, Unswept
  <2> QED BY <1>2, <1>3, <1>4, <1>6, <2>1, <2>2, ReplyMoves
<1>7. CASE ~Return(p) /\ beginReply(p)
  <2>1. PICK q \in pending, kind \in {"once", "always", "reject"} :
          reply' = [reply EXCEPT ![p].at = "announce", ![p].kind = kind,
                                 ![p].request = {q}, ![p].ask = request[q].ask]
    BY <1>7 DEF beginReply
  <2>2. {q} \in SUBSET Requests /\ request[q].ask \in Asks \cup {Nothing} /\ "announce" \in ReplySteps
    BY DEF PermissionInv, PermissionTypeOK, RequestRows, ReplySteps
  <2> DEFINE new == [row EXCEPT !.at = "announce", !.kind = kind, !.request = {q}, !.ask = request[q].ask]
  <2>3. new \in ReplyRows
    BY <1>1, <2>2 DEF ReplyRows
  <2>4. new.at = "announce" /\ new.kind = kind /\ new.cursor = 0
    BY <1>1 DEF ReplyRows
  <2>5. reply' = [reply EXCEPT ![p] = new]
    BY <2>1
  <2> HIDE DEF new
  <2>6. Turned(p, "announce") /\ reply'[p].cursor = 0 /\ reply'[p].kind = kind
    BY <1>1, <2>3, <2>4, <2>5 DEF Turned
  <2> QED BY <1>6, <1>7, <2>6
<1>8. CASE ~Return(p) /\ readRemembered(p)
  <2>1. row.at = "reread" /\ reply' = [reply EXCEPT ![p].at = "sweep", ![p].remembered = saved]
    BY <1>8 DEF readRemembered
  <2>2. saved \in SUBSET Resources /\ "sweep" \in ReplySteps /\ row.kind = "always"
    BY <1>1, <2>1 DEF PermissionInv, PermissionTypeOK, ReplySteps, Replying
  <2> DEFINE new == [row EXCEPT !.at = "sweep", !.remembered = saved]
  <2>3. new \in ReplyRows
    BY <1>1, <2>2 DEF ReplyRows
  <2>4. new.at = "sweep" /\ new.kind = "always" /\ new.cursor = 0
    BY <1>1, <2>2 DEF ReplyRows
  <2>5. reply' = [reply EXCEPT ![p] = new]
    BY <2>1
  <2> HIDE DEF new
  <2>6. Turned(p, "sweep") /\ reply'[p].cursor = 0 /\ reply'[p].kind = "always"
    BY <1>1, <2>3, <2>4, <2>5 DEF Turned
  <2> QED BY <1>6, <1>8, <2>6
<1>9. CASE ~Return(p) /\ (announce(p) \/ saveRule(p) \/ settleReply(p))
  <2>1. row.kind \in {"once", "always", "reject"}
    BY <1>1, <1>9 DEF announce, saveRule, settleReply, Replying
  <2>2. PICK at \in {"save", "settle", "reread", "sweep"} :
          /\ ReplyAt(p, at)
          /\ at = "reread" => row.kind = "always"
          /\ at = "sweep" => row.kind # "once"
    BY <1>9, <2>1 DEF announce, saveRule, settleReply
  <2>3. Turned(p, at) /\ Keeps(p)
    BY <2>2, ReplyGoes DEF ReplySteps
  <2> QED BY <1>1, <1>6, <1>9, <2>1, <2>2, <2>3 DEF Keeps
<1> QED BY <1>5, <1>7, <1>8, <1>9
-----------------------------------------------------------------------------
\* The iteration.  The next item is one the reply is concerned with, and what it
\* passes over is none of its concern.
LEMMA NextIsLeast ==
    ASSUME PermissionInv, NEW p \in Replies, Concerned(p) # {}
    PROVE  NextItem(p) # {}
<1> DEFINE Places == {order[q] : q \in Concerned(p)}
<1>1. Concerned(p) \subseteq Requests
  BY DEF Concerned, Ahead, PermissionInv, PermissionTypeOK
<1>2. Places \in SUBSET Nat /\ Places # {}
  BY <1>1 DEF PermissionInv, PermissionTypeOK
<1>3. PICK n \in Places : \A m \in Places : n <= m
  BY <1>2, LeastExists
<1>4. PICK q \in Concerned(p) : n = order[q]
  BY <1>3
<1>5. \A r \in Concerned(p) : order[q] <= order[r]
  BY <1>3, <1>4
<1> QED BY <1>4, <1>5 DEF NextItem

\* What still waits beyond the cursor is ahead of the iterator.
LEMMA BeyondCursor ==
    ASSUME PermissionInv, NEW p \in Replies, NEW q \in Requests, Unanswered(q),
           ~(order[q] <= reply[p].cursor), q \notin Concerned(p)
    PROVE  reply[p].kind = "reject" /\ request[q].ask.session # reply[p].ask.session
<1>1. q \in pending /\ order[q] \in Nat /\ reply[p].cursor \in Nat
  BY DEF PermissionInv, PermissionTypeOK, InMap, ReplyRows
<1> QED BY <1>1 DEF Concerned, Ahead

LEMMA SweepStep ==
    ASSUME PermissionInv, NEW p \in Replies, sweep(p)
    PROVE  PermissionInv'
<1> DEFINE row == reply[p]
<1>1. /\ reply \in [Replies -> ReplyRows] /\ row \in ReplyRows /\ row.cursor \in Nat
      /\ row.at = "sweep" /\ row.kind \in {"always", "reject"}
      /\ UNCHANGED <<saved, pending, order, request, answered>>
  BY DEF sweep, PermissionInv, PermissionTypeOK, ReplyRows, Replying, Sweeping
<1>2. /\ UNCHANGED <<order, request>> /\ Inserted' = Inserted /\ saved' \in SUBSET Resources
      /\ pending' \in SUBSET Requests /\ NoneWaitsAnew
  BY <1>1, NoneSettled DEF Inserted, PermissionInv, PermissionTypeOK
<1>3. CASE Return(p)
  BY <1>2, <1>3, ReplyReturns, ReplyMoves
<1>4. ASSUME NEW q \in NextItem(p),
             reply' = [reply EXCEPT ![p].at = IF row.kind = "always" THEN "check" ELSE "tell",
                                    ![p].cursor = order[q], ![p].item = request[q].ask]
      PROVE  PermissionInv'
  <2> DEFINE at == IF row.kind = "always" THEN "check" ELSE "tell"
             new == [row EXCEPT !.at = at, !.cursor = order[q], !.item = request[q].ask]
  <2>1. /\ q \in Requests /\ order[q] \in Nat /\ order[q] <= Inserted
        /\ request[q].ask \in Asks \cup {Nothing} /\ at \in ReplySteps
    BY DEF NextItem, Concerned, Ahead, PermissionInv, PermissionTypeOK, InMap, RequestRows, ReplySteps
  <2>2. new \in ReplyRows
    BY <1>1, <2>1 DEF ReplyRows
  <2>3. /\ new.at = at /\ new.kind = row.kind /\ new.cursor = order[q] /\ new.item = request[q].ask
        /\ new.ask = row.ask /\ new.remembered = row.remembered /\ new.spared = row.spared
    BY <1>1 DEF ReplyRows
  <2>4. reply' = [reply EXCEPT ![p] = new]
    BY <1>4
  <2>5. at \in {"check", "tell"} /\ (at = "check" => row.kind = "always")
    OBVIOUS
  <2> HIDE DEF new, at
  <2>6. Turned(p, at) /\ reply'[p] = new
    BY <1>1, <2>2, <2>3, <2>4 DEF Turned
  <2>7. Replying(p)'
    BY <1>1, <1>2, <2>1, <2>3, <2>5, <2>6 DEF Replying, Sweeping
  <2>8. ASSUME NEW r \in Requests, Unanswered(r)', order[r] <= order[q]
        PROVE  Decided(p, r)' \/ (order[r] = order[q] /\ request[r].ask = request[q].ask)
    <3>1. Unanswered(r) /\ Swept(p) /\ InMap(r)
      BY <1>2, <2>8 DEF NoneWaitsAnew, PermissionInv
    <3>2. Decided(p, r) => Decided(p, r)'
      BY <1>1, <2>3, <2>6 DEF Decided
    <3>3. CASE order[r] <= row.cursor
      BY <1>1, <3>1, <3>2, <3>3 DEF Swept, Sweeping
    <3>4. CASE ~(order[r] <= row.cursor) /\ r \notin Concerned(p)
      <4>1. row.kind = "reject" /\ request[r].ask.session # row.ask.session
        BY <3>1, <3>4, BeyondCursor
      <4> QED BY <3>2, <4>1 DEF Decided
    <3>5. CASE r \in Concerned(p)
      <4>1. order[q] <= order[r] /\ order[r] \in Nat /\ order[r] # 0
        BY <3>1, <3>5 DEF NextItem, InMap, PermissionInv, PermissionTypeOK
      <4>2. order[r] = order[q]
        BY <2>1, <2>8, <4>1
      <4>3. r = q
        BY <2>1, <4>1, <4>2 DEF PermissionInv, InsertedOnce
      <4> QED BY <4>3
    <3> QED BY <3>3, <3>4, <3>5
  <2>9. Swept(p)'
    BY <1>1, <2>3, <2>5, <2>6, <2>8 DEF Swept
  <2> QED BY <1>2, <2>6, <2>7, <2>9, ReplyMoves
<1> QED BY <1>3, <1>4 DEF sweep

\* Back to the iteration, with the item decided on: denied, not remembered or answered.
LEMMA ReplyResumes ==
    ASSUME PermissionInv, NEW p \in Replies, reply[p].at \in {"check", "tell"},
           UNCHANGED <<order, request>>, saved' \in SUBSET Resources, pending' \in SUBSET Requests,
           NoneWaitsAnew, Turned(p, "sweep"), Keeps(p), reply[p].spared \subseteq reply'[p].spared,
           \A q \in Requests : Unanswered(q)' /\ order[q] = reply[p].cursor
              /\ request[q].ask = reply[p].item => Decided(p, q)'
    PROVE  PermissionInv'
<1>1. Inserted' = Inserted
  BY DEF Inserted
<1>2. Replying(p)'
  BY <1>1 DEF PermissionInv, Replying, Turned, Keeps, Sweeping
<1>3. ASSUME NEW q \in Requests, Unanswered(q)', order[q] <= reply[p].cursor
      PROVE  Decided(p, q)'
  <2>1. Unanswered(q) /\ Swept(p)
    BY <1>3 DEF NoneWaitsAnew, PermissionInv
  <2>2. CASE Decided(p, q)
    BY <2>2 DEF Decided, Keeps
  <2>3. CASE ~Decided(p, q)
    BY <1>3, <2>1, <2>3 DEF Swept, Sweeping
  <2> QED BY <2>2, <2>3
<1>4. Swept(p)'
  BY <1>3 DEF Swept, Keeps
<1> QED BY <1>2, <1>4, ReplyMoves

LEMMA CheckStep ==
    ASSUME PermissionInv, NEW p \in Replies, check(p)
    PROVE  PermissionInv'
<1> DEFINE row == reply[p]
<1>1. /\ reply \in [Replies -> ReplyRows] /\ row \in ReplyRows /\ row.cursor \in Nat
      /\ row.at = "check" /\ row.kind = "always"
      /\ UNCHANGED <<saved, pending, order, request, answered>>
  BY DEF check, PermissionInv, PermissionTypeOK, ReplyRows, Replying
<1>2. /\ UNCHANGED <<order, request>> /\ Inserted' = Inserted /\ saved' \in SUBSET Resources
      /\ pending' \in SUBSET Requests /\ NoneWaitsAnew
  BY <1>1, NoneSettled DEF Inserted, PermissionInv, PermissionTypeOK
<1>3. ASSUME NEW more \in SUBSET Requests,
             reply' = [reply EXCEPT ![p].at = "sweep", ![p].item = Nothing, ![p].spared = row.spared \cup more],
             \/ more = Reached(p)
             \/ row.item.resource \notin row.remembered
      PROVE  PermissionInv'
  <2> DEFINE new == [row EXCEPT !.at = "sweep", !.item = Nothing, !.spared = row.spared \cup more]
  <2>1. row.spared \cup more \in SUBSET Requests /\ "sweep" \in ReplySteps /\ Nothing \in Asks \cup {Nothing}
    BY <1>1 DEF ReplyRows, ReplySteps
  <2>2. new \in ReplyRows
    BY <1>1, <2>1 DEF ReplyRows
  <2>3. /\ new.at = "sweep" /\ new.kind = row.kind /\ new.cursor = row.cursor
        /\ new.ask = row.ask /\ new.remembered = row.remembered /\ new.spared = row.spared \cup more
    BY <1>1 DEF ReplyRows
  <2>4. reply' = [reply EXCEPT ![p] = new]
    BY <1>3
  <2> HIDE DEF new
  <2>5. Turned(p, "sweep") /\ reply'[p] = new
    BY <1>1, <2>2, <2>3, <2>4 DEF Turned
  <2>6. Keeps(p) /\ reply[p].spared \subseteq reply'[p].spared
    BY <2>3, <2>5 DEF Keeps
  <2>7. ASSUME NEW q \in Requests, order[q] = row.cursor, request[q].ask = row.item
        PROVE  Decided(p, q)'
    <3>1. q \in Reached(p)
      BY <2>7 DEF Reached
    <3>2. request'[q].ask.resource \notin reply'[p].remembered \/ q \in reply'[p].spared
      BY <1>1, <1>3, <2>3, <2>5, <2>7, <3>1
    <3>3. reply'[p].kind = "always"
      BY <1>1, <2>3, <2>5
    <3> QED BY <3>2, <3>3 DEF Decided
  <2> QED BY <1>1, <1>2, <2>5, <2>6, <2>7, ReplyResumes
<1>4. CASE reply' = [reply EXCEPT ![p].at = "sweep", ![p].item = Nothing, ![p].spared = @ \cup Reached(p)]
  <2>1. Reached(p) \in SUBSET Requests
    BY DEF Reached
  <2> QED BY <1>3, <1>4, <2>1
<1>5. CASE row.item.resource \notin row.remembered /\ NextOf(p)
  <2>1. Turned(p, "sweep") /\ Keeps(p) /\ reply'[p].spared = row.spared
    BY <1>1, <1>5, ReplyNexts
  <2>2. ASSUME NEW q \in Requests, order[q] = row.cursor, request[q].ask = row.item
        PROVE  Decided(p, q)'
    BY <1>1, <1>5, <2>1, <2>2 DEF Decided, Keeps
  <2> QED BY <1>1, <1>2, <2>1, <2>2, ReplyResumes
<1>6. CASE ReplyAt(p, "tell")
  <2>1. Turned(p, "tell") /\ Keeps(p) /\ reply'[p].item = row.item /\ reply'[p].spared = row.spared
    BY <1>6, ReplyGoes DEF ReplySteps
  <2>2. Replying(p)'
    BY <1>1, <1>2, <2>1 DEF PermissionInv, Replying, Turned, Keeps, Sweeping
  <2>3. Swept(p)'
    BY <1>1, <1>2, <2>1 DEF PermissionInv, Swept, Turned, Keeps, Sweeping, NoneWaitsAnew, Decided
  <2> QED BY <1>2, <2>1, <2>2, <2>3, ReplyMoves
<1>7. CASE Return(p)
  BY <1>2, <1>7, ReplyReturns, ReplyMoves
<1> QED BY <1>4, <1>5, <1>6, <1>7 DEF check

LEMMA TellStep ==
    ASSUME PermissionInv, NEW p \in Replies, tell(p)
    PROVE  PermissionInv'
<1> DEFINE row == reply[p]
<1>1. row.at = "tell" /\ UNCHANGED <<saved, order, request>> /\ saved' \in SUBSET Resources
  BY DEF tell, PermissionInv, PermissionTypeOK
<1>2. CASE Settle(Reached(p)) /\ NextOf(p)
  <2>1. Turned(p, "sweep") /\ Keeps(p) /\ reply'[p].spared = row.spared
    BY <1>2, ReplyNexts
  <2>2. Reached(p) \in SUBSET Requests
    BY DEF Reached
  <2>3. pending' \in SUBSET Requests /\ NoneWaitsAnew /\ \A q \in Reached(p) : ~ Unanswered(q)'
    BY <1>1, <1>2, <2>2, Settles
  <2>4. \A q \in Requests : order[q] = row.cursor => ~ Unanswered(q)'
    BY <2>3 DEF Reached
  <2> QED BY <1>1, <2>1, <2>3, <2>4, ReplyResumes
<1>3. CASE Return(p) /\ UNCHANGED <<pending, answered>>
  BY <1>1, <1>3, NoneSettled, ReplyReturns, ReplyMoves
<1> QED BY <1>2, <1>3 DEF tell

-----------------------------------------------------------------------------
LEMMA PermissionStep == PermissionInv /\ [PermissionNext]_permissionVars => PermissionInv'
<1> SUFFICES ASSUME PermissionInv, [PermissionNext]_permissionVars PROVE PermissionInv'
  OBVIOUS
<1>1. ASSUME UNCHANGED <<order, request, reply>>, saved' \in SUBSET Resources, pending' \in SUBSET Requests,
             NoneWaitsAnew
      PROVE  PermissionInv'
  <2>1. Inserts' = Inserts /\ Inserted' = Inserted
    BY <1>1 DEF Inserts, Inserted
  <2> QED BY <1>1, <2>1 DEF PermissionInv, PermissionTypeOK, InsertedOnce, InMap, NoneWaitsAnew, Replying, Swept,
             Decided
<1>2. CASE UNCHANGED permissionVars \/ selectAgent
  <2>1. UNCHANGED <<saved, pending, order, request, answered, reply>>
    BY <1>2 DEF permissionVars, selectAgent
  <2> QED BY <1>1, <2>1, NoneSettled DEF PermissionInv, PermissionTypeOK
<1>3. CASE finalize
  <2>1. pending \in SUBSET Requests /\ saved' \in SUBSET Resources /\ UNCHANGED <<order, request, reply>>
    BY <1>3 DEF finalize, PermissionInv, PermissionTypeOK
  <2> QED BY <1>1, <1>3, <2>1, Settles DEF finalize
<1> QED BY <1>2, <1>3, AskerStep, ReplyBegins, SweepStep, CheckStep, TellStep DEF PermissionNext, replyStep

\* A reply moves by its own steps only.
LEMMA OthersRest ==
    ASSUME PermissionInv, PermissionNext, NEW p \in Replies, reply'[p] # reply[p]
    PROVE  replyStep(p)
<1>1. ASSUME NEW r \in Replies, replyStep(r), r # p
      PROVE  FALSE
  BY <1>1 DEF replyStep, beginReply, announce, saveRule, settleReply, readRemembered, sweep, check, tell,
     ReplyAt, NextOf, Return, PermissionInv, PermissionTypeOK
<1>2. reply' # reply
  OBVIOUS
<1>3. \E r \in Replies : replyStep(r)
  BY <1>2, AskerAlone DEF PermissionNext, selectAgent, finalize
<1> QED BY <1>1, <1>3

\* When a reply returns from its iteration, every request that still waits is one it
\* decided to leave: not of the Session it rejected, or not covered by the approval it
\* remembered, or denied by the rules that were read for it (permission.ts, reply).
THEOREM RepliesLeaveNone == PermissionSpec => SweepsAreComplete
<1> DEFINE Complete ==
      \A p \in Replies : reply[p].at = "sweep" /\ reply'[p].at = "returned" =>
          \A q \in Requests : Unanswered(q) =>
              /\ reply[p].kind = "reject" => request[q].ask.session # reply[p].ask.session
              /\ reply[p].kind = "always" =>
                    request[q].ask.resource \notin reply[p].remembered \/ q \in reply[p].spared
<1>1. PermissionInv /\ [PermissionNext]_permissionVars => [Complete]_permissionVars
  <2> SUFFICES ASSUME PermissionInv, PermissionNext,
                      NEW p \in Replies, reply[p].at = "sweep", reply'[p].at = "returned",
                      NEW q \in Requests, Unanswered(q)
               PROVE  Decided(p, q)
    BY DEF Decided
  <2>1. sweep(p)
    BY OthersRest DEF replyStep, beginReply, announce, saveRule, settleReply, readRemembered, check, tell
  <2>2. NextItem(p) = {}
    <3>1. ASSUME NEW r \in NextItem(p),
                 reply' = [reply EXCEPT ![p].at = IF reply[p].kind = "always" THEN "check" ELSE "tell",
                                        ![p].cursor = order[r], ![p].item = request[r].ask]
          PROVE  FALSE
      BY <3>1 DEF PermissionInv, PermissionTypeOK, ReplyRows
    <3> QED BY <2>1, <3>1 DEF sweep
  <2>3. Concerned(p) = {}
    BY <2>2, NextIsLeast
  <2>4. CASE order[q] <= reply[p].cursor
    BY <2>4 DEF PermissionInv, Swept, Sweeping
  <2>5. CASE ~(order[q] <= reply[p].cursor)
    <3>1. reply[p].kind = "reject" /\ request[q].ask.session # reply[p].ask.session
      BY <2>3, <2>5, BeyondCursor
    <3> QED BY <3>1 DEF Decided
  <2> QED BY <2>4, <2>5
<1> QED BY PermissionInitInv, PermissionStep, <1>1, PTL DEF PermissionSpec, SweepsAreComplete
=============================================================================
