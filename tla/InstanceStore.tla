--------------------------- MODULE InstanceStore ----------------------------
(***************************************************************************)
(* The cache of instances (packages/opencode/src/project/instance-store.ts)*)
(* seen from one directory: clients load, reload and dispose it while it   *)
(* boots, while the disposers of its states run, and while others do the   *)
(* same.                                                                   *)
(*                                                                         *)
(* The code up to its next suspension is one step.  Entries of the cache   *)
(* are numbered in the order they are made; an entry's deferred, its       *)
(* context and its fiber have the entry's number.                          *)
(***************************************************************************)
EXTENDS Naturals

CONSTANTS
    Clients,        \* fibers that call the store
    MaxInstances    \* bound: entries made

ASSUME InstancesAssumption == MaxInstances \in Nat

VARIABLES
    cache,          \* the directory's entry, 0 for none
    made,           \* entries made so far
    instance,       \* each entry's fiber, and how its deferred was completed
    previous,       \* the entry a reload replaces
    client,         \* where each client is: its call, the entry and the context it is for
    unwanted,       \* history: instances somebody asked to dispose
    lost            \* history: instances whose states were disposed

storeVars == <<cache, made, instance, previous, client, unwanted, lost>>

Instances == 1 .. MaxInstances
AtWork(call, e, context) == [call |-> call, entry |-> e, context |-> context]
NotCalling == AtWork("none", 0, 0)
Enter(c, work) == client' = [client EXCEPT ![c] = work]

Completed(e) == instance[e] \in {"ready", "failed"}

\* Mutant: the entry that was found is taken to be the one that is cached.
stillCachedBefore(e) == e <= made

\* cache.get(directory) === entry
stillCached(e) == cache = e

removeEntry(e) == cache' = IF stillCached(e) THEN 0 ELSE cache

\* The disposers drop the states of the directory at once, and take time to close them.
runDisposers == lost' = lost \cup {e \in Instances : instance[e] \in {"booting", "ready"}}

-----------------------------------------------------------------------------
(* load and reload.                                                         *)

newInstance(c, at, replaced) ==
    /\ made < MaxInstances
    /\ made' = made + 1
    /\ cache' = made + 1
    /\ instance' = [instance EXCEPT ![made + 1] = at]
    /\ previous' = [previous EXCEPT ![made + 1] = replaced]
    /\ Enter(c, AtWork("load", made + 1, 0))
    /\ UNCHANGED <<unwanted, lost>>

loadExisting(c) ==
    /\ client[c] = NotCalling
    /\ cache # 0
    /\ Enter(c, AtWork("load", cache, 0))
    /\ UNCHANGED <<cache, made, instance, previous, unwanted, lost>>

loadNew(c) == client[c] = NotCalling /\ cache = 0 /\ newInstance(c, "booting", 0)

reload(c) ==
    /\ client[c] = NotCalling
    /\ newInstance(c, IF cache = 0 THEN "booting" ELSE "replacing", cache)

\* A reload waits for what it replaces, whether that boots or fails, and disposes its states.
disposePrevious(e) ==
    /\ instance[e] = "replacing" /\ Completed(previous[e])
    /\ instance' = [instance EXCEPT ![e] = "disposing"]
    /\ runDisposers
    /\ UNCHANGED <<cache, made, previous, client, unwanted>>

bootReplacement(e) ==
    /\ instance[e] = "disposing"
    /\ instance' = [instance EXCEPT ![e] = "booting"]
    /\ UNCHANGED <<cache, made, previous, client, unwanted, lost>>

completeLoad(e) ==
    /\ instance[e] = "booting"
    /\ \/ instance' = [instance EXCEPT ![e] = "ready"] /\ UNCHANGED cache
       \/ instance' = [instance EXCEPT ![e] = "failed"] /\ removeEntry(e)
    /\ UNCHANGED <<made, previous, client, unwanted, lost>>

loaded(c) ==
    /\ client[c].call = "load" /\ Completed(client[c].entry)
    /\ Enter(c, NotCalling)
    /\ UNCHANGED <<cache, made, instance, previous, unwanted, lost>>

-----------------------------------------------------------------------------
(* dispose, disposeDirectory and disposeAll.                                *)

\* A context some load has returned; it may be an old one.
dispose(c, e) ==
    /\ client[c] = NotCalling /\ instance[e] = "ready"
    /\ unwanted' = unwanted \cup {e}
    /\ IF cache = 0 THEN Enter(c, AtWork("disposers", 0, e)) /\ runDisposers
                    ELSE Enter(c, AtWork("dispose", cache, e)) /\ UNCHANGED lost
    /\ UNCHANGED <<cache, made, instance, previous>>

\* disposeAll finds the entry in the same way, and comes back to it later.
disposeDirectory(c) ==
    /\ client[c] = NotCalling
    /\ IF cache = 0
          THEN UNCHANGED <<client, unwanted>>
          ELSE unwanted' = unwanted \cup {cache} /\ Enter(c, AtWork("dispose", cache, cache))
    /\ UNCHANGED <<cache, made, instance, previous, lost>>

\* The entry that was found has loaded, or failed to.
disposeFailed(c) ==
    /\ client[c].call = "dispose" /\ instance[client[c].entry] = "failed"
    /\ removeEntry(client[c].entry)
    /\ Enter(c, NotCalling)
    /\ UNCHANGED <<made, instance, previous, unwanted, lost>>

disposeEntry(c) ==
    /\ client[c].call = "dispose" /\ instance[client[c].entry] = "ready"
    /\ IF client[c].context = client[c].entry /\ stillCached(client[c].entry)
          THEN Enter(c, [client[c] EXCEPT !.call = "disposers"]) /\ runDisposers
          ELSE Enter(c, NotCalling) /\ UNCHANGED lost
    /\ UNCHANGED <<cache, made, instance, previous, unwanted>>

disposed(c) ==
    /\ client[c].call = "disposers"
    /\ removeEntry(client[c].entry)
    /\ Enter(c, NotCalling)
    /\ UNCHANGED <<made, instance, previous, unwanted, lost>>

\* A client is interrupted while it waits; boots and disposers go on.
abandon(c) ==
    /\ client[c] # NotCalling
    /\ Enter(c, NotCalling)
    /\ UNCHANGED <<cache, made, instance, previous, unwanted, lost>>

-----------------------------------------------------------------------------
StoreInit ==
    /\ cache = 0 /\ made = 0
    /\ instance = [e \in Instances |-> "none"]
    /\ previous = [e \in Instances |-> 0]
    /\ client = [c \in Clients |-> NotCalling]
    /\ unwanted = {} /\ lost = {}

StoreNext ==
    \/ \E c \in Clients :
          \/ loadExisting(c) \/ loadNew(c) \/ reload(c) \/ loaded(c)
          \/ disposeDirectory(c) \/ \E e \in Instances : dispose(c, e)
          \/ disposeFailed(c) \/ disposeEntry(c) \/ disposed(c) \/ abandon(c)
    \/ \E e \in Instances : disposePrevious(e) \/ bootReplacement(e) \/ completeLoad(e)

StoreSpec == StoreInit /\ [][StoreNext]_storeVars

-----------------------------------------------------------------------------
(* Properties                                                               *)

\* "stale dispose does not delete an in-flight reload" (test/project/instance.test.ts:166):
\* the newest instance stays in the cache with its states, from before it boots until it
\* fails or somebody asks for its own disposal, whatever disposals, reloads and failures
\* of earlier ones still end.
NewestStays ==
    made # 0 /\ instance[made] # "failed" /\ made \notin unwanted => cache = made /\ made \notin lost
=============================================================================
