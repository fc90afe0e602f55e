------------------------------ MODULE EventFeed ------------------------------
(***************************************************************************)
(* What packages/core/src/event.ts promises the users of publish, replay   *)
(* and aggregateEvents: per aggregate one sequence of events that grows at *)
(* its end only, and tails that read it from a position of their choice to *)
(* its end, in order.  There are no tables, owners, fibers or signals.     *)
(***************************************************************************)
EXTENDS Integers, Sequences

CONSTANTS Aggregates, EventIDs, Contents, Readers, MaxSeq

VARIABLES
    feed,   \* the events of each aggregate, in order
    tail    \* each reader's aggregate and how many of its events it has passed

vars == <<feed, tail>>

Entries == [id : EventIDs, content : Contents]

Used(i) == \E a \in Aggregates : \E n \in DOMAIN feed[a] : feed[a][n].id = i

Init ==
    /\ feed = [a \in Aggregates |-> <<>>]
    /\ tail \in [Readers -> [open : {FALSE}, aggregateID : Aggregates, position : {0}]]

Add(a) ==
    \E entry \in Entries :
        /\ ~Used(entry.id)
        /\ feed' = [feed EXCEPT ![a] = Append(@, entry)]
        /\ UNCHANGED tail

Erase(a) ==
    /\ feed' = [feed EXCEPT ![a] = <<>>]
    /\ UNCHANGED tail

Open(r) ==
    /\ ~tail[r].open
    /\ \E a \in Aggregates, n \in 0 .. MaxSeq + 1 :
          tail' = [tail EXCEPT ![r] = [open |-> TRUE, aggregateID |-> a, position |-> n]]
    /\ UNCHANGED feed

\* The reader takes everything behind its position.
Take(r) ==
    /\ tail[r].open /\ tail[r].position < Len(feed[tail[r].aggregateID])
    /\ tail' = [tail EXCEPT ![r] = [open |-> TRUE, aggregateID |-> tail[r].aggregateID,
                                    position |-> Len(feed[tail[r].aggregateID])]]
    /\ UNCHANGED feed

\* Readers leave, one by one or all at once.
Leave ==
    \E left \in SUBSET Readers :
        /\ \E at \in [left -> Aggregates] :
              tail' = [r \in Readers |->
                  IF r \in left THEN [open |-> FALSE, aggregateID |-> at[r], position |-> 0] ELSE tail[r]]
        /\ UNCHANGED feed

Next ==
    \/ \E a \in Aggregates : Add(a) \/ Erase(a)
    \/ \E r \in Readers : Open(r) \/ Take(r)
    \/ Leave

Spec == Init /\ [][Next]_vars

FairSpec == Spec /\ \A r \in Readers : WF_vars(Take(r))
=============================================================================
