----------------------------- MODULE MCEventLog -----------------------------
(* Constants of EventLog for model checking. *)
EXTENDS EventLog, TLC

CONSTANTS s1, s2, i1, i2, i3, x, y, w1, w2, f1, f2, r1

MCAggregates == {s1}
MCEventIDs == {i1, i2, i3}
MCContents == {x, y}
MCOneContent == {x}
MCOwners == {w1, w2}
MCNoOwner == {}
MCFibers == {f1, f2}
MCReaders == {r1}
MCNoReader == {}

Sent(i, at, n, c) == [id |-> i, aggregateID |-> at, seq |-> n, content |-> c]

\* One history in full and in parts, and another server's own second event.
MCWire == {<<Sent(i1, s1, 0, x), Sent(i2, s1, 1, x)>>, <<Sent(i1, s1, 0, x)>>, <<Sent(i2, s1, 1, x)>>,
           <<Sent(i2, s1, 1, x), Sent(i3, s1, 2, x)>>, <<Sent(i3, s1, 1, x)>>}

MCOneWire == {<<Sent(i2, s1, 1, x)>>}

Symmetry == Permutations(MCFibers) \cup Permutations(MCOwners)
=============================================================================
