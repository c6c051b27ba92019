--------------------------- MODULE MCCircuitHops ---------------------------
EXTENDS CircuitHops

\* A route of three hops is built and fails at every point.
Long == [hops |-> 3, streams |-> <<>>, most |-> 1, faults |-> TRUE]
\* One stream, through two hops and three, larger than its first window.
One == [hops |-> 2, streams |-> <<[writes |-> 2, replies |-> 2]>>, most |-> 1, faults |-> FALSE]
Far == [One EXCEPT !.hops = 3]
\* Two streams share the circuit's window and queues.
Both == [hops |-> 2, streams |-> <<[writes |-> 0, replies |-> 1], [writes |-> 0, replies |-> 1]>>,
         most |-> 2, faults |-> FALSE]
\* Two streams, one at a time: the exit may still hold the first.
Turns == [hops |-> 2, streams |-> <<[writes |-> 1, replies |-> 1], [writes |-> 1, replies |-> 0]>>,
          most |-> 1, faults |-> FALSE]
\* One stream, and everything that can fail.
Faulty == [hops |-> 2, streams |-> <<[writes |-> 1, replies |-> 0]>>, most |-> 1, faults |-> TRUE]

MCScenes == {Long, One, Far, Both, Turns, Faulty}
=============================================================================
