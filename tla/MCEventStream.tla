----------------------------- MODULE MCEventStream -----------------------------
\* EventStream with interchangeable connections and requests.
EXTENDS EventStream, TLC

Identities == Permutations(Sockets) \cup Permutations(Tasks)

\* EventsOf says, by a correspondence of places, what a selection computes.
Events(q) == SelectSeq(q, LAMBDA m : m # Pong)

Short == UNION {[1..n -> 0..2] : n \in 0..3}

ASSUME EventsOfSelects == \A q, o \in Short : EventsOf(o, q) <=> o = Events(q)

=============================================================================
