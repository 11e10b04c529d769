------------------------------- MODULE MCKcp -------------------------------
EXTENDS Kcp, SequencesExt

\* The fragments of messages of the given sizes, written one after the other.
Units(sizes) ==
    LET Add(units, k) ==
            units \o [i \in 1..k |-> [msg |-> Len(units), frg |-> k - i]]
    IN  FoldLeft(Add, <<>>, sizes)

\* With windows of two: two messages pending, a queue filled by the fragments of
\* the third, and a fourth that finds the window closed.
Burst == Units(<<1, 1, 2, 1>>)

\* The user writes the whole burst before the first tick and nothing afterwards.
BurstSpec ==
    /\ Started(Burst)
    /\ [][Next]_vars
    /\ Fairness
=============================================================================
