--------------------------- MODULE MCFreedomPool ---------------------------
(* Small instances of FreedomPool for TLC. *)
EXTENDS FreedomPool, TLC

CONSTANT DebtBound      \* how far below zero global_idle is explored

\* Slots are interchangeable, and so are tasks and pools.
Symmetry == Permutations(Slots) \cup Permutations(Tasks) \cup Permutations(Pools)

\* With evictions a unit can be given back twice, so global_idle has no lower
\* bound of its own.
BoundedNext == Next /\ globalIdle' >= -DebtBound
BoundedSpec == Init /\ [][BoundedNext]_vars
=============================================================================
