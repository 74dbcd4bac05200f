--------------------------- MODULE MCReconciliation ---------------------------
\* Small instances of Reconciliation for TLC.
EXTENDS Reconciliation, TLC

OneType == [o \in Owner |-> 1]
TypePerOwner == [o \in Owner |-> o]
JobPerOwner == [j \in Job |-> j]
Symmetry == Permutations(Main) \cup Permutations(Slot)
=============================================================================
