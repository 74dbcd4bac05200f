-------------------------- MODULE MCScheduledTasks --------------------------
EXTENDS ScheduledTasks, TLC
Symmetry == Permutations(Host)
=============================================================================
