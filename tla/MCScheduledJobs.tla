--------------------------- MODULE MCScheduledJobs ---------------------------
\* Small instances of ScheduledJobs for TLC.
EXTENDS ScheduledJobs, TLC

Dense == {[kind |-> "cron", at |-> 1], [kind |-> "one_off", at |-> 2]}
Mixed == {[kind |-> "cron", at |-> 2], [kind |-> "interval", at |-> 1],
          [kind |-> "one_off", at |-> 2]}
Recurring == {[kind |-> "cron", at |-> 2], [kind |-> "interval", at |-> 1]}
SameOwner == [j \in Job |-> "o"]
Symmetry == Permutations(Main)
=============================================================================
