---------------------------- MODULE MCTaskBroker ----------------------------
\* Small instances of TaskBroker for TLC.
EXTENDS TaskBroker

OneType == [x \in Runner \cup Request |-> "javascript"]
=============================================================================
