--------------------------- MODULE MCRetentionLoop ---------------------------
\* Small instances of RetentionLoop for TLC.
EXTENDS RetentionLoop, TLC

CONSTANTS a, c
\* Occurrences that succeed again and again, and some that failed.
OnePerWindow == a :> 1 @@ c :> 2
=============================================================================
