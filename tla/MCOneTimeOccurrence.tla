------------------------ MODULE MCOneTimeOccurrence ------------------------
(* Small instances of OneTimeOccurrence. *)
EXTENDS OneTimeOccurrence

CONSTANTS p1, p2

\* The first process may die and be started again, the second stays.
OneRestart == [p \in Processes |-> IF p = p1 THEN 2 ELSE 1]

\* One process on its own, started up to three times.
TwoRestarts == [p \in Processes |-> 3]
=============================================================================
