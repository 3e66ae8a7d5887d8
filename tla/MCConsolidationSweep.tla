------------------------ MODULE MCConsolidationSweep ------------------------
EXTENDS ConsolidationSweep
Note(value, age, witnessed) == [value |-> value, age |-> age, witnessed |-> witnessed]
MCNotes == <<Note(1, 1, TRUE), Note(2, 1, TRUE), Note(3, 1, TRUE), Note(3, 1, FALSE)>>
WitnessedNotes == [n \in DOMAIN MCNotes |-> [MCNotes[n] EXCEPT !.witnessed = TRUE]]
=============================================================================
