\* docs and comments of task_contracts.py: a planned edit waits for its confirmation.
SPECIFICATION TurnsSpec
CONSTANTS
    job1 = job1
    Jobs = {job1}
    MaxRestarts = 1
    MaxEvents = 4
    MaxDeltas = 3
    Turns <- MCTurns
    MaxPlanned = 1
    MaxStops = 1
INVARIANT
    EditsWaitForConfirmation
CHECK_DEADLOCK FALSE
