\* A cancellation and a completion that both read the job before either commits.
SPECIFICATION LiveSpec
CONSTANTS
    job1 = job1
    Jobs = {job1}
    MaxRestarts = 1
INVARIANT
    OneTerminalEvent
CHECK_DEADLOCK FALSE
