SPECIFICATION ContextSpec
CONSTANTS
 MaxTurns = 4
 Budget = 6
 Threshold = 4
 ChunkBudget = 3
 Floor = 2
 Preserve = 2
 MaxPasses = 2
 Instructions = 2
INVARIANT CompactionNeverFailsATurn
CHECK_DEADLOCK FALSE
