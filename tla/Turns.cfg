\* A turn or a picture as one job; a reply of three deltas with a buffer too
\* small for its six events; one turn with all that follows it.
SPECIFICATION TurnsSpec
CONSTANTS
    job1 = job1
    Jobs = {job1}
    MaxRestarts = 1
    MaxEvents = 4
    MaxDeltas = 3
    Turns <- MCTurns
    MaxPlanned = 1
    MaxStops = 1
INVARIANTS
    ReplyIffCompleted
    StoriesAgree
    StreamIsFaithful
    FollowupsInvariant
PROPERTIES
    KeepsContract
    EverybodyIsAnswered
    FollowersReturn
    FollowupsEnd
CHECK_DEADLOCK FALSE
