\* Order, yielding and progress while every job is admitted; identities are used again without end.
SPECIFICATION LiveSpec
CONSTANTS
    turn1 = turn1
    turn2 = turn2
    task = task
    image = image
    i1 = i1
    i2 = i2
    m1 = m1
    chatKey = chatKey
    chatModel = chatModel
    taskModel = taskModel
    imageModel = imageModel
    NoKey = NoKey
    NoModel = NoModel
    NoJob = NoJob
    NoWorker = NoWorker
    WorkerLane <- MCWorkerLane
    LaneOf <- MCLaneOf
    OrderingKey <- MCOrderingKey
    ModelKey <- MCModelKey
    Latency <- MCLatency
    Coordinated <- MCCoordinated
    Jobs = {turn1, turn2, task}
    Workers = {i1}
    Answers <- FixedAnswer
    Recycle = TRUE
PROPERTIES
    CausalOrder
    QueueMovesOn
