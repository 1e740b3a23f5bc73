\* A picture of known demand and its worker, under every change of the policy.
SPECIFICATION LiveSpec
CONSTANTS
    chat = chat
    image = image
    picture = picture
    i1 = i1
    m1 = m1
    NoKey = NoKey
    NoModel = NoModel
    NoJob = NoJob
    NoWorker = NoWorker
    Jobs = {image}
    Workers = {m1}
    WorkerLane <- MCWorkerLane
    LaneOf <- MCLaneOf
    OrderingKey <- MCOrderingKey
    ModelKey <- MCModelKey
    Latency <- MCLatency
    Coordinated <- MCCoordinated
    Demand <- MCDemand
PROPERTIES
    HeldJobsLeave
CHECK_DEADLOCK FALSE
