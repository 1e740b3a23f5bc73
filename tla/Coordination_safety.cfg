\* One worker of each lane, a chat reply and a picture of known demand.
SPECIFICATION Spec
CONSTANTS
    chat = chat
    image = image
    picture = picture
    i1 = i1
    m1 = m1
    NoKey = NoKey
    NoModel = NoModel
    NoJob = NoJob
    NoWorker = NoWorker
    Jobs = {chat, image}
    Workers = {i1, m1}
    WorkerLane <- MCWorkerLane
    LaneOf <- MCLaneOf
    OrderingKey <- MCOrderingKey
    ModelKey <- MCModelKey
    Latency <- MCLatency
    Coordinated <- MCCoordinated
    Demand <- MCDemand
INVARIANTS
    LeaseIsSound
    PostJobReleaseAlone
    RejectedNeverExecutes
PROPERTIES
    WorkersKeepOrder
CHECK_DEADLOCK FALSE
