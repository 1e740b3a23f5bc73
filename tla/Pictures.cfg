SPECIFICATION PicturesSpec
CONSTANTS
    Request1 = Request1
    Request2 = Request2
    Request3 = Request3
    Requests = {Request1, Request2, Request3}
    s1 = s1
    s2 = s2
    c1 = c1
    c2 = c2
    Sessions = {s1, s2}
    MaxJobs = 2
    MaxRestarts = 1
    References = {1, 2}
    MaxRevision = 3
    SlowOps = {"put", "grant", "withdraw", "add", "approve", "reject", "delete", "compare"}
    Resources <- MCResources
    Recipe <- MCRecipe
    AutoPreset = "auto"
    Generates = {"adapter"}
    Loras = {}
    Estimate <- MCEstimate
    Budget = 5
    Mechanism = "reference_adapter"
    MaxEdits = 2
    Callers = {c1, c2}
    Models = {"m1", "m2"}
    CatalogLoras = {"l1"}
    Legacy = {"m2"}
    File <- MCFile
    Starters <- MCStarters
    MaxCalls = 3
    n1 = n1
    n2 = n2
    n3 = n3
    Nodes = {n1, n2, n3}
    Workflows <- MCWorkflows
    Pictures = {1, 2, 3}
    SetFrames = {2, 3}
    Entries = {1, 2, 3}
    Chats = {"a", "b"}
    EntryLimit = 2
    SetFrameLimit = 2
SYMMETRY SessionsAlike
INVARIANTS
    RequestsInvariant
    ReplacedOnce
    SearchIsExact
    VerdictIsProof
    LibraryInvariant
PROPERTIES
    ConsentHolds
    PlansHold
    ImportsHold
CHECK_DEADLOCK FALSE
