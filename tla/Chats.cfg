\* Two memories of two texts; a chat of four turns; a reply of five letters; two
\* tasks, two workspaces, two recordings and two archives.
SPECIFICATION ChatsSpec
CONSTANTS
    t1 = t1
    t2 = t2
    r1 = r1
    r2 = r2
    s1 = s1
    s2 = s2
    a1 = a1
    a2 = a2
    w1 = w1
    w2 = w2
    Memories = {1, 2}
    Texts = {t1, t2}
    MaxEvents = 1
    Scopes = {"persona"}
    MaxTurns = 4
    Budget = 6
    Threshold = 4
    ChunkBudget = 3
    Floor = 2
    Preserve = 2
    MaxPasses = 2
    Instructions = 2
    MaxLetters = 5
    MaxChunk = 3
    Tasks = {r1, r2}
    Providers = {"ollama", "openai"}
    Modelless = {"ollama"}
    MaxProfiles = 1
    Workspaces = {w1, w2}
    Images = {"a", "b"}
    Speeches = {s1, s2}
    HotLimit = 1
    Crashes = TRUE
    Admins = {a1, a2}
    Artifacts = {1, 2}
    MediaDirs <- MCDirs
    DirOf <- MCDirOf
    SnapshotLimit = 1
SYMMETRY Alike
INVARIANTS
    MemoryInvariant
    ContextInvariant
    OutputInvariant
    TaskInvariant
    SpeechInvariant
    BackupInvariant
PROPERTIES
    ChatsMoveOn
CHECK_DEADLOCK FALSE
