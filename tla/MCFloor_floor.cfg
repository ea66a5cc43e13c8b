SPECIFICATION FloorSpec
CONSTANTS
    Scenes = {"lines", "audio", "playout", "stations", "after", "sessions", "requests", "queue", "decisions"}
    Cooldowns = {0, 2}
    Waits = {2, 4, 9}
    Floor = 3
    Ceiling = 6
    RapidBackoff = 3
    StallBackoff = 2
    Threshold = 2
    Quarantine = 5
    Stale = FALSE
    MaxTime = 8
    MaxStrikes = 3
    None = None
    AudioCalls = {one, two}
    MaxMics = 3
    MaxContexts = 2
    MaxStops = 1
    NoAudioCall = none
    BacklogHigh = 8
    BacklogLow = 4
    StartLead = 2
    Replayed = 4
    PendingLimit = 10
    Slack = 2
    Processes = {left, right}
    Sockets = {one, two}
    Nowhere = nowhere
    NoSocket = nosocket
    Talks = {one, two}
    People = {l1}
    Agents = {left, right}
    Returns = {k1, k2}
    Intents = {i1}
    Nobody = nobody
    RetryDelay = 1
    IntentTTL = 1
    LastHour = 1
    Rows = {one, two}
    WaxSessions = {1, 2}
    Workers = {left, right}
    NoSession = 0
    NoWorker = noworker
    Requests = {q1, q2, q3}
    Chains = {c1}
    NoRequest = norequest
    MaxAttempts = 2
    Interval = 1
    LastMoment = 3
    QueueLine <- TwoLeads
    FolderOrder <- TwoFolders
    FolderOf <- InFolders
    Dialers = {left, right}
    NoLead = nolead
    Batch = 1
    MaxTurns = 2
    MaxSwitches = 0
    MaxTickFailures = 1
    Unasked = unasked
    Drives = {one, two}
    NoDrive = nodrive
    Longest = 3
SYMMETRY Alike
INVARIANTS
    TypeOK AudioInv LagBounded   GatewayInv DialingInv
PROPERTIES
       FloorKept
CHECK_DEADLOCK FALSE
