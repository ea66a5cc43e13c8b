SPECIFICATION Spec
CONSTANTS
    Scenes = {"inbox", "sync", "intake", "crm", "hook", "mail", "login", "queue", "metrics", "operations"}
    Events = {e1, e2}
    BillingWorkers = {"p1", "p2"}
    NoEvent = NoEvent
    DeadAfter = 2
    Reclaim = 2
    WorkerTTL = 1
    MaxMishaps = 1
    SubEvents = {1, 2}
    SeatCounts = {0, 1}
    Period = 1
    SubEnd = 1
    Keys = {k1}
    PhoneOf <- SamePhone
    Intakers = {"p1", "p2"}
    NoKey = nokey
    MaxDeliver = 3
    MaxTries = 3
    MaxPublish = 1
    MaxTroubles = 2
    CrmEvents = {"e1", "e2"}
    CrmFlushers = {"p1", "p2"}
    MaxPosts = 2
    MaxCrmMishaps = 2
    HookEvents = {v1}
    Endpoints = {h1, h2}
    HookConsumers = {c1}
    HookRuns = {"p1", "p2"}
    MaxHookDeliver = 2
    MaxHookPublish = 0
    MaxHookPosts = 1
    MaxHookMishaps = 1
    Mailers = {"p1", "p2"}
    MaxLinks = 2
    MaxMailTries = 3
    MaxMailDeaths = 1
    Logins = {"p1", "p2", "p3"}
    LoginLimit = 3
    QueueLine <- ThreeLeads
    FolderOrder <- TwoFolders
    FolderOf <- InFolders
    Dialers = {"p1"}
    NoLead = nolead
    Batch = 1
    MaxTurns = 2
    MaxSwitches = 1
    MaxTickFailures = 0
    Queries = {"all", "mine"}
    NoQuery = noquery
    Rankings = {"sdrs", "folders"}
    MaxLooks = 3
    MaxVersions = 2
    MaxViews = 3
    MaxBreaks = 2
INVARIANTS
      LeadCreatedOnce GuessesBounded
PROPERTIES
       HookReachesAll
CHECK_DEADLOCK FALSE
