SPECIFICATION Spec
CONSTANTS
    Scenes = {"sessions"}
    Changes = {c1, c2}
    Totals = {1, 2, 3}
    IncludedIn <- Included
    RankOf <- Rank
    UsedSeats = 1
    MaxFaults = 1
    People = {ana, bia}
    Founder = ana
    MaxRequests = 2
    SeatLimits = {0, 1}
    SessionIds = {1, 2, 3}
    ActionTokens = {a1, a2, a3}
    Tickets = {t1}
    LeadIds = {e1, e2}
    Phones = {p, q}
    Anonymous = anon
    LeadLimit = 1
    k1 = k1
    k2 = k2
    CampaignIds = {k1, k2}
    Crews = {x, y}
    CampLeads = {l1}
    Editors = {e1, e2}
    NoCampaign = none
    MaxVersions = 2
    LockLimit <- Locks
    ExperimentIds = {e1, e2}
    ExpLeads = {x, y}
    MaxTrips = 1
    Tabs = {"p1", "p2"}
    FirstTab = "p1"
    Accounts = {a, b}
    NoAccount = noacct
    MaxTabEvents = 4
    Features = {"f1", "f2"}
    Planned = {"f1"}
    FlagTasks = {x, y}
    MaxFlagTasks = 3
    MaxDelFailures = 1
INVARIANT ReuseRevokesFamily
CHECK_DEADLOCK FALSE
