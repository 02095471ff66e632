SPECIFICATION ServicesSpec
CONSTANTS
    zo = zo
    zh = zh
    ta = ta
    tl = tl
    ts = ts
    ti = ti
    tf = tf
    tt = tt
    tu = tu
    tn = tn
    Kinds <- MCKinds
    Ffmpegs = {p1, p2, p3, p4}
    MaxIdles = 2
    MaxExits = 2
    Streams = {st1, st2}
    MaxEdits = 3
    MaxHlsExits = 1
    MaxHls = 4
    Climates = {c, d}
    Temps = {18, 21}
    Browsers = {b}
    MaxSlot = 2
    MaxPaints = 2
    MaxSaves = 2
    MaxCrashes = 1
    MinutesPerDay = 12
    MaxStall = 1
    Powers = {0, 10, 100}
    PowerHistorySize = 4
    PowerSpikeFactor = 3
    PowerBaselineMin = 10
    MinReadings = 3
    DoorOpenThreshold = 3
    Phones = {g1, g2}
    Places = {zo, zh}
    MaxZone = 2
    Shapes <- MCShapes
    MaxWalks = 1
    MaxZoneEdits = 1
    MaxReports = 2
    Clients = {x1, x2}
    Changes = {"opened"}
    BuiltInNotices = {"opened"}
    Rules = {"early"}
    RuleOf <- MCRuleOf
    MaxEndpoint = 2
    MaxChanges = 1
    MaxRuleEdits = 1
    MaxPushFaults = 1
    Things = {ta, tl, ts, ti, tf, tt, tu, tn}
    DomainOf <- MCDomainOf
    PlatformOf <- MCPlatformOf
    Scene <- MCScene
    Configs <- MCConfigs
    Callers = {w1, w2}
    MaxCalls = 3
    MaxSetupFaults = 1
    Ents = {e}
    AreaIds = {k1}
    Names = {n1}
    Originals = {o1}
    NoName = NoName
    NoRow = NoRow
    MaxJobs = 3
    MaxRestarts = 1
INVARIANT StreamIsFreed
PROPERTY StreamsAreServed
PROPERTY ScheduleHolds
INVARIANT AlarmsAreTrue
INVARIANT CrossingsAreTold
PROPERTY PushReaches
PROPERTY PlatformsStand
PROPERTY IsDurableTable
INVARIANT EditsAreKept
CHECK_DEADLOCK FALSE
