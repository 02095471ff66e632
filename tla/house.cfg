SPECIFICATION HouseSpec
CONSTANTS
    p = p
    q = q
    d1 = d1
    d2 = d2
    m1 = m1
    m2 = m2
    l2 = l2
    p1 = p1
    b1 = b1
    b2 = b2
    c1 = c1
    c2 = c2
    c3 = c3
    a1 = a1
    vis = vis
    sg = sg
    Parts <- MCParts
    Formed = {i}
    Foreign = {x}
    Settings = {v1}
    Off = Off
    Blank = Blank
    Snaps = {sn}
    NoDoc = NoDoc
    Nobody = Nobody
    Tabs <- MCTabs
    MaxWrites = 2
    MaxEdits = 1
    MaxUpdates = 1
    MaxPm2Faults = 1
    Hand = {a1}
    Visual = vis
    Suggestions = {sg}
    KeysOf <- MCKeysOf
    NoText = NoText
    MaxChars = 3
    MaxTyping = 2
    MaxSavings = 2
    MaxLoadFaults = 1
    Lamps = {k, m}
    MaxRecordings = 2
    Panels = {p, q}
    Layouts <- MCLayouts
    MaxLevel = 1
    MaxGestures = 2
    MaxMoves = 2
    MaxRefusals = 1
    Floors = {1, 2}
    Fixtures = {l2, d2, p1}
    SortOf <- MCSortOf
    FloorOf <- MCFloorOf
    Meshless = {d2}
    Filters <- MCFilters
    MaxSwitches = 2
    MaxFlips = 1
    MaxModelFaults = 1
    MaxShade = 1
    MaxTouches = 2
    MaxOthers = 1
    MaxTouchFaults = 1
    Meshes = {m1, m2}
    Devices = {d1, d2}
    Untagged = Untagged
    MeshOf <- MCMeshOf
    MaxBinds = 2
    MaxReopens = 1
    MaxMapFaults = 1
    Addresses = {ip}
    Window = 2
    Attempts = 2
    LastTime = 6
    MaxStarts = 2
    MaxTokens = 2
    MaxTokenAsks = 3
    MaxTokenFaults = 1
    MaxRows = 2
    RowTexts = {t1, t2}
    MaxListAsks = 3
    MaxListFaults = 1
    Dirs = {d1, d2}
    NoDir = NoDir
    PluginDomain <- MCPluginDomain
    Recognised = {d1}
    MaxVersion = 2
    MaxPluginStops = 1
    Cats <- MCCats
    Home = "lights"
    Security = "security"
    Dashboards = {"two", "odd", "empty", "bad"}
    ViewsOf <- MCViewsOf
    Formless = {"bad"}
    EmptyDashboard = "empty"
    Sensors = {y1, y2}
    MaxSteps = 3
    MaxToasts = 2
    MaxSettings = 2
    Bells = {b1, b2}
    NoBell = NoBell
    CameraOf <- MCCameraOf
    LockOf <- MCLockOf
    MaxRings = 3
    MaxPlayers = 4
    MaxTurns = 6
    Selections = {c1, c2, c3}
    NoChoice = NoChoice
    Points <- MCPoints
    MaxPicks = 4
    Rooms <- MCRooms
    NoRoom = "nowhere"
    Members = {j1, j2}
    Favourites = {j1}
    MaxRearranges = 2
    Targets = {z1, z2}
    MaxShortcuts = 2
    MaxPresses = 3
PROPERTY RunsWhatIsOnDisk
 
PROPERTY PagesShowWhatThereIs
INVARIANT EndedIsOver
INVARIANT AccountsHold
CHECK_DEADLOCK FALSE
