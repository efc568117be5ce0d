SPECIFICATION MCSpec
CONSTANTS
    i1 = i1
    i2 = i2
    core = core
    saft = saft
    fa = fa
    fileCore = fileCore
    fileForm = fileForm
    fileSaft = fileSaft
    Installs = {i1, i2}
    Core = core
    Saft = saft
    Forms <- MCForms
    Preinstalled <- MCForms
    Namings <- MCNamings
    Files <- MCFiles
    UnitOf <- MCUnitOf
    MaxVersion = 2
    Calls = {q1, q2, q3}
    Params = {k1}
    None = None
    LastDay = 2
    MaxBoots = 2
    Messages <- MCMessages
    Retention = 3
    StartSkew = 1
    EndSkew = 1
    Skews <- MCSkews
    PageSize = 2
    MaxPages = 2
    LastTick = 5
    w1 = w1
    w2 = w2
    Waits = {w1, w2}
    UploadSets <- MCUploadSets
    Budget = 2
    MaxPause = 1
    ReadMax = 1
    Window = 3
    LastHour = 4
    Requests = {r1, r2, r3}
    Interval = 2
    LastMoment = 4
    l1 = l1
    l2 = l2
    Lookups = {l1, l2}
    DayLength = 2
    PublishedBy = 0
    YearLength = 2
    WindowSize = 2
    Reach = 1
    LiveTTL = 1
    FetchMax = 1
    FirstTime = 2
    LastTime = 6
    Asked <- MCAsked
    Attempts = {a1, a2}
    Tabs = {t1, t2}
    Nobody = Nobody
    Logins = {g1, g2}
    Uses = {u1, u2}
    Empty = Empty
    Guest = Guest
    LineChoices <- MCLines
    MaxLines = 2
    PartChoices <- MCParts
    MaxParts = 1
    EntryChoices <- MCEntries
    MaxEntries = 2
    TotalsChoices <- MCTotals
    Unset = Unset
CHECK_DEADLOCK FALSE
INVARIANTS
    TypeOK
    ClaimsAreTrue
    InstallConverges
    SettledStays
    ReusedWasFiledToday
    NothingSkipped
    SkewIsAbsorbed
    PollsWithinBudget
    FoundInTime
    Spaced
    NoSlotWasted
    FreshEnough
    NoOlderAnswer
    OnlyOwnRedirects
    ListenerReleased
    BurntOnlyByRace
    ComputedAddsUp
    RoundTrips
PROPERTIES
    RepeatsAreExplained
    NeverReplaced
    NoStrayPrompt
