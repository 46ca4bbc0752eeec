SPECIFICATION StoresSpec
\* Horizons are reached: a scene may be over.
CHECK_DEADLOCK FALSE
CONSTANTS
    \* StatusCoverage
    Horizon = 4
    Session = {0, 2, 3, 4}
    Listed = 2
    FirstAsOf = 2
    Window = 3
    RefreshDays = 2
    Claims = {{}, {"suspended"}, {"traded", "suspended"}}
    \* ExperimentArchive
    Command = {c1, c2}
    SnapshotOf = {3, 4}
    AskedRange = {{2}, {3}}
    Reserve = 1
    Version = {v1}
    MaxExperiments = 3
    \* LogFiles
    MaxLines = 2
    Backups = 2
    MaxDays = 1
    LastLine = 6
    LastDay = 3
    MaxLogFaults = 2
    \* SourceFallback
    Caller = {c1, c2}
    ProviderRoute <- MCProviderRoute
    Threshold = 2
    Cooldown = 2
    Budget = 1
    MaxSick = 1
    \* IntradaySync
    MinuteStock = {s1, s2}
    MinuteWorker = {w1, w2}
    OpenAt = 1
    Noon = 2
    Resume = 3
    CloseAt = 4
    BarSlot = 1
    CalibrateAt = 5
    DayLen = 6
    TradingDay = {0, 1}
    Poll = 1
    CalmPoll = 2
    Short = 2
    LastMoment = 7
    MaxJobs = 2
    \* Chanlun
    FirstBar <- MCFirstBar
    Move <- MCMove
    MinStrokeBars = 3
    MaxBars = 7
    \* CalendarCache
    CacheUser = {c1, c2}
    Asked <- MCAsked
    Told <- MCTold
    Configured <- MCConfigured
    MaxGiven = 3
    \* StructureGuard
    Group = 2
    SlotsPerDay = 4
    DailyEnough = 4
    ThirtyEnough = 3
    FiveEnough = 6
    \* NotifyLedger, SessionClock, LegacyMigration
    ValidFrom = 0
    ValidThrough = 2
    Trades = {0, 1, 2}
    Card <- MCCard
    Channel = {feishu, other}
    NoCard = NoCard
    DependsOn <- MCDependsOn
    Sequence <- MCSequence
    AsOf <- MCAsOf
    ExpiresAt <- MCExpiresAt
    Keep = 1
    MaxAttempts = 1
    Backoff <- MCBackoff
    LegacyChannel = feishu
    Enabled = {{}, {feishu, other}}
    ReportCards <- MCReportCards
    LegacyFile <- MCLegacyFile
    NoPending = NoPending
    Lasting = 3
    MaxDeaths = 1
INVARIANTS
    \* StatusCoverage
    GapIsNoSuspension
    \* ExperimentArchive
    FirstHoldoutOnly
    \* SourceFallback
    OneProbe
    \* IntradaySync
    RoundComesOut
    \* CalendarCache
    FrozenIsProven
PROPERTIES
    OnlyPruningForgets
    FractalsStay
    LegacyIsKept
