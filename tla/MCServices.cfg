SPECIFICATION FairServicesSpec
\* Most of the calls may be over.
CHECK_DEADLOCK FALSE
CONSTANTS
    \* ReportCycle
    bot = bot
    ranker = ranker
    draft = draft
    Channel = {bot, ranker, draft}
    Route <- MCSingle
    Configuration <- MCAny
    RunAt = 1
    PublishBy = 2
    Open = 4
    MaxTime = 4
    MaxFaults = 2
    \* RuntimeLifecycle
    Runner = {r1, r2}
    Closer = {c1, c2}
    Loop = {monitor, minutely}
    NoRunner = NoRunner
    \* DailySync
    N = 2
    Halted = {2}
    plain = plain
    adjusted = adjusted
    Config = {plain, adjusted}
    Adjusts <- MCAdjusts
    MinComplete = 2
    MinAnalyzable = 1
    MaxSyncFaults = 2
    MaxTasks = 2
    \* ContextSync
    Instrument = {i1, i2}
    Worker = {w1, w2}
    Batch = 2
    MaxDay = 2
    MaxContextFaults = 2
    \* DayRangeForecast
    RangeStock = {k1, k2}
    FirstPool = {k1}
    PastSessions = 3
    LastSession = 2
    MinTrainingDays = 1
    CalibrationDays = 1
    ValidationDays = 1
    MaxModelAge = 1
    KeepModels = 1
    MaxRangeFaults = 1
    \* MinutePredictor
    Pick = {k1, k2}
    InputBar = {1, 2}
    DayEnd = 3
    Grace = 0
    MaxUnreadable = 1
    MaxPickFaults = 1
    \* MinuteBackfill
    BackfillStock = {1, 2}
    FillWorker = {w1, w2}
    FillDay = {1, 2}
    FillSlot = {1, 2}
    Left <- MCLeft
    Archive <- MCArchive
    MaxFills = 2
    MaxFillFaults = 1
    \* WalkForward
    Trading <- MCTrading
    Warmup = 2
    Rule = {"baseline", "up", "leader"}
    Target = {25, 30}
    HoldingDays = {1}
    Aim <- MCAim
    TopN = 1
    MinTraining = 1
    Reserved = 2
    MinTrades = 1
    MinEvidence = 1
    MinRankScore = 10
    LossLimit = 3
    Extract <- MCExtract
    Matches <- MCMatches
    Opportunity <- MCOpportunity
    Simulate <- MCSimulate
    LowerBound <- MCLowerBound
    Affordable <- MCAffordable
    Confident <- MCConfident
    \* ReviewProjection
    ReviewCode = {1, 2, 3}
    Bar <- MCBar
    LotDays = 2
    Declines <- MCDeclines
    Leaves <- MCLeaves
    LimitKnown <- MCLimitKnown
    Net <- MCNet
    \* Settings
    SettingsField = {"api_key", "model"}
    SettingsText = {"good", "own", "bad"}
    Acceptable <- MCAcceptable
    DefaultSettings <- MCDefaults
    SyncsDirectories = FALSE
    MaxUnsure = 1
INVARIANTS
    \* ReportCycle
    OneArticle
    \* RuntimeLifecycle
    NothingOutlives
    FailureIsReported
    \* DailySync
    FinishedIsPublished
    \* ContextSync
    CompleteIsStored
    \* MinutePredictor
    DeviationIsGrounded
    \* MinuteBackfill
    SuccessIsWhole
PROPERTIES
    
    
    FrozenInputs
    ReportComes
    ContextReturns
    
    
