SPECIFICATION ClientsSpec
SYMMETRY MCSymmetry
\* A turn, a trade and the clock of the ledger end.
CHECK_DEADLOCK FALSE
CONSTANTS
    \* ServiceLedger
    page1 = page1
    page2 = page2
    article = article
    later = later
    bot = bot
    draft = draft
    NoCard = NoCard
    Card = {page1, page2}
    Channel = {bot}
    DependsOn <- MCDependsOn
    Sequence <- MCSequence
    AsOf <- MCAsOf
    ExpiresAt <- MCExpiresAt
    Keep = 1
    MaxAttempts = 1
    Backoff <- MCBackoff
    Owner = "dayrange"
    Batch <- MCBatch
    Audience <- MCAudience
    Configuration <- MCConfiguration
    RetryAfter = {0}
    RetryBy = {bot}
    MaxTime = 3
    MaxFaults = 3
    MaxCopies = 2
    \* ChannelClients
    Sender = {a, b}
    OwnCover = FALSE
    MaxPayload = 7
    MaxTokens = 3
    MaxSends = 3
    \* AdvisorTurn
    Code <- MCCode
    Date <- MCDate
    NoValue = NoValue
    Invalid = Invalid
    MaxSubIntents = 3
    MaxEvidencePerIntent = 2
    MaxEvidence = 3
    MaxEvidenceBytes = 5
    MaxTurns = 3
    MaxRunes = 5
    MaxHistory = 2
    MaxDeltas = 2
    \* TradeRules
    Bars <- MCBars
    Slip = 1
    Fee = 1
    Limit = 2
    Gap = 3
    Cash = 90
    Batches = 2
    Horizon = 2
    Loss = 15
    Goal = 10
    \* ReviewScreen
    Day <- MCDay
    Stock = {s1, s2}
    Role = {r1, r2}
    Nothing = Nothing
    MaxRevisions = 2
    MaxInputs = 2
    MaxTalk = 4
    \* ForecastFit
    Missing = Missing
    Bins = 2
    MaxDepth = 2
    MinLeaf = 1
    Ridge = 1
    Ticker = {"t1", "t2"}
    SectorOf <- MCSectorOf
    Kind <- MCKind
    OpeningLevel = 20
    StockWindow = 3
    BaselineWindow = 3
    MinBaseline = 2
    MarketWindow = 1
    RecentWindow = 1
    SectorWindow = 2
    HistoryDays = 2
    Warmup = 3
    ActionTolerance = 1
    LastTarget = 6
    MaxOdd = 2
    \* RollingEvaluation
    NaN = NaN
    Unit = 10
    MinPerClass = 1
    MinShare = 10
    MinDays = 2
    LastDay = 4
    ValidationDates = {3, 4}
    Windows = {1, 2}
    MinTrainingDays = 2
    EvalCode = {"c1"}
    Moves = {1}
    Market = {10, 12, NaN}
    RegimeDays = 2
    Band = 1
INVARIANTS
    \* ServiceLedger
    MemoryKnows
    \* ChannelClients
    DraftIsKnown
    \* AdvisorTurn
    OneEnding
    \* TradeRules
    TradeIsPossible
    \* ReviewScreen
    ScreenIsOne
    \* ForecastFit
    
    \* RollingEvaluation
    FairComparison
