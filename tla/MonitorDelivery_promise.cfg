SPECIFICATION Spec
CONSTANTS
    main = main
    detail = detail
    other = other
    article = article
    review = review
    next = next
    NoCard = NoCard
    Card = {main, detail}
    Channel = {feishu, wechat}
    DependsOn <- MCDependsOn
    Sequence <- MCSequence
    AsOf <- MCAsOf
    ExpiresAt <- MCExpiresAt
    Keep = 1
    MaxAttempts = 1
    Backoff <- MCBackoff
    Report <- MCReport
    Review <- MCReview
    SecondStage <- MCSecondStage
    Audience <- MCAudience
    NextClose <- MCNextClose
    Configuration <- MCConfiguration
    RetryAfter = {0}
    MaxTime = 3
    MaxFaults = 2
    MaxCopies = 2
INVARIANTS
    WriteAhead
    ChainOrder
    NoSilentCopy
    LedgerReadable
PROPERTIES
    KeepsPromise
SYMMETRY Symmetry
