SPECIFICATION FairSpec
CONSTANTS
    main = main
    detail = detail
    other = other
    article = article
    review = review
    next = next
    NoCard = NoCard
    Card = {main, other, review, next}
    Channel = {feishu}
    DependsOn <- MCDependsOn
    Sequence <- MCSequence
    AsOf <- CoarseAsOf
    ExpiresAt <- CoarseExpiresAt
    Keep = 1
    MaxAttempts = 1
    Backoff <- CoarseBackoff
    Report <- MCReport
    Review <- MCReview
    SecondStage <- MCSecondStage
    Audience <- MCAudience
    NextClose <- CoarseNextClose
    Configuration <- MCConfiguration
    RetryAfter = {0}
    MaxTime = 3
    MaxFaults = 1
    MaxCopies = 2
INVARIANTS
    OneReportPerDate
PROPERTIES
    StartupGate
    Settles
