SPECIFICATION FairSpec
CONSTANTS
    page1 = page1
    page2 = page2
    article = article
    later = later
    bot = bot
    draft = draft
    NoCard = NoCard
    Card = {article, later}
    Channel = {bot}
    DependsOn <- MCDependsOn
    Sequence <- MCSequence
    AsOf <- MCAsOf
    ExpiresAt <- MCExpiresAt
    Keep = 1
    MaxAttempts = 1
    Backoff <- MCBackoff
    Owner = "predictor"
    Batch <- MCBatch
    Audience <- MCAudience
    Configuration <- MCConfiguration
    RetryAfter = {0}
    RetryBy = {}
    MaxTime = 4
    MaxFaults = 2
    MaxCopies = 2
INVARIANTS
    SwitchObeyed
PROPERTIES
    WithdrawnIsFinal
    Settles
