SPECIFICATION Spec
\* The date is over when the next session opens; nothing is left to do then.
CHECK_DEADLOCK FALSE
CONSTANTS
    bot = bot
    ranker = ranker
    draft = draft
    Channel = {draft}
    Route <- MCList
    Configuration <- MCAll
    RunAt = 1
    PublishBy = 2
    Open = 4
    MaxTime = 4
    MaxFaults = 0
PROPERTIES
    EveryRouteServed
