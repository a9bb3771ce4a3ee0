\* The web cron and an open page both ask for steps.
SPECIFICATION FairSpec
CONSTANTS
    Runners = {cron, tab}
    Pages = {g1}
    Updates = {u1}
    SilentSteps = {}
    Silences = FALSE
    Stores = {TRUE}
    MaxDeaths = 0
    None = None
INVARIANTS OneStepAtATime
PROPERTIES UpdateEnds
