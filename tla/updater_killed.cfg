\* The web cron and one page, two versions, steps that fail, are retried and
\* given up; the server kills up to two requests.
SPECIFICATION FairSpec
CONSTANTS
    Runners = {cron}
    Pages = {g1}
    Updates = {u1, u2}
    SilentSteps = {}
    Silences = TRUE
    Stores = {TRUE, FALSE}
    MaxDeaths = 2
    None = None
INVARIANTS OfflineAccountedFor RecordIsOfBefore BackAsBefore
PROPERTIES StepsGetDone Promised
