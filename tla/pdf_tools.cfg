SPECIFICATION FairSpec
CHECK_DEADLOCK FALSE
CONSTANTS
    PagesIn <- SmallPdfs
    InFolder <- SmallFolders
    Words = {"words"}
    Top = "top"
    MaxFiles = 3
    MaxAsked = 2
    Uploads = {"a", "b"}
    MaxRuns = 2
    None = None
INVARIANTS
    MergedIsListed
    NothingStaleShown
    HandedIsWhatWasSent
PROPERTIES
    PagesGetFree
