SPECIFICATION Spec
CHECK_DEADLOCK FALSE
CONSTANTS
    ToCompress <- SmallToCompress
    ToSplit <- SmallToSplit
INVARIANTS
    ShowsTheSame
    NothingUnused
    KeptOnce
    PagesKeepApart
    OnlyLinksCut
