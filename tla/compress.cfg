SPECIFICATION FairSpec
CHECK_DEADLOCK FALSE
CONSTANTS
    W = 2
    Pictures = 3
    AtOnce = 1
    Levels = 3
    Samplings <- SmallSamplings
    Images <- SmallImages
INVARIANTS
    EveryPictureOnce
    LoadIsPending
    NobodyLeftWaiting
    PicturesComeBack
PROPERTIES
    CancelIsHeeded
    CompressEnds
