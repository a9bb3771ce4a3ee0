SPECIFICATION FairSpec
CHECK_DEADLOCK FALSE
CONSTANTS
    font = font
    picture = picture
    Objects = {font, picture}
    ObjectSize <- SizeOf
    Documents <- SmallDocuments
    Asks <- SizesAndCounts
    FileSizes = {3, 5, 9}
    PartOverhead = 1
INVARIANTS
    NoPageLost
    OverOnlyAlone
    EachObjectOnce
PROPERTIES
    CancelIsHeeded
    SplitEnds
