SPECIFICATION Spec
CHECK_DEADLOCK FALSE
CONSTANTS
    PagesOf <- SmallPdfs
    MaxHistory = 1
    MaxItems = 2
    MaxOpens = 1
    MaxEdits = 1
    None = None
INVARIANTS
    EverythingCanBeWritten
    LinesAreOfPdf
