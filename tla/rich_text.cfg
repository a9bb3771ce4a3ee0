SPECIFICATION Spec
SYMMETRY Alike
CHECK_DEADLOCK FALSE
CONSTANTS
    f1 = f1
    f2 = f2
    a = a
    b = b
    Fields <- TwoFields
    Texts <- TwoTexts
    MaxOld = 2
    None = None
    Lists = {1, 2}
    Pastes <- SmallPastes
INVARIANTS
    PastedListsKept
    OnlyTypedIsSent
    ShowsWhatIsStored
    EditorGoesWithField
