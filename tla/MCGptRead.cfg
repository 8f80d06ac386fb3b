CONSTANTS
    Tables = {t1, t2}
    Short = {t2}
    None = None
    Junk = Junk
    ReadErrors = TRUE
    WriteErrors = FALSE
SPECIFICATION Spec
INVARIANTS UpdateOkMeansUpdated
