CONSTANTS
    Tables = {t1, t2, t3}
    Short = {t3}
    None = None
    Junk = Junk
    ReadErrors = FALSE
    WriteErrors = TRUE
SPECIFICATION Spec
INVARIANTS Atomic CompletedMeansDone CacheCoherent
PROPERTY RefinesTable
