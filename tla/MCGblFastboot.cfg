SPECIFICATION FairSpec
CONSTANTS
    NumDisks = 2  Bufs = {b1, b2}  Workers = 1  Images = {i1, s1}  Sparse = {s1}
    None = None  Scrap = Scrap
    IoErrors = TRUE  SendErrors = TRUE  Disciplined = TRUE
INVARIANTS ResourcesAccounted NeverBusy SyncedMeansWritten FlashesDownloaded
PROPERTIES CommandsAnswered
