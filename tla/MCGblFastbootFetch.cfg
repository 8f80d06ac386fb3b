SPECIFICATION Spec
CONSTANTS
    NumDisks = 2  Bufs = {b1}  Workers = 1  Images = {i1}  Sparse = {}
    None = None  Scrap = Scrap
    IoErrors = FALSE  SendErrors = FALSE  Disciplined = FALSE
INVARIANT FlashesDownloaded
