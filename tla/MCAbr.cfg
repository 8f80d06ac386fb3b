CONSTANTS
    MaxPriority = 2
    MaxTries = 2
    ReadOutcomes = {"ok", "other", "err"}
SPECIFICATION Spec
INVARIANTS NoPanic MarkedActiveBoots OneShotExact AtMostOneSuccessful
PROPERTIES EventuallyFallsBack
