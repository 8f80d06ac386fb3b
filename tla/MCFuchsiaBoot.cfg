CONSTANTS
    MaxPriority = 2
    MaxTries = 1
    ReadOutcomes = {"ok", "other"}
    Names <- MCNames
    Images <- MCImages
    Factory <- MCFactory
    Locations <- MCLocations
    KeyLocations <- MCKeyLocations
SPECIFICATION FuchsiaSpec
INVARIANTS RepliesTruthful RunsVerified
PROPERTIES RollbackSound
