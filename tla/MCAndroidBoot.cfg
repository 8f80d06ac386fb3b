SPECIFICATION Spec
CONSTANTS
    NumSlots = 3  MaxTries = 1  MaxFaults = 1  None = None
    Layouts <- MCLayouts  Downloads <- MCDownloads  Platforms <- MCPlatforms
INVARIANTS VerifiedBoot ColorTruthful SlotAccounted
PROPERTIES BootOnceConsumed FallsBack
