CONSTANTS
    None = None
    ScratchAddrs = {0}
    FillSizes = {0, 1, 2, 3, 4, 5, 6, 7, 8}
    LoadSizes = {8, 24, 44, 60, 70, 96}
    PAGE_SIZE = 2
    FDT_ALIGNMENT = 2
    KERNEL_ALIGNMENT = 4
    MAXIMUM_DEVICE_TREE_COMPONENTS = 3
    MAXIMUM_OVERLAYS_TO_APPLY = 1
    CMDLINE_SPARE = 5
    Names = {x}
    MaxLen = 2
    MAX_ARGS = 2
    NoValue = NoValue
SPECIFICATION MCSpec
INVARIANTS AccessExact BulkWritesExact TextsExact HelpersExact LoadedExact HandOffExact
PROPERTY PlatformTruthful
CHECK_DEADLOCK FALSE
