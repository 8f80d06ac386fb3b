SPECIFICATION Spec
CONSTANTS
    ExtraTxFrames = 1
    MaxNetFaults = 3
    NoFrame = NoFrame
    Disks = {d1, d2}
    Usb = {u1}
    Local = {l1}
    MaxIoFaults = 1
    MemTop = 14
    EFI_ALLOCATE_POOL_ALIGNMENT = 2
    USIZE = 2
    Layouts <- MCLayouts
    Images <- MCImages
    Reserved = {r1, r2}
    MAX_ARRAY_SIZE = 1
    MaxMapChanges = 1
INVARIANTS
    LentMemoryKept
    MemoryExact
PROPERTIES
    TxProgress
    RequestsEnd
