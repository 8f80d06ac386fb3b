CONSTANTS
    N = 3
    FirstBlk = 2
    LastBlk = 4
    NewNames = {8, 9}
    MinBlks = 0
    Holes = FALSE
SPECIFICATION EntriesSpec
INVARIANTS BuilderExact
CHECK_DEADLOCK FALSE
