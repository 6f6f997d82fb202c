\* Two blocks at a time, a pool of one slot, one restart.
SPECIFICATION FairSpec
CONSTANTS
    Blocks = {1, 2}
    Chains <- MCChains
    MaxConcurrent = 1
    DbMayFail = TRUE
    MaxRestarts = 1
INVARIANTS
    TradeRow
    SlotsCoverWorkers
PROPERTIES
    LedgerSpec
    BlockEnds
    ScansDrain
