\* The poller on a synchronised node: safety, refinement, and what fairness buys.
SPECIFICATION FairSpec
CONSTANTS
    MinHead = 1
    MaxHead = 5
    MaxUint = 7
INVARIANTS
    NoBlockTwice
    NoGap
    CursorOnChain
PROPERTIES
    CursorSpec
    BlocksGetAttempted
