SPECIFICATION Spec
CONSTANTS
    MinHead = 1
    MaxHead = 3
    MaxUint = 5
INVARIANT NoBlockMissed
