\* A buy reverts on the chain.
SPECIFICATION Spec
CONSTANTS
    Calls = {c1, c2}
    Tokens = {usdt}
    UsdTokens = {usdt}
    DbMayFail = FALSE
    None = None
INVARIANT RevertedNeverHeld
