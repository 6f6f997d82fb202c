\* The receipt of a buy cannot be had in time.
SPECIFICATION Spec
CONSTANTS
    Calls = {c1, c2}
    Tokens = {usdt}
    UsdTokens = {usdt}
    DbMayFail = FALSE
    None = None
INVARIANT BoughtIsTracked
