\* Two concurrent calls over a token of each route, one wallet, and inserts
\* that may fail.
SPECIFICATION FairSpec
CONSTANTS
    Calls = {c1, c2}
    Tokens = {usdt, bnb}
    UsdTokens = {usdt}
    DbMayFail = TRUE
    None = None
INVARIANTS
    PositionBacked
    SuccessRowsBacked
    OutcomeExclusive
    SellFollowsApprove
    SellAfterBuy
    OneOrderPerKind
PROPERTIES
    CallTerminates
    OrderSpec
