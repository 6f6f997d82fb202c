\* Two orders on a market that moves twice: few and many tokens for a BNB,
\* and none; no tolerance, the default one, and one that float64 cuts short.
SPECIFICATION Spec
CONSTANTS
    Orders = {o1, o2}
    Amounts = {7, 20}
    Reserves = {0, 3, 10, 40}
    Percents = {0, 12, 29}
    Precision = 1000
    MaxMoves = 2
    None = None
SYMMETRY OrderSymmetry
INVARIANTS
    SellProtected
    PositionCovered
PROPERTIES
    SteadyFills
