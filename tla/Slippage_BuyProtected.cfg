\* A primary buy on a market that moves.
SPECIFICATION Spec
CONSTANTS
    Orders = {o1, o2}
    Amounts = {7, 20}
    Reserves = {3, 10, 40}
    Percents = {12}
    Precision = 1000
    MaxMoves = 2
    None = None
INVARIANT BuyProtected
