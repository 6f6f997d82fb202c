\* Two buys of one token or of two, two sells at a time.  The process can end.
SPECIFICATION FairSpec
CONSTANTS
    Buys = {b1, b2}
    Tokens = {t1, t2}
    Sellers = {s1, s2}
    Quotes = {TRUE, FALSE}
    ProfitMult = 8
    LossMult = 1
    None = None
INVARIANTS
    AckedIsMarked
    MarkedWasSwapped
PROPERTIES
    SettledForGood
    DueIsOffered
    MonitorStops
