\* One target, two callers that ask for the same address, two logs of one
\* transaction, and one failure, of a connection or an insert.  The process
\* can end.
SPECIFICATION FairSpec
CONSTANTS
    Targets = {g1}
    BuyOnAdd = {g1}
    Callers = {c1, c2}
    Addresses = {k1}
    Logs = {l1, l2}
    Hashes = {h1}
    Topics = {"mint", "transfer"}
    MaxFailures = 1
INVARIANTS
    TypeOK
    OneSubscriptionPerAddress
    TriggeredIsRecorded
PROPERTIES
    ShutdownSpec
    TargetReconnects
    DeliveredIsHandled
    ShutdownEnds
