\* The process, as it is built and with the monitor goroutine started.
SPECIFICATION FairSpec
CONSTANTS
    MinHead = 1
    MaxHead = 3
    MaxUint = 5
    MaxRetries = 2
    Builds = {TRUE, FALSE}
INVARIANTS
    ResourcesWhileWorking
    ExitClean
PROPERTIES
    ShutdownSpec
    StartupEnds
    SignalStopsPoller
    LaunchedShutdownCompletes
