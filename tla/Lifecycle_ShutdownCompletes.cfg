\* Ctrl+C in the program as it is built.
SPECIFICATION FairSpec
CONSTANTS
    MinHead = 1
    MaxHead = 3
    MaxUint = 5
    MaxRetries = 2
    Builds = {FALSE}
PROPERTY ShutdownCompletes
