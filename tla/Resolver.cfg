\* Two callers, three hosts.
SPECIFICATION Spec
CONSTANTS
    main = main
    network = network
    Cleaner = Cleaner
    Worker = Worker
    NoThread = NoThread
    Callers <- MCCallers
    Threads <- MCThreads
    MaxHost = 3
INVARIANT NeverSleepsOnWork
PROPERTY LookupsAndCleanupEnd
\* The program exits.
CHECK_DEADLOCK FALSE
