\* Safety and liveness of the wait condition: two waiters, two signallers,
\* three signals or broadcasts.
SPECIFICATION UseFairSpec
CONSTANTS
    w1 = w1
    w2 = w2
    s1 = s1
    s2 = s2
    NoThread = NoThread
    Waiters <- MCWaiters
    Signallers <- MCSignallers
    Threads <- MCThreads
    MaxSignals = 3
INVARIANT NoSleepThroughSignal
PROPERTY FlagGetsConsumed
\* A program may stop signalling while its waiters sleep.
CHECK_DEADLOCK FALSE
