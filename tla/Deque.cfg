\* The deque with two producers and one consumer: safety, and that it
\* implements AtomicDeque.
SPECIFICATION FairSpec
CONSTANTS
    p1 = p1
    p2 = p2
    c1 = c1
    c2 = c2
    i1 = i1
    i2 = i2
    NoThread = NoThread
    NoItem = NoItem
    Producers <- MCTwoProducers
    Consumers <- MCOneConsumer
    Threads <- MCThreads
    Items <- MCTwoItems
    MaxClears = 1
INVARIANTS ExactlyOnce NoLostWakeup
PROPERTY ImplementsAtomicDeque
\* A consumer may wait for ever when nothing more is pushed.
CHECK_DEADLOCK FALSE
