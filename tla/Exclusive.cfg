\* The frame thread and the main loop, in order and out of order.
SPECIFICATION ExclusiveFairSpec
INVARIANTS AwaitedFrameIsAlone NoSleepThroughChange
PROPERTIES AwaitEnds TerminateReturns WorkIsDone
\* Out of order the main loop may come to wait for a thread that has ended.
CHECK_DEADLOCK FALSE
