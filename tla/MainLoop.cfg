\* Frames of up to two units, with and without a fixed update time of two.
SPECIFICATION Spec
CONSTANTS
    autosave = autosave
    clock = clock
    splash = splash
    Names <- MCNames
    SimTime <- MCSimTime
    Repeating <- MCRepeating
    Interval <- MCInterval
    Delay <- MCDelay
    FrameTimes = {0, 1, 2}
    FixedTimes = {0, 2}
    MinStep = 2
    MaxExceptions = 1
    MaxElapsed = 3
INVARIANT ScheduledIsWhatWasAskedFor
PROPERTIES RunsOncePerInterval TasksRun
