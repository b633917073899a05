\* Two groups of the manager, one of them with a group inside.
CONSTANTS
    nasal = nasal
    instruments = instruments
    nav = nav
    sound = sound
    MAX_GROUPS = 2
    Subs <- MCSubs
    SubGroups = {instruments}
    Home <- MCHome
    LookedUp = {instruments, nav}
SPECIFICATION FairSpec
INVARIANTS LifeCycle NobodyLeftOut RemovedIsForgotten
PROPERTY InitEnds
