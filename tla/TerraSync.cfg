\* Safety of main thread and worker: a terrain tile and an OSM tile, two
\* requests, one change of the enabled property, one error tolerated.
SPECIFICATION Spec
CONSTANTS
    t1 = t1
    o1 = o1
    Airports = Airports
    Models = Models
    Stop = Stop
    Tiles <- MCOneTile
    OsmTiles <- MCOneOsm
    DataDirs <- MCNone
    MaxErrors = 2
    MaxRequests = 2
    MaxToggles = 1
INVARIANTS StopHandshake StartsClean EveryRequestAccountedFor SleepsOnlyWithoutWork
\* The program may stop: the object may be deleted, calls are bounded.
CHECK_DEADLOCK FALSE
