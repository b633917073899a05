\* Liveness of start, stop and the items: what every start asks for and one
\* terrain tile.
SPECIFICATION FairSpec
CONSTANTS
    t1 = t1
    o1 = o1
    Airports = Airports
    Models = Models
    Stop = Stop
    Tiles <- MCOneTile
    OsmTiles <- MCNone
    DataDirs <- MCNone
    MaxErrors = 1
    MaxRequests = 1
    MaxToggles = 1
PROPERTIES StopReturns RunsWhenEnabled ItemsGetTheirTurn
\* The program may stop: the object may be deleted, calls are bounded.
CHECK_DEADLOCK FALSE
