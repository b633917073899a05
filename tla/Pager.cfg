\* Two nodes, stamps modulo 4.
SPECIFICATION Spec
CONSTANTS
    hill = hill
    town = town
    NoNode = NoNode
    Nodes <- MCNodes
    Half = 2
    Expiry = 1
    MaxLag = 2
    MaxPending = 1
INVARIANT RequestedIsLoadedOrUnderWay
PROPERTIES ExpiresExactlyTheUnused RequestsAndStopAreAnswered
