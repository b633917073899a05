\* Logging while callbacks come and go.
SPECIFICATION Spec
CONSTANTS
    stderr = stderr
    file = file
    Callbacks <- MCCallbacks
    MaxLogged = 3
    MaxUnborn = 1
INVARIANTS EachEntryOnceInOrder ChangesAreExclusive StoppedAfterTheLastWord
PROPERTY PauseEnds
\* The log stream ends with the program.
CHECK_DEADLOCK FALSE
