\* A repository that is deleted in the middle of a sync.
SPECIFICATION Spec
CONSTANTS
    root = root
    file = file
    dir = dir
    sub = sub
    archive = archive
    gone = gone
    Requests <- MCEntries
    Dirs <- MCDirs
    Files <- MCFiles
    Tarballs <- MCArchives
    Root = root
    Parent <- MCParent
    OnlyOld <- MCOnlyOld
    OnlyNew <- MCOnlyNew
    RecheckTimeout = TRUE
    MaxActive = 2
    MaxFailures = 2
    MaxToProcess = 2
INVARIANT DestroyCleansUpRequests
\* The object may be deleted, after which nothing happens.
CHECK_DEADLOCK FALSE
