CONSTANT Scripts <- MCScripts
SPECIFICATION FairSpec
INVARIANTS
    TypeOK
    AssertsHold
    WaitsForItsOwnEvent
    SyscallsAlive
    CallReleasesLock
PROPERTIES
    Refines
    CallIsBegun
    NeverHangs
