CONSTANTS
    Worlds <- MCWorlds
    Tolerance = 1
    TickUsecs = 1
    TsModulus = 8
    TsStart = 6
    ByteValues = 4
    hash_key <- MCHash
SPECIFICATION Spec
INVARIANTS
    AcceptedIsSent
    
    
    EchoIsLatest
    NoAccumulatedDelay
