CONSTANTS
    Calls <- MCCalls
    LiveFds = {3, 4}
    Half = 8
    Checkers = {TRUE, FALSE}
    BlockingClose = FALSE
    MaxFds = 3
    MaxBytes = 3
SPECIFICATION Spec
INVARIANTS
    EntryIsItsObject
    NoFalseDuplicate
    SocketsClosedAtEnd
    
    
