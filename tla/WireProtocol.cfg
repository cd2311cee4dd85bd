CONSTANTS
    Scripts <- MCScripts
    NonFatal = TRUE
SPECIFICATION FairSpec
INVARIANTS
    NoProtocolError
    RunsInScriptOrder
    CleanClose
PROPERTIES
    ErrorReachesClient
    BothEnd
