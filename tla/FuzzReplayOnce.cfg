CONSTANTS
    Inputs <- MCInputs
    Configs <- MCOnceConfigs
    Handshake = 1
    Table <- MCTable
    FuzzLoops = 1
    Checks = 1
    AfterLoops = 1
    Returns = {0, 1}
SPECIFICATION Spec
INVARIANT SameOperations
