SPECIFICATION Spec
CONSTANTS
    Modulus = 8
    KernelIsns = {2, 7}
    LocalIsns = {3}
    RemoteIsns = {5}
    Ports = {1, 2}
    BindPort = 9
    WireModes = {TRUE, FALSE}
    Features = {"reconnect"}
    MaxRel = 3
    MaxSockets = 2
    MaxWire = 2
INVARIANTS
    
    AcceptFindsSocket
    ResetClearsConnection
