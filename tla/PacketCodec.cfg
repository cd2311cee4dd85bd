CONSTANTS
    Stacks <- MCStacks
    Specs <- MCSpecs
    Captures <- MCCaptures
    AnyOptions <- Timestamps
    ByteValues = 4
SPECIFICATION Spec
INVARIANTS
    LayersNest
    RoundTrip
    PayloadIsInside
    OptionsInOrder
    
    ChecksumVerifies
