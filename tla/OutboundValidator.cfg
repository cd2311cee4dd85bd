CONSTANTS
    Backgrounds = {TRUE, FALSE}
    Times = 3
SPECIFICATION FairSpec
INVARIANTS
    TypeOK
    OneCollector
PROPERTY MainEnds
