CONSTANTS
    Backgrounds = {TRUE}
    Times = 3
SPECIFICATION Spec
INVARIANT StateAlive
