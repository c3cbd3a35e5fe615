CONSTANTS
    Ids = {p1}
    Commands = {}
    Keys = {k1}
    Slots = {0, 1, 2}
    Walls = {0, 1}
    Zones = {0, 1}
    Clock <- Shifted
    Caps <- TightCaps
    Estimates = {e1}
    Asap = Asap
    NoCap = NoCap
    None = None
    MaxEdits = 1
SPECIFICATION MCSpec
SYMMETRY Symmetry
PROPERTIES PromisedOnSchedule
CHECK_DEADLOCK FALSE
