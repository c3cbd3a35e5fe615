CONSTANTS
    Ids = {p1, p2}
    Commands = {}
    Keys = {k1}
    Slots = {0}
    Walls = {0}
    Zones = {0}
    Clock <- Shifted
    Caps <- TightCaps
    Estimates = {e1}
    Asap = Asap
    NoCap = NoCap
    None = None
    MaxEdits = 0
SPECIFICATION MCSpec
SYMMETRY Symmetry
PROPERTIES DuplicateIsReplayed
CHECK_DEADLOCK FALSE
