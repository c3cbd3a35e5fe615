CONSTANTS
    Ids = {p1, p2}
    Commands = {c1, c2}
    Keys = {k1}
    Slots = {0}
    Walls = {0}
    Zones = {0}
    Clock <- Shifted
    Caps <- TightCaps
    Estimates = {e1}
    Asap = Asap
    NoCap = NoCap
    None = None
    MaxEdits = 0
SPECIFICATION MCFairSpec
PROPERTIES EveryRequestAnswered
CHECK_DEADLOCK FALSE
