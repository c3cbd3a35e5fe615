CONSTANTS
    Ids = {p1, p2}
    Commands = {c1}
    Keys = {k1, k2}
    Slots = {0, 1}
    Walls = {0}
    Zones = {0, 1}
    Clock <- Shifted
    Caps <- TightCaps
    Estimates = {}
    Asap = Asap
    NoCap = NoCap
    None = None
    MaxEdits = 2
SPECIFICATION MCSpec
SYMMETRY Symmetry
INVARIANTS TypeOK OneOrderPerKey NumbersAreDense PauseHonoured RetryFindsItsOrder
PROPERTIES PlacedWithinOffer BookSpec
CHECK_DEADLOCK FALSE
