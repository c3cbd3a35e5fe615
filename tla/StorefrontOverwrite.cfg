CONSTANTS
    Editors = {u1, u2}
    Configs = {plain, rich}
    Variants = {classic, editorial}
    DefaultConfig = plain
    DefaultVariant = classic
    None = None
    LossyNetwork = FALSE
    MaxRows = 3
    MaxLock = 2
SPECIFICATION Spec
SYMMETRY Symmetry
PROPERTIES NeverASilentOverwrite
CHECK_DEADLOCK FALSE
