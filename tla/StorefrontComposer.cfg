CONSTANTS
    Editors = {c1, c2}
    Composers = {c1, c2}
    Configs = {plain, rich}
    Variants = {classic, editorial}
    DefaultConfig = plain
    DefaultVariant = classic
    None = None
    Unfetched = Unfetched
    LossyNetwork = FALSE
    MaxRows = 2
    MaxLock = 2
SPECIFICATION ComposerSpec
SYMMETRY Symmetry
PROPERTIES StaleFormIsRefused
CHECK_DEADLOCK FALSE
