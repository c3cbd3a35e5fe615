CONSTANTS
    Editors = {u1, u2}
    Configs = {plain, rich}
    Variants = {classic, editorial}
    DefaultConfig = plain
    DefaultVariant = classic
    None = None
    LossyNetwork = TRUE
    MaxRows = 4
    MaxLock = 2
SPECIFICATION Spec
SYMMETRY Symmetry
INVARIANTS TypeOK ConstraintsNeverFire HistoryIsDense ProvenanceHolds
PROPERTIES HistoryIsImmutable StaleWriteRefused
CHECK_DEADLOCK FALSE
