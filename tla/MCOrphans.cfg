CONSTANTS
    Limits = {0}
SPECIFICATION Spec
INVARIANTS
    OrphanIffOffTipChains
CHECK_DEADLOCK FALSE
