SPECIFICATION Spec
CONSTANTS
    None = None
    Runners = {r1, r2}
CHECK_DEADLOCK FALSE
INVARIANTS
    ReservedOnce
