SPECIFICATION Spec
CONSTANTS
    None = None
    Runners = {r1}
CHECK_DEADLOCK FALSE
PROPERTIES
    OwnResultKept
