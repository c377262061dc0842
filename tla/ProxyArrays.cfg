SPECIFICATION Spec
CONSTANTS
    MAX_CLIENTS = 1
    MAX_FD = 14
    MAX_ACCESSES = 3
    MAX_HANGUPS = 0
    VISITORS = {1, 2}
    QUITTERS = {"client", "admin", "origin", "generic"}
CHECK_DEADLOCK FALSE
INVARIANT ArraysAreParallel
