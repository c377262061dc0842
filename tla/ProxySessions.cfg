SPECIFICATION Spec
CONSTANTS
    MAX_CLIENTS = 2
    MAX_FD = 17
    MAX_ACCESSES = 2
    MAX_HANGUPS = 1
    VISITORS = {1, 2}
    QUITTERS = {"client", "admin", "origin", "generic"}
CHECK_DEADLOCK FALSE
INVARIANTS NoAliasing SessionIsolation
