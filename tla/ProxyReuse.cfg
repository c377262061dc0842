SPECIFICATION FairSpec
CONSTANTS
    MAX_CLIENTS = 1
    MAX_FD = 13
    MAX_ACCESSES = 3
    MAX_HANGUPS = 1
    VISITORS = {1, 2}
    QUITTERS = {"client", "admin", "origin", "generic"}
CHECK_DEADLOCK FALSE
INVARIANTS TypeOK NoDoubleRelease NothingStranded LeaksAreBounded
PROPERTIES FreshDescriptorsAreNotReady 
