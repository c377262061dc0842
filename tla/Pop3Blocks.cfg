SPECIFICATION FairSpec
CONSTANTS
    COMMANDS = 3
    BUFF_SIZE = 2
    SOCKET = 1
    PIPE = 2
    BUFFER_END = 1
    CAPA_TEXTS <- MCAnnounced
    PIPELINING <- MCWord
    REPLIES <- MCShort
    GOODBYE <- MCGoodbye
    DISMISSES = FALSE
    RESETS = FALSE
    IN_TURN = FALSE
    WHOLE = TRUE
CHECK_DEADLOCK FALSE
PROPERTY ReturnsToSelect
