SPECIFICATION Spec
CONSTANTS
    COMMANDS = 3
    BUFF_SIZE = 2
    SOCKET = 2
    PIPE = 1
    BUFFER_END = 1
    CAPA_TEXTS <- MCPieces
    PIPELINING <- MCWord
    REPLIES <- MCShort
    GOODBYE <- MCGoodbye
    DISMISSES = FALSE
    RESETS = TRUE
    IN_TURN = FALSE
    WHOLE = FALSE
CHECK_DEADLOCK FALSE
INVARIANTS TypeOK CommandsInOrder BytesAreThoseForwarded RepliesInOrder
