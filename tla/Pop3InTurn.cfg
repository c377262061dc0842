SPECIFICATION FairSpec
CONSTANTS
    COMMANDS = 3
    BUFF_SIZE = 6
    SOCKET = 12
    PIPE = 4
    BUFFER_END = 4
    CAPA_TEXTS <- MCCapabilities
    PIPELINING <- MCPipelining
    REPLIES <- MCReplies
    GOODBYE <- MCGoodbye
    DISMISSES = TRUE
    RESETS = FALSE
    IN_TURN = TRUE
    WHOLE = TRUE
CHECK_DEADLOCK FALSE
PROPERTIES InDialogue DialogueGoesOn VerdictIsCapabilities ClosedForAReason
