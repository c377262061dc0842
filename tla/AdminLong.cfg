SPECIFICATION Spec
CONSTANTS
    a1 = a1
    a2 = a2
    ipv4 = ipv4
    ipv6 = ipv6
    mail = mail
    pop3filter = pop3filter
    ADMINS <- MCOne
    MAX_CONTENT_LEN = 3
    CONTENTS <- MCLong
    LINES <- MCLongLines
    MAXSPACES = 1
    BUFF_SIZE = 4
    METRICS <- MCMetrics
    FIGURES <- MCFigures
    DIRECTORIES <- MCDirectories
    ADDRESSES <- MCAddresses
    HOSTS <- MCHosts
    PROGRAM = pop3filter
    COMMAND_LINES <- MCPlain
    PASSWORD <- MCPassword
    MAX_TRIES = 2
    MAX_REQUESTS = 2
CHECK_DEADLOCK FALSE
INVARIANT SettingsWereSent
