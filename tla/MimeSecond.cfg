SPECIFICATION Spec
CONSTANTS
    INPUTS <- MCSecond
    LOWER <- MCLower
    RELEVANT_HEADERS <- MCHeaders
    MULTIPART <- MCMultipart
    RFC822 <- MCRfc822
    BOUNDARY_NAME <- MCBoundary
    FILTER_MEDIAS <- MCMedias
    BUF_BLOCK = 2
    CLOSES = FALSE
CHECK_DEADLOCK FALSE
INVARIANT CensoredStaysIn
