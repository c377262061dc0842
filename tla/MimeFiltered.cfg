SPECIFICATION FairSpec
CONSTANTS
    INPUTS <- MCMails
    LOWER <- MCLower
    RELEVANT_HEADERS <- MCHeaders
    MULTIPART <- MCMultipart
    RFC822 <- MCRfc822
    BOUNDARY_NAME <- MCBoundary
    FILTER_MEDIAS <- MCMedias
    BUF_BLOCK = 3
    CLOSES = TRUE
CHECK_DEADLOCK FALSE
INVARIANTS TypeOK InOrder BoundariesBalance CensoredStaysIn WellFormed WellNamed NoLineIsLost KeptUnderItsName SecretsAreInside
PROPERTIES EverythingComesOut CopiedAsItIs TypeDecides
