----------------------------- MODULE MimeHeaders -----------------------------
(***************************************************************************)
(* The headers of a message or of a part in the filter stripmime:          *)
(* parseHeader and parseHeaderParams (src/Stripmime/stripmime.c), which    *)
(* recognise the headers that matter and what a Content-Type says while    *)
(* its characters go by, through folded lines, comments and quotes.        *)
(*                                                                         *)
(* A character is a member of a small alphabet that the constants are      *)
(* spelled in; "CR", "LF" and "SP" are the white space among them.         *)
(***************************************************************************)
EXTENDS Integers, SequencesExt

CONSTANTS
    LOWER,                 \* tolower, of the characters that it changes
    RELEVANT_HEADERS,      \* relevantHeaderNames, Content-Type the first of them
    MULTIPART, RFC822,     \* compositeMimes
    BOUNDARY_NAME,         \* boundaryName
    FILTER_MEDIAS          \* the text of the environment variable

CONTENT_TYPE == 1
Names        == DOMAIN RELEVANT_HEADERS
White        == {"SP", "CR", "LF"}

\* The patterns between the commas, without white space.
SplitMimes(medias) ==
    FoldLeft(LAMBDA mimes, c :
                 IF c = "," THEN Append(mimes, <<>>)
                 ELSE IF c \in White THEN mimes
                 ELSE [mimes EXCEPT ![Len(mimes)] = Append(@, c)],
             << <<>> >>, medias)

censoredMimes == SplitMimes(FILTER_MEDIAS)

ASSUME MimeHeadersAssumption ==
    /\ RELEVANT_HEADERS \in Seq(Seq(STRING)) /\ CONTENT_TYPE \in Names
    /\ BOUNDARY_NAME \in Seq(STRING) /\ \A c \in DOMAIN LOWER : LOWER[c] # "NUL"
    /\ \A n \in Names : RELEVANT_HEADERS[n] # <<>>
    /\ \A k \in DOMAIN censoredMimes : censoredMimes[k] # <<>>
    /\ MULTIPART # <<>> /\ RFC822 # <<>> /\ BOUNDARY_NAME # <<>>

VARIABLES
    task, status,                  \* the two state machines of the level
    mustBeCensored, isMultipart,
    hp,                            \* its header parser
    ctp,                           \* and in it that of the Content-Type
    out

level  == <<mustBeCensored, isMultipart>>
header == <<hp, ctp>>

Write(s) == out' = out \o s
CRLF     == <<"CR", "LF">>

-----------------------------------------------------------------------------
(* Comparisons, character by character, with a text that "NUL" ends.       *)

Lower(c) == IF c \in DOMAIN LOWER THEN LOWER[c] ELSE c

\* What is compared is text that "NUL" ends, which tolower leaves alone; no name is, in any
\* case, the beginning of another.
ASSUME MimeTextAssumption ==
    /\ "NUL" \notin DOMAIN LOWER
    /\ \A k \in DOMAIN censoredMimes : censoredMimes[k] \in Seq(STRING \ {"NUL"})
    /\ {MULTIPART, RFC822} \subseteq Seq(STRING \ {"NUL"})
    /\ \A n \in Names : RELEVANT_HEADERS[n] \in Seq(STRING \ {"NUL"})
    /\ \A m, n \in Names :
          /\ Len(RELEVANT_HEADERS[m]) <= Len(RELEVANT_HEADERS[n])
          /\ \A k \in DOMAIN RELEVANT_HEADERS[m] : Lower(RELEVANT_HEADERS[m][k]) = Lower(RELEVANT_HEADERS[n][k])
          => m = n

At(str, n)    == IF n < Len(str) THEN str[n + 1] ELSE "NUL"
cmp(str, n, c) == n <= Len(str) /\ Lower(c) = Lower(At(str, n))

\* Mutant: a * is compared like any other character.
cmpMimeLiteral(str, n, c) == n <= Len(str) /\ Lower(c) = Lower(At(str, n))

\* A * at the end of a pattern stands for all that follows.
cmpMime(str, n, c) ==
    \/ n >= Len(str) - 1 /\ Last(str) = "*"
    \/ n <= Len(str) /\ Lower(c) = Lower(At(str, n))

anyCensoredMatches(mimes, n) == \E k \in mimes : cmpMime(censoredMimes[k], n, "NUL")

-----------------------------------------------------------------------------
(* The header parser.                                                      *)

NoHeader == [name |-> <<>>, body |-> <<>>]

\* resetHeaderParser; lastTaskStatus and the status of ctp stay as they are.
ResetHp(h) ==
    [h EXCEPT !.relevantHeaders = [n \in Names |-> NoHeader], !.potential = Names,
              !.isRfc822Mime = FALSE, !.hbuf = <<>>, !.nextBoundary = <<>>]
ResetCtp(p) ==
    [p EXCEPT !.mimes = DOMAIN censoredMimes, !.multipart = TRUE, !.rfc822 = TRUE,
              !.doubleQuoteCount = 0, !.boundaryNameIndex = 0, !.wspAndNewLines = 0]
\* Mutant: the headers that were kept stay there for the next part.
ResetHeaderParserKeepsHeaders ==
    hp' = [ResetHp(hp) EXCEPT !.relevantHeaders = hp.relevantHeaders] /\ ctp' = ResetCtp(ctp)
ResetHeaderParser == hp' = ResetHp(hp) /\ ctp' = ResetCtp(ctp)

InitHeaderParser ==
    /\ hp = ResetHp([relevantHeaders |-> <<>>, potential |-> {}, isRfc822Mime |-> FALSE,
                     hbuf |-> <<>>, nextBoundary |-> <<>>, lastTaskStatus |-> "NEW_LINE"])
    /\ ctp = ResetCtp([status |-> "MIME", previous |-> "MIME", mimes |-> {}, multipart |-> TRUE,
                       rfc822 |-> TRUE, doubleQuoteCount |-> 0, boundaryNameIndex |-> 0,
                       wspAndNewLines |-> 0])

\* matchesFound: the first name that what has been read may still be, or 0.
MatchesFound == IF hp.potential = {} THEN 0 ELSE CHOOSE n \in hp.potential : \A m \in hp.potential : n <= m

InBuffer(h, c)  == [h EXCEPT !.hbuf = Append(@, c)]
InBody(h, n, c) == [h EXCEPT !.relevantHeaders[n].body = Append(@, c)]

\* Where a character of a header that has been left off goes on.
Kept(h, c) == IF h.lastTaskStatus \in {"HEADER_BODY", "CONTENT_TYPE_BODY"}
                 THEN InBody(h, MatchesFound, c) ELSE InBuffer(h, c)

\* A header that is not one of the relevant ones is written when its end is certain.
LastHeader == IF hp.hbuf # <<>> /\ hp.potential = {} THEN hp.hbuf ELSE <<>>

\* putHeaders, in the order of relevantHeaderNames.
PutHeaders == FlattenSeq([n \in Names |-> hp.relevantHeaders[n].name \o hp.relevantHeaders[n].body])

Replacement == <<"replaced">> \o CRLF

-----------------------------------------------------------------------------
(* The start of a line.                                                    *)

\* The empty line: the replacement, the kept headers, or, for message/rfc822,
\* those and then the headers of the message within.
EndHeaders(c) ==
    /\ status = "NEW_LINE" /\ c = "LF"
    /\ Write(LastHeader \o (IF mustBeCensored THEN Replacement ELSE PutHeaders \o CRLF))
    /\ IF hp.isRfc822Mime /\ ~mustBeCensored
          THEN ResetHeaderParser /\ task' = "PARSING_HEADERS"
          ELSE /\ task' = "DONE_PARSING_HEADERS"
               /\ hp' = [hp EXCEPT !.hbuf = IF LastHeader = <<>> THEN @ ELSE <<>>]
               /\ UNCHANGED ctp
    /\ UNCHANGED <<status, level>>

\* Mutant: the space of a folded line counts as a character of the type.
FoldedUncounted(c) ==
    /\ status = "NEW_LINE" /\ c = "SP"
    /\ status' = hp.lastTaskStatus
    /\ hp' = Kept(hp, c)
    /\ UNCHANGED <<task, level, ctp, out>>

\* The line goes on with the header before, as what it was.
Folded(c) ==
    /\ status = "NEW_LINE" /\ c = "SP"
    /\ status' = hp.lastTaskStatus
    /\ hp' = Kept(hp, c)
    /\ ctp' = [ctp EXCEPT !.wspAndNewLines = IF hp.lastTaskStatus = "CONTENT_TYPE_BODY" THEN @ + 1 ELSE @]
    /\ UNCHANGED <<task, level, out>>

\* checkIsRelevantHeader: the names that c can still belong to.
StillRelevant(names, n, c) == {m \in names : cmp(RELEVANT_HEADERS[m], n, c)}

BeginHeader(c) ==
    /\ status = "NEW_LINE" /\ c \notin White
    /\ Write(LastHeader)
    /\ LET names == StillRelevant(Names, 0, c) IN
       /\ hp' = [hp EXCEPT !.hbuf = <<c>>, !.potential = names]
       /\ status' = IF names = {} THEN "IRRELEVANT_HEADER" ELSE "RELEVANT_HEADER_NAME"
    /\ UNCHANGED <<task, level, ctp>>

NewLine(c) ==
    \/ status = "NEW_LINE" /\ c = "CR" /\ UNCHANGED <<task, status, level, header, out>>
    \/ EndHeaders(c) \/ Folded(c) \/ BeginHeader(c)

-----------------------------------------------------------------------------
(* Names and bodies of headers.                                            *)

CrHeader(c) ==
    /\ status = "CR_HEADER"
    /\ status' = IF c = "LF" THEN "NEW_LINE" ELSE "HEADER_BODY"
    /\ hp' = IF c = "LF" THEN Kept(hp, c) ELSE hp
    /\ UNCHANGED <<task, level, ctp, out>>

\* The name is complete, and only then one of the relevant ones.
EndOfName(c) ==
    /\ c \in {":", "SP", "LF"}
    /\ LET m == MatchesFound
           finished == \E n \in hp.potential : cmp(RELEVANT_HEADERS[n], Len(hp.hbuf), "NUL")
       IN
       \/ /\ ~finished
          /\ hp' = [hp EXCEPT !.potential = @ \ {m}]
          /\ status' = "IRRELEVANT_HEADER" /\ UNCHANGED ctp
       \/ /\ finished
          /\ hp' = [hp EXCEPT !.relevantHeaders[m] = [name |-> Append(hp.hbuf, ":"), body |-> <<>>]]
          /\ status' = IF m = CONTENT_TYPE THEN "CONTENT_TYPE_BODY" ELSE "HEADER_BODY"
          /\ ctp' = IF m = CONTENT_TYPE THEN [ctp EXCEPT !.status = "MIME"] ELSE ctp

\* Mutant: the names that the character rules out stay possible.
NameGoesOnKeeps(c) ==
    /\ c \notin {":"} \cup White
    /\ hp' = InBuffer(hp, c)
    /\ status' = IF StillRelevant(hp.potential, Len(hp.hbuf), c) = {} THEN "IRRELEVANT_HEADER" ELSE status
    /\ UNCHANGED ctp

NameGoesOn(c) ==
    /\ c \notin {":"} \cup White
    /\ LET names == StillRelevant(hp.potential, Len(hp.hbuf), c) IN
       /\ hp' = [InBuffer(hp, c) EXCEPT !.potential = names]
       /\ status' = IF names = {} THEN "IRRELEVANT_HEADER" ELSE status
    /\ UNCHANGED ctp

RelevantHeaderName(c) ==
    /\ status = "RELEVANT_HEADER_NAME"
    /\ \/ /\ c = "CR"
          /\ hp' = [hp EXCEPT !.lastTaskStatus = status]
          /\ status' = "CR_HEADER" /\ UNCHANGED ctp
       \/ EndOfName(c)
       \/ NameGoesOn(c)
    /\ UNCHANGED <<task, level, out>>

\* Mutant: a folded line goes on with whatever header was folded before.
TakenAsItIsForgets(c) ==
    /\ status \in {"IRRELEVANT_HEADER", "HEADER_BODY"}
    /\ hp' = IF status = "HEADER_BODY" THEN InBody(hp, MatchesFound, c) ELSE InBuffer(hp, c)
    /\ status' = IF c = "CR" THEN "CR_HEADER" ELSE status
    /\ UNCHANGED <<task, level, ctp, out>>

\* IRRELEVANT_HEADER and HEADER_BODY: the header is taken as it is.
TakenAsItIs(c) ==
    /\ status \in {"IRRELEVANT_HEADER", "HEADER_BODY"}
    /\ hp' = Kept([hp EXCEPT !.lastTaskStatus = status], c)
    /\ status' = IF c = "CR" THEN "CR_HEADER" ELSE status
    /\ UNCHANGED <<task, level, ctp, out>>

-----------------------------------------------------------------------------
(* parseHeaderParams, the body of a Content-Type.                          *)

ContentType  == [hp EXCEPT !.lastTaskStatus = "CONTENT_TYPE_BODY"]
TypeLength   == Len(hp.relevantHeaders[CONTENT_TYPE].body) - ctp.wspAndNewLines
Taken(c)     == hp' = InBody(ContentType, CONTENT_TYPE, c)
Dropped      == hp' = ContentType
Comment(back) == ctp' = [ctp EXCEPT !.previous = back, !.status = "COMMENT"]

\* The end of the type decides what becomes of the part.
TypeEnds(c) ==
    LET censored == anyCensoredMatches(ctp.mimes, TypeLength)
        multi    == ~censored /\ ctp.multipart /\ cmpMime(MULTIPART, TypeLength, "NUL")
        rfc822   == ~censored /\ ~multi /\ ctp.rfc822 /\ cmpMime(RFC822, TypeLength, "NUL")
    IN
    /\ ctp.status = "MIME" /\ c \in {"CR", ";"}
    /\ mustBeCensored' = (mustBeCensored \/ censored) /\ isMultipart' = (isMultipart \/ multi)
    /\ hp' = [InBody(ContentType, CONTENT_TYPE, c) EXCEPT !.isRfc822Mime = @ \/ rfc822]
    /\ ctp' = [ctp EXCEPT !.wspAndNewLines = @ + 2, !.status = IF multi THEN "SEPARATOR" ELSE @]
    /\ status' = CASE c = "CR" -> "CR_HEADER" [] c # "CR" /\ censored -> "HEADER_BODY" [] OTHER -> status

\* A character of the type narrows down what it may be.
TypeGoesOn(c) ==
    LET n     == TypeLength
        mimes == {k \in ctp.mimes : cmpMime(censoredMimes[k], n, c)}
        multi == ctp.multipart /\ cmpMime(MULTIPART, n, c)
        rfc   == ctp.rfc822 /\ cmpMime(RFC822, n, c)
    IN
    /\ ctp.status = "MIME" /\ c \notin {";", ":", "("} \cup White
    /\ ctp' = [ctp EXCEPT !.mimes = mimes, !.multipart = multi, !.rfc822 = rfc]
    /\ Taken(c)
    /\ status' = IF mimes = {} /\ ~multi /\ ~rfc THEN "HEADER_BODY" ELSE status
    /\ UNCHANGED level

TypeSkips(c) ==
    /\ ctp.status = "MIME" /\ c \in {"SP", "LF", ":", "("}
    /\ IF c = "(" THEN Comment("MIME") ELSE UNCHANGED ctp
    /\ Dropped
    /\ UNCHANGED <<status, level>>

\* The parameters of a multipart, up to the one with the boundary.
Separator(c) ==
    LET n == ctp.boundaryNameIndex IN
    /\ ctp.status = "SEPARATOR"
    /\ \/ c = "CR" /\ Taken(c) /\ ctp' = [ctp EXCEPT !.previous = "SEPARATOR"] /\ status' = "CR_HEADER"
       \/ c = "(" /\ Dropped /\ Comment("SEPARATOR") /\ UNCHANGED status
       \/ c \in White \ {"CR"} /\ Dropped /\ UNCHANGED <<ctp, status>>
       \/ /\ c = "=" /\ n = Len(BOUNDARY_NAME)
          /\ Taken(c) /\ ctp' = [ctp EXCEPT !.status = "BOUNDARY"] /\ UNCHANGED status
       \/ /\ c \notin {"("} \cup White /\ ~(c = "=" /\ n = Len(BOUNDARY_NAME))
          /\ Taken(c) /\ UNCHANGED status
          /\ ctp' = [ctp EXCEPT !.boundaryNameIndex = IF Lower(c) = At(BOUNDARY_NAME, n) THEN n + 1 ELSE 0]
    /\ UNCHANGED level

InComment(c) ==
    /\ ctp.status = "COMMENT"
    /\ ctp' = IF c = ")" THEN [ctp EXCEPT !.status = ctp.previous] ELSE ctp
    /\ Dropped
    /\ UNCHANGED <<status, level>>

\* Mutant: only what is not in quotes belongs to the boundary.
BoundaryValueUnquoted(c) ==
    LET quotes == ctp.doubleQuoteCount
        ends   == c = "CR" /\ quotes \in {0, 2}
    IN
    /\ ctp.status = "BOUNDARY"
    /\ \/ ends /\ Taken(c) /\ UNCHANGED ctp
       \/ c = "(" /\ Dropped /\ Comment("SEPARATOR")
       \/ c \in {"CR", "LF"} /\ ~ends /\ Dropped /\ UNCHANGED ctp
       \/ c = "quote" /\ Taken(c) /\ ctp' = [ctp EXCEPT !.doubleQuoteCount = quotes + 1]
       \/ /\ c \notin {"CR", "LF", "(", "quote"}
          /\ hp' = IF quotes # 0 THEN ContentType
                   ELSE [InBody(ContentType, CONTENT_TYPE, c) EXCEPT !.nextBoundary = Append(@, c)]
          /\ UNCHANGED ctp
    /\ status' = IF ends THEN "CR_HEADER" ELSE status
    /\ UNCHANGED level

\* The boundary, in quotes or not; what comes after the quotes is dropped.
BoundaryValue(c) ==
    LET quotes == ctp.doubleQuoteCount
        ends   == c = "CR" /\ quotes \in {0, 2}
    IN
    /\ ctp.status = "BOUNDARY"
    /\ \/ ends /\ Taken(c) /\ UNCHANGED ctp
       \/ c = "(" /\ Dropped /\ Comment("SEPARATOR")
       \/ c \in {"CR", "LF"} /\ ~ends /\ Dropped /\ UNCHANGED ctp
       \/ c = "quote" /\ Taken(c) /\ ctp' = [ctp EXCEPT !.doubleQuoteCount = quotes + 1]
       \/ /\ c \notin {"CR", "LF", "(", "quote"}
          /\ hp' = IF quotes = 2 THEN ContentType
                   ELSE [InBody(ContentType, CONTENT_TYPE, c) EXCEPT !.nextBoundary = Append(@, c)]
          /\ UNCHANGED ctp
    /\ status' = IF ends THEN "CR_HEADER" ELSE status
    /\ UNCHANGED level

parseHeaderParams(c) ==
    /\ status = "CONTENT_TYPE_BODY"
    /\ TypeEnds(c) \/ TypeGoesOn(c) \/ TypeSkips(c) \/ Separator(c) \/ InComment(c) \/ BoundaryValue(c)
    /\ UNCHANGED <<task, out>>

parseHeader(c) ==
    NewLine(c) \/ CrHeader(c) \/ RelevantHeaderName(c) \/ TakenAsItIs(c) \/ parseHeaderParams(c)
=============================================================================
