----------------------------- MODULE MimeFilter -----------------------------
(***************************************************************************)
(* The filter stripmime (src/Stripmime/stripmime.c): what it reads from    *)
(* standard input, as many bytes at a time as there happen to be, and what *)
(* it writes, while it goes through a reply of the origin server, the      *)
(* headers of a message and the parts of its body.                         *)
(*                                                                         *)
(* Its headers are in MimeHeaders, which this module extends with the      *)
(* buffer, the status lines of POP3 and the bodies.                        *)
(***************************************************************************)
EXTENDS MimeHeaders

CONSTANTS
    INPUTS,     \* what may come in, as records [text, filtered]
    BUF_BLOCK,  \* characters one read takes at most
    CLOSES      \* does the end of the text come as an end of file

ASSUME MimeFilterAssumption == BUF_BLOCK \in Nat \ {0} /\ CLOSES \in BOOLEAN

\* No byte of what comes in is NUL.
ASSUME MimeInputsAssumption == \A m \in INPUTS : m.text \in Seq(STRING \ {"NUL"})

VARIABLES
    given, input, stopped,              \* the text, what is left of it, the end
    buf, i, start,                      \* the buffer and bufferStartingPoint
    hyphenCount, boundaryIndex, boundaries

body   == <<hyphenCount, boundaryIndex, boundaries>>
source == <<given, input, stopped>>
vars   == <<source, buf, i, start, task, status, level, header, body, out>>

HYPHENS == 2

\* What main writes before it reads anything.
Banner == <<"setee vars">>

Init ==
    /\ given \in INPUTS
    /\ input = given.text /\ stopped = FALSE
    /\ buf = <<>> /\ i = 0 /\ start = 0
    /\ task = "PARSING_POP3" /\ status = "NEW_LINE_POP3"
    /\ mustBeCensored = FALSE /\ isMultipart = FALSE
    /\ InitHeaderParser
    /\ hyphenCount = 0 /\ boundaryIndex = 0 /\ boundaries = <<>>
    /\ out = Banner

-----------------------------------------------------------------------------
(* The buffer.                                                             *)

\* The bytes of the buffer from bufferStartingPoint up to and without n.
Buffered(from, n) == SubSeq(buf, from + 1, n)

Advance == i' = i + 1 /\ UNCHANGED <<source, buf>>

\* Mutant: what is left of the buffer is not where the next one begins.
FlushKeepsStart ==
    /\ buf # <<>> /\ i = Len(buf)
    /\ Write(IF task = "PARSING_POP3" \/ (~mustBeCensored /\ task \in {"PARSING_BODY", "DONE_PARSING_BODY"})
                THEN Buffered(start, i) ELSE <<>>)
    /\ buf' = <<>> /\ i' = 0
    /\ UNCHANGED <<source, start, task, status, level, header, body>>

\* Before the buffer is overwritten, what belongs to the output is written.
Flush ==
    /\ buf # <<>> /\ i = Len(buf)
    /\ Write(IF task = "PARSING_POP3" \/ (~mustBeCensored /\ task \in {"PARSING_BODY", "DONE_PARSING_BODY"})
                THEN Buffered(start, i) ELSE <<>>)
    /\ buf' = <<>> /\ i' = 0 /\ start' = 0
    /\ UNCHANGED <<source, task, status, level, header, body>>

\* Takes the next n tokens, which is as many as have arrived.
Read(n) == n <= Len(input) /\ input' = SubSeq(input, n + 1, Len(input))

FeedMoreBytes ==
    /\ buf = <<>> /\ task # "DONE_FINAL_BODY" /\ input # <<>>
    /\ \E n \in 1 .. BUF_BLOCK : Read(n) /\ buf' = SubSeq(input, 1, n)
    /\ UNCHANGED <<given, stopped, i, start, task, status, level, header, body, out>>

\* A header line that was being read is written at the end of the input, with
\* one byte too many; if it is relevant, only its name has been kept.
EndOfInput ==
    /\ buf = <<>> /\ task # "DONE_FINAL_BODY" /\ input = <<>> /\ CLOSES /\ ~stopped
    /\ stopped' = TRUE
    /\ Write(IF task = "PARSING_HEADERS" THEN Append(hp.hbuf, "junk") ELSE <<>>)
    /\ UNCHANGED <<given, input, buf, i, start, task, status, level, header, body>>

\* Mutant: the end of a message whose last part was replaced is not written.
ConsumeRemainingBytesSilent ==
    /\ task = "DONE_FINAL_BODY" /\ ~stopped
    /\ \/ /\ \E n \in 1 .. BUF_BLOCK :
                Read(n) /\ Write(IF mustBeCensored THEN <<>> ELSE SubSeq(input, 1, n))
          /\ UNCHANGED stopped
       \/ /\ input = <<>> /\ CLOSES
          /\ stopped' = TRUE
          /\ UNCHANGED out
          /\ UNCHANGED input
    /\ UNCHANGED <<given, buf, i, start, task, status, level, header, body>>

\* consumeRemainingBytes, which copies or swallows all that is still to come.
ConsumeRemainingBytes ==
    /\ task = "DONE_FINAL_BODY" /\ ~stopped
    /\ \/ /\ \E n \in 1 .. BUF_BLOCK :
                Read(n) /\ Write(IF mustBeCensored THEN <<>> ELSE SubSeq(input, 1, n))
          /\ UNCHANGED stopped
       \/ /\ input = <<>> /\ CLOSES
          /\ stopped' = TRUE
          /\ Write(IF mustBeCensored THEN CRLF \o <<".">> \o CRLF ELSE <<>>)
          /\ UNCHANGED input
    /\ UNCHANGED <<given, buf, i, start, task, status, level, header, body>>

-----------------------------------------------------------------------------
(* The state machines, a character at a time.                             *)

Header ==
    /\ task = "PARSING_HEADERS" /\ i < Len(buf)
    /\ parseHeader(buf[i + 1])
    /\ Advance
    /\ UNCHANGED <<start, body>>

-----------------------------------------------------------------------------
(* parsePop3: lines that begin with + or -, up to the first that does not. *)

Pop3 ==
    /\ task = "PARSING_POP3" /\ i < Len(buf)
    /\ LET c == buf[i + 1] IN
       IF status = "NEW_LINE_POP3" /\ c \notin {"+", "-"}
          THEN /\ task' = "PARSING_HEADERS" /\ status' = "NEW_LINE"
               /\ Write(Buffered(0, i))
               /\ UNCHANGED <<source, buf, i, header, level>>
          ELSE /\ status' = CASE status = "NEW_LINE_POP3"             -> "COMMAND_POP3"
                              [] status = "CR_POP3" /\ c = "LF"       -> "NEW_LINE_POP3"
                              [] status = "COMMAND_POP3" /\ c = "CR"  -> "CR_POP3"
                              [] OTHER                                -> status
               /\ Advance
               /\ UNCHANGED <<task, level, header, out>>
    /\ UNCHANGED <<start, body>>

-----------------------------------------------------------------------------
(* parseBody.                                                              *)

\* Mutant: a hyphen that no other follows stays counted.
ScannedKeepsHyphens(c, st, boundary) ==
    LET to(s, h, n) == [status |-> s, hyphens |-> h, index |-> n]
        line(s) == to(IF c = "CR" THEN "CR_BODY" ELSE s, hyphenCount, boundaryIndex)
    IN
    CASE st = "NEW_LINE_BODY" /\ c = "-"  -> to("HYPHEN", hyphenCount + 1, boundaryIndex)
      [] st = "NEW_LINE_BODY" /\ c # "-"  -> line(IF c = "LF" THEN st ELSE "IRRELEVANT_BODY")
      [] st = "IRRELEVANT_BODY"           -> line(st)
      [] st = "CR_BODY"                   ->
            to(IF c = "LF" THEN "NEW_LINE_BODY" ELSE "IRRELEVANT_BODY", hyphenCount, boundaryIndex)
      [] st = "HYPHEN"                    ->
            IF (IF c = "-" THEN hyphenCount + 1 ELSE hyphenCount) = HYPHENS
               THEN to("SEARCHING_BOUNDARY", HYPHENS, boundaryIndex)
               ELSE to("IRRELEVANT_BODY", hyphenCount, boundaryIndex)
      [] st = "SEARCHING_BOUNDARY"        ->
            IF c = "CR" THEN to("CR_BODY", 0, boundaryIndex)
            ELSE IF c # boundary[boundaryIndex + 1] THEN to("IRRELEVANT_BODY", 0, 0)
            ELSE IF boundaryIndex + 1 < Len(boundary) THEN to(st, 0, boundaryIndex + 1)
            ELSE to("BOUNDARY_POP_CHECK", 0, 0)

\* The search for "--" and the boundary at the start of a line.
Scanned(c, st, boundary) ==
    LET to(s, h, n) == [status |-> s, hyphens |-> h, index |-> n]
        line(s) == to(IF c = "CR" THEN "CR_BODY" ELSE s, hyphenCount, boundaryIndex)
    IN
    CASE st = "NEW_LINE_BODY" /\ c = "-"  -> to("HYPHEN", hyphenCount + 1, boundaryIndex)
      [] st = "NEW_LINE_BODY" /\ c # "-"  -> line(IF c = "LF" THEN st ELSE "IRRELEVANT_BODY")
      [] st = "IRRELEVANT_BODY"           -> line(st)
      [] st = "CR_BODY"                   ->
            to(IF c = "LF" THEN "NEW_LINE_BODY" ELSE "IRRELEVANT_BODY", hyphenCount, boundaryIndex)
      [] st = "HYPHEN"                    ->
            IF (IF c = "-" THEN hyphenCount + 1 ELSE hyphenCount) = HYPHENS
               THEN to("SEARCHING_BOUNDARY", HYPHENS, boundaryIndex)
               ELSE to("IRRELEVANT_BODY", 0, boundaryIndex)
      [] st = "SEARCHING_BOUNDARY"        ->
            IF c = "CR" THEN to("CR_BODY", 0, boundaryIndex)
            ELSE IF c # boundary[boundaryIndex + 1] THEN to("IRRELEVANT_BODY", 0, 0)
            ELSE IF boundaryIndex + 1 < Len(boundary) THEN to(st, 0, boundaryIndex + 1)
            ELSE to("BOUNDARY_POP_CHECK", 0, 0)

\* What follows the boundary: the end of its line, or two more hyphens.  In place
\* of a censored part the boundary is written here.
PopCheck(c, stack) ==
    LET hyphens == IF c = "-" THEN hyphenCount + 1 ELSE hyphenCount
        line    == <<"-", "-">> \o Head(stack)
    IN
    /\ boundaryIndex' = 0
    /\ \/ /\ hyphens = HYPHENS
          /\ Write(IF mustBeCensored THEN line \o <<"-", "-">> \o CRLF ELSE <<>>)
          /\ boundaries' = Tail(stack)
          /\ status' = "NEW_LINE_BODY" /\ hyphenCount' = 0 /\ task' = "PARSING_BODY"
       \/ /\ hyphens < HYPHENS
          /\ Write(IF mustBeCensored /\ c # "-" THEN line \o CRLF ELSE <<>>)
          /\ task' = IF c = "CR" THEN "DONE_PARSING_BODY" ELSE "PARSING_BODY"
          /\ hyphenCount' = hyphens /\ boundaries' = stack
          /\ status' = "BOUNDARY_POP_CHECK"

\* Outside every multipart nothing is looked for, and the end of what has been
\* read so far is where all the rest is left to consumeRemainingBytes.
ParseBody(c, st, stack, from) ==
    \/ /\ stack = <<>> /\ i + 1 < Len(buf)
       /\ task' = "PARSING_BODY" /\ status' = st /\ start' = from /\ boundaries' = stack
       /\ Advance
       /\ UNCHANGED <<hyphenCount, boundaryIndex, out>>
    \/ /\ stack = <<>> /\ i + 1 = Len(buf)
       /\ Write(IF mustBeCensored THEN <<>> ELSE Buffered(from, i + 1))
       /\ task' = "DONE_FINAL_BODY" /\ status' = "WRITING_NO_CHECK" /\ start' = 0 /\ boundaries' = stack
       /\ buf' = <<>> /\ i' = 0
       /\ UNCHANGED <<source, hyphenCount, boundaryIndex>>
    \/ /\ stack # <<>> /\ st # "BOUNDARY_POP_CHECK"
       /\ LET next == Scanned(c, st, Head(stack)) IN
          status' = next.status /\ hyphenCount' = next.hyphens /\ boundaryIndex' = next.index
       /\ task' = "PARSING_BODY" /\ start' = from /\ boundaries' = stack
       /\ Advance
       /\ UNCHANGED out
    \/ /\ stack # <<>> /\ st = "BOUNDARY_POP_CHECK"
       /\ PopCheck(c, stack)
       /\ start' = from
       /\ Advance

\* The stack, once the headers are done with.
Pushed == IF isMultipart /\ ~mustBeCensored THEN <<hp.nextBoundary>> \o boundaries ELSE boundaries

BeginBody ==
    /\ task = "DONE_PARSING_HEADERS" /\ i < Len(buf)
    /\ ParseBody(buf[i + 1], "NEW_LINE_BODY", Pushed, i)
    /\ ResetHeaderParser
    /\ UNCHANGED level

Body ==
    /\ task = "PARSING_BODY" /\ i < Len(buf)
    /\ ParseBody(buf[i + 1], status, boundaries, start)
    /\ UNCHANGED <<level, header>>

\* Mutant: what follows a part that was censored is censored too.
EndOfPartKeepsCensored ==
    /\ task = "DONE_PARSING_BODY" /\ i < Len(buf)
    /\ Write(IF mustBeCensored THEN <<>> ELSE Buffered(start, i + 1))
    /\ task' = "PARSING_HEADERS" /\ status' = "NEW_LINE"
    /\ isMultipart' = FALSE /\ UNCHANGED mustBeCensored
    /\ ResetHeaderParser
    /\ start' = 0 /\ boundaryIndex' = 0 /\ hyphenCount' = 0
    /\ Advance
    /\ UNCHANGED boundaries

\* Mutant: what is written ends before the end of the boundary's line.
EndOfPartOffByOne ==
    /\ task = "DONE_PARSING_BODY" /\ i < Len(buf)
    /\ Write(IF mustBeCensored THEN <<>> ELSE Buffered(start, i))
    /\ task' = "PARSING_HEADERS" /\ status' = "NEW_LINE"
    /\ isMultipart' = FALSE /\ mustBeCensored' = FALSE
    /\ ResetHeaderParser
    /\ start' = 0 /\ boundaryIndex' = 0 /\ hyphenCount' = 0
    /\ Advance
    /\ UNCHANGED boundaries

\* The end of the boundary's line: another part begins.
EndOfPart ==
    /\ task = "DONE_PARSING_BODY" /\ i < Len(buf)
    /\ Write(IF mustBeCensored THEN <<>> ELSE Buffered(start, i + 1))
    /\ task' = "PARSING_HEADERS" /\ status' = "NEW_LINE"
    /\ isMultipart' = FALSE /\ mustBeCensored' = FALSE
    /\ ResetHeaderParser
    /\ start' = 0 /\ boundaryIndex' = 0 /\ hyphenCount' = 0
    /\ Advance
    /\ UNCHANGED boundaries

Next ==
    \/ Flush \/ FeedMoreBytes \/ EndOfInput \/ ConsumeRemainingBytes
    \/ Pop3 \/ Header \/ BeginBody \/ Body \/ EndOfPart

Spec == Init /\ [][Next]_vars

\* What has been written to the pipe is there to be read, and the filter runs.
FairSpec == Spec /\ WF_vars(Next)
-----------------------------------------------------------------------------
(* Properties.                                                             *)

Statuses ==
    {"NEW_LINE_POP3", "COMMAND_POP3", "CR_POP3", "NEW_LINE", "CR_HEADER",
     "RELEVANT_HEADER_NAME", "IRRELEVANT_HEADER", "HEADER_BODY", "CONTENT_TYPE_BODY",
     "NEW_LINE_BODY", "IRRELEVANT_BODY", "CR_BODY", "HYPHEN", "SEARCHING_BOUNDARY",
     "BOUNDARY_POP_CHECK", "WRITING_NO_CHECK"}

\* Every position is inside what it is a position of: the indices of the buffer, the
\* count of hyphens, the indices into the boundary that is looked for and into its
\* name, and the number of the relevant header whose body is being read.
TypeOK ==
    /\ stopped \in BOOLEAN /\ mustBeCensored \in BOOLEAN /\ isMultipart \in BOOLEAN
    /\ ctp.boundaryNameIndex \in 0 .. Len(BOUNDARY_NAME)
    /\ status \in {"HEADER_BODY", "CONTENT_TYPE_BODY"} =>
          MatchesFound # 0 /\ hp.relevantHeaders[MatchesFound] # NoHeader
    /\ Len(buf) <= BUF_BLOCK /\ i \in 0 .. Len(buf) /\ start \in 0 .. i
    /\ task \in {"PARSING_POP3", "PARSING_HEADERS", "DONE_PARSING_HEADERS", "PARSING_BODY",
                 "DONE_PARSING_BODY", "DONE_FINAL_BODY"}
    /\ status \in Statuses
    /\ hyphenCount \in 0 .. HYPHENS
    /\ boundaries # <<>> => boundaryIndex \in 0 .. Len(Head(boundaries)) - 1

\* What Informe.pdf:8 lets the filter leave out of the headers: spaces and comments.
Squeezed(text) == SelectSeq(text, LAMBDA c : c \notin {"SP", "(", "note", ")"})

Filtered == Squeezed(Banner \o given.filtered)

\* However the input is cut into reads, what has been written is the beginning of
\* the filtered text: nothing is lost, repeated or out of its place (stripmime.c:186-198).
InOrder == IsPrefix(Squeezed(out), Filtered)

\* At the end of the input every boundary has been popped that was pushed
\* (stripmime.c:211-218 and 729): the multiparts are seen to be balanced.
BoundariesBalance == stopped => boundaries = <<>>

\* Nothing of a part that is to be replaced is ever written (stripmime.c:191).
CensoredStaysIn == ~Contains(out, "secret")

\* What has come in and is to go out: from bufferStartingPoint, or from where the
\* buffer is being read, on.
Pending ==
    (IF task \in {"PARSING_POP3", "PARSING_BODY", "DONE_PARSING_BODY"}
        THEN Buffered(start, Len(buf)) ELSE Buffered(i, Len(buf))) \o input

\* What has been pending longest is written, and the rest stays pending.
Copies ==
    \/ out' = out /\ Pending' = Pending
    \/ \E n \in 0 .. Len(Pending) : /\ Write(SubSeq(Pending, 1, n))
                                    /\ Pending' = SubSeq(Pending, n + 1, Len(Pending))

\* Outside headers and parts that are replaced, what has come in goes out as it is and in
\* its order, whatever the reads it came in (stripmime.c:186-194, 229 and 252).
CopiedAsItIs == [][~mustBeCensored /\ task # "PARSING_HEADERS" => Copies]_vars

\* What the parser takes for granted of the mail: a line of a header ends with both its
\* characters (stripmime.c:352-364), the first one is not the continuation of another
\* (325-337), and a multipart has announced its boundary, and it was found, by the end of
\* its headers (211-218).
WellFormed ==
    /\ task = "PARSING_HEADERS" /\ i < Len(buf) =>
          /\ status = "CR_HEADER" => buf[i + 1] = "LF"
          /\ status = "NEW_LINE" /\ hp.hbuf = <<>> => buf[i + 1] # "SP"
    /\ task = "DONE_PARSING_HEADERS" /\ isMultipart /\ ~mustBeCensored => hp.nextBoundary # <<>>

\* What the filter takes for granted of the headers' names: one that may still be that of a
\* relevant header when it ends is all of that name, with its colon in the same line
\* (stripmime.c:371-388), and no part has two headers Content-Type (376-384).
WellNamed ==
    task = "PARSING_HEADERS" /\ status = "RELEVANT_HEADER_NAME" /\ i < Len(buf) =>
        /\ buf[i + 1] # "CR"
        /\ buf[i + 1] \in {":", "SP", "LF"} =>
              /\ \E n \in hp.potential : cmp(RELEVANT_HEADERS[n], Len(hp.hbuf), "NUL")
              /\ MatchesFound = CONTENT_TYPE => hp.relevantHeaders[CONTENT_TYPE] = NoHeader

\* A line of the headers that is over, and may be followed by another, has been taken down
\* as that of a relevant header, or else it is certain to be written (stripmime.c:296-314).
NoLineIsLost ==
    task = "PARSING_HEADERS" /\ status = "NEW_LINE" /\ hp.hbuf # <<>> =>
        IF hp.lastTaskStatus \in {"HEADER_BODY", "CONTENT_TYPE_BODY"}
           THEN hp.potential # {} /\ hp.relevantHeaders[MatchesFound] # NoHeader
           ELSE hp.potential = {}

\* Two texts are the same but for the case of their letters.
Spelled(text, word) == Len(text) = Len(word) /\ \A k \in 1 .. Len(word) : Lower(text[k]) = Lower(word[k])

\* A relevant header is kept in the place of its own name, though it is enough that any of
\* the names still possible has ended, and the first of them is taken (stripmime.c:370-388).
KeptUnderItsName ==
    \A n \in Names : LET kept == hp.relevantHeaders[n] IN
        kept # NoHeader => Spelled(kept.name, Append(RELEVANT_HEADERS[n], ":"))

\* What has been read of the media type, without the folds in it.
WithoutFolds(text) == FoldLeft(LAMBDA word, c : IF c \in White THEN word ELSE Append(word, c), <<>>, text)
TypeRead           == WithoutFolds(hp.relevantHeaders[CONTENT_TYPE].body)

\* A media type is like a pattern, whatever the case of its letters: it is the same, or all of
\* the pattern but the * at its end begins it.
Like(type, pattern) ==
    LET star == Last(pattern) = "*" IN
    /\ IF star THEN Len(type) >= Len(pattern) - 1 ELSE Len(type) = Len(pattern)
    /\ \A k \in 1 .. Len(pattern) : k < Len(pattern) \/ ~star => Lower(type[k]) = Lower(pattern[k])

\* It may still become like it.
MayBeLike(type, pattern) ==
    \A k \in 1 .. Len(type) : \/ Last(pattern) = "*" /\ k >= Len(pattern)
                              \/ k <= Len(pattern) /\ Lower(type[k]) = Lower(pattern[k])

\* A media type is being read, and none of its parameters.
InType ==
    /\ task = "PARSING_HEADERS" /\ status = "CONTENT_TYPE_BODY" /\ ctp.status = "MIME" /\ i < Len(buf)
    /\ ~Contains(hp.relevantHeaders[CONTENT_TYPE].body, ";")

\* Where a media type ends, in how many lines, cases and comments it may have been written,
\* it is decided by what it is like whether the part is replaced, is a multipart or is a
\* message; and if that has been decided before, it cannot have come to be otherwise
\* (stripmime.c:399-480, 576-627).
TypeDecides ==
    [][InType =>
        /\ buf[i + 1] \in {"CR", ";"} =>
              LET asked == \E k \in DOMAIN censoredMimes : Like(TypeRead, censoredMimes[k])
                  multi == ~asked /\ Like(TypeRead, MULTIPART)
              IN
              /\ mustBeCensored' <=> mustBeCensored \/ asked
              /\ isMultipart' <=> isMultipart \/ multi
              /\ hp'.isRfc822Mime <=> hp.isRfc822Mime \/ (~asked /\ ~multi /\ Like(TypeRead, RFC822))
        /\ buf[i + 1] \notin {"CR", ";"} /\ status' # status =>
              \A pattern \in {censoredMimes[k] : k \in DOMAIN censoredMimes} \cup {MULTIPART, RFC822} :
                  ~MayBeLike(TypeRead', pattern)]_vars

\* A character that is not to come out is only read in a part that is to be replaced.
SecretsAreInside ==
    /\ i < Len(buf) /\ buf[i + 1] = "secret" =>
          mustBeCensored /\ task \in {"DONE_PARSING_HEADERS", "PARSING_BODY"}
    /\ task = "DONE_FINAL_BODY" /\ ~mustBeCensored => ~Contains(input, "secret")

\* In the end all of the filtered text has come out (stripmime.c:165-182, 199-202).
EverythingComesOut == <>[](Squeezed(out) = Filtered)
=============================================================================
