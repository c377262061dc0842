----------------------------- MODULE MimeProofs -----------------------------
(***************************************************************************)
(* Proofs about MimeFilter: for every input, headers and bodies in any     *)
(* form, and every way of cutting them into reads, what is copied is       *)
(* copied as it is, and no character that is only read inside replaced     *)
(* parts comes out; for every mail that is well formed, no index of the    *)
(* two parsers leaves what it is an index of; and if its headers are also  *)
(* well named, none of their lines is lost, those that are kept are kept   *)
(* under their names, and a media type is decided by what was read of it.  *)
(***************************************************************************)
EXTENDS MimeFilter, SequenceTheorems, WellFoundedInduction, TLAPS

Chars == STRING \ {"NUL"}

Copying == {"PARSING_POP3", "PARSING_BODY", "DONE_PARSING_BODY"}
Tasks   == Copying \cup {"PARSING_HEADERS", "DONE_PARSING_HEADERS", "DONE_FINAL_BODY"}

\* The buffer and its two indices.
Buffers ==
    /\ input \in Seq(Chars) /\ buf \in Seq(Chars)
    /\ Len(buf) <= BUF_BLOCK /\ i \in 0 .. Len(buf) /\ start \in 0 .. i
    /\ task \in Tasks
    /\ task = "PARSING_POP3" => start = 0
    /\ task = "DONE_FINAL_BODY" => buf = <<>>

-----------------------------------------------------------------------------
(* The buffer.                                                             *)

\* A piece of a sequence of characters.
LEMMA Piece ==
    ASSUME NEW s \in Seq(Chars), NEW m \in 0 .. Len(s), NEW n \in m .. Len(s)
    PROVE  /\ SubSeq(s, m + 1, n) \in Seq(Chars) /\ Len(SubSeq(s, m + 1, n)) = n - m
           /\ \A j \in 1 .. n - m : SubSeq(s, m + 1, n)[j] = s[m + j]
<1>1. m + 1 \in Int /\ n \in Int
    OBVIOUS
<1>2. \A j \in m + 1 .. n : s[j] \in Chars
    <2> HIDE DEF Chars
    <2> QED
        OBVIOUS
<1>3. /\ SubSeq(s, m + 1, n) \in Seq(Chars)
      /\ Len(SubSeq(s, m + 1, n)) = IF m + 1 <= n THEN n - (m + 1) + 1 ELSE 0
      /\ \A j \in 1 .. n - (m + 1) + 1 : SubSeq(s, m + 1, n)[j] = s[m + 1 + j - 1]
    BY ONLY <1>1, <1>2, SubSeqProperties
<1> DEFINE piece == SubSeq(s, m + 1, n)
<1> HIDE DEF piece
<1>4. /\ piece \in Seq(Chars) /\ Len(piece) = IF m + 1 <= n THEN n - (m + 1) + 1 ELSE 0
      /\ \A j \in 1 .. n - (m + 1) + 1 : piece[j] = s[m + 1 + j - 1]
    BY <1>3 DEF piece
<1>5. piece \in Seq(Chars) /\ Len(piece) = n - m /\ \A j \in 1 .. n - m : piece[j] = s[m + j]
    BY <1>4
<1> QED
    BY <1>5 DEF piece

LEMMA BuffersInit == Init => Buffers
<1> SUFFICES ASSUME Init PROVE Buffers
    OBVIOUS
<1>1. input \in Seq(Chars)
    BY MimeInputsAssumption DEF Init, Chars
<1>2. buf = <<>> /\ i = 0 /\ start = 0 /\ task = "PARSING_POP3"
    BY DEF Init
<1> QED
    BY <1>1, <1>2, MimeFilterAssumption DEF Buffers, Tasks, Copying

\* A step that takes one character leaves the buffer as it is.
LEMMA Taking ==
    ASSUME Buffers, Advance, i < Len(buf), start' \in 0 .. i + 1, task' \in Tasks \ {"DONE_FINAL_BODY"},
           task' = "PARSING_POP3" => start' = 0
    PROVE  Buffers'
BY DEF Buffers, Advance, source

LEMMA ParseBodyTakes ==
    ASSUME Buffers, NEW c, NEW st, NEW stack, NEW from, from \in 0 .. i, i < Len(buf), ParseBody(c, st, stack, from)
    PROVE  Buffers'
<1>1. CASE Advance /\ start' = from /\ task' \in {"PARSING_BODY", "DONE_PARSING_BODY"}
    <2>1. start' \in 0 .. i + 1 /\ task' \in Tasks \ {"DONE_FINAL_BODY"} /\ task' # "PARSING_POP3"
        BY <1>1 DEF Buffers, Tasks, Copying
    <2> QED
        BY <1>1, <2>1, Taking
<1>2. CASE UNCHANGED source /\ buf' = <<>> /\ i' = 0 /\ start' = 0 /\ task' = "DONE_FINAL_BODY"
    BY <1>2, MimeFilterAssumption DEF Buffers, Tasks, source
<1> QED
    BY <1>1, <1>2 DEF ParseBody, PopCheck

LEMMA ParseHeaderTasks ==
    ASSUME NEW c, parseHeader(c), task = "PARSING_HEADERS"
    PROVE  task' \in {"PARSING_HEADERS", "DONE_PARSING_HEADERS"}
BY DEF parseHeader, NewLine, EndHeaders, Folded, BeginHeader, CrHeader, RelevantHeaderName, TakenAsItIs,
       parseHeaderParams

LEMMA BuffersStep == Buffers /\ [Next]_vars => Buffers'
<1> SUFFICES ASSUME Buffers, [Next]_vars PROVE Buffers'
    OBVIOUS
<1>1. CASE Flush
    BY <1>1, MimeFilterAssumption DEF Flush, Buffers, source
<1>2. CASE FeedMoreBytes
    <2>1. PICK n \in 1 .. BUF_BLOCK : Read(n) /\ buf' = SubSeq(input, 1, n)
        BY <1>2 DEF FeedMoreBytes
    <2>2. n \in 0 .. Len(input) /\ 0 + 1 = 1 /\ 0 \in 0 .. Len(input)
        BY <2>1, MimeFilterAssumption DEF Read, Buffers
    <2>3. buf' \in Seq(Chars) /\ Len(buf') = n - 0
        BY <2>1, <2>2, Piece DEF Buffers
    <2>4. input' \in Seq(Chars)
        BY <2>1, <2>2, Piece DEF Buffers, Read
    <2> QED
        BY <1>2, <2>2, <2>3, <2>4, MimeFilterAssumption DEF FeedMoreBytes, Buffers
<1>3. CASE EndOfInput
    BY <1>3 DEF EndOfInput, Buffers
<1>4. CASE ConsumeRemainingBytes
    <2>1. input' \in Seq(Chars)
        <3>1. CASE UNCHANGED input
            BY <3>1 DEF Buffers
        <3>2. CASE \E n \in 1 .. BUF_BLOCK : Read(n)
            <4>1. PICK n \in 1 .. BUF_BLOCK : Read(n)
                BY <3>2
            <4>2. n \in 0 .. Len(input)
                BY <4>1, MimeFilterAssumption DEF Read, Buffers
            <4> QED
                BY <4>1, <4>2, Piece DEF Buffers, Read
        <3> QED
            BY <1>4, <3>1, <3>2 DEF ConsumeRemainingBytes
    <2> QED
        BY <1>4, <2>1 DEF ConsumeRemainingBytes, Buffers
<1>5. CASE Header
    <2>1. task' \in {"PARSING_HEADERS", "DONE_PARSING_HEADERS"} /\ Advance /\ start' = start /\ i < Len(buf)
        BY <1>5, ParseHeaderTasks DEF Header
    <2>2. start' \in 0 .. i + 1 /\ task' \in Tasks \ {"DONE_FINAL_BODY"} /\ task' # "PARSING_POP3"
        BY <2>1 DEF Buffers, Tasks
    <2> QED
        BY <2>1, <2>2, Taking
<1>6. CASE Pop3
    <2>1. CASE Advance /\ UNCHANGED <<start, task>>
        BY <1>6, <2>1, Taking DEF Pop3, Buffers
    <2>2. CASE task' = "PARSING_HEADERS" /\ UNCHANGED <<source, buf, i, start>>
        BY <2>2 DEF Buffers, Tasks, source
    <2> QED
        BY <1>6, <2>1, <2>2 DEF Pop3
<1>7. CASE BeginBody
    <2>1. i \in 0 .. i
        BY DEF Buffers
    <2> QED
        BY <1>7, <2>1, ParseBodyTakes DEF BeginBody
<1>8. CASE Body
    <2>1. start \in 0 .. i
        BY DEF Buffers
    <2> QED
        BY <1>8, <2>1, ParseBodyTakes DEF Body
<1>9. CASE EndOfPart
    <2>1. start' \in 0 .. i + 1 /\ task' \in Tasks \ {"DONE_FINAL_BODY"} /\ task' # "PARSING_POP3"
        BY <1>9 DEF EndOfPart, Buffers, Tasks
    <2> QED
        BY <1>9, <2>1, Taking DEF EndOfPart
<1>10. CASE UNCHANGED vars
    BY <1>10 DEF vars, source, Buffers
<1> QED
    BY <1>1, <1>2, <1>3, <1>4, <1>5, <1>6, <1>7, <1>8, <1>9, <1>10 DEF Next

LEMMA BuffersHold == Spec => []Buffers
<1> QED
    BY BuffersInit, BuffersStep, PTL DEF Spec


-----------------------------------------------------------------------------
(* What is copied.                                                         *)

\* What is left from place m of s on, and then t.
From(s, m, t) == SubSeq(s, m + 1, Len(s)) \o t

LEMMA FromParts ==
    ASSUME NEW s \in Seq(Chars), NEW t \in Seq(Chars), NEW m \in 0 .. Len(s)
    PROVE  /\ From(s, m, t) \in Seq(Chars) /\ Len(From(s, m, t)) = Len(s) - m + Len(t)
           /\ \A j \in 1 .. Len(s) - m + Len(t) :
                From(s, m, t)[j] = IF j <= Len(s) - m THEN s[m + j] ELSE t[j - (Len(s) - m)]
<1> DEFINE piece == SubSeq(s, m + 1, Len(s))
<1>1. piece \in Seq(Chars) /\ Len(piece) = Len(s) - m /\ \A j \in 1 .. Len(s) - m : piece[j] = s[m + j]
    <2>1. Len(s) \in m .. Len(s)
        OBVIOUS
    <2> QED
        BY <2>1, Piece
<1> HIDE DEF piece
<1>2. /\ piece \o t \in Seq(Chars) /\ Len(piece \o t) = Len(piece) + Len(t)
      /\ \A j \in 1 .. Len(piece) + Len(t) :
            (piece \o t)[j] = IF j <= Len(piece) THEN piece[j] ELSE t[j - Len(piece)]
    <2>1. t \in Seq(Chars) /\ piece \in Seq(Chars)
        BY <1>1
    <2> QED
        BY ONLY <2>1, ConcatProperties
<1>3. From(s, m, t) = piece \o t
    BY DEF From, piece
<1> DEFINE whole == piece \o t
           P     == Len(piece)
           S     == Len(s) - m
           L     == Len(t)
<1>4. P = S /\ S \in Nat /\ L \in Nat
    BY <1>1
<1>5. \A j \in 1 .. S + L : whole[j] = IF j <= S THEN s[m + j] ELSE t[j - S]
    <2>1. \A j \in 1 .. P + L : whole[j] = IF j <= P THEN piece[j] ELSE t[j - P]
        BY <1>2
    <2>2. \A j \in 1 .. S : piece[j] = s[m + j]
        BY <1>1
    <2> HIDE DEF whole, P, S, L
    <2> QED
        BY <1>4, <2>1, <2>2
<1>6. whole \in Seq(Chars) /\ Len(whole) = S + L
    BY <1>2, <1>4
<1> HIDE DEF whole
<1> QED
    BY <1>3, <1>5, <1>6 DEF whole

\* The front of what is left, and what is left behind it.
LEMMA FromSplits ==
    ASSUME NEW s \in Seq(Chars), NEW t \in Seq(Chars), NEW m \in 0 .. Len(s), NEW n \in m .. Len(s)
    PROVE  /\ n - m \in 0 .. Len(From(s, m, t))
           /\ SubSeq(From(s, m, t), 1, n - m) = SubSeq(s, m + 1, n)
           /\ SubSeq(From(s, m, t), n - m + 1, Len(From(s, m, t))) = From(s, n, t)
<1> DEFINE left  == From(s, m, t)
           rest  == From(s, n, t)
           front == SubSeq(s, m + 1, n)
           S     == Len(s)
           T     == Len(t)
<1>1. S \in Nat /\ T \in Nat /\ m \in Nat /\ n \in Nat /\ m <= n /\ n <= S
    OBVIOUS
<1>2. /\ left \in Seq(Chars) /\ Len(left) = S - m + T
      /\ \A j \in 1 .. S - m + T : left[j] = IF j <= S - m THEN s[m + j] ELSE t[j - (S - m)]
    BY FromParts
<1>3. /\ rest \in Seq(Chars) /\ Len(rest) = S - n + T
      /\ \A j \in 1 .. S - n + T : rest[j] = IF j <= S - n THEN s[n + j] ELSE t[j - (S - n)]
    BY <1>1, FromParts
<1>4. front \in Seq(Chars) /\ Len(front) = n - m /\ \A j \in 1 .. n - m : front[j] = s[m + j]
    BY Piece
<1> HIDE DEF left, rest, front, S, T
<1>5. n - m \in 0 .. Len(left) /\ 0 + 1 = 1 /\ Len(left) \in n - m .. Len(left) /\ 0 \in 0 .. Len(left)
    BY <1>1, <1>2
<1>6. SubSeq(left, 1, n - m) = front
    <2> DEFINE piece == SubSeq(left, 0 + 1, n - m)
    <2>1. piece \in Seq(Chars) /\ Len(piece) = n - m - 0 /\ \A j \in 1 .. n - m - 0 : piece[j] = left[0 + j]
        BY <1>2, <1>5, Piece
    <2>2. piece = SubSeq(left, 1, n - m)
        BY <1>5
    <2> HIDE DEF piece
    <2>3. Len(piece) = Len(front) /\ \A j \in 1 .. Len(piece) : piece[j] = front[j]
        BY <1>1, <1>2, <1>4, <2>1
    <2> QED
        BY <1>4, <2>1, <2>2, <2>3, SeqEqual
<1>7. SubSeq(left, n - m + 1, Len(left)) = rest
    <2> DEFINE piece == SubSeq(left, n - m + 1, Len(left))
               N     == Len(left)
    <2>1. piece \in Seq(Chars) /\ Len(piece) = N - (n - m) /\ \A j \in 1 .. N - (n - m) : piece[j] = left[n - m + j]
        BY <1>2, <1>5, Piece
    <2> HIDE DEF piece
    <2>2. N - (n - m) = S - n + T
        BY <1>1, <1>2
    <2>3. Len(piece) = Len(rest) /\ \A j \in 1 .. Len(piece) : piece[j] = rest[j]
        <3>1. Len(piece) = Len(rest)
            BY <1>3, <2>1, <2>2
        <3>2. ASSUME NEW j \in 1 .. Len(piece) PROVE piece[j] = rest[j]
            <4> DEFINE k == n - m + j
            <4>0. j \in 1 .. S - n + T /\ piece[j] = left[k]
                BY ONLY <2>1, <2>2, <3>2 DEF k
            <4>1. j \in 1 .. S - n + T /\ k \in 1 .. S - m + T /\ piece[j] = left[k]
                BY ONLY <1>1, <4>0 DEF k
            <4>2. /\ k = n - m + j
                  /\ left[k] = IF k <= S - m THEN s[m + k] ELSE t[k - (S - m)]
                  /\ rest[j] = IF j <= S - n THEN s[n + j] ELSE t[j - (S - n)]
                BY <1>2, <1>3, <4>1
            <4> HIDE DEF k
            <4>3. m + k = n + j /\ k - (S - m) = j - (S - n) /\ (k <= S - m <=> j <= S - n)
                <5>1. k = n - m + j /\ j \in Int
                    BY <1>1, <4>1, <4>2
                <5> QED
                    BY ONLY <1>1, <5>1
            <4>4. left[k] = IF j <= S - n THEN s[n + j] ELSE t[j - (S - n)]
                BY ONLY <4>2, <4>3
            <4> QED
                BY <4>1, <4>2, <4>4
        <3> QED
            BY <3>1, <3>2
    <2>4. piece = rest
        BY <1>3, <2>1, <2>3, SeqEqual
    <2> QED
        BY <2>4 DEF piece
<1> QED
    BY <1>5, <1>6, <1>7 DEF left, rest, front


LEMMA PendingIs ==
    ASSUME Buffers
    PROVE  Pending = IF task \in Copying THEN From(buf, start, input) ELSE From(buf, i, input)
BY DEF Pending, Buffered, From, Copying

LEMMA PendingWillBe ==
    Pending' = IF task' \in Copying THEN From(buf', start', input') ELSE From(buf', i', input')
BY DEF Pending, Buffered, From, Copying

\* What is written is the buffer from where Pending begins up to n.
LEMMA CopiesTo ==
    ASSUME Buffers, NEW m \in 0 .. Len(buf), NEW n \in m .. Len(buf), Pending = From(buf, m, input),
           Write(Buffered(m, n)), Pending' = From(buf, n, input)
    PROVE  Copies
<1>1. /\ n - m \in 0 .. Len(From(buf, m, input))
      /\ SubSeq(From(buf, m, input), 1, n - m) = SubSeq(buf, m + 1, n)
      /\ SubSeq(From(buf, m, input), n - m + 1, Len(From(buf, m, input))) = From(buf, n, input)
    BY FromSplits DEF Buffers
<1>2. Write(SubSeq(Pending, 1, n - m))
    BY <1>1 DEF Buffered
<1>3. n - m \in 0 .. Len(Pending) /\ Pending' = SubSeq(Pending, n - m + 1, Len(Pending))
    BY <1>1
<1> QED
    BY <1>2, <1>3 DEF Copies

\* Nothing is written and nothing is taken.
LEMMA CopiesNothing ==
    ASSUME Buffers, NEW m \in 0 .. Len(buf), Pending = From(buf, m, input), Pending' = Pending,
           UNCHANGED out \/ Write(<<>>)
    PROVE  Copies
<1>1. CASE UNCHANGED out
    BY <1>1 DEF Copies
<1>2. CASE Write(<<>>)
    <2>1. Buffered(m, m) = <<>>
        BY SubSeqEmpty DEF Buffered, Buffers
    <2> QED
        BY <1>2, <2>1, CopiesTo
<1> QED
    BY <1>1, <1>2

\* Nothing is left of a buffer that has been gone through.
LEMMA NothingLeft ==
    ASSUME NEW s \in Seq(Chars), NEW t \in Seq(Chars)
    PROVE  From(<<>>, 0, t) = t /\ From(s, Len(s), t) = t
<1>1. SubSeq(<<>>, 0 + 1, 0) = <<>> /\ SubSeq(s, Len(s) + 1, Len(s)) = <<>> /\ <<>> \o t = t
    BY SubSeqEmpty
<1> QED
    BY <1>1 DEF From

LEMMA ParseBodyCopies ==
    ASSUME Buffers, ~mustBeCensored, task \in Tasks \ {"PARSING_HEADERS"}, NEW c, NEW st, NEW stack, NEW from,
           from \in 0 .. i, i < Len(buf), Pending = From(buf, from, input), ParseBody(c, st, stack, from)
    PROVE  Copies
<1>1. CASE Advance /\ start' = from /\ task' \in {"PARSING_BODY", "DONE_PARSING_BODY"}
           /\ (UNCHANGED out \/ Write(<<>>))
    <2>1. Pending' = From(buf, from, input)
        BY <1>1, PendingWillBe DEF Copying, Advance, source
    <2>2. from \in 0 .. Len(buf)
        BY DEF Buffers
    <2> QED
        BY <1>1, <2>1, <2>2, CopiesNothing
<1>2. CASE /\ i + 1 = Len(buf) /\ Write(Buffered(from, i + 1)) /\ UNCHANGED source
           /\ buf' = <<>> /\ i' = 0 /\ task' = "DONE_FINAL_BODY"
    <2>1. Pending' = From(buf, Len(buf), input)
        BY <1>2, PendingWillBe, NothingLeft DEF Copying, source, Buffers
    <2>2. from \in 0 .. Len(buf) /\ Len(buf) \in from .. Len(buf)
        BY DEF Buffers
    <2> QED
        BY <1>2, <2>1, <2>2, CopiesTo
<1> QED
    BY <1>1, <1>2 DEF ParseBody, PopCheck

LEMMA CopiesStep ==
    ASSUME Buffers, Next, ~mustBeCensored, task # "PARSING_HEADERS"
    PROVE  Copies
<1>0. /\ buf \in Seq(Chars) /\ input \in Seq(Chars) /\ i \in 0 .. Len(buf) /\ start \in 0 .. Len(buf)
      /\ Len(buf) \in 0 .. Len(buf) /\ task \in Tasks
    BY DEF Buffers
<1>1. CASE Flush
    <2>1. Pending' = From(buf, Len(buf), input)
        BY <1>0, <1>1, PendingWillBe, NothingLeft DEF Flush, source
    <2>2. CASE task \in Copying
        <3>1. Pending = From(buf, start, input) /\ Write(Buffered(start, Len(buf)))
            BY <1>1, <2>2, PendingIs DEF Flush, Copying
        <3>2. Len(buf) \in start .. Len(buf)
            BY <1>0
        <3> QED
            BY <1>0, <2>1, <3>1, <3>2, CopiesTo
    <2>3. CASE task \notin Copying
        <3>1. Pending = From(buf, Len(buf), input) /\ Write(<<>>)
            BY <1>1, <2>3, PendingIs DEF Flush, Copying
        <3> QED
            BY <1>0, <2>1, <3>1, CopiesNothing
    <2> QED
        BY <2>2, <2>3
<1>2. CASE FeedMoreBytes
    <2>1. PICK n \in 1 .. BUF_BLOCK : Read(n) /\ buf' = SubSeq(input, 1, n)
        BY <1>2 DEF FeedMoreBytes
    <2>2. n \in 0 .. Len(input) /\ buf = <<>> /\ i = 0 /\ start = 0 /\ i' = 0 /\ start' = 0
        BY <1>0, <1>2, <2>1, MimeFilterAssumption DEF Read, FeedMoreBytes
    <2>3. Pending = input /\ Pending = From(buf, 0, input)
        BY <1>0, <2>2, PendingIs, NothingLeft
    <2>4. Pending' = From(buf', 0, input')
        BY <2>2, PendingWillBe
    <2>5. From(buf', 0, input') = input
        <3>1. buf' \in Seq(Chars) /\ Len(buf') = n - 0 /\ \A j \in 1 .. n - 0 : buf'[j] = input[0 + j]
            <4>1. input \in Seq(Chars) /\ 0 \in 0 .. Len(input) /\ n \in 0 .. Len(input) /\ buf' = SubSeq(input, 0 + 1, n)
                BY <1>0, <2>1, <2>2
            <4> QED
                BY ONLY <4>1, Piece
        <3>2. /\ input' \in Seq(Chars) /\ Len(input') = Len(input) - n
              /\ \A j \in 1 .. Len(input) - n : input'[j] = input[n + j]
            BY <1>0, <2>1, <2>2, Piece DEF Read
        <3> DEFINE b == buf'
                   t == input'
                   whole == From(b, 0, t)
                   N == Len(input)
        <3>3. /\ b \in Seq(Chars) /\ Len(b) = n /\ n \in 0 .. N /\ N \in Nat /\ \A j \in 1 .. n : b[j] = input[j]
              /\ t \in Seq(Chars) /\ Len(t) = N - n /\ \A j \in 1 .. N - n : t[j] = input[n + j]
            BY <1>0, <2>2, <3>1, <3>2
        <3> HIDE DEF b, t
        <3>4. /\ whole \in Seq(Chars) /\ Len(whole) = Len(b) - 0 + Len(t)
              /\ \A j \in 1 .. Len(b) - 0 + Len(t) :
                    whole[j] = IF j <= Len(b) - 0 THEN b[0 + j] ELSE t[j - (Len(b) - 0)]
            <4>1. b \in Seq(Chars) /\ t \in Seq(Chars) /\ 0 \in 0 .. Len(b)
                BY <3>3
            <4> QED
                BY ONLY <4>1, FromParts
        <3> HIDE DEF whole, N
        <3>5. Len(whole) = N /\ \A j \in 1 .. N : whole[j] = input[j]
            <4>1. Len(b) = n /\ n \in 0 .. N /\ Len(t) = N - n /\ N \in Nat
                BY <3>3
            <4>2. Len(b) - 0 + Len(t) = N /\ Len(b) - 0 = n
                BY ONLY <4>1
            <4>3. Len(whole) = N /\ \A j \in 1 .. N : whole[j] = IF j <= n THEN b[0 + j] ELSE t[j - n]
                BY ONLY <3>4, <4>2
            <4>4. ASSUME NEW j \in 1 .. N PROVE whole[j] = input[j]
                <5>1. CASE j <= n
                    <6>1. j \in 1 .. n /\ 0 + j = j
                        BY ONLY <4>1, <4>4, <5>1
                    <6> QED
                        BY <3>3, <4>3, <5>1, <6>1
                <5>2. CASE ~(j <= n)
                    <6>1. j - n \in 1 .. N - n /\ n + (j - n) = j
                        BY ONLY <4>1, <4>4, <5>2
                    <6> QED
                        BY <3>3, <4>3, <5>2, <6>1
                <5> QED
                    BY <5>1, <5>2
            <4> QED
                BY <4>3, <4>4
        <3>6. whole = input
            BY <1>0, <3>4, <3>5, SeqEqual DEF N
        <3> QED
            BY <3>6 DEF whole, b, t
    <2> QED
        BY <1>2, <2>3, <2>4, <2>5 DEF FeedMoreBytes, Copies
<1>3. CASE EndOfInput
    <2>1. Write(<<>>) /\ Pending' = Pending
        BY <1>3 DEF EndOfInput, Pending, Buffered
    <2> QED
        BY <1>0, <2>1, PendingIs, CopiesNothing
<1>4. CASE ConsumeRemainingBytes
    <2>1. buf = <<>> /\ i = 0 /\ Pending = input /\ Pending = From(buf, 0, input) /\ 0 \in 0 .. Len(buf)
        BY <1>0, <1>4, PendingIs, NothingLeft DEF ConsumeRemainingBytes, Buffers, Copying
    <2>2. UNCHANGED <<buf, i, task>>
        BY <1>4 DEF ConsumeRemainingBytes
    <2>3. CASE \E n \in 1 .. BUF_BLOCK : Read(n) /\ Write(SubSeq(input, 1, n))
        <3>1. PICK n \in 1 .. BUF_BLOCK : Read(n) /\ Write(SubSeq(input, 1, n))
            BY <2>3
        <3>2. n \in 0 .. Len(input) /\ input' = SubSeq(input, n + 1, Len(input)) /\ input' \in Seq(Chars)
            BY <1>0, <3>1, MimeFilterAssumption, Piece DEF Read
        <3>3. Pending' = input'
            BY <1>0, <1>4, <2>1, <2>2, <3>2, PendingWillBe, NothingLeft DEF ConsumeRemainingBytes, Copying
        <3> QED
            BY <2>1, <3>1, <3>2, <3>3 DEF Copies
    <2>4. CASE Write(<<>>) /\ UNCHANGED input
        <3>1. Pending' = Pending
            BY <1>4, <2>2, <2>4, PendingWillBe, PendingIs DEF ConsumeRemainingBytes, Copying
        <3> QED
            BY <2>1, <2>4, <3>1, CopiesNothing
    <2> QED
        BY <1>4, <2>3, <2>4 DEF ConsumeRemainingBytes
<1>5. CASE Pop3
    <2>1. start = 0 /\ Pending = From(buf, 0, input) /\ 0 \in 0 .. Len(buf) /\ i \in 0 .. Len(buf)
        BY <1>0, <1>5, PendingIs DEF Pop3, Buffers, Copying
    <2>2. CASE task' = "PARSING_HEADERS" /\ Write(Buffered(0, i)) /\ UNCHANGED <<source, buf, i>>
        <3>1. Pending' = From(buf, i, input)
            BY <2>2, PendingWillBe DEF Copying, source
        <3> QED
            BY <2>1, <2>2, <3>1, CopiesTo
    <2>3. CASE Advance /\ UNCHANGED <<task, start, out>>
        <3>1. Pending' = Pending
            BY <1>5, <2>3, PendingWillBe, PendingIs DEF Copying, Advance, source, Pop3
        <3> QED
            BY <2>1, <2>3, <3>1, CopiesNothing
    <2> QED
        BY <1>5, <2>2, <2>3 DEF Pop3
<1>6. CASE BeginBody
    <2>1. Pending = From(buf, i, input) /\ i \in 0 .. i
        BY <1>0, <1>6, PendingIs DEF BeginBody, Copying
    <2> QED
        BY <1>0, <1>6, <2>1, ParseBodyCopies DEF BeginBody
<1>7. CASE Body
    <2>1. Pending = From(buf, start, input) /\ start \in 0 .. i
        BY <1>7, PendingIs DEF Body, Copying, Buffers
    <2> QED
        BY <1>0, <1>7, <2>1, ParseBodyCopies DEF Body
<1>8. CASE EndOfPart
    <2>1. Pending = From(buf, start, input) /\ i + 1 \in start .. Len(buf)
        BY <1>8, PendingIs DEF EndOfPart, Copying, Buffers
    <2>2. Write(Buffered(start, i + 1)) /\ Pending' = From(buf, i + 1, input)
        BY <1>8, PendingWillBe DEF EndOfPart, Copying, Advance, source
    <2> QED
        BY <1>0, <2>1, <2>2, CopiesTo
<1> QED
    BY <1>1, <1>2, <1>3, <1>4, <1>5, <1>6, <1>7, <1>8 DEF Next, Header

\* Whatever comes in, and however it is cut into reads: outside headers and parts that
\* are replaced, what goes out is what came in, in its order, nothing lost and nothing
\* repeated, the rest still pending (stripmime.c:184-241 and 657-744).
THEOREM CopiedAsItIsHolds == Spec => CopiedAsItIs
<1>1. Buffers /\ [Next]_vars =>
        [~mustBeCensored /\ task # "PARSING_HEADERS" => Copies]_vars
    BY CopiesStep
<1> QED
    BY <1>1, BuffersHold, PTL DEF Spec, CopiedAsItIs


-----------------------------------------------------------------------------
(* What the states of the parsers are.                                     *)

Bodies         == {"HEADER_BODY", "CONTENT_TYPE_BODY"}
HeaderStatuses == {"NEW_LINE", "CR_HEADER", "RELEVANT_HEADER_NAME", "IRRELEVANT_HEADER"} \cup Bodies
BodyStatuses   == {"NEW_LINE_BODY", "IRRELEVANT_BODY", "CR_BODY", "HYPHEN", "SEARCHING_BOUNDARY",
                   "BOUNDARY_POP_CHECK"}

\* The status is one of the task's.
StatusOfTask ==
    /\ stopped \in BOOLEAN /\ mustBeCensored \in BOOLEAN /\ isMultipart \in BOOLEAN
    /\ task \in Tasks
    /\ task = "PARSING_POP3" => status \in {"NEW_LINE_POP3", "COMMAND_POP3", "CR_POP3"}
    /\ task = "PARSING_HEADERS" => status \in HeaderStatuses
    /\ task = "DONE_PARSING_HEADERS" => status = "NEW_LINE"
    /\ task = "PARSING_BODY" => status \in BodyStatuses
    /\ task = "DONE_PARSING_BODY" => status = "BOUNDARY_POP_CHECK"
    /\ task = "DONE_FINAL_BODY" => status = "WRITING_NO_CHECK"

\* What the texts of headers are made of.
Letter == Chars \cup {":"}

\* Hyphens are counted from the start of a line up to the boundary, and after it; a place
\* in the boundary is one of the innermost, and none of them is empty.
Search(t, st, hyphens, index, stack) ==
    /\ stack \in Seq(Seq(Letter) \ {<<>>})
    /\ hyphens \in 0 .. HYPHENS
    /\ stack # <<>> => index \in 0 .. Len(Head(stack)) - 1
    /\ t \in {"PARSING_POP3", "PARSING_HEADERS", "DONE_PARSING_HEADERS"} => hyphens = 0 /\ index = 0
    /\ t = "PARSING_BODY" =>
          /\ st \in {"NEW_LINE_BODY", "IRRELEVANT_BODY", "CR_BODY"} => hyphens = 0
          /\ st = "HYPHEN" => hyphens = 1
          /\ st = "BOUNDARY_POP_CHECK" => hyphens < HYPHENS

\* A header parser, and that of a Content-Type in it.
Fields == {"relevantHeaders", "potential", "isRfc822Mime", "hbuf", "nextBoundary", "lastTaskStatus"}
IsParser(h) ==
    /\ DOMAIN h = Fields
    /\ h.relevantHeaders \in [Names -> [name : Seq(Letter), body : Seq(Letter)]]
    /\ h.potential \subseteq Names
    /\ h.hbuf \in Seq(Letter) /\ h.nextBoundary \in Seq(Letter)
    /\ h.lastTaskStatus \in HeaderStatuses

\* The header that is read is a relevant one, and its name has been kept.
Known(h) ==
    /\ h.potential # {}
    /\ \A n \in h.potential : (\A m \in h.potential : n <= m) => h.relevantHeaders[n].name # <<>>

\* The body of a header that goes on is that of a known one.
Reading(st, h) ==
    /\ IsParser(h)
    /\ st \in Bodies => Known(h)
    /\ st = "CR_HEADER" \/ (st = "NEW_LINE" /\ h.hbuf # <<>>) => (h.lastTaskStatus \in Bodies => Known(h))
    /\ st # "NEW_LINE" => h.hbuf # <<>>

CtpFields == {"status", "previous", "mimes", "multipart", "rfc822", "doubleQuoteCount", "boundaryNameIndex",
              "wspAndNewLines"}
IsTypeParser(p) == DOMAIN p = CtpFields /\ p.boundaryNameIndex \in 0 .. Len(BOUNDARY_NAME)

\* The inductive invariant of well-formed mail.
IInv ==
    /\ Buffers /\ StatusOfTask /\ IsParser(hp) /\ IsTypeParser(ctp)
    /\ Search(task, status, hyphenCount, boundaryIndex, boundaries)
    /\ task = "PARSING_POP3" => hp.hbuf = <<>>
    /\ task = "PARSING_HEADERS" => Reading(status, hp)

-----------------------------------------------------------------------------
(* The header parser.                                                      *)

\* A nonempty set of natural numbers has a least element.
LEMMA NatMin ==
    ASSUME NEW T, T \subseteq Nat, T # {}
    PROVE  \E x \in T : \A y \in T : x <= y
<1> DEFINE R == {p \in Nat \X Nat : p[1] < p[2]}
<1>1. IsWellFoundedOn(R, Nat)
    BY NatLessThanWellFounded DEF OpToRel
<1>2. PICK x \in T : \A y \in T : ~ (<<y, x>> \in R)
    <2> HIDE DEF R
    <2> QED
        BY <1>1, WFMin
<1>3. ASSUME NEW y \in T PROVE x <= y
    <2>1. x \in Nat /\ y \in Nat
        OBVIOUS
    <2>2. ~(y < x)
        BY <1>2, <2>1
    <2> QED
        BY <2>1, <2>2
<1> QED
    BY <1>3

LEMMA NamesAreNumbers == Names \subseteq Nat \ {0}
BY MimeHeadersAssumption DEF Names

\* matchesFound is the first of the names that are still possible.
LEMMA MatchesFoundIs ==
    ASSUME IsParser(hp), hp.potential # {}
    PROVE  MatchesFound \in hp.potential /\ \A m \in hp.potential : MatchesFound <= m
<1>1. hp.potential \subseteq Nat
    BY NamesAreNumbers DEF IsParser
<1>2. \E n \in hp.potential : \A m \in hp.potential : n <= m
    BY <1>1, NatMin
<1>3. MatchesFound = CHOOSE n \in hp.potential : \A m \in hp.potential : n <= m
    BY DEF MatchesFound
<1> QED
    BY <1>2, <1>3

\* A parser that has gone on with the same header, and has forgotten no name.
Grows(h, g) ==
    /\ IsParser(g) /\ g.potential = h.potential
    /\ h.hbuf # <<>> => g.hbuf # <<>>
    /\ \A n \in Names : h.relevantHeaders[n].name # <<>> => g.relevantHeaders[n].name # <<>>

LEMMA GrowsKnown ==
    ASSUME NEW h, NEW g, IsParser(h), Grows(h, g), Known(h)
    PROVE  Known(g)
BY DEF Grows, Known, IsParser

LEMMA Chained ==
    ASSUME NEW h, NEW g, NEW k, Grows(h, g), Grows(g, k)
    PROVE  Grows(h, k)
BY DEF Grows

LEMMA Labelled ==
    ASSUME NEW h, IsParser(h), NEW s \in HeaderStatuses
    PROVE  Grows(h, [h EXCEPT !.lastTaskStatus = s]) /\ [h EXCEPT !.lastTaskStatus = s].lastTaskStatus = s
BY DEF IsParser, Grows, Fields

LEMMA InBufferGrows ==
    ASSUME NEW h, IsParser(h), NEW c \in Letter
    PROVE  /\ Grows(h, InBuffer(h, c)) /\ InBuffer(h, c).lastTaskStatus = h.lastTaskStatus
           /\ InBuffer(h, c).hbuf # <<>>
<1>1. Append(h.hbuf, c) \in Seq(Letter) /\ Append(h.hbuf, c) # <<>>
    BY AppendProperties DEF IsParser
<1> QED
    BY <1>1 DEF IsParser, Grows, Fields, InBuffer

LEMMA InBodyGrows ==
    ASSUME NEW h, IsParser(h), NEW n \in Names, NEW c \in Letter
    PROVE  Grows(h, InBody(h, n, c)) /\ InBody(h, n, c).lastTaskStatus = h.lastTaskStatus
<1> DEFINE g     == InBody(h, n, c)
           old   == h.relevantHeaders
           new   == [old EXCEPT ![n].body = Append(@, c)]
<1>1. g = [h EXCEPT !.relevantHeaders = new]
    BY DEF InBody, IsParser, Fields
<1>2. /\ new \in [Names -> [name : Seq(Letter), body : Seq(Letter)]]
      /\ \A m \in Names : new[m].name = old[m].name
    <2>1. old \in [Names -> [name : Seq(Letter), body : Seq(Letter)]]
        BY DEF IsParser
    <2>2. Append(old[n].body, c) \in Seq(Letter)
        BY <2>1, AppendProperties
    <2>3. new[n] = [name |-> old[n].name, body |-> Append(old[n].body, c)] /\ \A m \in Names \ {n} : new[m] = old[m]
        BY <2>1
    <2>4. DOMAIN new = Names /\ new = [m \in Names |-> new[m]]
        BY <2>1
    <2>5. \A m \in Names : new[m] \in [name : Seq(Letter), body : Seq(Letter)]
        BY <2>1, <2>2, <2>3
    <2>6. \A m \in Names : new[m].name = old[m].name
        <3>1. new[n].name = old[n].name
            BY <2>3
        <3>2. \A m \in Names \ {n} : new[m].name = old[m].name
            BY <2>3
        <3> QED
            BY <3>1, <3>2
    <2> HIDE DEF old, new
    <2>7. new \in [Names -> [name : Seq(Letter), body : Seq(Letter)]]
        BY <2>4, <2>5
    <2> QED
        BY <2>6, <2>7
<1> HIDE DEF new
<1> QED
    BY <1>1, <1>2 DEF IsParser, Grows, Fields

\* A character of a header that goes on is kept where the rest of it is.
LEMMA KeptGrows ==
    ASSUME NEW h, IsParser(h), IsParser(hp), h.potential = hp.potential, NEW c \in Letter,
           h.lastTaskStatus \in Bodies => Known(h)
    PROVE  Grows(h, Kept(h, c)) /\ Kept(h, c).lastTaskStatus = h.lastTaskStatus
<1>1. CASE h.lastTaskStatus \in Bodies
    <2>1. MatchesFound \in Names
        BY <1>1, MatchesFoundIs DEF Known, IsParser
    <2> QED
        BY <1>1, <2>1, InBodyGrows DEF Kept, Bodies
<1>2. CASE h.lastTaskStatus \notin Bodies
    BY <1>2, InBufferGrows DEF Kept, Bodies
<1> QED
    BY <1>1, <1>2

LEMMA ResetIsParser ==
    ASSUME NEW h, IsParser(h)
    PROVE  IsParser(ResetHp(h)) /\ ResetHp(h).hbuf = <<>>
BY DEF IsParser, ResetHp, Fields, NoHeader

LEMMA ResetIsTypeParser ==
    ASSUME NEW p, IsTypeParser(p)
    PROVE  IsTypeParser(ResetCtp(p))
BY MimeHeadersAssumption DEF IsTypeParser, ResetCtp, CtpFields


-----------------------------------------------------------------------------
(* A character of a header.                                                *)

\* The header that was read goes on to be read.
LEMMA GoesOn ==
    ASSUME NEW st, NEW h, NEW g, NEW to, Reading(st, h), Grows(h, g), Known(h), g.hbuf # <<>>
    PROVE  Reading(to, g)
<1>1. Known(g) /\ IsParser(g)
    BY GrowsKnown DEF Reading, Grows
<1> QED
    BY <1>1 DEF Reading

LEMMA NewLineReads ==
    ASSUME Reading(status, hp), IsTypeParser(ctp), NEW c \in Chars, NewLine(c), hp.hbuf = <<>> => c # "SP"
    PROVE  Reading(status', hp') /\ IsTypeParser(ctp')
<1>0. IsParser(hp) /\ c \in Letter
    BY DEF Reading, Letter
<1>1. CASE status = "NEW_LINE" /\ c = "CR" /\ UNCHANGED <<task, status, level, header, out>>
    BY <1>1 DEF header
<1>2. CASE EndHeaders(c)
    <2>1. status' = "NEW_LINE" /\ status = "NEW_LINE"
        BY <1>2 DEF EndHeaders
    <2>2. CASE ResetHeaderParser
        <3>1. IsParser(hp') /\ hp'.hbuf = <<>> /\ IsTypeParser(ctp')
            BY <1>0, <2>2, ResetIsParser, ResetIsTypeParser DEF ResetHeaderParser
        <3> QED
            BY <2>1, <3>1 DEF Reading, Bodies
    <2>3. CASE hp' = [hp EXCEPT !.hbuf = IF LastHeader = <<>> THEN @ ELSE <<>>] /\ UNCHANGED ctp
        <3> DEFINE left == IF LastHeader = <<>> THEN hp.hbuf ELSE <<>>
        <3>1. left \in Seq(Letter) /\ (left # <<>> => hp.hbuf # <<>>)
            <4>1. hp.hbuf \in Seq(Letter)
                BY ONLY <1>0 DEF IsParser
            <4>2. <<>> \in Seq(Letter)
                OBVIOUS
            <4>3. left = hp.hbuf \/ left = <<>>
                OBVIOUS
            <4> QED
                BY ONLY <4>1, <4>2, <4>3
        <3>2. hp' = [hp EXCEPT !.hbuf = left]
            BY <2>3
        <3> HIDE DEF left
        <3>3. /\ IsParser(hp') /\ (hp'.hbuf # <<>> => hp.hbuf # <<>>)
              /\ hp'.lastTaskStatus = hp.lastTaskStatus /\ (Known(hp) => Known(hp'))
            BY <1>0, <3>1, <3>2 DEF IsParser, Fields, Known
        <3> QED
            BY <2>1, <2>3, <3>3 DEF Reading, Bodies
    <2> QED
        BY <1>2, <2>2, <2>3 DEF EndHeaders
<1>3. CASE Folded(c)
    <2>1. hp.hbuf # <<>> /\ status = "NEW_LINE" /\ c = "SP"
        BY <1>3 DEF Folded
    <2>2. hp.lastTaskStatus \in Bodies => Known(hp)
        BY <2>1 DEF Reading
    <2>3. Grows(hp, hp') /\ hp'.lastTaskStatus = hp.lastTaskStatus /\ status' = hp.lastTaskStatus
        BY <1>0, <1>3, <2>2, KeptGrows DEF Folded
    <2>4. IsParser(hp') /\ hp'.hbuf # <<>> /\ (hp.lastTaskStatus \in Bodies => Known(hp'))
        BY <1>0, <2>1, <2>2, <2>3, GrowsKnown DEF Grows
    <2>5. IsTypeParser(ctp')
        BY <1>3 DEF Folded, IsTypeParser, CtpFields
    <2> QED
        BY <2>3, <2>4, <2>5 DEF Reading
<1>4. CASE BeginHeader(c)
    <2> DEFINE names == StillRelevant(Names, 0, c)
    <2>1. names \subseteq Names
        BY DEF StillRelevant
    <2>2. /\ hp' = [hp EXCEPT !.hbuf = <<c>>, !.potential = names]
          /\ status' \in {"IRRELEVANT_HEADER", "RELEVANT_HEADER_NAME"} /\ UNCHANGED ctp
        BY <1>4 DEF BeginHeader
    <2> HIDE DEF names
    <2>3. IsParser(hp') /\ hp'.hbuf # <<>>
        BY <1>0, <2>1, <2>2 DEF IsParser, Fields
    <2> QED
        BY <2>2, <2>3 DEF Reading, Bodies
<1> QED
    BY <1>1, <1>2, <1>3, <1>4 DEF NewLine

LEMMA CrHeaderReads ==
    ASSUME Reading(status, hp), IsTypeParser(ctp), NEW c \in Chars, CrHeader(c), c = "LF"
    PROVE  Reading(status', hp') /\ IsTypeParser(ctp')
<1>1. IsParser(hp) /\ c \in Letter /\ hp.hbuf # <<>> /\ (hp.lastTaskStatus \in Bodies => Known(hp))
    BY DEF Reading, Letter, CrHeader
<1>2. hp' = Kept(hp, c) /\ status' = "NEW_LINE" /\ UNCHANGED ctp
    BY DEF CrHeader
<1>3. Grows(hp, hp') /\ hp'.lastTaskStatus = hp.lastTaskStatus
    BY <1>1, <1>2, KeptGrows
<1>4. IsParser(hp') /\ (hp.lastTaskStatus \in Bodies => Known(hp'))
    BY <1>1, <1>3, GrowsKnown DEF Grows
<1> QED
    BY <1>2, <1>3, <1>4 DEF Reading, Bodies

LEMMA EndOfNameReads ==
    ASSUME Reading(status, hp), IsTypeParser(ctp), NEW c \in Chars, EndOfName(c), hp.hbuf # <<>>
    PROVE  Reading(status', hp') /\ IsTypeParser(ctp')
<1>0. IsParser(hp)
    BY DEF Reading
<1> DEFINE m        == MatchesFound
           finished == \E n \in hp.potential : cmp(RELEVANT_HEADERS[n], Len(hp.hbuf), "NUL")
<1>1. CASE ~finished
    <2>1. hp' = [hp EXCEPT !.potential = @ \ {m}] /\ status' = "IRRELEVANT_HEADER" /\ UNCHANGED ctp
        BY <1>1 DEF EndOfName
    <2>2. IsParser(hp') /\ hp'.hbuf = hp.hbuf
        BY <1>0, <2>1 DEF IsParser, Fields
    <2> QED
        BY <2>1, <2>2 DEF Reading, Bodies
<1>2. CASE finished
    <2> DEFINE name == Append(hp.hbuf, ":")
               old  == hp.relevantHeaders
               new  == [old EXCEPT ![m] = [name |-> name, body |-> <<>>]]
    <2>1. /\ hp' = [hp EXCEPT !.relevantHeaders[m] = [name |-> name, body |-> <<>>]]
          /\ status' \in Bodies /\ ctp' \in {ctp, [ctp EXCEPT !.status = "MIME"]}
        BY <1>2 DEF EndOfName, Bodies
    <2>2. hp.potential # {} /\ m \in hp.potential /\ (\A n \in hp.potential : m <= n) /\ m \in Names
        BY <1>0, <1>2, MatchesFoundIs DEF IsParser
    <2>3. name \in Seq(Letter) /\ name # <<>>
        <3>1. hp.hbuf \in Seq(Letter)
            BY ONLY <1>0 DEF IsParser
        <3>2. ":" \in Letter
            BY DEF Letter
        <3> QED
            BY ONLY <3>1, <3>2, AppendProperties
    <2> HIDE DEF name, m
    <2>4. hp' = [hp EXCEPT !.relevantHeaders = new]
        BY <1>0, <2>1 DEF IsParser, Fields
    <2>5. new \in [Names -> [name : Seq(Letter), body : Seq(Letter)]] /\ new[m].name = name
        <3>1. old \in [Names -> [name : Seq(Letter), body : Seq(Letter)]] /\ <<>> \in Seq(Letter)
            BY <1>0 DEF IsParser
        <3> HIDE DEF old
        <3>2. [name |-> name, body |-> <<>>] \in [name : Seq(Letter), body : Seq(Letter)]
            BY <2>3, <3>1
        <3> QED
            BY <2>2, <3>1, <3>2
    <2> HIDE DEF new
    <2>6. /\ IsParser(hp') /\ hp'.potential = hp.potential /\ hp'.hbuf = hp.hbuf
          /\ hp'.relevantHeaders = new
        BY <1>0, <2>4, <2>5 DEF IsParser, Fields
    <2>7. Known(hp')
        <3>1. ASSUME NEW n \in hp.potential, \A k \in hp.potential : n <= k PROVE n = m
            <4>1. n \in Nat /\ m \in Nat /\ n <= m /\ m <= n
                BY <1>0, <2>2, <3>1, NamesAreNumbers DEF IsParser
            <4> QED
                BY ONLY <4>1
        <3> QED
            BY <2>2, <2>3, <2>5, <2>6, <3>1 DEF Known
    <2>8. IsTypeParser(ctp')
        BY <2>1 DEF IsTypeParser, CtpFields
    <2> QED
        BY <2>6, <2>7, <2>8 DEF Reading
<1> QED
    BY <1>1, <1>2

LEMMA RelevantHeaderNameReads ==
    ASSUME Reading(status, hp), IsTypeParser(ctp), NEW c \in Chars, RelevantHeaderName(c)
    PROVE  Reading(status', hp') /\ IsTypeParser(ctp')
<1>0. IsParser(hp) /\ c \in Letter /\ hp.hbuf # <<>> /\ status = "RELEVANT_HEADER_NAME" /\ status \in HeaderStatuses
    BY DEF Reading, Letter, RelevantHeaderName, HeaderStatuses
<1>1. CASE hp' = [hp EXCEPT !.lastTaskStatus = status] /\ status' = "CR_HEADER" /\ UNCHANGED ctp
    <2>1. IsParser(hp') /\ hp'.lastTaskStatus \notin Bodies /\ hp'.hbuf # <<>>
        BY <1>0, <1>1, Labelled DEF Grows, Bodies
    <2> QED
        BY <1>1, <2>1 DEF Reading, Bodies
<1>2. CASE EndOfName(c)
    BY <1>0, <1>2, EndOfNameReads
<1>3. CASE NameGoesOn(c)
    <2> DEFINE names == StillRelevant(hp.potential, Len(hp.hbuf), c)
               h     == InBuffer(hp, c)
    <2>1. /\ hp' = [h EXCEPT !.potential = names] /\ UNCHANGED ctp
          /\ status' \in {"IRRELEVANT_HEADER", "RELEVANT_HEADER_NAME"}
        BY <1>0, <1>3 DEF NameGoesOn
    <2>2. names \subseteq Names
        BY <1>0 DEF StillRelevant, IsParser
    <2>3. IsParser(h) /\ h.hbuf # <<>>
        BY <1>0, InBufferGrows DEF Grows
    <2> HIDE DEF h, names
    <2>4. IsParser(hp') /\ hp'.hbuf # <<>>
        BY <2>1, <2>2, <2>3 DEF IsParser, Fields
    <2> QED
        BY <2>1, <2>4 DEF Reading, Bodies
<1> QED
    BY <1>1, <1>2, <1>3 DEF RelevantHeaderName

LEMMA TakenAsItIsReads ==
    ASSUME Reading(status, hp), IsTypeParser(ctp), NEW c \in Chars, TakenAsItIs(c)
    PROVE  Reading(status', hp') /\ IsTypeParser(ctp')
<1> DEFINE h == [hp EXCEPT !.lastTaskStatus = status]
<1>0. /\ IsParser(hp) /\ c \in Letter /\ hp.hbuf # <<>> /\ status \in {"IRRELEVANT_HEADER", "HEADER_BODY"}
      /\ status \in HeaderStatuses /\ (status \in Bodies => Known(hp))
    BY DEF Reading, Letter, TakenAsItIs, HeaderStatuses, Bodies
<1>1. hp' = Kept(h, c) /\ status' \in {"CR_HEADER", status} /\ UNCHANGED ctp
    BY DEF TakenAsItIs
<1>2. Grows(hp, h) /\ h.lastTaskStatus = status
    BY <1>0, Labelled
<1> HIDE DEF h
<1>3. IsParser(h) /\ h.potential = hp.potential /\ (status \in Bodies => Known(h)) /\ h.hbuf # <<>>
    BY <1>0, <1>2, GrowsKnown DEF Grows
<1>4. Grows(h, hp') /\ hp'.lastTaskStatus = status
    BY <1>0, <1>1, <1>2, <1>3, KeptGrows
<1>5. IsParser(hp') /\ (status \in Bodies => Known(hp')) /\ hp'.hbuf # <<>>
    BY <1>3, <1>4, GrowsKnown DEF Grows
<1> QED
    BY <1>0, <1>1, <1>4, <1>5 DEF Reading, Bodies


\* A Content-Type that goes on, with what may be added to it.
LEMMA ContentTypeGrows ==
    ASSUME IsParser(hp)
    PROVE  Grows(hp, ContentType)
<1>1. "CONTENT_TYPE_BODY" \in HeaderStatuses
    BY DEF HeaderStatuses, Bodies
<1> QED
    BY <1>1, Labelled DEF ContentType

LEMMA TakenGrows ==
    ASSUME IsParser(hp), NEW c \in Letter
    PROVE  Grows(hp, InBody(ContentType, CONTENT_TYPE, c))
<1>1. Grows(hp, ContentType) /\ IsParser(ContentType) /\ CONTENT_TYPE \in Names
    BY ContentTypeGrows, MimeHeadersAssumption DEF Grows
<1>2. Grows(ContentType, InBody(ContentType, CONTENT_TYPE, c))
    BY <1>1, InBodyGrows
<1> QED
    BY <1>1, <1>2, Chained

LEMMA FlagGrows ==
    ASSUME NEW h, IsParser(h), NEW x
    PROVE  Grows(h, [h EXCEPT !.isRfc822Mime = x])
BY DEF IsParser, Grows, Fields

LEMMA BoundaryGrows ==
    ASSUME NEW h, IsParser(h), NEW c \in Letter
    PROVE  Grows(h, [h EXCEPT !.nextBoundary = Append(@, c)])
<1>1. Append(h.nextBoundary, c) \in Seq(Letter)
    BY AppendProperties DEF IsParser
<1> QED
    BY <1>1 DEF IsParser, Grows, Fields

\* NUL is no other character in lower case.
LEMMA LowerIsNotNul == \A c \in Chars : Lower(c) # "NUL"
BY MimeHeadersAssumption DEF Chars, Lower

LEMMA SeparatorKeeps ==
    ASSUME IsTypeParser(ctp), NEW c \in Chars, Separator(c)
    PROVE  IsTypeParser(ctp')
<1> DEFINE n == ctp.boundaryNameIndex
<1>1. n \in 0 .. Len(BOUNDARY_NAME) /\ Len(BOUNDARY_NAME) \in Nat
    BY MimeHeadersAssumption DEF IsTypeParser
<1>2. CASE ctp' = [ctp EXCEPT !.boundaryNameIndex = IF Lower(c) = At(BOUNDARY_NAME, n) THEN n + 1 ELSE 0]
    <2> DEFINE next == IF Lower(c) = At(BOUNDARY_NAME, n) THEN n + 1 ELSE 0
    <2>1. next \in 0 .. Len(BOUNDARY_NAME)
        <3>1. CASE n < Len(BOUNDARY_NAME)
            BY <1>1, <3>1
        <3>2. CASE n = Len(BOUNDARY_NAME)
            <4>1. At(BOUNDARY_NAME, n) = "NUL"
                BY <1>1, <3>2 DEF At
            <4> QED
                BY <1>1, <4>1, LowerIsNotNul
        <3> QED
            BY <1>1, <3>1, <3>2
    <2> HIDE DEF next
    <2> QED
        BY <1>2, <2>1 DEF IsTypeParser, CtpFields, next
<1>3. CASE \/ ctp' = ctp \/ ctp' = [ctp EXCEPT !.previous = "SEPARATOR"] \/ ctp' = [ctp EXCEPT !.status = "BOUNDARY"]
           \/ ctp' = [ctp EXCEPT !.previous = "SEPARATOR", !.status = "COMMENT"]
    BY <1>3 DEF IsTypeParser, CtpFields
<1> QED
    BY <1>2, <1>3 DEF Separator, Comment

LEMMA TypeParserKeeps ==
    ASSUME IsTypeParser(ctp), NEW c \in Chars, parseHeaderParams(c)
    PROVE  IsTypeParser(ctp')
<1>1. CASE TypeEnds(c)
    BY <1>1 DEF TypeEnds, IsTypeParser, CtpFields
<1>2. CASE TypeGoesOn(c)
    BY <1>2 DEF TypeGoesOn, IsTypeParser, CtpFields
<1>3. CASE TypeSkips(c)
    BY <1>3 DEF TypeSkips, Comment, IsTypeParser, CtpFields
<1>4. CASE Separator(c)
    BY <1>4, SeparatorKeeps
<1>5. CASE InComment(c)
    BY <1>5 DEF InComment, IsTypeParser, CtpFields
<1>6. CASE BoundaryValue(c)
    BY <1>6 DEF BoundaryValue, Comment, IsTypeParser, CtpFields
<1> QED
    BY <1>1, <1>2, <1>3, <1>4, <1>5, <1>6 DEF parseHeaderParams

LEMMA ParamsGrow ==
    ASSUME IsParser(hp), NEW c \in Chars, parseHeaderParams(c)
    PROVE  Grows(hp, hp')
<1>0. c \in Letter
    BY DEF Letter
<1>1. Dropped => Grows(hp, hp')
    BY ContentTypeGrows DEF Dropped
<1>2. Taken(c) => Grows(hp, hp')
    BY <1>0, TakenGrows DEF Taken
<1> DEFINE h == InBody(ContentType, CONTENT_TYPE, c)
<1>3. Grows(hp, h) /\ IsParser(h)
    BY <1>0, TakenGrows DEF Grows
<1> HIDE DEF h
<1>4. CASE TypeEnds(c)
    <2>1. PICK x : hp' = [h EXCEPT !.isRfc822Mime = x]
        BY <1>4 DEF TypeEnds, h
    <2>2. Grows(h, hp')
        BY <1>3, <2>1, FlagGrows
    <2> QED
        BY <1>3, <2>2, Chained
<1>5. CASE BoundaryValue(c)
    <2>1. CASE hp' = ContentType
        BY <2>1, ContentTypeGrows
    <2>2. CASE hp' = [h EXCEPT !.nextBoundary = Append(@, c)]
        <3>1. Grows(h, hp')
            BY <1>0, <1>3, <2>2, BoundaryGrows
        <3> QED
            BY <1>3, <3>1, Chained
    <2> QED
        BY <1>1, <1>2, <1>5, <2>1, <2>2 DEF BoundaryValue, h
<1> QED
    BY <1>1, <1>2, <1>4, <1>5 DEF parseHeaderParams, TypeGoesOn, TypeSkips, Separator, InComment

LEMMA ParamsRead ==
    ASSUME Reading(status, hp), IsTypeParser(ctp), NEW c \in Chars, parseHeaderParams(c)
    PROVE  Reading(status', hp') /\ IsTypeParser(ctp')
<1>1. IsParser(hp) /\ Known(hp) /\ hp.hbuf # <<>>
    BY DEF Reading, parseHeaderParams, Bodies
<1>2. Grows(hp, hp') /\ hp'.hbuf # <<>>
    BY <1>1, ParamsGrow DEF Grows
<1>3. Reading(status', hp')
    BY <1>1, <1>2, GoesOn
<1> QED
    BY <1>3, TypeParserKeeps

\* A character of the headers of a well-formed mail.
LEMMA HeaderReads ==
    ASSUME Reading(status, hp), IsTypeParser(ctp), NEW c \in Chars, parseHeader(c),
           status = "CR_HEADER" => c = "LF",
           status = "NEW_LINE" /\ hp.hbuf = <<>> => c # "SP"
    PROVE  Reading(status', hp') /\ IsTypeParser(ctp')
<1>1. CASE NewLine(c)
    <2>1. status = "NEW_LINE"
        BY <1>1 DEF NewLine, EndHeaders, Folded, BeginHeader
    <2> QED
        BY <1>1, <2>1, NewLineReads
<1>2. CASE CrHeader(c)
    BY <1>2, CrHeaderReads DEF CrHeader
<1>3. CASE RelevantHeaderName(c)
    BY <1>3, RelevantHeaderNameReads
<1>4. CASE TakenAsItIs(c)
    BY <1>4, TakenAsItIsReads
<1>5. CASE parseHeaderParams(c)
    BY <1>5, ParamsRead
<1> QED
    BY <1>1, <1>2, <1>3, <1>4, <1>5 DEF parseHeader


-----------------------------------------------------------------------------
(* The search for a boundary.                                              *)

LEMMA ScannedSearches ==
    ASSUME NEW c, NEW st \in BodyStatuses \ {"BOUNDARY_POP_CHECK"}, NEW stack, stack # <<>>,
           Search("PARSING_BODY", st, hyphenCount, boundaryIndex, stack)
    PROVE  LET next == Scanned(c, st, Head(stack))
           IN  /\ next.status \in BodyStatuses
               /\ Search("PARSING_BODY", next.status, next.hyphens, next.index, stack)
<1> DEFINE boundary == Head(stack)
           next == Scanned(c, st, boundary)
<1>1. /\ boundary \in Seq(Letter) /\ boundary # <<>> /\ Len(boundary) \in Nat \ {0}
      /\ boundaryIndex \in 0 .. Len(boundary) - 1 /\ hyphenCount \in 0 .. HYPHENS
      /\ stack \in Seq(Seq(Letter) \ {<<>>})
    <2>1. stack \in Seq(Seq(Letter) \ {<<>>}) /\ hyphenCount \in 0 .. HYPHENS /\ boundaryIndex \in 0 .. Len(boundary) - 1
        BY DEF Search
    <2>2. boundary \in Seq(Letter) \ {<<>>}
        BY <2>1, HeadTailProperties
    <2>3. Len(boundary) \in Nat /\ Len(boundary) # 0
        BY <2>2, EmptySeq
    <2> QED
        BY <2>1, <2>2, <2>3
<1>2. /\ st \in {"NEW_LINE_BODY", "IRRELEVANT_BODY", "CR_BODY"} => hyphenCount = 0
      /\ st = "HYPHEN" => hyphenCount = 1
    BY DEF Search
<1> HIDE DEF boundary
<1> SUFFICES /\ next.status \in BodyStatuses /\ next.hyphens \in 0 .. HYPHENS
             /\ next.index \in 0 .. Len(boundary) - 1
             /\ next.status \in {"NEW_LINE_BODY", "IRRELEVANT_BODY", "CR_BODY"} => next.hyphens = 0
             /\ next.status = "HYPHEN" => next.hyphens = 1
             /\ next.status = "BOUNDARY_POP_CHECK" => next.hyphens < HYPHENS
    BY <1>1 DEF Search, boundary
<1>3. CASE st = "NEW_LINE_BODY"
    BY <1>1, <1>2, <1>3 DEF Scanned, BodyStatuses, HYPHENS
<1>4. CASE st = "IRRELEVANT_BODY"
    BY <1>1, <1>2, <1>4 DEF Scanned, BodyStatuses, HYPHENS
<1>5. CASE st = "CR_BODY"
    BY <1>1, <1>2, <1>5 DEF Scanned, BodyStatuses, HYPHENS
<1>6. CASE st = "HYPHEN"
    BY <1>1, <1>2, <1>6 DEF Scanned, BodyStatuses, HYPHENS
<1>7. CASE st = "SEARCHING_BOUNDARY"
    BY <1>1, <1>7 DEF Scanned, BodyStatuses, HYPHENS
<1> QED
    BY <1>3, <1>4, <1>5, <1>6, <1>7 DEF BodyStatuses

LEMMA PopCheckSearches ==
    ASSUME NEW c, NEW stack, stack # <<>>,
           Search("PARSING_BODY", "BOUNDARY_POP_CHECK", hyphenCount, boundaryIndex, stack), PopCheck(c, stack)
    PROVE  /\ Search(task', status', hyphenCount', boundaryIndex', boundaries')
           /\ \/ task' = "PARSING_BODY" /\ status' \in BodyStatuses
              \/ task' = "DONE_PARSING_BODY" /\ status' = "BOUNDARY_POP_CHECK"
<1>1. stack \in Seq(Seq(Letter) \ {<<>>}) /\ hyphenCount \in 0 .. HYPHENS /\ hyphenCount < HYPHENS
    BY DEF Search
<1>2. boundaries' \in Seq(Seq(Letter) \ {<<>>}) /\ boundaryIndex' = 0
    <2>1. Tail(stack) \in Seq(Seq(Letter) \ {<<>>})
        BY <1>1, HeadTailProperties
    <2> QED
        BY <1>1, <2>1 DEF PopCheck
<1>3. boundaries' # <<>> => boundaryIndex' \in 0 .. Len(Head(boundaries')) - 1
    <2>1. SUFFICES ASSUME boundaries' # <<>> PROVE Len(Head(boundaries')) \in Nat \ {0}
        BY <1>2
    <2>2. Head(boundaries') \in Seq(Letter) \ {<<>>}
        BY <1>2, <2>1, HeadTailProperties
    <2> QED
        BY <2>2, EmptySeq
<1>4. CASE status' = "NEW_LINE_BODY" /\ hyphenCount' = 0 /\ task' = "PARSING_BODY"
    <2>1. 0 \in 0 .. HYPHENS /\ "NEW_LINE_BODY" \in BodyStatuses
        BY DEF HYPHENS, BodyStatuses
    <2> QED
        BY ONLY <1>2, <1>3, <1>4, <2>1 DEF Search
<1>5. CASE /\ status' = "BOUNDARY_POP_CHECK" /\ task' \in {"DONE_PARSING_BODY", "PARSING_BODY"}
           /\ hyphenCount' \in 0 .. HYPHENS - 1
    <2>1. hyphenCount' \in 0 .. HYPHENS /\ hyphenCount' < HYPHENS /\ "BOUNDARY_POP_CHECK" \in BodyStatuses
        BY <1>5 DEF HYPHENS, BodyStatuses
    <2>2. CASE task' = "PARSING_BODY"
        BY ONLY <1>2, <1>3, <1>5, <2>1, <2>2 DEF Search
    <2>3. CASE task' = "DONE_PARSING_BODY"
        BY ONLY <1>2, <1>3, <1>5, <2>1, <2>3 DEF Search
    <2> QED
        BY <1>5, <2>1, <2>2, <2>3
<1> QED
    BY <1>1, <1>4, <1>5 DEF PopCheck, HYPHENS

LEMMA ParseBodySearches ==
    ASSUME NEW c, NEW st \in BodyStatuses, NEW stack, NEW from, ParseBody(c, st, stack, from),
           Search("PARSING_BODY", st, hyphenCount, boundaryIndex, stack)
    PROVE  /\ Search(task', status', hyphenCount', boundaryIndex', boundaries')
           /\ \/ task' = "PARSING_BODY" /\ status' \in BodyStatuses
              \/ task' = "DONE_PARSING_BODY" /\ status' = "BOUNDARY_POP_CHECK"
              \/ task' = "DONE_FINAL_BODY" /\ status' = "WRITING_NO_CHECK"
<1>1. CASE stack = <<>> /\ task' = "PARSING_BODY" /\ status' = st /\ boundaries' = stack
           /\ UNCHANGED <<hyphenCount, boundaryIndex>>
    BY <1>1
<1>2. CASE /\ stack = <<>> /\ boundaries' = stack /\ UNCHANGED <<hyphenCount, boundaryIndex>>
           /\ task' = "DONE_FINAL_BODY" /\ status' = "WRITING_NO_CHECK"
    BY <1>2 DEF Search
<1>3. CASE /\ stack # <<>> /\ st # "BOUNDARY_POP_CHECK" /\ task' = "PARSING_BODY" /\ boundaries' = stack
           /\ LET next == Scanned(c, st, Head(stack)) IN
              status' = next.status /\ hyphenCount' = next.hyphens /\ boundaryIndex' = next.index
    BY <1>3, ScannedSearches
<1>4. CASE stack # <<>> /\ st = "BOUNDARY_POP_CHECK" /\ PopCheck(c, stack)
    BY <1>4, PopCheckSearches
<1> QED
    BY <1>1, <1>2, <1>3, <1>4 DEF ParseBody

\* In headers and before them no boundary is looked for.
LEMMA SearchWaits ==
    ASSUME NEW t \in {"PARSING_POP3", "PARSING_HEADERS", "DONE_PARSING_HEADERS"}, NEW st,
           Search(t, st, hyphenCount, boundaryIndex, boundaries),
           NEW t1 \in {"PARSING_POP3", "PARSING_HEADERS", "DONE_PARSING_HEADERS"}, NEW st1
    PROVE  Search(t1, st1, hyphenCount, boundaryIndex, boundaries)
BY DEF Search

LEMMA PushedSearches ==
    ASSUME NEW st, Search("DONE_PARSING_HEADERS", st, hyphenCount, boundaryIndex, boundaries), IsParser(hp),
           isMultipart /\ ~mustBeCensored => hp.nextBoundary # <<>>
    PROVE  Search("PARSING_BODY", "NEW_LINE_BODY", hyphenCount, boundaryIndex, Pushed)
<1>1. boundaries \in Seq(Seq(Letter) \ {<<>>}) /\ hyphenCount = 0 /\ boundaryIndex = 0
    BY DEF Search
<1>2. Pushed \in Seq(Seq(Letter) \ {<<>>})
    <2>1. CASE isMultipart /\ ~mustBeCensored
        <3>1. hp.nextBoundary \in Seq(Letter) \ {<<>>}
            BY <2>1 DEF IsParser
        <3>2. <<hp.nextBoundary>> \in Seq(Seq(Letter) \ {<<>>})
            BY <3>1
        <3>3. <<hp.nextBoundary>> \o boundaries \in Seq(Seq(Letter) \ {<<>>})
            BY <1>1, <3>2, ConcatProperties
        <3> QED
            BY <2>1, <3>3 DEF Pushed
    <2>2. CASE ~(isMultipart /\ ~mustBeCensored)
        BY <1>1, <2>2 DEF Pushed
    <2> QED
        BY <2>1, <2>2
<1>3. Pushed # <<>> => boundaryIndex \in 0 .. Len(Head(Pushed)) - 1
    <2>1. SUFFICES ASSUME Pushed # <<>> PROVE Len(Head(Pushed)) \in Nat \ {0}
        BY <1>1
    <2>2. Head(Pushed) \in Seq(Letter) \ {<<>>}
        BY <1>2, <2>1, HeadTailProperties
    <2> QED
        BY <2>2, EmptySeq
<1> QED
    BY <1>1, <1>2, <1>3 DEF Search, HYPHENS


-----------------------------------------------------------------------------
(* Every step of a well-formed mail.                                       *)

LEMMA HeaderStatus ==
    ASSUME StatusOfTask, IsParser(hp), NEW c \in Chars, task = "PARSING_HEADERS", parseHeader(c), UNCHANGED stopped
    PROVE  StatusOfTask'
<1>1. hp.lastTaskStatus \in HeaderStatuses /\ status \in HeaderStatuses
    BY DEF IsParser, StatusOfTask
<1>2. \/ task' = "PARSING_HEADERS" /\ status' \in HeaderStatuses
      \/ task' = "DONE_PARSING_HEADERS" /\ status' = "NEW_LINE"
    <2>1. CASE NewLine(c)
        BY <1>1, <2>1 DEF NewLine, EndHeaders, Folded, BeginHeader, HeaderStatuses
    <2>2. CASE CrHeader(c)
        BY <2>2 DEF CrHeader, HeaderStatuses, Bodies
    <2>3. CASE RelevantHeaderName(c)
        BY <2>3 DEF RelevantHeaderName, EndOfName, NameGoesOn, HeaderStatuses, Bodies
    <2>4. CASE TakenAsItIs(c)
        BY <2>4 DEF TakenAsItIs, HeaderStatuses, Bodies
    <2>5. CASE parseHeaderParams(c)
        <3>1. status' \in {"CR_HEADER", "HEADER_BODY", status}
            BY <2>5 DEF parseHeaderParams, TypeEnds, TypeGoesOn, TypeSkips, Separator, InComment, BoundaryValue
        <3> QED
            BY <1>1, <2>5, <3>1 DEF parseHeaderParams, HeaderStatuses, Bodies
    <2> QED
        BY <2>1, <2>2, <2>3, <2>4, <2>5 DEF parseHeader
<1>3. mustBeCensored' \in BOOLEAN /\ isMultipart' \in BOOLEAN
    <2>1. CASE UNCHANGED level
        BY <2>1 DEF level, StatusOfTask
    <2>2. CASE TypeEnds(c)
        <3>1. \E x, y : mustBeCensored' = (mustBeCensored \/ x) /\ isMultipart' = (isMultipart \/ y)
            BY <2>2, Zenon DEF TypeEnds
        <3>2. \A x, y : (x \/ y) \in BOOLEAN
            BY Zenon
        <3> QED
            BY <3>1, <3>2, Zenon
    <2> QED
        BY <2>1, <2>2
           DEF parseHeader, NewLine, EndHeaders, Folded, BeginHeader, CrHeader, RelevantHeaderName, TakenAsItIs,
               parseHeaderParams, TypeGoesOn, TypeSkips, Separator, InComment, BoundaryValue
<1> QED
    BY <1>2, <1>3 DEF StatusOfTask, Tasks

\* A body leaves a status of the task it leaves.
LEMMA BodyStatus ==
    ASSUME StatusOfTask, UNCHANGED <<stopped, level>>,
           \/ task' = "PARSING_BODY" /\ status' \in BodyStatuses
           \/ task' = "DONE_PARSING_BODY" /\ status' = "BOUNDARY_POP_CHECK"
           \/ task' = "DONE_FINAL_BODY" /\ status' = "WRITING_NO_CHECK"
    PROVE  StatusOfTask'
BY DEF StatusOfTask, Tasks, Copying, level

LEMMA IInvInit == Init => IInv
<1> SUFFICES ASSUME Init PROVE IInv
    OBVIOUS
<1>1. IsParser(hp) /\ hp.hbuf = <<>>
    <2>1. hp = ResetHp([relevantHeaders |-> <<>>, potential |-> {}, isRfc822Mime |-> FALSE,
                        hbuf |-> <<>>, nextBoundary |-> <<>>, lastTaskStatus |-> "NEW_LINE"])
        BY DEF Init, InitHeaderParser
    <2>2. /\ DOMAIN hp = Fields /\ hp.relevantHeaders = [n \in Names |-> NoHeader] /\ hp.potential = Names
          /\ hp.hbuf = <<>> /\ hp.nextBoundary = <<>> /\ hp.lastTaskStatus = "NEW_LINE"
        BY <2>1 DEF ResetHp, Fields
    <2>3. NoHeader \in [name : Seq(Letter), body : Seq(Letter)] /\ <<>> \in Seq(Letter)
        BY DEF NoHeader
    <2> QED
        BY <2>2, <2>3 DEF IsParser, HeaderStatuses
<1>2. IsTypeParser(ctp)
    BY MimeHeadersAssumption DEF Init, InitHeaderParser, IsTypeParser, ResetCtp, CtpFields
<1>3. StatusOfTask /\ task = "PARSING_POP3"
    BY DEF Init, StatusOfTask, Tasks, Copying
<1>4. Search(task, status, hyphenCount, boundaryIndex, boundaries)
    BY DEF Init, Search, HYPHENS
<1> QED
    BY <1>1, <1>2, <1>3, <1>4, BuffersInit DEF IInv

LEMMA IInvStep == IInv /\ WellFormed /\ [Next]_vars => IInv'
<1> SUFFICES ASSUME IInv, WellFormed, [Next]_vars PROVE IInv'
    OBVIOUS
<1>0. Buffers'
    BY BuffersStep DEF IInv
<1>1. CASE UNCHANGED <<task, status, level, header, body>> /\ stopped' \in BOOLEAN
    BY <1>0, <1>1 DEF IInv, StatusOfTask, level, header, body
<1>2. CASE Flush \/ FeedMoreBytes \/ EndOfInput \/ ConsumeRemainingBytes
    <2>1. UNCHANGED <<task, status, level, header, body>>
        BY <1>2 DEF Flush, FeedMoreBytes, EndOfInput, ConsumeRemainingBytes
    <2>2. stopped' \in BOOLEAN
        BY <1>2 DEF Flush, FeedMoreBytes, EndOfInput, ConsumeRemainingBytes, source, IInv, StatusOfTask
    <2> QED
        BY <1>1, <2>1, <2>2
<1>3. CASE Header
    <2> DEFINE c == buf[i + 1]
    <2>1. c \in Chars /\ i < Len(buf)
        BY <1>3 DEF IInv, Buffers, Header
    <2>2. /\ task = "PARSING_HEADERS" /\ parseHeader(c) /\ UNCHANGED <<body, stopped>>
          /\ status = "CR_HEADER" => c = "LF"
          /\ status = "NEW_LINE" /\ hp.hbuf = <<>> => c # "SP"
        BY <1>3, <2>1 DEF Header, Advance, source, WellFormed
    <2> HIDE DEF c
    <2>3. Reading(status', hp') /\ IsTypeParser(ctp')
        BY <2>1, <2>2, HeaderReads DEF IInv
    <2>4. StatusOfTask' /\ task' \in {"PARSING_HEADERS", "DONE_PARSING_HEADERS"}
        BY <2>1, <2>2, HeaderStatus, ParseHeaderTasks DEF IInv
    <2>5. Search(task', status', hyphenCount', boundaryIndex', boundaries')
        <3>1. Search(task', status', hyphenCount, boundaryIndex, boundaries)
            BY <2>2, <2>4, SearchWaits DEF IInv
        <3> QED
            BY <2>2, <3>1 DEF body
    <2> QED
        BY <1>0, <2>3, <2>4, <2>5 DEF IInv, Reading
<1>4. CASE Pop3
    <2>1. /\ UNCHANGED <<stopped, level, header, body>> /\ task = "PARSING_POP3"
          /\ \/ task' = "PARSING_HEADERS" /\ status' = "NEW_LINE"
             \/ task' = "PARSING_POP3" /\ status' \in {"NEW_LINE_POP3", "COMMAND_POP3", "CR_POP3"}
        BY <1>4 DEF Pop3, Advance, source, header, IInv, StatusOfTask
    <2>2. StatusOfTask'
        BY <2>1 DEF IInv, StatusOfTask, Tasks, Copying, level, HeaderStatuses
    <2>3. Search(task', status', hyphenCount', boundaryIndex', boundaries')
        <3>1. Search(task', status', hyphenCount, boundaryIndex, boundaries)
            BY <2>1, SearchWaits DEF IInv
        <3> QED
            BY <2>1, <3>1 DEF body
    <2>4. task' = "PARSING_HEADERS" => Reading(status', hp')
        BY <2>1 DEF IInv, Reading, header, Bodies
    <2> QED
        BY <1>0, <2>1, <2>2, <2>3, <2>4 DEF IInv, header
<1>5. CASE BeginBody
    <2>1. /\ task = "DONE_PARSING_HEADERS" /\ ParseBody(buf[i + 1], "NEW_LINE_BODY", Pushed, i)
          /\ ResetHeaderParser /\ UNCHANGED <<level, stopped>>
        BY <1>5 DEF BeginBody, ParseBody, Advance, source
    <2>2. Search("PARSING_BODY", "NEW_LINE_BODY", hyphenCount, boundaryIndex, Pushed)
        BY <2>1, PushedSearches DEF IInv, WellFormed
    <2>3. /\ Search(task', status', hyphenCount', boundaryIndex', boundaries')
          /\ \/ task' = "PARSING_BODY" /\ status' \in BodyStatuses
             \/ task' = "DONE_PARSING_BODY" /\ status' = "BOUNDARY_POP_CHECK"
             \/ task' = "DONE_FINAL_BODY" /\ status' = "WRITING_NO_CHECK"
        BY <2>1, <2>2, ParseBodySearches DEF BodyStatuses
    <2>4. StatusOfTask'
        BY <2>1, <2>3, BodyStatus DEF IInv
    <2>5. IsParser(hp') /\ IsTypeParser(ctp')
        BY <2>1, ResetIsParser, ResetIsTypeParser DEF ResetHeaderParser, IInv
    <2> QED
        BY <1>0, <2>3, <2>4, <2>5 DEF IInv
<1>6. CASE Body
    <2>1. /\ task = "PARSING_BODY" /\ ParseBody(buf[i + 1], status, boundaries, start)
          /\ UNCHANGED <<level, header, stopped>> /\ status \in BodyStatuses
        BY <1>6 DEF Body, ParseBody, Advance, source, IInv, StatusOfTask
    <2>2. /\ Search(task', status', hyphenCount', boundaryIndex', boundaries')
          /\ \/ task' = "PARSING_BODY" /\ status' \in BodyStatuses
             \/ task' = "DONE_PARSING_BODY" /\ status' = "BOUNDARY_POP_CHECK"
             \/ task' = "DONE_FINAL_BODY" /\ status' = "WRITING_NO_CHECK"
        BY <2>1, ParseBodySearches DEF IInv
    <2>3. StatusOfTask'
        BY <2>1, <2>2, BodyStatus DEF IInv
    <2> QED
        BY <1>0, <2>1, <2>2, <2>3 DEF IInv, header
<1>7. CASE EndOfPart
    <2>1. /\ task' = "PARSING_HEADERS" /\ status' = "NEW_LINE" /\ isMultipart' = FALSE /\ mustBeCensored' = FALSE
          /\ ResetHeaderParser /\ hyphenCount' = 0 /\ boundaryIndex' = 0 /\ UNCHANGED <<stopped, boundaries>>
        BY <1>7 DEF EndOfPart, Advance, source
    <2>2. IsParser(hp') /\ hp'.hbuf = <<>> /\ IsTypeParser(ctp')
        BY <2>1, ResetIsParser, ResetIsTypeParser DEF ResetHeaderParser, IInv
    <2>3. Reading(status', hp')
        BY <2>1, <2>2 DEF Reading, Bodies
    <2>4. StatusOfTask'
        BY <2>1 DEF IInv, StatusOfTask, Tasks, HeaderStatuses
    <2>5. Search(task', status', hyphenCount', boundaryIndex', boundaries')
        <3>1. boundaries \in Seq(Seq(Letter) \ {<<>>})
            BY DEF IInv, Search
        <3>2. boundaries # <<>> => 0 \in 0 .. Len(Head(boundaries)) - 1
            <4>1. SUFFICES ASSUME boundaries # <<>> PROVE Len(Head(boundaries)) \in Nat \ {0}
                OBVIOUS
            <4>2. Head(boundaries) \in Seq(Letter) \ {<<>>}
                BY <3>1, <4>1, HeadTailProperties
            <4> QED
                BY <4>2, EmptySeq
        <3> QED
            BY <2>1, <3>1, <3>2 DEF Search, HYPHENS
    <2> QED
        BY <1>0, <2>1, <2>2, <2>3, <2>4, <2>5 DEF IInv
<1>8. CASE UNCHANGED vars
    <2>1. UNCHANGED <<task, status, level, header, body>> /\ stopped' \in BOOLEAN
        BY <1>8 DEF vars, source, IInv, StatusOfTask
    <2> QED
        BY <1>1, <2>1
<1> QED
    BY <1>2, <1>3, <1>4, <1>5, <1>6, <1>7, <1>8 DEF Next

LEMMA IInvTypes == IInv => TypeOK
<1> SUFFICES ASSUME IInv PROVE TypeOK
    OBVIOUS
<1>1. status \in Statuses
    BY DEF IInv, StatusOfTask, Statuses, HeaderStatuses, BodyStatuses, Tasks, Copying, Bodies
<1>2. ASSUME status \in {"HEADER_BODY", "CONTENT_TYPE_BODY"}
      PROVE  MatchesFound # 0 /\ hp.relevantHeaders[MatchesFound] # NoHeader
    <2>1. Known(hp) /\ IsParser(hp)
        BY <1>2 DEF IInv, StatusOfTask, Tasks, Copying, BodyStatuses, Reading, Bodies
    <2>2. MatchesFound \in hp.potential /\ MatchesFound \in Names /\ hp.relevantHeaders[MatchesFound].name # <<>>
        BY <2>1, MatchesFoundIs DEF Known, IsParser
    <2> QED
        BY <2>2, NamesAreNumbers DEF NoHeader
<1>3. task \in {"PARSING_POP3", "PARSING_HEADERS", "DONE_PARSING_HEADERS", "PARSING_BODY",
                "DONE_PARSING_BODY", "DONE_FINAL_BODY"}
    BY DEF IInv, StatusOfTask, Tasks, Copying
<1> QED
    BY <1>1, <1>2, <1>3 DEF IInv, StatusOfTask, IsTypeParser, Search, Buffers, TypeOK

\* Of every well-formed mail, however it is cut into reads: the indices of the buffer, of
\* the boundary and of its name stay inside of them, and a header's body is only taken
\* down for a relevant header whose name is known (stripmime.c:243-744).
THEOREM TypeCorrect == Spec /\ []WellFormed => []TypeOK
<1> QED
    BY IInvInit, IInvStep, IInvTypes, PTL DEF Spec


-----------------------------------------------------------------------------
(* Comparisons.                                                            *)

Texts    == Seq(Letter)
Patterns == {censoredMimes[k] : k \in DOMAIN censoredMimes} \cup {MULTIPART, RFC822}

LEMMA PatternsAreTexts == Patterns \subseteq Texts \ {<<>>}
<1>1. Patterns \subseteq Seq(Chars) \ {<<>>}
    BY MimeHeadersAssumption, MimeTextAssumption DEF Patterns, Chars
<1>2. Seq(Chars) \subseteq Texts
    BY DEF Texts, Letter
<1> QED
    BY <1>1, <1>2

\* No character that is read is taken for the end of a text.
LEMMA NoCharEnds ==
    ASSUME NEW c \in Letter
    PROVE  Lower(c) # Lower("NUL") /\ Lower("NUL") = "NUL"
BY MimeHeadersAssumption, MimeTextAssumption DEF Lower, Chars, Letter

\* One character more rules out what it differs from.
LEMMA MayBeLikeGoesOn ==
    ASSUME NEW t \in Texts, NEW p \in Texts \ {<<>>}, NEW c \in Letter
    PROVE  MayBeLike(Append(t, c), p) <=> MayBeLike(t, p) /\ cmpMime(p, Len(t), c)
<1> DEFINE T == Len(t)
           P == Len(p)
           star == Last(p) = "*"
           more == Append(t, c)
<1>1. T \in Nat /\ P \in Nat \ {0}
    BY EmptySeq DEF Texts
<1>2. Len(more) = T + 1 /\ more[T + 1] = c /\ \A k \in 1 .. T : more[k] = t[k]
    BY DEF Texts
<1>3. cmpMime(p, T, c) <=> (star /\ T + 1 >= P) \/ (T + 1 <= P /\ Lower(c) = Lower(p[T + 1]))
    <2>1. CASE T < P
        BY <1>1, <2>1 DEF cmpMime, At
    <2>2. CASE ~(T < P)
        BY <1>1, <2>2, NoCharEnds DEF cmpMime, At
    <2> QED
        BY <2>1, <2>2
<1> DEFINE Fits(k, x) == (star /\ k >= P) \/ (k <= P /\ Lower(x) = Lower(p[k]))
<1>4. MayBeLike(t, p) <=> \A k \in 1 .. T : Fits(k, t[k])
    BY DEF MayBeLike
<1>5. MayBeLike(more, p) <=> \A k \in 1 .. T + 1 : Fits(k, more[k])
    BY <1>2 DEF MayBeLike
<1>6. cmpMime(p, T, c) <=> Fits(T + 1, c)
    BY <1>3
<1> HIDE DEF T, P, star, more, Fits
<1>7. 1 .. T + 1 = (1 .. T) \cup {T + 1}
    BY <1>1
<1>8. (\A k \in 1 .. T + 1 : Fits(k, more[k])) <=> (\A k \in 1 .. T : Fits(k, t[k])) /\ Fits(T + 1, c)
    BY <1>2, <1>7
<1> QED
    BY <1>4, <1>5, <1>6, <1>8 DEF more, T

\* What may be like a pattern when it is over, and ends as that does, is like it.
LEMMA LikeIs ==
    ASSUME NEW t \in Texts, NEW p \in Texts \ {<<>>}
    PROVE  Like(t, p) <=> MayBeLike(t, p) /\ cmpMime(p, Len(t), "NUL")
<1> DEFINE T == Len(t)
           P == Len(p)
           star == Last(p) = "*"
<1>1. T \in Nat /\ P \in Nat \ {0}
    BY EmptySeq DEF Texts
<1>2. cmpMime(p, T, "NUL") <=> (star /\ T >= P - 1) \/ T = P
    <2>1. CASE T < P
        <3>1. p[T + 1] \in Letter
            BY <1>1, <2>1 DEF Texts
        <3> QED
            BY <1>1, <2>1, <3>1, NoCharEnds DEF cmpMime, At
    <2>2. CASE ~(T < P)
        BY <1>1, <2>2 DEF cmpMime, At
    <2> QED
        BY <2>1, <2>2
<1> DEFINE Same(k) == Lower(t[k]) = Lower(p[k])
<1>3. MayBeLike(t, p) <=> \A k \in 1 .. T : (star /\ k >= P) \/ (k <= P /\ Same(k))
    BY DEF MayBeLike
<1>4. Like(t, p) <=> (IF star THEN T >= P - 1 ELSE T = P) /\ \A k \in 1 .. P : (k < P \/ ~star => Same(k))
    BY DEF Like
<1> HIDE DEF T, P, star, Same
<1>6. CASE star
    <2> DEFINE X == \A k \in 1 .. P : k < P => Same(k)
               Y == \A k \in 1 .. T : k >= P \/ (k <= P /\ Same(k))
    <2>1. cmpMime(p, T, "NUL") <=> T >= P - 1
        BY ONLY <1>1, <1>2, <1>6
    <2>2. Like(t, p) <=> T >= P - 1 /\ X
        BY ONLY <1>4, <1>6
    <2>3. MayBeLike(t, p) <=> Y
        BY ONLY <1>3, <1>6
    <2>4. T >= P - 1 => (X <=> Y)
        BY ONLY <1>1
    <2> HIDE DEF X, Y
    <2> QED
        BY ONLY <2>1, <2>2, <2>3, <2>4 DEF T
<1>7. CASE ~star
    <2> DEFINE X == \A k \in 1 .. P : Same(k)
               Y == \A k \in 1 .. T : k <= P /\ Same(k)
    <2>1. cmpMime(p, T, "NUL") <=> T = P
        BY ONLY <1>1, <1>2, <1>7
    <2>2. Like(t, p) <=> T = P /\ X
        BY ONLY <1>4, <1>7
    <2>3. MayBeLike(t, p) <=> Y
        BY ONLY <1>3, <1>7
    <2>4. T = P => (X <=> Y)
        BY ONLY <1>1
    <2> HIDE DEF X, Y
    <2> QED
        BY ONLY <2>1, <2>2, <2>3, <2>4 DEF T
<1> QED
    BY <1>6, <1>7

-----------------------------------------------------------------------------
(* What has been read of a type.                                           *)

Kept1(none, word, c)    == IF c \in White THEN word ELSE Append(word, c)
NoWord(none)            == <<>>
IsWord(none, v, seq, n) == v \in Texts
Typing == INSTANCE Folding WITH Op <- Kept1, Base <- NoWord, Holds <- IsWord

LEMMA WithoutFoldsFolds == ASSUME NEW text PROVE WithoutFolds(text) = Typing!Fold({}, text)
BY DEF WithoutFolds, NoWord, Kept1, Typing!Fold, FoldLeft, MapThenFoldSet,
       Typing!FoldLeft, Typing!MapThenFoldSet, Typing!Max, Max

LEMMA WithoutFoldsIs ==
    ASSUME NEW text \in Texts
    PROVE  /\ WithoutFolds(<<>>) = <<>> /\ WithoutFolds(text) \in Texts
           /\ \A c \in Letter : WithoutFolds(Append(text, c)) =
                IF c \in White THEN WithoutFolds(text) ELSE Append(WithoutFolds(text), c)
<1>1. text \in Seq(Letter)
    BY DEF Texts
<1>2. ASSUME NEW c \in Letter
      PROVE  /\ Typing!Fold({}, <<>>) = NoWord({})
             /\ Typing!Fold({}, Append(text, c)) = Kept1({}, Typing!Fold({}, text), c)
    BY <1>1, Typing!FoldAppend
<1>3. ":" \in Letter
    BY DEF Letter
<1>4. IsWord({}, Typing!Fold({}, text), text, Len(text))
    <2>1. IsWord({}, NoWord({}), text, 0)
        BY DEF IsWord, NoWord, Texts
    <2>2. \A v : \A n \in 1 .. Len(text) :
            IsWord({}, v, text, n - 1) => IsWord({}, Kept1({}, v, text[n]), text, n)
        <3> SUFFICES ASSUME NEW v, NEW n \in 1 .. Len(text), v \in Texts PROVE Kept1({}, v, text[n]) \in Texts
            BY DEF IsWord
        <3>1. text[n] \in Letter
            BY <1>1
        <3> QED
            BY <3>1 DEF Kept1, Texts
    <2> QED
        BY ONLY <1>1, <2>1, <2>2, Typing!FoldInduction
<1> QED
    BY <1>2, <1>3, <1>4, WithoutFoldsFolds DEF NoWord, Kept1, IsWord

-----------------------------------------------------------------------------
(* What becomes of a header parser.                                        *)

LEMMA InBodyIs ==
    ASSUME NEW h, IsParser(h), NEW n \in Names, NEW c \in Letter
    PROVE  /\ DOMAIN InBody(h, n, c) = Fields
           /\ InBody(h, n, c).potential = h.potential /\ InBody(h, n, c).hbuf = h.hbuf
           /\ InBody(h, n, c).lastTaskStatus = h.lastTaskStatus
           /\ InBody(h, n, c).nextBoundary = h.nextBoundary
           /\ InBody(h, n, c).isRfc822Mime = h.isRfc822Mime
           /\ InBody(h, n, c).relevantHeaders[n].name = h.relevantHeaders[n].name
           /\ InBody(h, n, c).relevantHeaders[n].body = Append(h.relevantHeaders[n].body, c)
           /\ \A m \in Names \ {n} : InBody(h, n, c).relevantHeaders[m] = h.relevantHeaders[m]
           /\ InBody(h, n, c).relevantHeaders[n] # NoHeader
<1> DEFINE old == h.relevantHeaders
           new == [old EXCEPT ![n].body = Append(@, c)]
<1>1. InBody(h, n, c) = [h EXCEPT !.relevantHeaders = new]
    BY DEF InBody, IsParser, Fields
<1>2. old \in [Names -> [name : Seq(Letter), body : Seq(Letter)]]
    BY DEF IsParser
<1>3. new[n] = [name |-> old[n].name, body |-> Append(old[n].body, c)] /\ \A m \in Names \ {n} : new[m] = old[m]
    BY <1>2
<1>4. Append(old[n].body, c) # <<>>
    <2>1. old[n].body \in Seq(Letter)
        BY <1>2
    <2> HIDE DEF old
    <2> QED
        BY ONLY <2>1, AppendProperties
<1>5. new[n].name = old[n].name /\ new[n].body = Append(old[n].body, c) /\ new[n] # NoHeader
    BY <1>3, <1>4 DEF NoHeader
<1> HIDE DEF new
<1>6. /\ DOMAIN InBody(h, n, c) = Fields /\ InBody(h, n, c).relevantHeaders = new
      /\ InBody(h, n, c).potential = h.potential /\ InBody(h, n, c).hbuf = h.hbuf
      /\ InBody(h, n, c).lastTaskStatus = h.lastTaskStatus
      /\ InBody(h, n, c).nextBoundary = h.nextBoundary
      /\ InBody(h, n, c).isRfc822Mime = h.isRfc822Mime
    BY <1>1 DEF IsParser, Fields
<1> QED
    BY <1>3, <1>5, <1>6

LEMMA InBufferIs ==
    ASSUME NEW h, IsParser(h), NEW c
    PROVE  /\ InBuffer(h, c).relevantHeaders = h.relevantHeaders
           /\ InBuffer(h, c).potential = h.potential /\ InBuffer(h, c).hbuf = Append(h.hbuf, c)
           /\ InBuffer(h, c).lastTaskStatus = h.lastTaskStatus
BY DEF InBuffer, IsParser, Fields

LEMMA ResetHpIs ==
    ASSUME NEW h, IsParser(h)
    PROVE  /\ ResetHp(h).hbuf = <<>> /\ \A n \in Names : ResetHp(h).relevantHeaders[n] = NoHeader
BY DEF ResetHp, IsParser, Fields

-----------------------------------------------------------------------------
(* Names of headers.                                                       *)

\* A header has been kept under its name, and none has only a body.
KeptIsNamed(n, kept) ==
    kept = NoHeader \/ (kept.name # <<>> /\ Spelled(kept.name, Append(RELEVANT_HEADERS[n], ":")))
AllNamed(h) == \A n \in Names : KeptIsNamed(n, h.relevantHeaders[n])

\* All names that are possible begin with what has been read.
Possible(h) == \A n \in h.potential : \A k \in 1 .. Len(h.hbuf) : cmp(RELEVANT_HEADERS[n], k - 1, h.hbuf[k])

\* The header that is being read is the Content-Type.
OnType(st, h) ==
    \/ st = "CONTENT_TYPE_BODY"
    \/ (st = "CR_HEADER" \/ (st = "NEW_LINE" /\ h.hbuf # <<>>)) /\ h.lastTaskStatus = "CONTENT_TYPE_BODY"

\* A line that is not taken down belongs to no relevant header.
Told(st, h) ==
    /\ OnType(st, h) => CONTENT_TYPE \in h.potential
    /\ st = "RELEVANT_HEADER_NAME" => Possible(h)
    /\ st = "IRRELEVANT_HEADER" => h.potential = {}
    /\ st = "CR_HEADER" \/ (st = "NEW_LINE" /\ h.hbuf # <<>>) =>
          h.lastTaskStatus \in Bodies \/ (h.lastTaskStatus = "IRRELEVANT_HEADER" /\ h.potential = {})

\* With IInv, inductive for mail that is well formed and whose headers are well named.
NamesInv ==
    /\ AllNamed(hp)
    /\ task = "PARSING_HEADERS" => Told(status, hp)

\* The parser has gone on with what it was reading.
SameNames(h, g) ==
    /\ g.potential = h.potential
    /\ \A n \in Names : \/ g.relevantHeaders[n] = h.relevantHeaders[n]
                        \/ g.relevantHeaders[n] # NoHeader /\ g.relevantHeaders[n].name = h.relevantHeaders[n].name
                           /\ h.relevantHeaders[n].name # <<>>

LEMMA SameNamesNamed ==
    ASSUME NEW h, NEW g, SameNames(h, g), AllNamed(h)
    PROVE  AllNamed(g)
BY DEF SameNames, AllNamed, KeptIsNamed, NoHeader

LEMMA InBodySameNames ==
    ASSUME NEW h, IsParser(h), NEW n \in Names, NEW c \in Letter, h.relevantHeaders[n].name # <<>>
    PROVE  SameNames(h, InBody(h, n, c))
BY InBodyIs DEF SameNames

\* A header that is known has a name.
LEMMA KnownFirst ==
    ASSUME NEW h, IsParser(h), IsParser(hp), h.potential = hp.potential, Known(h)
    PROVE  MatchesFound \in Names /\ MatchesFound \in h.potential /\ h.relevantHeaders[MatchesFound].name # <<>>
BY MatchesFoundIs DEF Known, IsParser

LEMMA KeptIs ==
    ASSUME NEW h, IsParser(h), IsParser(hp), h.potential = hp.potential, NEW c \in Letter,
           h.lastTaskStatus \in Bodies => Known(h)
    PROVE  /\ SameNames(h, Kept(h, c)) /\ Kept(h, c).lastTaskStatus = h.lastTaskStatus
           /\ h.lastTaskStatus \in Bodies => Kept(h, c) = InBody(h, MatchesFound, c)
           /\ h.lastTaskStatus \notin Bodies => Kept(h, c) = InBuffer(h, c)
<1>1. CASE h.lastTaskStatus \in Bodies
    <2>1. MatchesFound \in Names /\ h.relevantHeaders[MatchesFound].name # <<>>
        BY <1>1, KnownFirst
    <2>2. Kept(h, c) = InBody(h, MatchesFound, c)
        BY <1>1 DEF Kept, Bodies
    <2> QED
        BY <1>1, <2>1, <2>2, InBodyIs, InBodySameNames
<1>2. CASE h.lastTaskStatus \notin Bodies
    <2>1. Kept(h, c) = InBuffer(h, c)
        BY <1>2 DEF Kept, Bodies
    <2> QED
        BY <1>2, <2>1, InBufferIs DEF SameNames
<1> QED
    BY <1>1, <1>2

\* A name that has ended, and is possible to the last, is that of the first possible one.
LEMMA FinishedIsFirst ==
    ASSUME IsParser(hp), Possible(hp), NEW n \in hp.potential, NEW m \in hp.potential,
           cmp(RELEVANT_HEADERS[n], Len(hp.hbuf), "NUL")
    PROVE  n = m /\ Spelled(Append(hp.hbuf, ":"), Append(RELEVANT_HEADERS[n], ":"))
<1> DEFINE b == hp.hbuf
           N == RELEVANT_HEADERS[n]
           M == RELEVANT_HEADERS[m]
<1>1. n \in Names /\ m \in Names /\ b \in Seq(Letter) /\ Len(b) \in Nat
    BY DEF IsParser
<1>2. N \in Texts /\ M \in Texts /\ Len(N) \in Nat /\ Len(M) \in Nat
    <2>1. N \in Seq(Chars) /\ M \in Seq(Chars)
        BY <1>1, MimeTextAssumption DEF Chars
    <2>2. Seq(Chars) \subseteq Texts
        BY DEF Texts, Letter
    <2> QED
        BY <2>1, <2>2
<1>3. \A k \in 1 .. Len(b) : cmp(N, k - 1, b[k]) /\ cmp(M, k - 1, b[k]) /\ b[k] \in Letter
    BY <1>1 DEF Possible
<1> HIDE DEF b, N, M
<1>4. ASSUME NEW t \in Texts, Len(t) \in Nat, NEW k \in 1 .. Len(b), cmp(t, k - 1, b[k])
      PROVE  k <= Len(t) /\ Lower(b[k]) = Lower(t[k])
    <2>1. k - 1 <= Len(t) /\ Lower(b[k]) = Lower(At(t, k - 1)) /\ Lower(b[k]) # Lower("NUL")
        BY <1>3, <1>4, NoCharEnds DEF cmp
    <2>2. k - 1 < Len(t)
        BY <2>1 DEF At
    <2>3. At(t, k - 1) = t[k] /\ k <= Len(t)
        BY <1>1, <1>4, <2>2 DEF At
    <2> QED
        BY <2>1, <2>3
<1>5. Len(b) = Len(N)
    <2>1. Len(b) <= Len(N) /\ Lower("NUL") = Lower(At(N, Len(b)))
        BY DEF cmp, N, b
    <2>2. SUFFICES ASSUME Len(b) < Len(N) PROVE FALSE
        BY <1>1, <1>2, <2>1
    <2>3. At(N, Len(b)) = N[Len(b) + 1] /\ N[Len(b) + 1] \in Letter
        BY <1>1, <1>2, <2>2 DEF At, Texts
    <2> QED
        BY <2>1, <2>3, NoCharEnds
<1>6. \A k \in 1 .. Len(b) : Lower(b[k]) = Lower(N[k]) /\ Lower(b[k]) = Lower(M[k]) /\ k <= Len(M)
    BY <1>2, <1>3, <1>4
<1>7. Len(N) <= Len(M)
    <2>1. CASE Len(b) = 0
        BY <1>2, <1>5, <2>1
    <2>2. CASE Len(b) # 0
        <3>1. Len(b) \in 1 .. Len(b)
            BY <1>1, <2>2
        <3> QED
            BY <1>5, <1>6, <3>1
    <2> QED
        BY <2>1, <2>2
<1>8. \A k \in DOMAIN N : Lower(N[k]) = Lower(M[k])
    <2>1. DOMAIN N = 1 .. Len(b)
        BY <1>2, <1>5 DEF Texts
    <2> QED
        BY <1>6, <2>1
<1>9. n = m
    BY <1>1, <1>7, <1>8, MimeTextAssumption DEF N, M
<1>10. Spelled(Append(b, ":"), Append(N, ":"))
    <2> DEFINE B == Append(b, ":")
               R == Append(N, ":")
               L == Len(b)
    <2>1. /\ Len(B) = L + 1 /\ B[L + 1] = ":" /\ \A k \in 1 .. L : B[k] = b[k]
          /\ Len(R) = L + 1 /\ R[L + 1] = ":" /\ \A k \in 1 .. L : R[k] = N[k]
        BY <1>1, <1>2, <1>5 DEF Texts
    <2>2. L \in Nat /\ \A k \in 1 .. L : Lower(b[k]) = Lower(N[k])
        BY <1>1, <1>6
    <2> HIDE DEF B, R, L
    <2>3. \A k \in 1 .. L + 1 : Lower(B[k]) = Lower(R[k])
        <3> SUFFICES ASSUME NEW k \in 1 .. L + 1 PROVE Lower(B[k]) = Lower(R[k])
            OBVIOUS
        <3>1. k \in 1 .. L \/ k = L + 1
            BY <2>2
        <3> QED
            BY <2>1, <2>2, <3>1
    <2> QED
        BY <2>1, <2>3 DEF Spelled, B, R
<1> QED
    BY <1>9, <1>10 DEF b, N

LEMMA NewLineNames ==
    ASSUME Reading(status, hp), AllNamed(hp), Told(status, hp), NEW c \in Chars, NewLine(c),
           hp.hbuf = <<>> => c # "SP", task = "PARSING_HEADERS"
    PROVE  AllNamed(hp') /\ (task' = "PARSING_HEADERS" => Told(status', hp'))
<1>0. IsParser(hp) /\ c \in Letter /\ status = "NEW_LINE"
    BY DEF Reading, Letter, NewLine, EndHeaders, Folded, BeginHeader
<1>1. CASE c = "CR" /\ UNCHANGED <<task, status, level, header, out>>
    BY <1>1 DEF header
<1>2. CASE EndHeaders(c)
    <2>1. CASE ResetHeaderParser
        <3>1. hp' = ResetHp(hp) /\ status' = "NEW_LINE"
            BY <1>0, <1>2, <2>1 DEF ResetHeaderParser, EndHeaders
        <3>2. hp'.hbuf = <<>> /\ \A n \in Names : hp'.relevantHeaders[n] = NoHeader
            BY <1>0, <3>1, ResetHpIs
        <3> QED
            BY <3>1, <3>2 DEF AllNamed, KeptIsNamed, Told, OnType
    <2>2. CASE hp' = [hp EXCEPT !.hbuf = IF LastHeader = <<>> THEN @ ELSE <<>>] /\ task' = "DONE_PARSING_HEADERS"
        <3>1. hp'.relevantHeaders = hp.relevantHeaders
            BY <1>0, <2>2 DEF IsParser, Fields
        <3> QED
            BY <2>2, <3>1 DEF AllNamed
    <2> QED
        BY <1>2, <2>1, <2>2 DEF EndHeaders
<1>3. CASE Folded(c)
    <2>1. hp.hbuf # <<>> /\ c = "SP" /\ status' = hp.lastTaskStatus /\ hp' = Kept(hp, c)
        BY <1>3 DEF Folded
    <2>2. hp.lastTaskStatus \in Bodies => Known(hp)
        BY <1>0, <2>1 DEF Reading
    <2>3. SameNames(hp, hp') /\ hp'.potential = hp.potential
        BY <1>0, <2>1, <2>2, KeptIs DEF SameNames
    <2>4. AllNamed(hp')
        BY <2>3, SameNamesNamed
    <2>5. hp.lastTaskStatus \in Bodies \/ (hp.lastTaskStatus = "IRRELEVANT_HEADER" /\ hp.potential = {})
        BY <1>0, <2>1 DEF Told
    <2>6. hp.lastTaskStatus = "CONTENT_TYPE_BODY" => CONTENT_TYPE \in hp.potential
        BY <1>0, <2>1 DEF Told, OnType
    <2> QED
        BY <2>1, <2>3, <2>4, <2>5, <2>6 DEF Told, OnType, Bodies
<1>4. CASE BeginHeader(c)
    <2> DEFINE names == StillRelevant(Names, 0, c)
    <2>1. /\ hp' = [hp EXCEPT !.hbuf = <<c>>, !.potential = names]
          /\ status' = IF names = {} THEN "IRRELEVANT_HEADER" ELSE "RELEVANT_HEADER_NAME"
        BY <1>4 DEF BeginHeader
    <2>2. \A n \in names : cmp(RELEVANT_HEADERS[n], 0, c)
        BY DEF StillRelevant
    <2> HIDE DEF names
    <2>3. hp'.relevantHeaders = hp.relevantHeaders /\ hp'.potential = names /\ hp'.hbuf = <<c>>
        BY <1>0, <2>1 DEF IsParser, Fields
    <2>4. Possible(hp')
        <3>1. Len(<<c>>) = 1 /\ <<c>>[1] = c /\ \A k \in 1 .. 1 : k = 1 /\ k - 1 = 0
            OBVIOUS
        <3> QED
            BY <2>2, <2>3, <3>1 DEF Possible
    <2> QED
        BY <2>1, <2>3, <2>4 DEF AllNamed, Told, OnType
<1> QED
    BY <1>1, <1>2, <1>3, <1>4 DEF NewLine

LEMMA CrHeaderNames ==
    ASSUME Reading(status, hp), AllNamed(hp), Told(status, hp), NEW c \in Chars, CrHeader(c), c = "LF"
    PROVE  AllNamed(hp') /\ Told(status', hp')
<1>1. IsParser(hp) /\ c \in Letter /\ (hp.lastTaskStatus \in Bodies => Known(hp)) /\ status = "CR_HEADER"
    BY DEF Reading, Letter, CrHeader
<1>2. hp' = Kept(hp, c) /\ status' = "NEW_LINE"
    BY DEF CrHeader
<1>3. SameNames(hp, hp') /\ hp'.potential = hp.potential /\ hp'.lastTaskStatus = hp.lastTaskStatus
    BY <1>1, <1>2, KeptIs DEF SameNames
<1>4. AllNamed(hp')
    BY <1>3, SameNamesNamed
<1> QED
    BY <1>1, <1>2, <1>3, <1>4 DEF Told, OnType

LEMMA RelevantHeaderNameNames ==
    ASSUME Reading(status, hp), AllNamed(hp), Told(status, hp), NEW c \in Chars, RelevantHeaderName(c),
           c # "CR",
           c \in {":", "SP", "LF"} => \E n \in hp.potential : cmp(RELEVANT_HEADERS[n], Len(hp.hbuf), "NUL")
    PROVE  AllNamed(hp') /\ Told(status', hp')
<1>0. IsParser(hp) /\ c \in Letter /\ status = "RELEVANT_HEADER_NAME" /\ Possible(hp)
    BY DEF Reading, Letter, RelevantHeaderName, Told
<1>1. CASE EndOfName(c)
    <2> DEFINE m    == MatchesFound
               name == Append(hp.hbuf, ":")
    <2>1. PICK n \in hp.potential : cmp(RELEVANT_HEADERS[n], Len(hp.hbuf), "NUL")
        BY <1>1 DEF EndOfName
    <2>2. /\ hp' = [hp EXCEPT !.relevantHeaders[m] = [name |-> name, body |-> <<>>]]
          /\ status' = IF m = CONTENT_TYPE THEN "CONTENT_TYPE_BODY" ELSE "HEADER_BODY"
        BY <1>1, <2>1 DEF EndOfName
    <2>3. m \in hp.potential /\ m \in Names
        BY <1>0, <2>1, MatchesFoundIs DEF IsParser
    <2>4. Spelled(name, Append(RELEVANT_HEADERS[m], ":"))
        BY <1>0, <2>1, <2>3, FinishedIsFirst
    <2>5. name # <<>>
        <3>1. hp.hbuf \in Seq(Letter) /\ ":" \in Letter
            BY <1>0 DEF IsParser, Letter
        <3> QED
            BY ONLY <3>1, AppendProperties
    <2> HIDE DEF name, m
    <2>6. /\ hp'.potential = hp.potential /\ hp'.relevantHeaders[m] = [name |-> name, body |-> <<>>]
          /\ \A k \in Names \ {m} : hp'.relevantHeaders[k] = hp.relevantHeaders[k]
        BY <1>0, <2>2, <2>3 DEF IsParser, Fields
    <2>7. AllNamed(hp')
        BY <2>4, <2>5, <2>6 DEF AllNamed, KeptIsNamed
    <2> QED
        BY <2>2, <2>3, <2>6, <2>7 DEF Told, OnType, CONTENT_TYPE
<1>2. CASE NameGoesOn(c)
    <2> DEFINE names == StillRelevant(hp.potential, Len(hp.hbuf), c)
    <2>1. /\ hp' = [InBuffer(hp, c) EXCEPT !.potential = names]
          /\ status' = IF names = {} THEN "IRRELEVANT_HEADER" ELSE status
        BY <1>2 DEF NameGoesOn
    <2>2. names \subseteq hp.potential /\ \A n \in names : cmp(RELEVANT_HEADERS[n], Len(hp.hbuf), c)
        BY DEF StillRelevant
    <2> HIDE DEF names
    <2>3. hp'.relevantHeaders = hp.relevantHeaders /\ hp'.potential = names /\ hp'.hbuf = Append(hp.hbuf, c)
        BY <1>0, <2>1 DEF IsParser, Fields, InBuffer
    <2>4. Possible(hp')
        <3> DEFINE L == Len(hp.hbuf)
                   b == hp.hbuf
        <3>1. /\ Len(hp'.hbuf) = L + 1 /\ hp'.hbuf[L + 1] = c /\ \A k \in 1 .. L : hp'.hbuf[k] = b[k]
              /\ L \in Nat
            <4>1. hp.hbuf \in Seq(Letter)
                BY <1>0 DEF IsParser
            <4> QED
                BY <1>0, <2>3, <4>1
        <3>2. \A n \in names : \A k \in 1 .. L : cmp(RELEVANT_HEADERS[n], k - 1, b[k])
            BY <1>0, <2>2 DEF Possible
        <3>3. \A n \in names : cmp(RELEVANT_HEADERS[n], L, c)
            BY <2>2
        <3> HIDE DEF L, b
        <3>4. ASSUME NEW n \in names, NEW k \in 1 .. L + 1 PROVE cmp(RELEVANT_HEADERS[n], k - 1, hp'.hbuf[k])
            <4>1. k \in 1 .. L \/ (k = L + 1 /\ k - 1 = L)
                BY <3>1
            <4> QED
                BY <3>1, <3>2, <3>3, <4>1
        <3> QED
            BY <2>3, <3>1, <3>4 DEF Possible
    <2> QED
        BY <1>0, <2>1, <2>3, <2>4 DEF AllNamed, Told, OnType
<1> QED
    BY <1>1, <1>2 DEF RelevantHeaderName

LEMMA TakenAsItIsNames ==
    ASSUME Reading(status, hp), AllNamed(hp), Told(status, hp), NEW c \in Chars, TakenAsItIs(c)
    PROVE  AllNamed(hp') /\ Told(status', hp')
<1> DEFINE h == [hp EXCEPT !.lastTaskStatus = status]
<1>0. /\ IsParser(hp) /\ c \in Letter /\ status \in {"IRRELEVANT_HEADER", "HEADER_BODY"}
      /\ status = "HEADER_BODY" => Known(hp)
      /\ status = "IRRELEVANT_HEADER" => hp.potential = {}
    BY DEF Reading, Letter, TakenAsItIs, Bodies, Told
<1>1. hp' = Kept(h, c) /\ status' = IF c = "CR" THEN "CR_HEADER" ELSE status
    BY DEF TakenAsItIs
<1>2. /\ IsParser(h) /\ h.potential = hp.potential /\ h.lastTaskStatus = status
      /\ h.relevantHeaders = hp.relevantHeaders /\ (Known(hp) => Known(h))
    BY <1>0 DEF IsParser, Fields, HeaderStatuses, Known, Bodies
<1>3. AllNamed(h)
    BY <1>2 DEF AllNamed
<1> HIDE DEF h
<1>4. SameNames(h, hp') /\ hp'.potential = hp.potential /\ hp'.lastTaskStatus = status
    BY <1>0, <1>1, <1>2, KeptIs DEF SameNames, Bodies
<1>5. AllNamed(hp')
    BY <1>3, <1>4, SameNamesNamed
<1> QED
    BY <1>0, <1>1, <1>4, <1>5 DEF Told, OnType, Bodies

\* What a character of the body of a Content-Type does to its header parser.
LEMMA ParamsHeader ==
    ASSUME IsParser(hp), NEW c \in Letter, parseHeaderParams(c)
    PROVE  /\ hp'.potential = hp.potential /\ hp'.hbuf = hp.hbuf /\ hp'.lastTaskStatus = "CONTENT_TYPE_BODY"
           /\ \/ hp'.relevantHeaders = hp.relevantHeaders
              \/ hp'.relevantHeaders = InBody(ContentType, CONTENT_TYPE, c).relevantHeaders
           /\ status' \in {"CR_HEADER", "HEADER_BODY", "CONTENT_TYPE_BODY"}
           /\ status = "CONTENT_TYPE_BODY"
<1> DEFINE g == InBody(ContentType, CONTENT_TYPE, c)
<1>1. /\ IsParser(ContentType) /\ ContentType.potential = hp.potential /\ ContentType.hbuf = hp.hbuf
      /\ ContentType.lastTaskStatus = "CONTENT_TYPE_BODY" /\ ContentType.relevantHeaders = hp.relevantHeaders
    BY DEF ContentType, IsParser, Fields, HeaderStatuses, Bodies
<1>2. CONTENT_TYPE \in Names
    BY MimeHeadersAssumption
<1>3. /\ DOMAIN g = Fields /\ g.potential = hp.potential /\ g.hbuf = hp.hbuf
      /\ g.lastTaskStatus = "CONTENT_TYPE_BODY"
    BY <1>1, <1>2, InBodyIs
<1>4. status = "CONTENT_TYPE_BODY" /\ status' \in {"CR_HEADER", "HEADER_BODY", "CONTENT_TYPE_BODY"}
    BY DEF parseHeaderParams, TypeEnds, TypeGoesOn, TypeSkips, Separator, InComment, BoundaryValue
<1>5. \/ hp' = ContentType \/ hp' = g
      \/ \E x : hp' = [g EXCEPT !.isRfc822Mime = x]
      \/ \E x : hp' = [g EXCEPT !.nextBoundary = x]
    <2>1. CASE TypeEnds(c)
        BY <2>1 DEF TypeEnds
    <2>2. CASE TypeGoesOn(c) \/ TypeSkips(c) \/ Separator(c) \/ InComment(c)
        BY <2>2 DEF TypeGoesOn, TypeSkips, Separator, InComment, Taken, Dropped
    <2>3. CASE BoundaryValue(c)
        BY <2>3 DEF BoundaryValue, Taken, Dropped
    <2> QED
        BY <2>1, <2>2, <2>3 DEF parseHeaderParams
<1> HIDE DEF g
<1> QED
    BY <1>1, <1>3, <1>4, <1>5 DEF Fields, g

\* The header that is read as a Content-Type is one.
LEMMA OnTypeKnown ==
    ASSUME IsParser(hp), Known(hp), CONTENT_TYPE \in hp.potential
    PROVE  MatchesFound = CONTENT_TYPE /\ hp.relevantHeaders[CONTENT_TYPE].name # <<>>
<1>1. /\ MatchesFound \in Names /\ MatchesFound <= CONTENT_TYPE
      /\ hp.relevantHeaders[MatchesFound].name # <<>>
    BY KnownFirst, MatchesFoundIs DEF Known
<1>2. MatchesFound = CONTENT_TYPE
    BY <1>1, NamesAreNumbers DEF CONTENT_TYPE
<1> QED
    BY <1>1, <1>2

LEMMA ParamsNames ==
    ASSUME Reading(status, hp), AllNamed(hp), Told(status, hp), NEW c \in Chars, parseHeaderParams(c)
    PROVE  AllNamed(hp') /\ Told(status', hp')
<1>0. IsParser(hp) /\ c \in Letter /\ status = "CONTENT_TYPE_BODY" /\ Known(hp) /\ CONTENT_TYPE \in hp.potential
    BY DEF Reading, Letter, parseHeaderParams, Bodies, Told, OnType
<1>1. /\ hp'.potential = hp.potential /\ hp'.lastTaskStatus = "CONTENT_TYPE_BODY"
      /\ \/ hp'.relevantHeaders = hp.relevantHeaders
         \/ hp'.relevantHeaders = InBody(ContentType, CONTENT_TYPE, c).relevantHeaders
      /\ status' \in {"CR_HEADER", "HEADER_BODY", "CONTENT_TYPE_BODY"}
    BY <1>0, ParamsHeader
<1>2. IsParser(ContentType) /\ ContentType.relevantHeaders = hp.relevantHeaders
    BY <1>0 DEF ContentType, IsParser, Fields, HeaderStatuses, Bodies
<1>3. SameNames(ContentType, InBody(ContentType, CONTENT_TYPE, c))
    <2>1. CONTENT_TYPE \in Names /\ ContentType.relevantHeaders[CONTENT_TYPE].name # <<>>
        BY <1>0, <1>2, OnTypeKnown, MimeHeadersAssumption
    <2> QED
        BY <1>0, <1>2, <2>1, InBodySameNames
<1>4. AllNamed(InBody(ContentType, CONTENT_TYPE, c))
    <2>1. AllNamed(ContentType)
        BY <1>2 DEF AllNamed
    <2> QED
        BY <1>3, <2>1, SameNamesNamed
<1>5. AllNamed(hp')
    BY <1>1, <1>4 DEF AllNamed
<1> QED
    BY <1>0, <1>1, <1>5 DEF Told, OnType, Bodies

LEMMA HeaderNames ==
    ASSUME Reading(status, hp), AllNamed(hp), Told(status, hp), task = "PARSING_HEADERS",
           NEW c \in Chars, parseHeader(c),
           status = "CR_HEADER" => c = "LF", status = "NEW_LINE" /\ hp.hbuf = <<>> => c # "SP",
           status = "RELEVANT_HEADER_NAME" =>
              /\ c # "CR"
              /\ c \in {":", "SP", "LF"} => \E n \in hp.potential : cmp(RELEVANT_HEADERS[n], Len(hp.hbuf), "NUL")
    PROVE  AllNamed(hp') /\ (task' = "PARSING_HEADERS" => Told(status', hp'))
<1>1. CASE NewLine(c)
    <2>1. hp.hbuf = <<>> => c # "SP"
        BY <1>1 DEF NewLine, EndHeaders, Folded, BeginHeader
    <2> QED
        BY <1>1, <2>1, NewLineNames
<1>2. CASE CrHeader(c)
    BY <1>2, CrHeaderNames DEF CrHeader
<1>3. CASE RelevantHeaderName(c)
    BY <1>3, RelevantHeaderNameNames DEF RelevantHeaderName
<1>4. CASE TakenAsItIs(c)
    BY <1>4, TakenAsItIsNames
<1>5. CASE parseHeaderParams(c)
    BY <1>5, ParamsNames
<1> QED
    BY <1>1, <1>2, <1>3, <1>4, <1>5 DEF parseHeader

\* Nothing has been kept, and nothing is being read.
LEMMA FreshNames ==
    ASSUME NEW h, h.hbuf = <<>>, \A n \in Names : h.relevantHeaders[n] = NoHeader
    PROVE  AllNamed(h) /\ Told("NEW_LINE", h)
BY DEF AllNamed, KeptIsNamed, Told, OnType

LEMMA NamesInvInit == Init => NamesInv
<1> SUFFICES ASSUME Init PROVE NamesInv
    OBVIOUS
<1>1. /\ hp = ResetHp([relevantHeaders |-> <<>>, potential |-> {}, isRfc822Mime |-> FALSE,
                       hbuf |-> <<>>, nextBoundary |-> <<>>, lastTaskStatus |-> "NEW_LINE"])
      /\ task = "PARSING_POP3"
    BY DEF Init, InitHeaderParser
<1>2. hp.hbuf = <<>> /\ \A n \in Names : hp.relevantHeaders[n] = NoHeader
    BY <1>1 DEF ResetHp
<1> QED
    BY <1>1, <1>2, FreshNames DEF NamesInv

LEMMA NamesInvStep == IInv /\ WellFormed /\ WellNamed /\ NamesInv /\ [Next]_vars => NamesInv'
<1> SUFFICES ASSUME IInv, WellFormed, WellNamed, NamesInv, [Next]_vars PROVE NamesInv'
    OBVIOUS
<1>1. CASE UNCHANGED <<task, status, hp>>
    BY <1>1 DEF NamesInv
<1>2. CASE Flush \/ FeedMoreBytes \/ EndOfInput \/ ConsumeRemainingBytes \/ UNCHANGED vars
    <2>1. UNCHANGED <<task, status, hp>>
        BY <1>2 DEF Flush, FeedMoreBytes, EndOfInput, ConsumeRemainingBytes, vars, header
    <2> QED
        BY <1>1, <2>1
<1>3. CASE Header
    <2> DEFINE c == buf[i + 1]
    <2>1. c \in Chars /\ task = "PARSING_HEADERS" /\ parseHeader(c)
        BY <1>3 DEF IInv, Buffers, Header
    <2>2. /\ status = "CR_HEADER" => c = "LF"
          /\ status = "NEW_LINE" /\ hp.hbuf = <<>> => c # "SP"
          /\ status = "RELEVANT_HEADER_NAME" =>
                /\ c # "CR"
                /\ c \in {":", "SP", "LF"} => \E n \in hp.potential : cmp(RELEVANT_HEADERS[n], Len(hp.hbuf), "NUL")
        BY <1>3 DEF Header, WellFormed, WellNamed
    <2> HIDE DEF c
    <2>3. Reading(status, hp) /\ AllNamed(hp) /\ Told(status, hp)
        BY <2>1 DEF IInv, NamesInv
    <2> QED
        BY <2>1, <2>2, <2>3, HeaderNames DEF NamesInv
<1>4. CASE Pop3
    <2>1. UNCHANGED hp /\ task = "PARSING_POP3" /\ (task' = task \/ status' = "NEW_LINE")
        BY <1>4 DEF Pop3, header
    <2>2. hp.hbuf = <<>>
        BY <2>1 DEF IInv
    <2> QED
        BY <2>1, <2>2 DEF NamesInv, Told, OnType
<1>5. CASE BeginBody \/ EndOfPart
    <2>1. hp' = ResetHp(hp) /\ (task' = "PARSING_HEADERS" => status' = "NEW_LINE")
        BY <1>5 DEF BeginBody, EndOfPart, ResetHeaderParser, ParseBody, PopCheck
    <2>2. hp'.hbuf = <<>> /\ \A n \in Names : hp'.relevantHeaders[n] = NoHeader
        BY <2>1, ResetHpIs DEF IInv
    <2> QED
        BY <2>1, <2>2, FreshNames DEF NamesInv
<1>6. CASE Body
    <2>1. UNCHANGED hp /\ task' # "PARSING_HEADERS"
        BY <1>6 DEF Body, header, ParseBody, PopCheck
    <2> QED
        BY <2>1 DEF NamesInv
<1> QED
    BY <1>2, <1>3, <1>4, <1>5, <1>6 DEF Next

LEMMA NamesInvHolds == Spec /\ []WellFormed /\ []WellNamed => [](IInv /\ NamesInv)
<1> QED
    BY IInvInit, IInvStep, NamesInvInit, NamesInvStep, PTL DEF Spec

LEMMA NamesInvKeeps == IInv /\ NamesInv => NoLineIsLost /\ KeptUnderItsName
<1> SUFFICES ASSUME IInv, NamesInv PROVE NoLineIsLost /\ KeptUnderItsName
    OBVIOUS
<1>1. KeptUnderItsName
    BY DEF NamesInv, AllNamed, KeptIsNamed, KeptUnderItsName
<1>2. ASSUME task = "PARSING_HEADERS", status = "NEW_LINE", hp.hbuf # <<>>
      PROVE  IF hp.lastTaskStatus \in {"HEADER_BODY", "CONTENT_TYPE_BODY"}
                THEN hp.potential # {} /\ hp.relevantHeaders[MatchesFound] # NoHeader
                ELSE hp.potential = {}
    <2>1. Told(status, hp) /\ Reading(status, hp) /\ IsParser(hp)
        BY <1>2 DEF NamesInv, IInv
    <2>2. CASE hp.lastTaskStatus \in Bodies
        <3>1. Known(hp)
            BY <1>2, <2>1, <2>2 DEF Reading
        <3>2. hp.relevantHeaders[MatchesFound].name # <<>>
            BY <2>1, <3>1, KnownFirst
        <3> QED
            BY <2>2, <3>1, <3>2 DEF Known, NoHeader, Bodies
    <2>3. CASE hp.lastTaskStatus \notin Bodies
        BY <1>2, <2>1, <2>3 DEF Told, Bodies
    <2> QED
        BY <2>2, <2>3
<1> QED
    BY <1>1, <1>2 DEF NoLineIsLost

\* Of every well-formed mail whose headers are well named, however it is cut into reads: no
\* line of the headers is lost between those that are taken down and those that are written
\* as they are, folded lines included (stripmime.c:296-364).
THEOREM NoLineIsLostHolds == Spec /\ []WellFormed /\ []WellNamed => []NoLineIsLost
<1> QED
    BY NamesInvHolds, NamesInvKeeps, PTL

\* Of every well-formed mail whose headers are well named: what is taken down is kept in the
\* place of its own name, though the code takes any name that has ended for a reason to take
\* the first one that is possible (stripmime.c:370-388).
THEOREM KeptUnderItsNameHolds == Spec /\ []WellFormed /\ []WellNamed => []KeptUnderItsName
<1> QED
    BY NamesInvHolds, NamesInvKeeps, PTL

-----------------------------------------------------------------------------
(* The media type.                                                         *)

TypeBody(h) == h.relevantHeaders[CONTENT_TYPE].body

\* Nothing has been read of a type.
Fresh(p) == p.mimes = DOMAIN censoredMimes /\ p.multipart = TRUE /\ p.rfc822 = TRUE /\ p.wspAndNewLines = 0

\* It is the type that is being read, or a comment in it.
InMime(p) == p.status = "MIME" \/ (p.status = "COMMENT" /\ p.previous = "MIME")

\* The patterns that are still possible are those that what has been read may become like.
Narrowed(type, p) ==
    /\ p.mimes = {k \in DOMAIN censoredMimes : MayBeLike(type, censoredMimes[k])}
    /\ p.multipart <=> MayBeLike(type, MULTIPART)
    /\ p.rfc822 <=> MayBeLike(type, RFC822)

\* The folds have been counted, the one that is being read already with both its characters.
Counted(st, text, p) ==
    Len(WithoutFolds(text)) = Len(text) - p.wspAndNewLines + (IF st = "CR_HEADER" THEN 1 ELSE 0)

Noted(st, h, p) ==
    /\ p.wspAndNewLines \in Int
    /\ h.relevantHeaders[CONTENT_TYPE] = NoHeader => Fresh(p)
    /\ OnType(st, h) /\ InMime(p) /\ ~Contains(TypeBody(h), ";") =>
          Counted(st, TypeBody(h), p) /\ Narrowed(WithoutFolds(TypeBody(h)), p)

\* With IInv and NamesInv, inductive for mail that is well formed and whose headers are well named.
TypeInv == task \in {"PARSING_POP3", "PARSING_HEADERS"} => Noted(status, hp, ctp)

LEMMA TypeBodyIs ==
    ASSUME NEW h, IsParser(h)
    PROVE  CONTENT_TYPE \in Names /\ TypeBody(h) \in Texts /\ Len(TypeBody(h)) \in Nat
BY MimeHeadersAssumption DEF IsParser, TypeBody, Texts

LEMMA LengthIs == ASSUME NEW text \in Texts PROVE Len(text) \in Int
BY DEF Texts

LEMMA OneMore ==
    ASSUME NEW text \in Texts, NEW c \in Letter, NEW more, more = Append(text, c)
    PROVE  /\ more \in Texts /\ Len(more) = Len(text) + 1
           /\ Contains(more, ";") <=> Contains(text, ";") \/ c = ";"
<1> DEFINE L    == Len(text)
<1>1. /\ more \in Texts /\ L \in Nat /\ Len(more) = L + 1 /\ more[L + 1] = c
      /\ \A k \in 1 .. L : more[k] = text[k]
    BY DEF Texts
<1>2. Contains(more, ";") <=> \E k \in 1 .. L + 1 : more[k] = ";"
    BY <1>1 DEF Contains
<1>3. Contains(text, ";") <=> \E k \in 1 .. L : text[k] = ";"
    BY DEF Contains
<1> HIDE DEF L
<1>4. 1 .. L + 1 = (1 .. L) \cup {L + 1}
    BY <1>1
<1>5. (\E k \in 1 .. L + 1 : more[k] = ";") <=> (\E k \in 1 .. L : text[k] = ";") \/ c = ";"
    BY <1>1, <1>4
<1> QED
    BY <1>1, <1>2, <1>3, <1>5 DEF L

SamePatterns(p, q) == q.mimes = p.mimes /\ q.multipart = p.multipart /\ q.rfc822 = p.rfc822

LEMMA CountsOn ==
    ASSUME NEW f \in Int, NEW n \in Int, NEW w \in Int, NEW v \in Int, NEW d \in Int, NEW e \in Int,
           f = n - w + d, v - w = 1 + e - d
    PROVE  f = n + 1 - v + e
OBVIOUS

\* A character of a fold is none of the type.
LEMMA FoldCounts ==
    ASSUME NEW h, NEW g, NEW p, NEW q, NEW st, NEW to, NEW c \in White, c \in Letter,
           IsParser(h), TypeBody(g) = Append(TypeBody(h), c),
           Noted(st, h, p), OnType(st, h), InMime(q) => InMime(p),
           SamePatterns(p, q),
           g.relevantHeaders[CONTENT_TYPE] # NoHeader,
           q.wspAndNewLines \in Int,
           q.wspAndNewLines - p.wspAndNewLines
             = 1 + (IF to = "CR_HEADER" THEN 1 ELSE 0) - (IF st = "CR_HEADER" THEN 1 ELSE 0)
    PROVE  Noted(to, g, q)
<1>1. PICK text : text = TypeBody(h)
    OBVIOUS
<1>2. PICK more : more = Append(text, c)
    OBVIOUS
<1>3. text \in Texts /\ TypeBody(g) = more
    BY <1>1, <1>2, TypeBodyIs
<1>4. /\ more \in Texts /\ Len(text) \in Int /\ Len(more) = Len(text) + 1
      /\ (Contains(more, ";") <=> Contains(text, ";") \/ c = ";")
    BY ONLY <1>2, <1>3, c \in Letter, OneMore, LengthIs
<1>5. WithoutFolds(more) = WithoutFolds(text)
    BY <1>2, <1>3, WithoutFoldsIs
<1>6. SUFFICES ASSUME InMime(q), ~Contains(more, ";")
               PROVE  Counted(to, more, q) /\ Narrowed(WithoutFolds(more), q)
    BY <1>3 DEF Noted
<1>7. Counted(st, text, p) /\ Narrowed(WithoutFolds(text), p) /\ p.wspAndNewLines \in Int
    BY <1>1, <1>4, <1>6 DEF Noted
<1>8. Narrowed(WithoutFolds(more), q)
    BY <1>5, <1>7 DEF Narrowed, SamePatterns
<1> DEFINE d == IF st = "CR_HEADER" THEN 1 ELSE 0
           e == IF to = "CR_HEADER" THEN 1 ELSE 0
<1>9. /\ d \in Int /\ e \in Int /\ Len(WithoutFolds(text)) \in Int
      /\ Len(WithoutFolds(text)) = Len(text) - p.wspAndNewLines + d
      /\ q.wspAndNewLines - p.wspAndNewLines = 1 + e - d
    <2>1. WithoutFolds(text) \in Texts
        BY <1>3, WithoutFoldsIs
    <2>2. Len(WithoutFolds(text)) \in Int
        BY <2>1, LengthIs
    <2> QED
        BY <1>7, <2>2 DEF Counted
<1>10. Counted(to, more, q) <=> Len(WithoutFolds(text)) = Len(more) - q.wspAndNewLines + e
    BY <1>5 DEF Counted
<1> HIDE DEF d, e
<1>11. PICK f, n, m, w, v : f = Len(WithoutFolds(text)) /\ n = Len(text) /\ m = Len(more)
            /\ w = p.wspAndNewLines /\ v = q.wspAndNewLines
    OBVIOUS
<1>12. f \in Int /\ n \in Int /\ w \in Int /\ v \in Int /\ f = n - w + d /\ v - w = 1 + e - d /\ m = n + 1
    BY ONLY <1>4, <1>7, <1>9, <1>11, q.wspAndNewLines \in Int
<1>13. f = m - v + e
    BY ONLY <1>9, <1>12, CountsOn
<1> QED
    BY ONLY <1>8, <1>10, <1>11, <1>13

\* What is read of something else.
LEMMA NotedElsewhere ==
    ASSUME NEW h, NEW g, NEW p, NEW q, NEW st, NEW to, Noted(st, h, p), ~OnType(to, g),
           g.relevantHeaders[CONTENT_TYPE] = NoHeader => h.relevantHeaders[CONTENT_TYPE] = NoHeader,
           SamePatterns(p, q), q.wspAndNewLines = p.wspAndNewLines
    PROVE  Noted(to, g, q)
BY DEF Noted, SamePatterns, Fresh

\* Nothing is taken down.
LEMMA NotedAsBefore ==
    ASSUME NEW h, NEW g, NEW p, NEW q, NEW st, Noted(st, h, p), OnType(st, h),
           g.relevantHeaders = h.relevantHeaders, SamePatterns(p, q), q.wspAndNewLines = p.wspAndNewLines,
           InMime(q) => InMime(p)
    PROVE  Noted(st, g, q)
BY DEF Noted, SamePatterns, Fresh, TypeBody, Counted, Narrowed

\* What is read of the parameters.
LEMMA NotedAfter ==
    ASSUME NEW g, NEW q, NEW to, g.relevantHeaders[CONTENT_TYPE] # NoHeader, q.wspAndNewLines \in Int,
           ~InMime(q) \/ Contains(TypeBody(g), ";")
    PROVE  Noted(to, g, q)
BY DEF Noted

LEMMA FreshNoted ==
    ASSUME NEW h, NEW p, h.hbuf = <<>>, Fresh(p)
    PROVE  Noted("NEW_LINE", h, p)
BY DEF Noted, OnType, Fresh

LEMMA ResetCtpIs ==
    ASSUME NEW p, IsTypeParser(p)
    PROVE  Fresh(ResetCtp(p))
BY DEF IsTypeParser, ResetCtp, CtpFields, Fresh

\* The content of the type header takes one character more.
LEMMA TypeBodyGoesOn ==
    ASSUME NEW h, IsParser(h), NEW c \in Letter, CONTENT_TYPE \in Names
    PROVE  LET g == InBody(h, CONTENT_TYPE, c) IN
           /\ DOMAIN g = Fields /\ g.isRfc822Mime = h.isRfc822Mime
           /\ g.relevantHeaders[CONTENT_TYPE].body = Append(h.relevantHeaders[CONTENT_TYPE].body, c)
           /\ g.relevantHeaders[CONTENT_TYPE] # NoHeader
<1> DEFINE g == InBody(h, CONTENT_TYPE, c)
<1>1. DOMAIN g = Fields
    BY ONLY IsParser(h), c \in Letter, CONTENT_TYPE \in Names, InBodyIs
<1>2. g.isRfc822Mime = h.isRfc822Mime
    BY ONLY IsParser(h), c \in Letter, CONTENT_TYPE \in Names, InBodyIs
<1>3. g.relevantHeaders[CONTENT_TYPE].body = Append(h.relevantHeaders[CONTENT_TYPE].body, c)
    BY ONLY IsParser(h), c \in Letter, CONTENT_TYPE \in Names, InBodyIs
<1>4. g.relevantHeaders[CONTENT_TYPE] # NoHeader
    BY ONLY IsParser(h), c \in Letter, CONTENT_TYPE \in Names, InBodyIs
<1> HIDE DEF g
<1>5. /\ DOMAIN g = Fields /\ g.isRfc822Mime = h.isRfc822Mime
      /\ g.relevantHeaders[CONTENT_TYPE].body = Append(h.relevantHeaders[CONTENT_TYPE].body, c)
      /\ g.relevantHeaders[CONTENT_TYPE] # NoHeader
    BY ONLY <1>1, <1>2, <1>3, <1>4, Zenon
<1> QED
    BY ONLY <1>5, Zenon DEF g

\* What is kept of a header that goes on.
LEMMA KeptBody ==
    ASSUME IsParser(hp), NEW h, IsParser(h), h.potential = hp.potential, NEW c \in Letter, Known(h),
           CONTENT_TYPE \in h.potential, h.lastTaskStatus \in Bodies
    PROVE  /\ TypeBody(Kept(h, c)) = Append(TypeBody(h), c)
           /\ Kept(h, c).relevantHeaders[CONTENT_TYPE] # NoHeader
<1>1. MatchesFound \in Names /\ MatchesFound <= CONTENT_TYPE
    <2>1. hp.potential # {}
        BY DEF Known
    <2> QED
        BY <2>1, MatchesFoundIs DEF IsParser
<1>2. MatchesFound = CONTENT_TYPE /\ CONTENT_TYPE \in Names
    BY <1>1, NamesAreNumbers DEF CONTENT_TYPE
<1>3. Kept(h, c) = InBody(h, CONTENT_TYPE, c)
    BY <1>2 DEF Kept, Bodies
<1> DEFINE g == Kept(h, c)
<1>4. /\ g.relevantHeaders[CONTENT_TYPE].body = Append(h.relevantHeaders[CONTENT_TYPE].body, c)
      /\ g.relevantHeaders[CONTENT_TYPE] # NoHeader
    BY ONLY <1>2, <1>3, IsParser(h), c \in Letter, TypeBodyGoesOn
<1> HIDE DEF g
<1>5. TypeBody(g) = Append(TypeBody(h), c) /\ g.relevantHeaders[CONTENT_TYPE] # NoHeader
    BY ONLY <1>4 DEF TypeBody
<1> QED
    BY ONLY <1>5 DEF g

LEMMA NewLineTypes ==
    ASSUME Reading(status, hp), Told(status, hp), IsTypeParser(ctp), Noted(status, hp, ctp),
           NEW c \in Chars, NewLine(c), hp.hbuf = <<>> => c # "SP"
    PROVE  task' = "PARSING_HEADERS" => Noted(status', hp', ctp')
<1>0. IsParser(hp) /\ c \in Letter /\ status = "NEW_LINE"
    BY DEF Reading, Letter, NewLine, EndHeaders, Folded, BeginHeader
<1>1. CASE c = "CR" /\ UNCHANGED <<task, status, level, header, out>>
    BY <1>1 DEF header
<1>2. CASE EndHeaders(c)
    <2>1. SUFFICES ASSUME ResetHeaderParser PROVE Noted(status', hp', ctp')
        BY <1>2 DEF EndHeaders
    <2>2. status' = "NEW_LINE" /\ hp' = ResetHp(hp) /\ ctp' = ResetCtp(ctp)
        BY <1>0, <1>2, <2>1 DEF ResetHeaderParser, EndHeaders
    <2>3. hp'.hbuf = <<>> /\ Fresh(ctp')
        BY <1>0, <2>2, ResetHpIs, ResetCtpIs
    <2> QED
        BY <2>2, <2>3, FreshNoted
<1>3. CASE Folded(c)
    <2>1. hp.hbuf # <<>> /\ c = "SP" /\ status' = hp.lastTaskStatus /\ hp' = Kept(hp, c)
        BY <1>3 DEF Folded
    <2>2. /\ SamePatterns(ctp, ctp') /\ ctp'.status = ctp.status /\ ctp'.previous = ctp.previous
          /\ ctp'.wspAndNewLines = IF hp.lastTaskStatus = "CONTENT_TYPE_BODY" THEN ctp.wspAndNewLines + 1
                                   ELSE ctp.wspAndNewLines
        BY <1>3 DEF Folded, IsTypeParser, CtpFields, SamePatterns
    <2>3. hp.lastTaskStatus \in Bodies => Known(hp)
        BY <1>0, <2>1 DEF Reading
    <2>4. CASE hp.lastTaskStatus = "CONTENT_TYPE_BODY"
        <3>1. OnType(status, hp) /\ CONTENT_TYPE \in hp.potential /\ Known(hp) /\ hp.lastTaskStatus \in Bodies
            BY <1>0, <2>1, <2>3, <2>4 DEF OnType, Told, Bodies
        <3>2. TypeBody(hp') = Append(TypeBody(hp), c) /\ hp'.relevantHeaders[CONTENT_TYPE] # NoHeader
            BY <1>0, <2>1, <3>1, KeptBody
        <3>3. ctp.wspAndNewLines \in Int
            BY DEF Noted
        <3>4. ctp'.wspAndNewLines \in Int /\ InMime(ctp') => InMime(ctp)
            BY <2>2, <2>4, <3>3 DEF InMime
        <3>5. ctp'.wspAndNewLines \in Int /\ ctp'.wspAndNewLines - ctp.wspAndNewLines
                = 1 + (IF "CONTENT_TYPE_BODY" = "CR_HEADER" THEN 1 ELSE 0) - (IF "NEW_LINE" = "CR_HEADER" THEN 1 ELSE 0)
            BY <2>2, <2>4, <3>3
        <3>6. c \in White /\ status = "NEW_LINE" /\ status' = "CONTENT_TYPE_BODY"
            BY <1>0, <2>1, <2>4 DEF White
        <3> QED
            BY <1>0, <2>2, <3>1, <3>2, <3>4, <3>5, <3>6, FoldCounts
    <2>5. CASE hp.lastTaskStatus # "CONTENT_TYPE_BODY"
        <3>1. SameNames(hp, hp')
            BY <1>0, <2>1, <2>3, KeptIs
        <3>2. hp'.relevantHeaders[CONTENT_TYPE] = NoHeader => hp.relevantHeaders[CONTENT_TYPE] = NoHeader
            BY <3>1, MimeHeadersAssumption DEF SameNames
        <3>3. ~OnType(status', hp')
            BY <1>0, <2>1, <2>5 DEF OnType, Told, Bodies
        <3> QED
            BY <2>2, <2>5, <3>2, <3>3, NotedElsewhere
    <2> QED
        BY <2>4, <2>5
<1>4. CASE BeginHeader(c)
    <2>1. hp'.relevantHeaders = hp.relevantHeaders /\ status' \in {"IRRELEVANT_HEADER", "RELEVANT_HEADER_NAME"}
          /\ ctp' = ctp
        BY <1>0, <1>4 DEF BeginHeader, IsParser, Fields
    <2> QED
        BY <2>1, NotedElsewhere DEF OnType, SamePatterns
<1> QED
    BY <1>1, <1>2, <1>3, <1>4 DEF NewLine

LEMMA CrHeaderTypes ==
    ASSUME Reading(status, hp), Told(status, hp), Noted(status, hp, ctp),
           NEW c \in Chars, CrHeader(c), c = "LF"
    PROVE  Noted(status', hp', ctp')
<1>1. /\ IsParser(hp) /\ c \in Letter /\ (hp.lastTaskStatus \in Bodies => Known(hp)) /\ status = "CR_HEADER"
      /\ ctp.wspAndNewLines \in Int
    BY DEF Reading, Letter, CrHeader, Noted
<1>2. hp' = Kept(hp, c) /\ status' = "NEW_LINE" /\ ctp' = ctp
    BY DEF CrHeader
<1>3. CASE hp.lastTaskStatus = "CONTENT_TYPE_BODY"
    <2>1. OnType(status, hp) /\ CONTENT_TYPE \in hp.potential /\ Known(hp) /\ hp.lastTaskStatus \in Bodies
        BY <1>1, <1>3 DEF OnType, Told, Bodies
    <2>2. TypeBody(hp') = Append(TypeBody(hp), c) /\ hp'.relevantHeaders[CONTENT_TYPE] # NoHeader
        BY <1>1, <1>2, <2>1, KeptBody
    <2>3. ctp.wspAndNewLines - ctp.wspAndNewLines
            = 1 + (IF "NEW_LINE" = "CR_HEADER" THEN 1 ELSE 0) - (IF "CR_HEADER" = "CR_HEADER" THEN 1 ELSE 0)
        BY <1>1
    <2>4. c \in White /\ SamePatterns(ctp, ctp)
        BY DEF White, SamePatterns
    <2> QED
        BY <1>1, <1>2, <2>1, <2>2, <2>3, <2>4, FoldCounts
<1>4. CASE hp.lastTaskStatus # "CONTENT_TYPE_BODY"
    <2>1. SameNames(hp, hp') /\ hp'.lastTaskStatus = hp.lastTaskStatus
        BY <1>1, <1>2, KeptIs
    <2>2. hp'.relevantHeaders[CONTENT_TYPE] = NoHeader => hp.relevantHeaders[CONTENT_TYPE] = NoHeader
        BY <2>1, MimeHeadersAssumption DEF SameNames
    <2> QED
        BY <1>2, <1>4, <2>1, <2>2, NotedElsewhere DEF OnType, SamePatterns
<1> QED
    BY <1>3, <1>4

LEMMA RelevantHeaderNameTypes ==
    ASSUME Reading(status, hp), IsTypeParser(ctp), Noted(status, hp, ctp),
           NEW c \in Chars, RelevantHeaderName(c), c # "CR",
           c \in {":", "SP", "LF"} =>
              /\ \E n \in hp.potential : cmp(RELEVANT_HEADERS[n], Len(hp.hbuf), "NUL")
              /\ MatchesFound = CONTENT_TYPE => hp.relevantHeaders[CONTENT_TYPE] = NoHeader
    PROVE  Noted(status', hp', ctp')
<1>0. IsParser(hp) /\ CONTENT_TYPE \in Names
    BY MimeHeadersAssumption DEF Reading
<1>1. CASE EndOfName(c)
    <2> DEFINE m    == MatchesFound
               name == Append(hp.hbuf, ":")
               kept == [name |-> name, body |-> <<>>]
    <2>1. PICK n \in hp.potential : cmp(RELEVANT_HEADERS[n], Len(hp.hbuf), "NUL")
        BY <1>1 DEF EndOfName
    <2>2. /\ hp' = [hp EXCEPT !.relevantHeaders[m] = kept]
          /\ status' = IF m = CONTENT_TYPE THEN "CONTENT_TYPE_BODY" ELSE "HEADER_BODY"
          /\ ctp' = IF m = CONTENT_TYPE THEN [ctp EXCEPT !.status = "MIME"] ELSE ctp
        BY <1>1, <2>1 DEF EndOfName
    <2>3. m \in hp.potential /\ m \in Names
        BY <1>0, <2>1, MatchesFoundIs DEF IsParser
    <2>4. name # <<>> /\ kept.body = <<>> /\ kept # NoHeader
        <3>1. hp.hbuf \in Seq(Letter) /\ ":" \in Letter
            BY <1>0 DEF IsParser, Letter
        <3>2. name # <<>>
            BY ONLY <3>1, AppendProperties
        <3> HIDE DEF name
        <3> QED
            BY <3>2 DEF NoHeader
    <2>5. m = CONTENT_TYPE => Fresh(ctp)
        BY <1>1 DEF EndOfName, Noted
    <2> HIDE DEF kept, m
    <2>6. /\ hp'.relevantHeaders[m] = kept
          /\ \A k \in Names \ {m} : hp'.relevantHeaders[k] = hp.relevantHeaders[k]
        BY <1>0, <2>2, <2>3 DEF IsParser, Fields
    <2>7. CASE m = CONTENT_TYPE
        <3>1. /\ status' = "CONTENT_TYPE_BODY" /\ TypeBody(hp') = <<>> /\ hp'.relevantHeaders[CONTENT_TYPE] # NoHeader
              /\ SamePatterns(ctp, ctp') /\ ctp'.wspAndNewLines = 0 /\ Fresh(ctp)
            BY <2>2, <2>4, <2>5, <2>6, <2>7 DEF TypeBody, IsTypeParser, CtpFields, SamePatterns, Fresh
        <3>2. WithoutFolds(<<>>) = <<>>
            <4>1. <<>> \in Texts
                BY DEF Texts
            <4> QED
                BY <4>1, WithoutFoldsIs
        <3>3. \A pattern : MayBeLike(<<>>, pattern)
            BY DEF MayBeLike
        <3>4. Narrowed(<<>>, ctp')
            BY <3>1, <3>3 DEF Narrowed, SamePatterns, Fresh
        <3>5. Counted("CONTENT_TYPE_BODY", <<>>, ctp')
            BY <3>1, <3>2 DEF Counted
        <3>6. Counted(status', TypeBody(hp'), ctp') /\ Narrowed(WithoutFolds(TypeBody(hp')), ctp')
            BY ONLY <3>1, <3>2, <3>4, <3>5, Zenon
        <3>7. ctp'.wspAndNewLines \in Int
            BY <3>1
        <3> QED
            BY ONLY <3>1, <3>6, <3>7, Zenon DEF Noted
    <2>8. CASE m # CONTENT_TYPE
        <3>1. status' = "HEADER_BODY" /\ hp'.relevantHeaders[CONTENT_TYPE] = hp.relevantHeaders[CONTENT_TYPE] /\ ctp' = ctp
            BY <1>0, <2>2, <2>6, <2>8
        <3> QED
            BY <3>1, NotedElsewhere DEF OnType, SamePatterns
    <2> QED
        BY <2>7, <2>8
<1>2. CASE NameGoesOn(c)
    <2>1. /\ hp'.relevantHeaders = hp.relevantHeaders /\ ctp' = ctp
          /\ status' \in {"IRRELEVANT_HEADER", "RELEVANT_HEADER_NAME"}
        BY <1>0, <1>2 DEF NameGoesOn, IsParser, Fields, InBuffer, RelevantHeaderName
    <2> QED
        BY <2>1, NotedElsewhere DEF OnType, SamePatterns
<1> QED
    BY <1>1, <1>2 DEF RelevantHeaderName

LEMMA TakenAsItIsTypes ==
    ASSUME Reading(status, hp), Noted(status, hp, ctp), NEW c \in Chars, TakenAsItIs(c)
    PROVE  Noted(status', hp', ctp')
<1> DEFINE h == [hp EXCEPT !.lastTaskStatus = status]
<1>0. /\ IsParser(hp) /\ c \in Letter /\ status \in {"IRRELEVANT_HEADER", "HEADER_BODY"}
      /\ status = "HEADER_BODY" => Known(hp)
    BY DEF Reading, Letter, TakenAsItIs, Bodies
<1>1. hp' = Kept(h, c) /\ status' = (IF c = "CR" THEN "CR_HEADER" ELSE status) /\ ctp' = ctp
    BY DEF TakenAsItIs
<1>2. /\ IsParser(h) /\ h.potential = hp.potential /\ h.lastTaskStatus = status
      /\ h.relevantHeaders = hp.relevantHeaders /\ (Known(hp) => Known(h))
    BY <1>0 DEF IsParser, Fields, HeaderStatuses, Known, Bodies
<1> HIDE DEF h
<1>3. SameNames(h, hp') /\ hp'.lastTaskStatus = status
    BY <1>0, <1>1, <1>2, KeptIs DEF Bodies
<1>4. hp'.relevantHeaders[CONTENT_TYPE] = NoHeader => hp.relevantHeaders[CONTENT_TYPE] = NoHeader
    BY <1>2, <1>3, MimeHeadersAssumption DEF SameNames
<1>5. ~OnType(status', hp')
    BY <1>0, <1>1, <1>3 DEF OnType
<1> QED
    BY <1>1, <1>4, <1>5, NotedElsewhere DEF SamePatterns

LEMMA TakenIs ==
    ASSUME IsParser(hp), NEW c \in Letter
    PROVE  LET g == InBody(ContentType, CONTENT_TYPE, c) IN
           /\ DOMAIN g = Fields /\ TypeBody(g) = Append(TypeBody(hp), c)
           /\ g.relevantHeaders[CONTENT_TYPE] # NoHeader /\ g.isRfc822Mime = hp.isRfc822Mime
           /\ ContentType.relevantHeaders = hp.relevantHeaders
<1>1. /\ IsParser(ContentType) /\ ContentType.relevantHeaders = hp.relevantHeaders
      /\ ContentType.isRfc822Mime = hp.isRfc822Mime
    BY DEF ContentType, IsParser, Fields, HeaderStatuses, Bodies
<1>2. CONTENT_TYPE \in Names
    BY MimeHeadersAssumption
<1> DEFINE h == ContentType
           g == InBody(h, CONTENT_TYPE, c)
<1>3. IsParser(h) /\ h.relevantHeaders = hp.relevantHeaders /\ h.isRfc822Mime = hp.isRfc822Mime
    BY <1>1
<1> HIDE DEF h
<1>4. /\ DOMAIN g = Fields /\ g.isRfc822Mime = h.isRfc822Mime
      /\ g.relevantHeaders[CONTENT_TYPE].body = Append(h.relevantHeaders[CONTENT_TYPE].body, c)
      /\ g.relevantHeaders[CONTENT_TYPE] # NoHeader
    BY ONLY <1>2, <1>3, c \in Letter, TypeBodyGoesOn
<1> HIDE DEF g
<1>5. TypeBody(g) = Append(TypeBody(hp), c) /\ g.isRfc822Mime = hp.isRfc822Mime
    BY ONLY <1>3, <1>4 DEF TypeBody
<1>6. /\ DOMAIN g = Fields /\ TypeBody(g) = Append(TypeBody(hp), c)
      /\ g.relevantHeaders[CONTENT_TYPE] # NoHeader /\ g.isRfc822Mime = hp.isRfc822Mime
      /\ h.relevantHeaders = hp.relevantHeaders
    BY ONLY <1>3, <1>4, <1>5, Zenon
<1> QED
    BY ONLY <1>6 DEF g, h

\* A character of the type narrows down what it may become like.
LEMMA TypeNarrows ==
    ASSUME NEW type \in Texts, NEW c \in Letter, NEW p, NEW q, Narrowed(type, p),
           q.mimes = {k \in p.mimes : cmpMime(censoredMimes[k], Len(type), c)},
           q.multipart = (p.multipart /\ cmpMime(MULTIPART, Len(type), c)),
           q.rfc822 = (p.rfc822 /\ cmpMime(RFC822, Len(type), c))
    PROVE  Narrowed(Append(type, c), q)
<1> DEFINE May(pattern)   == MayBeLike(type, pattern)
           Still(pattern) == MayBeLike(Append(type, c), pattern)
           fits(pattern)  == cmpMime(pattern, Len(type), c)
<1>1. \A pattern \in Patterns : Still(pattern) <=> May(pattern) /\ fits(pattern)
    BY PatternsAreTexts, MayBeLikeGoesOn
<1>2. /\ MULTIPART \in Patterns /\ RFC822 \in Patterns
      /\ \A k \in DOMAIN censoredMimes : censoredMimes[k] \in Patterns
    BY DEF Patterns
<1>3. /\ p.mimes = {k \in DOMAIN censoredMimes : May(censoredMimes[k])}
      /\ p.multipart <=> May(MULTIPART)
      /\ p.rfc822 <=> May(RFC822)
    BY DEF Narrowed
<1>4. /\ q.mimes = {k \in p.mimes : fits(censoredMimes[k])}
      /\ q.multipart = (p.multipart /\ fits(MULTIPART)) /\ q.rfc822 = (p.rfc822 /\ fits(RFC822))
    OBVIOUS
<1>5. SUFFICES /\ q.mimes = {k \in DOMAIN censoredMimes : Still(censoredMimes[k])}
               /\ q.multipart <=> Still(MULTIPART)
               /\ q.rfc822 <=> Still(RFC822)
    BY DEF Narrowed
<1> HIDE DEF May, Still, fits
<1>6. q.mimes = {k \in DOMAIN censoredMimes : Still(censoredMimes[k])}
    BY <1>1, <1>2, <1>3, <1>4
<1>7. (q.multipart <=> Still(MULTIPART)) /\ (q.rfc822 <=> Still(RFC822))
    BY ONLY <1>1, <1>2, <1>3, <1>4, Zenon
<1> QED
    BY <1>6, <1>7

\* What has been counted is the length of what has been read of the type.
LEMMA TypeLengthIs ==
    ASSUME IsParser(hp), Noted("CONTENT_TYPE_BODY", hp, ctp), ctp.status = "MIME",
           ~Contains(TypeBody(hp), ";")
    PROVE  /\ TypeLength = Len(TypeRead) /\ TypeRead = WithoutFolds(TypeBody(hp)) /\ TypeRead \in Texts
           /\ Narrowed(TypeRead, ctp)
<1>1. Counted("CONTENT_TYPE_BODY", TypeBody(hp), ctp) /\ Narrowed(WithoutFolds(TypeBody(hp)), ctp)
    BY DEF Noted, OnType, InMime
<1>2. TypeBody(hp) \in Texts
    BY TypeBodyIs
<1>3. WithoutFolds(TypeBody(hp)) \in Texts /\ TypeRead = WithoutFolds(TypeBody(hp))
    BY <1>2, WithoutFoldsIs DEF TypeRead, TypeBody
<1>4. Len(WithoutFolds(TypeBody(hp))) = Len(TypeBody(hp)) - ctp.wspAndNewLines + 0
    BY <1>1 DEF Counted
<1>5. Len(TypeBody(hp)) \in Int /\ ctp.wspAndNewLines \in Int
    BY <1>2, LengthIs DEF Noted
<1>6. TypeLength = Len(TypeBody(hp)) - ctp.wspAndNewLines
    BY DEF TypeLength, TypeBody
<1>7. PICK n, w : n = Len(TypeBody(hp)) /\ w = ctp.wspAndNewLines
    OBVIOUS
<1>8. n - w = n - w + 0
    BY ONLY <1>5, <1>7
<1>9. TypeLength = Len(WithoutFolds(TypeBody(hp)))
    BY ONLY <1>4, <1>6, <1>7, <1>8
<1> QED
    BY ONLY <1>1, <1>3, <1>9

LEMMA TypeEndsTypes ==
    ASSUME IsParser(hp), IsTypeParser(ctp), Noted("CONTENT_TYPE_BODY", hp, ctp),
           NEW c \in Letter, TypeEnds(c)
    PROVE  Noted(status', hp', ctp')
<1> DEFINE g == InBody(ContentType, CONTENT_TYPE, c)
<1>1. PICK multi, rfc822 :
        /\ c \in {"CR", ";"} /\ ctp.status = "MIME"
        /\ hp' = [g EXCEPT !.isRfc822Mime = @ \/ rfc822]
        /\ ctp' = [ctp EXCEPT !.wspAndNewLines = @ + 2, !.status = IF multi THEN "SEPARATOR" ELSE @]
        /\ c = "CR" => status' = "CR_HEADER"
    BY DEF TypeEnds
<1>2. DOMAIN g = Fields /\ TypeBody(g) = Append(TypeBody(hp), c) /\ g.relevantHeaders[CONTENT_TYPE] # NoHeader
    BY TakenIs
<1> HIDE DEF g
<1>3. hp'.relevantHeaders = g.relevantHeaders
    BY <1>1, <1>2 DEF Fields
<1>4. TypeBody(hp') = Append(TypeBody(hp), c) /\ hp'.relevantHeaders[CONTENT_TYPE] # NoHeader
    BY <1>2, <1>3 DEF TypeBody
<1>5. ctp.wspAndNewLines \in Int
    BY DEF Noted
<1>6. SamePatterns(ctp, ctp') /\ ctp'.wspAndNewLines = ctp.wspAndNewLines + 2
    BY <1>1 DEF IsTypeParser, CtpFields, SamePatterns
<1>7. CASE c = "CR"
    <2>1. /\ ctp'.wspAndNewLines \in Int
          /\ ctp'.wspAndNewLines - ctp.wspAndNewLines
               = 1 + (IF "CR_HEADER" = "CR_HEADER" THEN 1 ELSE 0) - (IF "CONTENT_TYPE_BODY" = "CR_HEADER" THEN 1 ELSE 0)
        BY <1>5, <1>6
    <2>2. c \in White /\ status' = "CR_HEADER" /\ OnType("CONTENT_TYPE_BODY", hp) /\ InMime(ctp)
        BY <1>1, <1>7 DEF White, OnType, InMime
    <2> QED
        BY <1>4, <1>6, <2>1, <2>2, FoldCounts
<1>8. CASE c = ";"
    <2>1. Contains(TypeBody(hp'), ";")
        BY <1>4, <1>8, TypeBodyIs, OneMore
    <2>2. ctp'.wspAndNewLines \in Int
        BY <1>5, <1>6
    <2> QED
        BY <1>4, <2>1, <2>2, NotedAfter
<1> QED
    BY <1>1, <1>7, <1>8

LEMMA TypeGoesOnTypes ==
    ASSUME IsParser(hp), IsTypeParser(ctp), Noted("CONTENT_TYPE_BODY", hp, ctp), status = "CONTENT_TYPE_BODY",
           NEW c \in Letter, TypeGoesOn(c)
    PROVE  /\ Noted(status', hp', ctp')
           /\ ~Contains(TypeBody(hp), ";") => TypeRead' = Append(TypeRead, c) /\ Narrowed(TypeRead', ctp')
<1>1. /\ ctp.status = "MIME" /\ c \notin {";", ":", "("} \cup White
      /\ hp' = InBody(ContentType, CONTENT_TYPE, c)
      /\ ctp' = [ctp EXCEPT !.mimes = {k \in ctp.mimes : cmpMime(censoredMimes[k], TypeLength, c)},
                            !.multipart = ctp.multipart /\ cmpMime(MULTIPART, TypeLength, c),
                            !.rfc822 = ctp.rfc822 /\ cmpMime(RFC822, TypeLength, c)]
      /\ status' \in {"HEADER_BODY", "CONTENT_TYPE_BODY"}
    BY DEF TypeGoesOn, Taken
<1>2. TypeBody(hp') = Append(TypeBody(hp), c) /\ hp'.relevantHeaders[CONTENT_TYPE] # NoHeader
    BY <1>1, TakenIs
<1>3. /\ ctp'.mimes = {k \in ctp.mimes : cmpMime(censoredMimes[k], TypeLength, c)}
      /\ ctp'.multipart = (ctp.multipart /\ cmpMime(MULTIPART, TypeLength, c))
      /\ ctp'.rfc822 = (ctp.rfc822 /\ cmpMime(RFC822, TypeLength, c))
      /\ ctp'.wspAndNewLines = ctp.wspAndNewLines /\ ctp'.wspAndNewLines \in Int
    BY <1>1 DEF IsTypeParser, CtpFields, Noted
<1>4. PICK text : text = TypeBody(hp)
    OBVIOUS
<1>5. PICK more : more = Append(text, c)
    OBVIOUS
<1>6. text \in Texts /\ TypeBody(hp') = more
    BY <1>2, <1>4, <1>5, TypeBodyIs
<1>7. /\ more \in Texts /\ Len(text) \in Int /\ Len(more) = Len(text) + 1
      /\ (Contains(more, ";") <=> Contains(text, ";") \/ c = ";")
    BY ONLY <1>5, <1>6, c \in Letter, OneMore, LengthIs
<1>8. CASE Contains(text, ";")
    BY <1>2, <1>3, <1>4, <1>6, <1>7, <1>8, NotedAfter
<1>9. CASE ~Contains(text, ";")
    <2>1. /\ TypeLength = Len(TypeRead) /\ TypeRead = WithoutFolds(text) /\ TypeRead \in Texts
          /\ Narrowed(TypeRead, ctp)
        BY <1>1, <1>4, <1>9, TypeLengthIs
    <2>2. PICK type : type = TypeRead
        OBVIOUS
    <2>3. PICK word : word = Append(type, c)
        OBVIOUS
    <2>4. Narrowed(word, ctp')
        BY <1>3, <2>1, <2>2, <2>3, TypeNarrows
    <2>5. WithoutFolds(more) = word
        BY <1>1, <1>5, <1>6, <2>1, <2>2, <2>3, WithoutFoldsIs
    <2>6. TypeRead' = WithoutFolds(TypeBody(hp'))
        BY DEF TypeRead, TypeBody
    <2>7. TypeRead' = word
        BY ONLY <1>6, <2>5, <2>6
    <2>8. type \in Texts /\ Len(type) = TypeLength /\ Len(word) = Len(type) + 1
        BY ONLY <2>1, <2>2, <2>3, c \in Letter, OneMore
    <2>9. TypeLength = Len(text) - ctp.wspAndNewLines
        BY <1>4 DEF TypeLength, TypeBody
    <2>10. PICK n, w, m, v, f : /\ n = Len(text) /\ w = ctp.wspAndNewLines /\ m = Len(more)
                                /\ v = ctp'.wspAndNewLines /\ f = Len(word)
        OBVIOUS
    <2>11. n \in Int /\ w \in Int /\ m = n + 1 /\ v = w
        BY ONLY <1>3, <1>7, <2>10
    <2>12. f = n - w + 1
        BY ONLY <2>8, <2>9, <2>10
    <2>13. f = m - v + 0
        BY ONLY <2>11, <2>12
    <2>14. Len(word) = Len(more) - ctp'.wspAndNewLines + 0
        BY ONLY <2>10, <2>13
    <2>15. Counted(status', more, ctp')
        BY <1>1, <2>5, <2>14 DEF Counted
    <2>16. Noted(status', hp', ctp')
        BY ONLY <1>2, <1>3, <1>6, <2>4, <2>5, <2>15 DEF Noted
    <2> QED
        BY ONLY <2>2, <2>3, <2>4, <2>7, <2>16
<1> QED
    BY <1>4, <1>8, <1>9

LEMMA OtherParamsTypes ==
    ASSUME IsParser(hp), IsTypeParser(ctp), Noted("CONTENT_TYPE_BODY", hp, ctp), status = "CONTENT_TYPE_BODY",
           hp.relevantHeaders[CONTENT_TYPE] # NoHeader,
           NEW c \in Letter, TypeSkips(c) \/ Separator(c) \/ InComment(c) \/ BoundaryValue(c)
    PROVE  Noted(status', hp', ctp')
<1> DEFINE g == InBody(ContentType, CONTENT_TYPE, c)
<1>1. /\ DOMAIN g = Fields /\ g.relevantHeaders[CONTENT_TYPE] # NoHeader
      /\ ContentType.relevantHeaders = hp.relevantHeaders
    BY TakenIs
<1>2. ctp.wspAndNewLines \in Int
    BY DEF Noted
<1> HIDE DEF g
<1>3. CASE TypeSkips(c) \/ InComment(c)
    <2>1. /\ hp' = ContentType /\ status' = "CONTENT_TYPE_BODY"
          /\ \/ ctp' = ctp
             \/ ctp.status = "MIME" /\ ctp' = [ctp EXCEPT !.previous = "MIME", !.status = "COMMENT"]
             \/ ctp.status = "COMMENT" /\ ctp' = [ctp EXCEPT !.status = ctp.previous]
        BY <1>3 DEF TypeSkips, InComment, Dropped, Comment
    <2>2. SamePatterns(ctp, ctp') /\ ctp'.wspAndNewLines = ctp.wspAndNewLines /\ (InMime(ctp') => InMime(ctp))
        BY <2>1 DEF IsTypeParser, CtpFields, SamePatterns, InMime
    <2>3. OnType("CONTENT_TYPE_BODY", hp)
        BY DEF OnType
    <2> QED
        BY <1>1, <2>1, <2>2, <2>3, NotedAsBefore
<1>4. CASE Separator(c) \/ BoundaryValue(c)
    <2>1. hp' = ContentType \/ hp' = g \/ \E x : hp' = [g EXCEPT !.nextBoundary = x]
        BY <1>4 DEF Separator, BoundaryValue, Taken, Dropped, g
    <2>2. hp'.relevantHeaders[CONTENT_TYPE] # NoHeader
        BY <1>1, <2>1 DEF Fields
    <2>3. ~InMime(ctp') /\ ctp'.wspAndNewLines \in Int
        <3>1. CASE Separator(c)
            <4>1. /\ ctp.status = "SEPARATOR"
                  /\ \/ ctp' = ctp \/ ctp' = [ctp EXCEPT !.previous = "SEPARATOR"]
                     \/ ctp' = [ctp EXCEPT !.previous = "SEPARATOR", !.status = "COMMENT"]
                     \/ ctp' = [ctp EXCEPT !.status = "BOUNDARY"]
                     \/ \E x : ctp' = [ctp EXCEPT !.boundaryNameIndex = x]
                BY <3>1 DEF Separator, Comment
            <4> QED
                BY <1>2, <4>1 DEF IsTypeParser, CtpFields, InMime
        <3>2. CASE BoundaryValue(c)
            <4>1. /\ ctp.status = "BOUNDARY"
                  /\ \/ ctp' = ctp
                     \/ ctp' = [ctp EXCEPT !.previous = "SEPARATOR", !.status = "COMMENT"]
                     \/ \E x : ctp' = [ctp EXCEPT !.doubleQuoteCount = x]
                BY <3>2 DEF BoundaryValue, Comment
            <4> QED
                BY <1>2, <4>1 DEF IsTypeParser, CtpFields, InMime
        <3> QED
            BY <1>4, <3>1, <3>2
    <2> QED
        BY <2>2, <2>3, NotedAfter
<1> QED
    BY <1>3, <1>4

LEMMA ParamsTypes ==
    ASSUME Reading(status, hp), Told(status, hp), IsTypeParser(ctp), Noted(status, hp, ctp),
           NEW c \in Chars, parseHeaderParams(c)
    PROVE  Noted(status', hp', ctp')
<1>1. IsParser(hp) /\ c \in Letter /\ status = "CONTENT_TYPE_BODY" /\ Known(hp) /\ CONTENT_TYPE \in hp.potential
    BY DEF Reading, Letter, parseHeaderParams, Bodies, Told, OnType
<1>2. hp.relevantHeaders[CONTENT_TYPE] # NoHeader
    BY <1>1, OnTypeKnown DEF NoHeader
<1>3. CASE TypeEnds(c)
    BY <1>1, <1>3, TypeEndsTypes
<1>4. CASE TypeGoesOn(c)
    BY <1>1, <1>4, TypeGoesOnTypes
<1>5. CASE TypeSkips(c) \/ Separator(c) \/ InComment(c) \/ BoundaryValue(c)
    BY <1>1, <1>2, <1>5, OtherParamsTypes
<1> QED
    BY <1>3, <1>4, <1>5 DEF parseHeaderParams

LEMMA HeaderTypes ==
    ASSUME Reading(status, hp), Told(status, hp), IsTypeParser(ctp), Noted(status, hp, ctp),
           task = "PARSING_HEADERS", NEW c \in Chars, parseHeader(c),
           status = "CR_HEADER" => c = "LF", status = "NEW_LINE" /\ hp.hbuf = <<>> => c # "SP",
           status = "RELEVANT_HEADER_NAME" =>
              /\ c # "CR"
              /\ c \in {":", "SP", "LF"} =>
                    /\ \E n \in hp.potential : cmp(RELEVANT_HEADERS[n], Len(hp.hbuf), "NUL")
                    /\ MatchesFound = CONTENT_TYPE => hp.relevantHeaders[CONTENT_TYPE] = NoHeader
    PROVE  task' = "PARSING_HEADERS" => Noted(status', hp', ctp')
<1>1. CASE NewLine(c)
    <2>1. hp.hbuf = <<>> => c # "SP"
        BY <1>1 DEF NewLine, EndHeaders, Folded, BeginHeader
    <2> QED
        BY <1>1, <2>1, NewLineTypes
<1>2. CASE CrHeader(c)
    BY <1>2, CrHeaderTypes DEF CrHeader
<1>3. CASE RelevantHeaderName(c)
    BY <1>3, RelevantHeaderNameTypes DEF RelevantHeaderName
<1>4. CASE TakenAsItIs(c)
    BY <1>4, TakenAsItIsTypes
<1>5. CASE parseHeaderParams(c)
    BY <1>5, ParamsTypes
<1> QED
    BY <1>1, <1>2, <1>3, <1>4, <1>5 DEF parseHeader

LEMMA TypeInvInit == Init => TypeInv
<1> SUFFICES ASSUME Init PROVE TypeInv
    OBVIOUS
<1>1. status = "NEW_LINE_POP3" /\ Fresh(ctp)
    BY DEF Init, InitHeaderParser, ResetCtp, Fresh
<1>2. ~OnType(status, hp)
    BY <1>1 DEF OnType
<1>3. ctp.wspAndNewLines \in Int
    BY ONLY <1>1 DEF Fresh
<1>4. Noted(status, hp, ctp)
    BY ONLY <1>1, <1>2, <1>3, Zenon DEF Noted
<1> QED
    BY ONLY <1>4 DEF TypeInv

LEMMA TypeInvStep == IInv /\ WellFormed /\ WellNamed /\ NamesInv /\ TypeInv /\ [Next]_vars => TypeInv'
<1> SUFFICES ASSUME IInv, WellFormed, WellNamed, NamesInv, TypeInv, [Next]_vars PROVE TypeInv'
    OBVIOUS
<1>1. CASE UNCHANGED <<task, status, hp, ctp>>
    BY <1>1 DEF TypeInv
<1>2. CASE Flush \/ FeedMoreBytes \/ EndOfInput \/ ConsumeRemainingBytes \/ UNCHANGED vars
    <2>1. UNCHANGED <<task, status, hp, ctp>>
        BY <1>2 DEF Flush, FeedMoreBytes, EndOfInput, ConsumeRemainingBytes, vars, header
    <2> QED
        BY <1>1, <2>1
<1>3. CASE Header
    <2> DEFINE c == buf[i + 1]
    <2>1. c \in Chars /\ task = "PARSING_HEADERS" /\ parseHeader(c)
        BY <1>3 DEF IInv, Buffers, Header
    <2>2. /\ status = "CR_HEADER" => c = "LF"
          /\ status = "NEW_LINE" /\ hp.hbuf = <<>> => c # "SP"
          /\ status = "RELEVANT_HEADER_NAME" =>
                /\ c # "CR"
                /\ c \in {":", "SP", "LF"} =>
                      /\ \E n \in hp.potential : cmp(RELEVANT_HEADERS[n], Len(hp.hbuf), "NUL")
                      /\ MatchesFound = CONTENT_TYPE => hp.relevantHeaders[CONTENT_TYPE] = NoHeader
        BY <1>3 DEF Header, WellFormed, WellNamed
    <2> HIDE DEF c
    <2>3. Reading(status, hp) /\ Told(status, hp) /\ IsTypeParser(ctp) /\ Noted(status, hp, ctp)
        BY <2>1 DEF IInv, NamesInv, TypeInv
    <2>4. task' \in {"PARSING_HEADERS", "DONE_PARSING_HEADERS"}
        BY <2>1, ParseHeaderTasks
    <2> QED
        BY <2>1, <2>2, <2>3, <2>4, HeaderTypes DEF TypeInv
<1>4. CASE Pop3
    <2>1. UNCHANGED <<hp, ctp>> /\ task = "PARSING_POP3"
          /\ \/ task' = "PARSING_HEADERS" /\ status' = "NEW_LINE"
             \/ task' = "PARSING_POP3" /\ status' \in {"NEW_LINE_POP3", "COMMAND_POP3", "CR_POP3"}
        BY <1>4 DEF Pop3, header, IInv, StatusOfTask
    <2>2. hp.hbuf = <<>> /\ Noted(status, hp, ctp)
        BY <2>1 DEF IInv, TypeInv
    <2>3. ~OnType(status', hp')
        BY <2>1, <2>2 DEF OnType
    <2>4. Noted(status', hp', ctp')
        BY <2>1, <2>2, <2>3, NotedElsewhere DEF SamePatterns
    <2> QED
        BY <2>4 DEF TypeInv
<1>5. CASE BeginBody \/ EndOfPart
    <2>1. /\ hp' = ResetHp(hp) /\ ctp' = ResetCtp(ctp)
          /\ task' \in {"PARSING_POP3", "PARSING_HEADERS"} => status' = "NEW_LINE"
        BY <1>5 DEF BeginBody, EndOfPart, ResetHeaderParser, ParseBody, PopCheck
    <2>2. hp'.hbuf = <<>> /\ Fresh(ctp')
        BY <2>1, ResetHpIs, ResetCtpIs DEF IInv
    <2> QED
        BY <2>1, <2>2, FreshNoted DEF TypeInv
<1>6. CASE Body
    <2>1. task' \notin {"PARSING_POP3", "PARSING_HEADERS"}
        BY <1>6 DEF Body, ParseBody, PopCheck
    <2> QED
        BY <2>1 DEF TypeInv
<1> QED
    BY <1>2, <1>3, <1>4, <1>5, <1>6 DEF Next

\* What a type is like, when it ends.
LEMMA TypeIsLike ==
    ASSUME NEW type \in Texts, NEW p, Narrowed(type, p)
    PROVE  /\ anyCensoredMatches(p.mimes, Len(type)) <=> \E k \in DOMAIN censoredMimes : Like(type, censoredMimes[k])
           /\ p.multipart /\ cmpMime(MULTIPART, Len(type), "NUL") <=> Like(type, MULTIPART)
           /\ p.rfc822 /\ cmpMime(RFC822, Len(type), "NUL") <=> Like(type, RFC822)
<1> DEFINE May(pattern)  == MayBeLike(type, pattern)
           Is(pattern)   == Like(type, pattern)
           ends(pattern) == cmpMime(pattern, Len(type), "NUL")
<1>1. \A pattern \in Patterns : Is(pattern) <=> May(pattern) /\ ends(pattern)
    BY PatternsAreTexts, LikeIs
<1>2. /\ MULTIPART \in Patterns /\ RFC822 \in Patterns
      /\ \A k \in DOMAIN censoredMimes : censoredMimes[k] \in Patterns
    BY DEF Patterns
<1>3. /\ p.mimes = {k \in DOMAIN censoredMimes : May(censoredMimes[k])}
      /\ p.multipart <=> May(MULTIPART)
      /\ p.rfc822 <=> May(RFC822)
    BY DEF Narrowed
<1>4. anyCensoredMatches(p.mimes, Len(type)) <=> \E k \in p.mimes : ends(censoredMimes[k])
    BY DEF anyCensoredMatches
<1> HIDE DEF May, Is, ends
<1>5. (\E k \in p.mimes : ends(censoredMimes[k])) <=> \E k \in DOMAIN censoredMimes : Is(censoredMimes[k])
    BY <1>1, <1>2, <1>3
<1>6. (p.multipart /\ ends(MULTIPART) <=> Is(MULTIPART)) /\ (p.rfc822 /\ ends(RFC822) <=> Is(RFC822))
    BY ONLY <1>1, <1>2, <1>3, Zenon
<1> QED
    BY <1>4, <1>5, <1>6 DEF Is, ends

LEMMA DecidesStep ==
    ASSUME IInv, TypeInv, Next, InType
    PROVE  /\ buf[i + 1] \in {"CR", ";"} =>
                LET asked == \E k \in DOMAIN censoredMimes : Like(TypeRead, censoredMimes[k])
                    multi == ~asked /\ Like(TypeRead, MULTIPART)
                IN
                /\ mustBeCensored' <=> mustBeCensored \/ asked
                /\ isMultipart' <=> isMultipart \/ multi
                /\ hp'.isRfc822Mime <=> hp.isRfc822Mime \/ (~asked /\ ~multi /\ Like(TypeRead, RFC822))
           /\ buf[i + 1] \notin {"CR", ";"} /\ status' # status =>
                \A pattern \in {censoredMimes[k] : k \in DOMAIN censoredMimes} \cup {MULTIPART, RFC822} :
                    ~MayBeLike(TypeRead', pattern)
<1>1. PICK c : c = buf[i + 1]
    OBVIOUS
<1>2. task = "PARSING_HEADERS" /\ status = "CONTENT_TYPE_BODY" /\ ctp.status = "MIME" /\ i < Len(buf)
    BY DEF InType
<1>10. ~Contains(TypeBody(hp), ";")
    BY DEF InType, TypeBody
<1>3. c \in Letter /\ IsParser(hp) /\ IsTypeParser(ctp) /\ Noted("CONTENT_TYPE_BODY", hp, ctp)
    <2>1. IsParser(hp) /\ IsTypeParser(ctp) /\ Buffers
        BY DEF IInv
    <2>2. Noted("CONTENT_TYPE_BODY", hp, ctp)
        BY ONLY <1>2, TypeInv DEF TypeInv
    <2>3. buf[i + 1] \in Chars
        BY ONLY <1>2, <2>1 DEF Buffers
    <2> QED
        BY ONLY <1>1, <2>1, <2>2, <2>3 DEF Letter
<1>4. Header
    <2>1. buf # <<>> /\ i # Len(buf)
        <3>1. Buffers
            BY DEF IInv
        <3> QED
            BY ONLY <1>2, <3>1 DEF Buffers
    <2>2. ~Flush /\ ~FeedMoreBytes /\ ~EndOfInput
        BY ONLY <2>1 DEF Flush, FeedMoreBytes, EndOfInput
    <2>3. ~ConsumeRemainingBytes /\ ~Pop3 /\ ~BeginBody /\ ~Body /\ ~EndOfPart
        BY ONLY <1>2 DEF ConsumeRemainingBytes, Pop3, BeginBody, Body, EndOfPart
    <2> QED
        BY ONLY Next, <2>2, <2>3 DEF Next
<1>5. TypeEnds(c) \/ TypeGoesOn(c) \/ TypeSkips(c)
    <2>1. parseHeaderParams(c)
        BY <1>1, <1>2, <1>4 DEF Header, parseHeader, NewLine, EndHeaders, Folded, BeginHeader, CrHeader,
                                RelevantHeaderName, TakenAsItIs
    <2> QED
        BY <1>2, <2>1 DEF parseHeaderParams, Separator, InComment, BoundaryValue
<1>6. /\ TypeLength = Len(TypeRead) /\ TypeRead \in Texts /\ Narrowed(TypeRead, ctp)
    BY <1>2, <1>3, <1>10, TypeLengthIs
<1>7. CASE TypeEnds(c)
    <2> DEFINE censored == anyCensoredMatches(ctp.mimes, TypeLength)
               asked    == \E k \in DOMAIN censoredMimes : Like(TypeRead, censoredMimes[k])
               several  == ctp.multipart /\ cmpMime(MULTIPART, TypeLength, "NUL")
               within   == ctp.rfc822 /\ cmpMime(RFC822, TypeLength, "NUL")
               g        == InBody(ContentType, CONTENT_TYPE, c)
    <2>1. /\ c \in {"CR", ";"} /\ mustBeCensored' = (mustBeCensored \/ censored)
          /\ isMultipart' = (isMultipart \/ (~censored /\ several))
          /\ hp' = [g EXCEPT !.isRfc822Mime = @ \/ (~censored /\ ~(~censored /\ several) /\ within)]
        BY <1>7 DEF TypeEnds
    <2>2. (censored <=> asked) /\ (several <=> Like(TypeRead, MULTIPART)) /\ (within <=> Like(TypeRead, RFC822))
        <3>1. PICK type : type = TypeRead
            OBVIOUS
        <3>2. type \in Texts /\ Narrowed(type, ctp) /\ TypeLength = Len(type)
            BY ONLY <1>6, <3>1
        <3>3. /\ anyCensoredMatches(ctp.mimes, Len(type)) <=> \E k \in DOMAIN censoredMimes : Like(type, censoredMimes[k])
              /\ ctp.multipart /\ cmpMime(MULTIPART, Len(type), "NUL") <=> Like(type, MULTIPART)
              /\ ctp.rfc822 /\ cmpMime(RFC822, Len(type), "NUL") <=> Like(type, RFC822)
            BY ONLY <3>2, TypeIsLike
        <3> QED
            BY ONLY <3>1, <3>2, <3>3, Zenon
    <2>3. DOMAIN g = Fields /\ g.isRfc822Mime = hp.isRfc822Mime
        BY <1>3, TakenIs
    <2> HIDE DEF censored, asked, several, within, g
    <2>4. hp'.isRfc822Mime = (hp.isRfc822Mime \/ (~censored /\ ~(~censored /\ several) /\ within))
        BY <2>1, <2>3 DEF Fields
    <2>5. mustBeCensored' <=> mustBeCensored \/ asked
        BY ONLY <2>1, <2>2, Zenon
    <2>6. isMultipart' <=> isMultipart \/ (~asked /\ Like(TypeRead, MULTIPART))
        BY ONLY <2>1, <2>2, Zenon
    <2>7. hp'.isRfc822Mime <=> hp.isRfc822Mime \/ (~asked /\ ~(~asked /\ Like(TypeRead, MULTIPART)) /\ Like(TypeRead, RFC822))
        BY ONLY <2>2, <2>4, Zenon
    <2> QED
        BY ONLY <1>1, <2>1, <2>5, <2>6, <2>7, Zenon DEF asked
<1>8. CASE TypeGoesOn(c)
    <2>1. c \notin {"CR", ";"}
        BY <1>8 DEF TypeGoesOn, White
    <2>2. Narrowed(TypeRead', ctp')
        BY <1>2, <1>3, <1>8, <1>10, TypeGoesOnTypes
    <2>3. status' # status => ctp'.mimes = {} /\ ~ctp'.multipart /\ ~ctp'.rfc822
        BY <1>2, <1>3, <1>8 DEF TypeGoesOn, IsTypeParser, CtpFields
    <2>4. ASSUME status' # status, NEW pattern \in Patterns
          PROVE  ~MayBeLike(TypeRead', pattern)
        BY <2>2, <2>3, <2>4 DEF Narrowed, Patterns
    <2> QED
        BY <1>1, <2>1, <2>4 DEF Patterns
<1>9. CASE TypeSkips(c)
    BY <1>1, <1>9 DEF TypeSkips
<1> QED
    BY ONLY <1>5, <1>7, <1>8, <1>9

\* Of every well-formed mail whose headers are well named, in whatever reads it comes: a media
\* type decides what becomes of its part by what it is like, through folds, cases and comments,
\* and what has been ruled out before its end could not have come to be (stripmime.c:399-480).
THEOREM TypeDecidesHolds == Spec /\ []WellFormed /\ []WellNamed => TypeDecides
<1>1. IInv /\ TypeInv /\ [Next]_vars =>
        [InType =>
            /\ buf[i + 1] \in {"CR", ";"} =>
                  LET asked == \E k \in DOMAIN censoredMimes : Like(TypeRead, censoredMimes[k])
                      multi == ~asked /\ Like(TypeRead, MULTIPART)
                  IN
                  /\ mustBeCensored' <=> mustBeCensored \/ asked
                  /\ isMultipart' <=> isMultipart \/ multi
                  /\ hp'.isRfc822Mime <=> hp.isRfc822Mime \/ (~asked /\ ~multi /\ Like(TypeRead, RFC822))
            /\ buf[i + 1] \notin {"CR", ";"} /\ status' # status =>
                  \A pattern \in {censoredMimes[k] : k \in DOMAIN censoredMimes} \cup {MULTIPART, RFC822} :
                      ~MayBeLike(TypeRead', pattern)]_vars
    BY DecidesStep
<1>2. Spec /\ []WellFormed /\ []WellNamed => [](IInv /\ TypeInv)
    BY NamesInvInit, NamesInvStep, IInvInit, IInvStep, TypeInvInit, TypeInvStep, PTL DEF Spec
<1> QED
    BY <1>1, <1>2, PTL DEF Spec, TypeDecides

-----------------------------------------------------------------------------
(* What is not to come out.                                                *)

\* All that may be written.
Shown == (Letter \cup {"setee vars", "junk", "replaced", "CR", "LF", "-", "."}) \ {"secret"}

\* Nothing that is kept of the headers is a secret.
IsOpen(h) ==
    /\ DOMAIN h = Fields
    /\ h.relevantHeaders \in [Names -> [name : Seq(Shown), body : Seq(Shown)]]
    /\ h.hbuf \in Seq(Shown) /\ h.nextBoundary \in Seq(Shown)

\* What is being copied holds no secret from where the copy begins.
CopyIsOpen(t, censored, b, from, to) ==
    t = "PARSING_POP3" \/ (~censored /\ t \in {"PARSING_BODY", "DONE_PARSING_BODY"}) =>
        \A k \in from + 1 .. to : b[k] # "secret"

\* Inductive for all mail whose secrets are inside the parts to be replaced, well formed or not.
OpenInv ==
    /\ Buffers /\ IsOpen(hp) /\ out \in Seq(Shown) /\ boundaries \in Seq(Seq(Shown))
    /\ CopyIsOpen(task, mustBeCensored, buf, start, i)

LEMMA ShownIs ==
    /\ \A c \in Letter : c # "secret" => c \in Shown
    /\ {"setee vars", "junk", "replaced", "CR", "LF", "-", ".", ":"} \subseteq Shown /\ "secret" \notin Shown
BY DEF Shown, Letter

LEMMA OpenWrites ==
    ASSUME out \in Seq(Shown), NEW s \in Seq(Shown), Write(s)
    PROVE  out' \in Seq(Shown)
<1>1. out \o s \in Seq(Shown)
    BY ONLY out \in Seq(Shown), s \in Seq(Shown), ConcatProperties
<1> QED
    BY <1>1 DEF Write

\* A part of the buffer without secrets.
LEMMA OpenPiece ==
    ASSUME NEW s \in Seq(Chars), NEW m \in 0 .. Len(s), NEW n \in m .. Len(s),
           \A k \in m + 1 .. n : s[k] # "secret"
    PROVE  SubSeq(s, m + 1, n) \in Seq(Shown)
<1>1. m + 1 \in Int /\ n \in Int /\ Len(s) \in Nat
    OBVIOUS
<1>2. \A j \in m + 1 .. n : s[j] \in Chars
    <2> HIDE DEF Chars
    <2> QED
        OBVIOUS
<1>3. \A j \in m + 1 .. n : s[j] \in Shown
    BY <1>2, ShownIs DEF Letter
<1> QED
    BY ONLY <1>1, <1>3, SubSeqProperties

LEMMA OpenBuffer ==
    ASSUME OpenInv, NEW m \in 0 .. Len(buf), NEW n \in m .. Len(buf),
           \A k \in m + 1 .. n : buf[k] # "secret"
    PROVE  Buffered(m, n) \in Seq(Shown)
<1>1. buf \in Seq(Chars)
    BY DEF OpenInv, Buffers
<1> QED
    BY <1>1, OpenPiece DEF Buffered

-----------------------------------------------------------------------------
(* Headers without secrets.                                                *)

Joined(none, text, piece) == text \o piece
NoText(none)              == <<>>
Joining == INSTANCE Folding WITH Op <- Joined, Base <- NoText, Holds <- IsWord

\* The pieces put together are made of what the pieces are made of.
LEMMA FlatIs ==
    ASSUME NEW A, NEW seqs \in Seq(Seq(A))
    PROVE  FlattenSeq(seqs) \in Seq(A)
<1> DEFINE N == Len(seqs)
<1>1. N \in Nat /\ (N = 0 => seqs = <<>>) /\ \A n \in 1 .. N : seqs[n] \in Seq(A)
    BY EmptySeq
<1>2. CASE N = 0
    BY <1>1, <1>2 DEF FlattenSeq
<1>3. CASE N # 0
    <2> DEFINE Flat(f) == f = [n \in 1 .. N |-> IF n = 1 THEN seqs[n] ELSE f[n - 1] \o seqs[n]]
               flat    == CHOOSE f : Flat(f)
    <2>1. \E f : Flat(f)
        <3>1. PICK run : /\ run[0] = NoText({})
                         /\ \A n \in 1 .. Len(seqs) : run[n] = Joined({}, run[n - 1], seqs[n])
                         /\ Joining!Fold({}, seqs) = run[Len(seqs)]
            BY ONLY seqs \in Seq(Seq(A)), Joining!FoldRuns
        <3> DEFINE f == [n \in 1 .. N |-> run[n]]
        <3>2. ASSUME NEW n \in 1 .. N PROVE f[n] = IF n = 1 THEN seqs[n] ELSE f[n - 1] \o seqs[n]
            <4>1. CASE n = 1
                <5>1. run[1] = <<>> \o seqs[1] /\ seqs[1] \in Seq(A) /\ f[1] = run[1]
                    <6>1. 1 \in 1 .. N /\ 1 - 1 = 0
                        BY <4>1
                    <6>2. run[1] = Joined({}, NoText({}), seqs[1])
                        BY ONLY <3>1, <6>1
                    <6>3. f[1] = run[1] /\ seqs[1] \in Seq(A)
                        BY <1>1, <6>1
                    <6> QED
                        BY ONLY <6>2, <6>3 DEF NoText, Joined
                <5> HIDE DEF f
                <5> QED
                    BY <4>1, <5>1
            <4>2. CASE n # 1
                <5>1. n - 1 \in 1 .. N
                    BY <1>1, <4>2
                <5> QED
                    BY <3>1, <4>2, <5>1 DEF Joined
            <4> QED
                BY <4>1, <4>2
        <3> HIDE DEF N
        <3>3. f = [n \in 1 .. N |-> IF n = 1 THEN seqs[n] ELSE f[n - 1] \o seqs[n]]
            BY <3>2
        <3> QED
            BY <3>3
    <2>2. Flat(flat)
        BY <2>1
    <2>3. FlattenSeq(seqs) = flat[N]
        BY <1>3 DEF FlattenSeq
    <2> HIDE DEF flat
    <2>4. \A n \in 1 .. N : flat[n] = IF n = 1 THEN seqs[n] ELSE flat[n - 1] \o seqs[n]
        <3> HIDE DEF N
        <3> QED
            BY <2>2
    <2>5. flat[N] \in Seq(A)
        <3> SUFFICES ASSUME flat[N] \notin Seq(A) PROVE FALSE
            OBVIOUS
        <3> HIDE DEF N
        <3> DEFINE T == {n \in 1 .. N : flat[n] \notin Seq(A)}
        <3>1. T \subseteq Nat /\ T # {}
            BY <1>1, <1>3
        <3>2. PICK x \in T : \A y \in T : x <= y
            <4> HIDE DEF T
            <4> QED
                BY <3>1, NatMin
        <3>3. x \in 1 .. N /\ flat[x] \notin Seq(A) /\ x # 1
            BY <1>1, <2>4
        <3>4. x - 1 \in 1 .. N /\ ~(x <= x - 1)
            BY <1>1, <3>3
        <3>5. flat[x - 1] \in Seq(A)
            BY <3>2, <3>4
        <3>6. flat[x] = flat[x - 1] \o seqs[x] /\ seqs[x] \in Seq(A)
            BY <1>1, <2>4, <3>3
        <3>7. flat[x - 1] \o seqs[x] \in Seq(A)
            BY ONLY <3>5, <3>6, ConcatProperties
        <3> QED
            BY <3>3, <3>6, <3>7
    <2> QED
        BY <2>3, <2>5
<1> QED
    BY <1>2, <1>3

LEMMA PutHeadersIsOpen ==
    ASSUME IsOpen(hp)
    PROVE  PutHeaders \in Seq(Shown)
<1> DEFINE seqs == [n \in Names |-> hp.relevantHeaders[n].name \o hp.relevantHeaders[n].body]
<1>1. Names = 1 .. Len(RELEVANT_HEADERS) /\ Len(RELEVANT_HEADERS) \in Nat
    BY MimeHeadersAssumption DEF Names
<1>2. ASSUME NEW n \in Names PROVE seqs[n] \in Seq(Shown)
    <2>1. hp.relevantHeaders[n].name \in Seq(Shown) /\ hp.relevantHeaders[n].body \in Seq(Shown)
        BY DEF IsOpen
    <2>2. hp.relevantHeaders[n].name \o hp.relevantHeaders[n].body \in Seq(Shown)
        BY ONLY <2>1, ConcatProperties
    <2> QED
        BY <2>2
<1>3. PutHeaders = FlattenSeq(seqs)
    BY DEF PutHeaders
<1>4. seqs = [n \in 1 .. Len(RELEVANT_HEADERS) |-> seqs[n]]
    BY <1>1
<1> HIDE DEF seqs
<1>5. seqs \in Seq(Seq(Shown))
    BY <1>1, <1>2, <1>4
<1> QED
    BY <1>3, <1>5, FlatIs

LEMMA InBodyIsOpen ==
    ASSUME NEW h, IsOpen(h), NEW n, NEW c \in Shown
    PROVE  IsOpen(InBody(h, n, c))
<1> DEFINE old == h.relevantHeaders
           new == [old EXCEPT ![n].body = Append(@, c)]
<1>1. InBody(h, n, c) = [h EXCEPT !.relevantHeaders = new]
    BY DEF InBody, IsOpen, Fields
<1>2. old \in [Names -> [name : Seq(Shown), body : Seq(Shown)]]
    BY DEF IsOpen
<1>3. /\ new = [m \in Names |-> new[m]] /\ \A m \in Names \ {n} : new[m] = old[m]
      /\ n \in Names => new[n] = [name |-> old[n].name, body |-> Append(old[n].body, c)]
    <2>1. new = [m \in Names |-> new[m]] /\ \A m \in Names \ {n} : new[m] = old[m]
        BY <1>2
    <2>2. ASSUME n \in Names PROVE new[n] = [name |-> old[n].name, body |-> Append(old[n].body, c)]
        BY <1>2, <2>2
    <2> QED
        BY <2>1, <2>2
<1> HIDE DEF old, new
<1>4. ASSUME NEW m \in Names PROVE new[m] \in [name : Seq(Shown), body : Seq(Shown)]
    <2>1. CASE m = n
        <3>1. old[n].name \in Seq(Shown) /\ old[n].body \in Seq(Shown)
            BY <1>2, <2>1
        <3>2. Append(old[n].body, c) \in Seq(Shown)
            BY ONLY <3>1, c \in Shown, AppendProperties
        <3>3. new[m] = [name |-> old[n].name, body |-> Append(old[n].body, c)]
            BY <1>3, <2>1
        <3> QED
            BY <3>1, <3>2, <3>3
    <2>2. CASE m # n
        BY <1>2, <1>3, <2>2
    <2> QED
        BY <2>1, <2>2
<1>5. new = [m \in Names |-> new[m]]
    BY <1>3
<1>6. new \in [Names -> [name : Seq(Shown), body : Seq(Shown)]]
    BY ONLY <1>4, <1>5
<1> QED
    BY <1>1, <1>6 DEF IsOpen, Fields

LEMMA InBufferIsOpen ==
    ASSUME NEW h, IsOpen(h), NEW c \in Shown
    PROVE  IsOpen(InBuffer(h, c))
<1>1. Append(h.hbuf, c) \in Seq(Shown)
    BY AppendProperties DEF IsOpen
<1> QED
    BY <1>1 DEF IsOpen, InBuffer, Fields

LEMMA KeptIsOpen ==
    ASSUME NEW h, IsOpen(h), NEW c \in Shown
    PROVE  IsOpen(Kept(h, c))
BY InBodyIsOpen, InBufferIsOpen DEF Kept

\* What else changes in a header parser is not kept of the text.
LEMMA LabelsAreOpen ==
    ASSUME NEW h, IsOpen(h), NEW x
    PROVE  /\ IsOpen([h EXCEPT !.lastTaskStatus = x]) /\ IsOpen([h EXCEPT !.potential = x])
           /\ IsOpen([h EXCEPT !.isRfc822Mime = @ \/ x])
BY DEF IsOpen, Fields

LEMMA ResetIsOpen ==
    ASSUME NEW h, IsOpen(h)
    PROVE  IsOpen(ResetHp(h))
BY DEF IsOpen, ResetHp, Fields, NoHeader

LEMMA LastHeaderIsOpen ==
    ASSUME IsOpen(hp)
    PROVE  LastHeader \in Seq(Shown)
<1>1. hp.hbuf \in Seq(Shown) /\ <<>> \in Seq(Shown)
    BY DEF IsOpen
<1>2. LastHeader = hp.hbuf \/ LastHeader = <<>>
    BY DEF LastHeader
<1> QED
    BY ONLY <1>1, <1>2

LEMMA LineEndIsOpen ==
    /\ CRLF \in Seq(Shown) /\ Replacement \in Seq(Shown) /\ CRLF \o <<".">> \o CRLF \in Seq(Shown)
    /\ <<"-", "-">> \in Seq(Shown) /\ Banner \in Seq(Shown) /\ <<>> \in Seq(Shown)
<1>1. CRLF \in Seq(Shown) /\ <<"replaced">> \in Seq(Shown) /\ <<".">> \in Seq(Shown)
      /\ <<"-", "-">> \in Seq(Shown) /\ Banner \in Seq(Shown) /\ <<>> \in Seq(Shown)
    <2>1. /\ "CR" \in Shown /\ "LF" \in Shown /\ "replaced" \in Shown /\ "." \in Shown /\ "-" \in Shown
          /\ "setee vars" \in Shown
        BY ShownIs
    <2>2. \A a, b \in Shown : <<a>> \in Seq(Shown) /\ <<a, b>> \in Seq(Shown)
        OBVIOUS
    <2>3. <<>> \in Seq(Shown)
        OBVIOUS
    <2> QED
        BY ONLY <2>1, <2>2, <2>3, Zenon DEF CRLF, Banner
<1>2. Replacement \in Seq(Shown) /\ CRLF \o <<".">> \in Seq(Shown)
    BY ONLY <1>1, ConcatProperties DEF Replacement
<1>3. CRLF \o <<".">> \o CRLF \in Seq(Shown)
    BY ONLY <1>1, <1>2, ConcatProperties
<1> QED
    BY <1>1, <1>2, <1>3

LEMMA NewLineIsOpen ==
    ASSUME IsOpen(hp), out \in Seq(Shown), NEW c \in Shown, NewLine(c)
    PROVE  IsOpen(hp') /\ out' \in Seq(Shown)
<1>1. CASE UNCHANGED <<header, out>>
    BY <1>1 DEF header
<1>2. CASE EndHeaders(c)
    <2> DEFINE rest == IF mustBeCensored THEN Replacement ELSE PutHeaders \o CRLF
    <2>1. rest \in Seq(Shown)
        <3>1. PutHeaders \in Seq(Shown) /\ CRLF \in Seq(Shown) /\ Replacement \in Seq(Shown)
            BY PutHeadersIsOpen, LineEndIsOpen
        <3>2. PutHeaders \o CRLF \in Seq(Shown)
            BY ONLY <3>1, ConcatProperties
        <3>3. rest = Replacement \/ rest = PutHeaders \o CRLF
            OBVIOUS
        <3> QED
            BY ONLY <3>1, <3>2, <3>3
    <2> HIDE DEF rest
    <2>2. LastHeader \o rest \in Seq(Shown)
        <3>1. LastHeader \in Seq(Shown)
            BY LastHeaderIsOpen
        <3> QED
            BY ONLY <2>1, <3>1, ConcatProperties
    <2>3. out' \in Seq(Shown)
        <3>1. Write(LastHeader \o rest)
            BY <1>2 DEF EndHeaders, rest
        <3> QED
            BY <2>2, <3>1, OpenWrites
    <2>4. CASE ResetHeaderParser
        BY <2>3, <2>4, ResetIsOpen DEF ResetHeaderParser
    <2>5. CASE hp' = [hp EXCEPT !.hbuf = IF LastHeader = <<>> THEN @ ELSE <<>>]
        <3>1. hp' = hp \/ hp' = [hp EXCEPT !.hbuf = <<>>] \/ hp' = [hp EXCEPT !.hbuf = hp.hbuf]
            BY <2>5
        <3>2. <<>> \in Seq(Shown)
            OBVIOUS
        <3>3. IsOpen(hp')
            BY <3>1, <3>2 DEF IsOpen, Fields
        <3> QED
            BY <2>3, <3>3
    <2> QED
        BY <1>2, <2>4, <2>5 DEF EndHeaders
<1>3. CASE Folded(c)
    BY <1>3, KeptIsOpen DEF Folded
<1>4. CASE BeginHeader(c)
    <2>1. Write(LastHeader) /\ hp' = [hp EXCEPT !.hbuf = <<c>>, !.potential = StillRelevant(Names, 0, c)]
        BY <1>4 DEF BeginHeader
    <2>2. <<c>> \in Seq(Shown)
        OBVIOUS
    <2>3. IsOpen(hp')
        BY <2>1, <2>2 DEF IsOpen, Fields
    <2>4. out' \in Seq(Shown)
        BY <2>1, LastHeaderIsOpen, OpenWrites
    <2> QED
        BY <2>3, <2>4
<1> QED
    BY <1>1, <1>2, <1>3, <1>4 DEF NewLine

LEMMA RelevantHeaderNameIsOpen ==
    ASSUME IsOpen(hp), NEW c \in Shown, RelevantHeaderName(c)
    PROVE  IsOpen(hp')
<1>1. CASE \E x : hp' = [hp EXCEPT !.lastTaskStatus = x] \/ hp' = [hp EXCEPT !.potential = x]
    <2>1. PICK x : hp' = [hp EXCEPT !.lastTaskStatus = x] \/ hp' = [hp EXCEPT !.potential = x]
        BY <1>1
    <2>2. IsOpen([hp EXCEPT !.lastTaskStatus = x]) /\ IsOpen([hp EXCEPT !.potential = x])
        BY LabelsAreOpen
    <2> QED
        BY ONLY <2>1, <2>2
<1>2. CASE NameGoesOn(c)
    BY <1>2, InBufferIsOpen, LabelsAreOpen DEF NameGoesOn
<1>3. CASE \E m : hp' = [hp EXCEPT !.relevantHeaders[m] = [name |-> Append(hp.hbuf, ":"), body |-> <<>>]]
    <2> DEFINE name == Append(hp.hbuf, ":")
               kept == [name |-> name, body |-> <<>>]
               old  == hp.relevantHeaders
    <2>1. PICK m : hp' = [hp EXCEPT !.relevantHeaders[m] = kept]
        BY <1>3
    <2>2. name \in Seq(Shown) /\ <<>> \in Seq(Shown)
        <3>1. hp.hbuf \in Seq(Shown) /\ ":" \in Shown
            BY ShownIs DEF IsOpen
        <3> QED
            BY ONLY <3>1, AppendProperties
    <2> HIDE DEF name
    <2>3. kept \in [name : Seq(Shown), body : Seq(Shown)]
        BY <2>2
    <2>4. old \in [Names -> [name : Seq(Shown), body : Seq(Shown)]]
        BY DEF IsOpen
    <2> HIDE DEF kept, old
    <2>5. [old EXCEPT ![m] = kept] \in [Names -> [name : Seq(Shown), body : Seq(Shown)]]
        BY ONLY <2>3, <2>4
    <2>6. hp' = [hp EXCEPT !.relevantHeaders = [old EXCEPT ![m] = kept]]
        BY <2>1 DEF old, IsOpen, Fields
    <2> QED
        BY <2>5, <2>6 DEF IsOpen, Fields
<1>4. CASE EndOfName(c)
    <2>1. \/ \E x : hp' = [hp EXCEPT !.potential = x]
          \/ \E m : hp' = [hp EXCEPT !.relevantHeaders[m] = [name |-> Append(hp.hbuf, ":"), body |-> <<>>]]
        BY <1>4 DEF EndOfName
    <2> QED
        BY <1>1, <1>3, <2>1
<1> QED
    BY <1>1, <1>2, <1>4 DEF RelevantHeaderName

LEMMA ParamsIsOpen ==
    ASSUME IsOpen(hp), NEW c \in Shown, parseHeaderParams(c)
    PROVE  IsOpen(hp')
<1> DEFINE g == InBody(ContentType, CONTENT_TYPE, c)
<1>1. IsOpen(ContentType)
    BY LabelsAreOpen DEF ContentType
<1>2. IsOpen(g)
    BY <1>1, InBodyIsOpen
<1>3. \/ hp' = ContentType \/ hp' = g
      \/ \E x : hp' = [g EXCEPT !.isRfc822Mime = @ \/ x]
      \/ hp' = [g EXCEPT !.nextBoundary = Append(@, c)]
    <2>1. CASE TypeEnds(c)
        BY <2>1 DEF TypeEnds
    <2>2. CASE TypeGoesOn(c) \/ TypeSkips(c) \/ Separator(c) \/ InComment(c)
        BY <2>2 DEF TypeGoesOn, TypeSkips, Separator, InComment, Taken, Dropped
    <2>3. CASE BoundaryValue(c)
        BY <2>3 DEF BoundaryValue, Taken, Dropped
    <2> QED
        BY <2>1, <2>2, <2>3 DEF parseHeaderParams
<1> HIDE DEF g
<1>4. CASE hp' = [g EXCEPT !.nextBoundary = Append(@, c)]
    <2>1. Append(g.nextBoundary, c) \in Seq(Shown)
        BY <1>2, AppendProperties DEF IsOpen
    <2> QED
        BY ONLY <1>2, <1>4, <2>1 DEF IsOpen, Fields
<1>5. CASE \E x : hp' = [g EXCEPT !.isRfc822Mime = @ \/ x]
    BY ONLY <1>2, <1>5 DEF IsOpen, Fields
<1> QED
    BY ONLY <1>1, <1>2, <1>3, <1>4, <1>5

LEMMA HeaderIsOpen ==
    ASSUME IsOpen(hp), out \in Seq(Shown), NEW c \in Shown, parseHeader(c)
    PROVE  IsOpen(hp') /\ out' \in Seq(Shown)
<1>1. CASE NewLine(c)
    BY <1>1, NewLineIsOpen
<1>2. CASE CrHeader(c)
    BY <1>2, KeptIsOpen DEF CrHeader
<1>3. CASE RelevantHeaderName(c)
    BY <1>3, RelevantHeaderNameIsOpen DEF RelevantHeaderName
<1>4. CASE TakenAsItIs(c)
    BY <1>4, KeptIsOpen, LabelsAreOpen DEF TakenAsItIs
<1>5. CASE parseHeaderParams(c)
    BY <1>5, ParamsIsOpen DEF parseHeaderParams
<1> QED
    BY <1>1, <1>2, <1>3, <1>4, <1>5 DEF parseHeader

-----------------------------------------------------------------------------
(* Bodies without secrets.                                                 *)

\* Of a body, what is not replaced is open up to what is being read.
LEMMA ParseBodyIsOpen ==
    ASSUME OpenInv, NEW st, NEW stack \in Seq(Seq(Shown)), NEW from \in 0 .. i, i < Len(buf),
           ~mustBeCensored => \A k \in from + 1 .. i + 1 : buf[k] # "secret",
           UNCHANGED mustBeCensored, ParseBody(buf[i + 1], st, stack, from)
    PROVE  /\ out' \in Seq(Shown) /\ boundaries' \in Seq(Seq(Shown))
           /\ CopyIsOpen(task', mustBeCensored', buf', start', i')
<1>0. i \in 0 .. Len(buf) /\ i + 1 \in from .. Len(buf) /\ from \in 0 .. Len(buf) /\ Len(buf) \in Nat
    BY DEF OpenInv, Buffers
<1>1. CASE Advance /\ start' = from
    <2>1. CopyIsOpen(task', mustBeCensored', buf', start', i')
        BY <1>1 DEF CopyIsOpen, Advance, ParseBody, PopCheck
    <2>2. CASE UNCHANGED out /\ boundaries' = stack
        BY <2>1, <2>2 DEF OpenInv
    <2>3. CASE PopCheck(buf[i + 1], stack) /\ stack # <<>>
        <3>1. Head(stack) \in Seq(Shown) /\ Tail(stack) \in Seq(Seq(Shown))
            BY ONLY <2>3, stack \in Seq(Seq(Shown)), HeadTailProperties
        <3>2. CRLF \in Seq(Shown) /\ <<"-", "-">> \in Seq(Shown) /\ <<>> \in Seq(Shown)
            BY LineEndIsOpen
        <3>3. <<"-", "-">> \o Head(stack) \in Seq(Shown)
            BY ONLY <3>1, <3>2, ConcatProperties
        <3>4. /\ <<"-", "-">> \o Head(stack) \o CRLF \in Seq(Shown)
              /\ <<"-", "-">> \o Head(stack) \o <<"-", "-">> \in Seq(Shown)
            BY ONLY <3>2, <3>3, ConcatProperties
        <3>5. <<"-", "-">> \o Head(stack) \o <<"-", "-">> \o CRLF \in Seq(Shown)
            BY ONLY <3>2, <3>4, ConcatProperties
        <3>6. boundaries' = stack \/ boundaries' = Tail(stack)
            BY <2>3 DEF PopCheck
        <3>7. \/ Write(<<"-", "-">> \o Head(stack) \o <<"-", "-">> \o CRLF)
              \/ Write(<<"-", "-">> \o Head(stack) \o CRLF) \/ Write(<<>>)
            BY <2>3 DEF PopCheck
        <3>8. out' \in Seq(Shown)
            BY <3>2, <3>4, <3>5, <3>7, OpenWrites DEF OpenInv
        <3> QED
            BY <2>1, <3>1, <3>6, <3>8
    <2>4. task' # "DONE_FINAL_BODY"
        BY <1>0, <1>1 DEF ParseBody, PopCheck, Advance
    <2>5. (UNCHANGED out /\ boundaries' = stack) \/ (PopCheck(buf[i + 1], stack) /\ stack # <<>>)
        BY <2>4 DEF ParseBody
    <2> QED
        BY ONLY <2>2, <2>3, <2>5
<1>2. CASE task' = "DONE_FINAL_BODY"
    <2>1. CopyIsOpen(task', mustBeCensored', buf', start', i')
        BY <1>2 DEF CopyIsOpen
    <2>2. Write(IF mustBeCensored THEN <<>> ELSE Buffered(from, i + 1)) /\ boundaries' = stack
        BY <1>2 DEF ParseBody, PopCheck
    <2>3. CASE mustBeCensored
        <3>1. <<>> \in Seq(Shown) /\ Write(<<>>)
            BY <2>2, <2>3
        <3> QED
            BY <2>1, <2>2, <3>1, OpenWrites DEF OpenInv
    <2>4. CASE ~mustBeCensored
        <3>1. Buffered(from, i + 1) \in Seq(Shown)
            BY <1>0, <2>4, OpenBuffer
        <3>2. Write(Buffered(from, i + 1))
            BY <2>2, <2>4
        <3> QED
            BY <2>1, <2>2, <3>1, <3>2, OpenWrites DEF OpenInv
    <2> QED
        BY <2>3, <2>4
<1> QED
    BY <1>1, <1>2 DEF ParseBody

LEMMA OpenInvInit == Init => OpenInv
<1> SUFFICES ASSUME Init PROVE OpenInv
    OBVIOUS
<1>1. Buffers
    BY BuffersInit
<1>2. hp = ResetHp([relevantHeaders |-> <<>>, potential |-> {}, isRfc822Mime |-> FALSE,
                    hbuf |-> <<>>, nextBoundary |-> <<>>, lastTaskStatus |-> "NEW_LINE"])
    BY DEF Init, InitHeaderParser
<1>3. /\ DOMAIN hp = Fields /\ hp.relevantHeaders = [n \in Names |-> NoHeader]
      /\ hp.hbuf = <<>> /\ hp.nextBoundary = <<>>
    BY <1>2 DEF ResetHp, Fields
<1>4. NoHeader \in [name : Seq(Shown), body : Seq(Shown)] /\ <<>> \in Seq(Shown)
    BY DEF NoHeader
<1>5. IsOpen(hp)
    BY ONLY <1>3, <1>4 DEF IsOpen
<1>6. out \in Seq(Shown)
    BY LineEndIsOpen DEF Init
<1>7. boundaries \in Seq(Seq(Shown))
    BY DEF Init
<1>8. CopyIsOpen(task, mustBeCensored, buf, start, i)
    BY DEF Init, CopyIsOpen
<1> QED
    BY <1>1, <1>5, <1>6, <1>7, <1>8 DEF OpenInv

LEMMA OpenInvStep == OpenInv /\ SecretsAreInside /\ [Next]_vars => OpenInv'
<1> SUFFICES ASSUME OpenInv, SecretsAreInside, [Next]_vars PROVE OpenInv'
    OBVIOUS
<1>0. /\ Buffers' /\ IsOpen(hp) /\ out \in Seq(Shown) /\ boundaries \in Seq(Seq(Shown))
      /\ CopyIsOpen(task, mustBeCensored, buf, start, i)
    BY BuffersStep DEF OpenInv
<1>1. /\ buf \in Seq(Chars) /\ input \in Seq(Chars) /\ i \in 0 .. Len(buf) /\ start \in 0 .. i /\ Len(buf) \in Nat
      /\ (task = "PARSING_POP3" => start = 0) /\ <<>> \in Seq(Shown)
    BY DEF OpenInv, Buffers
<1>2. CASE Flush
    <2>1. UNCHANGED <<hp, boundaries>> /\ buf' = <<>> /\ i' = 0 /\ start' = 0 /\ i = Len(buf)
        BY <1>2 DEF Flush, header, body
    <2>2. CopyIsOpen(task', mustBeCensored', buf', start', i')
        BY <2>1 DEF CopyIsOpen
    <2>3. out' \in Seq(Shown)
        <3>1. CASE task = "PARSING_POP3" \/ (~mustBeCensored /\ task \in {"PARSING_BODY", "DONE_PARSING_BODY"})
            <4>1. Write(Buffered(start, i))
                BY <1>2, <3>1 DEF Flush
            <4>2. start \in 0 .. Len(buf) /\ i \in start .. Len(buf) /\ \A k \in start + 1 .. i : buf[k] # "secret"
                BY <1>0, <1>1, <3>1 DEF CopyIsOpen
            <4> QED
                BY <1>0, <4>1, <4>2, OpenBuffer, OpenWrites
        <3>2. CASE ~(task = "PARSING_POP3" \/ (~mustBeCensored /\ task \in {"PARSING_BODY", "DONE_PARSING_BODY"}))
            <4>1. Write(<<>>)
                BY <1>2, <3>2 DEF Flush
            <4> QED
                BY <1>0, <1>1, <4>1, OpenWrites
        <3> QED
            BY <3>1, <3>2
    <2> QED
        BY <1>0, <2>1, <2>2, <2>3 DEF OpenInv
<1>3. CASE FeedMoreBytes
    <2>1. UNCHANGED <<hp, out, boundaries, i, start>> /\ i = 0
        BY <1>1, <1>3 DEF FeedMoreBytes, header, body
    <2>2. CopyIsOpen(task', mustBeCensored', buf', start', i')
        BY <1>1, <2>1 DEF CopyIsOpen
    <2> QED
        BY <1>0, <2>1, <2>2 DEF OpenInv
<1>4. CASE EndOfInput
    <2>1. UNCHANGED <<hp, boundaries, task, mustBeCensored, buf, start, i>>
        BY <1>4 DEF EndOfInput, header, body, level
    <2>2. Append(hp.hbuf, "junk") \in Seq(Shown)
        <3>1. hp.hbuf \in Seq(Shown) /\ "junk" \in Shown
            BY <1>0, ShownIs DEF IsOpen
        <3> QED
            BY ONLY <3>1, AppendProperties
    <2>3. Write(Append(hp.hbuf, "junk")) \/ Write(<<>>)
        BY <1>4 DEF EndOfInput
    <2>4. out' \in Seq(Shown)
        BY <1>0, <1>1, <2>2, <2>3, OpenWrites
    <2> QED
        BY <1>0, <2>1, <2>4 DEF OpenInv
<1>5. CASE ConsumeRemainingBytes
    <2>1. UNCHANGED <<hp, boundaries, task, mustBeCensored, buf, start, i>> /\ task = "DONE_FINAL_BODY"
        BY <1>5 DEF ConsumeRemainingBytes, header, body, level
    <2>2. CRLF \o <<".">> \o CRLF \in Seq(Shown)
        BY LineEndIsOpen
    <2>3. CASE Write(<<>>) \/ Write(CRLF \o <<".">> \o CRLF)
        <3>1. out' \in Seq(Shown)
            BY <1>0, <1>1, <2>2, <2>3, OpenWrites
        <3> QED
            BY <1>0, <2>1, <3>1 DEF OpenInv
    <2>4. CASE ~mustBeCensored /\ \E n \in 1 .. BUF_BLOCK : Read(n) /\ Write(SubSeq(input, 1, n))
        <3>1. PICK n \in 1 .. BUF_BLOCK : Read(n) /\ Write(SubSeq(input, 1, n))
            BY <2>4
        <3>2. n \in 0 .. Len(input) /\ 0 \in 0 .. Len(input) /\ 0 + 1 = 1
            BY <1>1, <3>1, MimeFilterAssumption DEF Read
        <3>3. \A k \in 1 .. Len(input) : input[k] # "secret"
            BY <2>1, <2>4 DEF SecretsAreInside, Contains
        <3>4. SubSeq(input, 1, n) \in Seq(Shown)
            <4>1. SubSeq(input, 0 + 1, n) \in Seq(Shown)
                BY <1>1, <3>2, <3>3, OpenPiece
            <4> QED
                BY <3>2, <4>1
        <3>5. out' \in Seq(Shown)
            BY <1>0, <3>1, <3>4, OpenWrites
        <3> QED
            BY <1>0, <2>1, <3>5 DEF OpenInv
    <2> QED
        BY <1>5, <2>3, <2>4 DEF ConsumeRemainingBytes
<1>6. CASE Pop3
    <2>1. /\ UNCHANGED <<hp, boundaries, start, buf, mustBeCensored>> /\ task = "PARSING_POP3" /\ i < Len(buf)
          /\ \/ task' = "PARSING_HEADERS" /\ Write(Buffered(0, i))
             \/ i' = i + 1 /\ UNCHANGED <<task, out>>
        BY <1>6 DEF Pop3, Advance, header, body, level
    <2>2. \A k \in start + 1 .. i : buf[k] # "secret"
        BY <1>0, <2>1 DEF CopyIsOpen
    <2>3. buf[i + 1] # "secret"
        BY <2>1 DEF SecretsAreInside
    <2>4. CASE task' = "PARSING_HEADERS" /\ Write(Buffered(0, i))
        <3>1. Buffered(0, i) \in Seq(Shown)
            <4>1. 0 \in 0 .. Len(buf) /\ i \in 0 .. Len(buf) /\ \A k \in 0 + 1 .. i : buf[k] # "secret"
                BY <1>1, <2>1, <2>2
            <4> QED
                BY <4>1, OpenBuffer
        <3>2. out' \in Seq(Shown)
            BY <1>0, <2>4, <3>1, OpenWrites
        <3>3. CopyIsOpen(task', mustBeCensored', buf', start', i')
            BY <2>4 DEF CopyIsOpen
        <3> QED
            BY <1>0, <2>1, <3>2, <3>3 DEF OpenInv
    <2>5. CASE i' = i + 1 /\ UNCHANGED <<task, out>>
        <3>1. \A k \in start + 1 .. i + 1 : buf[k] # "secret"
            <4>1. \A k \in start + 1 .. i + 1 : k \in start + 1 .. i \/ k = i + 1
                BY <1>1
            <4> QED
                BY <2>2, <2>3, <4>1
        <3>2. CopyIsOpen(task', mustBeCensored', buf', start', i')
            BY <2>1, <2>5, <3>1 DEF CopyIsOpen
        <3> QED
            BY <1>0, <2>1, <2>5, <3>2 DEF OpenInv
    <2> QED
        BY <2>1, <2>4, <2>5
<1>7. CASE Header
    <2>1. /\ task = "PARSING_HEADERS" /\ i < Len(buf) /\ parseHeader(buf[i + 1]) /\ UNCHANGED boundaries
        BY <1>7 DEF Header, body
    <2>2. buf[i + 1] \in Chars /\ buf[i + 1] # "secret"
        BY <1>1, <2>1 DEF SecretsAreInside
    <2>3. buf[i + 1] \in Shown
        BY <2>2, ShownIs DEF Letter
    <2>4. IsOpen(hp') /\ out' \in Seq(Shown)
        BY <1>0, <2>1, <2>3, HeaderIsOpen
    <2>5. task' \in {"PARSING_HEADERS", "DONE_PARSING_HEADERS"}
        BY <2>1, ParseHeaderTasks
    <2>6. CopyIsOpen(task', mustBeCensored', buf', start', i')
        BY <2>5 DEF CopyIsOpen
    <2> QED
        BY <1>0, <2>1, <2>4, <2>6 DEF OpenInv
<1>8. CASE BeginBody
    <2>1. /\ task = "DONE_PARSING_HEADERS" /\ i < Len(buf) /\ ParseBody(buf[i + 1], "NEW_LINE_BODY", Pushed, i)
          /\ hp' = ResetHp(hp) /\ UNCHANGED mustBeCensored
        BY <1>8 DEF BeginBody, ResetHeaderParser, level
    <2>2. Pushed \in Seq(Seq(Shown))
        <3>1. <<hp.nextBoundary>> \in Seq(Seq(Shown))
            <4>1. hp.nextBoundary \in Seq(Shown)
                BY <1>0 DEF IsOpen
            <4> QED
                BY ONLY <4>1
        <3>2. <<hp.nextBoundary>> \o boundaries \in Seq(Seq(Shown))
            BY ONLY <1>0, <3>1, ConcatProperties
        <3>3. Pushed = <<hp.nextBoundary>> \o boundaries \/ Pushed = boundaries
            BY DEF Pushed
        <3> QED
            BY ONLY <1>0, <3>2, <3>3
    <2>3. i \in 0 .. i /\ \A k \in i + 1 .. i + 1 : k = i + 1
        BY <1>1
    <2>4. ~mustBeCensored => \A k \in i + 1 .. i + 1 : buf[k] # "secret"
        BY <2>1, <2>3 DEF SecretsAreInside
    <2>5. /\ out' \in Seq(Shown) /\ boundaries' \in Seq(Seq(Shown))
          /\ CopyIsOpen(task', mustBeCensored', buf', start', i')
        BY <2>1, <2>2, <2>3, <2>4, ParseBodyIsOpen
    <2>6. IsOpen(hp')
        BY <1>0, <2>1, ResetIsOpen
    <2> QED
        BY <1>0, <2>5, <2>6 DEF OpenInv
<1>9. CASE Body
    <2>1. /\ task = "PARSING_BODY" /\ i < Len(buf) /\ ParseBody(buf[i + 1], status, boundaries, start)
          /\ UNCHANGED <<hp, mustBeCensored>>
        BY <1>9 DEF Body, header, level
    <2>2. ~mustBeCensored => \A k \in start + 1 .. i + 1 : buf[k] # "secret"
        <3>1. \A k \in start + 1 .. i + 1 : k \in start + 1 .. i \/ k = i + 1
            BY <1>1
        <3>2. ~mustBeCensored => \A k \in start + 1 .. i : buf[k] # "secret"
            BY <1>0, <2>1 DEF CopyIsOpen
        <3>3. ~mustBeCensored => buf[i + 1] # "secret"
            BY <2>1 DEF SecretsAreInside
        <3> QED
            BY <3>1, <3>2, <3>3
    <2>3. /\ out' \in Seq(Shown) /\ boundaries' \in Seq(Seq(Shown))
          /\ CopyIsOpen(task', mustBeCensored', buf', start', i')
        BY <1>0, <1>1, <2>1, <2>2, ParseBodyIsOpen
    <2> QED
        BY <1>0, <2>1, <2>3 DEF OpenInv
<1>10. CASE EndOfPart
    <2>1. /\ task = "DONE_PARSING_BODY" /\ i < Len(buf) /\ task' = "PARSING_HEADERS"
          /\ Write(IF mustBeCensored THEN <<>> ELSE Buffered(start, i + 1))
          /\ hp' = ResetHp(hp) /\ UNCHANGED boundaries
        BY <1>10 DEF EndOfPart, ResetHeaderParser
    <2>2. ASSUME ~mustBeCensored PROVE out' \in Seq(Shown)
        <3>1. \A k \in start + 1 .. i + 1 : k \in start + 1 .. i \/ k = i + 1
            BY <1>1
        <3>2. \A k \in start + 1 .. i : buf[k] # "secret"
            BY <1>0, <2>1, <2>2 DEF CopyIsOpen
        <3>3. buf[i + 1] # "secret"
            BY <2>1 DEF SecretsAreInside
        <3>4. start \in 0 .. Len(buf) /\ i + 1 \in start .. Len(buf)
            BY <1>1, <2>1
        <3>5. Buffered(start, i + 1) \in Seq(Shown)
            BY <3>1, <3>2, <3>3, <3>4, OpenBuffer
        <3>6. Write(Buffered(start, i + 1))
            BY <2>1, <2>2
        <3> QED
            BY <1>0, <3>5, <3>6, OpenWrites
    <2>3. out' \in Seq(Shown)
        <3>1. CASE mustBeCensored
            <4>1. Write(<<>>)
                BY <2>1, <3>1
            <4> QED
                BY <1>0, <1>1, <4>1, OpenWrites
        <3> QED
            BY <2>2, <3>1
    <2>4. CopyIsOpen(task', mustBeCensored', buf', start', i') /\ IsOpen(hp')
        BY <1>0, <2>1, ResetIsOpen DEF CopyIsOpen
    <2> QED
        BY <1>0, <2>1, <2>3, <2>4 DEF OpenInv
<1>11. CASE UNCHANGED vars
    <2>1. UNCHANGED <<hp, out, boundaries, task, mustBeCensored, buf, start, i>>
        BY <1>11 DEF vars, header, body, level
    <2> QED
        BY <1>0, <2>1 DEF OpenInv
<1> QED
    BY <1>2, <1>3, <1>4, <1>5, <1>6, <1>7, <1>8, <1>9, <1>10, <1>11 DEF Next

\* Of all mail, well formed or not, whose secrets are read in the bodies of parts that are to be
\* replaced: none of them is written, not with what is left of the buffer when it is full, not
\* with the boundary after the part, not with the headers (stripmime.c:191, 229 and 281-314).
THEOREM CensoredStaysInHolds == Spec /\ []SecretsAreInside => []CensoredStaysIn
<1>1. OpenInv => CensoredStaysIn
    <2> SUFFICES ASSUME out \in Seq(Shown) PROVE ~Contains(out, "secret")
        BY DEF OpenInv, CensoredStaysIn
    <2>1. \A k \in 1 .. Len(out) : out[k] \in Shown
        OBVIOUS
    <2> QED
        BY <2>1, ShownIs DEF Contains
<1> QED
    BY <1>1, OpenInvInit, OpenInvStep, PTL DEF Spec
=============================================================================
