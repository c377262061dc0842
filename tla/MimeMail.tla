------------------------------ MODULE MimeMail ------------------------------
(***************************************************************************)
(* Messages, put together from their parts, and what a filter that         *)
(* replaces the parts of some types is to make of them.                    *)
(*                                                                         *)
(* A part is a record: text is how it comes from the origin, filtered what *)
(* is to come out, and cut says that its end is inside something that has  *)
(* been replaced, where the filter ends the line itself.  The headers that *)
(* are about the content come out after all others.                        *)
(***************************************************************************)
EXTENDS Sequences, SequencesExt

CONSTANTS
    PATTERNS,      \* the types that are to be replaced, some ending in *
    LOWER,         \* the small letters
    CONTENT_TYPE, BOUNDARY   \* the names of the header and of its parameter

Eol         == <<"CR", "LF">>
Fold        == Eol \o <<"SP">>
Delimiter(b) == <<"-", "-">> \o b
Replacement == <<"replaced">> \o Eol

\* The end of a reply of more than one line.
Final       == Eol \o <<".">> \o Eol

Small(word) == [k \in DOMAIN word |-> IF word[k] \in DOMAIN LOWER THEN LOWER[word[k]] ELSE word[k]]

Matches(type, pattern) ==
    \/ Small(type) = Small(pattern)
    \/ Last(pattern) = "*" /\ IsPrefix(Small(Front(pattern)), Small(type))

Censored(type) == \E pattern \in PATTERNS : Matches(type, pattern)

\* A header of one line or more: lead stands before its value.
Field(name, lead, value) == name \o <<":">> \o lead \o value \o Eol

Space == <<"SP">>

\* How a boundary is announced, in quotes or not.
Announced(lead, b)       == <<";">> \o lead \o BOUNDARY \o <<"=">> \o b
AnnouncedQuoted(lead, b) == Announced(lead, <<"quote">> \o b \o <<"quote">>)

\* A part that is not made of others: its type, the rest of that header, the header's
\* lead, other headers before it, other headers after it, headers about the content, its body.
Leaf(type, rest, lead, before, after, about, content) ==
    LET cut  == Censored(type)
        kept == Field(CONTENT_TYPE, lead, type \o rest) \o about
    IN
    [text     |-> before \o Field(CONTENT_TYPE, lead, type \o rest) \o after \o about \o Eol \o content,
     filtered |-> before \o after \o (IF cut THEN Replacement ELSE kept \o Eol \o content),
     cut      |-> cut]

\* The end of part p, before the delimiter of the next or of its multipart.
Ended(p) == IF p.cut THEN p.filtered ELSE p.filtered \o Eol

\* A multipart of the parts in seq ps, with a text before the first of them;
\* params announces boundary b, and comes out as kept.
Multi(type, params, kept, b, preamble, ps) ==
    LET n == Len(ps)
        before(k) == IF k = 1 THEN preamble ELSE Eol
        texts     == [k \in 1 .. n |-> before(k) \o Delimiter(b) \o Eol \o ps[k].text]
        filtereds == [k \in 1 .. n |-> Delimiter(b) \o Eol \o Ended(ps[k])]
        cut       == Censored(type) \/ ps[n].cut
        headers(p) == Field(CONTENT_TYPE, Space, type \o p) \o Eol
    IN
    [text     |-> headers(params) \o FlattenSeq(texts) \o Eol \o Delimiter(b) \o <<"-", "-">>,
     filtered |-> IF Censored(type) THEN Replacement
                  ELSE headers(kept) \o preamble \o FlattenSeq(filtereds) \o Delimiter(b)
                       \o <<"-", "-">> \o (IF cut THEN Eol ELSE <<>>),
     cut      |-> cut]

\* A message that is a part of another; type is that of such parts.
Forward(type, m) ==
    LET headers == Field(CONTENT_TYPE, Space, type) \o Eol IN
    [text     |-> headers \o m.text,
     filtered |-> IF Censored(type) THEN Replacement ELSE headers \o m.filtered,
     cut      |-> Censored(type) \/ m.cut]

\* The answer to a command that has only a status line, c being + or -.
Told(c) == [text |-> <<c, "x">> \o Eol, filtered |-> <<c, "x">> \o Eol]

\* The answer to RETR: the status line, the message, the final line.
Reply(p) ==
    [text     |-> Told("+").text \o p.text \o Final,
     filtered |-> Told("+").filtered \o p.filtered \o Final]

\* Two answers, one after the other.
Then(r, s) == [text |-> r.text \o s.text, filtered |-> r.filtered \o s.filtered]
=============================================================================
