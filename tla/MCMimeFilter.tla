---------------------------- MODULE MCMimeFilter ----------------------------
(***************************************************************************)
(* Messages for MimeFilter.  Words of a few letters spell the names and    *)
(* types, so that each begins as some other does; "secret" is only in      *)
(* bodies that are to be replaced.                                         *)
(***************************************************************************)
EXTENDS MimeFilter

MCLower     == [C |-> "c", I |-> "i", B |-> "b", H |-> "h"]
MCHeaders   == << <<"c", "ty">>, <<"c", "te">>, <<"c", "len">>, <<"c", "md">> >>
MCMultipart == <<"m", "/", "*">>
MCRfc822    == <<"e", "/", "r">>
MCBoundary  == <<"b", "y">>

\* The types i/*, t/hp and m/r, as they are written in the environment.
MCMedias   == <<"i", "/", "*", ",", "SP", "t", "/", "H", "p", ",", "m", "/", "r">>
MCPatterns == {<<"i", "/", "*">>, <<"t", "/", "H", "p">>, <<"m", "/", "r">>}

M == INSTANCE MimeMail WITH PATTERNS <- MCPatterns, LOWER <- MCLower, CONTENT_TYPE <- <<"C", "ty">>,
                            BOUNDARY <- <<"B", "y">>

Text  == <<"t", "/", "p">>
Other == <<"x", ":", "x", "CR", "LF">>
Plain == M!Leaf(Text, <<>>, M!Space, <<>>, Other, <<>>, <<"x">>)
Image == M!Leaf(<<"I", "/", "p">>, <<>>, M!Space, Other, <<>>, <<>>, <<"secret">>)

\* Parts whose headers are folded or commented, are about the content, or begin like
\* those of another name or type.
Transfer == M!Field(<<"c", "te">>, M!Space, <<"x", "CR", "LF", "SP", "x">>)
Length   == M!Field(<<"c", "len">>, M!Space, <<"x">>)
Headers  ==
    {M!Leaf(type, rest, lead, before, after, about, IF M!Censored(type) THEN <<"secret">> ELSE <<"x">>) :
        type   \in {Text, <<"t", "/", "h", "p">>, <<"t", "/", "h">>, <<"t", "/", "h", "p", "x">>, <<"I", "/">>},
        rest   \in {<<>>, <<";", "SP", "x", "=", "quote", "i", "quote">>, <<"SP", "(", "note", ")">>,
                    <<";">> \o M!Fold \o <<"x", "=", "x">>},
        lead   \in {<<>>, M!Fold, <<"SP", "(", "note", ")">>},
        before \in {<<>>}, after \in {M!Field(<<"C", "x">>, M!Fold, <<"x">>)}, about \in {Length}}
    \cup {M!Leaf(type, <<>>, M!Space, before, after, about, IF M!Censored(type) THEN <<"secret">> ELSE <<"x">>) :
        type   \in {Text, <<"i", "/", "p">>},
        before \in {<<>>, M!Field(<<"x">>, M!Space, <<"C", "ty", ":">>)},
        after  \in {<<>>, M!Field(<<"c", "lex">>, M!Space, <<"x">>)},
        about  \in {<<>>, Transfer, Transfer \o Length}}

Dashes == M!Leaf(Text, <<>>, M!Space, <<>>, <<>>, Transfer,
                 <<"CR", "LF", "-", "x", "-", "-", "CR", "LF", "-", "-", "x">>)

\* A multipart that announces its boundary b as params says.
Multi(type, params, b, preamble, ps) == M!Multi(type, params, params, b, preamble, ps)

Mixed(ps)       == Multi(<<"m", "/", "x">>, M!AnnouncedQuoted(M!Fold, <<"b", "c">>), <<"b", "c">>, <<>>, ps)
Alternative(ps) == Multi(<<"m", "/", "p">>, M!Announced(M!Space, <<"b">>), <<"b">>, <<>>, ps)
Related(ps)     == Multi(<<"m", "/", "r">>, M!Announced(M!Space, <<"c">>), <<"c">>, <<>>, ps)
Forwarded(m)    == M!Forward(<<"e", "/", "r">>, m)

OneOrTwo(S) == {<<p>> : p \in S} \cup {<<p, q>> : p \in S, q \in S}

\* Multiparts in others: those of type m/r are to be replaced as a whole.
Inner == {Alternative(ps) : ps \in OneOrTwo({Plain, Image})} \cup {Related(<<Plain, Image>>)}

\* Parts that are made of others, multiparts or forwarded messages.
Nested == Inner \cup {Forwarded(m) : m \in {Plain, Image, Alternative(<<Image>>), Related(<<Plain>>)}}

\* The ways in which a multipart announces its boundary, the last of them in a line
\* that ends within the quotes (stripmime.c:533-535).
Announcing ==
    LET b == <<"b", "c">>
        note == <<"SP", "(", "note", ")">>
        announced == {M!Announced(M!Space, b), M!AnnouncedQuoted(M!Fold, b), M!AnnouncedQuoted(M!Space, b),
                      note \o M!Announced(<<>>, b), M!AnnouncedQuoted(<<>>, b) \o note,
                      <<";", "b", "=", "x">> \o M!AnnouncedQuoted(M!Fold, b),
                      M!Fold \o <<";", "x", "=", "b", "(", "note", ")">> \o M!Announced(M!Space, b)}
        broken == M!AnnouncedQuoted(M!Space, <<"b", "CR", "LF", "c">>)
        whole(params, kept) == M!Multi(<<"m", "/", "x">>, params, kept, b, <<"x", "CR", "LF">>, <<Image>>)
    IN  {whole(params, params) : params \in announced} \cup {whole(broken, M!AnnouncedQuoted(M!Space, b))}

\* Three levels.
Deep == {Mixed(<<Forwarded(Alternative(<<Plain, inner>>)), Image>>) : inner \in {Related(<<Plain>>), Mixed(<<Image>>)}}

MCMails ==
    LET outer == {Mixed(ps) : ps \in OneOrTwo({Plain, Dashes, Image})}
                 \cup {Mixed(<<p, q>>) : p \in Nested, q \in {Plain, Image}}
                 \cup {Mixed(<<Image, p>>) : p \in Nested} \cup Announcing
    IN  {M!Told("+"), M!Told("-"), M!Then(M!Told("-"), M!Reply(Image))}
        \cup {M!Reply(p) : p \in Headers \cup Nested \cup outer \cup Deep}

\* Two messages in one connection, the second to be replaced.
MCSecond == {M!Then(M!Reply(Plain), M!Reply(Image))}
=============================================================================
