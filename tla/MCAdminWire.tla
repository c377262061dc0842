---------------------------- MODULE MCAdminWire ----------------------------
(***************************************************************************)
(* Small instances of AdminWire, with three for the 255 of the code.       *)
(***************************************************************************)
EXTENDS AdminWire

CONSTANTS a1, a2, ipv4, ipv6, mail, pop3filter

MCAdmins == {a1, a2}
MCOne    == {a1}

MCPassword == <<2>>
MCDirectories == {<<1>>}
MCAddresses == {ipv4, ipv6}
MCHosts == {mail, <<1, 1, 1, 0>>}

\* Contents that fit a frame, and then some that fill one or need two.
MCShort == {<<>>, <<1>>, <<2>>, <<1, 2>>}
MCLong  == MCShort \cup {<<1, 2, 1>>, <<2, 1, 2, 2>>}

\* The names of metrics are characters of a content, too.
MCMetrics == <<1, 2>>
MCFigures == {1}

Spoken(letter) == <<DASH, KeyOf[letter]>>
Said(letters, contents) ==
    {Spoken(letter) \o <<SPACE>> \o c : letter \in letters, c \in contents \ {<<>>}}

\* Lines as they should be, and then some with a space or two too many, two commands,
\* no argument, no name of a metric, no space or no hyphen, and one that is too long.
MCShortLines == Said(Commands \ {"v"}, MCShort) \cup {Spoken("v"), Spoken("z")}
MCLongLines  == Said({"m", "e", "z"}, MCLong) \cup Said({"M", "f"}, {<<2>>}) \cup {
    <<>>, <<SPACE, SPACE>> \o Spoken("v"), <<SPACE, SPACE, SPACE>> \o Spoken("m") \o <<SPACE, 1>>,
    Spoken("v") \o <<SPACE>> \o Spoken("e") \o <<SPACE, 1>>, Spoken("h") \o <<SPACE>> \o Spoken("z"),
    Spoken("z") \o <<SPACE, DASH>>, Spoken("m"), Spoken("m") \o <<SPACE>>, Spoken("m") \o <<1, 2>>,
    <<1>>, <<DASH, 1>>, Spoken("v") \o <<1>>, Spoken("h") \o <<1, 2>>, Spoken("q"), Spoken("q") \o <<SPACE, 1>>,
    Spoken("t") \o <<SPACE, 1, 2, 1, 2, 1>>}

\* Pairs of an option and its argument, and operands.
Line(options, operands) ==
    [options |-> [i \in DOMAIN options |-> [option |-> options[i][1], argument |-> options[i][2]]],
     operands |-> operands]

MCPlain == {Line(<<>>, <<mail>>)}

\* Settings that are given, repeated and refused; ports at the ends of their range,
\* beyond it, empty and with a letter (10); no operand, no option, no such host,
\* and an option nobody knows.
MCCommandLines == MCPlain \cup {
    Line(<<<<"m", <<1, 2>>>>, <<"M", <<2>>>>, <<"t", <<1>>>>, <<"m", <<2, 1, 2, 2>>>>>>, <<mail>>),
    Line(<<<<"e", <<1>>>>, <<"e", <<2>>>>, <<"l", ipv6>>, <<"l", ipv4>>, <<"L", mail>>, <<"m", <<1>>>>>>, <<mail>>),
    Line(<<<<"o", <<6, 5, 5, 3, 5>>>>, <<"p", <<0, 2, 5>>>>, <<"P", <<>>>>>>, <<mail>>),
    Line(<<<<"o", <<6, 5, 5, 4, 6>>>>, <<"p", <<1, 10>>>>, <<"P", <<9, 9, 5>>>>, <<"P", <<10>>>>>>, <<mail>>),
    Line(<<<<"p", <<6, 5, 5, 3, 6>>>>, <<"p", <<1, 1, 1, 0>>>>>>, <<>>),
    Line(<<<<"t", <<1, 2>>>>>>, <<>>),
    Line(<<>>, <<>>),
    Line(<<<<"v", <<>>>>>>, <<>>)}
=============================================================================
