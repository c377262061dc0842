--------------------------- MODULE MCPop3Session ---------------------------
(***************************************************************************)
(* Small instances of Pop3Session; the numbers are in the .cfg files.      *)
(***************************************************************************)
EXTENDS Pop3Session

\* PIPELINING in two halves, so that a read may cut it, or in one.
MCPipelining == <<"P", "Q">>
MCWord       == <<"P">>

\* For reads of six characters of which four are kept.  Cut through the word;
\* in one short read; word in the middle of a line, and not at all.
MCCapabilities == {
    <<"x", "x", "x", "CR", "LF", "P", "Q", "CR", "LF", ".", "CR", "LF">>,
    <<"x", "CR", "LF", "x", "CR", "LF", "P", "Q", "LF">>,
    <<"P", "Q", "CR", "LF">>,
    <<"x", "x", "x", "x", "P", "Q", "CR", "LF">>,
    <<"x", "x", "x", "x", "x", "CR", "LF", ".", "CR", "LF">>}

\* Replies to CAPA of one piece, and of two of which the first or the second tells.
MCAnnounced == {<<"P">>}
MCPieces    == {<<"P", "LF">>, <<"LF", "P">>}

\* Replies of up to four pieces, an error that begins like the good-bye among
\* them; and one of two, which a pipe of one and a socket of two cut.
MCReplies == {<<"LF">>, <<"x", "LF">>, <<"-ERR", "LF">>, <<"x", "x", "LF">>, <<"x", "x", "x", "LF">>}
MCShort   == {<<"x", "LF">>}
MCGoodbye == <<"-ERR", "Disconnected", "LF">>

\* Where the client waits for each reply, the instance is one of those the theorems of
\* DialogueProofs are about.
ASSUME MCInTurnAssumption == IN_TURN => InTurn /\ Readable /\ Civil
=============================================================================
