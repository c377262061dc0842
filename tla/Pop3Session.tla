---------------------------- MODULE Pop3Session ----------------------------
(***************************************************************************)
(* The bytes of one POP3 session: what the client writes on its way to the *)
(* origin server, and what the origin answers on its way through the       *)
(* filter to the client (src/Proxy/pop3parser.c and the three loops of     *)
(* selectLoop that call it).                                               *)
(*                                                                         *)
(* A token stands for a command, or for a piece of a reply; one of the     *)
(* reply to CAPA is a character of it.  Sockets and pipes are bounded      *)
(* sequences of tokens.  The proxy reads at most BUFF_SIZE of them at a    *)
(* time.  It writes to the origin with a socket that was never made        *)
(* non-blocking, and so waits for room; to the filter with an atomic write *)
(* that fails, unnoticed, when there is no room; to the client with a      *)
(* write that may be cut short, unnoticed as well.                         *)
(*                                                                         *)
(* An origin may reset its connection.  The socket then reports an error   *)
(* once, to the write or to the read that first meets it; another write    *)
(* raises SIGPIPE and ends the process, which no step stands for.          *)
(*                                                                         *)
(* Not in this module: crashes, refusals and an origin that closes without *)
(* a reset (Proxy), and what a filter other than cat does to a message.    *)
(***************************************************************************)
EXTENDS Integers, SequencesExt

CONSTANTS
    COMMANDS,       \* bound: commands the client has for the origin
    BUFF_SIZE,      \* tokens one read of the proxy takes
    SOCKET,         \* room in each direction of a socket
    PIPE,           \* room in a pipe
    BUFFER_END,     \* how much of a read is kept for the next one (15)
    CAPA_TEXTS,     \* what the reply to CAPA may be: sequences of characters
    PIPELINING,     \* the word that is looked for in it
    REPLIES,        \* what the reply to any other command may be
    GOODBYE,        \* what an origin that shuts down says
    DISMISSES,      \* does it, ever
    RESETS,         \* may the origin reset its connection
    IN_TURN,        \* does the client wait for each reply before it goes on
    WHOLE           \* does a reply arrive at once, if there is room for it

ASSUME Pop3SessionAssumption ==
    /\ {COMMANDS, BUFF_SIZE, SOCKET, PIPE} \subseteq Nat \ {0}
    /\ BUFFER_END \in 1 .. BUFF_SIZE
    /\ \A text \in CAPA_TEXTS \cup REPLIES \cup {GOODBYE, PIPELINING} :
            text \in Seq(Range(text)) /\ text # <<>>
    /\ {DISMISSES, RESETS, IN_TURN, WHOLE} \subseteq BOOLEAN

VARIABLES
    sent, clientClosed, clientGot,  \* the client
    c2p, p2o, o2p, p2c,             \* the two sockets, each direction
    filterIn, filterOut,            \* the pipes of the filter
    capaText,                       \* the origin: its capabilities, which stay the same,
    taken, pending, serial,         \* commands taken, reply under way,
    dismissed,                      \* has it said good-bye,
    reset,                          \* has it reset its connection, and was it noticed
    pc, ready, buffer,              \* the proxy
    previousEnd,                    \* end of the last read of capabilities, <<>> before
    transferred, bytes,             \* rf.bytesTransferred, and the metric BYTES
    lost                            \* what a write to the origin failed with

client   == <<sent, clientClosed, clientGot>>
channels == <<c2p, p2o, o2p, p2c, filterIn, filterOut>>
origin   == <<capaText, taken, pending, serial, dismissed, reset>>
metrics  == <<transferred, bytes, lost>>
proxy    == <<pc, ready, buffer, previousEnd, metrics>>
vars     == <<client, channels, origin, proxy>>

\* Commands are numbered as the client sends them; CAPA is the proxy's own, and
\* the greeting and the good-bye of the origin answer nothing.
CAPA     == 0
GREETING == -1
BYE      == -2

\* A token of a reply: its number among all the origin sends, what it answers,
\* what it says and whether it is the last one.
Reply(to, text) ==
    [j \in DOMAIN text |-> [n |-> serial + j, to |-> to, text |-> text[j], last |-> j = Len(text)]]

Take(s, n) == SubSeq(s, 1, IF n < Len(s) THEN n ELSE Len(s))
Drop(s, n) == SubSeq(s, (IF n < Len(s) THEN n ELSE Len(s)) + 1, Len(s))

Init ==
    /\ sent = 0 /\ clientClosed = FALSE /\ clientGot = <<>>
    /\ c2p = <<>> /\ p2o = <<>> /\ o2p = <<>> /\ p2c = <<>>
    /\ filterIn = <<>> /\ filterOut = <<>>
    /\ capaText \in CAPA_TEXTS /\ taken = <<>> /\ serial = 1 /\ dismissed = FALSE /\ reset = "no"
    /\ pending = <<[n |-> 1, to |-> GREETING, text |-> "LF", last |-> TRUE]>>
    /\ pc = "greet" /\ ready = {} /\ buffer = <<>> /\ previousEnd = <<>>
    /\ transferred = 0 /\ bytes = 0 /\ lost = <<>>

-----------------------------------------------------------------------------
(* The proxy.                                                              *)

\* closeAll: whatever was on its way through the proxy is gone.
CloseAll ==
    /\ pc' = "closed" /\ ready' = {} /\ buffer' = <<>> /\ previousEnd' = <<>>
    /\ c2p' = <<>> /\ o2p' = <<>> /\ filterIn' = <<>> /\ filterOut' = <<>>

\* A write to the client's non-blocking socket takes what fits.
ToClient(s) == p2c \o Take(s, SOCKET - Len(p2c))

\* Mutant: the last place of the pipe is taken for none.
ToFilterOffByOne(s) == IF Len(filterIn) + Len(s) < PIPE THEN filterIn \o s ELSE filterIn

\* Mutant: the pipe is taken for one without end.
ToFilterUnbounded(s) == filterIn \o s

\* A write of at most PIPE_BUF bytes to a non-blocking pipe is all or nothing.
ToFilter(s) == IF Len(filterIn) + Len(s) <= PIPE THEN filterIn \o s ELSE filterIn

\* The greeting is read, waited for, when the client is accepted; its buffer is
\* twice as long as that of the other reads, and it bypasses the filter.
Greet ==
    /\ pc = "greet" /\ o2p # <<>>
    /\ p2c' = ToClient(Take(o2p, 2 * BUFF_SIZE))
    /\ o2p' = Drop(o2p, 2 * BUFF_SIZE)
    /\ pc' = "select"
    /\ UNCHANGED <<client, c2p, p2o, filterIn, filterOut, origin, ready, buffer, previousEnd, metrics>>

Select ==
    /\ pc = "select"
    /\ ready' = {s \in {"client", "origin", "filter"} :
                    \/ s = "client" /\ (c2p # <<>> \/ clientClosed)
                    \/ s = "origin" /\ (o2p # <<>> \/ reset # "no")
                    \/ s = "filter" /\ filterOut # <<>>}
    /\ ready' # {}
    /\ pc' = "clients"
    /\ UNCHANGED <<client, channels, origin, buffer, previousEnd, metrics>>

\* Mutant: the count of the last session attended to is still there.
AttendClientKeepsCount ==
    /\ pc = "clients"
    /\ IF "client" \in ready
          THEN reset = "no" /\ Len(p2o) < SOCKET /\ p2o' = Append(p2o, CAPA) /\ pc' = "capa"
          ELSE UNCHANGED p2o /\ pc' = "origins"
    /\ UNCHANGED <<client, c2p, o2p, p2c, filterIn, filterOut, origin, ready, buffer, previousEnd, metrics>>

\* attendClient asks the origin for its capabilities each time the client has
\* something to say.
AttendClient ==
    /\ pc = "clients"
    /\ IF "client" \in ready
          THEN reset = "no" /\ Len(p2o) < SOCKET /\ p2o' = Append(p2o, CAPA) /\ transferred' = 0 /\ pc' = "capa"
          ELSE UNCHANGED <<p2o, transferred>> /\ pc' = "origins"
    /\ UNCHANGED <<client, c2p, o2p, p2c, filterIn, filterOut, origin, ready, buffer, previousEnd, bytes, lost>>

Text(tokens) == [i \in DOMAIN tokens |-> tokens[i].text]

LineStarts(text) == {i \in DOMAIN text : i = 1 \/ text[i - 1] = "LF"}

\* findPipelining goes through the lines up to the first that begins with the
\* word, or is empty.  The beginning of the text counts as that of a line.
FindPipelining(text) ==
    LET says(i, what) == IsPrefix(what, SubSeq(text, i, Len(text)))
        hits == {i \in LineStarts(text) : says(i, <<"CR", "LF">>) \/ says(i, PIPELINING)}
    IN  IF hits = {} THEN "FALSE"
        ELSE IF says(Min(hits), PIPELINING) THEN "TRUE" ELSE "NOT_SUPPORTED"

\* Mutant: each read is searched on its own.
SearchedAlone(answer) == Text(answer)

\* extendedBuff: the end of the read before, in case the word was cut by it.
Searched(answer) == previousEnd \o Text(answer)

\* Mutant: one piece of the answer is taken, and what follows it is left there.
PipeliningSupportShort ==
    /\ pc = "capa" /\ o2p # <<>>
    /\ o2p' = Tail(o2p)
    /\ pc' = "forward"
    /\ UNCHANGED <<client, c2p, p2o, p2c, filterIn, filterOut, origin, ready, buffer, previousEnd, metrics>>

\* pipeliningSupport takes whatever is there to be read for the reply to CAPA.
\* The word in it is enough; a read that fills the buffer without it is followed
\* by another, and a shorter one decides.  An empty line, NOT_SUPPORTED, is -1:
\* for attendClient, and for the loop after the first read, that is true.
PipeliningSupport ==
    /\ pc = "capa" /\ o2p # <<>>
    /\ LET answer == Take(o2p, BUFF_SIZE)
           found  == FindPipelining(Searched(answer))
           full   == Len(answer) = BUFF_SIZE
           first  == previousEnd = <<>>
           yes    == found = "TRUE" \/ (found = "NOT_SUPPORTED" /\ (full => first))
           again  == found = "FALSE" /\ full
       IN
       \/ /\ yes \/ again
          /\ o2p' = Drop(o2p, BUFF_SIZE)
          /\ pc' = IF yes THEN "forward" ELSE "capa"
          /\ previousEnd' = IF yes THEN <<>>
                            ELSE SubSeq(Text(answer), BUFF_SIZE - BUFFER_END + 1, BUFF_SIZE)
          /\ UNCHANGED <<c2p, filterIn, filterOut, ready, buffer>>
       \/ ~yes /\ ~again /\ CloseAll
    /\ UNCHANGED <<client, p2o, p2c, origin, metrics>>

\* readFromClient reads until there is nothing left, and waits for room at the
\* origin in between; an end of file ends the session at once.  Either way what
\* was forwarded is added to the metric.
ReadFromClient ==
    /\ pc = "forward" /\ buffer = <<>>
    /\ \/ /\ c2p # <<>>
          /\ buffer' = Take(c2p, BUFF_SIZE) /\ c2p' = Drop(c2p, BUFF_SIZE)
          /\ UNCHANGED <<pc, ready, previousEnd, bytes, o2p, filterIn, filterOut>>
       \/ /\ c2p = <<>> /\ bytes' = bytes + transferred
          /\ \/ /\ ~clientClosed /\ pc' = "origins"
                /\ UNCHANGED <<ready, buffer, previousEnd, c2p, o2p, filterIn, filterOut>>
             \/ clientClosed /\ CloseAll
    /\ UNCHANGED <<client, p2o, p2c, origin, transferred, lost>>

\* Mutant: the socket of the origin does not block, and what does not fit is lost.
WriteToOriginWhatFits ==
    /\ pc = "forward" /\ buffer # <<>> /\ reset = "no"
    /\ p2o' = p2o \o Take(buffer, SOCKET - Len(p2o))
    /\ buffer' = <<>> /\ transferred' = transferred + Len(buffer)
    /\ UNCHANGED <<client, c2p, o2p, p2c, filterIn, filterOut, origin, pc, ready, previousEnd, bytes, lost>>

WriteToOrigin ==
    /\ pc = "forward" /\ buffer # <<>> /\ reset = "no" /\ Len(p2o) < SOCKET
    /\ p2o' = p2o \o Take(buffer, SOCKET - Len(p2o))
    /\ buffer' = Drop(buffer, SOCKET - Len(p2o))
    /\ transferred' = transferred + Len(buffer) - Len(buffer')
    /\ UNCHANGED <<client, c2p, o2p, p2c, filterIn, filterOut, origin, pc, ready, previousEnd, bytes, lost>>

\* Mutant: the comparison stops after the beginning that all errors share.
IsGoodbyeShort(read) == IsPrefix(Take(Text(read), 1), GOODBYE)

\* As many bytes are compared as were read, so the beginning of the good-bye will do.
IsGoodbye(read) == IsPrefix(Text(read), GOODBYE)

\* Mutant: what the filter has no room for goes straight to the client.
ReadFromOriginBypasses ==
    /\ pc = "origins"
    /\ IF "origin" \in ready
          THEN /\ o2p # <<>>
               /\ filterIn' = ToFilter(Take(o2p, BUFF_SIZE))
               /\ p2c' = IF filterIn' = filterIn THEN ToClient(Take(o2p, BUFF_SIZE)) ELSE p2c
               /\ o2p' = Drop(o2p, BUFF_SIZE)
          ELSE UNCHANGED <<filterIn, o2p, p2c>>
    /\ pc' = "filters"
    /\ UNCHANGED <<client, c2p, p2o, filterOut, origin, ready, buffer, previousEnd, metrics>>

\* The result of select may be stale: pipeliningSupport may have taken what was
\* there, and then this read waits for more.  The good-bye ends the session, and
\* the client does not get it.
ReadFromOrigin ==
    /\ pc = "origins"
    /\ "origin" \in ready => o2p # <<>>
    /\ LET read == IF "origin" \in ready THEN Take(o2p, BUFF_SIZE) ELSE <<>> IN
       \/ read # <<>> /\ IsGoodbye(read) /\ CloseAll
       \/ /\ read = <<>> \/ ~IsGoodbye(read)
          /\ filterIn' = ToFilter(read) /\ o2p' = Drop(o2p, Len(read))
          /\ pc' = "filters"
          /\ UNCHANGED <<c2p, filterOut, ready, buffer, previousEnd>>
    /\ UNCHANGED <<client, p2o, p2c, origin, metrics>>

ReadFromFilter ==
    /\ pc = "filters"
    /\ IF "filter" \in ready
          THEN /\ p2c' = ToClient(Take(filterOut, BUFF_SIZE))
               /\ filterOut' = Drop(filterOut, BUFF_SIZE)
          ELSE UNCHANGED <<p2c, filterOut>>
    /\ pc' = "select"
    /\ UNCHANGED <<client, c2p, p2o, o2p, filterIn, origin, ready, buffer, previousEnd, metrics>>

\* The same steps where they meet the reset.  The greeting: read gives -1, and a
\* write of that many bytes writes nothing.
GreetReset ==
    /\ pc = "greet" /\ o2p = <<>> /\ reset = "unseen"
    /\ reset' = "seen" /\ pc' = "select"
    /\ UNCHANGED <<client, channels, capaText, taken, pending, serial, dismissed, ready, buffer, previousEnd, metrics>>

\* The write of CAPA fails; the read of the answer fails, or finds the end of file.
AttendClientReset ==
    /\ pc = "clients" /\ "client" \in ready /\ reset = "unseen"
    /\ transferred' = 0 /\ CloseAll
    /\ UNCHANGED <<client, p2o, p2c, origin, bytes, lost>>

PipeliningSupportReset ==
    /\ pc = "capa" /\ o2p = <<>> /\ reset # "no" /\ CloseAll
    /\ UNCHANGED <<client, p2o, p2c, origin, metrics>>

\* readFromClient does not look at what write returns, and counts what it read.  A
\* write that had begun when the reset came is short, and leaves the error there.
WriteToOriginReset ==
    /\ pc = "forward" /\ buffer # <<>> /\ reset = "unseen"
    /\ lost' = lost \o buffer /\ buffer' = <<>>
    /\ transferred' = transferred + Len(buffer)
    /\ reset' \in {"unseen", "seen"}
    /\ UNCHANGED <<client, channels, capaText, taken, pending, serial, dismissed, pc, ready, previousEnd, bytes>>

\* The error ends the session; the end of file, QUITCOMMAND, is let pass.
ReadFromOriginReset ==
    /\ pc = "origins" /\ "origin" \in ready /\ o2p = <<>>
    /\ \/ reset = "unseen" /\ CloseAll
       \/ /\ reset = "seen" /\ pc' = "filters"
          /\ UNCHANGED <<c2p, o2p, filterIn, filterOut, ready, buffer, previousEnd>>
    /\ UNCHANGED <<client, p2o, p2c, origin, metrics>>

ResetStep ==
    \/ GreetReset \/ AttendClientReset \/ PipeliningSupportReset
    \/ WriteToOriginReset \/ ReadFromOriginReset

ProxyStep ==
    \/ Greet \/ Select \/ AttendClient \/ PipeliningSupport
    \/ ReadFromClient \/ WriteToOrigin \/ ReadFromOrigin \/ ReadFromFilter \/ ResetStep

-----------------------------------------------------------------------------
(* The peers.                                                              *)

\* The last token of the reply to k has reached the client; 0 for the greeting.
Answered(k) ==
    \E i \in DOMAIN clientGot :
        clientGot[i].last /\ clientGot[i].to = (IF k = 0 THEN GREETING ELSE k)

ClientSends ==
    /\ sent < COMMANDS /\ ~clientClosed /\ pc # "closed"
    /\ IN_TURN => Answered(sent)
    /\ Len(c2p) < SOCKET
    /\ sent' = sent + 1
    /\ c2p' = Append(c2p, sent + 1)
    /\ UNCHANGED <<clientClosed, clientGot, p2o, o2p, p2c, filterIn, filterOut, origin, proxy>>

ClientReceives ==
    /\ p2c # <<>>
    /\ clientGot' = Append(clientGot, Head(p2c))
    /\ p2c' = Tail(p2c)
    /\ UNCHANGED <<sent, clientClosed, c2p, p2o, o2p, filterIn, filterOut, origin, proxy>>

\* The client has no more to say; it may still listen.
ClientCloses ==
    /\ ~clientClosed /\ (IN_TURN => Answered(COMMANDS))
    /\ clientClosed' = TRUE
    /\ UNCHANGED <<sent, clientGot, channels, origin, proxy>>

\* The origin answers one command after the other, and does not take the next
\* one while it has not got rid of its reply.
OriginTakes ==
    /\ p2o # <<>> /\ pending = <<>> /\ ~dismissed /\ reset = "no"
    /\ p2o' = Tail(p2o)
    /\ taken' = IF Head(p2o) = CAPA THEN taken ELSE Append(taken, Head(p2o))
    /\ \E text \in IF Head(p2o) = CAPA THEN {capaText} ELSE REPLIES :
            pending' = Reply(Head(p2o), text) /\ serial' = serial + Len(text)
    /\ UNCHANGED <<client, c2p, o2p, p2c, filterIn, filterOut, capaText, dismissed, reset, proxy>>

\* The origin shuts down, and has no more to say than that.
OriginDismisses ==
    /\ DISMISSES /\ ~dismissed /\ pending = <<>> /\ reset = "no"
    /\ dismissed' = TRUE
    /\ pending' = Reply(BYE, GOODBYE) /\ serial' = serial + Len(GOODBYE)
    /\ UNCHANGED <<client, channels, capaText, taken, reset, proxy>>

\* The origin dies with its connection: what it had to say is lost, but for what has
\* arrived, and what it has not taken stays there.
OriginResets ==
    /\ RESETS /\ reset = "no" /\ pc # "closed"
    /\ reset' = "unseen" /\ pending' = <<>>
    /\ UNCHANGED <<client, channels, capaText, taken, serial, dismissed, proxy>>

OriginWrites ==
    /\ pending # <<>> /\ pc # "closed"
    /\ \E n \in 1 .. Len(pending) :
        /\ Len(o2p) + n <= SOCKET
        /\ WHOLE => n = Len(pending) \/ Len(o2p) + n = SOCKET
        /\ o2p' = o2p \o Take(pending, n)
        /\ pending' = Drop(pending, n)
    /\ UNCHANGED <<client, c2p, p2o, p2c, filterIn, filterOut, capaText, taken, serial, dismissed, reset, proxy>>

\* cat, the filter that is started by default.
FilterRuns ==
    /\ filterIn # <<>> /\ Len(filterOut) < PIPE
    /\ filterOut' = Append(filterOut, Head(filterIn))
    /\ filterIn' = Tail(filterIn)
    /\ UNCHANGED <<client, c2p, p2o, o2p, p2c, origin, proxy>>

PeerStep ==
    \/ ClientSends \/ ClientReceives \/ ClientCloses
    \/ OriginTakes \/ OriginDismisses \/ OriginResets \/ OriginWrites \/ FilterRuns

Next == ProxyStep \/ PeerStep

Spec == Init /\ [][Next]_vars

\* The proxy runs, the origin and the filter do their work, and the client reads.
\* That the client speaks, or goes, is up to the client, and that the origin shuts
\* down or resets its connection is up to the origin.
Fairness ==
    /\ WF_vars(ProxyStep) /\ WF_vars(ClientReceives)
    /\ WF_vars(OriginTakes) /\ WF_vars(OriginWrites) /\ WF_vars(FilterRuns)

FairSpec == Spec /\ Fairness

-----------------------------------------------------------------------------
(* Where the theorems about a client that waits for each reply hold.  None *)
(* of the three says what the proxy does: they bound what its peers send.  *)

\* No text takes more reads than it has characters; they are numbered from 0.
Reads(text) == 0 .. Len(text)

\* What is kept of the first n characters of the capabilities, and what is searched
\* when m more have been read.
Kept(text, n) == IF n = 0 THEN <<>> ELSE SubSeq(text, n - BUFFER_END + 1, n)
SearchedIn(text, n, m) == Kept(text, n) \o SubSeq(text, n + 1, n + m)

\* The client waits for each reply, the origin stays, and replies arrive whole.  What is under way in
\* one turn fits a socket, and a read, or the filter's pipe as well (pop3parser.c:84-96);
\* of the capabilities no read but the last one decides, so that nothing is left of them
\* (172-196).
InTurn ==
    /\ IN_TURN /\ WHOLE /\ ~RESETS
    /\ \A text \in REPLIES :
            /\ Len(text) + Len(GOODBYE) <= SOCKET
            /\ Len(text) <= BUFF_SIZE \/ Len(text) + Len(GOODBYE) <= PIPE
    /\ \A text \in CAPA_TEXTS :
            /\ Len(text) <= SOCKET
            /\ \A q \in Reads(text) : (q + 1) * BUFF_SIZE < Len(text) =>
                    FindPipelining(SearchedIn(text, q * BUFF_SIZE, BUFF_SIZE)) = "FALSE"
    /\ 1 + Len(GOODBYE) <= SOCKET

EmptyLine == <<"CR", "LF">>

\* The text says it from its i-th character on.
Says(text, i, what) ==
    /\ i + Len(what) - 1 <= Len(text)
    /\ \A j \in 1 .. Len(what) : text[i + j - 1] = what[j]

\* The capabilities have no empty line, which findPipelining would end at (pop3parser.c:212),
\* and what is kept of a read does not begin with one, nor with the word, unless a line
\* begins there: its first character is taken for that of a line (193).
Readable ==
    /\ Len(PIPELINING) <= BUFFER_END
    /\ \A text \in CAPA_TEXTS :
            /\ \A i \in LineStarts(text) : ~Says(text, i, EmptyLine)
            /\ \A q \in Reads(text) : (q + 1) * BUFF_SIZE < Len(text) =>
                    LET i == (q + 1) * BUFF_SIZE - BUFFER_END + 1 IN
                    /\ ~Says(text, i, EmptyLine)
                    /\ Says(text, i, PIPELINING) => i \in LineStarts(text)

\* No read of a greeting or a reply is a beginning of the good-bye (pop3parser.c:93).
Civil ==
    \A text \in REPLIES \cup {<<"LF">>} : \A q \in Reads(text) : q * BUFF_SIZE < Len(text) =>
        ~IsPrefix(Take(SubSeq(text, q * BUFF_SIZE + 1, Len(text)), BUFF_SIZE), GOODBYE)

-----------------------------------------------------------------------------
(* Properties.                                                             *)

Texts  == UNION {Range(text) : text \in CAPA_TEXTS \cup REPLIES \cup {GOODBYE, <<"LF">>}}
Tokens == [n : Nat \ {0}, to : BYE .. COMMANDS, text : Texts, last : BOOLEAN]

\* Every variable has its type, and no socket or pipe holds more than its room.
TypeOK ==
    /\ sent \in 0 .. COMMANDS /\ clientClosed \in BOOLEAN /\ serial \in Nat \ {0}
    /\ pc \in {"greet", "select", "clients", "capa", "forward", "origins", "filters", "closed"}
    /\ ready \subseteq {"client", "origin", "filter"}
    /\ {c2p, p2o, buffer, taken, lost} \subseteq Seq(0 .. COMMANDS)
    /\ {o2p, p2c, filterIn, filterOut, clientGot, pending} \subseteq Seq(Tokens)
    /\ Len(c2p) <= SOCKET /\ Len(p2o) <= SOCKET /\ Len(o2p) <= SOCKET /\ Len(p2c) <= SOCKET
    /\ Len(filterIn) <= PIPE /\ Len(filterOut) <= PIPE /\ Len(buffer) <= BUFF_SIZE
    /\ capaText \in CAPA_TEXTS
    /\ previousEnd \in Seq(Texts) /\ Len(previousEnd) \in {0, BUFFER_END}
    /\ {transferred, bytes} \subseteq 0 .. COMMANDS /\ dismissed \in BOOLEAN
    /\ reset \in {"no", "unseen", "seen"}

\* The commands among the tokens of s, and that they come in the order in which
\* the client sent them, none of them twice.
Said(s) == Range(s) \ {CAPA}
InOrder(s) == \A i, j \in DOMAIN s : i < j /\ CAPA \notin {s[i], s[j]} => s[i] < s[j]

\* What was forwarded to the origin, as the proxy counts it.
Forwarded == IF pc = "forward" THEN bytes + transferred ELSE bytes

\* What the client said reaches the origin whole, once and in order, whatever the
\* probes in between; once the session is closed, as much of it as was forwarded.  A
\* write that fails loses the end of it: nothing is forwarded after what was lost.
CommandsInOrder ==
    LET onTheWay == taken \o p2o \o lost \o buffer \o c2p IN
    /\ InOrder(onTheWay)
    /\ Said(onTheWay) = 1 .. (IF pc = "closed" THEN Forwarded ELSE sent)

\* The metric BYTES counts what readFromClient took and gave to write, once each and
\* neither more nor less, however many passes and reads it took and whatever ended the
\* session: what write failed with is counted like what it wrote (pop3parser.c:67-69).
BytesAreThoseForwarded == Said(taken \o p2o \o lost) = 1 .. Forwarded

\* Much of what the origin says may be lost, but what is left never overtakes or
\* repeats itself on the three channels it goes through.
RepliesInOrder ==
    LET onTheWay == clientGot \o p2c \o filterOut \o filterIn \o o2p \o pending IN
    \A i, j \in DOMAIN onTheWay : i < j => onTheWay[i].n < onTheWay[j].n

\* A client that waits for every reply never sees one of the proxy's own probe,
\* and a dialogue of its own with the origin is all it sees.
Heard(i) == [to |-> clientGot[i].to, last |-> clientGot[i].last]
Dialogue == INSTANCE Pop3Dialogue WITH heard <- [i \in DOMAIN clientGot |-> Heard(i)]

InDialogue == Dialogue!Spec

\* A line of the capabilities begins with the word.
Announces(text) == \E i \in LineStarts(text) : IsPrefix(PIPELINING, SubSeq(text, i, Len(text)))

\* Such a client is answered every command it sends, whenever it sends it, if its
\* origin pipelines, no other origin is served, and stays.
DialogueGoesOn == Announces(capaText) /\ []~dismissed => Dialogue!EveryCommandAnswered

\* Wherever the reads cut the reply to CAPA, through the word or through a line
\* end, what is decided in the end is whether it announces PIPELINING, unless it
\* is a good-bye that is read in its place.
VerdictIsCapabilities ==
    [][pc = "capa" /\ pc' # "capa" /\ ~dismissed => (pc' = "forward" <=> Announces(capaText))]_vars

\* The proxy ends a session on one of four grounds: the client went, the origin
\* does not pipeline, it said good-bye, or it reset the connection.  An error it
\* reports is none of them.
ClosedForAReason ==
    [][pc # "closed" /\ pc' = "closed" =>
            clientClosed \/ ~Announces(capaText) \/ dismissed \/ reset # "no"]_vars

\* A claim of the repository's documentation that the code does not keep.

\* Informe.pdf, page 10: the proxy blocks at no time, under no circumstance.
ReturnsToSelect == []<>(pc \in {"select", "closed"})
=============================================================================
