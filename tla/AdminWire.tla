----------------------------- MODULE AdminWire -----------------------------
(***************************************************************************)
(* The management protocol, byte by byte where bytes matter: the console   *)
(* pop3filterctl (src/Admin/pop3filterctl.c) cuts what it has to say into  *)
(* frames, and parseConfig of the proxy (src/Proxy/configParser.c) reads   *)
(* commands out of them.  Both sides agree on contents that are shorter    *)
(* than MAX_CONTENT_LEN.  They do not agree on how a longer one is framed. *)
(* What the settings are before anybody changes them is up to the command  *)
(* line the proxy was started with (Configuration), and what is asked of   *)
(* it is what the console makes of the keyboard (Console).                 *)
(*                                                                         *)
(* The connection is SCTP: what one write sends is received whole, and one *)
(* read never takes bytes of two messages.                                 *)
(*                                                                         *)
(* Not in this module: accepting and closing connections, and the exit of  *)
(* a proxy that reads an unfinished command, and what the figures are that *)
(* are reported (Proxy, Pop3Session).                                      *)
(***************************************************************************)
EXTENDS Configuration, Console

CONSTANTS
    ADMINS,             \* the administrators' consoles
    MAX_CONTENT_LEN,    \* greatest length a frame can have (255 in the code)
    CONTENTS,           \* what may be said with a command
    LINES,              \* what an administrator may type
    FIGURES,            \* metrics that the proxy has a figure for
    COMMAND_LINES,      \* what the proxy may be started with
    PASSWORD,           \* the content that is the password
    MAX_TRIES,          \* wrong passwords before the console gives up (10)
    MAX_REQUESTS        \* bound: passwords and lines that are typed at a console

\* A byte is a length as well as a character; no character is the greatest byte.
ASSUME AdminWireAssumption ==
    /\ MAX_CONTENT_LEN \in Nat /\ MAX_CONTENT_LEN >= 2
    /\ \A c \in CONTENTS : c \in Seq(Int) /\ \A i \in DOMAIN c : c[i] < MAX_CONTENT_LEN
    /\ \A i \in DOMAIN METRICS : METRICS[i] < MAX_CONTENT_LEN
    /\ <<>> \in CONTENTS /\ PASSWORD \in CONTENTS
    /\ \A line \in LINES :
        /\ line \in Seq(Int) /\ \A i \in DOMAIN line : line[i] < MAX_CONTENT_LEN
        /\ ~Contains(line, LF)
    /\ \A line \in COMMAND_LINES :
        /\ line.options \in Seq(Range(line.options))
        /\ \A o \in Range(line.options) : o.option \in {"l", "L"} \/ o.argument \in Seq(Int)
    /\ MAX_TRIES \in Nat \ {0} /\ MAX_REQUESTS \in Nat

VARIABLES
    commandLine, main,  \* how the proxy was started, and how far it has got
    config,             \* its Configuration
    console, tries,     \* state of each console, wrong passwords so far
    asked,              \* passwords and lines that were typed at each console
    keyboard,           \* what has been typed and not been read
    request,            \* the request each console has under way
    unsent,             \* frames of it still to be written
    toProxy, toAdmin    \* messages on each connection, both ways

vars == <<commandLine, main, config, console, tries, asked, keyboard, request, unsent, toProxy, toAdmin>>

Options == {"m", "M", "t", "e"}

\* What may be asked for once the password has been accepted.
Commands == Options \cup {"z", "v", "f"}

NoRequest == [op |-> "none", content |-> <<>>]

\* What is left of an answer whose first two bytes were read and refused.
Garbage == [op |-> "garbage", status |-> "none", report |-> <<>>]

Init ==
    /\ commandLine \in COMMAND_LINES /\ main = "starting"
    /\ config = newConfiguration
    /\ console = [a \in ADMINS |-> "password"]
    /\ tries = [a \in ADMINS |-> 0]
    /\ asked = [a \in ADMINS |-> 0]
    /\ keyboard = [a \in ADMINS |-> <<>>]
    /\ request = [a \in ADMINS |-> NoRequest]
    /\ unsent = [a \in ADMINS |-> <<>>]
    /\ toProxy = [a \in ADMINS |-> <<>>]
    /\ toAdmin = [a \in ADMINS |-> <<>>]

-----------------------------------------------------------------------------
(* The console.                                                            *)

\* sendToProxy: frames of at most MAX_CONTENT_LEN bytes, each with the opcode
\* and its own length; at least one, and none more for a full last one.
Frames(op, content) ==
    LET size == Len(content)
        full == (size - 1) \div MAX_CONTENT_LEN
        chunk(j) == SubSeq(content, MAX_CONTENT_LEN * (j - 1) + 1,
                           IF j <= full THEN MAX_CONTENT_LEN * j ELSE size)
    IN  IF size = 0
           THEN <<[op |-> op, bytes |-> <<0>>]>>
           ELSE [j \in 1 .. full + 1 |-> [op |-> op, bytes |-> <<Len(chunk(j))>> \o chunk(j)]]

MakeRequest(a, op, content) ==
    /\ request' = [request EXCEPT ![a] = [op |-> op, content |-> content]]
    /\ unsent' = [unsent EXCEPT ![a] = Frames(op, content)]

\* authenticate asks for the password until it is right.
Ask(a) ==
    /\ main = "serving"
    /\ console[a] = "password" /\ request[a] = NoRequest /\ asked[a] < MAX_REQUESTS
    /\ \E content \in CONTENTS : MakeRequest(a, "x", content)
    /\ asked' = [asked EXCEPT ![a] = @ + 1]
    /\ UNCHANGED <<commandLine, main, config, console, tries, keyboard, toProxy, toAdmin>>

\* A line is typed when the console waits for one.
Type(a) ==
    /\ console[a] = "commands" /\ request[a] = NoRequest /\ asked[a] < MAX_REQUESTS
    /\ readCommands(keyboard[a]).state # "END"
    /\ \E line \in LINES : keyboard' = [keyboard EXCEPT ![a] = @ \o line \o <<LF>>]
    /\ asked' = [asked EXCEPT ![a] = @ + 1]
    /\ UNCHANGED <<commandLine, main, config, console, tries, request, unsent, toProxy, toAdmin>>

\* readCommands and handleCommandProxy: one command at a time, whose answer is
\* waited for.
ReadCommands(a) ==
    /\ console[a] = "commands" /\ request[a] = NoRequest
    /\ LET reading == readCommands(keyboard[a]) IN
        /\ reading.state = "END"
        /\ keyboard' = [keyboard EXCEPT ![a] = SubSeq(@, reading.read + 1, Len(@))]
        /\ IF reading.todo = "send" THEN MakeRequest(a, reading.cmd, reading.content)
           ELSE UNCHANGED <<request, unsent>>
        /\ console' = IF reading.todo = "quit" THEN [console EXCEPT ![a] = "gone"] ELSE console
    /\ UNCHANGED <<commandLine, main, config, tries, asked, toProxy, toAdmin>>

SendFrame(a) ==
    /\ unsent[a] # <<>>
    /\ toProxy' = [toProxy EXCEPT ![a] = Append(@, Head(unsent[a]))]
    /\ unsent' = [unsent EXCEPT ![a] = Tail(@)]
    /\ UNCHANGED <<commandLine, main, config, console, tries, asked, keyboard, request, toAdmin>>

\* readFromProxy: two bytes, of which the first must be the opcode, and then as
\* many as the second one says.
Accepted(a) ==
    /\ Head(toAdmin[a]).op = request[a].op
    /\ toAdmin' = [toAdmin EXCEPT ![a] = Tail(@)]

\* What stays of an answer when only its first two bytes are taken, as many
\* times as it takes to read it by twos: "OK", "ERROR", "0.0.0", "BYTES 0 NULL".
Leftover(answer) ==
    [i \in 1 .. (CASE answer.status = "OK" -> 1
                   [] answer.status \in {"ERROR", "VERSION"} -> 3
                   [] answer.status = "METRICS" -> 2 * Len(answer.report)
                   [] answer.status = "none" -> 0) |-> Garbage]

\* An answer to something else: its contents stay there.
Refused(a) ==
    LET answer == Head(toAdmin[a]) IN
    /\ answer.op # request[a].op
    /\ toAdmin' = [toAdmin EXCEPT ![a] = Leftover(answer) \o Tail(@)]

\* Mutant: one wrong password more than there should be.
ReadAuthenticationOffByOne(a) ==
    LET ok == Head(toAdmin[a]).op = "x" /\ Head(toAdmin[a]).status = "OK" IN
    /\ request[a].op = "x"
    /\ Accepted(a) \/ Refused(a)
    /\ tries' = [tries EXCEPT ![a] = IF ok THEN @ ELSE @ + 1]
    /\ console' = [console EXCEPT ![a] = IF ok THEN "commands"
                                        ELSE IF tries[a] >= MAX_TRIES THEN "gone" ELSE @]

\* authenticate, which counts the answers that are not OK.
ReadAuthentication(a) ==
    LET ok == Head(toAdmin[a]).op = "x" /\ Head(toAdmin[a]).status = "OK" IN
    /\ request[a].op = "x"
    /\ Accepted(a) \/ Refused(a)
    /\ tries' = [tries EXCEPT ![a] = IF ok THEN @ ELSE @ + 1]
    /\ console' = [console EXCEPT ![a] = IF ok THEN "commands"
                                        ELSE IF tries[a] + 1 >= MAX_TRIES THEN "gone" ELSE @]

\* parseMetrics takes the words of the answer by twos, for as many metrics as were
\* asked for; the last of an odd number is an error.
parseMetrics(report, count) ==
    [i \in 1 .. Min({count, Len(report) \div 2}) |-> <<report[2 * i - 1], report[2 * i]>>]

\* parseMetrics and getProxyVersion report an answer that could not be read.
Reported == {"z", "v"}

\* readResponse compares it, and it is NULL, with "OK": the console crashes.
ReadAnswer(a) ==
    /\ request[a].op # "x"
    /\ \/ Accepted(a) /\ UNCHANGED console
       \/ Refused(a) /\ console' = IF request[a].op \in Reported THEN console
                                   ELSE [console EXCEPT ![a] = "gone"]
    /\ UNCHANGED tries

ReadFromProxy(a) ==
    /\ console[a] # "gone"
    /\ request[a] # NoRequest /\ unsent[a] = <<>> /\ toAdmin[a] # <<>>
    /\ ReadAuthentication(a) \/ ReadAnswer(a)
    /\ request' = [request EXCEPT ![a] = NoRequest]
    /\ UNCHANGED <<commandLine, main, config, asked, keyboard, unsent, toProxy>>

-----------------------------------------------------------------------------
(* The proxy.                                                              *)

\* Mutant: a length that another one follows is taken for content.
ContentWithLengths(bytes) == IF bytes[1] = MAX_CONTENT_LEN THEN bytes ELSE Tail(bytes)

\* The length a byte is: those of the keys are characters, as well, and not zero.
Size(byte) == IF byte < 0 THEN -byte ELSE byte

\* parseConfig reads lengths and adds them up until one is not the greatest, and
\* then the content: what there is of it in the message, if that is less.
Content(bytes) ==
    LET lengths == CHOOSE i \in DOMAIN bytes :
                        /\ bytes[i] # MAX_CONTENT_LEN
                        /\ \A j \in 1 .. i - 1 : bytes[j] = MAX_CONTENT_LEN
        size == MAX_CONTENT_LEN * (lengths - 1) + Size(bytes[lengths])
    IN  SubSeq(bytes, lengths + 1,
               IF lengths + size < Len(bytes) THEN lengths + size ELSE Len(bytes))

\* main: the command line, and then the sockets and selectLoop.  A name that is
\* no host's ends the program like an option it does not know.
Main ==
    /\ main = "starting"
    /\ IF Ends(commandLine) \/ LastArgument(commandLine) \notin HOSTS
          THEN main' = "ended" /\ UNCHANGED config
          ELSE main' = "serving" /\ config' = parseArgs(config, commandLine)
    /\ UNCHANGED <<commandLine, console, tries, asked, keyboard, request, unsent, toProxy, toAdmin>>

Figure(name) == [word |-> "figure", of |-> name]
Name(name)   == [word |-> "name", of |-> name]
Null(name)   == [word |-> "NULL", of |-> name]

\* getMetrics: each name followed by its figure, or one word for both if it has none.
AddMetric(words, name) ==
    words \o (IF name \in FIGURES THEN <<Name(name), Figure(name)>> ELSE <<Null(name)>>)

getMetrics(names) == FoldLeft(AddMetric, <<>>, names)

AnswerTo(op, content, status) ==
    [op |-> op, status |-> status, report |-> IF op = "z" THEN getMetrics(content) ELSE <<>>]

\* editConfiguration, over a setter where there is one.
Status(op, content) ==
    CASE op \in Options /\ Takes(op, content) -> "OK"
      [] op = "x" /\ content = PASSWORD -> "OK"
      [] op = "z" -> "METRICS"
      [] op = "v" -> "VERSION"
      [] OTHER    -> "ERROR"

\* Mutant: a setter that fails has changed the setting all the same.
EditAlways(op, content) ==
    config' = IF op \in Options THEN [config EXCEPT ![op] = content] ELSE config

Edit(op, content) ==
    config' = IF op \in Options THEN Set(config, op, content) ELSE config

\* Mutant: a command that fails is not answered.
ParseConfigAnswersSuccess(a) ==
    /\ toProxy[a] # <<>>
    /\ LET op == Head(toProxy[a]).op
           content == Content(Head(toProxy[a]).bytes)
           status == Status(op, content)
       IN
       /\ Edit(op, content)
       /\ toAdmin' = IF status = "ERROR" THEN toAdmin
                     ELSE [toAdmin EXCEPT ![a] = Append(@, AnswerTo(op, content, status))]
    /\ toProxy' = [toProxy EXCEPT ![a] = Tail(@)]
    /\ UNCHANGED <<commandLine, main, console, tries, asked, keyboard, request, unsent>>

ParseConfig(a) ==
    /\ toProxy[a] # <<>>
    /\ LET op == Head(toProxy[a]).op
           content == Content(Head(toProxy[a]).bytes)
       IN
       /\ Edit(op, content)
       /\ toAdmin' = [toAdmin EXCEPT ![a] = Append(@, AnswerTo(op, content, Status(op, content)))]
    /\ toProxy' = [toProxy EXCEPT ![a] = Tail(@)]
    /\ UNCHANGED <<commandLine, main, console, tries, asked, keyboard, request, unsent>>

Next ==
    \/ Main
    \/ \E a \in ADMINS :
        Ask(a) \/ Type(a) \/ ReadCommands(a) \/ SendFrame(a) \/ ReadFromProxy(a) \/ ParseConfig(a)

Spec == Init /\ [][Next]_vars

\* The proxy comes back to every connection that has something for it, and the
\* console does not stop half way; what to ask, and when, is up to its user.
Fairness == \A a \in ADMINS :
    WF_vars(SendFrame(a)) /\ WF_vars(ReadFromProxy(a)) /\ WF_vars(ParseConfig(a))

FairSpec == Spec /\ Fairness

-----------------------------------------------------------------------------
(* Properties.                                                             *)

\* Every variable has its type; the ports of the configuration fit 16 bits.
Opcodes == Commands \cup {"x"}

Frame  == [op : Opcodes, bytes : Seq(Int)]
Answer == [op : Opcodes \cup {"garbage"},
           status : {"OK", "ERROR", "METRICS", "VERSION", "none"},
           report : Seq([word : {"name", "figure", "NULL"}, of : Int])]

TypeOK ==
    /\ commandLine \in COMMAND_LINES /\ main \in {"starting", "serving", "ended"}
    /\ DOMAIN config = Letters \cup {"originServerString"}
    /\ \A o \in {"o", "p", "P"} : config[o] \in 0 .. UINT16_MAX
    /\ console \in [ADMINS -> {"password", "commands", "gone"}]
    /\ tries \in [ADMINS -> 0 .. MAX_TRIES]
    /\ asked \in [ADMINS -> 0 .. MAX_REQUESTS]
    /\ keyboard \in [ADMINS -> Seq(Int)]
    /\ request \in [ADMINS -> [op : Opcodes \cup {"none"}, content : Seq(Int)]]
    /\ unsent \in [ADMINS -> Seq(Frame)] /\ toProxy \in [ADMINS -> Seq(Frame)]
    /\ toAdmin \in [ADMINS -> Seq(Answer)]

\* Each console is served as the document says: see AdminService.  A request is
\* under way until its answer is on the connection, and answered until it is read.
call == [a \in ADMINS |->
    IF request[a] = NoRequest THEN [status |-> "idle"]
    ELSE [op |-> request[a].op, content |-> request[a].content,
          status |-> IF toAdmin[a] = <<>> THEN "asked" ELSE Head(toAdmin[a]).status]]

\* The settings they share are those the proxy will have when it is there to serve.
settings ==
    LET conf == IF main = "serving" THEN config ELSE parseArgs(newConfiguration, commandLine)
    IN  [o \in Options |-> conf[o]]

Service == INSTANCE AdminService

ServesAdministrators == Service!Spec

\* Whoever asks is answered, unless it is gone.
EveryCallReturns == Service!EveryCallReturns

\* What the command line asked for, said of the whole of it: an option is set to
\* the last of its arguments that is valid, or not at all; a port is the number
\* that is written there, or 0 if there is no such port.  Only the last five digits
\* of a port can be other than 0.
Number(digits) ==
    LET digit(k) == IF k < Len(digits) THEN digits[Len(digits) - k] ELSE 0
        n        == digit(0) + 10 * digit(1) + 100 * digit(2) + 1000 * digit(3) + 10000 * digit(4)
    IN  IF n <= UINT16_MAX /\ \A i \in 1 .. Len(digits) - 5 : digits[i] = 0 THEN n ELSE 0

Asked(option) ==
    LET valid == {i \in DOMAIN commandLine.options :
                    /\ commandLine.options[i].option = option
                    /\ Takes(option, commandLine.options[i].argument)}
        argument == commandLine.options[Max(valid)].argument
    IN  IF valid = {} THEN newConfiguration[option]
        ELSE IF option \in {"o", "p", "P"} THEN Number(argument) ELSE argument

\* A proxy that starts serving has the settings its command line asks for, however
\* often it names an option and whatever else it says that is not valid.  Of the
\* message it is not said where -m is repeated: pop3filter.8 joins those texts as the
\* paragraphs of one, and the code takes the last.
Texts == {i \in DOMAIN commandLine.options : commandLine.options[i].option = "m"}

Repeated(option) == option = "m" /\ \E i, j \in Texts : i # j

StartsAsAsked ==
    [][main = "starting" /\ main' = "serving" =>
            \A option \in Letters : ~Repeated(option) => config'[option] = Asked(option)]_vars

\* The console asks for what a line says, neither more nor less, and takes that line
\* from the keyboard and nothing else, but for the rest of one that begins with -v,
\* -h or -q and a space, which it leaves there, and for one that is too long, with
\* which it takes the next.
FirstLine(keys) == SubSeq(keys, 1, Min({i \in DOMAIN keys : keys[i] = LF}) - 1)

Taken(line, keys) ==
    \/ keys = line \o <<LF>>
    \/ /\ IsPrefix(keys, line)
       /\ \E letter \in {"v", "h", "q"} : IsSuffix(<<DASH, KeyOf[letter], SPACE>>, keys)
    \/ /\ Len(line) > BUFF_SIZE + 3
       /\ \E next \in LINES : keys = line \o <<LF>> \o next \o <<LF>>

AsksWhatIsTyped ==
    [][\A a \in ADMINS : keyboard'[a] # keyboard[a] /\ asked'[a] = asked[a] =>
        LET line    == FirstLine(keyboard[a])
            spelled == Spelled(line)
        IN
        /\ request'[a] = IF spelled = NoCommand THEN NoRequest
                         ELSE [op |-> spelled.cmd, content |-> spelled.content]
        /\ Taken(line, SubSeq(keyboard[a], 1, Len(keyboard[a]) - Len(keyboard'[a])))]_vars

\* As long as no content needs more than a frame: beside every name the console
\* shows is the figure of that metric, though CON_PER_MIN has none, and it shows
\* all it was asked for and that have one.
WithFigure(names) ==
    FoldLeft(LAMBDA found, name : IF name \in FIGURES THEN Append(found, name) ELSE found, <<>>, names)

MetricsAreThoseAsked ==
    [][\A a \in ADMINS : request[a].op = "z" /\ request'[a] = NoRequest =>
        LET names == WithFigure(request[a].content)
        IN  parseMetrics(Head(toAdmin[a]).report, Len(request[a].content))
                = [i \in DOMAIN names |-> <<Name(names[i]), Figure(names[i])>>]]_vars

\* However a long content is framed and however it is read, what becomes the setting
\* of an option is the argument of that option on the command line, or an unbroken
\* piece of a line an administrator typed, from after the letter of that option: no
\* byte of a header, and nothing of another option or another line, is in it.
TypedFor(option, part) ==
    \E line \in LINES :
        \E n \in 1 .. Len(line) - 1, j \in 0 .. Len(line) :
            \E i \in n + 2 .. Len(line) + 1 :
                /\ line[n] = KeyOf[option] /\ line[n + 1] = SPACE
                /\ part = SubSeq(line, i, j)

GivenFor(option, text) ==
    \E o \in Range(commandLine.options) : o.option = option /\ o.argument = text

SettingsArePieces ==
    \A o \in Options :
        settings[o] = Default \/ GivenFor(o, settings[o]) \/ TypedFor(o, settings[o])

\* A claim of the repository's documentation that the code does not keep.

\* Informe.pdf, pages 2 to 4: a content of any length reaches the proxy, with as
\* many bytes of length as it takes.
SettingsWereSent == \A o \in Options : settings[o] \in CONTENTS \cup {Default}
=============================================================================
