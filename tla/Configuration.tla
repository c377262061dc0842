--------------------------- MODULE Configuration ---------------------------
(***************************************************************************)
(* The Configuration of the proxy: what it starts with, the setters, and   *)
(* what the command line leaves in it (src/Proxy/configuration.c and       *)
(* src/Proxy/shellArgsParser.c).  Options go by their letters.             *)
(*                                                                         *)
(* A text is a sequence; that of a port is one of digits, or of anything   *)
(* else.  Not in this module: the fields nothing reads (help, currentUser) *)
(* and originServer, which no path sets: the address of the origin is      *)
(* whatever malloc left there, whatever host the command line names.       *)
(***************************************************************************)
EXTENDS Integers, SequencesExt

CONSTANTS
    DIRECTORIES,    \* texts that are the name of a directory
    ADDRESSES,      \* texts that are an IPv4 or an IPv6 address
    HOSTS,          \* texts getaddrinfo finds a host for
    PROGRAM         \* argv[0]

UINT16_MAX == 65535

Letters == {"e", "l", "L", "m", "M", "o", "p", "P", "t"}

\* The content of a text that nobody has set; that of M is not even initialised.
Default == <<0>>

newConfiguration ==
    [e |-> Default, m |-> Default, M |-> Default, t |-> Default,
     l |-> "INADDR_ANY", L |-> "127.0.0.1",
     o |-> 9090, p |-> 1110, P |-> 110,
     originServerString |-> <<>>]

\* A text without characters is valid as well.
portIsValid(port) == \A i \in DOMAIN port : port[i] \in 0 .. 9

Value(digits) == FoldLeft(LAMBDA n, d : 10 * n + d, 0, digits)

\* Mutant: what does not fit 16 bits is cut off.
strToUint16Wraps(digits) == Value(digits) % (UINT16_MAX + 1)

\* Out of range, or no number at all: 0.
strToUint16(digits) ==
    IF digits # <<>> /\ Value(digits) <= UINT16_MAX THEN Value(digits) ELSE 0

\* Does the setter of the option take the argument?
Takes(option, argument) ==
    CASE option \in {"m", "M", "t"} -> TRUE
      [] option = "e"               -> argument \in DIRECTORIES
      [] option \in {"l", "L"}      -> argument \in ADDRESSES
      [] option \in {"o", "p", "P"} -> portIsValid(argument)
      [] OTHER                      -> FALSE

\* The nine setters: an argument that is not valid leaves the setting alone.
Set(conf, option, argument) ==
    IF ~Takes(option, argument) THEN conf
    ELSE [conf EXCEPT ![option] =
            IF option \in {"o", "p", "P"} THEN strToUint16(argument) ELSE argument]

\* A command line as getopt sees it: options with their arguments, in order, and
\* operands.  -v and -h, an option that is not known or that lacks its argument
\* print something and end the program.
Ends(line) == \E i \in DOMAIN line.options : line.options[i].option \notin Letters

\* argv[argc - 1] names the origin server, and may be the argument of an option.
LastArgument(line) ==
    CASE line.operands # <<>> -> Last(line.operands)
      [] line.operands = <<>> /\ line.options # <<>> -> Last(line.options).argument
      [] OTHER -> PROGRAM

setOriginServer(conf, originServer) == [conf EXCEPT !.originServerString = originServer]

\* Mutant: the first of several arguments for an option is the one that stays.
parseArgsFirst(conf, line) ==
    setOriginServer(FoldRight(LAMBDA o, c : Set(c, o.option, o.argument), line.options, conf),
                    LastArgument(line))

parseArgs(conf, line) ==
    setOriginServer(FoldLeft(LAMBDA c, o : Set(c, o.option, o.argument), conf, line.options),
                    LastArgument(line))
=============================================================================
