------------------------------ MODULE Console ------------------------------
(***************************************************************************)
(* What the console makes of its keyboard: readCommands of                 *)
(* src/Admin/pop3filterctl.c, which reads a character at a time and, after *)
(* an option, the rest of the line at once.                                *)
(*                                                                         *)
(* The keyboard is a sequence of keys.  Those that mean something to the   *)
(* console are negative, all others are characters of a content.  The name *)
(* of a metric is a key.                                                   *)
(***************************************************************************)
EXTENDS Integers, SequencesExt

CONSTANTS
    MAXSPACES,      \* spaces there may be in front of a command, but for one (10)
    BUFF_SIZE,      \* keys a content may have (1024)
    METRICS         \* names of metrics, in the order in which the console sends them

ASSUME ConsoleAssumption ==
    /\ MAXSPACES \in Nat /\ BUFF_SIZE \in Nat \ {0}
    /\ METRICS \in Seq(Nat) /\ Len(METRICS) >= 2

SPACE == -1
DASH  == -2
LF    == -3

\* The letters of the commands.
KeyOf == [t |-> -4, e |-> -5, f |-> -6, m |-> -7, z |-> -8, M |-> -9, v |-> -10, h |-> -11, q |-> -12]

\* The state each letter leads to after a hyphen, GUION.
AfterLetter(letter) ==
    CASE letter = "h" -> "HELP" [] letter = "v" -> "VERSION" [] letter = "q" -> "QUIT" [] OTHER -> "LETTER"

\* How far a command has been read.  cmd is its letter, and what is to become of
\* it: "send", "quit" or nothing.
NothingRead == [state |-> "START", spaces |-> 0, cmd |-> "none", content |-> <<>>, todo |-> "none", read |-> 0]

AddNamed(text, names, name) == IF Contains(text, name) THEN Append(names, name) ELSE names

\* Mutant: the other way round.
NamedBackwards(text) == FoldRight(LAMBDA name, names : AddNamed(text, names, name), METRICS, <<>>)

\* sendMetrics: the names that are in the text, each once and in its own order.
\* Of no name at all it sends nothing.
Named(text) == FoldLeft(LAMBDA names, name : AddNamed(text, names, name), <<>>, METRICS)

\* sendAllMetrics leaves out the last one.
AllMetrics == Front(METRICS)

Send(reading, cmd, content) ==
    [reading EXCEPT !.state = "END", !.cmd = cmd, !.content = content,
                    !.todo = IF cmd = "z" /\ content = <<>> THEN "none" ELSE "send"]

To(reading, state) == [reading EXCEPT !.state = state]

\* Mutant: the key that is read before the rest of the line is not part of it.
WordForgetsKey(reading, key) == [reading EXCEPT !.state = "LINE", !.content = <<>>]

\* The first key of a content; getLine reads the others.
Word(reading, key) == [reading EXCEPT !.state = "LINE", !.content = <<key>>]

\* A key that is not the end of the line.
InLine(reading, key) ==
    LET in(states) == reading.state \in states
        letters == {letter \in DOMAIN KeyOf : KeyOf[letter] = key}
    IN
    CASE in({"START", "SPACE"}) /\ key = DASH -> To(reading, "GUION")
      [] in({"START"}) /\ key = SPACE -> To(reading, "SPACE")
      [] in({"SPACE"}) /\ key = SPACE /\ reading.spaces < MAXSPACES -> [reading EXCEPT !.spaces = @ + 1]
      [] in({"GUION"}) /\ letters # {} ->
            LET letter == CHOOSE letter \in letters : TRUE
            IN  [reading EXCEPT !.cmd = letter, !.state = AfterLetter(letter)]
      [] in({"VERSION"}) /\ key = SPACE -> Send(reading, "v", <<>>)
      [] in({"HELP"}) /\ key = SPACE -> To(reading, "END")
      [] in({"QUIT"}) /\ key = SPACE -> [To(reading, "END") EXCEPT !.todo = "quit"]
      [] in({"LETTER"}) /\ key = SPACE -> To(reading, "WORD")
      [] in({"WORD"}) -> Word(reading, key)
      [] in({"LINE"}) -> IF Len(reading.content) < BUFF_SIZE
                            THEN [reading EXCEPT !.content = Append(@, key)] ELSE To(reading, "TOO_LONG")
      [] in({"TOO_LONG", "SKIP"}) -> reading
      [] in({"ERROR"}) -> To(reading, "SKIP")
      [] OTHER -> To(reading, "ERROR")

\* The end of the line ends the reading, but for that of a line that was too long:
\* it was read to its end for that, and the error is met on the next key only.
AtLineEnd(reading) ==
    CASE reading.state = "LINE" ->
            Send(reading, reading.cmd, IF reading.cmd = "z" THEN Named(reading.content) ELSE reading.content)
      [] reading.state = "LETTER" /\ reading.cmd = "z" -> Send(reading, "z", AllMetrics)
      [] reading.state = "VERSION" -> Send(reading, "v", <<>>)
      [] reading.state = "QUIT" -> [To(reading, "END") EXCEPT !.todo = "quit"]
      [] reading.state = "TOO_LONG" -> To(reading, "ERROR")
      [] OTHER -> To(reading, "END")

OnKey(reading, key) ==
    IF reading.state = "END" THEN reading
    ELSE [IF key = LF THEN AtLineEnd(reading) ELSE InLine(reading, key) EXCEPT !.read = @ + 1]

\* What is read of these keys: a command if its state is END in the end, and else
\* the console waits for more.
readCommands(keys) == FoldLeft(OnKey, NothingRead, keys)

-----------------------------------------------------------------------------
(* The help menu of the console (485-498), said of a whole line: after some *)
(* spaces one hyphen, a letter, a space and a content, or nothing more.     *)

Command(cmd, content) == [cmd |-> cmd, content |-> content]
NoCommand == Command("none", <<>>)

Spelled(line) ==
    LET n == CHOOSE n \in 0 .. Len(line) : /\ \A i \in 1 .. n : line[i] = SPACE
                                           /\ n < Len(line) => line[n + 1] # SPACE
        rest == SubSeq(line, n + 1, Len(line))
        says(letter) == IsPrefix(<<DASH, KeyOf[letter]>>, rest)
        alone  == Len(rest) = 2
        spaced == Len(rest) > 2 /\ rest[3] = SPACE
        text   == SubSeq(rest, 4, Len(rest))
        fits   == spaced /\ Len(text) \in 1 .. BUFF_SIZE
        options == {letter \in {"t", "e", "f", "m", "M"} : says(letter)}
    IN
    CASE n > MAXSPACES + 1 -> NoCommand
      [] n <= MAXSPACES + 1 /\ says("v") /\ (alone \/ spaced) -> Command("v", <<>>)
      [] n <= MAXSPACES + 1 /\ says("z") /\ alone -> Command("z", AllMetrics)
      [] n <= MAXSPACES + 1 /\ says("z") /\ fits /\ Named(text) # <<>> -> Command("z", Named(text))
      [] n <= MAXSPACES + 1 /\ options # {} /\ fits -> Command(CHOOSE letter \in options : TRUE, text)
      [] OTHER -> NoCommand
=============================================================================
