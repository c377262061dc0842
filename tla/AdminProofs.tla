---------------------------- MODULE AdminProofs ----------------------------
(***************************************************************************)
(* Proofs about AdminWire, for every number of consoles, every length a    *)
(* frame may have, and whatever is typed and given: the types, where the   *)
(* settings come from, that the proxy starts with those asked for, that a  *)
(* console asks for what was typed, and that it all implements             *)
(* AdminService.                                                           *)
(***************************************************************************)
EXTENDS AdminWire, ConsoleProofs

-----------------------------------------------------------------------------
(* The command line, by induction over its options.                        *)

NextDigit(given, n, d) == 10 * n + d
NoDigit(given) == 0
IsNumber(given, n, digits, i) == n \in Nat
Digits == INSTANCE Folding WITH Op <- NextDigit, Base <- NoDigit, Holds <- IsNumber

LEMMA ValueFolds == ASSUME NEW digits PROVE Value(digits) = Digits!Fold({}, digits)
BY DEF Value, NoDigit, NextDigit, Digits!Fold, FoldLeft, MapThenFoldSet,
       Digits!FoldLeft, Digits!MapThenFoldSet, Digits!Max, Max

LEMMA ValueType ==
    ASSUME NEW digits \in Seq(0 .. 9)
    PROVE  Value(digits) \in Nat
<1>1. IsNumber({}, NoDigit({}), digits, 0)
    BY DEF IsNumber, NoDigit
<1>2. \A n : \A i \in 1 .. Len(digits) :
        IsNumber({}, n, digits, i - 1) => IsNumber({}, NextDigit({}, n, digits[i]), digits, i)
    BY DEF IsNumber, NextDigit
<1>3. IsNumber({}, Digits!Fold({}, digits), digits, Len(digits))
    BY <1>1, <1>2, Digits!FoldInduction
<1> QED
    BY <1>3, ValueFolds DEF IsNumber

\* A port is a number of 16 bits, whatever is written there.
LEMMA PortType ==
    ASSUME NEW argument \in Seq(Int), portIsValid(argument)
    PROVE  strToUint16(argument) \in 0 .. UINT16_MAX
<1>1. argument \in Seq(0 .. 9)
    BY DEF portIsValid
<1>2. PICK n \in Nat : n = Value(argument)
    BY <1>1, ValueType
<1>3. strToUint16(argument) = n \/ strToUint16(argument) = 0
    BY <1>2 DEF strToUint16
<1>4. strToUint16(argument) = n => n <= UINT16_MAX
    BY <1>2 DEF strToUint16, UINT16_MAX
<1>5. UINT16_MAX \in Nat /\ 0 \in 0 .. UINT16_MAX
    BY DEF UINT16_MAX
<1>6. n <= UINT16_MAX => n \in 0 .. UINT16_MAX
    BY <1>5
<1> QED
    BY <1>3, <1>4, <1>5, <1>6

Ports == {"o", "p", "P"}

\* What is true of a Configuration after n of the options of a command line.
ConfigurationOK(conf, options, n) ==
    /\ DOMAIN conf = Letters \cup {"originServerString"}
    /\ \A o \in Ports : conf[o] \in 0 .. UINT16_MAX
    /\ \A o \in Options :
        \/ conf[o] = Default
        \/ \E i \in 1 .. n : options[i].option = o /\ options[i].argument = conf[o]

SetOption(conf0, conf, o) == Set(conf, o.option, o.argument)
Before(conf0) == conf0
StaysConfigurationOK(conf0, conf, options, n) == ConfigurationOK(conf, options, n)
Setting == INSTANCE Folding WITH Op <- SetOption, Base <- Before, Holds <- StaysConfigurationOK

LEMMA parseArgsFolds ==
    ASSUME NEW conf, NEW line
    PROVE  parseArgs(conf, line) = setOriginServer(Setting!Fold(conf, line.options), LastArgument(line))
BY DEF parseArgs, Before, SetOption, Setting!Fold, FoldLeft, MapThenFoldSet,
       Setting!FoldLeft, Setting!MapThenFoldSet, Setting!Max, Max

\* A Configuration, and one in which at most a setting has changed.
HasSettings(conf) ==
    /\ DOMAIN conf = Letters \cup {"originServerString"}
    /\ \A o \in Ports : conf[o] \in 0 .. UINT16_MAX
OneChanged(conf, new, option, argument) ==
    /\ DOMAIN new = Letters \cup {"originServerString"}
    /\ \A o \in Ports : new[o] \in 0 .. UINT16_MAX
    /\ \A o \in Options : new[o] = conf[o] \/ (o = option /\ new[o] = argument)

\* A setter sets nothing but its own setting, to its argument or to a port.
LEMMA SetDoes ==
    ASSUME NEW conf, HasSettings(conf),
           NEW option, NEW argument, option \in {"l", "L"} \/ argument \in Seq(Int)
    PROVE  OneChanged(conf, Set(conf, option, argument), option, argument)
<1> USE DEF HasSettings, OneChanged
<1>1. CASE ~Takes(option, argument)
    BY <1>1 DEF Set
<1>2. CASE Takes(option, argument) /\ option \in Ports
    <2>1. portIsValid(argument) /\ argument \in Seq(Int)
        BY <1>2 DEF Takes, Ports
    <2>2. strToUint16(argument) \in 0 .. UINT16_MAX
        BY <2>1, PortType
    <2>3. Set(conf, option, argument) = [conf EXCEPT ![option] = strToUint16(argument)]
        BY <1>2 DEF Set, Ports
    <2>4. \A o \in Options : o # option
        BY <1>2 DEF Ports, Options
    <2>5. Ports \subseteq Letters /\ Options \subseteq Letters
        BY DEF Ports, Options, Letters
    <2> QED
        BY <2>2, <2>3, <2>4, <2>5
<1>3. CASE Takes(option, argument) /\ option \notin Ports
    <2>1. Set(conf, option, argument) = [conf EXCEPT ![option] = argument]
        BY <1>3 DEF Set, Ports
    <2>2. Ports \subseteq Letters /\ Options \subseteq Letters
        BY DEF Ports, Options, Letters
    <2> QED
        BY <1>3, <2>1, <2>2
<1> QED
    BY <1>1, <1>2, <1>3

LEMMA ConfigurationStep ==
    ASSUME NEW conf, NEW options, options \in Seq(Range(options)), NEW n \in 1 .. Len(options),
           \A o \in Range(options) : o.option \in {"l", "L"} \/ o.argument \in Seq(Int),
           ConfigurationOK(conf, options, n - 1)
    PROVE  ConfigurationOK(Set(conf, options[n].option, options[n].argument), options, n)
<1> DEFINE option == options[n].option
           argument == options[n].argument
           new == Set(conf, option, argument)
<1>1. options[n] \in Range(options)
    OBVIOUS
<1>2. option \in {"l", "L"} \/ argument \in Seq(Int)
    BY <1>1
<1>3. options[n].option = option /\ options[n].argument = argument
    OBVIOUS
<1> HIDE DEF option, argument
<1>4. /\ DOMAIN new = Letters \cup {"originServerString"}
      /\ \A o \in Ports : new[o] \in 0 .. UINT16_MAX
      /\ \A o \in Options : new[o] = conf[o] \/ (o = option /\ new[o] = argument)
    <2>1. HasSettings(conf)
        BY DEF ConfigurationOK, HasSettings
    <2>2. OneChanged(conf, new, option, argument)
        BY ONLY <1>2, <2>1, SetDoes
    <2> HIDE DEF new
    <2> QED
        BY <2>2 DEF OneChanged
<1> HIDE DEF new
<1>5. ASSUME NEW o \in Options
      PROVE  \/ new[o] = Default
             \/ \E i \in 1 .. n : options[i].option = o /\ options[i].argument = new[o]
    <2>1. n \in 1 .. n /\ 1 .. n - 1 \subseteq 1 .. n
        OBVIOUS
    <2>2. CASE new[o] = conf[o]
        <3>1. \/ conf[o] = Default
              \/ \E i \in 1 .. n - 1 : options[i].option = o /\ options[i].argument = conf[o]
            BY DEF ConfigurationOK
        <3> QED
            BY <2>1, <2>2, <3>1
    <2>3. CASE o = option /\ new[o] = argument
        BY <1>3, <2>1, <2>3
    <2> QED
        BY <1>4, <2>2, <2>3
<1>6. ConfigurationOK(new, options, n)
    BY <1>4, <1>5 DEF ConfigurationOK
<1> QED
    BY <1>6 DEF new, option, argument

LEMMA newConfigurationOK == \A options : ConfigurationOK(newConfiguration, options, 0)
BY DEF ConfigurationOK, newConfiguration, Letters, Ports, Options, UINT16_MAX

\* What a command line leaves in the Configuration: for an option it names, one of
\* the arguments it gives it.
LEMMA parseArgsOK ==
    ASSUME NEW line \in COMMAND_LINES
    PROVE  ConfigurationOK(parseArgs(newConfiguration, line), line.options, Len(line.options))
<1> DEFINE options == line.options
           conf == Setting!Fold(newConfiguration, options)
<1>1. /\ options \in Seq(Range(options))
      /\ \A o \in Range(options) : o.option \in {"l", "L"} \/ o.argument \in Seq(Int)
    BY AdminWireAssumption
<1>2. parseArgs(newConfiguration, line) = [conf EXCEPT !.originServerString = LastArgument(line)]
    BY parseArgsFolds DEF setOriginServer
<1> HIDE DEF options
<1>3. StaysConfigurationOK(newConfiguration, Before(newConfiguration), options, 0)
    BY newConfigurationOK DEF StaysConfigurationOK, Before
<1>4. \A c : \A n \in 1 .. Len(options) :
        StaysConfigurationOK(newConfiguration, c, options, n - 1) =>
            StaysConfigurationOK(newConfiguration, SetOption(newConfiguration, c, options[n]), options, n)
    BY <1>1, ConfigurationStep DEF StaysConfigurationOK, SetOption
<1>5. StaysConfigurationOK(newConfiguration, conf, options, Len(options))
    BY <1>1, <1>3, <1>4, Setting!FoldInduction
<1> HIDE DEF conf
<1>6. ConfigurationOK([conf EXCEPT !.originServerString = LastArgument(line)], options, Len(options))
    BY <1>5 DEF StaysConfigurationOK, ConfigurationOK, Ports, Options, Letters
<1> QED
    BY <1>2, <1>6 DEF options

-----------------------------------------------------------------------------
(* What the command line asked for.                                        *)

\* The digit k places before the last of the first i, and the number the last five make.
Place(digits, i, k) == IF k < i THEN digits[i - k] ELSE 0
FiveDigits(a, b, c, d, e) == a + 10 * b + 100 * c + 1000 * d + 10000 * e
LastFive(digits, i) ==
    FiveDigits(Place(digits, i, 0), Place(digits, i, 1), Place(digits, i, 2), Place(digits, i, 3), Place(digits, i, 4))

\* A number of which i digits have been read: what goes before the last five is q.
IsWritten(none, n, digits, i) ==
    \E q \in Nat : /\ n = 100000 * q + LastFive(digits, i)
                   /\ q = 0 <=> \A j \in 1 .. i - 5 : digits[j] = 0
Writing == INSTANCE Folding WITH Op <- NextDigit, Base <- NoDigit, Holds <- IsWritten

LEMMA PlaceIs ==
    ASSUME NEW digits \in Seq(0 .. 9), NEW i \in 0 .. Len(digits), NEW k \in Nat
    PROVE  /\ Place(digits, i, k) \in 0 .. 9
           /\ i > 0 => Place(digits, i, 0) = digits[i] /\ Place(digits, i, k + 1) = Place(digits, i - 1, k)
<1>1. ASSUME k < i PROVE i - k \in 1 .. Len(digits)
    BY <1>1
<1>2. Place(digits, i, k) \in 0 .. 9
    BY <1>1 DEF Place
<1>3. ASSUME i > 0 PROVE Place(digits, i, 0) = digits[i]
    BY <1>3 DEF Place
<1>4. ASSUME i > 0 PROVE Place(digits, i, k + 1) = Place(digits, i - 1, k)
    <2>1. i - (k + 1) = (i - 1) - k /\ (k + 1 < i <=> k < i - 1)
        BY <1>4
    <2> QED
        BY <2>1 DEF Place
<1> QED
    BY <1>2, <1>3, <1>4

LEMMA WrittenOn ==
    ASSUME NEW digits \in Seq(0 .. 9), NEW i \in 1 .. Len(digits), NEW n, IsWritten({}, n, digits, i - 1)
    PROVE  IsWritten({}, NextDigit({}, n, digits[i]), digits, i)
<1>1. PICK q \in Nat : /\ n = 100000 * q + LastFive(digits, i - 1)
                       /\ q = 0 <=> \A j \in 1 .. (i - 1) - 5 : digits[j] = 0
    BY DEF IsWritten
<1> DEFINE P(k) == Place(digits, i - 1, k)
<1>2. /\ i - 1 \in 0 .. Len(digits) /\ i \in 0 .. Len(digits) /\ i > 0
      /\ 0 \in Nat /\ 1 \in Nat /\ 2 \in Nat /\ 3 \in Nat /\ 4 \in Nat
    OBVIOUS
<1>3. P(0) \in 0 .. 9 /\ P(1) \in 0 .. 9 /\ P(2) \in 0 .. 9 /\ P(3) \in 0 .. 9 /\ P(4) \in 0 .. 9
    BY <1>2, PlaceIs
<1>4. /\ Place(digits, i, 0) = digits[i] /\ Place(digits, i, 0 + 1) = P(0) /\ Place(digits, i, 1 + 1) = P(1)
      /\ Place(digits, i, 2 + 1) = P(2) /\ Place(digits, i, 3 + 1) = P(3)
    BY <1>2, PlaceIs
<1>5. PICK d \in 0 .. 9 : d = digits[i]
    BY <1>2
<1>6. PICK p0 \in 0 .. 9, p1 \in 0 .. 9, p2 \in 0 .. 9, p3 \in 0 .. 9, p4 \in 0 .. 9 :
        p0 = P(0) /\ p1 = P(1) /\ p2 = P(2) /\ p3 = P(3) /\ p4 = P(4)
    BY <1>3
<1>7. /\ LastFive(digits, i - 1) = p0 + 10 * p1 + 100 * p2 + 1000 * p3 + 10000 * p4
      /\ LastFive(digits, i) = d + 10 * p0 + 100 * p1 + 1000 * p2 + 10000 * p3
    <2>1. 0 + 1 = 1 /\ 1 + 1 = 2 /\ 2 + 1 = 3 /\ 3 + 1 = 4
        OBVIOUS
    <2>2. /\ Place(digits, i, 0) = d /\ Place(digits, i, 1) = p0 /\ Place(digits, i, 2) = p1
          /\ Place(digits, i, 3) = p2 /\ Place(digits, i, 4) = p3
        BY ONLY <1>4, <1>5, <1>6, <2>1
    <2>3. LastFive(digits, i) = FiveDigits(d, p0, p1, p2, p3)
        BY <2>2, Zenon DEF LastFive
    <2>4. LastFive(digits, i - 1) = FiveDigits(p0, p1, p2, p3, p4)
        BY <1>6, Zenon DEF LastFive
    <2> QED
        BY <2>3, <2>4 DEF FiveDigits
<1> DEFINE next == 10 * q + p4
<1>8. NextDigit({}, n, digits[i]) = 100000 * next + LastFive(digits, i)
    <2> DEFINE a == p0 + 10 * p1 + 100 * p2 + 1000 * p3 + 10000 * p4
               b == d + 10 * p0 + 100 * p1 + 1000 * p2 + 10000 * p3
    <2>1. a \in Nat /\ b \in Nat /\ b = 10 * a + d - 100000 * p4
        OBVIOUS
    <2>2. a = LastFive(digits, i - 1) /\ b = LastFive(digits, i)
        BY <1>7
    <2> HIDE DEF a, b
    <2>3. NextDigit({}, n, digits[i]) = 10 * n + d
        BY <1>5 DEF NextDigit
    <2>4. NextDigit({}, n, digits[i]) = 100000 * next + b
        <3>1. n = 100000 * q + a
            BY <1>1, <2>2
        <3>2. 10 * n + d = 1000000 * q + 10 * a + d
            BY ONLY <2>1, <3>1, q \in Nat, d \in 0 .. 9
        <3>3. 100000 * next + b = 1000000 * q + 10 * a + d
            BY ONLY <2>1, q \in Nat, d \in 0 .. 9, p4 \in 0 .. 9
        <3> QED
            BY <2>3, <3>2, <3>3
    <2> QED
        BY <2>2, <2>4
<1>9. next \in Nat /\ (next = 0 <=> q = 0 /\ p4 = 0)
    BY ONLY q \in Nat, p4 \in 0 .. 9
<1>10. (q = 0 /\ p4 = 0) <=> \A j \in 1 .. i - 5 : digits[j] = 0
    <2>1. CASE i > 5
        <3>1. p4 = digits[i - 5] /\ (i - 1) - 5 = (i - 5) - 1 /\ i - 5 \in 1 .. i - 5
            BY <1>6, <2>1 DEF Place
        <3>2. \A j \in 1 .. i - 5 : j \in 1 .. (i - 1) - 5 \/ j = i - 5
            BY <2>1
        <3>3. \A j \in 1 .. (i - 1) - 5 : j \in 1 .. i - 5
            BY <2>1
        <3> QED
            BY ONLY <1>1, <3>1, <3>2, <3>3
    <2>2. CASE i <= 5
        <3>1. p4 = 0 /\ 1 .. i - 5 = {} /\ 1 .. (i - 1) - 5 = {}
            BY <1>6, <2>2 DEF Place
        <3> QED
            BY ONLY <1>1, <3>1
    <2> QED
        BY <2>1, <2>2
<1> HIDE DEF next
<1> QED
    BY ONLY <1>8, <1>9, <1>10 DEF IsWritten

\* strToUint16 reads the number that is written, or 0 where that is no port.
LEMMA PortIsNumber ==
    ASSUME NEW digits \in Seq(0 .. 9)
    PROVE  strToUint16(digits) = Number(digits)
<1> DEFINE L == Len(digits)
<1>1. L \in Nat /\ L \in 0 .. L /\ (digits = <<>> => L = 0)
    OBVIOUS
<1>2. IsWritten({}, NoDigit({}), digits, 0)
    <2>1. LastFive(digits, 0) = 0 /\ 1 .. 0 - 5 = {} /\ 0 \in Nat
        BY DEF LastFive, FiveDigits, Place
    <2> QED
        BY <2>1 DEF IsWritten, NoDigit
<1>3. \A n : \A i \in 1 .. L : IsWritten({}, n, digits, i - 1) => IsWritten({}, NextDigit({}, n, digits[i]), digits, i)
    BY WrittenOn
<1>4. IsWritten({}, Writing!Fold({}, digits), digits, L)
    BY <1>2, <1>3, Writing!FoldInduction
<1>5. Value(digits) = Writing!Fold({}, digits)
    BY DEF Value, NoDigit, NextDigit, Writing!Fold, FoldLeft, MapThenFoldSet,
           Writing!FoldLeft, Writing!MapThenFoldSet, Writing!Max, Max
<1>6. PICK q \in Nat : /\ Value(digits) = 100000 * q + LastFive(digits, L)
                       /\ q = 0 <=> \A j \in 1 .. L - 5 : digits[j] = 0
    BY <1>4, <1>5 DEF IsWritten
<1> DEFINE P(k) == Place(digits, L, k)
<1>7. P(0) \in 0 .. 9 /\ P(1) \in 0 .. 9 /\ P(2) \in 0 .. 9 /\ P(3) \in 0 .. 9 /\ P(4) \in 0 .. 9
    BY <1>1, PlaceIs
<1>8. PICK n \in Nat : n = LastFive(digits, L)
    <2>1. PICK p0 \in 0 .. 9, p1 \in 0 .. 9, p2 \in 0 .. 9, p3 \in 0 .. 9, p4 \in 0 .. 9 :
            p0 = P(0) /\ p1 = P(1) /\ p2 = P(2) /\ p3 = P(3) /\ p4 = P(4)
        BY <1>7
    <2>2. LastFive(digits, L) = p0 + 10 * p1 + 100 * p2 + 1000 * p3 + 10000 * p4
        BY <2>1 DEF LastFive, FiveDigits
    <2> QED
        BY <2>2
<1>9. digits = <<>> => n = 0
    BY <1>1, <1>8 DEF LastFive, FiveDigits, Place
<1>10. Number(digits) = IF n <= UINT16_MAX /\ \A j \in 1 .. L - 5 : digits[j] = 0 THEN n ELSE 0
    BY <1>8 DEF Number, LastFive, FiveDigits, Place
<1>11. CASE q = 0
    <2>1. Value(digits) = n
        BY <1>6, <1>8, <1>11
    <2>2. Number(digits) = IF n <= UINT16_MAX THEN n ELSE 0
        BY <1>6, <1>10, <1>11
    <2> QED
        BY <1>9, <2>1, <2>2 DEF strToUint16
<1>12. CASE q # 0
    <2>1. ~ (Value(digits) <= UINT16_MAX)
        BY <1>6, <1>8, <1>12 DEF UINT16_MAX
    <2>2. Number(digits) = 0
        BY <1>6, <1>10, <1>12
    <2> QED
        BY <2>1, <2>2 DEF strToUint16
<1> QED
    BY <1>11, <1>12

\* An argument of an option that its setter takes, and what it stores of it.
TakenFor(o, options, i) == options[i].option = o /\ Takes(o, options[i].argument)
Stored(o, argument)     == IF o \in Ports THEN strToUint16(argument) ELSE argument

\* A setting is as it was before, or what was stored of the last argument that was taken.
LastTaken(conf0, conf, options, n, o) ==
    \/ conf[o] = conf0[o] /\ \A i \in 1 .. n : ~TakenFor(o, options, i)
    \/ \E i \in 1 .. n : /\ TakenFor(o, options, i) /\ conf[o] = Stored(o, options[i].argument)
                         /\ \A j \in i + 1 .. n : ~TakenFor(o, options, j)

AllLastTaken(conf0, conf, options, n) ==
    /\ DOMAIN conf = Letters \cup {"originServerString"}
    /\ \A o \in Letters : LastTaken(conf0, conf, options, n, o)
Taking == INSTANCE Folding WITH Op <- SetOption, Base <- Before, Holds <- AllLastTaken

LEMMA TakingStep ==
    ASSUME NEW conf0, NEW conf, NEW options, NEW n \in Nat \ {0}, AllLastTaken(conf0, conf, options, n - 1)
    PROVE  AllLastTaken(conf0, Set(conf, options[n].option, options[n].argument), options, n)
<1> DEFINE option   == options[n].option
           argument == options[n].argument
           new      == Set(conf, option, argument)
<1>1. Takes(option, argument) => option \in Letters
    BY DEF Takes, Letters
<1>2. new = IF Takes(option, argument) THEN [conf EXCEPT ![option] = Stored(option, argument)] ELSE conf
    BY DEF Set, Stored, Ports
<1> HIDE DEF new
<1>3. DOMAIN new = Letters \cup {"originServerString"}
    BY <1>2 DEF AllLastTaken
<1>4. ASSUME NEW o \in Letters PROVE LastTaken(conf0, new, options, n, o)
    <2>0. n \in 1 .. n /\ 1 .. n - 1 \subseteq 1 .. n /\ n + 1 .. n = {} /\ \A i \in 1 .. n : i \in 1 .. n - 1 \/ i = n
        OBVIOUS
    <2>1. CASE TakenFor(o, options, n)
        <3>1. new[o] = Stored(o, options[n].argument)
            BY <1>2, <2>1 DEF TakenFor, AllLastTaken
        <3> QED
            BY <2>0, <2>1, <3>1 DEF LastTaken
    <2>2. CASE ~TakenFor(o, options, n)
        <3>1. new[o] = conf[o]
            BY <1>2, <2>2 DEF TakenFor, AllLastTaken
        <3>2. CASE conf[o] = conf0[o] /\ \A i \in 1 .. n - 1 : ~TakenFor(o, options, i)
            BY <2>0, <2>2, <3>1, <3>2 DEF LastTaken
        <3>3. ASSUME NEW i \in 1 .. n - 1, TakenFor(o, options, i), conf[o] = Stored(o, options[i].argument),
                     \A j \in i + 1 .. n - 1 : ~TakenFor(o, options, j)
              PROVE  LastTaken(conf0, new, options, n, o)
            <4>1. \A j \in i + 1 .. n : j \in i + 1 .. n - 1 \/ j = n
                OBVIOUS
            <4>2. \A j \in i + 1 .. n : ~TakenFor(o, options, j)
                BY <2>2, <3>3, <4>1
            <4> QED
                BY <2>0, <3>1, <3>3, <4>2 DEF LastTaken
        <3> QED
            BY <3>2, <3>3 DEF AllLastTaken, LastTaken
    <2> QED
        BY <2>1, <2>2
<1> QED
    BY <1>3, <1>4 DEF AllLastTaken, new

\* What a command line leaves in the Configuration: of every option, the last argument taken.
LEMMA parseArgsTakesLast ==
    ASSUME NEW line \in COMMAND_LINES, NEW conf0, DOMAIN conf0 = Letters \cup {"originServerString"}
    PROVE  AllLastTaken(conf0, parseArgs(conf0, line), line.options, Len(line.options))
<1> DEFINE options == line.options
           conf    == Taking!Fold(conf0, options)
<1>1. options \in Seq(Range(options)) /\ Len(options) \in Nat
    BY AdminWireAssumption
<1>2. parseArgs(conf0, line) = [conf EXCEPT !.originServerString = LastArgument(line)]
    BY DEF parseArgs, setOriginServer, Before, SetOption, Taking!Fold, FoldLeft, MapThenFoldSet,
           Taking!FoldLeft, Taking!MapThenFoldSet, Taking!Max, Max
<1> HIDE DEF options
<1>3. AllLastTaken(conf0, Before(conf0), options, 0)
    BY DEF AllLastTaken, LastTaken, Before
<1>4. \A c : \A n \in 1 .. Len(options) :
        AllLastTaken(conf0, c, options, n - 1) => AllLastTaken(conf0, SetOption(conf0, c, options[n]), options, n)
    BY <1>1, TakingStep DEF SetOption
<1>5. AllLastTaken(conf0, conf, options, Len(options))
    BY <1>1, <1>3, <1>4, Taking!FoldInduction
<1> HIDE DEF conf
<1>6. AllLastTaken(conf0, [conf EXCEPT !.originServerString = LastArgument(line)], options, Len(options))
    BY <1>5 DEF AllLastTaken, LastTaken, Letters
<1> QED
    BY <1>2, <1>6 DEF options

-----------------------------------------------------------------------------
(* Frames.                                                                 *)

\* What a frame may carry: at most as many bytes as its length can say, each of
\* them less than the greatest length.
Fits(c) == c \in Seq(Int) /\ Len(c) <= MAX_CONTENT_LEN /\ \A i \in 1 .. Len(c) : c[i] < MAX_CONTENT_LEN

Framed(c) == <<Len(c)>> \o c

\* A frame is as long as it says.
LEMMA FramedIs ==
    ASSUME NEW c \in Seq(Int)
    PROVE  /\ Framed(c) \in Seq(Int) /\ Len(Framed(c)) = Len(c) + 1 /\ Framed(c)[1] = Len(c)
           /\ \A i \in 1 .. Len(c) : Framed(c)[i + 1] = c[i]
<1>1. <<Len(c)>> \in Seq(Int) /\ Len(<<Len(c)>>) = 1
    OBVIOUS
<1> QED
    BY <1>1, ConcatProperties DEF Framed

\* What parseConfig makes of a frame.  Where the frame is full, its length goes on in
\* the first byte of the content, and that byte is lost.
LEMMA ContentIs ==
    ASSUME NEW c, Fits(c)
    PROVE  /\ Len(c) < MAX_CONTENT_LEN => Content(Framed(c)) = c
           /\ Len(c) = MAX_CONTENT_LEN => Content(Framed(c)) = SubSeq(c, 2, Len(c))
<1> DEFINE bytes == Framed(c)
           IsLast(i) == /\ bytes[i] # MAX_CONTENT_LEN
                        /\ \A j \in 1 .. i - 1 : bytes[j] = MAX_CONTENT_LEN
           lengths == CHOOSE i \in DOMAIN bytes : IsLast(i)
<1> SUFFICES /\ Len(c) < MAX_CONTENT_LEN => Content(bytes) = c
             /\ Len(c) = MAX_CONTENT_LEN => Content(bytes) = SubSeq(c, 2, Len(c))
    OBVIOUS
<1>1. /\ MAX_CONTENT_LEN \in Nat /\ MAX_CONTENT_LEN >= 2 /\ c \in Seq(Int) /\ Len(c) \in Nat
      /\ Len(c) <= MAX_CONTENT_LEN /\ \A i \in 1 .. Len(c) : c[i] < MAX_CONTENT_LEN /\ c[i] \in Int
    BY AdminWireAssumption DEF Fits
<1>2. /\ bytes \in Seq(Int) /\ Len(bytes) = Len(c) + 1 /\ bytes[1] = Len(c)
      /\ DOMAIN bytes = 1 .. Len(c) + 1
      /\ \A i \in 1 .. Len(c) : bytes[i + 1] = c[i]
    BY <1>1, FramedIs
<1>3. Content(bytes) = SubSeq(bytes, lengths + 1,
                LET size == MAX_CONTENT_LEN * (lengths - 1) + Size(bytes[lengths])
                IN  IF lengths + size < Len(bytes) THEN lengths + size ELSE Len(bytes))
    BY DEF Content
<1> HIDE DEF bytes
<1>4. ASSUME NEW i \in DOMAIN bytes, IsLast(i) PROVE lengths = i
    <2>1. lengths \in DOMAIN bytes /\ IsLast(lengths)
        BY <1>4
    <2> HIDE DEF lengths
    <2> QED
        BY <1>1, <1>2, <1>4, <2>1
<1> HIDE DEF lengths
<1>5. CASE Len(c) < MAX_CONTENT_LEN
    <2>1. IsLast(1) /\ 1 \in DOMAIN bytes
        BY <1>1, <1>2, <1>5
    <2>2. lengths = 1 /\ Size(bytes[1]) = Len(c)
        BY <1>1, <1>2, <1>4, <2>1 DEF Size
    <2>3. Content(bytes) = SubSeq(bytes, 2, Len(c) + 1)
        BY <1>1, <1>2, <1>3, <2>2
    <2>4. SubSeq(bytes, 2, Len(c) + 1) = c
        <3>1. /\ SubSeq(bytes, 2, Len(c) + 1) \in Seq(Int)
              /\ Len(SubSeq(bytes, 2, Len(c) + 1)) = Len(c)
              /\ \A i \in 1 .. Len(c) : SubSeq(bytes, 2, Len(c) + 1)[i] = bytes[i + 1]
            BY <1>1, <1>2, SubSeqProperties
        <3> QED
            BY <1>1, <1>2, <3>1, SeqEqual
    <2>5. Content(bytes) = c
        BY ONLY <2>3, <2>4
    <2>6. Len(c) # MAX_CONTENT_LEN
        BY <1>1, <1>5
    <2> QED
        BY ONLY <2>5, <2>6
<1>6. CASE Len(c) = MAX_CONTENT_LEN
    <2>1. IsLast(2) /\ 2 \in DOMAIN bytes /\ bytes[2] \in Int
        BY <1>1, <1>2, <1>6
    <2>2. lengths = 2 /\ Size(bytes[2]) \in Nat
        <3>1. lengths = 2
            BY <1>4, <2>1
        <3>2. Size(bytes[2]) \in Nat
            BY <2>1 DEF Size
        <3> QED
            BY <3>1, <3>2
    <2>3. 2 + (MAX_CONTENT_LEN * (2 - 1) + Size(bytes[2])) >= Len(bytes)
        BY <1>1, <1>2, <1>6, <2>2
    <2>4. Content(bytes) = SubSeq(bytes, 3, Len(c) + 1)
        BY <1>1, <1>2, <1>3, <2>2, <2>3
    <2>5. SubSeq(bytes, 3, Len(c) + 1) = SubSeq(c, 2, Len(c))
        <3> DEFINE s == SubSeq(bytes, 3, Len(c) + 1)
                   u == SubSeq(c, 2, Len(c))
        <3>1. /\ s \in Seq(Int) /\ Len(s) = Len(c) - 1
              /\ \A i \in 1 .. Len(c) - 1 : s[i] = bytes[i + 2]
            BY <1>1, <1>2, <1>6, SubSeqProperties
        <3>2. /\ u \in Seq(Int) /\ Len(u) = Len(c) - 1
              /\ \A i \in 1 .. Len(c) - 1 : u[i] = c[i + 1]
            BY <1>1, <1>6, SubSeqProperties
        <3> HIDE DEF s, u
        <3>3. \A i \in 1 .. Len(c) - 1 : bytes[i + 2] = c[i + 1]
            <4> TAKE i \in 1 .. Len(c) - 1
            <4>1. i + 1 \in 1 .. Len(c) /\ (i + 1) + 1 = i + 2
                BY <1>1
            <4> QED
                BY <1>2, <4>1
        <3>4. s = u
            BY <3>1, <3>2, <3>3, SeqEqual
        <3> QED
            BY <3>4 DEF s, u
    <2>6. ~(Len(c) < MAX_CONTENT_LEN)
        BY <1>1, <1>6
    <2> QED
        BY ONLY <2>4, <2>5, <2>6
<1> QED
    BY <1>1, <1>5, <1>6

\* What is needed of numbers: a content is cut at the multiples of the greatest length.
LEMMA Quotient ==
    ASSUME NEW n \in Nat, NEW m \in Nat \ {0}
    PROVE  n \div m \in Nat /\ m * (n \div m) <= n /\ n < m * (n \div m) + m /\ (n < m => n \div m = 0)
OBVIOUS

LEMMA Multiples ==
    ASSUME NEW m \in Nat, NEW i \in Nat, NEW j \in Nat, i <= j
    PROVE  m * i \in Nat /\ m * i <= m * j
OBVIOUS

LEMMA NextMultiple ==
    ASSUME NEW m \in Nat, NEW j \in Nat \ {0}
    PROVE  m * j = m * (j - 1) + m /\ m * (j - 1) \in Nat
OBVIOUS

\* A piece of a sequence, from i to j; nothing where j is before i.
IsPiece(c, s) == \E i \in 1 .. Len(s) + 1, j \in 0 .. Len(s) : c = SubSeq(s, i, j)

\* sendToProxy cuts a content into frames that fit.
LEMMA FramesAre ==
    ASSUME NEW op, NEW content \in Seq(Int), \A i \in 1 .. Len(content) : content[i] < MAX_CONTENT_LEN
    PROVE  /\ Frames(op, content) \in Seq([op : {op}, bytes : Seq(Int)])
           /\ \A j \in DOMAIN Frames(op, content) :
                \E c : /\ Frames(op, content)[j] = [op |-> op, bytes |-> Framed(c)]
                       /\ Fits(c) /\ IsPiece(c, content)
           /\ Len(content) <= MAX_CONTENT_LEN =>
                Frames(op, content) = <<[op |-> op, bytes |-> Framed(content)]>>
<1> DEFINE size == Len(content)
           MAX == MAX_CONTENT_LEN
           full == (size - 1) \div MAX
           end(j) == IF j <= full THEN MAX * j ELSE size
           chunk(j) == SubSeq(content, MAX * (j - 1) + 1, end(j))
           frames == Frames(op, content)
<1> SUFFICES /\ frames \in Seq([op : {op}, bytes : Seq(Int)])
             /\ \A j \in DOMAIN frames :
                    \E c : /\ frames[j] = [op |-> op, bytes |-> Framed(c)]
                           /\ Fits(c) /\ IsPiece(c, content)
             /\ size <= MAX => frames = <<[op |-> op, bytes |-> Framed(content)]>>
    OBVIOUS
<1>1. MAX \in Nat /\ MAX >= 2 /\ size \in Nat
    BY AdminWireAssumption
<1>2. CASE size = 0
    <2>1. content = <<>> /\ <<>> \in Seq(Int) /\ SubSeq(content, 1, 0) = <<>> /\ Len(<<>>) = 0
        BY <1>2
    <2>2. Framed(content) = <<0>>
        BY <2>1 DEF Framed
    <2>3. frames = <<[op |-> op, bytes |-> Framed(content)]>>
        BY <1>2, <2>2 DEF Frames
    <2>4. Fits(content) /\ IsPiece(content, content)
        BY <1>1, <2>1 DEF Fits, IsPiece
    <2>5. DOMAIN frames = 1 .. 0 + 1 /\ frames[1] = [op |-> op, bytes |-> Framed(content)]
        BY <2>3
    <2>6. Framed(content) \in Seq(Int)
        BY <2>4, FramedIs DEF Fits
    <2>7. frames \in Seq([op : {op}, bytes : Seq(Int)])
        BY <2>3, <2>6
    <2> HIDE DEF frames
    <2> QED
        BY <2>3, <2>4, <2>5, <2>7
<1>3. CASE size # 0
    <2>1. frames = [j \in 1 .. full + 1 |-> [op |-> op, bytes |-> Framed(chunk(j))]]
        BY <1>3 DEF Frames, Framed
    <2>2. full \in Nat /\ MAX * full <= size - 1 /\ size - 1 < MAX * full + MAX /\ (size - 1 < MAX => full = 0)
        BY <1>1, <1>3, Quotient
    <2> HIDE DEF full, MAX, size, frames
    <2>3. ASSUME NEW j \in 1 .. full + 1
          PROVE  Fits(chunk(j)) /\ IsPiece(chunk(j), content)
        <3>1. j \in Nat \ {0} /\ MAX * j = MAX * (j - 1) + MAX /\ MAX * (j - 1) \in Nat
            BY <1>1, <2>2, NextMultiple
        <3>2. /\ MAX * (j - 1) + 1 <= end(j) /\ end(j) <= size /\ end(j) <= MAX * (j - 1) + MAX
              /\ end(j) \in Nat
            <4>1. CASE j <= full
                <5>1. MAX * j <= MAX * full /\ MAX * j \in Nat
                    BY <1>1, <2>2, <3>1, <4>1, Multiples
                <5> QED
                    BY <1>1, <2>2, <3>1, <4>1, <5>1
            <4>2. CASE j = full + 1
                <5>1. MAX * (j - 1) = MAX * full
                    BY <2>2, <4>2
                <5>2. end(j) = size
                    BY <2>2, <4>2
                <5> HIDE DEF end
                <5> QED
                    BY <1>1, <1>3, <2>2, <3>1, <5>1, <5>2
            <4> QED
                BY <2>2, <4>1, <4>2
        <3> DEFINE first == MAX * (j - 1) + 1
                   last == end(j)
        <3>3. first \in 1 .. size /\ last \in 1 .. size /\ first <= last /\ last - first + 1 <= MAX
            BY <1>1, <3>1, <3>2
        <3>4. chunk(j) = SubSeq(content, first, last)
            OBVIOUS
        <3> HIDE DEF first, last, end, chunk
        <3>5. /\ SubSeq(content, first, last) \in Seq(Int)
              /\ Len(SubSeq(content, first, last)) = last - first + 1
              /\ \A i \in 1 .. last - first + 1 : SubSeq(content, first, last)[i] = content[first + i - 1]
            <4>1. first \in Int /\ last \in Int /\ first <= last
                BY <1>1, <3>3
            <4>2. \A i \in first .. last : content[i] \in Int
                BY <1>1, <3>3 DEF size
            <4> QED
                BY ONLY <4>1, <4>2, SubSeqProperties
        <3>6. \A i \in 1 .. last - first + 1 : content[first + i - 1] < MAX
            BY <3>3 DEF size, MAX
        <3>7. Fits(chunk(j))
            BY <3>3, <3>4, <3>5, <3>6 DEF Fits, MAX
        <3>8. IsPiece(chunk(j), content)
            <4>1. first \in 1 .. Len(content) + 1 /\ last \in 0 .. Len(content)
                BY <1>1, <3>3 DEF size
            <4> QED
                BY ONLY <3>4, <4>1 DEF IsPiece
        <3> QED
            BY <3>7, <3>8
    <2>4. size <= MAX => frames = <<[op |-> op, bytes |-> Framed(content)]>>
        <3> SUFFICES ASSUME size <= MAX PROVE frames = <<[op |-> op, bytes |-> Framed(content)]>>
            OBVIOUS
        <3>1. full = 0 /\ MAX * (1 - 1) + 1 = 1
            BY <1>1, <1>3, <2>2
        <3>2. end(1) = size
            BY <3>1
        <3> HIDE DEF end
        <3>3. chunk(1) = content
            <4>1. chunk(1) = SubSeq(content, 1, size)
                BY <3>1, <3>2
            <4> QED
                BY <4>1, SubSeqFull DEF size
        <3> HIDE DEF chunk
        <3>4. frames = [j \in 1 .. 1 |-> [op |-> op, bytes |-> Framed(chunk(j))]]
            BY <2>1, <3>1
        <3>5. \A j \in 1 .. 1 : j = 1
            OBVIOUS
        <3> QED
            BY <3>3, <3>4, <3>5
    <2> HIDE DEF chunk
    <2>5. DOMAIN frames = 1 .. full + 1
        BY <2>1
    <2>6. \A j \in DOMAIN frames : frames[j] = [op |-> op, bytes |-> Framed(chunk(j))]
        BY <2>1
    <2>7. \A j \in 1 .. full + 1 : [op |-> op, bytes |-> Framed(chunk(j))] \in [op : {op}, bytes : Seq(Int)]
        BY <2>3, FramedIs DEF Fits
    <2>8. frames \in Seq([op : {op}, bytes : Seq(Int)])
        BY <2>1, <2>2, <2>7
    <2> QED
        BY <2>3, <2>4, <2>5, <2>6, <2>8
<1> QED
    BY <1>2, <1>3

\* The bytes of a frame are read as a piece of what it carries, and all of it if
\* the frame is not full.
LEMMA ContentOfFrame ==
    ASSUME NEW c, Fits(c)
    PROVE  Content(Framed(c)) \in Seq(Int) /\ IsPiece(Content(Framed(c)), c)
<1>1. c \in Seq(Int) /\ Len(c) \in Nat /\ Len(c) <= MAX_CONTENT_LEN /\ MAX_CONTENT_LEN >= 2 /\ MAX_CONTENT_LEN \in Nat
    BY AdminWireAssumption DEF Fits
<1>2. CASE Len(c) < MAX_CONTENT_LEN
    <2>1. Content(Framed(c)) = c
        BY <1>2, ContentIs
    <2>2. c = SubSeq(c, 1, Len(c))
        BY <1>1, SubSeqFull
    <2>3. 1 \in 1 .. Len(c) + 1 /\ Len(c) \in 0 .. Len(c)
        BY <1>1
    <2> QED
        BY ONLY <1>1, <2>1, <2>2, <2>3 DEF IsPiece
<1>3. CASE Len(c) = MAX_CONTENT_LEN
    <2>1. Content(Framed(c)) = SubSeq(c, 2, Len(c))
        BY <1>3, ContentIs
    <2>2. 2 \in 1 .. Len(c) + 1 /\ Len(c) \in 0 .. Len(c)
        BY <1>1, <1>3
    <2>3. SubSeq(c, 2, Len(c)) \in Seq(Int)
        BY <1>1, <1>3, SubSeqProperties
    <2> QED
        BY ONLY <2>1, <2>2, <2>3 DEF IsPiece
<1> QED
    BY <1>1, <1>2, <1>3

\* A piece of what was typed for an option was typed for it.
LEMMA PieceOfTyped ==
    ASSUME NEW option, NEW part, TypedFor(option, part), NEW c, IsPiece(c, part)
    PROVE  TypedFor(option, c)
<1>1. PICK line \in LINES :
        \E n \in 1 .. Len(line) - 1, j \in 0 .. Len(line) :
            \E i \in n + 2 .. Len(line) + 1 :
                /\ line[n] = KeyOf[option] /\ line[n + 1] = SPACE
                /\ part = SubSeq(line, i, j)
    BY DEF TypedFor
<1>2. PICK n \in 1 .. Len(line) - 1, j \in 0 .. Len(line) :
            \E i \in n + 2 .. Len(line) + 1 :
                /\ line[n] = KeyOf[option] /\ line[n + 1] = SPACE
                /\ part = SubSeq(line, i, j)
    BY <1>1
<1>3. PICK i \in n + 2 .. Len(line) + 1 :
                /\ line[n] = KeyOf[option] /\ line[n + 1] = SPACE
                /\ part = SubSeq(line, i, j)
    BY <1>2
<1>4. line \in Seq(Int) /\ Len(line) \in Nat
    BY AdminWireAssumption
<1>5. PICK a \in 1 .. Len(part) + 1, b \in 0 .. Len(part) : c = SubSeq(part, a, b)
    BY DEF IsPiece
<1>6. \A k \in n + 2 .. Len(line) + 1, l \in 0 .. Len(line) : c = SubSeq(line, k, l) => TypedFor(option, c)
    BY ONLY <1>3, n \in 1 .. Len(line) - 1, line \in LINES DEF TypedFor
<1>7. CASE b < a
    <2>1. SubSeq(part, a, b) = <<>>
        <3>1. Len(part) \in Nat
            BY <1>3, <1>4
        <3> QED
            BY <1>7, <3>1
    <2>2. SubSeq(line, n + 2, 0) = <<>>
        BY <1>4
    <2>3. n + 2 \in n + 2 .. Len(line) + 1 /\ 0 \in 0 .. Len(line)
        BY <1>4
    <2> QED
        BY <1>5, <1>6, <2>1, <2>2, <2>3
<1>8. CASE a <= b
    <2>1. i <= j /\ Len(part) = j - i + 1
        BY <1>3, <1>4, <1>5, <1>8
    <2>2. c = SubSeq(line, i + a - 1, i + b - 1)
        BY <1>3, <1>4, <1>5, <1>8, <2>1, SubSeqOfSubSeq
    <2>3. i + a - 1 \in n + 2 .. Len(line) + 1 /\ i + b - 1 \in 0 .. Len(line)
        BY <1>4, <1>8, <2>1
    <2> QED
        BY <1>6, <2>2, <2>3
<1>9. Len(part) \in Nat
    BY <1>3, <1>4
<1> QED
    BY <1>7, <1>8, <1>9

-----------------------------------------------------------------------------
(* The keyboard.                                                           *)

\* Keys that no end of a line is among, from p to q, are keys of one line.
OfOneLine(keys, p, q) ==
    \E line \in LINES : \E s \in 1 .. Len(line) :
        /\ s + (q - p) <= Len(line)
        /\ \A i \in p .. q : keys[i] = line[s + (i - p)]

KeyboardOK(keys) ==
    /\ keys \in Seq(Int)
    /\ keys = <<>> \/ keys[Len(keys)] = LF
    /\ \A p \in 1 .. Len(keys) : \A q \in p .. Len(keys) :
            (\A i \in p .. q : keys[i] # LF) => OfOneLine(keys, p, q)

LEMMA KeyboardEmpty == KeyboardOK(<<>>)
<1>1. <<>> \in Seq(Int) /\ Len(<<>>) = 0
    OBVIOUS
<1> QED
    BY <1>1 DEF KeyboardOK

LEMMA KeyboardTyped ==
    ASSUME NEW keys, KeyboardOK(keys), NEW line \in LINES
    PROVE  KeyboardOK(keys \o line \o <<LF>>)
<1> DEFINE new == keys \o line \o <<LF>>
           K == Len(keys)
           L == Len(line)
<1>1. keys \in Seq(Int) /\ line \in Seq(Int) /\ <<LF>> \in Seq(Int) /\ Len(<<LF>>) = 1 /\ K \in Nat /\ L \in Nat
    BY AdminWireAssumption DEF KeyboardOK, LF
<1>2. /\ new \in Seq(Int) /\ Len(new) = K + L + 1
      /\ \A i \in 1 .. K : new[i] = keys[i]
      /\ \A i \in 1 .. L : new[K + i] = line[i]
      /\ new[K + L + 1] = LF
    BY <1>1, TypedOn
<1> SUFFICES KeyboardOK(new)
    OBVIOUS
<1> HIDE DEF new, K
<1>3. ASSUME NEW p \in 1 .. Len(new), NEW q \in p .. Len(new), \A i \in p .. q : new[i] # LF
      PROVE  OfOneLine(new, p, q)
    <2>1. p \in Nat /\ q \in Nat /\ 1 <= p /\ p <= q /\ q <= K + L
        <3>1. q # K + L + 1
            BY <1>1, <1>2, <1>3
        <3>2. K \in Nat /\ L \in Nat /\ p \in 1 .. K + L + 1 /\ q \in p .. K + L + 1
            BY <1>1, <1>2, <1>3
        <3> QED
            BY ONLY <3>1, <3>2
    <2>2. CASE q <= K
        <3>1. p \in 1 .. K /\ q \in p .. K /\ \A i \in p .. q : new[i] = keys[i]
            <4>1. p \in 1 .. K /\ q \in p .. K /\ p .. q \subseteq 1 .. K
                BY <1>1, <2>1, <2>2
            <4> QED
                BY <1>2, <4>1
        <3>2. OfOneLine(keys, p, q)
            BY <1>3, <3>1 DEF KeyboardOK, K
        <3> QED
            BY <3>1, <3>2 DEF OfOneLine
    <2>3. CASE p > K
        <3> DEFINE s == p - K
        <3>1. s \in 1 .. L /\ s + (q - p) <= L
            BY <1>1, <2>1, <2>3
        <3>2. \A i \in p .. q : new[i] = line[s + (i - p)]
            <4> TAKE i \in p .. q
            <4>1. i - K \in 1 .. L /\ K + (i - K) = i /\ s + (i - p) = i - K
                BY <1>1, <2>1, <2>3
            <4> QED
                BY <1>2, <4>1
        <3> HIDE DEF s
        <3> QED
            BY <3>1, <3>2 DEF OfOneLine
    <2>4. CASE p <= K /\ K < q
        <3>1. K \in p .. q /\ new[K] = keys[K] /\ K # 0
            <4>1. K \in p .. q /\ K \in 1 .. K
                BY <1>1, <2>1, <2>4
            <4> QED
                BY <1>2, <4>1
        <3>2. keys[K] = LF
            BY <1>1, <3>1 DEF KeyboardOK, K
        <3> QED
            BY <1>3, <3>1, <3>2
    <2> QED
        BY <1>1, <2>1, <2>2, <2>3, <2>4
<1> QED
    BY <1>1, <1>2, <1>3 DEF KeyboardOK

LEMMA KeyboardRead ==
    ASSUME NEW keys, KeyboardOK(keys), NEW r \in 0 .. Len(keys)
    PROVE  KeyboardOK(SubSeq(keys, r + 1, Len(keys)))
<1> DEFINE new == SubSeq(keys, r + 1, Len(keys))
           K == Len(keys)
<1>1. keys \in Seq(Int) /\ K \in Nat /\ r \in Nat /\ r <= K
    BY DEF KeyboardOK
<1>2. new \in Seq(Int) /\ Len(new) = K - r /\ \A i \in 1 .. K - r : new[i] = keys[r + i]
    <2>1. \A i \in r + 1 .. K : keys[i] \in Int
        BY <1>1
    <2>2. /\ new \in Seq(Int) /\ Len(new) = IF r + 1 <= K THEN K - (r + 1) + 1 ELSE 0
          /\ \A i \in 1 .. K - (r + 1) + 1 : new[i] = keys[(r + 1) + i - 1]
        BY <1>1, <2>1, SubSeqProperties
    <2>3. \A i \in 1 .. K - r : (r + 1) + i - 1 = r + i
        BY <1>1
    <2> HIDE DEF new
    <2> QED
        BY <1>1, <2>2, <2>3
<1> SUFFICES KeyboardOK(new)
    OBVIOUS
<1> HIDE DEF new
<1>3. new = <<>> \/ new[Len(new)] = LF
    <2>1. CASE r = K
        BY <1>1, <1>2, <2>1
    <2>2. CASE r < K
        <3>1. keys[K] = LF
            BY <1>1, <2>2 DEF KeyboardOK
        <3>2. K - r \in 1 .. K - r /\ r + (K - r) = K
            BY <1>1, <2>2
        <3> QED
            BY <1>2, <3>1, <3>2
    <2> QED
        BY <1>1, <2>1, <2>2
<1>4. ASSUME NEW p \in 1 .. Len(new), NEW q \in p .. Len(new), \A i \in p .. q : new[i] # LF
      PROVE  OfOneLine(new, p, q)
    <2>1. p \in Nat /\ q \in Nat /\ 1 <= p /\ p <= q /\ q <= K - r
        BY <1>1, <1>2
    <2>2. \A i \in r + p .. r + q : i - r \in p .. q /\ new[i - r] = keys[i]
        <3> TAKE i \in r + p .. r + q
        <3>1. i - r \in 1 .. K - r /\ i - r \in p .. q /\ r + (i - r) = i
            BY <1>1, <2>1
        <3> QED
            BY <1>2, <3>1
    <2>3. r + p \in 1 .. K /\ r + q \in r + p .. K
        BY <1>1, <2>1
    <2>4. OfOneLine(keys, r + p, r + q)
        BY <1>4, <2>2, <2>3 DEF KeyboardOK
    <2>50. PICK line \in LINES : \E s \in 1 .. Len(line) :
            /\ s + ((r + q) - (r + p)) <= Len(line)
            /\ \A i \in r + p .. r + q : keys[i] = line[s + (i - (r + p))]
        BY <2>4 DEF OfOneLine
    <2>5. PICK s \in 1 .. Len(line) :
            /\ s + ((r + q) - (r + p)) <= Len(line)
            /\ \A i \in r + p .. r + q : keys[i] = line[s + (i - (r + p))]
        BY <2>50
    <2>6. (r + q) - (r + p) = q - p
        BY <1>1, <2>1
    <2>7. \A i \in p .. q : new[i] = line[s + (i - p)]
        <3> TAKE i \in p .. q
        <3>1. r + i \in r + p .. r + q /\ (r + i) - r = i /\ (r + i) - (r + p) = i - p
            BY <1>1, <2>1
        <3> QED
            BY <2>2, <2>5, <3>1
    <2> QED
        BY <2>5, <2>6, <2>7 DEF OfOneLine
<1> QED
    BY <1>1, <1>2, <1>3, <1>4 DEF KeyboardOK

\* What is read after the letter of a command was typed for that command.
LEMMA ReadIsTyped ==
    ASSUME NEW keys, KeyboardOK(keys), NEW cmd, NEW content, NEW p, NEW m, m <= Len(keys),
           ContentIsAt(cmd, content, keys, p, m)
    PROVE  TypedFor(cmd, content) /\ content \in Seq(Int) /\ \A i \in 1 .. Len(content) : content[i] < MAX_CONTENT_LEN
<1>1. /\ keys \in Seq(Int) /\ p \in Nat /\ p >= 3 /\ m \in Nat /\ p <= m /\ m <= Len(keys) /\ Len(keys) \in Nat
      /\ keys[p - 2] = KeyOf[cmd] /\ keys[p - 1] = SPACE /\ content = SubSeq(keys, p, m)
    BY DEF KeyboardOK, ContentIsAt
<1>2. OfOneLine(keys, p - 2, m)
    <2>1. p - 2 \in 1 .. Len(keys) /\ m \in p - 2 .. Len(keys)
        BY <1>1
    <2> QED
        BY <2>1 DEF KeyboardOK, ContentIsAt
<1>3. PICK line \in LINES : \E s \in 1 .. Len(line) :
        /\ s + (m - (p - 2)) <= Len(line)
        /\ \A i \in p - 2 .. m : keys[i] = line[s + (i - (p - 2))]
    BY <1>2 DEF OfOneLine
<1>4. PICK s \in 1 .. Len(line) :
        /\ s + (m - (p - 2)) <= Len(line)
        /\ \A i \in p - 2 .. m : keys[i] = line[s + (i - (p - 2))]
    BY <1>3
<1>5. line \in Seq(Int) /\ Len(line) \in Nat /\ \A i \in 1 .. Len(line) : line[i] < MAX_CONTENT_LEN
    BY AdminWireAssumption
<1>6. line[s] = KeyOf[cmd] /\ line[s + 1] = SPACE
    <2>1. p - 2 \in p - 2 .. m /\ p - 1 \in p - 2 .. m
          /\ s + ((p - 2) - (p - 2)) = s /\ s + ((p - 1) - (p - 2)) = s + 1
        BY <1>1, <1>5
    <2> QED
        BY <1>1, <1>4, <2>1
<1> DEFINE first == s + 2
           last == s + 2 + (m - p)
<1>7. first \in s + 2 .. Len(line) + 1 /\ last \in 0 .. Len(line) /\ s \in 1 .. Len(line) - 1 /\ first \in 1 .. Len(line)
      /\ first <= last /\ last - first = m - p
    <2>1. s \in Nat /\ s >= 1 /\ m \in Nat /\ p \in Nat /\ p <= m /\ Len(line) \in Nat /\ s + (m - (p - 2)) <= Len(line)
        BY <1>1, <1>4, <1>5
    <2> DEFINE L == Len(line)
    <2>2. first \in s + 2 .. L + 1 /\ last \in 0 .. L /\ s \in 1 .. L - 1 /\ first \in 1 .. L
      /\ first <= last /\ last - first = m - p
        <3> HIDE DEF L
        <3> QED
            BY ONLY <2>1 DEF L
    <2> QED
        BY <2>2
<1> HIDE DEF first, last
<1>8. /\ content \in Seq(Int) /\ Len(content) = m - p + 1
      /\ \A i \in 1 .. m - p + 1 : content[i] = keys[p + i - 1]
    <2>1. \A i \in p .. m : keys[i] \in Int
        <3> TAKE i \in p .. m
        <3>1. i \in 1 .. Len(keys)
            BY <1>1
        <3>2. keys \in Seq(Int)
            BY <1>1
        <3> QED
            BY ONLY <3>1, <3>2
    <2> DEFINE piece == SubSeq(keys, p, m)
    <2>2. /\ piece \in Seq(Int) /\ Len(piece) = m - p + 1
          /\ \A i \in 1 .. m - p + 1 : piece[i] = keys[p + i - 1]
        <3>1. p \in Int /\ m \in Int /\ p <= m
            BY <1>1
        <3> QED
            BY ONLY <2>1, <3>1, SubSeqProperties
    <2>3. content = piece
        BY <1>1
    <2> HIDE DEF piece
    <2> QED
        BY ONLY <2>2, <2>3
<1>9. /\ SubSeq(line, first, last) \in Seq(Int) /\ Len(SubSeq(line, first, last)) = m - p + 1
      /\ \A i \in 1 .. m - p + 1 : SubSeq(line, first, last)[i] = line[first + i - 1]
    <2>1. \A i \in first .. last : line[i] \in Int
        BY <1>5, <1>7
    <2>2. /\ SubSeq(line, first, last) \in Seq(Int)
          /\ Len(SubSeq(line, first, last)) = last - first + 1
          /\ \A i \in 1 .. last - first + 1 : SubSeq(line, first, last)[i] = line[first + i - 1]
        BY <1>5, <1>7, <2>1, SubSeqProperties
    <2> QED
        BY <1>7, <2>2
<1>10. \A i \in 1 .. m - p + 1 : /\ keys[p + i - 1] = line[first + i - 1]
                                /\ first + i - 1 \in 1 .. Len(line)
    <2> TAKE i \in 1 .. m - p + 1
    <2>1. p + i - 1 \in p - 2 .. m /\ s + ((p + i - 1) - (p - 2)) = first + i - 1
        BY <1>1, <1>5 DEF first
    <2>2. first + i - 1 \in 1 .. Len(line)
        BY <1>1, <1>5, <1>7
    <2> QED
        BY <1>4, <2>1, <2>2
<1>11. content = SubSeq(line, first, last)
    <2> DEFINE t == SubSeq(line, first, last)
    <2>1. t \in Seq(Int) /\ Len(t) = Len(content) /\ \A i \in 1 .. Len(content) : content[i] = t[i]
        BY <1>1, <1>8, <1>9, <1>10
    <2> HIDE DEF t
    <2>2. content = t
        BY ONLY <1>8, <2>1, SeqEqual
    <2> QED
        BY <2>2 DEF t
<1>12. TypedFor(cmd, content)
    BY <1>6, <1>7, <1>11 DEF TypedFor
<1>13. \A i \in 1 .. Len(content) : content[i] < MAX_CONTENT_LEN
    BY <1>1, <1>5, <1>8, <1>10
<1> QED
    BY <1>8, <1>12, <1>13

-----------------------------------------------------------------------------
(* The inductive invariant: the types, with what they need beside them.    *)

\* What may be asked for, and the frames in which it is.
Asks(op, content) ==
    /\ op \in Opcodes /\ content \in Seq(Int)
    /\ \A i \in 1 .. Len(content) : content[i] < MAX_CONTENT_LEN
    /\ op \in Options => TypedFor(op, content)

Carries(f, c) ==
    /\ f.bytes = Framed(c) /\ Fits(c)
    /\ f.op \in Options => TypedFor(f.op, c)

GoodFrames == {f \in Frame : \E c : Carries(f, c)}

Keyboards == {keys \in Seq(Int) : KeyboardOK(keys)}

Consoles == {"password", "commands", "gone"}

Requests == [op : Opcodes \cup {"none"}, content : Seq(Int)]

ComesFrom(o, text) == text = Default \/ GivenFor(o, text) \/ TypedFor(o, text)

Configured ==
    /\ DOMAIN config = Letters \cup {"originServerString"}
    /\ \A o \in Ports : config[o] \in 0 .. UINT16_MAX
    /\ main = "starting" => config = newConfiguration
    /\ main = "serving" => \A o \in Options : ComesFrom(o, config[o])

\* Nobody says anything to a proxy that is not there.
Silence ==
    main # "serving" =>
        \A a \in ADMINS : /\ console[a] = "password" /\ request[a] = NoRequest
                          /\ unsent[a] = <<>> /\ toProxy[a] = <<>> /\ toAdmin[a] = <<>>

\* A console gives up at the last of its tries.
TriesLeft == \A a \in ADMINS : console[a] = "gone" \/ tries[a] < MAX_TRIES

IInv ==
    /\ commandLine \in COMMAND_LINES /\ main \in {"starting", "serving", "ended"}
    /\ Configured /\ Silence /\ TriesLeft
    /\ console \in [ADMINS -> Consoles]
    /\ tries \in [ADMINS -> 0 .. MAX_TRIES]
    /\ asked \in [ADMINS -> 0 .. MAX_REQUESTS]
    /\ keyboard \in [ADMINS -> Keyboards]
    /\ request \in [ADMINS -> Requests]
    /\ unsent \in [ADMINS -> Seq(GoodFrames)] /\ toProxy \in [ADMINS -> Seq(GoodFrames)]
    /\ toAdmin \in [ADMINS -> Seq(Answer)]

\* What the proofs use of the assumption on the constants, beside what is typed.
LEMMA Limits == /\ MAX_CONTENT_LEN \in Nat /\ MAX_CONTENT_LEN >= 2
                /\ MAX_TRIES \in Nat \ {0} /\ MAX_REQUESTS \in Nat
BY AdminWireAssumption, Zenon

\* Requests are cut into good frames.
LEMMA FramesAreGood ==
    ASSUME NEW op, NEW content, Asks(op, content)
    PROVE  Frames(op, content) \in Seq(GoodFrames)
<1> DEFINE frames == Frames(op, content)
<1>1. /\ op \in Opcodes /\ content \in Seq(Int)
      /\ \A i \in 1 .. Len(content) : content[i] < MAX_CONTENT_LEN
    BY DEF Asks
<1>2. /\ frames \in Seq([op : {op}, bytes : Seq(Int)])
      /\ \A j \in DOMAIN frames :
            \E c : /\ frames[j] = [op |-> op, bytes |-> Framed(c)]
                   /\ Fits(c) /\ IsPiece(c, content)
    BY <1>1, FramesAre
<1> HIDE DEF frames
<1>3. ASSUME NEW j \in DOMAIN frames PROVE frames[j] \in GoodFrames
    <2>1. PICK c : /\ frames[j] = [op |-> op, bytes |-> Framed(c)]
                   /\ Fits(c) /\ IsPiece(c, content)
        BY <1>2
    <2>2. Framed(c) \in Seq(Int)
        BY <2>1, FramedIs DEF Fits
    <2>3. frames[j] \in Frame /\ frames[j].op = op /\ frames[j].bytes = Framed(c)
        BY <1>1, <2>1, <2>2 DEF Frame
    <2>4. op \in Options => TypedFor(op, c)
        BY <2>1, PieceOfTyped DEF Asks
    <2> QED
        BY <2>1, <2>3, <2>4 DEF GoodFrames, Carries
<1> QED
    BY <1>2, <1>3 DEF frames

\* parseConfig reads something of what was asked for out of a good frame.
LEMMA ContentOfGood ==
    ASSUME NEW f \in GoodFrames
    PROVE  /\ f.op \in Opcodes /\ Content(f.bytes) \in Seq(Int)
           /\ f.op \in Options => TypedFor(f.op, Content(f.bytes))
<1>1. PICK c : Carries(f, c)
    BY DEF GoodFrames
<1>2. f.bytes = Framed(c) /\ Fits(c) /\ f.op \in Opcodes
    BY <1>1 DEF Carries, GoodFrames, Frame
<1>3. Content(f.bytes) \in Seq(Int) /\ IsPiece(Content(f.bytes), c)
    BY <1>2, ContentOfFrame
<1> QED
    BY <1>1, <1>2, <1>3, PieceOfTyped DEF Carries

-----------------------------------------------------------------------------
(* Answers.                                                                *)

Words == [word : {"name", "figure", "NULL"}, of : Int]

MoreWords(given, words, name) == AddMetric(words, name)
NoWords(given) == <<>>
AreWords(given, words, names, n) == words \in Seq(Words)
Reporting == INSTANCE Folding WITH Op <- MoreWords, Base <- NoWords, Holds <- AreWords

LEMMA getMetricsFolds == ASSUME NEW names PROVE getMetrics(names) = Reporting!Fold({}, names)
BY DEF getMetrics, NoWords, MoreWords, Reporting!Fold, FoldLeft, MapThenFoldSet,
       Reporting!FoldLeft, Reporting!MapThenFoldSet, Reporting!Max, Max

LEMMA getMetricsType ==
    ASSUME NEW names \in Seq(Int)
    PROVE  getMetrics(names) \in Seq(Words)
<1>1. AreWords({}, NoWords({}), names, 0)
    BY DEF AreWords, NoWords
<1>2. ASSUME NEW words \in Seq(Words), NEW name \in Int
      PROVE  AddMetric(words, name) \in Seq(Words)
    <2>1. <<Name(name), Figure(name)>> \in Seq(Words) /\ <<Null(name)>> \in Seq(Words)
        BY DEF Words, Name, Figure, Null
    <2> QED
        BY <2>1, ConcatProperties DEF AddMetric
<1>3. \A words : \A n \in 1 .. Len(names) :
        AreWords({}, words, names, n - 1) => AreWords({}, MoreWords({}, words, names[n]), names, n)
    <2> SUFFICES ASSUME NEW words, NEW n \in 1 .. Len(names), words \in Seq(Words)
                 PROVE  AddMetric(words, names[n]) \in Seq(Words)
        BY DEF AreWords, MoreWords
    <2>1. names[n] \in Int
        OBVIOUS
    <2> QED
        BY <1>2, <2>1
<1>4. AreWords({}, Reporting!Fold({}, names), names, Len(names))
    BY <1>1, <1>3, Reporting!FoldInduction
<1> QED
    BY <1>4, getMetricsFolds DEF AreWords

LEMMA AnswerType ==
    ASSUME NEW op \in Opcodes, NEW content \in Seq(Int)
    PROVE  AnswerTo(op, content, Status(op, content)) \in Answer
<1>1. Status(op, content) \in {"OK", "ERROR", "METRICS", "VERSION", "none"}
    BY DEF Status
<1>2. getMetrics(content) \in Seq(Words) /\ <<>> \in Seq(Words)
    BY getMetricsType
<1> QED
    BY <1>1, <1>2 DEF AnswerTo, Answer, Words

LEMMA LeftoverType ==
    ASSUME NEW answer \in Answer
    PROVE  Leftover(answer) \in Seq(Answer)
<1> DEFINE n == CASE answer.status = "OK" -> 1
                   [] answer.status \in {"ERROR", "VERSION"} -> 3
                   [] answer.status = "METRICS" -> 2 * Len(answer.report)
                   [] answer.status = "none" -> 0
<1>1. Len(answer.report) \in Nat /\ answer.status \in {"OK", "ERROR", "METRICS", "VERSION", "none"}
    BY DEF Answer
<1>2. n \in Nat
    BY <1>1
<1>3. Garbage \in Answer
    BY DEF Garbage, Answer
<1>4. Leftover(answer) = [i \in 1 .. n |-> Garbage]
    BY DEF Leftover
<1> HIDE DEF n
<1> QED
    BY <1>2, <1>3, <1>4

-----------------------------------------------------------------------------
(* The inductive invariant is kept.                                        *)

LEMMA InvInit == Init => IInv
<1> SUFFICES ASSUME Init PROVE IInv
    OBVIOUS
<1>1. newConfiguration = config /\ Configured
    BY newConfigurationOK DEF Init, Configured, ConfigurationOK
<1>2. Silence /\ TriesLeft
    BY Limits DEF Init, Silence, TriesLeft
<1>3. <<>> \in Keyboards
    BY KeyboardEmpty DEF Keyboards
<1>4. NoRequest \in Requests /\ <<>> \in Seq(GoodFrames) /\ <<>> \in Seq(Answer)
    BY DEF NoRequest, Requests
<1>5. 0 \in 0 .. MAX_TRIES /\ 0 \in 0 .. MAX_REQUESTS /\ "password" \in Consoles
    BY Limits DEF Consoles
<1> QED
    BY <1>1, <1>2, <1>3, <1>4, <1>5 DEF Init, IInv

\* The password, like every content that can be chosen, may be asked for.
LEMMA PasswordAsks ==
    ASSUME NEW content \in CONTENTS
    PROVE  Asks("x", content)
<1>1. content \in Seq(Int) /\ \A i \in DOMAIN content : content[i] < MAX_CONTENT_LEN
    BY AdminWireAssumption
<1>2. content \in Seq(Int) /\ \A i \in 1 .. Len(content) : content[i] < MAX_CONTENT_LEN
    BY <1>1, Limits
<1> QED
    BY <1>2 DEF Asks, Opcodes, Options

\* What readCommands sends may be asked for, and it leaves the keyboard in order.
LEMMA ReadingAsks ==
    ASSUME NEW keys \in Keyboards
    PROVE  /\ readCommands(keys).todo = "send" => Asks(readCommands(keys).cmd, readCommands(keys).content)
           /\ SubSeq(keys, readCommands(keys).read + 1, Len(keys)) \in Keyboards
<1> DEFINE r == readCommands(keys)
<1>1. KeyboardOK(keys) /\ keys \in Seq(Int)
    BY DEF Keyboards
<1>2. ReadingOK(r, keys, Len(keys))
    BY <1>1, WhatIsRead
<1> HIDE DEF r
<1>3. /\ r \in Readings /\ r.read \in Nat /\ r.read <= Len(keys) /\ Len(keys) \in Nat /\ ToSend(r, keys)
      /\ r.state = "END" => r.read >= 1
      /\ r.todo = "send" => r.state = "END"
    BY <1>1, <1>2 DEF ReadingOK, Readings
<1>4. ASSUME r.todo = "send" PROVE Asks(r.cmd, r.content)
    <2> DEFINE cmd == r.cmd
               content == r.content
    <2>1. /\ cmd \in Sendable \cup {"v"}
          /\ cmd = "v" => content = <<>>
          /\ cmd = "z" => AreMetrics(content)
          /\ cmd \in WithContent => \E p \in Nat : ContentIsAt(cmd, content, keys, p, r.read - 1)
        BY <1>3, <1>4 DEF ToSend
    <2> HIDE DEF cmd, content
    <2>2. cmd \in Opcodes
        BY <2>1 DEF Sendable, WithContent, Opcodes, Commands, Options
    <2>3. CASE cmd = "v"
        <3>1. content \in Seq(Int) /\ Len(content) = 0 /\ cmd \notin Options
            BY <2>1, <2>3 DEF Options
        <3> QED
            BY <2>2, <3>1 DEF Asks, cmd, content
    <2>4. CASE cmd = "z"
        <3>1. \A name \in Range(METRICS) : name \in Int /\ name < MAX_CONTENT_LEN
            BY AdminWireAssumption, ConsoleAssumption DEF Range
        <3>2. content \in Seq(Int) /\ \A i \in 1 .. Len(content) : content[i] \in Range(METRICS)
            BY <2>1, <2>4, NamedType, NamesAreKeys DEF AreMetrics
        <3>3. \A i \in 1 .. Len(content) : content[i] < MAX_CONTENT_LEN
            BY <3>1, <3>2, Limits
        <3>4. cmd \notin Options
            BY <2>4 DEF Options
        <3> QED
            BY <2>2, <3>2, <3>3, <3>4 DEF Asks, cmd, content
    <2>5. CASE cmd \in WithContent
        <3>1. PICK p \in Nat : ContentIsAt(cmd, content, keys, p, r.read - 1)
            BY <2>1, <2>5
        <3>2. r.read - 1 <= Len(keys)
            BY <1>3
        <3>3. TypedFor(cmd, content) /\ content \in Seq(Int) /\ \A i \in 1 .. Len(content) : content[i] < MAX_CONTENT_LEN
            BY <1>1, <3>1, <3>2, ReadIsTyped
        <3> QED
            BY <2>2, <3>3 DEF Asks, cmd, content
    <2> QED
        BY <2>1, <2>3, <2>4, <2>5 DEF Sendable
<1>5. SubSeq(keys, r.read + 1, Len(keys)) \in Keyboards
    <2>1. KeyboardOK(SubSeq(keys, r.read + 1, Len(keys)))
        BY <1>1, <1>3, KeyboardRead
    <2> QED
        BY <2>1 DEF Keyboards, KeyboardOK
<1> QED
    BY <1>4, <1>5 DEF r

\* A request that may be asked for is one, and its frames are good.
LEMMA MakeRequestKeeps ==
    ASSUME NEW a \in ADMINS, NEW op, NEW content, Asks(op, content), MakeRequest(a, op, content),
           request \in [ADMINS -> Requests], unsent \in [ADMINS -> Seq(GoodFrames)]
    PROVE  request' \in [ADMINS -> Requests] /\ unsent' \in [ADMINS -> Seq(GoodFrames)]
<1>1. Frames(op, content) \in Seq(GoodFrames)
    BY FramesAreGood
<1>2. [op |-> op, content |-> content] \in Requests
    BY DEF Asks, Requests
<1> QED
    BY <1>1, <1>2 DEF MakeRequest

\* While a proxy serves, its settings and what is said to it are all that changes.
LEMMA ServingOn ==
    ASSUME Configured, main = "serving", UNCHANGED <<commandLine, main, config>>
    PROVE  Configured' /\ Silence'
BY DEF Configured, Silence, ComesFrom, GivenFor

LEMMA AskKeeps == ASSUME IInv, NEW a \in ADMINS, Ask(a) PROVE IInv'
<1>1. PICK content \in CONTENTS : MakeRequest(a, "x", content)
    BY DEF Ask
<1>2. request' \in [ADMINS -> Requests] /\ unsent' \in [ADMINS -> Seq(GoodFrames)]
    BY <1>1, PasswordAsks, MakeRequestKeeps DEF IInv
<1>3. asked' \in [ADMINS -> 0 .. MAX_REQUESTS]
    <2>1. asked[a] + 1 \in 0 .. MAX_REQUESTS
        BY Limits DEF IInv, Ask
    <2> QED
        BY <2>1 DEF IInv, Ask
<1>4. Configured' /\ Silence'
    BY ServingOn DEF IInv, Ask
<1> QED
    BY <1>2, <1>3, <1>4 DEF IInv, Ask, TriesLeft

\* Whoever is asked for commands, or has something to say, is connected to a proxy.
LEMMA Connected ==
    ASSUME IInv, NEW a \in ADMINS,
           \/ console[a] # "password" \/ request[a] # NoRequest
           \/ unsent[a] # <<>> \/ toProxy[a] # <<>> \/ toAdmin[a] # <<>>
    PROVE  main = "serving"
BY DEF IInv, Silence

LEMMA TypeKeeps == ASSUME IInv, NEW a \in ADMINS, Type(a) PROVE IInv'
<1>1. PICK line \in LINES : keyboard' = [keyboard EXCEPT ![a] = @ \o line \o <<LF>>]
    BY DEF Type
<1>2. keyboard' \in [ADMINS -> Keyboards]
    <2>1. keyboard[a] \in Keyboards
        BY DEF IInv
    <2>2. KeyboardOK(keyboard[a] \o line \o <<LF>>)
        BY <2>1, KeyboardTyped DEF Keyboards
    <2>3. keyboard[a] \o line \o <<LF>> \in Keyboards
        BY <2>2 DEF Keyboards, KeyboardOK
    <2> QED
        BY <1>1, <2>3 DEF IInv
<1>3. asked' \in [ADMINS -> 0 .. MAX_REQUESTS]
    <2>1. asked[a] + 1 \in 0 .. MAX_REQUESTS
        BY Limits DEF IInv, Type
    <2> QED
        BY <2>1 DEF IInv, Type
<1>4. Configured' /\ Silence'
    <2>1. main = "serving"
        BY Connected DEF Type
    <2> QED
        BY <2>1, ServingOn DEF IInv, Type
<1> QED
    BY <1>2, <1>3, <1>4 DEF IInv, Type, TriesLeft

LEMMA ReadCommandsKeeps == ASSUME IInv, NEW a \in ADMINS, ReadCommands(a) PROVE IInv'
<1> DEFINE reading == readCommands(keyboard[a])
<1>1. keyboard[a] \in Keyboards
    BY DEF IInv
<1>2. /\ reading.todo = "send" => Asks(reading.cmd, reading.content)
      /\ SubSeq(keyboard[a], reading.read + 1, Len(keyboard[a])) \in Keyboards
    BY <1>1, ReadingAsks
<1>3. /\ keyboard' = [keyboard EXCEPT ![a] = SubSeq(@, reading.read + 1, Len(@))]
      /\ IF reading.todo = "send" THEN MakeRequest(a, reading.cmd, reading.content)
         ELSE UNCHANGED <<request, unsent>>
      /\ console' = IF reading.todo = "quit" THEN [console EXCEPT ![a] = "gone"] ELSE console
    BY DEF ReadCommands
<1> HIDE DEF reading
<1>4. keyboard' \in [ADMINS -> Keyboards]
    BY <1>2, <1>3 DEF IInv
<1>5. request' \in [ADMINS -> Requests] /\ unsent' \in [ADMINS -> Seq(GoodFrames)]
    <2>1. CASE reading.todo = "send"
        BY <1>2, <1>3, <2>1, MakeRequestKeeps DEF IInv
    <2>2. CASE reading.todo # "send"
        BY <1>3, <2>2 DEF IInv
    <2> QED
        BY <2>1, <2>2
<1>6. console' \in [ADMINS -> Consoles] /\ \A b \in ADMINS : console'[b] = console[b] \/ console'[b] = "gone"
    BY <1>3 DEF IInv, Consoles
<1>7. TriesLeft'
    BY <1>6 DEF IInv, TriesLeft, ReadCommands
<1>8. Configured' /\ Silence'
    <2>1. main = "serving"
        BY Connected DEF ReadCommands
    <2> QED
        BY <2>1, ServingOn DEF IInv, ReadCommands
<1> QED
    BY <1>4, <1>5, <1>6, <1>7, <1>8 DEF IInv, ReadCommands

LEMMA SendFrameKeeps == ASSUME IInv, NEW a \in ADMINS, SendFrame(a) PROVE IInv'
<1>1. unsent[a] \in Seq(GoodFrames) /\ unsent[a] # <<>> /\ toProxy[a] \in Seq(GoodFrames)
    BY DEF IInv, SendFrame
<1>2. Head(unsent[a]) \in GoodFrames /\ Tail(unsent[a]) \in Seq(GoodFrames)
    BY <1>1, HeadTailProperties
<1>3. Append(toProxy[a], Head(unsent[a])) \in Seq(GoodFrames)
    BY <1>1, <1>2, AppendProperties
<1>4. unsent' \in [ADMINS -> Seq(GoodFrames)] /\ toProxy' \in [ADMINS -> Seq(GoodFrames)]
    BY <1>2, <1>3 DEF IInv, SendFrame
<1>5. Configured' /\ Silence'
    <2>1. main = "serving"
        BY Connected DEF SendFrame
    <2> QED
        BY <2>1, ServingOn DEF IInv, SendFrame
<1> QED
    BY <1>4, <1>5 DEF IInv, SendFrame, TriesLeft

LEMMA ReadFromProxyKeeps == ASSUME IInv, NEW a \in ADMINS, ReadFromProxy(a) PROVE IInv'
<1>1. toAdmin[a] \in Seq(Answer) /\ toAdmin[a] # <<>>
    BY DEF IInv, ReadFromProxy
<1>2. Head(toAdmin[a]) \in Answer /\ Tail(toAdmin[a]) \in Seq(Answer)
    BY <1>1, HeadTailProperties
<1>3. Leftover(Head(toAdmin[a])) \o Tail(toAdmin[a]) \in Seq(Answer)
    BY <1>2, LeftoverType, ConcatProperties
<1>4. Accepted(a) \/ Refused(a)
    BY DEF ReadFromProxy, ReadAuthentication, ReadAnswer
<1>5. toAdmin' \in [ADMINS -> Seq(Answer)]
    <2>1. CASE Accepted(a)
        BY <1>2, <2>1 DEF IInv, Accepted
    <2>2. CASE Refused(a)
        BY <1>3, <2>2 DEF IInv, Refused
    <2> QED
        BY <1>4, <2>1, <2>2
<1>6. request' \in [ADMINS -> Requests]
    <2>1. NoRequest \in Requests
        BY DEF NoRequest, Requests
    <2> QED
        BY <2>1 DEF IInv, ReadFromProxy
<1>7. /\ console' \in [ADMINS -> Consoles] /\ tries' \in [ADMINS -> 0 .. MAX_TRIES] /\ TriesLeft'
    <2>1. tries[a] \in 0 .. MAX_TRIES - 1
        BY Limits DEF IInv, TriesLeft, ReadFromProxy
    <2>2. CASE ReadAnswer(a)
        <3>1. tries' = tries /\ console' \in [ADMINS -> Consoles]
              /\ \A b \in ADMINS : console'[b] = console[b] \/ console'[b] = "gone"
            BY <2>2 DEF IInv, ReadAnswer, Consoles
        <3> QED
            BY <3>1 DEF IInv, TriesLeft
    <2>3. CASE ReadAuthentication(a)
        <3> DEFINE ok == Head(toAdmin[a]).op = "x" /\ Head(toAdmin[a]).status = "OK"
                   n == IF ok THEN tries[a] ELSE tries[a] + 1
                   c == IF ok THEN "commands" ELSE IF tries[a] + 1 >= MAX_TRIES THEN "gone" ELSE console[a]
        <3>1. tries' = [tries EXCEPT ![a] = n] /\ console' = [console EXCEPT ![a] = c]
            BY <2>3 DEF ReadAuthentication
        <3>2. n \in 0 .. MAX_TRIES /\ (c = "gone" \/ n < MAX_TRIES)
            BY <2>1, Limits
        <3>3. c \in Consoles
            BY DEF IInv, Consoles
        <3> HIDE DEF n, c
        <3> QED
            BY <3>1, <3>2, <3>3 DEF IInv, TriesLeft
    <2> QED
        BY <2>2, <2>3 DEF ReadFromProxy
<1>8. Configured' /\ Silence'
    <2>1. main = "serving"
        BY Connected DEF ReadFromProxy
    <2> QED
        BY <2>1, ServingOn DEF IInv, ReadFromProxy
<1> QED
    BY <1>5, <1>6, <1>7, <1>8 DEF IInv, ReadFromProxy

\* A setting the command line leaves is the default or was given for that option.
LEMMA MainKeeps == ASSUME IInv, Main PROVE IInv'
<1>1. config = newConfiguration /\ main = "starting" /\ commandLine \in COMMAND_LINES
    BY DEF IInv, Configured, Main
<1>2. CASE main' = "ended" /\ config' = config
    <2>1. Configured' /\ Silence'
        BY <1>1, <1>2 DEF IInv, Configured, Silence, Main
    <2> QED
        BY <1>2, <2>1 DEF IInv, Main, TriesLeft
<1>3. CASE main' = "serving" /\ config' = parseArgs(config, commandLine)
    <2> DEFINE options == commandLine.options
               conf == parseArgs(newConfiguration, commandLine)
    <2>1. ConfigurationOK(conf, options, Len(options)) /\ options \in Seq(Range(options))
        BY <1>1, parseArgsOK, AdminWireAssumption
    <2>2. config' = conf
        BY <1>1, <1>3
    <2> HIDE DEF conf
    <2>3. \A o \in Options : conf[o] = Default \/ GivenFor(o, conf[o])
        <3> TAKE o \in Options
        <3>1. \/ conf[o] = Default
              \/ \E i \in 1 .. Len(options) : options[i].option = o /\ options[i].argument = conf[o]
            BY <2>1 DEF ConfigurationOK
        <3>2. \A i \in 1 .. Len(options) : options[i] \in Range(options)
            BY <2>1
        <3> QED
            BY <3>1, <3>2 DEF GivenFor
    <2>4. Configured'
        BY <1>3, <2>1, <2>2, <2>3 DEF Configured, ConfigurationOK, ComesFrom, GivenFor, Main
    <2>5. Silence'
        BY <1>3 DEF Silence
    <2> QED
        BY <1>3, <2>4, <2>5 DEF IInv, Main, TriesLeft
<1> QED
    BY <1>2, <1>3 DEF Main

LEMMA ParseConfigKeeps == ASSUME IInv, NEW a \in ADMINS, ParseConfig(a) PROVE IInv'
<1> DEFINE f == Head(toProxy[a])
           content == Content(f.bytes)
           status == Status(f.op, content)
           answer == AnswerTo(f.op, content, status)
<1>1. toProxy[a] \in Seq(GoodFrames) /\ toProxy[a] # <<>> /\ main = "serving"
    BY Connected DEF IInv, ParseConfig
<1>2. f \in GoodFrames /\ Tail(toProxy[a]) \in Seq(GoodFrames)
    BY <1>1, HeadTailProperties
<1>3. f.op \in Opcodes /\ content \in Seq(Int) /\ (f.op \in Options => TypedFor(f.op, content))
    BY <1>2, ContentOfGood
<1>4. answer \in Answer
    BY <1>3, AnswerType
<1>5. /\ config' = (IF f.op \in Options THEN Set(config, f.op, content) ELSE config)
      /\ toAdmin' = [toAdmin EXCEPT ![a] = Append(@, answer)]
      /\ toProxy' = [toProxy EXCEPT ![a] = Tail(@)]
      /\ UNCHANGED <<commandLine, main, console, tries, asked, keyboard, request, unsent>>
    BY DEF ParseConfig, Edit
<1> HIDE DEF answer
<1>6. toAdmin' \in [ADMINS -> Seq(Answer)]
    <2>1. Append(toAdmin[a], answer) \in Seq(Answer)
        BY <1>4, AppendProperties DEF IInv
    <2> QED
        BY <1>5, <2>1 DEF IInv
<1>7. toProxy' \in [ADMINS -> Seq(GoodFrames)]
    BY <1>2, <1>5 DEF IInv
<1> DEFINE op == f.op
<1> HIDE DEF op, content
<1>8. Configured'
    <2>1. /\ DOMAIN config = Letters \cup {"originServerString"}
          /\ \A o \in Ports : config[o] \in 0 .. UINT16_MAX
          /\ \A o \in Options : ComesFrom(o, config[o])
        BY <1>1 DEF IInv, Configured
    <2>2. CASE op \notin Options
        <3>1. config' = config
            BY <1>5, <2>2 DEF op
        <3> QED
            BY <1>1, <1>5, <3>1 DEF IInv, Configured, ComesFrom, GivenFor
    <2>3. CASE op \in Options
        <3> DEFINE new == Set(config, op, content)
        <3>1. config' = new /\ TypedFor(op, content) /\ content \in Seq(Int)
            BY <1>3, <1>5, <2>3 DEF op
        <3>2. /\ DOMAIN new = Letters \cup {"originServerString"}
              /\ \A o \in Ports : new[o] \in 0 .. UINT16_MAX
              /\ \A o \in Options : new[o] = config[o] \/ (o = op /\ new[o] = content)
            <4>1. op \in {"l", "L"} \/ content \in Seq(Int)
                BY <3>1
            <4>2. HasSettings(config)
                BY <2>1 DEF HasSettings
            <4>3. OneChanged(config, new, op, content)
                BY ONLY <4>1, <4>2, SetDoes
            <4> HIDE DEF new
            <4> QED
                BY <4>3 DEF OneChanged
        <3> HIDE DEF new
        <3>3. \A o \in Options : ComesFrom(o, new[o])
            BY <2>1, <3>1, <3>2 DEF ComesFrom
        <3> QED
            BY <1>1, <1>5, <3>1, <3>2, <3>3 DEF Configured, ComesFrom, GivenFor
    <2> QED
        BY <2>2, <2>3
<1>9. Silence' /\ TriesLeft'
    BY <1>1, <1>5 DEF IInv, Silence, TriesLeft
<1> QED
    BY <1>5, <1>6, <1>7, <1>8, <1>9 DEF IInv

LEMMA InvStep == IInv /\ [Next]_vars => IInv'
<1> SUFFICES ASSUME IInv, [Next]_vars PROVE IInv'
    OBVIOUS
<1>1. CASE Main
    BY <1>1, MainKeeps
<1>2. ASSUME NEW a \in ADMINS,
             Ask(a) \/ Type(a) \/ ReadCommands(a) \/ SendFrame(a) \/ ReadFromProxy(a) \/ ParseConfig(a)
      PROVE  IInv'
    BY <1>2, AskKeeps, TypeKeeps, ReadCommandsKeeps, SendFrameKeeps, ReadFromProxyKeeps, ParseConfigKeeps
<1>3. CASE UNCHANGED vars
    BY <1>3 DEF vars, IInv, Configured, Silence, TriesLeft, ComesFrom, GivenFor
<1> QED
    BY <1>1, <1>2, <1>3 DEF Next

LEMMA InvTypes == IInv => TypeOK
<1> SUFFICES ASSUME IInv PROVE TypeOK
    OBVIOUS
<1>1. Seq(GoodFrames) \subseteq Seq(Frame)
    BY SeqMonotonic DEF GoodFrames
<1>2. Keyboards \subseteq Seq(Int)
    BY DEF Keyboards
<1> QED
    BY <1>1, <1>2 DEF IInv, TypeOK, Configured, Ports, Consoles, Requests

LEMMA Invariant == Spec => []IInv
<1> QED
    BY InvInit, InvStep, PTL DEF Spec

\* Every variable has its type, however many consoles there are, whatever is typed
\* and given, and however long a frame may be: parseConfig reads a content out of
\* every frame there is, and a console never counts more tries than it has.
THEOREM TypeCorrect == Spec => []TypeOK
BY Invariant, InvTypes, PTL

\* The settings of an option are pieces of what was given or typed for that option.
LEMMA InvPieces == IInv => SettingsArePieces
<1> SUFFICES ASSUME IInv, NEW o \in Options PROVE ComesFrom(o, settings[o])
    BY DEF SettingsArePieces, ComesFrom
<1>1. CASE main = "serving"
    BY <1>1 DEF IInv, Configured, settings
<1>2. CASE main # "serving"
    <2> DEFINE options == commandLine.options
               conf == parseArgs(newConfiguration, commandLine)
    <2>1. ConfigurationOK(conf, options, Len(options)) /\ options \in Seq(Range(options))
        BY parseArgsOK, AdminWireAssumption DEF IInv
    <2>2. settings[o] = conf[o]
        BY <1>2 DEF settings
    <2> HIDE DEF conf
    <2>3. \/ conf[o] = Default
          \/ \E i \in 1 .. Len(options) : options[i].option = o /\ options[i].argument = conf[o]
        BY <2>1 DEF ConfigurationOK
    <2>4. \A i \in 1 .. Len(options) : options[i] \in Range(options)
        BY <2>1
    <2> QED
        BY <2>2, <2>3, <2>4 DEF ComesFrom, GivenFor
<1> QED
    BY <1>1, <1>2

\* Whatever is typed at whatever number of consoles, and however it is framed and
\* read, no setting has in it a byte of a header, of another option, or of a line that
\* was typed elsewhere.
THEOREM SettingsArePiecesHolds == Spec => []SettingsArePieces
BY Invariant, InvPieces, PTL

\* The last argument that is valid is the last one that is taken.
LEMMA AskedIsTaken ==
    ASSUME commandLine \in COMMAND_LINES, NEW conf, NEW option \in Letters,
           LastTaken(newConfiguration, conf, commandLine.options, Len(commandLine.options), option)
    PROVE  conf[option] = Asked(option)
<1> DEFINE options == commandLine.options
           N       == Len(options)
           valid   == {i \in DOMAIN options : /\ options[i].option = option
                                              /\ Takes(option, options[i].argument)}
<1>1. options \in Seq(Range(options)) /\ N \in Nat /\ DOMAIN options = 1 .. N
    BY AdminWireAssumption
<1>2. valid = {i \in 1 .. N : TakenFor(option, options, i)}
    BY <1>1 DEF TakenFor
<1>3. Asked(option) =
        IF valid = {} THEN newConfiguration[option]
        ELSE IF option \in Ports THEN Number(options[Max(valid)].argument) ELSE options[Max(valid)].argument
    BY DEF Asked, Ports
<1>4. \/ conf[option] = newConfiguration[option] /\ \A i \in 1 .. N : ~TakenFor(option, options, i)
      \/ \E i \in 1 .. N : /\ TakenFor(option, options, i) /\ conf[option] = Stored(option, options[i].argument)
                           /\ \A j \in i + 1 .. N : ~TakenFor(option, options, j)
    BY DEF LastTaken
<1>5. \A i \in 1 .. N : options[i].option \in {"l", "L"} \/ options[i].argument \in Seq(Int)
    BY <1>1, AdminWireAssumption DEF Range
<1> HIDE DEF valid, N, options
<1>6. CASE \A i \in 1 .. N : ~TakenFor(option, options, i)
    BY <1>2, <1>3, <1>4, <1>6
<1>7. ASSUME NEW i \in 1 .. N, TakenFor(option, options, i), conf[option] = Stored(option, options[i].argument),
             \A j \in i + 1 .. N : ~TakenFor(option, options, j)
      PROVE  conf[option] = Asked(option)
    <2>1. i \in valid /\ \A j \in valid : j \in 1 .. N /\ j <= i
        <3>1. \A j \in 1 .. N : j <= i \/ j \in i + 1 .. N
            BY <1>1
        <3> QED
            BY <1>2, <1>7, <3>1
    <2>2. Max(valid) = i
        <3>1. \A j \in valid : i >= j
            BY <1>1, <2>1
        <3>2. Max(valid) \in valid /\ \A j \in valid : Max(valid) >= j
            BY <2>1, <3>1 DEF Max
        <3>3. PICK m \in 1 .. N : m = Max(valid)
            BY <2>1, <3>2
        <3> QED
            BY <1>1, <2>1, <3>2, <3>3
    <2>3. Asked(option) = IF option \in Ports THEN Number(options[i].argument) ELSE options[i].argument
        BY <1>3, <2>1, <2>2
    <2>4. CASE option \notin Ports
        BY <1>7, <2>3, <2>4 DEF Stored
    <2>5. CASE option \in Ports
        <3> DEFINE port == options[i].argument
        <3>1. portIsValid(port) /\ port \in Seq(Int)
            BY <1>5, <1>7, <2>5 DEF TakenFor, Takes, Ports
        <3> HIDE DEF port
        <3>2. port \in Seq(0 .. 9)
            BY <3>1 DEF portIsValid
        <3>3. strToUint16(port) = Number(port)
            BY <3>2, PortIsNumber
        <3> QED
            BY <1>7, <2>3, <2>5, <3>3 DEF Stored, port
    <2> QED
        BY <2>4, <2>5
<1> QED
    BY <1>4, <1>6, <1>7

\* Whatever the command line says, in whatever order and however often: a proxy that starts
\* serving has for each option the last argument that is valid, ports as the numbers that are
\* written if they have 16 bits (shellArgsParser.c and configuration.c:184), but for a message
\* that is given more than once.
THEOREM StartsAsAskedHolds == Spec => StartsAsAsked
<1>1. IInv /\ [Next]_vars =>
        [main = "starting" /\ main' = "serving" =>
            \A option \in Letters : ~Repeated(option) => config'[option] = Asked(option)]_vars
    <2> SUFFICES ASSUME IInv, Next, main = "starting", main' = "serving", NEW option \in Letters
                 PROVE  config'[option] = Asked(option)
        BY DEF vars
    <2>1. config = newConfiguration /\ commandLine \in COMMAND_LINES
        BY DEF IInv, Configured
    <2>2. config' = parseArgs(newConfiguration, commandLine)
        <3>1. ASSUME NEW a \in ADMINS, \/ Ask(a) \/ Type(a) \/ ReadCommands(a)
                                      \/ SendFrame(a) \/ ReadFromProxy(a) \/ ParseConfig(a)
              PROVE  main' = main
            <4>1. CASE Ask(a)
                BY <4>1 DEF Ask
            <4>2. CASE Type(a)
                BY <4>2 DEF Type
            <4>3. CASE ReadCommands(a)
                BY <4>3 DEF ReadCommands
            <4>4. CASE SendFrame(a)
                BY <4>4 DEF SendFrame
            <4>5. CASE ReadFromProxy(a)
                BY <4>5 DEF ReadFromProxy
            <4>6. CASE ParseConfig(a)
                BY <4>6 DEF ParseConfig
            <4> QED
                BY <3>1, <4>1, <4>2, <4>3, <4>4, <4>5, <4>6
        <3>2. Main
            BY <3>1 DEF Next
        <3> QED
            BY <2>1, <3>2 DEF Main
    <2>3. DOMAIN newConfiguration = Letters \cup {"originServerString"}
        BY DEF newConfiguration, Letters
    <2>4. AllLastTaken(newConfiguration, config', commandLine.options, Len(commandLine.options))
        BY <2>1, <2>2, <2>3, parseArgsTakesLast
    <2> QED
        BY <2>1, <2>4, AskedIsTaken DEF AllLastTaken
<1> QED
    BY <1>1, Invariant, PTL DEF Spec, StartsAsAsked

-----------------------------------------------------------------------------
(* What the console asks for is what was typed.                            *)

\* There is a line on the keyboard at most, but for one behind one that is too long.
Lined(keys) ==
    \/ keys = <<>>
    \/ OneLine(keys)
    \/ \E next \in LINES : \E first \in Seq(Int) : OneLine(first) /\ Overlong(first) /\ Followed(keys, first, next)

LinesTyped == \A a \in ADMINS : Lined(keyboard[a])

LEMMA LineHasNoEnd ==
    ASSUME NEW line \in LINES
    PROVE  line \in Seq(Int) /\ \A i \in 1 .. Len(line) : line[i] # LF
<1>1. line \in Seq(Int) /\ ~Contains(line, LF)
    BY AdminWireAssumption
<1> QED
    BY <1>1 DEF Contains

LEMMA LineOfTyped ==
    ASSUME NEW line \in LINES
    PROVE  OneLine(<<>> \o line \o <<LF>>)
<1>0. <<>> \in Seq(Int) /\ Len(<<>>) = 0
    OBVIOUS
<1> PICK none \in Seq(Int) : none = <<>> /\ Len(none) = 0
    BY <1>0
<1> DEFINE keys == none \o line \o <<LF>>
<1>1. line \in Seq(Int) /\ Len(line) \in Nat /\ \A i \in 1 .. Len(line) : line[i] # LF
    BY LineHasNoEnd
<1>2. Followed(keys, none, line)
    BY <1>1, IsFollowed
<1> SUFFICES OneLine(keys)
    OBVIOUS
<1> HIDE DEF keys
<1>3. /\ keys \in Seq(Int) /\ Len(keys) = Len(line) + 1
      /\ \A i \in 1 .. Len(line) : keys[i] = line[i]
      /\ keys[Len(line) + 1] = LF
    <2>1. /\ keys \in Seq(Int) /\ Len(keys) = Len(none) + Len(line) + 1
          /\ \A i \in 1 .. Len(line) : keys[Len(none) + i] = line[i]
          /\ keys[Len(none) + Len(line) + 1] = LF
        BY <1>2 DEF Followed
    <2>2. Len(none) = 0
        OBVIOUS
    <2> QED
        BY <1>1, <2>1, <2>2
<1> QED
    BY <1>1, <1>3 DEF OneLine

LEMMA TypedIsLined ==
    ASSUME NEW keys, Lined(keys), readCommands(keys).state # "END", NEW line \in LINES
    PROVE  Lined(keys \o line \o <<LF>>)
<1>1. CASE keys = <<>>
    BY <1>1, LineOfTyped DEF Lined
<1>2. CASE OneLine(keys)
    <2>1. keys \in Seq(Int) /\ line \in Seq(Int)
        BY <1>2, LineHasNoEnd DEF OneLine
    <2>2. Overlong(keys)
        BY <1>2, LineIsRead
    <2>3. Followed(keys \o line \o <<LF>>, keys, line)
        BY <2>1, IsFollowed
    <2> QED
        BY <1>2, <2>1, <2>2, <2>3 DEF Lined
<1>3. ASSUME NEW next \in LINES, NEW first \in Seq(Int), OneLine(first), Overlong(first), Followed(keys, first, next)
      PROVE  FALSE
    BY <1>3, LineHasNoEnd, LongLineIsRead
<1> QED
    BY <1>1, <1>2, <1>3 DEF Lined

LEMMA FirstLineIs ==
    ASSUME NEW keys \in Seq(Int), NEW f \in 1 .. Len(keys), keys[f] = LF, \A i \in 1 .. f - 1 : keys[i] # LF
    PROVE  FirstLine(keys) = SubSeq(keys, 1, f - 1)
<1> DEFINE ends == {i \in DOMAIN keys : keys[i] = LF}
<1>1. f \in ends /\ \A i \in ends : i \in Nat /\ f <= i
    <2>1. DOMAIN keys = 1 .. Len(keys)
        OBVIOUS
    <2>2. \A i \in 1 .. Len(keys) : i < f => i \in 1 .. f - 1
        OBVIOUS
    <2> QED
        BY <2>1, <2>2
<1> HIDE DEF ends
<1>2. Min(ends) \in ends /\ \A i \in ends : Min(ends) <= i
    BY <1>1 DEF Min
<1>3. Min(ends) = f
    <2>1. PICK m \in Nat : m = Min(ends)
        BY <1>1, <1>2
    <2> QED
        BY <1>1, <1>2, <2>1
<1> QED
    BY <1>3 DEF FirstLine, ends

LEMMA FirstThree ==
    ASSUME NEW s \in Seq(Int), Len(s) >= 3
    PROVE  /\ SubSeq(s, 1, 3) \in Seq(Int) /\ Len(SubSeq(s, 1, 3)) = 3
           /\ \A i \in 1 .. 3 : SubSeq(s, 1, 3)[i] = s[i]
<1>1. \A i \in 1 .. 3 : s[i] \in Int
    OBVIOUS
<1> QED
    BY <1>1, SubSeqProperties

\* Where the letter of v, h or q ends what is taken.
LEMMA EndsWith ==
    ASSUME NEW s \in Seq(Int), Len(s) >= 3, NEW a \in Int, NEW b \in Int, NEW c \in Int,
           s[Len(s) - 2] = a, s[Len(s) - 1] = b, s[Len(s)] = c
    PROVE  IsSuffix(<<a, b, c>>, s)
<1> DEFINE t == <<a, b, c>>
           rt == Reverse(t)
           rs == Reverse(s)
           n == Len(s)
<1>1. t \in Seq(Int) /\ Len(t) = 3 /\ t[1] = a /\ t[2] = b /\ t[3] = c
    OBVIOUS
<1>2. rt \in Seq(Int) /\ Len(rt) = 3 /\ rt[1] = c /\ rt[2] = b /\ rt[3] = a
    <2> HIDE DEF t
    <2>1. rt = [i \in 1 .. 3 |-> t[(3 - i) + 1]]
        BY <1>1 DEF Reverse
    <2> HIDE DEF rt
    <2>2. DOMAIN rt = 1 .. 3 /\ \A i \in 1 .. 3 : rt[i] \in Int
        BY <1>1, <2>1
    <2>3. rt \in Seq(Int) /\ Len(rt) = 3
        BY <1>1, <2>1, <2>2
    <2> QED
        BY <1>1, <2>1, <2>3
<1>3. rs \in Seq(Int) /\ Len(rs) = n /\ n \in Nat /\ rs[1] = c /\ rs[2] = b /\ rs[3] = a
    <2>1. rs = [i \in 1 .. n |-> s[(n - i) + 1]] /\ n \in Nat /\ n >= 3
        BY DEF Reverse
    <2> HIDE DEF rs
    <2>2. \A i \in 1 .. n : (n - i) + 1 \in 1 .. n
        BY <2>1
    <2>3. rs \in Seq(Int) /\ Len(rs) = n
        BY <2>1, <2>2
    <2>4. 1 \in 1 .. n /\ 2 \in 1 .. n /\ 3 \in 1 .. n
        BY <2>1
    <2>5. rs[1] = s[(n - 1) + 1] /\ rs[2] = s[(n - 2) + 1] /\ rs[3] = s[(n - 3) + 1]
        BY <2>1, <2>4
    <2> QED
        BY <2>1, <2>3, <2>5
<1> HIDE DEF t, rt, rs, n
<1>4. SubSeq(rt, 1, 3) = SubSeq(rs, 1, 3)
    <2> DEFINE x == SubSeq(rt, 1, 3)
               y == SubSeq(rs, 1, 3)
    <2>1. Len(rt) >= 3 /\ Len(rs) >= 3
        BY <1>2, <1>3 DEF n
    <2>2. x \in Seq(Int) /\ Len(x) = 3 /\ \A i \in 1 .. 3 : x[i] = rt[i]
        BY <1>2, <2>1, FirstThree
    <2>3. y \in Seq(Int) /\ Len(y) = 3 /\ \A i \in 1 .. 3 : y[i] = rs[i]
        BY <1>3, <2>1, FirstThree
    <2> HIDE DEF x, y
    <2>4. \A i \in 1 .. 3 : i = 1 \/ i = 2 \/ i = 3
        OBVIOUS
    <2>5. \A i \in 1 .. 3 : x[i] = y[i]
        BY <1>2, <1>3, <2>2, <2>3, <2>4
    <2>6. x = y
        BY <2>2, <2>3, <2>5, SeqEqual
    <2> QED
        BY <2>6 DEF x, y
<1>5. Len(rt) <= Len(rs)
    BY <1>2, <1>3 DEF n
<1>6. IsPrefix(rt, rs)
    BY <1>2, <1>4, <1>5 DEF IsPrefix
<1> QED
    BY <1>6 DEF IsSuffix, t, rt, rs

LEMMA LineAndEnd ==
    ASSUME NEW keys \in Seq(Int), NEW f \in 1 .. Len(keys), keys[f] = LF
    PROVE  SubSeq(keys, 1, f) = SubSeq(keys, 1, f - 1) \o <<LF>>
<1> DEFINE line == SubSeq(keys, 1, f - 1)
<1>1. Append(line, LF) = SubSeq(keys, 1, f)
    BY OneMore
<1>2. line \in Seq(Int) /\ LF \in Int
    <2>1. 1 \in Nat \ {0} /\ f - 1 \in Nat /\ f - 1 <= Len(keys)
        OBVIOUS
    <2>2. line \in Seq(Int)
        BY <2>1, PieceIs, Zenon
    <2> QED
        BY <2>2 DEF LF
<1> HIDE DEF line
<1>3. Append(line, LF) = line \o <<LF>>
    BY <1>2, AppendIsConcat
<1> QED
    BY <1>1, <1>3 DEF line

LEMMA WholePiece ==
    ASSUME NEW s \in Seq(Int)
    PROVE  SubSeq(s, 1, Len(s)) = s
<1> DEFINE t == SubSeq(s, 1, Len(s))
<1>1. Len(s) \in Nat /\ \A i \in 1 .. Len(s) : s[i] \in Int
    OBVIOUS
<1>2. t \in Seq(Int) /\ Len(t) = Len(s) /\ \A i \in 1 .. Len(s) : t[i] = s[i]
    BY <1>1, SubSeqProperties
<1> HIDE DEF t
<1>3. t = s
    BY <1>1, <1>2, SeqEqual
<1> QED
    BY <1>3 DEF t

LEMMA PrefixOf ==
    ASSUME NEW keys \in Seq(Int), NEW m \in Nat, m <= Len(keys), NEW p \in Nat, p <= m
    PROVE  SubSeq(SubSeq(keys, 1, m), 1, p) = SubSeq(keys, 1, p)
<1> DEFINE line == SubSeq(keys, 1, m)
           x    == SubSeq(line, 1, p)
           y    == SubSeq(keys, 1, p)
<1>1. line \in Seq(Int) /\ Len(line) = m /\ \A i \in 1 .. m : line[i] = keys[i]
    BY SubSeqProperties
<1>2. y \in Seq(Int) /\ Len(y) = p /\ \A i \in 1 .. p : y[i] = keys[i]
    BY SubSeqProperties
<1> HIDE DEF line, y
<1>3. x \in Seq(Int) /\ Len(x) = p /\ \A i \in 1 .. p : x[i] = line[i]
    BY <1>1, SubSeqProperties
<1> HIDE DEF x
<1>4. \A i \in 1 .. p : x[i] = y[i]
    <2>1. \A i \in 1 .. p : i \in 1 .. m
        OBVIOUS
    <2> QED
        BY <1>1, <1>2, <1>3, <2>1
<1>5. x = y
    BY <1>2, <1>3, <1>4, SeqEqual
<1> QED
    BY <1>5 DEF line, x, y

\* What is read of the keyboard is what its first line says, and no more is taken.
LEMMA LinesAreRead ==
    ASSUME NEW keys, Lined(keys), NEW r, r = readCommands(keys), r.state = "END"
    PROVE  /\ r.read \in 1 .. Len(keys)
           /\ Lined(SubSeq(keys, r.read + 1, Len(keys)))
           /\ Agrees(r, Spelled(FirstLine(keys)))
           /\ Taken(FirstLine(keys), SubSeq(keys, 1, r.read))
<1> DEFINE g == Len(keys)
           line == FirstLine(keys)
<1>1. CASE keys = <<>>
    <2>1. <<>> \in Seq(Int) /\ Len(<<>>) = 0
        OBVIOUS
    <2>2. ReadingOK(r, <<>>, Len(<<>>))
        BY <1>1, <2>1, WhatIsRead
    <2> QED
        BY <2>1, <2>2 DEF ReadingOK
<1>2. CASE OneLine(keys)
    <2>1. /\ keys \in Seq(Int) /\ g \in Nat /\ g >= 1 /\ g \in 1 .. g /\ keys[g] = LF
          /\ \A i \in 1 .. g - 1 : keys[i] # LF
        BY <1>2 DEF OneLine
    <2>2. line = SubSeq(keys, 1, g - 1)
        BY <2>1, FirstLineIs
    <2>3. /\ Agrees(r, Spelled(SubSeq(keys, 1, g - 1)))
          /\ \/ r.read = g
             \/ /\ r.read \in 3 .. g - 1
                /\ \E l \in {"v", "h", "q"} : /\ keys[r.read - 2] = DASH /\ keys[r.read - 1] = KeyOf[l]
                                              /\ keys[r.read] = SPACE
        BY <1>2, LineIsRead
    <2> HIDE DEF g, line
    <2>4. CASE r.read = g
        <3>1. SubSeq(keys, g + 1, g) = <<>>
            BY <2>1, SubSeqEmpty
        <3>2. SubSeq(keys, 1, g) = line \o <<LF>>
            BY <2>1, <2>2, LineAndEnd DEF g
        <3>3. Taken(line, SubSeq(keys, 1, g))
            BY <3>2 DEF Taken
        <3> QED
            BY <2>1, <2>2, <2>3, <2>4, <3>1, <3>3 DEF g, line, Lined
    <2>5. ASSUME r.read \in 3 .. g - 1, NEW l \in {"v", "h", "q"}, keys[r.read - 2] = DASH,
                 keys[r.read - 1] = KeyOf[l], keys[r.read] = SPACE
          PROVE  /\ r.read \in 1 .. g /\ Lined(SubSeq(keys, r.read + 1, g))
                 /\ Taken(line, SubSeq(keys, 1, r.read))
        <3> DEFINE p    == r.read
                   head == SubSeq(keys, 1, p)
                   tail == SubSeq(keys, p + 1, g)
        <3>1. p \in Nat /\ p >= 3 /\ p <= g - 1 /\ keys[p - 2] = DASH /\ keys[p - 1] = KeyOf[l] /\ keys[p] = SPACE
            BY <2>1, <2>5
        <3> SUFFICES p \in 1 .. g /\ Lined(tail) /\ Taken(line, head)
            OBVIOUS
        <3> HIDE DEF p
        <3>2. p \in 1 .. g /\ g <= Len(keys)
            <4>1. p \in Nat /\ p >= 3 /\ p <= g - 1 /\ g \in Nat
                BY <2>1, <3>1
            <4>2. g = Len(keys)
                BY DEF g
            <4> QED
                BY ONLY <4>1, <4>2
        <3>3. Lined(tail)
            <4>1. tail \in Seq(Int) /\ Len(tail) = g - p /\ \A i \in 1 .. g - p : tail[i] = keys[p + i]
                <5>0. p \in Nat /\ g \in Nat
                    BY <2>1, <3>1
                <5>1. p + 1 \in Nat \ {0} /\ g \in Nat
                    BY ONLY <5>0
                <5>2. /\ tail \in Seq(Int) /\ Len(tail) = (IF p + 1 <= g THEN g - (p + 1) + 1 ELSE 0)
                      /\ \A i \in 1 .. g - (p + 1) + 1 : tail[i] = keys[p + 1 + i - 1]
                    <6>1. keys \in Seq(Int) /\ g <= Len(keys)
                        BY <2>1, <3>2
                    <6> QED
                        BY <5>1, <6>1, PieceIs, Zenon
                <5> HIDE DEF tail
                <5>3. p <= g - 1 /\ p \in Nat /\ g \in Nat
                    BY <2>1, <3>1
                <5>4. p + 1 <= g /\ g - (p + 1) + 1 = g - p
                    BY ONLY <5>3
                <5>5. \A i \in 1 .. g - p : p + 1 + i - 1 = p + i
                    BY ONLY <5>3
                <5>6. tail \in Seq(Int) /\ Len(tail) = g - p
                    BY ONLY <5>2, <5>4
                <5>7. \A i \in 1 .. g - p : tail[i] = keys[p + i]
                    BY ONLY <5>2, <5>4, <5>5
                <5> QED
                    BY ONLY <5>6, <5>7
            <4> HIDE DEF tail
            <4>2. p \in Nat /\ g \in Nat /\ p <= g - 1
                BY <2>1, <3>1
            <4>3. /\ g - p \in 1 .. g - p /\ p + (g - p) = g /\ g - p # 0
                  /\ \A i \in 1 .. g - p - 1 : p + i \in 1 .. g - 1 /\ i \in 1 .. g - p
                BY ONLY <4>2
            <4>4. tail[g - p] = LF
                BY <2>1, <4>1, <4>3
            <4>5. \A i \in 1 .. g - p - 1 : tail[i] # LF
                BY <2>1, <4>1, <4>3
            <4>6. tail # <<>>
                BY <4>1, <4>3
            <4>7. OneLine(tail)
                BY <4>1, <4>4, <4>5, <4>6 DEF OneLine
            <4> QED
                BY <4>7 DEF Lined
        <3>4. head \in Seq(Int) /\ Len(head) = p /\ \A i \in 1 .. p : head[i] = keys[i]
            BY <2>1, <3>1, <3>2, SubSeqProperties DEF g
        <3>5. IsPrefix(head, line)
            <4>1. p <= g - 1 /\ g - 1 \in Nat /\ g - 1 <= Len(keys)
                BY <2>1, <3>1, <3>2
            <4>2. SubSeq(line, 1, p) = SubSeq(keys, 1, p)
                BY <2>1, <2>2, <3>1, <4>1, PrefixOf
            <4>3. SubSeq(head, 1, p) = SubSeq(keys, 1, p)
                BY <2>1, <3>1, <3>2, PrefixOf DEF g
            <4>4. Len(line) = g - 1
                BY <2>1, <2>2, <4>1, SubSeqProperties
            <4> HIDE DEF head
            <4> QED
                BY <3>1, <3>4, <4>1, <4>2, <4>3, <4>4 DEF IsPrefix
        <3>6. IsSuffix(<<DASH, KeyOf[l], SPACE>>, head)
            <4>1. head[p - 2] = DASH /\ head[p - 1] = KeyOf[l] /\ head[p] = SPACE
                BY <3>1, <3>4
            <4>2. DASH \in Int /\ KeyOf[l] \in Int /\ SPACE \in Int
                BY DEF DASH, KeyOf, SPACE
            <4> HIDE DEF head
            <4> QED
                BY <3>1, <3>4, <4>1, <4>2, EndsWith
        <3> HIDE DEF head, tail
        <3> QED
            BY <3>2, <3>3, <3>5, <3>6 DEF Taken
    <2>6. CASE r.read # g
        BY <2>2, <2>3, <2>5, <2>6 DEF g, line
    <2> QED
        BY <2>4, <2>6
<1>3. ASSUME NEW next \in LINES, NEW first \in Seq(Int), OneLine(first), Overlong(first), Followed(keys, first, next)
      PROVE  /\ r.read = g /\ g >= 1 /\ keys \in Seq(Int)
             /\ Agrees(r, Spelled(line)) /\ Taken(line, SubSeq(keys, 1, g))
    <2> DEFINE f == Len(first)
    <2>1. /\ f \in Nat /\ f >= 1 /\ f \in 1 .. f /\ first[f] = LF /\ \A i \in 1 .. f - 1 : first[i] # LF
        BY <1>3 DEF OneLine
    <2>2. next \in Seq(Int) /\ \A i \in 1 .. Len(next) : next[i] # LF
        BY LineHasNoEnd
    <2>3. /\ keys \in Seq(Int) /\ g = f + Len(next) + 1 /\ \A i \in 1 .. f : keys[i] = first[i]
          /\ keys = first \o next \o <<LF>>
        BY <1>3 DEF Followed
    <2>4. /\ r.todo # "send" /\ r.read = g /\ f - 1 > BUFF_SIZE + 3
          /\ Spelled(SubSeq(keys, 1, f - 1)) = NoCommand
        BY <1>3, <2>2, LongLineIsRead
    <2> HIDE DEF f, g
    <2>5. f \in 1 .. Len(keys) /\ g \in Nat /\ g >= 1
        BY <2>1, <2>2, <2>3 DEF g
    <2>6. line = SubSeq(keys, 1, f - 1)
        <3>1. keys[f] = LF /\ \A i \in 1 .. f - 1 : keys[i] # LF
            <4>1. \A i \in 1 .. f - 1 : i \in 1 .. f
                BY <2>1
            <4> QED
                BY <2>1, <2>3, <4>1
        <3> QED
            BY <2>3, <2>5, <3>1, FirstLineIs
    <2> HIDE DEF line
    <2>7. Agrees(r, Spelled(line))
        BY <2>4, <2>6 DEF Agrees
    <2>8. first = line \o <<LF>> /\ Len(line) = f - 1
        <3>1. SubSeq(first, 1, f) = first
            BY WholePiece DEF f
        <3>2. SubSeq(first, 1, f) = SubSeq(first, 1, f - 1) \o <<LF>>
            BY <2>1, LineAndEnd DEF f
        <3> DEFINE x == SubSeq(first, 1, f - 1)
                   y == SubSeq(keys, 1, f - 1)
        <3>3. 1 \in Nat \ {0} /\ f - 1 \in Nat /\ f - 1 <= Len(first) /\ f - 1 <= Len(keys)
            BY <2>1, <2>5 DEF f
        <3>4. /\ x \in Seq(Int) /\ Len(x) = (IF 1 <= f - 1 THEN f - 1 - 1 + 1 ELSE 0)
              /\ \A i \in 1 .. f - 1 - 1 + 1 : x[i] = first[1 + i - 1]
            BY <1>3, <3>3, PieceIs, Zenon
        <3>5. /\ y \in Seq(Int) /\ Len(y) = (IF 1 <= f - 1 THEN f - 1 - 1 + 1 ELSE 0)
              /\ \A i \in 1 .. f - 1 - 1 + 1 : y[i] = keys[1 + i - 1]
            <4>1. keys \in Seq(Int)
                BY <2>3
            <4> QED
                BY <3>3, <4>1, PieceIs, Zenon
        <3> HIDE DEF x, y
        <3>6. Len(x) = f - 1 /\ Len(y) = f - 1
            BY <2>1, <3>4, <3>5
        <3>7. \A i \in 1 .. f - 1 : x[i] = first[i] /\ y[i] = keys[i]
            BY <2>1, <3>4, <3>5
        <3>8. \A i \in 1 .. f - 1 : x[i] = y[i]
            <4>1. \A i \in 1 .. f - 1 : i \in 1 .. f
                BY <2>1
            <4> QED
                BY <2>3, <3>7, <4>1
        <3>9. x = y
            BY <3>4, <3>5, <3>6, <3>8, SeqEqual
        <3> QED
            BY <2>6, <3>1, <3>2, <3>6, <3>9 DEF x, y
    <2>9. SubSeq(keys, 1, g) = keys
        BY <2>3, WholePiece DEF g
    <2>10. Taken(line, keys)
        <3>1. keys = line \o <<LF>> \o next \o <<LF>>
            BY <2>3, <2>8
        <3> QED
            BY <2>4, <2>8, <3>1 DEF Taken
    <2> QED
        BY <2>3, <2>4, <2>5, <2>7, <2>9, <2>10
<1>4. CASE ~(keys = <<>>) /\ ~OneLine(keys)
    <2>1. PICK next \in LINES, first \in Seq(Int) : OneLine(first) /\ Overlong(first) /\ Followed(keys, first, next)
        BY <1>4 DEF Lined
    <2>2. /\ r.read = g /\ g >= 1 /\ keys \in Seq(Int)
          /\ Agrees(r, Spelled(line)) /\ Taken(line, SubSeq(keys, 1, g))
        BY <1>3, <2>1
    <2>3. g \in Nat
        BY <2>2
    <2> HIDE DEF g
    <2>4. SubSeq(keys, g + 1, g) = <<>>
        BY <2>3, SubSeqEmpty
    <2> QED
        BY <2>2, <2>3, <2>4 DEF g, Lined
<1> QED
    BY <1>1, <1>2, <1>4

\* The keyboards keep to lines.
LEMMA LinesInit == Init => LinesTyped
BY DEF Init, LinesTyped, Lined

LEMMA KeyboardStays ==
    ASSUME \/ Main
           \/ \E a \in ADMINS : Ask(a) \/ SendFrame(a) \/ ReadFromProxy(a) \/ ParseConfig(a)
           \/ UNCHANGED vars
    PROVE  keyboard' = keyboard
<1>1. CASE Main
    BY <1>1 DEF Main
<1>2. ASSUME NEW a \in ADMINS, Ask(a) \/ SendFrame(a) \/ ReadFromProxy(a) \/ ParseConfig(a)
      PROVE  keyboard' = keyboard
    <2>1. CASE Ask(a)
        BY <2>1 DEF Ask
    <2>2. CASE SendFrame(a)
        BY <2>2 DEF SendFrame
    <2>3. CASE ReadFromProxy(a)
        BY <2>3 DEF ReadFromProxy
    <2>4. CASE ParseConfig(a)
        BY <2>4 DEF ParseConfig
    <2> QED
        BY <1>2, <2>1, <2>2, <2>3, <2>4
<1>3. CASE UNCHANGED vars
    BY <1>3 DEF vars
<1> QED
    BY <1>1, <1>2, <1>3

LEMMA LinesStep == IInv /\ LinesTyped /\ [Next]_vars => LinesTyped'
<1> SUFFICES ASSUME IInv, LinesTyped, [Next]_vars PROVE LinesTyped'
    OBVIOUS
<1>1. \A a \in ADMINS : Lined(keyboard[a])
    BY DEF LinesTyped
<1>2. keyboard \in [ADMINS -> Keyboards]
    BY DEF IInv
<1>3. ASSUME NEW a \in ADMINS, Type(a) PROVE LinesTyped'
    <2>1. PICK line \in LINES : keyboard' = [keyboard EXCEPT ![a] = @ \o line \o <<LF>>]
        BY <1>3 DEF Type
    <2>2. readCommands(keyboard[a]).state # "END"
        BY <1>3 DEF Type
    <2> DEFINE new == keyboard[a] \o line \o <<LF>>
    <2>3. Lined(new)
        BY <1>1, <2>2, TypedIsLined
    <2>4. keyboard' = [keyboard EXCEPT ![a] = new]
        BY <2>1
    <2> HIDE DEF new
    <2>5. \A b \in ADMINS : Lined(keyboard'[b])
        BY <1>1, <1>2, <2>3, <2>4
    <2> QED
        BY <2>5 DEF LinesTyped
<1>4. ASSUME NEW a \in ADMINS, ReadCommands(a) PROVE LinesTyped'
    <2> DEFINE r   == readCommands(keyboard[a])
               new == SubSeq(keyboard[a], r.read + 1, Len(keyboard[a]))
    <2>1. r.state = "END" /\ keyboard' = [keyboard EXCEPT ![a] = new]
        BY <1>4 DEF ReadCommands
    <2>2. Lined(new)
        BY <1>1, <2>1, LinesAreRead
    <2> HIDE DEF new
    <2>3. \A b \in ADMINS : Lined(keyboard'[b])
        BY <1>1, <1>2, <2>1, <2>2
    <2> QED
        BY <2>3 DEF LinesTyped
<1>5. CASE keyboard' = keyboard
    BY <1>1, <1>5 DEF LinesTyped
<1> QED
    BY <1>3, <1>4, <1>5, KeyboardStays DEF Next

\* What readCommands asks for and takes.
LEMMA ReadCommandsAsks ==
    ASSUME IInv, LinesTyped, NEW a \in ADMINS, ReadCommands(a), NEW line, line = FirstLine(keyboard[a]),
           NEW spelled, spelled = Spelled(line)
    PROVE  /\ request'[a] = IF spelled = NoCommand THEN NoRequest
                            ELSE [op |-> spelled.cmd, content |-> spelled.content]
           /\ Taken(line, SubSeq(keyboard[a], 1, Len(keyboard[a]) - Len(keyboard'[a])))
           /\ \A b \in ADMINS \ {a} : keyboard'[b] = keyboard[b]
<1> DEFINE keys == keyboard[a]
           r    == readCommands(keys)
           new  == SubSeq(keys, r.read + 1, Len(keys))
<1>1. keyboard \in [ADMINS -> Keyboards] /\ request \in [ADMINS -> Requests] /\ keys \in Seq(Int)
    BY DEF IInv, Keyboards
<1>2. /\ r.state = "END" /\ keyboard' = [keyboard EXCEPT ![a] = new] /\ request[a] = NoRequest
      /\ IF r.todo = "send" THEN MakeRequest(a, r.cmd, r.content) ELSE UNCHANGED <<request, unsent>>
    BY DEF ReadCommands
<1>3. Lined(keys)
    BY DEF LinesTyped
<1> HIDE DEF r
<1>4. r.read \in 1 .. Len(keys) /\ Agrees(r, spelled) /\ Taken(line, SubSeq(keys, 1, r.read))
    BY <1>2, <1>3, LinesAreRead DEF r
<1>5. keyboard'[a] = new /\ \A b \in ADMINS \ {a} : keyboard'[b] = keyboard[b]
    BY <1>1, <1>2
<1>6. Len(keys) - Len(new) = r.read
    <2>1. PICK n \in Nat : n = r.read /\ n >= 1 /\ n <= Len(keys)
        BY <1>1, <1>4
    <2>2. n + 1 \in Nat \ {0} /\ Len(keys) \in Nat /\ Len(keys) <= Len(keys)
        BY <1>1
    <2> DEFINE tail == SubSeq(keys, n + 1, Len(keys))
    <2>3. Len(tail) = (IF n + 1 <= Len(keys) THEN Len(keys) - (n + 1) + 1 ELSE 0)
        BY <1>1, <2>2, PieceIs, Zenon
    <2>4. new = tail
        BY <2>1
    <2> HIDE DEF new, tail, keys
    <2> QED
        BY <2>1, <2>2, <2>3, <2>4
<1>7. request'[a] = IF spelled = NoCommand THEN NoRequest ELSE [op |-> spelled.cmd, content |-> spelled.content]
    <2>1. CASE spelled = NoCommand
        <3>1. r.todo # "send"
            BY <1>4, <2>1 DEF Agrees
        <3> QED
            BY <1>2, <2>1, <3>1
    <2>2. CASE spelled # NoCommand
        <3>1. r.todo = "send" /\ r.cmd = spelled.cmd /\ r.content = spelled.content
            BY <1>4, <2>2 DEF Agrees
        <3>2. request' = [request EXCEPT ![a] = [op |-> r.cmd, content |-> r.content]]
            BY <1>2, <3>1 DEF MakeRequest
        <3> QED
            BY <1>1, <2>2, <3>1, <3>2
    <2> QED
        BY <2>1, <2>2
<1> HIDE DEF new
<1> QED
    BY <1>4, <1>5, <1>6, <1>7

\* The console asks for what the first line on its keyboard spells, whatever else may
\* be typed and however its keys are read, one by one or a line at a time: it takes that
\* line and no other, but for the one behind a line that was too long (readCommands).
THEOREM AsksWhatIsTypedHolds == Spec => AsksWhatIsTyped
<1>1. IInv /\ LinesTyped /\ [Next]_vars =>
        [\A a \in ADMINS : keyboard'[a] # keyboard[a] /\ asked'[a] = asked[a] =>
            LET line    == FirstLine(keyboard[a])
                spelled == Spelled(line)
            IN
            /\ request'[a] = IF spelled = NoCommand THEN NoRequest
                             ELSE [op |-> spelled.cmd, content |-> spelled.content]
            /\ Taken(line, SubSeq(keyboard[a], 1, Len(keyboard[a]) - Len(keyboard'[a])))]_vars
    <2> SUFFICES ASSUME IInv, LinesTyped, [Next]_vars, NEW a \in ADMINS,
                        keyboard'[a] # keyboard[a], asked'[a] = asked[a]
                 PROVE  LET line    == FirstLine(keyboard[a])
                            spelled == Spelled(line)
                        IN
                        /\ request'[a] = IF spelled = NoCommand THEN NoRequest
                                         ELSE [op |-> spelled.cmd, content |-> spelled.content]
                        /\ Taken(line, SubSeq(keyboard[a], 1, Len(keyboard[a]) - Len(keyboard'[a])))
        OBVIOUS
    <2>1. keyboard' # keyboard
        OBVIOUS
    <2>2. PICK b \in ADMINS : Type(b) \/ ReadCommands(b)
        BY <2>1, KeyboardStays DEF Next
    <2>3. ~Type(b)
        <3> SUFFICES ASSUME Type(b) PROVE FALSE
            OBVIOUS
        <3>1. PICK line \in LINES : keyboard' = [keyboard EXCEPT ![b] = @ \o line \o <<LF>>]
            BY DEF Type
        <3>2. a = b
            BY <3>1 DEF IInv
        <3>3. asked' = [asked EXCEPT ![b] = @ + 1] /\ asked \in [ADMINS -> 0 .. MAX_REQUESTS]
            BY DEF Type, IInv
        <3>4. asked'[a] = asked[a] + 1 /\ asked[a] \in Nat
            BY <3>2, <3>3, Limits
        <3> QED
            BY <3>4
    <2>4. ReadCommands(b)
        BY <2>2, <2>3
    <2> DEFINE line    == FirstLine(keyboard[b])
               spelled == Spelled(line)
    <2>5. /\ request'[b] = IF spelled = NoCommand THEN NoRequest
                           ELSE [op |-> spelled.cmd, content |-> spelled.content]
          /\ Taken(line, SubSeq(keyboard[b], 1, Len(keyboard[b]) - Len(keyboard'[b])))
          /\ \A c \in ADMINS \ {b} : keyboard'[c] = keyboard[c]
        BY <2>4, ReadCommandsAsks, Zenon
    <2>6. a = b
        BY <2>5
    <2> QED
        BY <2>5, <2>6
<1>2. Spec => []LinesTyped
    BY Invariant, LinesInit, LinesStep, PTL DEF Spec
<1> QED
    BY <1>1, <1>2, Invariant, PTL DEF Spec, AsksWhatIsTyped

-----------------------------------------------------------------------------
(* The service of AdminService, as long as every content fits a frame.     *)

\* What can be typed and given is a content, and no content fills a frame.
ContentsFit ==
    /\ \A c \in CONTENTS : Len(c) < MAX_CONTENT_LEN
    /\ \A cmd \in WithContent : \A c : TypedFor(cmd, c) => c \in CONTENTS
    /\ \A names : AreMetrics(names) => names \in CONTENTS
    /\ \A line \in COMMAND_LINES : \A o \in Range(line.options) : o.option \in Options => o.argument \in CONTENTS

\* A request is in one place, or its answer is on the way: r is the request of a
\* console, u what it has not sent, p and t what is on its connection.
InOnePlace(r, u, p, t) ==
    \/ r = NoRequest /\ u = <<>> /\ p = <<>> /\ t = <<>>
    \/ \E op \in Opcodes, content \in CONTENTS :
        LET f      == [op |-> op, bytes |-> Framed(content)]
            answer == AnswerTo(op, content, Status(op, content))
        IN  /\ r = [op |-> op, content |-> content]
            /\ \/ u = <<f>> /\ p = <<>> /\ t = <<>>
               \/ u = <<>> /\ p = <<f>> /\ t = <<>>
               \/ u = <<>> /\ p = <<>> /\ t = <<answer>>

Turns == \A a \in ADMINS : InOnePlace(request[a], unsent[a], toProxy[a], toAdmin[a])

\* Whatever the console sends is a content.
LEMMA ReadingSaid ==
    ASSUME ContentsFit, NEW keys \in Keyboards, readCommands(keys).todo = "send"
    PROVE  readCommands(keys).cmd \in Commands /\ readCommands(keys).content \in CONTENTS
<1> DEFINE r == readCommands(keys)
           cmd == r.cmd
           content == r.content
<1>1. KeyboardOK(keys) /\ keys \in Seq(Int) /\ Len(keys) \in Nat
    BY DEF Keyboards
<1>2. ReadingOK(r, keys, Len(keys))
    BY <1>1, WhatIsRead
<1>3. r.todo = "send"
    OBVIOUS
<1> SUFFICES cmd \in Commands /\ content \in CONTENTS
    OBVIOUS
<1> HIDE DEF r
<1>4. r.read \in Nat /\ r.read <= Len(keys) /\ ToSend(r, keys)
    BY <1>2 DEF ReadingOK, Readings
<1>5. /\ cmd \in Sendable \cup {"v"}
      /\ cmd = "v" => content = <<>>
      /\ cmd = "z" => AreMetrics(content)
      /\ cmd \in WithContent => \E p \in Nat : ContentIsAt(cmd, content, keys, p, r.read - 1)
    BY <1>3, <1>4 DEF ToSend
<1> HIDE DEF cmd, content
<1>6. cmd \in Commands
    BY <1>5 DEF Sendable, WithContent, Commands, Options
<1>7. CASE cmd = "v"
    BY <1>5, <1>6, <1>7, AdminWireAssumption
<1>8. CASE cmd = "z"
    BY <1>5, <1>6, <1>8 DEF ContentsFit
<1>9. CASE cmd \in WithContent
    <2>1. PICK p \in Nat : ContentIsAt(cmd, content, keys, p, r.read - 1)
        BY <1>5, <1>9
    <2>2. r.read - 1 <= Len(keys)
        BY <1>1, <1>4
    <2>3. TypedFor(cmd, content)
        BY <1>1, <2>1, <2>2, ReadIsTyped
    <2> QED
        BY <1>6, <1>9, <2>3 DEF ContentsFit
<1> QED
    BY <1>5, <1>7, <1>8, <1>9 DEF Sendable

\* One frame is enough for a content, and parseConfig reads all of it.
LEMMA FrameOfFitting ==
    ASSUME ContentsFit, NEW op, NEW content \in CONTENTS
    PROVE  /\ Frames(op, content) = <<[op |-> op, bytes |-> Framed(content)]>>
           /\ Content(Framed(content)) = content
<1>1. /\ content \in Seq(Int) /\ Len(content) < MAX_CONTENT_LEN
      /\ \A i \in DOMAIN content : content[i] < MAX_CONTENT_LEN
    BY AdminWireAssumption DEF ContentsFit
<1>2. /\ content \in Seq(Int) /\ Len(content) \in Nat /\ Len(content) <= MAX_CONTENT_LEN
      /\ \A i \in 1 .. Len(content) : content[i] < MAX_CONTENT_LEN
    BY <1>1, Limits
<1>3. Fits(content)
    BY <1>2 DEF Fits
<1> QED
    BY <1>1, <1>2, <1>3, FramesAre, ContentIs

LEMMA TurnsInit == Init => Turns
BY DEF Init, Turns, InOnePlace

\* A step that is about one console leaves the requests of the others where they are.
OthersStay(a) ==
    \A b \in ADMINS : b # a => /\ request'[b] = request[b] /\ unsent'[b] = unsent[b]
                               /\ toProxy'[b] = toProxy[b] /\ toAdmin'[b] = toAdmin[b]

LEMMA TurnOf ==
    ASSUME Turns, NEW a \in ADMINS, OthersStay(a),
           InOnePlace(request'[a], unsent'[a], toProxy'[a], toAdmin'[a])
    PROVE  Turns'
<1>1. ASSUME NEW b \in ADMINS
      PROVE  InOnePlace(request'[b], unsent'[b], toProxy'[b], toAdmin'[b])
    <2>1. CASE b = a
        BY <2>1
    <2>2. CASE b # a
        BY <2>2 DEF OthersStay, Turns
    <2> QED
        BY <2>1, <2>2
<1> QED
    BY <1>1 DEF Turns

\* A request is none, or one of these; its answer says what was asked for.
LEMMA NoneAsks == \A op \in Opcodes : \A content : NoRequest # [op |-> op, content |-> content]
BY DEF NoRequest, Opcodes, Commands, Options

\* A request that is made has a turn of its own.
LEMMA TurnMade ==
    ASSUME ContentsFit, NEW a \in ADMINS, NEW op \in Opcodes, NEW content \in CONTENTS,
           MakeRequest(a, op, content), IInv, Turns, request[a] = NoRequest,
           UNCHANGED <<toProxy, toAdmin>>
    PROVE  /\ Turns' /\ OthersStay(a) /\ toAdmin[a] = <<>>
           /\ request'[a] = [op |-> op, content |-> content]
<1>1. /\ request' = [request EXCEPT ![a] = [op |-> op, content |-> content]]
      /\ unsent' = [unsent EXCEPT ![a] = <<[op |-> op, bytes |-> Framed(content)]>>]
    BY FrameOfFitting DEF MakeRequest
<1>2. toProxy[a] = <<>> /\ toAdmin[a] = <<>>
    BY NoneAsks DEF Turns, InOnePlace
<1>3. /\ request'[a] = [op |-> op, content |-> content]
      /\ unsent'[a] = <<[op |-> op, bytes |-> Framed(content)]>>
      /\ toProxy'[a] = <<>> /\ toAdmin'[a] = <<>>
    BY <1>1, <1>2 DEF IInv
<1>4. InOnePlace(request'[a], unsent'[a], toProxy'[a], toAdmin'[a])
    BY <1>3 DEF InOnePlace
<1>5. OthersStay(a)
    BY <1>1 DEF IInv, OthersStay
<1> QED
    BY <1>2, <1>3, <1>4, <1>5, TurnOf

\* What the console sends, what the proxy answers and what the console reads.
LEMMA TurnSent ==
    ASSUME IInv, Turns, NEW a \in ADMINS, SendFrame(a)
    PROVE  Turns'
<1>1. PICK op \in Opcodes, content \in CONTENTS :
        /\ request[a] = [op |-> op, content |-> content]
        /\ unsent[a] = <<[op |-> op, bytes |-> Framed(content)]>> /\ toProxy[a] = <<>> /\ toAdmin[a] = <<>>
    BY DEF SendFrame, Turns, InOnePlace
<1>2. /\ request'[a] = [op |-> op, content |-> content] /\ unsent'[a] = <<>>
      /\ toProxy'[a] = <<[op |-> op, bytes |-> Framed(content)]>> /\ toAdmin'[a] = <<>>
    BY <1>1 DEF SendFrame, IInv
<1>3. InOnePlace(request'[a], unsent'[a], toProxy'[a], toAdmin'[a])
    BY <1>2 DEF InOnePlace
<1>4. OthersStay(a)
    BY DEF SendFrame, IInv, OthersStay
<1> QED
    BY <1>3, <1>4, TurnOf

LEMMA TurnAnswered ==
    ASSUME ContentsFit, IInv, Turns, NEW a \in ADMINS, ParseConfig(a)
    PROVE  /\ Turns' /\ OthersStay(a) /\ UNCHANGED request
           /\ \E op \in Opcodes, content \in CONTENTS :
                /\ request[a] = [op |-> op, content |-> content]
                /\ toAdmin[a] = <<>> /\ toAdmin'[a] = <<AnswerTo(op, content, Status(op, content))>>
                /\ Edit(op, content)
<1>1. PICK op \in Opcodes, content \in CONTENTS :
        /\ request[a] = [op |-> op, content |-> content]
        /\ unsent[a] = <<>> /\ toProxy[a] = <<[op |-> op, bytes |-> Framed(content)]>> /\ toAdmin[a] = <<>>
    BY DEF ParseConfig, Turns, InOnePlace
<1>2. Head(toProxy[a]).op = op /\ Content(Head(toProxy[a]).bytes) = content
    BY <1>1, FrameOfFitting
<1>3. /\ Edit(op, content)
      /\ toAdmin' = [toAdmin EXCEPT ![a] = Append(@, AnswerTo(op, content, Status(op, content)))]
      /\ toProxy' = [toProxy EXCEPT ![a] = Tail(@)]
      /\ UNCHANGED <<request, unsent>>
    BY <1>2 DEF ParseConfig
<1> DEFINE answer == AnswerTo(op, content, Status(op, content))
<1>4. toAdmin' = [toAdmin EXCEPT ![a] = Append(@, answer)]
    BY <1>3
<1>5. InOnePlace([op |-> op, content |-> content], <<>>, <<>>, <<answer>>)
    BY DEF InOnePlace
<1> HIDE DEF answer
<1>6. /\ request'[a] = [op |-> op, content |-> content] /\ unsent'[a] = <<>>
      /\ toProxy'[a] = <<>> /\ toAdmin'[a] = <<answer>>
    BY <1>1, <1>3, <1>4 DEF IInv
<1>7. OthersStay(a)
    BY <1>3, <1>4 DEF IInv, OthersStay
<1>8. Turns'
    BY <1>5, <1>6, <1>7, TurnOf
<1> QED
    BY <1>1, <1>3, <1>6, <1>7, <1>8 DEF answer

LEMMA TurnRead ==
    ASSUME IInv, Turns, NEW a \in ADMINS, ReadFromProxy(a)
    PROVE  /\ Turns' /\ OthersStay(a) /\ request'[a] = NoRequest
           /\ \E op \in Opcodes, content \in CONTENTS :
                /\ request[a] = [op |-> op, content |-> content]
                /\ toAdmin[a] = <<AnswerTo(op, content, Status(op, content))>>
<1>1. PICK op \in Opcodes, content \in CONTENTS :
        /\ request[a] = [op |-> op, content |-> content]
        /\ unsent[a] = <<>> /\ toProxy[a] = <<>>
        /\ toAdmin[a] = <<AnswerTo(op, content, Status(op, content))>>
    BY DEF ReadFromProxy, Turns, InOnePlace
<1> DEFINE answer == AnswerTo(op, content, Status(op, content))
<1>2. answer.op = op
    BY DEF AnswerTo
<1>3. toAdmin[a] = <<answer>>
    BY <1>1
<1> HIDE DEF answer
<1>4. Accepted(a)
    BY <1>1, <1>2, <1>3 DEF ReadFromProxy, ReadAuthentication, ReadAnswer, Refused
<1>5. /\ request'[a] = NoRequest /\ unsent'[a] = <<>> /\ toProxy'[a] = <<>> /\ toAdmin'[a] = <<>>
    BY <1>1, <1>3, <1>4 DEF ReadFromProxy, Accepted, IInv
<1>6. InOnePlace(request'[a], unsent'[a], toProxy'[a], toAdmin'[a])
    BY <1>5 DEF InOnePlace
<1>7. OthersStay(a)
    BY <1>4 DEF ReadFromProxy, Accepted, IInv, OthersStay
<1>8. Turns'
    BY <1>6, <1>7, TurnOf
<1> QED
    BY <1>1, <1>5, <1>7, <1>8

\* What call says of one console.
Standing(r, t) ==
    IF r = NoRequest THEN [status |-> "idle"]
    ELSE [op |-> r.op, content |-> r.content, status |-> IF t = <<>> THEN "asked" ELSE Head(t).status]

LEMMA CallIs ==
    /\ call = [a \in ADMINS |-> Standing(request[a], toAdmin[a])]
    /\ call' = [a \in ADMINS |-> Standing(request'[a], toAdmin'[a])]
BY DEF call, Standing

LEMMA CallChanges ==
    ASSUME NEW a \in ADMINS, OthersStay(a)
    PROVE  call' = [call EXCEPT ![a] = Standing(request'[a], toAdmin'[a])]
BY CallIs DEF OthersStay

LEMMA CallStays ==
    ASSUME UNCHANGED <<request, toAdmin>>
    PROVE  call' = call
BY CallIs

\* An answer is not a question, and its status is the outcome the document gives it.
LEMMA StatusIs ==
    ASSUME NEW op \in Opcodes, NEW content
    PROVE  /\ Status(op, content) = Service!Outcome(op, content)
           /\ Status(op, content) \notin {"idle", "asked"}
           /\ Status(op, content) = "OK" /\ op \in Options <=> op \in Options /\ Takes(op, content)
BY DEF Status, Service!Outcome, Opcodes, Commands, Options, Takes

LEMMA SettingsStay ==
    ASSUME UNCHANGED <<commandLine, main, config>>
    PROVE  settings' = settings
BY DEF settings

\* A request that is made is a call.
LEMMA MadeIsCall ==
    ASSUME ContentsFit, NEW a \in ADMINS, NEW op \in Opcodes, NEW content \in CONTENTS,
           MakeRequest(a, op, content), IInv, Turns, request[a] = NoRequest,
           UNCHANGED <<commandLine, main, config, toProxy, toAdmin>>
    PROVE  Service!Call(a, op, content)
<1>1. OthersStay(a) /\ toAdmin'[a] = <<>> /\ request'[a] = [op |-> op, content |-> content]
    BY TurnMade
<1>2. call[a] = Service!Idle
    BY CallIs DEF Standing, Service!Idle
<1>3. Standing(request'[a], toAdmin'[a]) = [op |-> op, content |-> content, status |-> "asked"]
    BY <1>1, NoneAsks DEF Standing
<1>4. call' = [call EXCEPT ![a] = [op |-> op, content |-> content, status |-> "asked"]]
    BY <1>1, <1>3, CallChanges
<1>5. settings' = settings
    BY SettingsStay
<1> QED
    BY <1>2, <1>4, <1>5 DEF Service!Call

LEMMA AskIsCall ==
    ASSUME ContentsFit, IInv, Turns, NEW a \in ADMINS, Ask(a)
    PROVE  Turns' /\ Service!Next
<1>1. PICK content \in CONTENTS : MakeRequest(a, "x", content)
    BY DEF Ask
<1>2. "x" \in Opcodes /\ "x" \in Service!Opcodes
    BY DEF Opcodes, Service!Opcodes
<1>3. request[a] = NoRequest /\ UNCHANGED <<commandLine, main, config, toProxy, toAdmin>>
    BY DEF Ask
<1>4. Service!Call(a, "x", content) /\ Turns'
    BY <1>1, <1>2, <1>3, MadeIsCall, TurnMade
<1> QED
    BY <1>2, <1>4 DEF Service!Next

LEMMA ReadCommandsIsCall ==
    ASSUME ContentsFit, IInv, Turns, NEW a \in ADMINS, ReadCommands(a)
    PROVE  Turns' /\ (Service!Next \/ UNCHANGED <<settings, call>>)
<1> DEFINE reading == readCommands(keyboard[a])
<1>1. /\ request[a] = NoRequest /\ UNCHANGED <<commandLine, main, config, toProxy, toAdmin>>
      /\ IF reading.todo = "send" THEN MakeRequest(a, reading.cmd, reading.content)
         ELSE UNCHANGED <<request, unsent>>
    BY DEF ReadCommands
<1>2. CASE reading.todo = "send"
    <2>1. keyboard[a] \in Keyboards
        BY DEF IInv
    <2>2. reading.cmd \in Commands /\ reading.content \in CONTENTS
        BY <1>2, <2>1, ReadingSaid
    <2>3. MakeRequest(a, reading.cmd, reading.content)
        BY <1>1, <1>2
    <2> HIDE DEF reading
    <2>4. PICK op \in Commands, content \in CONTENTS : MakeRequest(a, op, content)
        BY <2>2, <2>3
    <2>5. op \in Opcodes /\ op \in Service!Opcodes
        BY DEF Opcodes, Commands, Options, Service!Opcodes, Service!Options
    <2>6. Service!Call(a, op, content) /\ Turns'
        BY <1>1, <2>4, <2>5, MadeIsCall, TurnMade
    <2> QED
        BY <2>5, <2>6 DEF Service!Next
<1>3. CASE reading.todo # "send"
    <2>1. UNCHANGED <<request, unsent>>
        BY <1>1, <1>3
    <2> QED
        BY <1>1, <2>1, CallStays, SettingsStay DEF Turns
<1> QED
    BY <1>2, <1>3

LEMMA ParseConfigIsApply ==
    ASSUME ContentsFit, IInv, Turns, NEW a \in ADMINS, ParseConfig(a)
    PROVE  Turns' /\ Service!Next
<1>1. /\ Turns' /\ OthersStay(a) /\ UNCHANGED <<request, commandLine, main>> /\ main = "serving"
      /\ \E op \in Opcodes, content \in CONTENTS :
            /\ request[a] = [op |-> op, content |-> content]
            /\ toAdmin[a] = <<>> /\ toAdmin'[a] = <<AnswerTo(op, content, Status(op, content))>>
            /\ Edit(op, content)
    BY TurnAnswered, Connected DEF ParseConfig
<1>2. PICK op \in Opcodes, content \in CONTENTS :
            /\ request[a] = [op |-> op, content |-> content]
            /\ toAdmin[a] = <<>> /\ toAdmin'[a] = <<AnswerTo(op, content, Status(op, content))>>
            /\ Edit(op, content)
    BY <1>1
<1> DEFINE status == Status(op, content)
           answer == AnswerTo(op, content, status)
<1>3. /\ status = Service!Outcome(op, content)
      /\ op \in Options /\ status = "OK" <=> op \in Options /\ Takes(op, content)
    BY StatusIs
<1>4. answer.status = status /\ toAdmin'[a] = <<answer>>
    BY <1>2 DEF AnswerTo
<1> HIDE DEF answer, status
<1>5. call[a] = [op |-> op, content |-> content, status |-> "asked"]
    BY <1>2, CallIs, NoneAsks DEF Standing
<1>6. Standing(request'[a], toAdmin'[a]) = [op |-> op, content |-> content, status |-> status]
    BY <1>1, <1>2, <1>4, NoneAsks DEF Standing
<1>7. call' = [call EXCEPT ![a].status = status]
    <2>1. call' = [call EXCEPT ![a] = [op |-> op, content |-> content, status |-> status]]
        BY <1>1, <1>6, CallChanges
    <2>2. [call[a] EXCEPT !.status = status] = [op |-> op, content |-> content, status |-> status]
        BY <1>5
    <2> QED
        BY <2>1, <2>2
<1>8. settings' = IF op \in Options /\ status = "OK" THEN [settings EXCEPT ![op] = content] ELSE settings
    <2>1. settings = [o \in Options |-> config[o]] /\ settings' = [o \in Options |-> config'[o]]
        BY <1>1 DEF settings
    <2>2. CASE op \in Options /\ Takes(op, content)
        <3>1. config' = [config EXCEPT ![op] = content]
            BY <1>2, <2>2 DEF Edit, Set, Options
        <3>2. Options \subseteq DOMAIN config
            BY DEF IInv, Configured, Options, Letters
        <3> QED
            BY <1>3, <2>1, <2>2, <3>1, <3>2
    <2>3. CASE ~(op \in Options /\ Takes(op, content))
        <3>1. config' = config
            BY <1>2, <2>3 DEF Edit, Set
        <3> QED
            BY <1>3, <2>1, <2>3, <3>1
    <2> QED
        BY <2>2, <2>3
<1>9. call[a].status = "asked" /\ call[a].op = op /\ call[a].content = content
    BY <1>5
<1>10. Options = Service!Options
    BY DEF Options, Service!Options
<1>11. Service!Apply(a)
    BY <1>3, <1>7, <1>8, <1>9, <1>10 DEF Service!Apply
<1> QED
    BY <1>1, <1>11 DEF Service!Next

LEMMA ReadFromProxyIsReturn ==
    ASSUME IInv, Turns, NEW a \in ADMINS, ReadFromProxy(a)
    PROVE  Turns' /\ Service!Next
<1>1. /\ Turns' /\ OthersStay(a) /\ request'[a] = NoRequest
      /\ \E op \in Opcodes, content \in CONTENTS :
            /\ request[a] = [op |-> op, content |-> content]
            /\ toAdmin[a] = <<AnswerTo(op, content, Status(op, content))>>
    BY TurnRead
<1>2. PICK op \in Opcodes, content \in CONTENTS :
            /\ request[a] = [op |-> op, content |-> content]
            /\ toAdmin[a] = <<AnswerTo(op, content, Status(op, content))>>
    BY <1>1
<1> DEFINE status == Status(op, content)
           answer == AnswerTo(op, content, status)
<1>3. status \notin {"idle", "asked"}
    BY StatusIs
<1>4. answer.status = status /\ toAdmin[a] = <<answer>>
    BY <1>2 DEF AnswerTo
<1> HIDE DEF answer, status
<1>5. call[a].status = status
    <2>1. toAdmin[a] # <<>> /\ Head(toAdmin[a]) = answer
        BY <1>4
    <2>2. request[a] # NoRequest
        BY <1>2, NoneAsks
    <2>3. Standing(request[a], toAdmin[a]) = [op |-> request[a].op, content |-> request[a].content, status |-> status]
        BY <1>4, <2>1, <2>2 DEF Standing
    <2> QED
        BY <2>3, CallIs
<1>6. call' = [call EXCEPT ![a] = Service!Idle]
    BY <1>1, CallChanges DEF Standing, Service!Idle
<1>7. settings' = settings
    BY SettingsStay DEF ReadFromProxy
<1>8. Service!Return(a)
    BY <1>3, <1>5, <1>6, <1>7 DEF Service!Return
<1> QED
    BY <1>1, <1>8 DEF Service!Next

\* The command line is read before anybody can ask: it is no step of the service.
LEMMA MainIsNone ==
    ASSUME IInv, Turns, Main
    PROVE  Turns' /\ UNCHANGED <<settings, call>>
<1>1. config = newConfiguration /\ main = "starting" /\ UNCHANGED <<commandLine, request, unsent, toProxy, toAdmin>>
    BY DEF IInv, Configured, Main
<1>2. \/ main' = "ended"
      \/ main' = "serving" /\ config' = parseArgs(newConfiguration, commandLine)
    BY <1>1 DEF Main
<1>3. settings' = settings
    BY <1>1, <1>2 DEF settings
<1> QED
    BY <1>1, <1>3, CallStays DEF Turns

LEMMA ServiceStep ==
    ASSUME ContentsFit, IInv, Turns, [Next]_vars
    PROVE  Turns' /\ [Service!Next]_<<settings, call>>
<1>1. CASE Main
    BY <1>1, MainIsNone
<1>2. ASSUME NEW a \in ADMINS, Type(a) \/ SendFrame(a)
      PROVE  Turns' /\ UNCHANGED <<settings, call>>
    <2>1. UNCHANGED <<commandLine, main, config, request, toAdmin>>
        BY <1>2 DEF Type, SendFrame
    <2>2. CASE Type(a)
        <3>1. UNCHANGED <<request, unsent, toProxy, toAdmin>>
            BY <2>2 DEF Type
        <3>2. Turns'
            BY <3>1 DEF Turns
        <3> QED
            BY <2>1, <3>2, CallStays, SettingsStay
    <2>3. CASE SendFrame(a)
        BY <2>1, <2>3, TurnSent, CallStays, SettingsStay
    <2> QED
        BY <1>2, <2>2, <2>3
<1>3. ASSUME NEW a \in ADMINS, Ask(a) \/ ReadCommands(a) \/ ReadFromProxy(a) \/ ParseConfig(a)
      PROVE  Turns' /\ [Service!Next]_<<settings, call>>
    BY <1>3, AskIsCall, ReadCommandsIsCall, ParseConfigIsApply, ReadFromProxyIsReturn
<1>4. CASE UNCHANGED vars
    BY <1>4, CallStays, SettingsStay DEF vars, Turns
<1> QED
    BY <1>1, <1>2, <1>3, <1>4 DEF Next

LEMMA ServiceInit ==
    ASSUME ContentsFit, Init
    PROVE  Service!Init
<1> DEFINE options == commandLine.options
           conf == parseArgs(newConfiguration, commandLine)
<1>1. ConfigurationOK(conf, options, Len(options)) /\ options \in Seq(Range(options))
    BY parseArgsOK, AdminWireAssumption DEF Init
<1>2. settings = [o \in Options |-> conf[o]]
    BY DEF settings, Init
<1>3. commandLine \in COMMAND_LINES
    BY DEF Init
<1> HIDE DEF conf
<1>4. ASSUME NEW o \in Options PROVE conf[o] \in CONTENTS \cup {Default}
    <2>1. \/ conf[o] = Default
          \/ \E i \in 1 .. Len(options) : options[i].option = o /\ options[i].argument = conf[o]
        BY <1>1 DEF ConfigurationOK
    <2>2. \A i \in 1 .. Len(options) : options[i] \in Range(options)
        BY <1>1
    <2> QED
        BY <1>3, <2>1, <2>2 DEF ContentsFit
<1>5. settings \in [Service!Options -> CONTENTS \cup {Service!Default}]
    BY <1>2, <1>4 DEF Options, Service!Options, Default, Service!Default
<1>6. call = [a \in ADMINS |-> Service!Idle]
    BY CallIs DEF Init, Standing, Service!Idle
<1> QED
    BY <1>5, <1>6 DEF Service!Init

\* Every request is asked, done at one moment and answered, on settings that are
\* shared, by any number of consoles: AdminWire implements AdminService as long as
\* every content fits a frame.  (With one that does not it need not: SettingsWereSent.)
THEOREM ServesAdministratorsHolds ==
    ASSUME ContentsFit
    PROVE  Spec => ServesAdministrators
<1>1. Init => Turns /\ Service!Init
    BY TurnsInit, ServiceInit
<1>2. IInv /\ Turns /\ [Next]_vars => Turns' /\ [Service!Next]_<<settings, call>>
    BY ServiceStep
<1>3. Spec => []IInv
    BY Invariant
<1>4. Spec => Service!Spec
    BY <1>1, <1>2, <1>3, PTL DEF Spec, Service!Spec, Service!vars
<1> QED
    BY <1>4 DEF ServesAdministrators

=============================================================================
