--------------------------- MODULE MetricsProofs ---------------------------
(***************************************************************************)
(* Proofs about the metrics of AdminWire: what getMetrics of the proxy     *)
(* makes of the names it is asked for, and parseMetrics of the console of  *)
(* its answer, by induction over the names.                                *)
(***************************************************************************)
EXTENDS AdminProofs

\* CON_PER_MIN, the last metric of all, is the only one that may have no figure.
LastHasNone == \A i \in 1 .. Len(METRICS) - 1 : METRICS[i] \in FIGURES

-----------------------------------------------------------------------------
(* What the console asks for.                                              *)

\* Nothing but the last of some names has no figure.
LastAtMost(names) == names \in Seq(Nat) /\ \A i \in 1 .. Len(names) - 1 : names[i] \in FIGURES

\* That holds of the names found among the first n metrics, and all of them have
\* one as long as there are more metrics.
FoundOK(text, names, metrics, n) ==
    LastAtMost(names) /\ (n < Len(METRICS) => \A i \in 1 .. Len(names) : names[i] \in FIGURES)
Finding == INSTANCE Folding WITH Op <- AddNamed, Base <- NoName, Holds <- FoundOK

LEMMA NamedFinds == ASSUME NEW text PROVE Named(text) = Finding!Fold(text, METRICS)
BY DEF Named, NoName, Finding!Fold, FoldLeft, MapThenFoldSet,
       Finding!FoldLeft, Finding!MapThenFoldSet, Finding!Max, Max

LEMMA NamedOK ==
    ASSUME LastHasNone, NEW text
    PROVE  LastAtMost(Named(text))
<1>1. METRICS \in Seq(Nat) /\ Len(METRICS) \in Nat
    BY ConsoleAssumption
<1>2. FoundOK(text, NoName(text), METRICS, 0)
    BY DEF FoundOK, LastAtMost, NoName
<1>3. ASSUME NEW names, NEW n \in 1 .. Len(METRICS), FoundOK(text, names, METRICS, n - 1)
      PROVE  FoundOK(text, AddNamed(text, names, METRICS[n]), METRICS, n)
    <2> DEFINE name == METRICS[n]
               more == Append(names, name)
    <2>1. /\ n \in Nat /\ name \in Nat /\ (n < Len(METRICS) => name \in FIGURES)
          /\ n - 1 < Len(METRICS) /\ (n < Len(METRICS) => n - 1 < Len(METRICS))
        BY <1>1 DEF LastHasNone
    <2>2. names \in Seq(Nat) /\ \A i \in 1 .. Len(names) : names[i] \in FIGURES
        BY <1>3, <2>1 DEF FoundOK, LastAtMost
    <2> HIDE DEF name
    <2>3. /\ more \in Seq(Nat) /\ Len(more) = Len(names) + 1 /\ more[Len(names) + 1] = name
          /\ \A i \in 1 .. Len(names) : more[i] = names[i]
        BY <2>1, <2>2
    <2> HIDE DEF more
    <2>4. FoundOK(text, more, METRICS, n)
        <3>1. Len(names) \in Nat /\ \A i \in 1 .. Len(names) : more[i] \in FIGURES
            <4>1. Len(names) \in Nat
                BY <2>2
            <4>2. \A i \in 1 .. Len(names) : names[i] \in FIGURES
                BY <2>2
            <4>3. \A i \in 1 .. Len(names) : more[i] = names[i]
                BY <2>3
            <4> HIDE DEF more
            <4> QED
                BY <4>1, <4>2, <4>3, Zenon
        <3>2. \A i \in 1 .. Len(more) - 1 : i \in 1 .. Len(names)
            BY <2>3, <3>1
        <3>3. \A i \in 1 .. Len(more) : i \in 1 .. Len(names) \/ i = Len(names) + 1
            BY <2>3, <3>1
        <3>4. LastAtMost(more)
            BY <2>3, <3>1, <3>2 DEF LastAtMost
        <3>5. n < Len(METRICS) => \A i \in 1 .. Len(more) : more[i] \in FIGURES
            BY <2>1, <2>3, <3>1, <3>3
        <3> QED
            BY <3>4, <3>5 DEF FoundOK
    <2>5. FoundOK(text, names, METRICS, n)
        BY <1>3, <2>1, <2>2 DEF FoundOK
    <2> QED
        BY <2>4, <2>5 DEF AddNamed, more, name
<1>4. FoundOK(text, Finding!Fold(text, METRICS), METRICS, Len(METRICS))
    BY <1>1, <1>2, <1>3, Finding!FoldInduction
<1> QED
    BY <1>4, NamedFinds DEF FoundOK

LEMMA AskedOK ==
    ASSUME LastHasNone, NEW names, AreMetrics(names)
    PROVE  LastAtMost(names)
<1>1. METRICS \in Seq(Nat) /\ METRICS # <<>>
    BY ConsoleAssumption
<1>2. CASE names = AllMetrics
    <2>1. AllMetrics = SubSeq(METRICS, 1, Len(METRICS) - 1)
        BY DEF AllMetrics, Front
    <2> DEFINE N == Len(METRICS)
    <2>2. N \in Nat /\ N >= 1 /\ METRICS \in [1 .. N -> Nat]
        BY <1>1
    <2> HIDE DEF N
    <2>3. names = [i \in 1 .. N - 1 |-> METRICS[i]]
        BY <1>1, <1>2, <2>1, <2>2, SubSeqProperties DEF N
    <2>4. names \in Seq(Nat) /\ Len(names) = N - 1 /\ \A i \in 1 .. N - 1 : names[i] = METRICS[i]
        BY <2>2, <2>3
    <2>5. \A i \in 1 .. Len(names) - 1 : i \in 1 .. N - 1
        BY <2>2, <2>4
    <2> QED
        BY <2>4, <2>5 DEF LastAtMost, LastHasNone, N
<1>3. CASE \E text \in Seq(Int) : names = Named(text)
    BY <1>3, NamedOK
<1> QED
    BY <1>2, <1>3 DEF AreMetrics

-----------------------------------------------------------------------------
LEMMA Joined ==
    ASSUME NEW S, NEW s \in Seq(S), NEW t \in Seq(S)
    PROVE  /\ s \o t \in Seq(S) /\ Len(s \o t) = Len(s) + Len(t)
           /\ \A k \in 1 .. Len(s) : (s \o t)[k] = s[k]
           /\ \A k \in 1 .. Len(t) : (s \o t)[Len(s) + k] = t[k]
OBVIOUS

-----------------------------------------------------------------------------
(* What the proxy answers, and what the console makes of it.               *)

\* How many of the first n names have a figure.
Figured(names, n) == IF n > 0 /\ names[n] \notin FIGURES THEN n - 1 ELSE n

\* The words of the first n names: two for each that has a figure, and then one more
\* for the last of them if it has none.
WordsOK(given, words, names, n) ==
    LET m == Figured(names, n) IN
    /\ words \in Seq(Words) /\ Len(words) = n + m
    /\ \A i \in 1 .. m : words[2 * i - 1] = Name(names[i]) /\ words[2 * i] = Figure(names[i])
Answering == INSTANCE Folding WITH Op <- MoreWords, Base <- NoWords, Holds <- WordsOK

LEMMA getMetricsAnswers == ASSUME NEW names PROVE getMetrics(names) = Answering!Fold({}, names)
BY DEF getMetrics, NoWords, MoreWords, Answering!Fold, FoldLeft, MapThenFoldSet,
       Answering!FoldLeft, Answering!MapThenFoldSet, Answering!Max, Max

LEMMA getMetricsOK ==
    ASSUME NEW names, LastAtMost(names)
    PROVE  WordsOK({}, getMetrics(names), names, Len(names))
<1>1. names \in Seq(Nat) /\ Len(names) \in Nat
    BY DEF LastAtMost
<1>2. WordsOK({}, NoWords({}), names, 0)
    BY DEF WordsOK, NoWords, Figured
<1>3. ASSUME NEW words, NEW n \in 1 .. Len(names), WordsOK({}, words, names, n - 1)
      PROVE  WordsOK({}, MoreWords({}, words, names[n]), names, n)
    <2> DEFINE name == names[n]
               next == IF name \in FIGURES THEN <<Name(name), Figure(name)>> ELSE <<Null(name)>>
               all == words \o next
    <2>1. Figured(names, n - 1) = n - 1
        <3>1. n - 1 > 0 => n - 1 \in 1 .. Len(names) - 1
            BY <1>1
        <3> QED
            BY <3>1 DEF LastAtMost, Figured
    <2>2. /\ words \in Seq(Words) /\ Len(words) = 2 * (n - 1)
          /\ \A i \in 1 .. n - 1 : words[2 * i - 1] = Name(names[i]) /\ words[2 * i] = Figure(names[i])
        BY <1>1, <1>3, <2>1 DEF WordsOK
    <2>3. name \in Nat /\ n \in Nat /\ n >= 1
        BY <1>1
    <2>4. MoreWords({}, words, names[n]) = all
        BY DEF MoreWords, AddMetric
    <2>5. \A i \in 1 .. n - 1 : 2 * i - 1 \in 1 .. Len(words) /\ 2 * i \in 1 .. Len(words)
        BY <2>2, <2>3
    <2>6. names[n] = name
        OBVIOUS
    <2> HIDE DEF name
    <2>7. CASE name \in FIGURES
        <3>1. /\ next \in Seq(Words) /\ Len(next) = 2
              /\ next[1] = Name(name) /\ next[2] = Figure(name)
            BY <2>3, <2>7 DEF Words, Name, Figure
        <3> HIDE DEF next
        <3>2. /\ all \in Seq(Words) /\ Len(all) = 2 * n
              /\ \A k \in 1 .. Len(words) : all[k] = words[k]
              /\ all[Len(words) + 1] = Name(name) /\ all[Len(words) + 2] = Figure(name)
            <4>1. words \in Seq(Words) /\ next \in Seq(Words)
                BY <2>2, <3>1
            <4>2. /\ all \in Seq(Words) /\ Len(all) = Len(words) + Len(next)
                  /\ \A k \in 1 .. Len(words) : all[k] = words[k]
                  /\ \A k \in 1 .. Len(next) : all[Len(words) + k] = next[k]
                BY ONLY <4>1, Joined
            <4> HIDE DEF all
            <4> QED
                BY <2>2, <2>3, <3>1, <4>2
        <3> HIDE DEF all
        <3>3. all[2 * n - 1] = Name(name) /\ all[2 * n] = Figure(name)
            <4>1. Len(words) + 1 = 2 * n - 1 /\ Len(words) + 2 = 2 * n
                BY <2>2, <2>3
            <4> QED
                BY <3>2, <4>1
        <3>4. ASSUME NEW i \in 1 .. n
              PROVE  all[2 * i - 1] = Name(names[i]) /\ all[2 * i] = Figure(names[i])
            <4>1. CASE i = n
                BY <2>6, <3>3, <4>1
            <4>2. CASE i \in 1 .. n - 1
                BY <2>2, <2>5, <3>2, <4>2
            <4> QED
                BY <2>3, <4>1, <4>2
        <3>5. Figured(names, n) = n
            BY <2>6, <2>7 DEF Figured
        <3>6. Len(all) = n + n
            BY <2>3, <3>2
        <3> QED
            BY <2>4, <3>2, <3>4, <3>5, <3>6 DEF WordsOK
    <2>8. CASE name \notin FIGURES
        <3>1. next \in Seq(Words) /\ Len(next) = 1
            BY <2>3, <2>8 DEF Words, Null
        <3> HIDE DEF next
        <3>2. /\ all \in Seq(Words) /\ Len(all) = 2 * (n - 1) + 1
              /\ \A k \in 1 .. Len(words) : all[k] = words[k]
            <4>1. words \in Seq(Words) /\ next \in Seq(Words)
                BY <2>2, <3>1
            <4>2. /\ all \in Seq(Words) /\ Len(all) = Len(words) + Len(next)
                  /\ \A k \in 1 .. Len(words) : all[k] = words[k]
                BY ONLY <4>1, Joined
            <4> HIDE DEF all
            <4> QED
                BY <2>2, <2>3, <3>1, <4>2
        <3> HIDE DEF all
        <3>3. \A i \in 1 .. n - 1 : all[2 * i - 1] = Name(names[i]) /\ all[2 * i] = Figure(names[i])
            BY <2>2, <2>5, <3>2
        <3>4. Figured(names, n) = n - 1
            BY <2>3, <2>6, <2>8 DEF Figured
        <3>5. Len(all) = n + (n - 1)
            BY <2>3, <3>2
        <3> QED
            BY <2>4, <3>2, <3>3, <3>4, <3>5 DEF WordsOK
    <2> QED
        BY <2>7, <2>8
<1>4. WordsOK({}, Answering!Fold({}, names), names, Len(names))
    BY <1>1, <1>2, <1>3, Answering!FoldInduction
<1> QED
    BY <1>4, getMetricsAnswers

\* The names that have a figure are the first of them.
AddFigured(given, found, name) == IF name \in FIGURES THEN Append(found, name) ELSE found
NoneYet(given) == <<>>
FirstOfThem(given, found, names, n) ==
    LET m == Figured(names, n) IN
    found \in Seq(Nat) /\ Len(found) = m /\ \A i \in 1 .. m : found[i] = names[i]
Figuring == INSTANCE Folding WITH Op <- AddFigured, Base <- NoneYet, Holds <- FirstOfThem

LEMMA WithFigureFolds == ASSUME NEW names PROVE WithFigure(names) = Figuring!Fold({}, names)
BY DEF WithFigure, NoneYet, AddFigured, Figuring!Fold, FoldLeft, MapThenFoldSet,
       Figuring!FoldLeft, Figuring!MapThenFoldSet, Figuring!Max, Max

LEMMA WithFigureOK ==
    ASSUME NEW names, LastAtMost(names)
    PROVE  FirstOfThem({}, WithFigure(names), names, Len(names))
<1>1. names \in Seq(Nat) /\ Len(names) \in Nat
    BY DEF LastAtMost
<1>2. FirstOfThem({}, NoneYet({}), names, 0)
    BY DEF FirstOfThem, NoneYet, Figured
<1>3. ASSUME NEW found, NEW n \in 1 .. Len(names), FirstOfThem({}, found, names, n - 1)
      PROVE  FirstOfThem({}, AddFigured({}, found, names[n]), names, n)
    <2>1. Figured(names, n - 1) = n - 1
        <3>1. n - 1 > 0 => n - 1 \in 1 .. Len(names) - 1
            BY <1>1
        <3> QED
            BY <3>1 DEF LastAtMost, Figured
    <2>2. found \in Seq(Nat) /\ Len(found) = n - 1 /\ \A i \in 1 .. n - 1 : found[i] = names[i]
        BY <1>1, <1>3, <2>1 DEF FirstOfThem
    <2>3. PICK name \in Nat : names[n] = name
        BY <1>1
    <2>4. n \in Nat /\ n >= 1
        BY <1>1
    <2>5. CASE name \in FIGURES
        <3> DEFINE more == Append(found, name)
        <3>1. /\ more \in Seq(Nat) /\ Len(more) = n /\ more[n] = name
              /\ \A i \in 1 .. n - 1 : more[i] = found[i]
            BY <2>2, <2>3, <2>4
        <3>2. AddFigured({}, found, names[n]) = more
            BY <2>3, <2>5 DEF AddFigured
        <3> HIDE DEF more
        <3>3. \A i \in 1 .. n : more[i] = names[i]
            BY <2>2, <2>3, <2>4, <3>1
        <3>4. Figured(names, n) = n
            BY <2>3, <2>5 DEF Figured
        <3> QED
            BY <3>1, <3>2, <3>3, <3>4 DEF FirstOfThem
    <2>6. CASE name \notin FIGURES
        <3>1. AddFigured({}, found, names[n]) = found /\ Figured(names, n) = n - 1
            BY <2>3, <2>4, <2>6 DEF AddFigured, Figured
        <3> QED
            BY <2>2, <3>1 DEF FirstOfThem
    <2> QED
        BY <2>5, <2>6
<1>4. FirstOfThem({}, Figuring!Fold({}, names), names, Len(names))
    BY <1>1, <1>2, <1>3, Figuring!FoldInduction
<1> QED
    BY <1>4, WithFigureFolds

\* parseMetrics finds every name that has a figure, beside it, in the answer.
LEMMA ShownOK ==
    ASSUME NEW names, LastAtMost(names)
    PROVE  LET found == WithFigure(names)
           IN  parseMetrics(getMetrics(names), Len(names))
                    = [i \in DOMAIN found |-> <<Name(found[i]), Figure(found[i])>>]
<1> DEFINE N == Len(names)
           m == Figured(names, N)
           words == getMetrics(names)
           found == WithFigure(names)
           shown == Min({N, Len(words) \div 2})
<1>1. N \in Nat /\ m \in {N, N - 1} /\ m >= 0
    BY DEF LastAtMost, Figured
<1>2. /\ words \in Seq(Words) /\ Len(words) = N + m
      /\ \A i \in 1 .. m : words[2 * i - 1] = Name(names[i]) /\ words[2 * i] = Figure(names[i])
    BY getMetricsOK DEF WordsOK
<1>3. found \in Seq(Nat) /\ Len(found) = m /\ \A i \in 1 .. m : found[i] = names[i]
    BY WithFigureOK DEF FirstOfThem
<1> HIDE DEF N, m, words, found
<1>4. Len(words) \div 2 = m
    BY <1>1, <1>2
<1>5. shown = m
    <2> DEFINE S == {N, Len(words) \div 2}
    <2>1. m \in S /\ \A y \in S : m <= y /\ y \in Int
        BY <1>1, <1>4
    <2> HIDE DEF S
    <2>2. m \in Int /\ \A x \in S : (\A y \in S : x <= y) => x = m
        BY <1>1, <2>1
    <2>3. Min(S) \in S /\ \A y \in S : Min(S) <= y
        BY <2>1 DEF Min
    <2>4. Min(S) = m
        BY <2>2, <2>3
    <2> QED
        BY <2>4 DEF S
<1>6. parseMetrics(words, N) = [i \in 1 .. m |-> <<words[2 * i - 1], words[2 * i]>>]
    BY <1>5 DEF parseMetrics
<1>7. DOMAIN found = 1 .. m
    BY <1>1, <1>3
<1>8. \A i \in 1 .. m : <<words[2 * i - 1], words[2 * i]>> = <<Name(found[i]), Figure(found[i])>>
    BY <1>2, <1>3
<1>9. parseMetrics(words, N) = [i \in DOMAIN found |-> <<Name(found[i]), Figure(found[i])>>]
    BY <1>6, <1>7, <1>8
<1> QED
    BY <1>9 DEF words, N, found

-----------------------------------------------------------------------------
(* The console asks for metrics, and reads what was answered.              *)

MetricsAsked == \A a \in ADMINS : request[a].op = "z" => AreMetrics(request[a].content)

LEMMA MetricsAskedInit == Init => MetricsAsked
BY DEF Init, MetricsAsked, NoRequest

\* What is sent for metrics are names of metrics.
LEMMA ReadingMetrics ==
    ASSUME NEW keys \in Keyboards, readCommands(keys).todo = "send", readCommands(keys).cmd = "z"
    PROVE  AreMetrics(readCommands(keys).content)
<1>1. keys \in Seq(Int)
    BY DEF Keyboards
<1>2. ReadingOK(readCommands(keys), keys, Len(keys))
    BY <1>1, WhatIsRead
<1> QED
    BY <1>2 DEF ReadingOK, ToSend

LEMMA MetricsAskedStep == IInv /\ MetricsAsked /\ [Next]_vars => MetricsAsked'
<1> SUFFICES ASSUME IInv, MetricsAsked, [Next]_vars PROVE MetricsAsked'
    OBVIOUS
<1>1. CASE UNCHANGED request
    BY <1>1 DEF MetricsAsked
<1>2. ASSUME NEW a \in ADMINS, Ask(a) PROVE MetricsAsked'
    <2>1. PICK content \in CONTENTS : request' = [request EXCEPT ![a] = [op |-> "x", content |-> content]]
        BY <1>2 DEF Ask, MakeRequest
    <2> QED
        BY <2>1 DEF IInv, MetricsAsked
<1>3. ASSUME NEW a \in ADMINS, ReadCommands(a) PROVE MetricsAsked'
    <2> DEFINE reading == readCommands(keyboard[a])
    <2>1. \/ /\ reading.todo = "send"
             /\ request' = [request EXCEPT ![a] = [op |-> reading.cmd, content |-> reading.content]]
          \/ UNCHANGED request
        BY <1>3 DEF ReadCommands, MakeRequest
    <2>2. keyboard[a] \in Keyboards
        BY DEF IInv
    <2>3. reading.todo = "send" /\ reading.cmd = "z" => AreMetrics(reading.content)
        BY <2>2, ReadingMetrics
    <2> DEFINE cmd == reading.cmd
               content == reading.content
    <2> HIDE DEF cmd, content
    <2>4. CASE /\ reading.todo = "send"
               /\ request' = [request EXCEPT ![a] = [op |-> cmd, content |-> content]]
        <3>1. \A b \in ADMINS : request'[b] = IF b = a THEN [op |-> cmd, content |-> content] ELSE request[b]
            BY <2>4 DEF IInv
        <3>2. cmd = "z" => AreMetrics(content)
            BY <2>3, <2>4 DEF cmd, content
        <3> QED
            BY <3>1, <3>2 DEF MetricsAsked
    <2> QED
        BY <1>1, <2>1, <2>4 DEF cmd, content
<1>4. ASSUME NEW a \in ADMINS, ReadFromProxy(a) PROVE MetricsAsked'
    <2>1. request' = [request EXCEPT ![a] = NoRequest] /\ NoRequest.op # "z"
        BY <1>4 DEF ReadFromProxy, NoRequest
    <2> QED
        BY <2>1 DEF IInv, MetricsAsked
<1>5. ASSUME NEW a \in ADMINS, Type(a) \/ SendFrame(a) \/ ParseConfig(a) PROVE UNCHANGED request
    BY <1>5 DEF Type, SendFrame, ParseConfig
<1> QED
    BY <1>1, <1>2, <1>3, <1>4, <1>5 DEF Next, Main, vars

LEMMA AnswerIsRead ==
    ASSUME ContentsFit, LastHasNone, IInv, Turns, MetricsAsked, [Next]_vars,
           NEW a \in ADMINS, request[a].op = "z", request'[a] = NoRequest
    PROVE  LET names == WithFigure(request[a].content)
           IN  parseMetrics(Head(toAdmin[a]).report, Len(request[a].content))
                    = [i \in DOMAIN names |-> <<Name(names[i]), Figure(names[i])>>]
<1>1. request[a] # NoRequest
    BY DEF NoRequest
<1>2. ReadFromProxy(a)
    <2>1. ASSUME NEW b \in ADMINS, b # a, ReadFromProxy(b) PROVE FALSE
        BY <1>1, <2>1 DEF ReadFromProxy, IInv
    <2>2. ASSUME NEW b \in ADMINS, Ask(b) \/ ReadCommands(b) PROVE FALSE
        <3>1. request[b] = NoRequest /\ \A c \in ADMINS : c # b => request'[c] = request[c]
            BY <2>2 DEF Ask, ReadCommands, MakeRequest, IInv
        <3> QED
            BY <1>1, <3>1
    <2>3. ASSUME NEW b \in ADMINS, Type(b) \/ SendFrame(b) \/ ParseConfig(b) PROVE FALSE
        BY <1>1, <2>3 DEF Type, SendFrame, ParseConfig
    <2>4. ~Main /\ ~UNCHANGED vars
        BY <1>1 DEF Main, vars
    <2> QED
        BY <2>1, <2>2, <2>3, <2>4 DEF Next
<1>3. \E op \in Opcodes, content \in CONTENTS :
        /\ request[a] = [op |-> op, content |-> content]
        /\ toAdmin[a] = <<AnswerTo(op, content, Status(op, content))>>
    BY <1>2, TurnRead
<1>4. PICK content \in CONTENTS :
        /\ request[a] = [op |-> "z", content |-> content]
        /\ toAdmin[a] = <<AnswerTo("z", content, Status("z", content))>>
    BY <1>3
<1>5. LastAtMost(content)
    BY <1>4, AskedOK DEF MetricsAsked
<1> DEFINE answer == AnswerTo("z", content, Status("z", content))
<1>6. answer.report = getMetrics(content) /\ toAdmin[a] = <<answer>> /\ request[a].content = content
    BY <1>4 DEF AnswerTo
<1> HIDE DEF answer
<1>7. Head(toAdmin[a]).report = getMetrics(content)
    BY <1>6
<1> QED
    BY <1>5, <1>6, <1>7, ShownOK

\* As long as every content fits a frame, what the console shows of the answer to a
\* request for metrics are the metrics that were asked for and have a figure, each
\* with its own: parseMetrics takes words by twos, and a metric without a figure is
\* a single word, but it comes last in all that is asked for.
THEOREM MetricsAreThoseAskedHolds ==
    ASSUME ContentsFit, LastHasNone
    PROVE  Spec => MetricsAreThoseAsked
<1> DEFINE Step == \A a \in ADMINS : request[a].op = "z" /\ request'[a] = NoRequest =>
                    LET names == WithFigure(request[a].content)
                    IN  parseMetrics(Head(toAdmin[a]).report, Len(request[a].content))
                            = [i \in DOMAIN names |-> <<Name(names[i]), Figure(names[i])>>]
<1>1. Init => Turns /\ MetricsAsked
    BY TurnsInit, MetricsAskedInit
<1>2. IInv /\ Turns /\ MetricsAsked /\ [Next]_vars => Turns' /\ MetricsAsked'
    BY ServiceStep, MetricsAskedStep
<1>3. IInv /\ Turns /\ MetricsAsked /\ [Next]_vars => [Step]_vars
    BY AnswerIsRead
<1>4. Spec => []IInv
    BY Invariant
<1> QED
    BY <1>1, <1>2, <1>3, <1>4, PTL DEF Spec, MetricsAreThoseAsked
=============================================================================
