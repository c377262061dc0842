--------------------------- MODULE ConsoleProofs ---------------------------
(***************************************************************************)
(* Proofs about Console: what readCommands makes of any sequence of keys,  *)
(* by induction over the keys, and that it is what their first line says.  *)
(***************************************************************************)
EXTENDS Console, SequenceTheorems, TLAPS

\* Letters of commands that go on with a content, or are sent without one.
WithContent == {"t", "e", "f", "m", "M"}
Sendable == WithContent \cup {"z"}

States == {"START", "SPACE", "GUION", "HELP", "VERSION", "QUIT", "LETTER", "WORD", "LINE", "TOO_LONG",
           "SKIP", "ERROR", "END"}

Readings == [state : States, spaces : Nat, cmd : DOMAIN KeyOf \cup {"none"}, content : Seq(Int),
             todo : {"none", "send", "quit"}, read : Nat]

\* The keys from p to m are the content: no end of a line is among them, and the
\* letter of the command and a space are in front of them.
ContentIsAt(cmd, content, keys, p, m) ==
    /\ p \in Nat /\ p >= 3 /\ m \in Nat /\ p <= m
    /\ keys[p - 2] = KeyOf[cmd] /\ keys[p - 1] = SPACE
    /\ \A i \in p - 2 .. m : keys[i] # LF
    /\ content = SubSeq(keys, p, m)

\* What is true of a reading after n of the keys.
LettersRead(r, keys, n) ==
    /\ r.state \in {"LETTER", "WORD", "LINE"} => r.cmd \in Sendable
    /\ r.state = "LETTER" => n >= 1 /\ keys[n] = KeyOf[r.cmd]
    /\ r.state = "WORD" => n >= 2 /\ keys[n - 1] = KeyOf[r.cmd] /\ keys[n] = SPACE
    /\ r.state = "LINE" => \E p \in Nat : ContentIsAt(r.cmd, r.content, keys, p, n)

\* Names of metrics, all but the last of them or those in some text.
AreMetrics(names) == names = AllMetrics \/ \E text \in Seq(Int) : names = Named(text)

ToSend(r, keys) ==
    r.todo = "send" =>
        /\ r.cmd \in Sendable \cup {"v"}
        /\ r.cmd = "v" => r.content = <<>>
        /\ r.cmd = "z" => AreMetrics(r.content)
        /\ r.cmd \in WithContent => \E p \in Nat : ContentIsAt(r.cmd, r.content, keys, p, r.read - 1)

ReadingOK(r, keys, n) ==
    /\ n \in Nat
    /\ r \in Readings /\ r.read <= n
    /\ r.state # "END" => r.read = n /\ r.todo = "none"
    /\ r.state = "END" => r.read \in 1 .. n
    /\ LettersRead(r, keys, n)
    /\ ToSend(r, keys)

-----------------------------------------------------------------------------
(* Folds as they are used here.                                            *)

KeyAfter(given, r, key) == OnKey(r, key)
AtFirst(given) == NothingRead
StaysOK(given, r, keys, n) == ReadingOK(r, keys, n)
Reading == INSTANCE Folding WITH Op <- KeyAfter, Base <- AtFirst, Holds <- StaysOK

NoName(text) == <<>>
AreNames(text, names, metrics, n) == names \in Seq(Range(METRICS))
Naming == INSTANCE Folding WITH Op <- AddNamed, Base <- NoName, Holds <- AreNames

LEMMA readCommandsFolds == ASSUME NEW keys PROVE readCommands(keys) = Reading!Fold({}, keys)
BY DEF readCommands, AtFirst, KeyAfter, Reading!Fold, FoldLeft, MapThenFoldSet,
       Reading!FoldLeft, Reading!MapThenFoldSet, Reading!Max, Max

LEMMA NamedFolds == ASSUME NEW text PROVE Named(text) = Naming!Fold(text, METRICS)
BY DEF Named, NoName, Naming!Fold, FoldLeft, MapThenFoldSet,
       Naming!FoldLeft, Naming!MapThenFoldSet, Naming!Max, Max

LEMMA NamedType ==
    ASSUME NEW text
    PROVE  Named(text) \in Seq(Range(METRICS))
<1>0. METRICS \in Seq(Nat)
    BY ConsoleAssumption
<1>1. AreNames(text, NoName(text), METRICS, 0)
    BY DEF AreNames, NoName
<1>2. \A names : \A n \in 1 .. Len(METRICS) :
        AreNames(text, names, METRICS, n - 1) => AreNames(text, AddNamed(text, names, METRICS[n]), METRICS, n)
    BY <1>0 DEF AreNames, AddNamed, Range
<1>3. AreNames(text, Naming!Fold(text, METRICS), METRICS, Len(METRICS))
    BY <1>0, <1>1, <1>2, Naming!FoldInduction
<1> QED
    BY <1>3, NamedFolds DEF AreNames

-----------------------------------------------------------------------------
(* One key.                                                                *)

\* The keys that mean something are all different.
LEMMA KeyOfOne ==
    /\ DOMAIN KeyOf = {"t", "e", "f", "m", "z", "M", "v", "h", "q"}
    /\ \A letter \in DOMAIN KeyOf : KeyOf[letter] \in Int /\ KeyOf[letter] # LF
BY DEF KeyOf, LF

LEMMA KeysApart == \A one, other \in DOMAIN KeyOf : KeyOf[one] = KeyOf[other] => one = other
BY DEF KeyOf

\* What a key within a line does.
LEMMA InLineCases ==
    ASSUME NEW r \in Readings, NEW key \in Int, r.state # "END"
    PROVE  \/ /\ r.state \in {"START", "SPACE"} /\ key = DASH
              /\ InLine(r, key) = To(r, "GUION")
           \/ r.state = "START" /\ InLine(r, key) = To(r, "SPACE")
           \/ r.state = "SPACE" /\ InLine(r, key) = [r EXCEPT !.spaces = @ + 1]
           \/ /\ r.state = "GUION"
              /\ \E letter \in DOMAIN KeyOf :
                    /\ KeyOf[letter] = key
                    /\ InLine(r, key) = [r EXCEPT !.cmd = letter, !.state = AfterLetter(letter)]
           \/ r.state = "VERSION" /\ InLine(r, key) = Send(r, "v", <<>>)
           \/ r.state = "HELP" /\ InLine(r, key) = To(r, "END")
           \/ r.state = "QUIT" /\ InLine(r, key) = [To(r, "END") EXCEPT !.todo = "quit"]
           \/ r.state = "LETTER" /\ key = SPACE /\ InLine(r, key) = To(r, "WORD")
           \/ r.state = "WORD" /\ InLine(r, key) = Word(r, key)
           \/ r.state = "LINE" /\ InLine(r, key) = [r EXCEPT !.content = Append(@, key)]
           \/ r.state = "LINE" /\ InLine(r, key) = To(r, "TOO_LONG")
           \/ r.state \in {"TOO_LONG", "SKIP"} /\ InLine(r, key) = r
           \/ InLine(r, key) = To(r, "SKIP")
           \/ InLine(r, key) = To(r, "ERROR")
<1> DEFINE letters == {letter \in DOMAIN KeyOf : KeyOf[letter] = key}
<1>1. CASE r.state = "START"
    BY <1>1 DEF InLine
<1>2. CASE r.state = "SPACE"
    BY <1>2 DEF InLine
<1>3. CASE r.state = "GUION"
    BY <1>3 DEF InLine
<1>4. CASE r.state = "VERSION"
    BY <1>4 DEF InLine
<1>5. CASE r.state \in {"HELP", "QUIT"}
    BY <1>5 DEF InLine
<1>6. CASE r.state \in {"LETTER", "WORD"}
    BY <1>6 DEF InLine
<1>7. CASE r.state = "LINE"
    BY <1>7 DEF InLine
<1>8. CASE r.state \in {"TOO_LONG", "SKIP", "ERROR"}
    BY <1>8 DEF InLine
<1> QED
    BY <1>1, <1>2, <1>3, <1>4, <1>5, <1>6, <1>7, <1>8 DEF Readings, States

\* What the end of a line does.
LEMMA AtLineEndCases ==
    ASSUME NEW r \in Readings, r.state # "END"
    PROVE  \/ /\ r.state = "LINE" /\ r.cmd = "z"
              /\ AtLineEnd(r) = Send(r, "z", Named(r.content))
           \/ /\ r.state = "LINE" /\ r.cmd # "z"
              /\ AtLineEnd(r) = Send(r, r.cmd, r.content)
           \/ r.state = "LETTER" /\ AtLineEnd(r) = Send(r, "z", AllMetrics)
           \/ r.state = "VERSION" /\ AtLineEnd(r) = Send(r, "v", <<>>)
           \/ r.state = "QUIT" /\ AtLineEnd(r) = [To(r, "END") EXCEPT !.todo = "quit"]
           \/ r.state = "TOO_LONG" /\ AtLineEnd(r) = To(r, "ERROR")
           \/ AtLineEnd(r) = To(r, "END")
<1>1. CASE r.state = "LINE"
    BY <1>1 DEF AtLineEnd
<1>2. CASE r.state \in {"LETTER", "VERSION", "QUIT"}
    BY <1>2 DEF AtLineEnd
<1>3. CASE r.state = "TOO_LONG"
    BY <1>3 DEF AtLineEnd
<1>4. CASE r.state \notin {"LINE", "LETTER", "VERSION", "QUIT", "TOO_LONG"}
    BY <1>4 DEF AtLineEnd
<1> QED
    BY <1>1, <1>2, <1>3, <1>4

\* A reading that is over is not changed.
LEMMA OnKeyEnded ==
    ASSUME NEW r, NEW keys, NEW n \in Nat \ {0}, ReadingOK(r, keys, n - 1), NEW key, r.state = "END"
    PROVE  ReadingOK(OnKey(r, key), keys, n)
<1>1. OnKey(r, key) = r
    BY DEF OnKey
<1>2. n \in Nat /\ n - 1 \in Nat
    OBVIOUS
<1> QED
    BY <1>1, <1>2 DEF ReadingOK, LettersRead, ToSend, Readings

\* The key that is read is counted.
Counted(r) == [r EXCEPT !.read = @ + 1]

LEMMA CountedFields ==
    ASSUME NEW r \in Readings
    PROVE  /\ Counted(r) \in Readings /\ Counted(r).read = r.read + 1
           /\ Counted(r).state = r.state /\ Counted(r).cmd = r.cmd
           /\ Counted(r).content = r.content /\ Counted(r).todo = r.todo
BY DEF Counted, Readings

\* As long as a reading is not over there is nothing to do.
LEMMA OnKeyGoesOn ==
    ASSUME NEW keys \in Seq(Int), NEW n \in 1 .. Len(keys), NEW next \in Readings,
           next.todo = "none", next.read = n - 1, next.state # "END", LettersRead(next, keys, n)
    PROVE  ReadingOK(Counted(next), keys, n)
<1>1. n \in Nat /\ n >= 1 /\ Counted(next).read = n
    BY CountedFields
<1>2. LettersRead(Counted(next), keys, n)
    BY CountedFields DEF LettersRead
<1>3. ToSend(Counted(next), keys)
    BY CountedFields DEF ToSend
<1> QED
    BY <1>1, <1>2, <1>3, CountedFields DEF ReadingOK

LEMMA OnKeyEnds ==
    ASSUME NEW keys \in Seq(Int), NEW n \in 1 .. Len(keys), NEW next \in Readings,
           next.read = n - 1, next.state = "END", ToSend(Counted(next), keys)
    PROVE  ReadingOK(Counted(next), keys, n)
<1>1. n \in Nat /\ n >= 1 /\ Counted(next).read = n
    BY CountedFields
<1>2. LettersRead(Counted(next), keys, n)
    BY CountedFields DEF LettersRead
<1> QED
    BY <1>1, <1>2, CountedFields DEF ReadingOK

LEMMA ToFields ==
    ASSUME NEW r \in Readings, NEW state \in States
    PROVE  /\ To(r, state) \in Readings /\ To(r, state).read = r.read
           /\ To(r, state).state = state /\ To(r, state).cmd = r.cmd
           /\ To(r, state).content = r.content /\ To(r, state).todo = r.todo
BY DEF To, Readings

LEMMA SendFields ==
    ASSUME NEW r \in Readings, NEW cmd \in DOMAIN KeyOf, NEW content \in Seq(Int), r.todo = "none"
    PROVE  /\ Send(r, cmd, content) \in Readings /\ Send(r, cmd, content).read = r.read
           /\ Send(r, cmd, content).state = "END" /\ Send(r, cmd, content).cmd = cmd
           /\ Send(r, cmd, content).content = content
BY DEF Send, Readings, States

LEMMA WordStarts ==
    ASSUME NEW keys \in Seq(Int), NEW n \in 1 .. Len(keys), NEW cmd \in DOMAIN KeyOf,
           n - 1 >= 2, keys[n - 2] = KeyOf[cmd], keys[n - 1] = SPACE, keys[n] # LF
    PROVE  ContentIsAt(cmd, <<keys[n]>>, keys, n, n)
<1>1. n \in Nat /\ n >= 3 /\ SPACE # LF /\ KeyOf[cmd] # LF
    <2>1. SPACE # LF
        BY DEF SPACE, LF
    <2>2. KeyOf[cmd] # LF
        BY ONLY cmd \in DOMAIN KeyOf, KeyOfOne, Zenon
    <2>3. n \in Nat /\ n >= 3
        OBVIOUS
    <2> QED
        BY <2>1, <2>2, <2>3
<1>2. <<keys[n]>> = SubSeq(keys, n, n)
    BY <1>1
<1>3. \A i \in n - 2 .. n : i = n - 2 \/ i = n - 1 \/ i = n
    BY <1>1
<1> QED
    BY <1>1, <1>2, <1>3 DEF ContentIsAt

LEMMA PieceIs ==
    ASSUME NEW s \in Seq(Int), NEW a \in Nat \ {0}, NEW b \in Nat, b <= Len(s)
    PROVE  /\ SubSeq(s, a, b) \in Seq(Int)
           /\ Len(SubSeq(s, a, b)) = (IF a <= b THEN b - a + 1 ELSE 0)
           /\ \A i \in 1 .. b - a + 1 : SubSeq(s, a, b)[i] = s[a + i - 1]
<1>1. \A i \in a .. b : s[i] \in Int
    OBVIOUS
<1> QED
    BY <1>1, SubSeqProperties

LEMMA OneMore ==
    ASSUME NEW keys \in Seq(Int), NEW n \in 1 .. Len(keys), NEW p \in 1 .. n
    PROVE  /\ Append(SubSeq(keys, p, n - 1), keys[n]) = SubSeq(keys, p, n)
           /\ Len(SubSeq(keys, p, n - 1)) = n - p
<1> DEFINE s == SubSeq(keys, p, n - 1)
           t == SubSeq(keys, p, n)
<1>0. /\ n \in Nat /\ p \in Nat /\ p >= 1 /\ p <= n /\ p \in Nat \ {0}
      /\ n - 1 \in Nat /\ n - 1 <= Len(keys) /\ n <= Len(keys)
    OBVIOUS
<1>1. /\ s \in Seq(Int) /\ Len(s) = n - p /\ \A i \in 1 .. n - p : s[i] = keys[p + i - 1]
      /\ t \in Seq(Int) /\ Len(t) = n - p + 1 /\ \A i \in 1 .. n - p + 1 : t[i] = keys[p + i - 1]
    <2>1. /\ s \in Seq(Int) /\ Len(s) = (IF p <= n - 1 THEN n - 1 - p + 1 ELSE 0)
          /\ \A i \in 1 .. n - 1 - p + 1 : s[i] = keys[p + i - 1]
        BY <1>0, PieceIs, Zenon
    <2>2. /\ t \in Seq(Int) /\ Len(t) = (IF p <= n THEN n - p + 1 ELSE 0)
          /\ \A i \in 1 .. n - p + 1 : t[i] = keys[p + i - 1]
        BY <1>0, PieceIs, Zenon
    <2> HIDE DEF s, t
    <2>3. n - 1 - p + 1 = n - p
        BY <1>0
    <2> QED
        BY <1>0, <2>1, <2>2, <2>3
<1>2. PICK key \in Int : key = keys[n] /\ t[n - p + 1] = key
    BY <1>1
<1> HIDE DEF s, t
<1> DEFINE u == Append(s, key)
<1>3. /\ u \in Seq(Int) /\ Len(u) = Len(s) + 1
      /\ \A i \in 1 .. Len(s) : u[i] = s[i]
      /\ u[Len(s) + 1] = key
    <2>1. s \in Seq(Int)
        BY <1>1
    <2> QED
        BY ONLY <2>1, AppendProperties, key \in Int
<1> HIDE DEF u
<1>4. \A i \in 1 .. Len(t) : u[i] = t[i]
    <2>1. \A i \in 1 .. n - p : u[i] = t[i]
        BY <1>0, <1>1, <1>3
    <2>2. u[n - p + 1] = t[n - p + 1]
        BY <1>0, <1>1, <1>2, <1>3
    <2>3. \A i \in 1 .. Len(t) : i \in 1 .. n - p \/ i = n - p + 1
        BY <1>0, <1>1
    <2> QED
        BY <2>1, <2>2, <2>3
<1>5. u = t
    BY <1>0, <1>1, <1>3, <1>4, SeqEqual
<1> QED
    BY <1>1, <1>2, <1>5 DEF s, t, u

LEMMA LineGoesOn ==
    ASSUME NEW keys \in Seq(Int), NEW n \in 1 .. Len(keys), NEW cmd, NEW content, NEW p,
           ContentIsAt(cmd, content, keys, p, n - 1), keys[n] # LF
    PROVE  ContentIsAt(cmd, Append(content, keys[n]), keys, p, n)
<1>1. p \in Nat /\ n \in Nat /\ p >= 3 /\ p <= n - 1
    BY DEF ContentIsAt
<1>2. Append(SubSeq(keys, p, n - 1), keys[n]) = SubSeq(keys, p, n)
    BY <1>1, OneMore
<1>3. \A i \in p - 2 .. n : i \in p - 2 .. n - 1 \/ i = n
    BY <1>1
<1> QED
    BY <1>1, <1>2, <1>3 DEF ContentIsAt

\* What is sent needs no more than what is sent for.
LEMMA OnKeySends ==
    ASSUME NEW keys \in Seq(Int), NEW n \in 1 .. Len(keys), NEW r \in Readings,
           r.todo = "none", r.read = n - 1, NEW cmd \in Sendable \cup {"v"}, NEW content \in Seq(Int),
           cmd = "v" => content = <<>>,
           cmd = "z" => AreMetrics(content),
           cmd \in WithContent => \E p \in Nat : ContentIsAt(cmd, content, keys, p, n - 1)
    PROVE  ReadingOK(Counted(Send(r, cmd, content)), keys, n)
<1> DEFINE next == Send(r, cmd, content)
<1>1. cmd \in DOMAIN KeyOf
    BY KeyOfOne DEF Sendable, WithContent
<1>2. /\ next \in Readings /\ next.read = n - 1 /\ next.state = "END"
      /\ next.cmd = cmd /\ next.content = content
    BY <1>1, SendFields
<1> HIDE DEF next
<1>3. Counted(next).read - 1 = n - 1 /\ Counted(next).cmd = cmd /\ Counted(next).content = content
    BY <1>2, CountedFields
<1>4. ToSend(Counted(next), keys)
    BY <1>3 DEF ToSend
<1> QED
    BY <1>2, <1>4, OnKeyEnds DEF next

LEMMA OnKeySilent ==
    ASSUME NEW keys \in Seq(Int), NEW n \in 1 .. Len(keys), NEW next \in Readings,
           next.read = n - 1, next.state = "END", next.todo # "send"
    PROVE  ReadingOK(Counted(next), keys, n)
<1>1. ToSend(Counted(next), keys)
    BY CountedFields DEF ToSend
<1> QED
    BY <1>1, OnKeyEnds

\* States in which nothing is remembered of the letters.
LEMMA OnKeyTo ==
    ASSUME NEW keys \in Seq(Int), NEW n \in 1 .. Len(keys), NEW r \in Readings,
           r.todo = "none", r.read = n - 1,
           NEW state \in States \ {"LETTER", "WORD", "LINE"}
    PROVE  ReadingOK(Counted(To(r, state)), keys, n)
<1>1. /\ To(r, state) \in Readings /\ To(r, state).read = n - 1 /\ To(r, state).todo = "none"
      /\ To(r, state).state = state
    BY ToFields
<1>2. CASE state = "END"
    BY <1>1, <1>2, OnKeySilent
<1>3. CASE state # "END"
    BY <1>1, <1>3, OnKeyGoesOn DEF LettersRead
<1> QED
    BY <1>2, <1>3

LEMMA QuitFields ==
    ASSUME NEW r \in Readings
    PROVE  LET q == [To(r, "END") EXCEPT !.todo = "quit"]
           IN  q \in Readings /\ q.read = r.read /\ q.state = "END" /\ q.todo = "quit"
BY DEF To, Readings, States

Lettered(r, letter) == [r EXCEPT !.cmd = letter, !.state = AfterLetter(letter)]

LEMMA LetterFields ==
    ASSUME NEW r \in Readings, NEW letter \in DOMAIN KeyOf
    PROVE  /\ Lettered(r, letter) \in Readings /\ Lettered(r, letter).read = r.read
           /\ Lettered(r, letter).todo = r.todo /\ Lettered(r, letter).cmd = letter
           /\ Lettered(r, letter).state = AfterLetter(letter)
<1>1. AfterLetter(letter) \in States
    BY DEF AfterLetter, States
<1> QED
    BY <1>1 DEF Readings, Lettered

LEMMA SpaceFields ==
    ASSUME NEW r \in Readings, NEW next, next = [r EXCEPT !.spaces = @ + 1]
    PROVE  next \in Readings /\ next.read = r.read /\ next.todo = r.todo /\ next.state = r.state
<1>1. r.spaces + 1 \in Nat
    BY DEF Readings
<1> QED
    BY <1>1 DEF Readings

LEMMA WordFields ==
    ASSUME NEW r \in Readings, NEW key \in Int
    PROVE  /\ Word(r, key) \in Readings /\ Word(r, key).read = r.read /\ Word(r, key).todo = r.todo
           /\ Word(r, key).cmd = r.cmd /\ Word(r, key).state = "LINE" /\ Word(r, key).content = <<key>>
<1>1. <<key>> \in Seq(Int) /\ "LINE" \in States
    BY DEF States
<1> QED
    BY <1>1 DEF Readings, Word

LEMMA AppendFields ==
    ASSUME NEW r \in Readings, NEW key \in Int
    PROVE  LET q == [r EXCEPT !.content = Append(@, key)]
           IN  /\ q \in Readings /\ q.read = r.read /\ q.todo = r.todo /\ q.cmd = r.cmd
               /\ q.state = r.state /\ q.content = Append(r.content, key)
<1>1. Append(r.content, key) \in Seq(Int)
    BY AppendProperties DEF Readings
<1> QED
    BY <1>1 DEF Readings

LEMMA InLineOK ==
    ASSUME NEW keys \in Seq(Int), NEW n \in 1 .. Len(keys), NEW r, ReadingOK(r, keys, n - 1),
           r.state # "END", NEW key \in Int, key = keys[n], key # LF
    PROVE  ReadingOK(Counted(InLine(r, key)), keys, n)
<1> DEFINE next == InLine(r, key)
<1> SUFFICES ReadingOK(Counted(next), keys, n)
    OBVIOUS
<1> HIDE DEF next
<1>1. /\ r \in Readings /\ r.todo = "none" /\ r.read = n - 1 /\ key \in Int
      /\ n \in Nat /\ n >= 1 /\ LettersRead(r, keys, n - 1)
    BY DEF ReadingOK
<1>2. \A state \in States \ {"LETTER", "WORD", "LINE"} : next = To(r, state) => ReadingOK(Counted(next), keys, n)
    BY <1>1, OnKeyTo
<1>3. CASE r.state = "SPACE" /\ next = [r EXCEPT !.spaces = @ + 1]
    <2>1. next \in Readings /\ next.read = r.read /\ next.todo = "none" /\ next.state = "SPACE"
        BY <1>1, <1>3, SpaceFields
    <2> QED
        BY <1>1, <2>1, OnKeyGoesOn DEF LettersRead
<1>4. ASSUME NEW letter \in DOMAIN KeyOf, KeyOf[letter] = key,
             next = Lettered(r, letter)
      PROVE  ReadingOK(Counted(next), keys, n)
    <2>1. /\ next \in Readings /\ next.read = n - 1 /\ next.todo = "none" /\ next.cmd = letter
          /\ next.state = AfterLetter(letter)
        BY ONLY <1>1, <1>4, LetterFields
    <2>2. /\ AfterLetter(letter) \in {"HELP", "VERSION", "QUIT", "LETTER"}
          /\ AfterLetter(letter) = "LETTER" => letter \in Sendable
        BY KeyOfOne DEF AfterLetter, Sendable, WithContent
    <2>3. LettersRead(next, keys, n)
        BY <1>1, <1>4, <2>1, <2>2 DEF LettersRead
    <2> QED
        BY <1>1, <2>1, <2>2, <2>3, OnKeyGoesOn
<1>5. CASE next = Send(r, "v", <<>>)
    <2>1. "v" \in Sendable \cup {"v"} /\ <<>> \in Seq(Int) /\ "v" # "z" /\ "v" \notin WithContent
        BY DEF WithContent
    <2>2. ReadingOK(Counted(Send(r, "v", <<>>)), keys, n)
        BY <1>1, <2>1, OnKeySends
    <2> QED
        BY <1>5, <2>2
<1>6. CASE next = [To(r, "END") EXCEPT !.todo = "quit"]
    <2>1. next \in Readings /\ next.read = n - 1 /\ next.state = "END" /\ next.todo # "send"
        BY <1>1, <1>6, QuitFields
    <2> QED
        BY <1>1, <2>1, OnKeySilent
<1>7. CASE r.state = "LETTER" /\ key = SPACE /\ next = To(r, "WORD")
    <2>1. /\ next \in Readings /\ next.read = n - 1 /\ next.todo = "none" /\ next.state = "WORD"
          /\ next.cmd = r.cmd
        BY <1>1, <1>7, ToFields DEF States
    <2>2. r.cmd \in Sendable /\ n - 1 >= 1 /\ keys[n - 1] = KeyOf[r.cmd]
        BY <1>1, <1>7 DEF LettersRead
    <2>3. LettersRead(next, keys, n)
        BY <1>1, <1>7, <2>1, <2>2 DEF LettersRead
    <2> QED
        BY <1>1, <2>1, <2>3, OnKeyGoesOn
<1>8. CASE r.state = "WORD" /\ next = Word(r, key)
    <2>1. /\ next \in Readings /\ next.read = n - 1 /\ next.todo = "none" /\ next.state = "LINE"
          /\ next.cmd = r.cmd /\ next.content = <<key>>
        BY <1>1, <1>8, WordFields
    <2>2. /\ r.cmd \in Sendable /\ n - 1 >= 2 /\ keys[(n - 1) - 1] = KeyOf[r.cmd] /\ keys[n - 1] = SPACE
        BY <1>1, <1>8 DEF LettersRead
    <2>3. r.cmd \in DOMAIN KeyOf /\ (n - 1) - 1 = n - 2
        BY <1>1, <2>2, KeyOfOne, SMTT(30) DEF Sendable, WithContent
    <2>4. ContentIsAt(r.cmd, <<key>>, keys, n, n)
        BY <2>2, <2>3, WordStarts
    <2>5. LettersRead(next, keys, n)
        BY <1>1, <2>1, <2>2, <2>4 DEF LettersRead
    <2> QED
        BY <1>1, <2>1, <2>5, OnKeyGoesOn
<1>9. CASE r.state = "LINE" /\ next = [r EXCEPT !.content = Append(@, key)]
    <2>1. /\ next \in Readings /\ next.read = n - 1 /\ next.todo = "none" /\ next.state = "LINE"
          /\ next.cmd = r.cmd /\ next.content = Append(r.content, key)
        BY <1>1, <1>9, AppendFields
    <2>2. r.cmd \in Sendable
        BY <1>1, <1>9 DEF LettersRead
    <2>3. PICK p \in Nat : ContentIsAt(r.cmd, r.content, keys, p, n - 1)
        BY <1>1, <1>9 DEF LettersRead
    <2>4. ContentIsAt(r.cmd, Append(r.content, key), keys, p, n)
        BY <2>3, LineGoesOn
    <2>5. LettersRead(next, keys, n)
        BY <2>1, <2>2, <2>4 DEF LettersRead
    <2> QED
        BY <1>1, <2>1, <2>5, OnKeyGoesOn
<1>10. CASE r.state \in {"TOO_LONG", "SKIP"} /\ next = r
    <2>1. LettersRead(r, keys, n)
        BY <1>10 DEF LettersRead
    <2> QED
        BY <1>1, <1>10, <2>1, OnKeyGoesOn
<1>11. {"GUION", "SPACE", "END", "TOO_LONG", "SKIP", "ERROR"} \subseteq States \ {"LETTER", "WORD", "LINE"}
    BY DEF States
<1>12. QED
    BY <1>1, <1>2, <1>3, <1>4, <1>5, <1>6, <1>7, <1>8, <1>9, <1>10, <1>11, InLineCases, Zenon DEF next, Lettered

\* Names are keys, and a sequence of some of them is one of keys.
LEMMA NamesAreKeys ==
    /\ Seq(Range(METRICS)) \subseteq Seq(Int)
    /\ AllMetrics \in Seq(Range(METRICS))
<1>1. Range(METRICS) \subseteq Int
    BY ConsoleAssumption DEF Range
<1>2. Seq(Range(METRICS)) \subseteq Seq(Int)
    BY <1>1, SeqMonotonic
<1>3. Len(METRICS) >= 1 /\ Len(METRICS) \in Nat
    BY ConsoleAssumption
<1>4. METRICS \in Seq(Range(METRICS)) /\ \A i \in 1 .. Len(METRICS) - 1 : METRICS[i] \in Range(METRICS)
    BY <1>3, ConsoleAssumption DEF Range
<1>5. SubSeq(METRICS, 1, Len(METRICS) - 1) \in Seq(Range(METRICS))
    BY <1>3, <1>4, SubSeqProperties
<1> QED
    BY <1>2, <1>5 DEF AllMetrics, Front

LEMMA AtLineEndOK ==
    ASSUME NEW keys \in Seq(Int), NEW n \in 1 .. Len(keys), NEW r, ReadingOK(r, keys, n - 1),
           r.state # "END"
    PROVE  ReadingOK(Counted(AtLineEnd(r)), keys, n)
<1> DEFINE next == AtLineEnd(r)
<1> SUFFICES ReadingOK(Counted(next), keys, n)
    OBVIOUS
<1> HIDE DEF next
<1>1. /\ r \in Readings /\ r.todo = "none" /\ r.read = n - 1
      /\ n \in Nat /\ n >= 1 /\ LettersRead(r, keys, n - 1)
    BY DEF ReadingOK
<1>2. /\ "v" \in Sendable \cup {"v"} /\ <<>> \in Seq(Int) /\ "v" # "z"
      /\ "v" \notin WithContent /\ "z" \notin WithContent /\ "z" \in Sendable \cup {"v"}
    BY DEF WithContent, Sendable
<1>3. CASE r.state = "LINE" /\ r.cmd = "z" /\ next = Send(r, "z", Named(r.content))
    <2>1. AreMetrics(Named(r.content)) /\ Named(r.content) \in Seq(Int)
        BY <1>1, NamedType, NamesAreKeys DEF AreMetrics, Readings
    <2>2. ReadingOK(Counted(Send(r, "z", Named(r.content))), keys, n)
        BY <1>1, <1>2, <2>1, OnKeySends
    <2> QED
        BY <1>3, <2>2
<1>4. CASE r.state = "LINE" /\ r.cmd # "z" /\ next = Send(r, r.cmd, r.content)
    <2> DEFINE cmd == r.cmd
               content == r.content
    <2>1. /\ cmd \in Sendable \cup {"v"} /\ content \in Seq(Int) /\ cmd # "z" /\ cmd # "v"
          /\ \E p \in Nat : ContentIsAt(cmd, content, keys, p, n - 1)
        BY <1>1, <1>4 DEF LettersRead, Sendable, WithContent, Readings
    <2> HIDE DEF cmd, content
    <2>2. ReadingOK(Counted(Send(r, cmd, content)), keys, n)
        BY <1>1, <2>1, OnKeySends
    <2> QED
        BY <1>4, <2>2 DEF cmd, content
<1>5. CASE next = Send(r, "z", AllMetrics)
    <2>1. AreMetrics(AllMetrics) /\ AllMetrics \in Seq(Int)
        BY NamesAreKeys DEF AreMetrics
    <2>2. ReadingOK(Counted(Send(r, "z", AllMetrics)), keys, n)
        BY <1>1, <1>2, <2>1, OnKeySends
    <2> QED
        BY <1>5, <2>2
<1>6. CASE next = Send(r, "v", <<>>)
    <2>1. ReadingOK(Counted(Send(r, "v", <<>>)), keys, n)
        BY <1>1, <1>2, OnKeySends
    <2> QED
        BY <1>6, <2>1
<1>7. CASE next = [To(r, "END") EXCEPT !.todo = "quit"]
    <2>1. next \in Readings /\ next.read = n - 1 /\ next.state = "END" /\ next.todo # "send"
        BY <1>1, <1>7, QuitFields
    <2> QED
        BY <1>1, <2>1, OnKeySilent
<1>8. CASE next = To(r, "END") \/ next = To(r, "ERROR")
    <2>1. {"END", "ERROR"} \subseteq States \ {"LETTER", "WORD", "LINE"}
        BY DEF States
    <2> QED
        BY <1>1, <1>8, <2>1, OnKeyTo
<1> QED
    BY <1>1, <1>3, <1>4, <1>5, <1>6, <1>7, <1>8, AtLineEndCases, Zenon DEF next

LEMMA OnKeyOK ==
    ASSUME NEW keys \in Seq(Int), NEW n \in 1 .. Len(keys), NEW r, ReadingOK(r, keys, n - 1)
    PROVE  ReadingOK(OnKey(r, keys[n]), keys, n)
<1>1. CASE r.state = "END"
    BY <1>1, OnKeyEnded
<1>2. CASE r.state # "END"
    <2>1. PICK key \in Int : key = keys[n]
        OBVIOUS
    <2>2. CASE key = LF
        <3>1. OnKey(r, key) = Counted(AtLineEnd(r))
            BY <1>2, <2>2 DEF OnKey, Counted
        <3> QED
            BY <1>2, <2>1, <3>1, AtLineEndOK
    <2>3. CASE key # LF
        <3>1. OnKey(r, key) = Counted(InLine(r, key))
            BY <1>2, <2>3 DEF OnKey, Counted
        <3>2. ReadingOK(Counted(InLine(r, key)), keys, n)
            BY <1>2, <2>1, <2>3, InLineOK
        <3> QED
            BY <2>1, <3>1, <3>2
    <2> QED
        BY <2>2, <2>3
<1> QED
    BY <1>1, <1>2

\* Whatever is typed, readCommands has read no more than there is of it, and when it
\* has something to send, it is a command that may be sent, with no content, the
\* names of metrics, or the rest of a line from after the letter of that command.
THEOREM WhatIsRead ==
    ASSUME NEW keys \in Seq(Int)
    PROVE  ReadingOK(readCommands(keys), keys, Len(keys))
<1>1. StaysOK({}, AtFirst({}), keys, 0)
    <2>1. /\ NothingRead \in Readings /\ NothingRead.state = "START" /\ NothingRead.todo = "none"
          /\ NothingRead.read = 0
        BY DEF NothingRead, Readings, States
    <2> QED
        BY <2>1 DEF StaysOK, AtFirst, ReadingOK, LettersRead, ToSend
<1>2. \A r : \A n \in 1 .. Len(keys) :
        StaysOK({}, r, keys, n - 1) => StaysOK({}, KeyAfter({}, r, keys[n]), keys, n)
    BY OnKeyOK DEF StaysOK, KeyAfter
<1>3. StaysOK({}, Reading!Fold({}, keys), keys, Len(keys))
    BY <1>1, <1>2, Reading!FoldInduction
<1> QED
    BY <1>3, readCommandsFolds DEF StaysOK

-----------------------------------------------------------------------------
(* What is read of a line is what it says.                                 *)

\* The first line ends at f, has n spaces in front, and l is the letter behind the first
\* of its other keys, if there is one.
Shaped(keys, n, l, f) ==
    /\ f \in 1 .. Len(keys) /\ keys[f] = LF /\ \A i \in 1 .. f - 1 : keys[i] # LF
    /\ n \in 0 .. f - 1 /\ (\A i \in 1 .. n : keys[i] = SPACE) /\ keys[n + 1] # SPACE
    /\ \/ l \in DOMAIN KeyOf /\ keys[n + 2] = KeyOf[l]
       \/ l = "none" /\ \A letter \in DOMAIN KeyOf : keys[n + 2] # KeyOf[letter]

\* No line that begins with these k keys is a command.
Astray(keys, n, l, k) ==
    \/ k > MAXSPACES + 1 /\ n > MAXSPACES + 1
    \/ k > n /\ keys[n + 1] # DASH
    \/ k > n + 1 /\ l = "none"
    \/ k > n + 2 /\ keys[n + 3] # SPACE

\* The reading of a command without a content is over at the space.
Over(r, n, l) ==
    /\ r.state = "END" /\ r.read = n + 3
    /\ l = "v" => r.todo = "send" /\ r.cmd = "v" /\ r.content = <<>>
    /\ l # "v" => r.todo # "send"

\* How far a content has been read.
ContentRead(r, keys, n, k) ==
    IF k = n + 3 THEN r.state = "WORD"
    ELSE IF k - (n + 3) <= BUFF_SIZE THEN r.state = "LINE" /\ r.content = SubSeq(keys, n + 4, k)
    ELSE r.state = "TOO_LONG"

\* What has been read after k keys of the line.
InFirst(r, keys, n, l, k) ==
    IF Astray(keys, n, l, k) THEN r.state \in {"ERROR", "SKIP"}
    ELSE /\ k = 0 => r.state = "START" /\ r.spaces = 0
         /\ k \in 1 .. n => r.state = "SPACE" /\ r.spaces = k - 1
         /\ k = n + 1 => r.state = "GUION"
         /\ k = n + 2 => r.state = AfterLetter(l) /\ r.cmd = l
         /\ k > n + 2 /\ l \notin Sendable => Over(r, n, l)
         /\ k > n + 2 /\ l \in Sendable => r.cmd = l /\ ContentRead(r, keys, n, k)

\* One more key that is not the end of the line, at each of the places it may have.
LEMMA InSpaces ==
    ASSUME NEW keys, NEW n \in Nat, NEW l, NEW k \in 1 .. n, NEW r, ~Astray(keys, n, l, k),
           r.state = "SPACE", r.spaces = k - 1
    PROVE  InFirst(r, keys, n, l, k)
<1>1. k \in Nat /\ k # 0 /\ k # n + 1 /\ k # n + 2 /\ ~(k > n + 2)
    OBVIOUS
<1> QED
    BY <1>1 DEF InFirst

LEMMA FirstAstray ==
    ASSUME NEW keys \in Seq(Int), NEW n \in Nat, NEW l, NEW k \in Nat \ {0}, NEW r \in Readings, NEW key \in Int,
           Astray(keys, n, l, k - 1), r.state \in {"ERROR", "SKIP"}
    PROVE  InFirst(Counted(InLine(r, key)), keys, n, l, k)
<1>1. Astray(keys, n, l, k)
    BY ConsoleAssumption DEF Astray
<1>2. InLine(r, key).state = "SKIP" /\ InLine(r, key) \in Readings
    BY DEF InLine, To, Readings, States
<1>3. Counted(InLine(r, key)).state = "SKIP"
    BY <1>2, CountedFields
<1> QED
    BY <1>1, <1>3 DEF InFirst

LEMMA FirstSpaces ==
    ASSUME NEW keys \in Seq(Int), NEW n \in Nat, NEW l, NEW k \in 1 .. n, NEW r \in Readings,
           ~Astray(keys, n, l, k - 1), InFirst(r, keys, n, l, k - 1)
    PROVE  InFirst(Counted(InLine(r, SPACE)), keys, n, l, k)
<1> DEFINE q == InLine(r, SPACE)
<1>0. MAXSPACES \in Nat /\ SPACE # DASH
    BY ConsoleAssumption DEF SPACE, DASH
<1>1. /\ k - 1 = 0 => r.state = "START" /\ r.spaces = 0
      /\ k - 1 # 0 => r.state = "SPACE" /\ r.spaces = k - 2
    BY DEF InFirst
<1>2. Astray(keys, n, l, k) <=> k > MAXSPACES + 1
    BY <1>0 DEF Astray
<1>3. CASE k > MAXSPACES + 1
    <2>1. r.state = "SPACE" /\ ~ (r.spaces < MAXSPACES)
        BY <1>0, <1>1, <1>3
    <2>2. q = To(r, "ERROR")
        BY <1>0, <2>1 DEF InLine
    <2>3. Counted(q).state = "ERROR"
        BY <2>2 DEF Counted, To, Readings
    <2> QED
        BY <1>2, <1>3, <2>3 DEF InFirst
<1>4. CASE k <= MAXSPACES + 1 /\ k = 1
    <2>1. q = To(r, "SPACE")
        BY <1>0, <1>1, <1>4 DEF InLine
    <2>2. Counted(q).state = "SPACE" /\ Counted(q).spaces = k - 1
        BY <1>1, <1>4, <2>1 DEF Counted, To, Readings
    <2>3. ~Astray(keys, n, l, k)
        BY <1>0, <1>2, <1>4
    <2> QED
        BY <2>2, <2>3, InSpaces
<1>5. CASE k <= MAXSPACES + 1 /\ k # 1
    <2>1. r.state = "SPACE" /\ r.spaces < MAXSPACES /\ r.spaces = k - 2
        BY <1>0, <1>1, <1>5
    <2>2. q = [r EXCEPT !.spaces = @ + 1]
        BY <1>0, <2>1 DEF InLine
    <2>3. Counted(q).state = "SPACE" /\ Counted(q).spaces = k - 1
        BY <2>1, <2>2 DEF Counted, Readings
    <2>4. ~Astray(keys, n, l, k)
        BY <1>0, <1>2, <1>5
    <2> QED
        BY <2>3, <2>4, InSpaces
<1> QED
    BY <1>0, <1>3, <1>4, <1>5

LEMMA FirstHyphen ==
    ASSUME NEW keys \in Seq(Int), NEW n \in Nat, NEW l, NEW r \in Readings, NEW key \in Int, key = keys[n + 1],
           key # SPACE, ~Astray(keys, n, l, n), InFirst(r, keys, n, l, n)
    PROVE  InFirst(Counted(InLine(r, key)), keys, n, l, n + 1)
<1> DEFINE q == InLine(r, key)
<1>0. MAXSPACES \in Nat
    BY ConsoleAssumption
<1>1. r.state \in {"START", "SPACE"}
    BY DEF InFirst
<1>2. Astray(keys, n, l, n + 1) <=> key # DASH
    BY <1>0 DEF Astray
<1>3. q = To(r, IF key = DASH THEN "GUION" ELSE "ERROR")
    BY <1>1 DEF InLine
<1>4. Counted(q).state = IF key = DASH THEN "GUION" ELSE "ERROR"
    BY <1>3 DEF Counted, To, Readings
<1> QED
    BY <1>2, <1>4 DEF InFirst

LEMMA FirstLetter ==
    ASSUME NEW keys \in Seq(Int), NEW n \in Nat, NEW l, NEW r \in Readings, NEW key \in Int, key = keys[n + 2],
           \/ l \in DOMAIN KeyOf /\ keys[n + 2] = KeyOf[l]
           \/ l = "none" /\ \A letter \in DOMAIN KeyOf : keys[n + 2] # KeyOf[letter],
           ~Astray(keys, n, l, n + 1), InFirst(r, keys, n, l, n + 1)
    PROVE  InFirst(Counted(InLine(r, key)), keys, n, l, n + 2)
<1> DEFINE q == InLine(r, key)
           letters == {letter \in DOMAIN KeyOf : KeyOf[letter] = key}
<1>0. MAXSPACES \in Nat
    BY ConsoleAssumption
<1>1. r.state = "GUION"
    BY DEF InFirst
<1>2. Astray(keys, n, l, n + 2) <=> l = "none"
    BY <1>0 DEF Astray
<1>3. CASE l = "none"
    <2>1. letters = {}
        BY <1>3, KeyOfOne
    <2>2. q = To(r, "ERROR")
        BY <1>1, <2>1 DEF InLine
    <2>3. Counted(q).state = "ERROR"
        BY <2>2 DEF Counted, To, Readings
    <2> QED
        BY <1>2, <1>3, <2>3 DEF InFirst
<1>4. CASE l # "none"
    <2>1. letters = {l}
        BY <1>4, KeysApart
    <2>2. q = Lettered(r, l)
        BY <1>1, <2>1 DEF InLine, Lettered
    <2>3. l \in DOMAIN KeyOf
        BY <1>4
    <2>4. Counted(q).state = AfterLetter(l) /\ Counted(q).cmd = l
        BY <2>2, <2>3, LetterFields, CountedFields
    <2> QED
        BY <1>2, <1>4, <2>4 DEF InFirst
<1> QED
    BY <1>3, <1>4

LEMMA FirstSpace ==
    ASSUME NEW keys \in Seq(Int), NEW n \in Nat, NEW l \in DOMAIN KeyOf \cup {"none"}, NEW r \in Readings,
           NEW key \in Int, key = keys[n + 3], r.todo = "none", r.read = n + 2,
           ~Astray(keys, n, l, n + 2), InFirst(r, keys, n, l, n + 2)
    PROVE  InFirst(Counted(InLine(r, key)), keys, n, l, n + 3)
<1> DEFINE q == InLine(r, key)
<1>0. MAXSPACES \in Nat
    BY ConsoleAssumption
<1>1. r.state = AfterLetter(l) /\ r.cmd = l
    BY DEF InFirst
<1>2. (Astray(keys, n, l, n + 3) <=> key # SPACE) /\ l # "none"
    BY <1>0 DEF Astray
<1>3. CASE key # SPACE
    <2>1. q = To(r, "ERROR")
        BY <1>1, <1>3 DEF InLine, AfterLetter
    <2>2. Counted(q).state = "ERROR"
        BY <2>1 DEF Counted, To, Readings
    <2> QED
        BY <1>2, <1>3, <2>2 DEF InFirst
<1>4. CASE key = SPACE /\ l \in Sendable
    <2>1. r.state = "LETTER"
        BY <1>1, <1>4 DEF AfterLetter, Sendable, WithContent
    <2>2. q = To(r, "WORD")
        BY <1>4, <2>1 DEF InLine
    <2>3. Counted(q).state = "WORD" /\ Counted(q).cmd = l
        BY <1>1, <2>2 DEF Counted, To, Readings
    <2> QED
        BY <1>2, <1>4, <2>3 DEF InFirst, ContentRead
<1>5. CASE key = SPACE /\ l \notin Sendable
    <2>1. l \in {"v", "h", "q"}
        BY <1>2, <1>5 DEF Sendable, WithContent, KeyOf
    <2>2. Over(Counted(q), n, l)
        <3>1. CASE l = "v"
            <4>1. q = Send(r, "v", <<>>)
                BY <1>1, <1>5, <3>1 DEF InLine, AfterLetter
            <4>2. q = [r EXCEPT !.state = "END", !.cmd = "v", !.content = <<>>, !.todo = "send"]
                BY <4>1 DEF Send
            <4> QED
                BY <3>1, <4>2 DEF Counted, Readings, Over
        <3>2. CASE l = "h"
            <4>1. q = To(r, "END")
                BY <1>1, <1>5, <3>2 DEF InLine, AfterLetter
            <4> QED
                BY <3>2, <4>1 DEF Counted, To, Readings, Over
        <3>3. CASE l = "q"
            <4>1. q = [To(r, "END") EXCEPT !.todo = "quit"]
                BY <1>1, <1>5, <3>3 DEF InLine, AfterLetter
            <4> QED
                BY <3>3, <4>1 DEF Counted, To, Readings, Over
        <3> QED
            BY <2>1, <3>1, <3>2, <3>3
    <2> QED
        BY <1>2, <1>5, <2>2 DEF InFirst
<1> QED
    BY <1>3, <1>4, <1>5

LEMMA FirstContent ==
    ASSUME NEW keys \in Seq(Int), NEW n \in Nat, NEW l \in Sendable, NEW k \in 1 .. Len(keys), NEW r \in Readings,
           NEW key \in Int, key = keys[k], k > n + 3,
           ~Astray(keys, n, l, k - 1), InFirst(r, keys, n, l, k - 1)
    PROVE  InFirst(Counted(InLine(r, key)), keys, n, l, k)
<1> DEFINE q == InLine(r, key)
<1>0. MAXSPACES \in Nat /\ BUFF_SIZE \in Nat /\ BUFF_SIZE >= 1 /\ k \in Nat
    BY ConsoleAssumption
<1>1. r.cmd = l /\ ContentRead(r, keys, n, k - 1)
    BY <1>0 DEF InFirst
<1>2. ~Astray(keys, n, l, k)
    BY <1>0 DEF Astray
<1>3. /\ Len(SubSeq(keys, n + 4, k - 1)) = k - (n + 4)
      /\ SubSeq(keys, n + 4, k) = Append(SubSeq(keys, n + 4, k - 1), keys[k])
    BY OneMore
<1>4. Counted(q).cmd = l /\ ContentRead(Counted(q), keys, n, k)
    <2>1. CASE k = n + 4
        <3>1. q = Word(r, key)
            <4>1. r.state = "WORD"
                BY <1>1, <2>1 DEF ContentRead
            <4> QED
                BY <4>1 DEF InLine
        <3>2. Counted(q).cmd = l /\ Counted(q).state = "LINE" /\ Counted(q).content = <<key>>
            <4> DEFINE w == Word(r, key)
            <4>1. w \in Readings /\ w.cmd = r.cmd /\ w.state = "LINE" /\ w.content = <<key>>
                BY WordFields
            <4> HIDE DEF w
            <4>2. Counted(w).cmd = l /\ Counted(w).state = "LINE" /\ Counted(w).content = <<key>>
                BY <1>1, <4>1, CountedFields
            <4> QED
                BY <3>1, <4>2 DEF w
        <3>3. SubSeq(keys, n + 4, k) = <<key>>
            <4> DEFINE before == SubSeq(keys, n + 4, k - 1)
            <4>1. before \in Seq(Int) /\ Len(before) = 0
                BY <1>3, <2>1, SubSeqProperties
            <4>2. SubSeq(keys, n + 4, k) = Append(before, key)
                BY <1>3
            <4> HIDE DEF before
            <4>3. before = <<>>
                BY <4>1
            <4> QED
                BY <4>2, <4>3
        <3>4. k # n + 3 /\ k - (n + 3) <= BUFF_SIZE
            BY <1>0, <2>1
        <3> HIDE DEF q
        <3> QED
            BY <3>2, <3>3, <3>4 DEF ContentRead
    <2>2. CASE k > n + 4 /\ k - (n + 3) <= BUFF_SIZE
        <3>1. r.state = "LINE" /\ r.content = SubSeq(keys, n + 4, k - 1)
            BY <1>0, <1>1, <2>2 DEF ContentRead
        <3>2. Len(r.content) < BUFF_SIZE
            BY <1>0, <1>3, <2>2, <3>1
        <3>3. q = [r EXCEPT !.content = Append(@, key)]
            BY <3>1, <3>2 DEF InLine
        <3>4. Counted(q).cmd = l /\ Counted(q).state = "LINE" /\ Counted(q).content = Append(r.content, key)
            <4> DEFINE w == [r EXCEPT !.content = Append(@, key)]
            <4>1. w \in Readings /\ w.cmd = r.cmd /\ w.state = r.state /\ w.content = Append(r.content, key)
                BY AppendFields
            <4> HIDE DEF w
            <4>2. Counted(w).cmd = l /\ Counted(w).state = "LINE" /\ Counted(w).content = Append(r.content, key)
                BY <1>1, <3>1, <4>1, CountedFields
            <4> QED
                BY <3>3, <4>2 DEF w
        <3>5. Counted(q).content = SubSeq(keys, n + 4, k)
            BY <1>3, <3>1, <3>4
        <3> QED
            BY <1>0, <2>2, <3>4, <3>5 DEF ContentRead
    <2>3. CASE k > n + 4 /\ k - (n + 4) = BUFF_SIZE
        <3>1. r.state = "LINE" /\ r.content = SubSeq(keys, n + 4, k - 1)
            BY <1>0, <1>1, <2>3 DEF ContentRead
        <3>2. ~(Len(r.content) < BUFF_SIZE)
            BY <1>0, <1>3, <2>3, <3>1
        <3>3. q = To(r, "TOO_LONG")
            BY <3>1, <3>2 DEF InLine
        <3>4. Counted(q).cmd = l /\ Counted(q).state = "TOO_LONG"
            BY <1>1, <3>3, ToFields, CountedFields DEF States
        <3> QED
            BY <1>0, <2>3, <3>4 DEF ContentRead
    <2>4. CASE k - (n + 4) > BUFF_SIZE
        <3>1. r.state = "TOO_LONG"
            BY <1>0, <1>1, <2>4 DEF ContentRead
        <3>2. q = r
            BY <3>1 DEF InLine
        <3>3. Counted(q).cmd = l /\ Counted(q).state = "TOO_LONG"
            BY <1>1, <3>1, <3>2, CountedFields
        <3> QED
            BY <1>0, <2>4, <3>3 DEF ContentRead
    <2> QED
        BY <1>0, <2>1, <2>2, <2>3, <2>4
<1> QED
    BY <1>0, <1>2, <1>4 DEF InFirst

LEMMA FirstGoesOn ==
    ASSUME NEW keys \in Seq(Int), NEW n \in Nat, NEW l \in DOMAIN KeyOf \cup {"none"}, NEW f, Shaped(keys, n, l, f),
           NEW k \in 1 .. f - 1, NEW r, ReadingOK(r, keys, k - 1), InFirst(r, keys, n, l, k - 1)
    PROVE  InFirst(OnKey(r, keys[k]), keys, n, l, k)
<1> PICK key \in Int : key = keys[k]
    BY DEF Shaped
<1>0. /\ MAXSPACES \in Nat /\ k \in Nat /\ k >= 1 /\ r \in Readings /\ f \in Nat
      /\ k \in 1 .. Len(keys)
    BY ConsoleAssumption DEF Shaped, ReadingOK
<1>1. CASE r.state = "END"
    <2>1. OnKey(r, key) = r
        BY <1>1 DEF OnKey
    <2>2. ~Astray(keys, n, l, k - 1) /\ k - 1 > n + 2 /\ l \notin Sendable /\ Over(r, n, l)
        <3>1. "END" \notin {"START", "SPACE", "GUION", "ERROR", "SKIP", "WORD", "LINE", "TOO_LONG"}
            OBVIOUS
        <3>2. AfterLetter(l) # "END"
            BY DEF AfterLetter
        <3>3. ~ContentRead(r, keys, n, k - 1)
            BY <1>1, <3>1 DEF ContentRead
        <3> QED
            BY <1>0, <1>1, <3>1, <3>2, <3>3 DEF InFirst
    <2>3. ~Astray(keys, n, l, k)
        BY <1>0, <2>2 DEF Astray
    <2>4. InFirst(r, keys, n, l, k)
        BY <1>0, <2>2, <2>3 DEF InFirst
    <2> QED
        BY <2>1, <2>4
<1>2. CASE r.state # "END"
    <2>1. r.read = k - 1 /\ r.todo = "none"
        BY <1>2 DEF ReadingOK
    <2>2. OnKey(r, key) = Counted(InLine(r, key))
        <3>1. key # LF
            BY <1>0 DEF Shaped
        <3> QED
            BY <1>2, <3>1 DEF OnKey, Counted
    <2>3. InFirst(Counted(InLine(r, key)), keys, n, l, k)
        <3>1. CASE Astray(keys, n, l, k - 1)
            <4>1. r.state \in {"ERROR", "SKIP"}
                BY <3>1 DEF InFirst
            <4> QED
                BY <1>0, <3>1, <4>1, FirstAstray
        <3>2. CASE ~Astray(keys, n, l, k - 1) /\ k \in 1 .. n
            <4>1. key = SPACE
                BY <3>2 DEF Shaped
            <4> QED
                BY <1>0, <3>2, <4>1, FirstSpaces
        <3>3. CASE ~Astray(keys, n, l, k - 1) /\ k = n + 1
            <4>1. key # SPACE /\ k - 1 = n
                BY <3>3 DEF Shaped
            <4> QED
                BY <1>0, <3>3, <4>1, FirstHyphen
        <3>4. CASE ~Astray(keys, n, l, k - 1) /\ k = n + 2
            <4>1. k - 1 = n + 1
                BY <3>4
            <4> QED
                BY <1>0, <3>4, <4>1, FirstLetter DEF Shaped
        <3>5. CASE ~Astray(keys, n, l, k - 1) /\ k = n + 3
            <4>1. k - 1 = n + 2
                BY <3>5
            <4> QED
                BY <1>0, <2>1, <3>5, <4>1, FirstSpace
        <3>6. CASE ~Astray(keys, n, l, k - 1) /\ k > n + 3
            <4>1. l \in Sendable
                BY <1>0, <1>2, <3>6 DEF InFirst, Over
            <4> QED
                BY <1>0, <3>6, <4>1, FirstContent
        <3> QED
            BY <1>0, <3>1, <3>2, <3>3, <3>4, <3>5, <3>6
    <2> QED
        BY <2>2, <2>3
<1> QED
    BY <1>1, <1>2

\* What a line of m keys says, that has n spaces in front and l for a letter.
Meant(keys, n, l, m) ==
    LET text == SubSeq(keys, n + 4, m) IN
    IF Astray(keys, n, l, m) \/ m < n + 2 THEN NoCommand
    ELSE IF l = "v" THEN Command("v", <<>>)
    ELSE IF l = "z" /\ m = n + 2 THEN Command("z", AllMetrics)
    ELSE IF ~(l \in Sendable /\ m - (n + 3) \in 1 .. BUFF_SIZE) THEN NoCommand
    ELSE IF l # "z" THEN Command(l, text)
    ELSE IF Named(text) = <<>> THEN NoCommand ELSE Command("z", Named(text))

\* A reading that is over has just this to send, if anything.
Agrees(r, command) ==
    IF command = NoCommand THEN r.todo # "send"
    ELSE r.todo = "send" /\ r.cmd = command.cmd /\ r.content = command.content

\* The line has more content than a command may.
TooLong(keys, n, l, f) == ~Astray(keys, n, l, f - 1) /\ l \in Sendable /\ n + 3 + BUFF_SIZE < f - 1

\* Where there is nothing to send the end of the line is the end.
LEMMA EndsQuietly ==
    ASSUME NEW r \in Readings, r.todo = "none",
           \/ r.state \in {"START", "SPACE", "GUION", "HELP", "QUIT", "WORD", "SKIP", "ERROR"}
           \/ r.state = "LETTER" /\ r.cmd # "z"
    PROVE  LET q == OnKey(r, LF) IN q.state = "END" /\ q.todo # "send" /\ q.read = r.read + 1
<1> DEFINE next == AtLineEnd(r)
<1>1. CASE r.state = "QUIT"
    <2>1. next = [To(r, "END") EXCEPT !.todo = "quit"]
        BY <1>1 DEF AtLineEnd
    <2>2. OnKey(r, LF) = Counted(next)
        BY <1>1 DEF OnKey, Counted
    <2> QED
        BY <2>1, <2>2 DEF Counted, To, Readings
<1>2. CASE r.state # "QUIT"
    <2>1. next = To(r, "END")
        BY <1>2 DEF AtLineEnd
    <2>2. OnKey(r, LF) = Counted(next)
        BY DEF OnKey, Counted
    <2> QED
        BY <2>1, <2>2 DEF Counted, To, Readings
<1> QED
    BY <1>1, <1>2

LEMMA EndsSending ==
    ASSUME NEW r \in Readings, r.state # "END", NEW cmd, NEW content, AtLineEnd(r) = Send(r, cmd, content)
    PROVE  LET q == OnKey(r, LF)
           IN  /\ q.state = "END" /\ q.read = r.read + 1
               /\ IF cmd = "z" /\ content = <<>> THEN q.todo # "send"
                  ELSE q.todo = "send" /\ q.cmd = cmd /\ q.content = content
<1>1. OnKey(r, LF) = Counted(Send(r, cmd, content))
    BY DEF OnKey, Counted
<1> QED
    BY <1>1 DEF Counted, Send, Readings

\* The end of the line.
LEMMA FirstEnds ==
    ASSUME NEW keys \in Seq(Int), NEW n \in Nat, NEW l \in DOMAIN KeyOf \cup {"none"}, NEW f, Shaped(keys, n, l, f),
           NEW r, ReadingOK(r, keys, f - 1), InFirst(r, keys, n, l, f - 1)
    PROVE  IF TooLong(keys, n, l, f) THEN OnKey(r, LF).state = "ERROR"
           ELSE /\ OnKey(r, LF).state = "END" /\ Agrees(OnKey(r, LF), Meant(keys, n, l, f - 1))
                /\ \/ OnKey(r, LF).read = f
                   \/ /\ n + 3 < f /\ l \in {"v", "h", "q"} /\ OnKey(r, LF).read = n + 3
                      /\ keys[n + 1] = DASH /\ keys[n + 2] = KeyOf[l] /\ keys[n + 3] = SPACE
<1> DEFINE q == OnKey(r, LF)
           m == f - 1
           text == SubSeq(keys, n + 4, m)
           Left == /\ n + 3 < f /\ l \in {"v", "h", "q"} /\ q.read = n + 3
                   /\ keys[n + 1] = DASH /\ keys[n + 2] = KeyOf[l] /\ keys[n + 3] = SPACE
           Goal == IF TooLong(keys, n, l, f) THEN q.state = "ERROR"
                   ELSE q.state = "END" /\ Agrees(q, Meant(keys, n, l, m)) /\ (q.read = f \/ Left)
<1> SUFFICES Goal
    OBVIOUS
<1>0. /\ MAXSPACES \in Nat /\ BUFF_SIZE \in Nat /\ BUFF_SIZE >= 1 /\ f \in Nat /\ m \in Nat /\ f = m + 1
      /\ r \in Readings
    BY ConsoleAssumption DEF Shaped, ReadingOK
<1>1. r.state # "END" => r.read + 1 = f /\ r.todo = "none"
    BY <1>0 DEF ReadingOK
<1> HIDE DEF m
<1>2. InFirst(r, keys, n, l, m)
    BY DEF m
<1>3. TooLong(keys, n, l, f) <=> ~Astray(keys, n, l, m) /\ l \in Sendable /\ n + 3 + BUFF_SIZE < m
    BY DEF TooLong, m
<1> DEFINE Quiet == \/ r.state \in {"START", "SPACE", "GUION", "HELP", "QUIT", "WORD", "SKIP", "ERROR"}
                    \/ r.state = "LETTER" /\ r.cmd # "z"
<1>4. ASSUME Quiet, ~TooLong(keys, n, l, f), Meant(keys, n, l, m) = NoCommand
      PROVE  Goal
    <2>1. r.state # "END"
        BY <1>4
    <2>2. q.state = "END" /\ q.todo # "send" /\ q.read = r.read + 1
        BY <1>0, <1>1, <1>4, <2>1, EndsQuietly
    <2>3. Agrees(q, Meant(keys, n, l, m))
        BY <1>4, <2>2 DEF Agrees
    <2> QED
        BY <1>1, <1>4, <2>1, <2>2, <2>3
<1>5. ASSUME NEW cmd, NEW content, AtLineEnd(r) = Send(r, cmd, content), r.state # "END",
             ~TooLong(keys, n, l, f), cmd # "none", ~(cmd = "z" /\ content = <<>>),
             Meant(keys, n, l, m) = Command(cmd, content)
      PROVE  Goal
    <2>1. q.state = "END" /\ q.read = r.read + 1 /\ q.todo = "send" /\ q.cmd = cmd /\ q.content = content
        BY <1>0, <1>5, EndsSending
    <2>2. Agrees(q, Meant(keys, n, l, m))
        BY <1>5, <2>1 DEF Agrees, Command, NoCommand
    <2> QED
        BY <1>1, <1>5, <2>1, <2>2
<1> HIDE DEF Goal, Quiet
<1>6. CASE Astray(keys, n, l, m)
    <2>1. Quiet
        BY <1>2, <1>6 DEF InFirst, Quiet
    <2>2. ~TooLong(keys, n, l, f) /\ Meant(keys, n, l, m) = NoCommand
        BY <1>3, <1>6 DEF Meant
    <2> QED
        BY <1>4, <2>1, <2>2
<1>7. CASE ~Astray(keys, n, l, m) /\ m < n + 2
    <2>1. Quiet
        BY <1>0, <1>2, <1>7 DEF InFirst, Quiet
    <2>2. ~TooLong(keys, n, l, f) /\ Meant(keys, n, l, m) = NoCommand
        BY <1>0, <1>3, <1>7 DEF Meant
    <2> QED
        BY <1>4, <2>1, <2>2
<1>8. CASE ~Astray(keys, n, l, m) /\ m = n + 2
    <2>1. r.state = AfterLetter(l) /\ r.cmd = l /\ l # "none"
        BY <1>0, <1>2, <1>8 DEF InFirst, Astray
    <2>2. ~TooLong(keys, n, l, f)
        BY <1>0, <1>3, <1>8
    <2>3. CASE l = "v"
        <3>1. AtLineEnd(r) = Send(r, "v", <<>>) /\ r.state # "END"
            BY <2>1, <2>3 DEF AtLineEnd, AfterLetter
        <3>2. Meant(keys, n, l, m) = Command("v", <<>>)
            BY <1>0, <1>8, <2>3 DEF Meant
        <3> QED
            BY <1>5, <2>2, <3>1, <3>2
    <2>4. CASE l = "z"
        <3>1. AtLineEnd(r) = Send(r, "z", AllMetrics) /\ r.state # "END"
            BY <2>1, <2>4 DEF AtLineEnd, AfterLetter
        <3>2. Meant(keys, n, l, m) = Command("z", AllMetrics)
            BY <1>0, <1>8, <2>4 DEF Meant
        <3>3. AllMetrics # <<>>
            <4>1. AllMetrics = SubSeq(METRICS, 1, Len(METRICS) - 1)
                BY DEF AllMetrics, Front
            <4>2. Len(SubSeq(METRICS, 1, Len(METRICS) - 1)) = Len(METRICS) - 1 /\ Len(METRICS) \in Nat
                BY ConsoleAssumption, SubSeqProperties
            <4>3. Len(AllMetrics) >= 1
                BY <4>1, <4>2, ConsoleAssumption
            <4> HIDE DEF AllMetrics
            <4> QED
                BY <4>3
        <3> QED
            BY <1>5, <2>2, <3>1, <3>2, <3>3
    <2>5. CASE l # "v" /\ l # "z"
        <3>1. Quiet
            BY <2>1, <2>5 DEF AfterLetter, Quiet
        <3>2. Meant(keys, n, l, m) = NoCommand
            <4>1. ~(m - (n + 3) \in 1 .. BUFF_SIZE)
                BY <1>0, <1>8
            <4> QED
                BY <1>8, <2>5, <4>1 DEF Meant
        <3> QED
            BY <1>4, <2>2, <3>1, <3>2
    <2> QED
        BY <2>3, <2>4, <2>5
<1>9. CASE ~Astray(keys, n, l, m) /\ m > n + 2 /\ l \notin Sendable
    <2>1. Over(r, n, l)
        BY <1>0, <1>2, <1>9 DEF InFirst
    <2>2. q = r
        BY <2>1 DEF OnKey, Over
    <2>3. keys[n + 1] = DASH /\ keys[n + 3] = SPACE /\ l # "none"
        BY <1>0, <1>9 DEF Astray
    <2>4. l \in {"v", "h", "q"} /\ keys[n + 2] = KeyOf[l]
        BY <1>9, <2>3 DEF Sendable, WithContent, KeyOf, Shaped
    <2>5. Left
        BY <1>0, <1>9, <2>1, <2>2, <2>3, <2>4 DEF Over
    <2>6. Meant(keys, n, l, m) = IF l = "v" THEN Command("v", <<>>) ELSE NoCommand
        BY <1>0, <1>9, <2>4 DEF Meant, Sendable
    <2>7. Agrees(q, Meant(keys, n, l, m))
        <3>1. CASE l = "v"
            BY <2>1, <2>2, <2>6, <3>1 DEF Agrees, Over, Command, NoCommand
        <3>2. CASE l # "v"
            BY <2>1, <2>2, <2>6, <3>2 DEF Agrees, Over
        <3> QED
            BY <3>1, <3>2
    <2> QED
        BY <1>3, <1>9, <2>1, <2>2, <2>5, <2>7 DEF Goal, Over
<1>10. CASE ~Astray(keys, n, l, m) /\ m > n + 2 /\ l \in Sendable
    <2>1. r.cmd = l /\ ContentRead(r, keys, n, m) /\ l # "v" /\ l # "none"
        BY <1>0, <1>2, <1>10 DEF InFirst, Sendable, WithContent
    <2>2. CASE m = n + 3
        <3>1. Quiet
            BY <2>1, <2>2 DEF ContentRead, Quiet
        <3>2. ~TooLong(keys, n, l, f)
            BY <1>0, <1>3, <2>2
        <3>3. Meant(keys, n, l, m) = NoCommand
            <4>1. ~(m - (n + 3) \in 1 .. BUFF_SIZE) /\ m # n + 2
                BY <1>0, <2>2
            <4> QED
                BY <1>10, <2>1, <4>1 DEF Meant
        <3> QED
            BY <1>4, <3>1, <3>2, <3>3
    <2>3. CASE m # n + 3 /\ m - (n + 3) <= BUFF_SIZE
        <3>1. r.state = "LINE" /\ r.content = text
            BY <1>0, <2>1, <2>3 DEF ContentRead
        <3>2. ~TooLong(keys, n, l, f)
            BY <1>0, <1>3, <2>3
        <3>3. m - (n + 3) \in 1 .. BUFF_SIZE /\ m # n + 2 /\ ~(m < n + 2)
            BY <1>0, <1>10, <2>3
        <3> HIDE DEF text
        <3>4. CASE l = "z"
            <4> DEFINE names == Named(text)
            <4>1. AtLineEnd(r) = Send(r, "z", names) /\ r.state # "END"
                BY <2>1, <3>1, <3>4 DEF AtLineEnd
            <4>2. Meant(keys, n, l, m) = IF names = <<>> THEN NoCommand ELSE Command("z", names)
                BY <1>10, <3>3, <3>4 DEF Meant, text
            <4> HIDE DEF names
            <4>3. CASE names # <<>>
                BY <1>5, <3>2, <4>1, <4>2, <4>3
            <4>4. CASE names = <<>>
                <5>1. q.state = "END" /\ q.read = r.read + 1 /\ q.todo # "send"
                    BY <1>0, <4>1, <4>4, EndsSending
                <5> QED
                    BY <1>1, <3>2, <4>1, <4>2, <4>4, <5>1 DEF Agrees, Goal
            <4> QED
                BY <4>3, <4>4
        <3>5. CASE l # "z"
            <4>1. AtLineEnd(r) = Send(r, l, text) /\ r.state # "END"
                BY <2>1, <3>1, <3>5 DEF AtLineEnd
            <4>2. Meant(keys, n, l, m) = Command(l, text)
                BY <1>10, <2>1, <3>3, <3>5 DEF Meant, text
            <4> QED
                BY <1>5, <2>1, <3>2, <3>5, <4>1, <4>2
        <3> QED
            BY <3>4, <3>5
    <2>4. CASE m - (n + 3) > BUFF_SIZE
        <3>1. r.state = "TOO_LONG"
            BY <1>0, <2>1, <2>4 DEF ContentRead
        <3>2. TooLong(keys, n, l, f)
            BY <1>0, <1>3, <1>10, <2>4
        <3>3. q = Counted(To(r, "ERROR"))
            BY <3>1 DEF OnKey, Counted, AtLineEnd
        <3>4. q.state = "ERROR"
            BY <1>0, <3>3 DEF Counted, To, Readings
        <3> QED
            BY <3>2, <3>4 DEF Goal
    <2> QED
        BY <1>0, <2>2, <2>3, <2>4
<1> QED
    BY <1>0, <1>6, <1>7, <1>8, <1>9, <1>10

\* What is true of the reading once the first line has ended.  One that was too long
\* takes the next line with it.
FirstOver(r, keys, n, l, f, k) ==
    IF TooLong(keys, n, l, f)
       THEN \/ r.state \in {"ERROR", "SKIP"} /\ \A i \in f + 1 .. k : keys[i] # LF
            \/ /\ r.state = "END" /\ r.todo # "send" /\ r.read \in f + 1 .. k
               /\ keys[r.read] = LF /\ \A i \in f + 1 .. r.read - 1 : keys[i] # LF
       ELSE /\ r.state = "END" /\ Agrees(r, Meant(keys, n, l, f - 1))
            /\ \/ r.read = f
               \/ /\ n + 3 < f /\ l \in {"v", "h", "q"} /\ r.read = n + 3
                  /\ keys[n + 1] = DASH /\ keys[n + 2] = KeyOf[l] /\ keys[n + 3] = SPACE

FirstRead(line, r, keys, k) ==
    /\ ReadingOK(r, keys, k)
    /\ IF k < line.end THEN InFirst(r, keys, line.spaces, line.letter, k)
       ELSE FirstOver(r, keys, line.spaces, line.letter, line.end, k)

Lining == INSTANCE Folding WITH Op <- KeyAfter, Base <- AtFirst, Holds <- FirstRead

LEMMA readCommandsLines == ASSUME NEW line, NEW keys PROVE readCommands(keys) = Lining!Fold(line, keys)
BY DEF readCommands, AtFirst, KeyAfter, Lining!Fold, FoldLeft, MapThenFoldSet,
       Lining!FoldLeft, Lining!MapThenFoldSet, Lining!Max, Max

LEMMA FirstStaysOver ==
    ASSUME NEW keys \in Seq(Int), NEW n, NEW l, NEW f \in Nat, NEW k \in Nat, k > f, k <= Len(keys),
           NEW r, ReadingOK(r, keys, k - 1), FirstOver(r, keys, n, l, f, k - 1)
    PROVE  FirstOver(OnKey(r, keys[k]), keys, n, l, f, k)
<1> PICK key \in Int : key = keys[k]
    OBVIOUS
<1> DEFINE q == OnKey(r, key)
<1>1. CASE r.state = "END"
    <2>1. q = r
        BY <1>1 DEF OnKey
    <2>2. FirstOver(r, keys, n, l, f, k)
        <3>1. CASE TooLong(keys, n, l, f)
            BY <1>1, <3>1 DEF FirstOver
        <3>2. CASE ~TooLong(keys, n, l, f)
            BY <3>2 DEF FirstOver
        <3> QED
            BY <3>1, <3>2
    <2> QED
        BY <2>1, <2>2
<1>2. CASE r.state # "END"
    <2>1. /\ TooLong(keys, n, l, f) /\ r.state \in {"ERROR", "SKIP"} /\ \A i \in f + 1 .. k - 1 : keys[i] # LF
        BY <1>2 DEF FirstOver
    <2>2. r.read = k - 1 /\ r.todo = "none" /\ r \in Readings
        BY <1>2 DEF ReadingOK
    <2>3. CASE key = LF
        <3>1. q.state = "END" /\ q.todo # "send" /\ q.read = k
            <4>1. OnKey(r, LF).state = "END" /\ OnKey(r, LF).todo # "send" /\ OnKey(r, LF).read = r.read + 1
                BY <2>1, <2>2, EndsQuietly
            <4> QED
                BY <2>2, <2>3, <4>1
        <3> HIDE DEF q
        <3>2. /\ q.read \in f + 1 .. k /\ keys[q.read] = LF
              /\ \A i \in f + 1 .. q.read - 1 : keys[i] # LF
            <4>1. \A i \in f + 1 .. k - 1 : keys[i] # LF
                BY <2>1
            <4>2. q.read = k /\ keys[k] = LF /\ k \in f + 1 .. k
                BY <2>3, <3>1
            <4> QED
                BY <4>1, <4>2
        <3>3. FirstOver(q, keys, n, l, f, k)
            BY <2>1, <3>1, <3>2 DEF FirstOver
        <3> QED
            BY <3>3 DEF q
    <2>4. CASE key # LF
        <3>1. q = Counted(InLine(r, key))
            BY <1>2, <2>4 DEF OnKey, Counted
        <3>2. InLine(r, key).state = "SKIP" /\ InLine(r, key) \in Readings
            BY <2>1, <2>2 DEF InLine, To, Readings, States
        <3>3. q.state = "SKIP"
            BY <3>1, <3>2, CountedFields
        <3>4. \A i \in f + 1 .. k : keys[i] # LF
            BY <2>1, <2>4
        <3> HIDE DEF q
        <3>5. FirstOver(q, keys, n, l, f, k)
            BY <2>1, <3>3, <3>4 DEF FirstOver
        <3> QED
            BY <3>5 DEF q
    <2> QED
        BY <2>3, <2>4
<1> QED
    BY <1>1, <1>2

\* Once the first line is there it is read for what it says.
THEOREM FirstIsRead ==
    ASSUME NEW keys \in Seq(Int), NEW n \in Nat, NEW l \in DOMAIN KeyOf \cup {"none"}, NEW f, Shaped(keys, n, l, f)
    PROVE  FirstOver(readCommands(keys), keys, n, l, f, Len(keys))
<1> DEFINE line == [spaces |-> n, letter |-> l, end |-> f]
<1>0. /\ f \in Nat /\ f >= 1 /\ f <= Len(keys) /\ Len(keys) \in Nat /\ keys[f] = LF /\ MAXSPACES \in Nat
      /\ line.spaces = n /\ line.letter = l /\ line.end = f
    <2>1. f \in Nat /\ f >= 1 /\ f <= Len(keys) /\ keys[f] = LF
        BY DEF Shaped
    <2>2. line.spaces = n /\ line.letter = l /\ line.end = f
        OBVIOUS
    <2> HIDE DEF line
    <2> QED
        BY <2>1, <2>2, ConsoleAssumption
<1> HIDE DEF line
<1>1. FirstRead(line, AtFirst(line), keys, 0)
    <2>1. /\ NothingRead \in Readings /\ NothingRead.state = "START" /\ NothingRead.todo = "none"
          /\ NothingRead.read = 0 /\ NothingRead.spaces = 0
        BY DEF NothingRead, Readings, States
    <2>2. ReadingOK(NothingRead, keys, 0)
        BY <2>1 DEF ReadingOK, LettersRead, ToSend
    <2>3. InFirst(NothingRead, keys, n, l, 0)
        BY <1>0, <2>1 DEF InFirst, Astray
    <2> QED
        BY <1>0, <2>2, <2>3 DEF FirstRead, AtFirst
<1>2. ASSUME NEW r, NEW k \in 1 .. Len(keys), FirstRead(line, r, keys, k - 1)
      PROVE  FirstRead(line, KeyAfter(line, r, keys[k]), keys, k)
    <2>1. ReadingOK(r, keys, k - 1) /\ k \in Nat
        BY <1>2 DEF FirstRead
    <2>2. ReadingOK(OnKey(r, keys[k]), keys, k)
        BY <2>1, OnKeyOK
    <2>3. CASE k < f
        <3>1. InFirst(r, keys, n, l, k - 1) /\ k \in 1 .. f - 1
            BY <1>0, <1>2, <2>1, <2>3 DEF FirstRead
        <3>2. InFirst(OnKey(r, keys[k]), keys, n, l, k)
            BY <2>1, <3>1, FirstGoesOn
        <3> QED
            BY <1>0, <2>2, <2>3, <3>2 DEF FirstRead, KeyAfter
    <2>4. CASE k = f
        <3>1. InFirst(r, keys, n, l, f - 1) /\ ReadingOK(r, keys, f - 1)
            BY <1>0, <1>2, <2>1, <2>4 DEF FirstRead
        <3> DEFINE q == OnKey(r, LF)
        <3>2. FirstOver(q, keys, n, l, f, f)
            <4>1. CASE TooLong(keys, n, l, f)
                <5>1. q.state = "ERROR"
                    BY <3>1, <4>1, FirstEnds
                <5>2. \A i \in f + 1 .. f : keys[i] # LF
                    BY <1>0
                <5> HIDE DEF q
                <5> QED
                    BY <4>1, <5>1, <5>2 DEF FirstOver
            <4>2. CASE ~TooLong(keys, n, l, f)
                <5>1. /\ q.state = "END" /\ Agrees(q, Meant(keys, n, l, f - 1))
                      /\ \/ q.read = f
                         \/ /\ n + 3 < f /\ l \in {"v", "h", "q"} /\ q.read = n + 3
                            /\ keys[n + 1] = DASH /\ keys[n + 2] = KeyOf[l] /\ keys[n + 3] = SPACE
                    BY <3>1, <4>2, FirstEnds
                <5> HIDE DEF q
                <5> QED
                    BY <4>2, <5>1, Zenon DEF FirstOver
            <4> QED
                BY <4>1, <4>2
        <3> QED
            BY <1>0, <2>2, <2>4, <3>2 DEF FirstRead, KeyAfter
    <2>5. CASE k > f
        <3>1. FirstOver(r, keys, n, l, f, k - 1)
            BY <1>0, <1>2, <2>1, <2>5 DEF FirstRead
        <3>2. FirstOver(OnKey(r, keys[k]), keys, n, l, f, k)
            BY <1>0, <2>1, <2>5, <3>1, FirstStaysOver
        <3> QED
            BY <1>0, <2>2, <2>5, <3>2 DEF FirstRead, KeyAfter
    <2> QED
        BY <1>0, <2>1, <2>3, <2>4, <2>5
<1>3. FirstRead(line, Lining!Fold(line, keys), keys, Len(keys))
    BY <1>1, <1>2, Lining!FoldInduction
<1>4. readCommands(keys) = Lining!Fold(line, keys)
    BY readCommandsLines
<1> QED
    BY <1>0, <1>3, <1>4 DEF FirstRead

LEMMA BeginsWith ==
    ASSUME NEW s \in Seq(Int), NEW a \in Int, NEW b \in Int
    PROVE  IsPrefix(<<a, b>>, s) <=> Len(s) >= 2 /\ s[1] = a /\ s[2] = b
<1> DEFINE t == <<a, b>>
<1>1. t \in Seq(Int) /\ Len(t) = 2 /\ t[1] = a /\ t[2] = b
    OBVIOUS
<1> HIDE DEF t
<1>2. SubSeq(t, 1, 2) \in Seq(Int) /\ Len(SubSeq(t, 1, 2)) = 2 /\ SubSeq(t, 1, 2)[1] = a /\ SubSeq(t, 1, 2)[2] = b
    BY <1>1, SubSeqProperties
<1>3. CASE Len(s) >= 2
    <2>1. SubSeq(s, 1, 2) \in Seq(Int) /\ Len(SubSeq(s, 1, 2)) = 2
          /\ SubSeq(s, 1, 2)[1] = s[1] /\ SubSeq(s, 1, 2)[2] = s[2]
        BY <1>3, SubSeqProperties
    <2>2. SubSeq(s, 1, 2) = SubSeq(t, 1, 2) <=> s[1] = a /\ s[2] = b
        <3>1. \A i \in 1 .. 2 : i = 1 \/ i = 2
            OBVIOUS
        <3>2. ASSUME s[1] = a, s[2] = b PROVE \A i \in 1 .. 2 : SubSeq(s, 1, 2)[i] = SubSeq(t, 1, 2)[i]
            BY <1>2, <2>1, <3>1, <3>2
        <3>3. ASSUME s[1] = a, s[2] = b PROVE SubSeq(s, 1, 2) = SubSeq(t, 1, 2)
            BY <1>2, <2>1, <3>2, <3>3, SeqEqual
        <3> QED
            BY <1>2, <2>1, <3>3
    <2>3. IsPrefix(t, s) <=> SubSeq(t, 1, 2) = SubSeq(s, 1, 2)
        BY <1>1, <1>3 DEF IsPrefix
    <2> QED
        BY <1>3, <2>2, <2>3 DEF t
<1>4. CASE ~(Len(s) >= 2)
    <2>1. ~IsPrefix(t, s)
        BY <1>1, <1>4 DEF IsPrefix
    <2> QED
        BY <1>4, <2>1 DEF t
<1> QED
    BY <1>3, <1>4

\* What the line says is what was meant.
LEMMA SpelledIs ==
    ASSUME NEW keys \in Seq(Int), NEW n \in Nat, NEW l \in DOMAIN KeyOf \cup {"none"}, NEW f, Shaped(keys, n, l, f)
    PROVE  Spelled(SubSeq(keys, 1, f - 1)) = Meant(keys, n, l, f - 1)
<1> DEFINE m == f - 1
           line == SubSeq(keys, 1, m)
           Count(i) == /\ \A j \in 1 .. i : line[j] = SPACE
                       /\ i < Len(line) => line[i + 1] # SPACE
           rest == SubSeq(line, n + 1, Len(line))
           says(letter) == IsPrefix(<<DASH, KeyOf[letter]>>, rest)
           alone  == Len(rest) = 2
           spaced == Len(rest) > 2 /\ rest[3] = SPACE
           text   == SubSeq(rest, 4, Len(rest))
           fits   == spaced /\ Len(text) \in 1 .. BUFF_SIZE
           options == {letter \in {"t", "e", "f", "m", "M"} : says(letter)}
<1> SUFFICES Spelled(line) = Meant(keys, n, l, m)
    OBVIOUS
<1>0. /\ f \in Nat /\ f >= 1 /\ f <= Len(keys) /\ n \in 0 .. m /\ m \in Nat /\ m + 1 = f /\ m <= Len(keys)
      /\ MAXSPACES \in Nat /\ BUFF_SIZE \in Nat
    BY ConsoleAssumption DEF Shaped
<1>1. line \in Seq(Int) /\ Len(line) = m /\ \A i \in 1 .. m : line[i] = keys[i]
    BY <1>0, SubSeqProperties
<1>2. (CHOOSE i \in 0 .. Len(line) : Count(i)) = n
    <2>1. Count(n) /\ n \in 0 .. Len(line)
        BY <1>0, <1>1 DEF Shaped
    <2>2. ASSUME NEW i \in 0 .. Len(line), Count(i) PROVE i = n
        <3>1. ~(i < n)
            BY <1>0, <1>1, <2>1, <2>2
        <3>2. ~(n < i)
            BY <1>0, <1>1, <2>1, <2>2
        <3> QED
            BY <1>0, <1>1, <3>1, <3>2
    <2> HIDE DEF Count, line
    <2> QED
        BY <2>1, <2>2
<1>3. /\ rest \in Seq(Int) /\ Len(rest) = m - n /\ \A i \in 1 .. m - n : rest[i] = keys[n + i]
    <2>1. Len(SubSeq(line, n + 1, m)) = m - n /\ SubSeq(line, n + 1, m) \in Seq(Int)
          /\ \A i \in 1 .. m - n : SubSeq(line, n + 1, m)[i] = line[n + i]
        <3> HIDE DEF line, m
        <3> QED
            BY <1>0, <1>1, SubSeqProperties
    <2>2. \A i \in 1 .. m - n : line[n + i] = keys[n + i]
        BY <1>0, <1>1
    <2> HIDE DEF line, m
    <2> QED
        BY <1>1, <2>1, <2>2 DEF rest
<1>4. text = SubSeq(keys, n + 4, m) /\ (m >= n + 3 => Len(text) = m - (n + 3))
    <2> DEFINE content == SubSeq(keys, n + 4, m)
    <2> HIDE DEF rest, line, m
    <2>1. /\ text \in Seq(Int) /\ Len(text) = (IF m >= n + 4 THEN m - n - 3 ELSE 0)
          /\ \A i \in 1 .. m - n - 3 : text[i] = rest[i + 3]
        <3>1. 4 \in Nat \ {0} /\ m - n \in Nat /\ m - n <= Len(rest) /\ rest \in Seq(Int)
            BY <1>0, <1>3
        <3>2. text = SubSeq(rest, 4, m - n)
            BY <1>3
        <3> HIDE DEF text
        <3>3. /\ text \in Seq(Int) /\ Len(text) = (IF 4 <= m - n THEN m - n - 4 + 1 ELSE 0)
              /\ \A i \in 1 .. m - n - 4 + 1 : text[i] = rest[4 + i - 1]
            <4> DEFINE piece == SubSeq(rest, 4, m - n)
            <4>1. /\ piece \in Seq(Int) /\ Len(piece) = (IF 4 <= m - n THEN m - n - 4 + 1 ELSE 0)
                  /\ \A i \in 1 .. m - n - 4 + 1 : piece[i] = rest[4 + i - 1]
                BY <3>1, PieceIs, Zenon
            <4>2. text = piece
                BY <3>2
            <4> HIDE DEF piece
            <4> QED
                BY <4>1, <4>2
        <3> QED
            BY <1>0, <3>3
    <2>2. /\ content \in Seq(Int) /\ Len(content) = (IF m >= n + 4 THEN m - n - 3 ELSE 0)
          /\ \A i \in 1 .. m - n - 3 : content[i] = keys[n + 3 + i]
        <3>1. /\ content \in Seq(Int) /\ Len(content) = (IF n + 4 <= m THEN m - (n + 4) + 1 ELSE 0)
              /\ \A i \in 1 .. m - (n + 4) + 1 : content[i] = keys[n + 4 + i - 1]
            <4>1. n + 4 \in Nat \ {0} /\ m \in Nat /\ m <= Len(keys)
                BY <1>0
            <4> QED
                BY <4>1, PieceIs, Zenon
        <3> HIDE DEF content
        <3> QED
            BY <1>0, <3>1
    <2>3. \A i \in 1 .. m - n - 3 : rest[i + 3] = keys[n + 3 + i]
        BY <1>0, <1>3
    <2> HIDE DEF text, content
    <2>4. \A i \in 1 .. Len(text) : text[i] = content[i]
        <3>1. \A i \in 1 .. m - n - 3 : text[i] = content[i]
            BY <2>1, <2>2, <2>3
        <3>2. 1 .. Len(text) \subseteq 1 .. m - n - 3
            <4>1. CASE m >= n + 4
                BY <2>1, <4>1
            <4>2. CASE ~(m >= n + 4)
                <5>1. Len(text) = 0
                    BY <2>1, <4>2
                <5> QED
                    BY <5>1
            <4> QED
                BY <4>1, <4>2
        <3> QED
            BY <3>1, <3>2
    <2>5. text = content
        BY <2>1, <2>2, <2>4, SeqEqual
    <2> QED
        BY <1>0, <2>1, <2>5 DEF content
<1>5. ASSUME NEW letter \in DOMAIN KeyOf
      PROVE  says(letter) <=> m >= n + 2 /\ keys[n + 1] = DASH /\ l = letter
    <2>1. DASH \in Int /\ KeyOf[letter] \in Int
        BY DEF DASH, KeyOf
    <2>2. says(letter) <=> Len(rest) >= 2 /\ rest[1] = DASH /\ rest[2] = KeyOf[letter]
        <3> HIDE DEF rest
        <3> QED
            BY <1>3, <2>1, BeginsWith
    <2>3. m >= n + 2 => rest[1] = keys[n + 1] /\ rest[2] = keys[n + 2]
        <3> HIDE DEF rest
        <3> QED
            BY <1>0, <1>3
    <2>4. keys[n + 2] = KeyOf[letter] <=> l = letter
        <3>1. KeyOf[letter] = keys[n + 2] => l = letter
            <4>1. CASE l \in DOMAIN KeyOf /\ keys[n + 2] = KeyOf[l]
                BY <4>1, KeysApart
            <4>2. CASE \A other \in DOMAIN KeyOf : keys[n + 2] # KeyOf[other]
                BY <4>2
            <4> QED
                BY <4>1, <4>2 DEF Shaped
        <3>2. l = letter => keys[n + 2] = KeyOf[letter]
            BY KeyOfOne DEF Shaped
        <3> QED
            BY <3>1, <3>2
    <2> HIDE DEF rest, says, m
    <2>5. CASE m >= n + 2
        <3>1. Len(rest) >= 2
            BY <1>0, <1>3, <2>5
        <3> QED
            BY <2>2, <2>3, <2>4, <2>5, <3>1
    <2>6. CASE ~(m >= n + 2)
        <3>1. ~(Len(rest) >= 2)
            BY <1>0, <1>3, <2>6
        <3> QED
            BY <2>2, <2>6, <3>1
    <2> QED
        BY <2>5, <2>6
<1> HIDE DEF m, line, rest, says, text, options
<1>6. alone <=> m = n + 2
    BY <1>0, <1>3
<1>7. spaced <=> m > n + 2 /\ keys[n + 3] = SPACE
    <2>1. m > n + 2 => Len(rest) > 2 /\ rest[3] = keys[n + 3]
        <3> SUFFICES ASSUME m > n + 2 PROVE Len(rest) > 2 /\ rest[3] = keys[n + 3]
            OBVIOUS
        <3>1. 3 \in 1 .. m - n /\ m - n > 2
            BY <1>0
        <3> QED
            BY <1>3, <3>1
    <2>2. ~(m > n + 2) => ~(Len(rest) > 2)
        BY <1>0, <1>3
    <2> QED
        BY <2>1, <2>2
<1> HIDE DEF alone, spaced
<1>8. fits <=> m - (n + 3) \in 1 .. BUFF_SIZE /\ keys[n + 3] = SPACE
    <2>1. CASE m > n + 2
        <3>1. Len(text) = m - (n + 3)
            BY <1>0, <1>4, <2>1
        <3> QED
            BY <1>7, <2>1, <3>1
    <2>2. CASE ~(m > n + 2)
        <3>1. ~(m - (n + 3) \in 1 .. BUFF_SIZE)
            BY <1>0, <2>2
        <3> QED
            BY <1>7, <2>2, <3>1
    <2> QED
        BY <2>1, <2>2
<1> HIDE DEF fits
<1>9. Spelled(line) =
        CASE n > MAXSPACES + 1 -> NoCommand
          [] n <= MAXSPACES + 1 /\ says("v") /\ (alone \/ spaced) -> Command("v", <<>>)
          [] n <= MAXSPACES + 1 /\ says("z") /\ alone -> Command("z", AllMetrics)
          [] n <= MAXSPACES + 1 /\ says("z") /\ fits /\ Named(text) # <<>> -> Command("z", Named(text))
          [] n <= MAXSPACES + 1 /\ options # {} /\ fits -> Command(CHOOSE letter \in options : TRUE, text)
          [] OTHER -> NoCommand
    BY <1>2 DEF Spelled, rest, says, alone, spaced, text, fits, options
<1> QED
    <2>1. Meant(keys, n, l, m) =
            IF Astray(keys, n, l, m) \/ m < n + 2 THEN NoCommand
            ELSE IF l = "v" THEN Command("v", <<>>)
            ELSE IF l = "z" /\ m = n + 2 THEN Command("z", AllMetrics)
            ELSE IF ~(l \in Sendable /\ m - (n + 3) \in 1 .. BUFF_SIZE) THEN NoCommand
            ELSE IF l # "z" THEN Command(l, text)
            ELSE IF Named(text) = <<>> THEN NoCommand ELSE Command("z", Named(text))
        BY <1>4 DEF Meant
    <2>2. WithContent \subseteq DOMAIN KeyOf /\ "v" \in DOMAIN KeyOf /\ "z" \in DOMAIN KeyOf
        BY KeyOfOne DEF WithContent
    <2>3. CASE Astray(keys, n, l, m) \/ m < n + 2
        <3>1. Meant(keys, n, l, m) = NoCommand
            BY <2>1, <2>3
        <3>2. CASE n > MAXSPACES + 1
            BY <1>0, <1>9, <3>1, <3>2
        <3>3. CASE n <= MAXSPACES + 1 /\ m > n + 2 /\ keys[n + 3] # SPACE
            <4>1. ~alone /\ ~spaced /\ ~fits
                BY <1>0, <1>6, <1>7, <1>8, <3>3
            <4> QED
                BY <1>9, <3>1, <3>3, <4>1
        <3>4. CASE n <= MAXSPACES + 1 /\ ~(m > n + 2 /\ keys[n + 3] # SPACE)
            <4>1. ASSUME NEW letter \in DOMAIN KeyOf PROVE ~says(letter)
                <5>1. l = "none" => l # letter
                    BY KeyOfOne
                <5> QED
                    BY <1>0, <1>5, <2>3, <3>4, <5>1 DEF Astray
            <4>2. options = {}
                BY <2>2, <4>1 DEF options, WithContent
            <4>3. ~says("v") /\ ~says("z")
                BY <2>2, <4>1
            <4> QED
                BY <1>9, <3>1, <3>4, <4>2, <4>3
        <3> QED
            BY <1>0, <3>2, <3>3, <3>4
    <2>4. CASE ~Astray(keys, n, l, m) /\ m >= n + 2
        <3>1. /\ n <= MAXSPACES + 1 /\ ~(n > MAXSPACES + 1) /\ keys[n + 1] = DASH /\ l # "none"
              /\ m > n + 2 => keys[n + 3] = SPACE
            BY <1>0, <2>4 DEF Astray
        <3>2. \A letter \in DOMAIN KeyOf : says(letter) <=> l = letter
            BY <1>5, <2>4, <3>1
        <3>3. (says("v") <=> l = "v") /\ (says("z") <=> l = "z")
            BY <2>2, <3>2
        <3>4. options = {letter \in WithContent : l = letter}
            BY <2>2, <3>2 DEF options, WithContent
        <3>5. fits <=> m - (n + 3) \in 1 .. BUFF_SIZE
            BY <1>0, <1>8, <3>1
        <3>6. ~(m < n + 2) /\ (alone \/ spaced) /\ ~(alone /\ fits)
            BY <1>0, <1>6, <1>7, <2>4, <3>1, <3>5
        <3>7. CASE l = "v"
            <4>1. options = {} /\ "z" # "v"
                BY <3>4, <3>7 DEF WithContent
            <4>2. Meant(keys, n, l, m) = Command("v", <<>>)
                BY <2>1, <2>4, <3>6, <3>7
            <4> QED
                BY <1>9, <3>1, <3>3, <3>6, <3>7, <4>1, <4>2
        <3>8. CASE l = "z"
            <4>1. options = {} /\ l \in Sendable /\ "z" # "v"
                BY <3>4, <3>8 DEF WithContent, Sendable
            <4>2. CASE m = n + 2
                <5>1. alone /\ Meant(keys, n, l, m) = Command("z", AllMetrics)
                    BY <1>6, <2>1, <2>4, <3>6, <3>8, <4>1, <4>2
                <5> QED
                    BY <1>9, <3>1, <3>3, <3>6, <3>8, <4>1, <5>1
            <4>3. CASE m # n + 2
                <5>1. ~alone
                    BY <1>6, <4>3
                <5>2. Meant(keys, n, l, m) = IF ~fits \/ Named(text) = <<>> THEN NoCommand
                                             ELSE Command("z", Named(text))
                    BY <2>1, <2>4, <3>5, <3>6, <3>8, <4>1, <4>3
                <5> QED
                    BY <1>9, <3>1, <3>3, <3>8, <4>1, <5>1, <5>2
            <4> QED
                BY <4>2, <4>3
        <3>9. CASE l \in WithContent
            <4>1. options = {l} /\ l \in Sendable /\ l # "z" /\ l # "v" /\ options # {}
                BY <3>4, <3>9 DEF WithContent, Sendable
            <4>2. (CHOOSE letter \in options : TRUE) = l
                BY <4>1
            <4>3. Meant(keys, n, l, m) = IF fits THEN Command(l, text) ELSE NoCommand
                BY <2>1, <2>4, <3>5, <3>6, <4>1
            <4> QED
                BY <1>9, <3>1, <3>3, <4>1, <4>2, <4>3
        <3>10. CASE l \notin Sendable \cup {"v"}
            <4>1. options = {} /\ l # "z" /\ l # "v" /\ l \notin Sendable
                BY <3>4, <3>10 DEF Sendable
            <4>2. Meant(keys, n, l, m) = NoCommand
                BY <2>1, <2>4, <3>6, <4>1
            <4> QED
                BY <1>9, <3>1, <3>3, <4>1, <4>2
        <3> QED
            BY <3>7, <3>8, <3>9, <3>10 DEF Sendable
    <2> QED
        BY <1>0, <2>3, <2>4

\* A line is put behind what there is.
LEMMA TypedOn ==
    ASSUME NEW keys \in Seq(Int), NEW line \in Seq(Int)
    PROVE  LET new == keys \o line \o <<LF>>
               K == Len(keys)
               L == Len(line)
           IN  /\ new \in Seq(Int) /\ Len(new) = K + L + 1
               /\ \A i \in 1 .. K : new[i] = keys[i]
               /\ \A i \in 1 .. L : new[K + i] = line[i]
               /\ new[K + L + 1] = LF
<1> DEFINE new == keys \o line \o <<LF>>
           K == Len(keys)
           L == Len(line)
           Goal == /\ new \in Seq(Int) /\ Len(new) = K + L + 1
                   /\ \A i \in 1 .. K : new[i] = keys[i]
                   /\ \A i \in 1 .. L : new[K + i] = line[i]
                   /\ new[K + L + 1] = LF
<1> SUFFICES Goal
    OBVIOUS
<1>1. <<LF>> \in Seq(Int) /\ Len(<<LF>>) = 1 /\ K \in Nat /\ L \in Nat
    BY DEF LF
<1> DEFINE kl == keys \o line
<1>2. /\ kl \in Seq(Int) /\ Len(kl) = K + L
      /\ \A i \in 1 .. K : kl[i] = keys[i]
      /\ \A i \in 1 .. L : kl[K + i] = line[i]
    BY <1>1, ConcatProperties
<1> HIDE DEF kl
<1>3. PICK end \in Seq(Int) : end = <<LF>> /\ Len(end) = 1 /\ end[1] = LF
    BY <1>1
<1>4. /\ kl \o end \in Seq(Int) /\ Len(kl \o end) = K + L + 1
      /\ \A i \in 1 .. K + L : (kl \o end)[i] = kl[i]
      /\ (kl \o end)[K + L + 1] = LF
    <2> DEFINE N == K + L
    <2>1. Len(kl) = N /\ N \in Nat
        BY <1>1, <1>2
    <2> HIDE DEF N
    <2>2. /\ kl \o end \in Seq(Int) /\ Len(kl \o end) = N + 1
          /\ \A i \in 1 .. N : (kl \o end)[i] = kl[i]
          /\ (kl \o end)[N + 1] = end[1]
        <3>1. kl \in Seq(Int) /\ end \in Seq(Int) /\ Len(kl) = N /\ N \in Nat /\ Len(end) = 1
            BY <1>2, <1>3, <2>1
        <3>2. /\ kl \o end \in Seq(Int) /\ Len(kl \o end) = Len(kl) + Len(end)
              /\ \A i \in 1 .. Len(kl) + Len(end) :
                    (kl \o end)[i] = IF i <= Len(kl) THEN kl[i] ELSE end[i - Len(kl)]
            BY ONLY <3>1, ConcatProperties
        <3> QED
            BY ONLY <3>1, <3>2
    <2> QED
        BY <1>3, <2>2 DEF N
<1>5. new = kl \o end
    BY <1>3 DEF kl
<1>6. new \in Seq(Int) /\ Len(new) = K + L + 1 /\ new[K + L + 1] = LF
    BY <1>4, <1>5
<1> HIDE DEF new, K, L
<1>7. \A i \in 1 .. K : i \in 1 .. K + L
    BY ONLY <1>1
<1>8. \A i \in 1 .. L : K + i \in 1 .. K + L
    BY ONLY <1>1
<1>9. \A i \in 1 .. K : new[i] = keys[i]
    BY ONLY <1>2, <1>4, <1>5, <1>7
<1>10. \A i \in 1 .. L : new[K + i] = line[i]
    BY ONLY <1>2, <1>4, <1>5, <1>8
<1> QED
    BY ONLY <1>6, <1>9, <1>10

-----------------------------------------------------------------------------
(* Whole lines.                                                            *)

OneLine(keys) ==
    /\ keys \in Seq(Int) /\ keys # <<>> /\ keys[Len(keys)] = LF
    /\ \A i \in 1 .. Len(keys) - 1 : keys[i] # LF

\* It has more content than a command may.
Overlong(keys) ==
    \E n \in Nat : \E l \in DOMAIN KeyOf \cup {"none"} :
        Shaped(keys, n, l, Len(keys)) /\ TooLong(keys, n, l, Len(keys))

LEMMA ShapeOf ==
    ASSUME NEW keys, OneLine(keys)
    PROVE  \E n \in Nat : \E l \in DOMAIN KeyOf \cup {"none"} : Shaped(keys, n, l, Len(keys))
<1> DEFINE f == Len(keys)
           T == {i \in 0 .. f - 1 : keys[i + 1] # SPACE}
<1>1. keys \in Seq(Int) /\ f \in Nat /\ f >= 1 /\ keys[f] = LF /\ \A i \in 1 .. f - 1 : keys[i] # LF
    BY DEF OneLine
<1> HIDE DEF f
<1>2. T \subseteq Nat /\ f - 1 \in T
    BY <1>1 DEF LF, SPACE
<1> HIDE DEF T
<1>3. PICK n \in T : \A i \in T : n <= i
    BY <1>2, Lining!NatMin
<1>4. n \in 0 .. f - 1 /\ n \in Nat /\ keys[n + 1] # SPACE
    BY <1>1, <1>3 DEF T
<1>5. \A i \in 1 .. n : keys[i] = SPACE
    <2> SUFFICES ASSUME NEW i \in 1 .. n, keys[i] # SPACE PROVE FALSE
        OBVIOUS
    <2>1. i - 1 \in 0 .. f - 1 /\ (i - 1) + 1 = i /\ ~(n <= i - 1)
        BY <1>1, <1>4
    <2>2. i - 1 \in T
        BY <2>1 DEF T
    <2> QED
        BY <1>3, <2>1, <2>2
<1>6. PICK l \in DOMAIN KeyOf \cup {"none"} :
        \/ l \in DOMAIN KeyOf /\ keys[n + 2] = KeyOf[l]
        \/ l = "none" /\ \A letter \in DOMAIN KeyOf : keys[n + 2] # KeyOf[letter]
    OBVIOUS
<1>7. Shaped(keys, n, l, f)
    BY <1>1, <1>4, <1>5, <1>6 DEF Shaped, f
<1> QED
    BY <1>4, <1>7 DEF f

\* A line is read for what it says, unless it is too long.
LEMMA LineIsRead ==
    ASSUME NEW keys, OneLine(keys), NEW r, r = readCommands(keys)
    PROVE  \/ r.state # "END" /\ Overlong(keys)
           \/ /\ r.state = "END" /\ Agrees(r, Spelled(SubSeq(keys, 1, Len(keys) - 1)))
              /\ \/ r.read = Len(keys)
                 \/ /\ r.read \in 3 .. Len(keys) - 1
                    /\ \E l \in {"v", "h", "q"} : /\ keys[r.read - 2] = DASH /\ keys[r.read - 1] = KeyOf[l]
                                                  /\ keys[r.read] = SPACE
<1> DEFINE f == Len(keys)
<1>1. keys \in Seq(Int) /\ f \in Nat /\ f >= 1
    BY DEF OneLine
<1>2. PICK n \in Nat, l \in DOMAIN KeyOf \cup {"none"} : Shaped(keys, n, l, f)
    BY ShapeOf
<1>3. FirstOver(r, keys, n, l, f, f)
    BY <1>1, <1>2, FirstIsRead
<1> HIDE DEF f
<1>4. CASE TooLong(keys, n, l, f)
    <2>1. f + 1 .. f = {} /\ "ERROR" # "END" /\ "SKIP" # "END"
        BY <1>1
    <2>2. r.state # "END"
        BY <1>3, <1>4, <2>1 DEF FirstOver
    <2>3. Overlong(keys)
        BY <1>2, <1>4 DEF Overlong, f
    <2> QED
        BY <2>2, <2>3
<1>5. CASE ~TooLong(keys, n, l, f)
    <2>1. r.state = "END" /\ Agrees(r, Meant(keys, n, l, f - 1))
        BY <1>3, <1>5 DEF FirstOver
    <2>2. Meant(keys, n, l, f - 1) = Spelled(SubSeq(keys, 1, f - 1))
        BY <1>1, <1>2, SpelledIs
    <2>3. \/ r.read = f
          \/ /\ n + 3 < f /\ l \in {"v", "h", "q"} /\ r.read = n + 3
             /\ keys[n + 1] = DASH /\ keys[n + 2] = KeyOf[l] /\ keys[n + 3] = SPACE
        BY <1>3, <1>5 DEF FirstOver
    <2>4. CASE n + 3 < f /\ l \in {"v", "h", "q"} /\ r.read = n + 3
             /\ keys[n + 1] = DASH /\ keys[n + 2] = KeyOf[l] /\ keys[n + 3] = SPACE
        <3>1. r.read \in 3 .. f - 1 /\ r.read - 2 = n + 1 /\ r.read - 1 = n + 2
            BY <1>1, <2>4
        <3> QED
            BY <2>1, <2>2, <2>4, <3>1 DEF f
    <2> QED
        BY <2>1, <2>2, <2>3, <2>4 DEF f
<1> QED
    BY <1>4, <1>5

\* A line, the next one and nothing more.
Followed(keys, first, next) ==
    /\ keys = first \o next \o <<LF>>
    /\ keys \in Seq(Int) /\ Len(keys) = Len(first) + Len(next) + 1
    /\ \A i \in 1 .. Len(first) : keys[i] = first[i]
    /\ \A i \in 1 .. Len(next) : keys[Len(first) + i] = next[i]
    /\ keys[Len(first) + Len(next) + 1] = LF

\* One that is too long is no command, and takes the next one with it.
LEMMA LongLineIsRead ==
    ASSUME NEW first, OneLine(first), Overlong(first), NEW next \in Seq(Int), \A i \in 1 .. Len(next) : next[i] # LF,
           NEW keys, Followed(keys, first, next), NEW r, r = readCommands(keys)
    PROVE  /\ r.state = "END" /\ r.todo # "send" /\ r.read = Len(keys)
           /\ Spelled(SubSeq(keys, 1, Len(first) - 1)) = NoCommand
           /\ Len(first) - 1 > BUFF_SIZE + 3
<1> DEFINE f == Len(first)
           g == Len(keys)
<1>1. /\ first \in Seq(Int) /\ f \in Nat /\ f >= 1 /\ first[f] = LF /\ \A i \in 1 .. f - 1 : first[i] # LF
      /\ MAXSPACES \in Nat /\ BUFF_SIZE \in Nat /\ Len(next) \in Nat
    BY ConsoleAssumption DEF OneLine
<1>2. /\ keys \in Seq(Int) /\ g = f + Len(next) + 1
      /\ \A i \in 1 .. f : keys[i] = first[i]
      /\ \A i \in 1 .. Len(next) : keys[f + i] = next[i]
      /\ keys[f + Len(next) + 1] = LF
    BY DEF Followed
<1>3. PICK n \in Nat, l \in DOMAIN KeyOf \cup {"none"} : Shaped(first, n, l, f) /\ TooLong(first, n, l, f)
    BY DEF Overlong
<1> HIDE DEF f, g
<1>4. l \in Sendable /\ l # "none" /\ l # "v" /\ n + 3 + BUFF_SIZE < f - 1 /\ ~Astray(first, n, l, f - 1)
    BY <1>3 DEF TooLong, Sendable, WithContent
<1>5. keys[n + 1] = first[n + 1] /\ keys[n + 2] = first[n + 2] /\ keys[n + 3] = first[n + 3]
    <2>1. n + 1 \in 1 .. f /\ n + 2 \in 1 .. f /\ n + 3 \in 1 .. f
        <3>1. n \in Nat /\ f \in Nat /\ BUFF_SIZE \in Nat /\ n + 3 + BUFF_SIZE < f - 1
            BY <1>1, <1>4
        <3> QED
            BY ONLY <3>1
    <2> QED
        BY <1>2, <2>1
<1>6. Shaped(keys, n, l, f)
    <2>1. f \in 1 .. g /\ keys[f] = LF /\ \A i \in 1 .. f - 1 : keys[i] # LF
        <3>1. f \in Nat /\ f >= 1 /\ Len(next) \in Nat /\ g = f + Len(next) + 1
            BY <1>1, <1>2
        <3>2. f \in 1 .. g /\ f \in 1 .. f /\ \A i \in 1 .. f - 1 : i \in 1 .. f
            BY ONLY <3>1
        <3> QED
            BY <1>1, <1>2, <3>2
    <2>2. n \in 0 .. f - 1 /\ keys[n + 1] # SPACE /\ \A i \in 1 .. n : first[i] = SPACE
        BY <1>3, <1>5 DEF Shaped
    <2>3. \A i \in 1 .. n : keys[i] = SPACE
        <3>1. n \in 0 .. f - 1 /\ f \in Nat
            BY <1>1, <2>2
        <3>2. \A i \in 1 .. n : i \in 1 .. f
            BY ONLY <3>1
        <3> QED
            BY <1>2, <2>2, <3>2
    <2>4. \/ l \in DOMAIN KeyOf /\ keys[n + 2] = KeyOf[l]
          \/ l = "none" /\ \A letter \in DOMAIN KeyOf : keys[n + 2] # KeyOf[letter]
        BY <1>3, <1>5 DEF Shaped
    <2> QED
        BY <2>1, <2>2, <2>3, <2>4 DEF Shaped, g
<1>7. ~Astray(keys, n, l, f - 1)
    BY <1>4, <1>5 DEF Astray
<1>8. TooLong(keys, n, l, f)
    BY <1>4, <1>7 DEF TooLong
<1>9. FirstOver(r, keys, n, l, f, g)
    BY <1>2, <1>6, FirstIsRead DEF g
<1>10. /\ r.state = "END" /\ r.todo # "send" /\ r.read \in f + 1 .. g /\ keys[r.read] = LF
    <2>0. f \in Nat /\ Len(next) \in Nat /\ g = f + Len(next) + 1
        BY <1>1, <1>2
    <2>1. g \in f + 1 .. g /\ keys[g] = LF
        <3>1. g \in f + 1 .. g
            BY ONLY <2>0
        <3> QED
            BY <1>2, <3>1
    <2> QED
        BY <1>8, <1>9, <2>1 DEF FirstOver
<1>11. r.read = g
    <2> SUFFICES ASSUME r.read # g PROVE FALSE
        OBVIOUS
    <2>1. PICK m \in Nat : r.read = m
        BY <1>1, <1>2, <1>10
    <2>2. m - f \in 1 .. Len(next) /\ f + (m - f) = m
        BY <1>1, <1>2, <1>10, <2>1
    <2>3. keys[m] = next[m - f]
        BY <1>2, <2>2
    <2> QED
        BY <1>10, <2>1, <2>2, <2>3
<1>12. Spelled(SubSeq(keys, 1, f - 1)) = NoCommand
    <2>1. Spelled(SubSeq(keys, 1, f - 1)) = Meant(keys, n, l, f - 1)
        BY <1>2, <1>6, SpelledIs
    <2>2. ~(f - 1 - (n + 3) \in 1 .. BUFF_SIZE) /\ f - 1 # n + 2
        BY <1>1, <1>4
    <2>3. Meant(keys, n, l, f - 1) = NoCommand
        BY <1>4, <2>2 DEF Meant
    <2> QED
        BY <2>1, <2>3
<1>13. f - 1 > BUFF_SIZE + 3
    BY <1>1, <1>4
<1> QED
    BY <1>10, <1>11, <1>12, <1>13 DEF f, g

LEMMA IsFollowed ==
    ASSUME NEW first \in Seq(Int), NEW next \in Seq(Int)
    PROVE  Followed(first \o next \o <<LF>>, first, next)
BY TypedOn DEF Followed
=============================================================================
