----------------------------- MODULE Pop3Proofs -----------------------------
(***************************************************************************)
(* Proofs about Pop3Session, for every number of commands, size of buffer, *)
(* socket and pipe, and every text of the replies: the types, the order of *)
(* the commands and of the replies, and the count of what was forwarded.   *)
(***************************************************************************)
EXTENDS Pop3Session, SequenceTheorems, TLAPS

-----------------------------------------------------------------------------
(* What the operators on sequences give.                                   *)

\* Take and Drop cut a sequence in two at the place n, or leave it whole where it
\* is shorter: what a read takes, and what stays behind.
LEMMA TakeDrop ==
    ASSUME NEW S, NEW s \in Seq(S), NEW n \in Nat
    PROVE  /\ Take(s, n) \in Seq(S) /\ Drop(s, n) \in Seq(S)
           /\ Len(Take(s, n)) = (IF n < Len(s) THEN n ELSE Len(s))
           /\ Len(Drop(s, n)) = Len(s) - Len(Take(s, n))
           /\ \A i \in 1 .. Len(Take(s, n)) : Take(s, n)[i] = s[i]
           /\ \A i \in 1 .. Len(Drop(s, n)) : Drop(s, n)[i] = s[Len(Take(s, n)) + i]
<1> DEFINE k == IF n < Len(s) THEN n ELSE Len(s)
<1>1. k \in 0 .. Len(s) /\ \A i \in 1 .. Len(s) : s[i] \in S
    OBVIOUS
<1>2. Take(s, n) = SubSeq(s, 1, k) /\ Drop(s, n) = SubSeq(s, k + 1, Len(s))
    BY DEF Take, Drop
<1> HIDE DEF k
<1>3. /\ SubSeq(s, 1, k) \in Seq(S) /\ Len(SubSeq(s, 1, k)) = k
      /\ \A i \in 1 .. k : SubSeq(s, 1, k)[i] = s[i]
    BY <1>1, SubSeqProperties
<1>4. /\ SubSeq(s, k + 1, Len(s)) \in Seq(S)
      /\ Len(SubSeq(s, k + 1, Len(s))) = Len(s) - k
      /\ \A i \in 1 .. Len(s) - k : SubSeq(s, k + 1, Len(s))[i] = s[k + i]
    <2>1. \A i \in k + 1 .. Len(s) : s[i] \in S
        BY <1>1
    <2>2. /\ SubSeq(s, k + 1, Len(s)) \in Seq(S)
          /\ Len(SubSeq(s, k + 1, Len(s)))
               = IF k + 1 <= Len(s) THEN Len(s) - (k + 1) + 1 ELSE 0
          /\ \A i \in 1 .. Len(s) - (k + 1) + 1 :
                SubSeq(s, k + 1, Len(s))[i] = s[(k + 1) + i - 1]
        BY <1>1, <2>1, SubSeqProperties
    <2> QED
        BY <1>1, <2>2
<1> QED
    BY <1>1, <1>2, <1>3, <1>4 DEF k

\* What the types need of TakeDrop.
LEMMA Cut ==
    ASSUME NEW S, NEW s \in Seq(S), NEW n \in Nat
    PROVE  /\ Take(s, n) \in Seq(S) /\ Len(Take(s, n)) \in 0 .. n
           /\ Drop(s, n) \in Seq(S) /\ Len(Drop(s, n)) \in 0 .. Len(s)
           /\ Len(Drop(s, n)) = Len(s) - Len(Take(s, n))
<1>1. /\ Take(s, n) \in Seq(S) /\ Drop(s, n) \in Seq(S)
      /\ Len(Take(s, n)) = (IF n < Len(s) THEN n ELSE Len(s))
      /\ Len(Drop(s, n)) = Len(s) - Len(Take(s, n))
    BY TakeDrop
<1>2. Len(s) \in Nat
    OBVIOUS
<1> QED
    BY <1>1, <1>2

\* ConcatAssociative, for any three sequences.
LEMMA Regrouping ==
    ASSUME NEW S, NEW s \in Seq(S), NEW t \in Seq(S), NEW u \in Seq(S)
    PROVE  (s \o t) \o u = s \o (t \o u)
BY ConcatAssociative

\* A sequence that is not empty is its head and its tail.
LEMMA Ends ==
    ASSUME NEW S, NEW s \in Seq(S), s # <<>>
    PROVE  /\ Head(s) = s[1] /\ s[1] \in S /\ 1 \in 1 .. Len(s)
           /\ Tail(s) \in Seq(S) /\ Len(Tail(s)) \in Nat /\ Len(s) = Len(Tail(s)) + 1
           /\ \A i \in 1 .. Len(Tail(s)) : Tail(s)[i] = s[i + 1]
<1>1. Len(s) \in Nat /\ Len(s) >= 1
    OBVIOUS
<1>2. Tail(s) \in Seq(S) /\ Len(Tail(s)) = Len(s) - 1
    BY <1>1
<1>3. \A i \in 1 .. Len(Tail(s)) : Tail(s)[i] = s[i + 1]
    BY <1>1, HeadTailProperties
<1>4. Head(s) = s[1] /\ s[1] \in S
    BY <1>1
<1> QED
    BY <1>1, <1>2, <1>3, <1>4

\* The reply to a command is a sequence of tokens, numbered from the first number
\* that is free.
LEMMA ReplyType ==
    ASSUME TypeOK, NEW to \in BYE .. COMMANDS,
           NEW text \in CAPA_TEXTS \cup REPLIES \cup {GOODBYE}
    PROVE  /\ Reply(to, text) \in Seq(Tokens) /\ Len(Reply(to, text)) = Len(text)
           /\ Len(text) \in Nat \ {0}
           /\ \A j \in 1 .. Len(text) : Reply(to, text)[j].n = serial + j
<1> DEFINE token(j) == [n |-> serial + j, to |-> to, text |-> text[j], last |-> j = Len(text)]
<1>1. text \in Seq(Range(text)) /\ text # <<>>
    BY Pop3SessionAssumption
<1>2. Len(text) \in Nat \ {0} /\ DOMAIN text = 1 .. Len(text)
    BY <1>1
<1>3. \A j \in 1 .. Len(text) : text[j] \in Texts
    BY <1>2, SMTT(30) DEF Texts, Range
<1>4. \A j \in 1 .. Len(text) : token(j) \in Tokens
    <2> SUFFICES ASSUME NEW j \in 1 .. Len(text) PROVE token(j) \in Tokens
        OBVIOUS
    <2>1. serial + j \in Nat \ {0}
        BY <1>2 DEF TypeOK
    <2>2. (j = Len(text)) \in BOOLEAN
        OBVIOUS
    <2> QED
        BY <1>3, <2>1, <2>2, Zenon DEF Tokens
<1>5. Reply(to, text) = [j \in 1 .. Len(text) |-> token(j)]
    BY <1>2 DEF Reply
<1>6. \A j \in 1 .. Len(text) : token(j).n = serial + j
    OBVIOUS
<1> HIDE DEF token
<1>7. Reply(to, text) \in Seq(Tokens) /\ Len(Reply(to, text)) = Len(text)
    BY <1>2, <1>4, <1>5
<1> QED
    BY <1>2, <1>5, <1>6, <1>7

\* What the tokens of a sequence say are texts of replies.
LEMMA TextType ==
    ASSUME NEW s \in Seq(Tokens)
    PROVE  Text(s) \in Seq(Texts) /\ Len(Text(s)) = Len(s)
<1>1. \A i \in 1 .. Len(s) : s[i].text \in Texts
    <2> SUFFICES ASSUME NEW i \in 1 .. Len(s) PROVE s[i].text \in Texts
        OBVIOUS
    <2>1. s[i] \in Tokens
        OBVIOUS
    <2> QED
        BY <2>1 DEF Tokens
<1>2. Text(s) = [i \in 1 .. Len(s) |-> s[i].text]
    BY DEF Text
<1> QED
    BY <1>1, <1>2

-----------------------------------------------------------------------------
(* Types.                                                                  *)

\* What the proofs use of the assumption on the constants.
LEMMA Sizes ==
    /\ COMMANDS \in Nat \ {0} /\ BUFF_SIZE \in Nat \ {0} /\ SOCKET \in Nat \ {0}
    /\ PIPE \in Nat \ {0} /\ BUFFER_END \in 1 .. BUFF_SIZE
BY Zenon, Pop3SessionAssumption

\* TypeOK, one variable at a time.
LEMMA TypesOfOne ==
    ASSUME TypeOK
    PROVE  /\ c2p \in Seq(0 .. COMMANDS) /\ p2o \in Seq(0 .. COMMANDS)
           /\ buffer \in Seq(0 .. COMMANDS) /\ taken \in Seq(0 .. COMMANDS)
           /\ lost \in Seq(0 .. COMMANDS)
           /\ o2p \in Seq(Tokens) /\ p2c \in Seq(Tokens)
           /\ filterIn \in Seq(Tokens) /\ filterOut \in Seq(Tokens)
           /\ clientGot \in Seq(Tokens) /\ pending \in Seq(Tokens)
           /\ Len(c2p) <= SOCKET /\ Len(p2o) <= SOCKET /\ Len(o2p) <= SOCKET /\ Len(p2c) <= SOCKET
           /\ Len(filterIn) <= PIPE /\ Len(filterOut) <= PIPE /\ Len(buffer) <= BUFF_SIZE
           /\ transferred \in 0 .. COMMANDS /\ bytes \in 0 .. COMMANDS
           /\ serial \in Nat \ {0} /\ sent \in 0 .. COMMANDS
BY DEF TypeOK

LEMMA TypeInit == Init => TypeOK
<1> SUFFICES ASSUME Init PROVE TypeOK
    OBVIOUS
<1>1. "LF" \in Texts
    <2>1. "LF" \in Range(<<"LF">>)
        BY DEF Range
    <2> QED
        BY <2>1 DEF Texts
<1>2. 1 \in Nat \ {0} /\ GREETING \in BYE .. COMMANDS
    BY Sizes DEF GREETING, BYE
<1>3. [n |-> 1, to |-> GREETING, text |-> "LF", last |-> TRUE] \in Tokens
    BY <1>1, <1>2, Zenon DEF Tokens
<1>4. pending \in Seq(Tokens)
    <2> HIDE DEF Tokens
    <2> QED
        BY <1>3 DEF Init
<1>5. {o2p, p2c, filterIn, filterOut, clientGot, pending} \subseteq Seq(Tokens)
    <2> HIDE DEF Tokens
    <2> QED
        BY <1>4 DEF Init
<1>6. /\ {c2p, p2o, buffer, taken, lost} \subseteq Seq(0 .. COMMANDS)
      /\ {transferred, bytes} \subseteq 0 .. COMMANDS
      /\ previousEnd \in Seq(Texts) /\ Len(previousEnd) \in {0, BUFFER_END}
    BY Sizes DEF Init
<1>7. /\ Len(c2p) <= SOCKET /\ Len(p2o) <= SOCKET /\ Len(o2p) <= SOCKET /\ Len(p2c) <= SOCKET
      /\ Len(filterIn) <= PIPE /\ Len(filterOut) <= PIPE /\ Len(buffer) <= BUFF_SIZE
    BY Sizes DEF Init
<1>8. /\ sent \in 0 .. COMMANDS /\ serial \in Nat \ {0}
      /\ ready \subseteq {"client", "origin", "filter"}
    BY Sizes DEF Init
<1> QED
    BY <1>5, <1>6, <1>7, <1>8 DEF Init, TypeOK

\* The end of the session leaves nothing on its way through the proxy.
LEMMA CloseAllType ==
    ASSUME TypeOK, CloseAll,
           UNCHANGED <<client, p2o, p2c, origin, lost>>,
           bytes' \in 0 .. COMMANDS, transferred' \in 0 .. COMMANDS
    PROVE  TypeOK'
BY Sizes DEF TypeOK, CloseAll, client, origin

LEMMA TypeOfWrites ==
    ASSUME TypeOK, NEW s \in Seq(Tokens)
    PROVE  /\ ToClient(s) \in Seq(Tokens) /\ Len(ToClient(s)) <= SOCKET
           /\ ToFilter(s) \in Seq(Tokens) /\ Len(ToFilter(s)) <= PIPE
<1>1. SOCKET - Len(p2c) \in Nat /\ p2c \in Seq(Tokens)
    BY Sizes DEF TypeOK
<1>2. /\ Take(s, SOCKET - Len(p2c)) \in Seq(Tokens)
      /\ Len(Take(s, SOCKET - Len(p2c))) <= SOCKET - Len(p2c)
    BY <1>1, TakeDrop
<1>3. ToClient(s) \in Seq(Tokens) /\ Len(ToClient(s)) <= SOCKET
    BY <1>1, <1>2, Sizes, ConcatProperties DEF ToClient
<1>4. ToFilter(s) \in Seq(Tokens) /\ Len(ToFilter(s)) <= PIPE
    BY Sizes, ConcatProperties DEF ToFilter, TypeOK
<1> QED
    BY <1>3, <1>4

LEMMA TypeStep ==
    ASSUME TypeOK, [Next]_vars, Forwarded' <= COMMANDS
    PROVE  TypeOK'
<1>1. CASE Greet
    <2>1. 2 * BUFF_SIZE \in Nat /\ o2p \in Seq(Tokens) /\ Len(o2p) <= SOCKET
        BY Sizes, TypesOfOne
    <2>2. /\ Take(o2p, 2 * BUFF_SIZE) \in Seq(Tokens)
          /\ o2p' \in Seq(Tokens) /\ Len(o2p') <= SOCKET
        BY <1>1, <2>1, Cut, Sizes DEF Greet
    <2>3. p2c' \in Seq(Tokens) /\ Len(p2c') <= SOCKET
        BY <1>1, <2>2, TypeOfWrites DEF Greet
    <2>4. pc' = "select" /\ UNCHANGED <<client, c2p, p2o, filterIn, filterOut, origin, ready, buffer, previousEnd, metrics>>
        BY <1>1 DEF Greet
    <2> QED
        BY <2>2, <2>3, <2>4 DEF TypeOK, client, origin, metrics
<1>2. CASE Select
    BY <1>2 DEF Select, TypeOK, client, channels, origin, metrics
<1>3. CASE AttendClient
    <2>1. Append(p2o, CAPA) \in Seq(0 .. COMMANDS) /\ Len(Append(p2o, CAPA)) = Len(p2o) + 1
        BY Sizes DEF TypeOK, CAPA
    <2>2. transferred' \in 0 .. COMMANDS /\ bytes' \in 0 .. COMMANDS
        <3>1. 0 \in 0 .. COMMANDS /\ transferred \in 0 .. COMMANDS /\ bytes \in 0 .. COMMANDS
            BY TypesOfOne, Sizes
        <3> QED
            BY <1>3, <3>1 DEF AttendClient
    <2>3. p2o' \in Seq(0 .. COMMANDS) /\ Len(p2o') <= SOCKET
        <3>1. Len(p2o) < SOCKET => Len(p2o) + 1 <= SOCKET
            BY TypesOfOne, Sizes
        <3> QED
            BY <1>3, <2>1, <3>1, TypesOfOne DEF AttendClient
    <2> QED
        BY <1>3, <2>2, <2>3 DEF AttendClient, TypeOK, client, origin
<1>4. CASE PipeliningSupport
    <2> DEFINE answer == Take(o2p, BUFF_SIZE)
    <2>a. o2p \in Seq(Tokens) /\ Len(o2p) <= SOCKET
        BY TypesOfOne
    <2>1. /\ answer \in Seq(Tokens) /\ Drop(o2p, BUFF_SIZE) \in Seq(Tokens)
          /\ Len(Drop(o2p, BUFF_SIZE)) <= SOCKET /\ Len(answer) <= BUFF_SIZE
        BY <2>a, Cut, Sizes
    <2> HIDE DEF answer
    <2>2. CASE CloseAll /\ UNCHANGED <<client, p2o, p2c, origin, metrics>>
        BY <2>2, CloseAllType, TypesOfOne DEF metrics
    <2>3. CASE /\ Len(answer) = BUFF_SIZE
               /\ o2p' = Drop(o2p, BUFF_SIZE) /\ pc' = "capa"
               /\ previousEnd' = SubSeq(Text(answer), BUFF_SIZE - BUFFER_END + 1, BUFF_SIZE)
               /\ UNCHANGED <<c2p, filterIn, filterOut, ready, buffer, client, p2o, p2c, origin, metrics>>
        <3>1. Text(answer) \in Seq(Texts) /\ Len(Text(answer)) = BUFF_SIZE
            BY <2>1, <2>3, TextType
        <3>2. \A i \in BUFF_SIZE - BUFFER_END + 1 .. BUFF_SIZE : Text(answer)[i] \in Texts
            BY <3>1, Sizes
        <3>3. previousEnd' \in Seq(Texts) /\ Len(previousEnd') = BUFFER_END
            BY <3>2, <2>3, Sizes, SubSeqProperties
        <3> QED
            BY <2>1, <2>3, <3>3 DEF TypeOK, client, origin, metrics
    <2>4. CASE /\ o2p' = Drop(o2p, BUFF_SIZE) /\ pc' = "forward" /\ previousEnd' = <<>>
               /\ UNCHANGED <<c2p, filterIn, filterOut, ready, buffer, client, p2o, p2c, origin, metrics>>
        BY <2>1, <2>4 DEF TypeOK, client, origin, metrics
    <2> QED
        BY <1>4, <2>2, <2>3, <2>4 DEF PipeliningSupport, answer
<1>5. CASE ReadFromClient
    <2>1. CASE c2p # <<>>
        <3>a. c2p \in Seq(0 .. COMMANDS) /\ Len(c2p) <= SOCKET
            BY TypesOfOne
        <3>1. /\ buffer' \in Seq(0 .. COMMANDS) /\ Len(buffer') <= BUFF_SIZE
              /\ c2p' \in Seq(0 .. COMMANDS) /\ Len(c2p') <= SOCKET
            BY <1>5, <2>1, <3>a, Cut, Sizes DEF ReadFromClient
        <3> QED
            BY <1>5, <2>1, <3>1 DEF ReadFromClient, TypeOK, client, origin
    <2>2. CASE c2p = <<>>
        <3>1. pc = "forward" /\ bytes' = bytes + transferred /\ transferred' = transferred
            BY <1>5, <2>2 DEF ReadFromClient
        <3>2. bytes' \in 0 .. COMMANDS
            <4>1. bytes \in 0 .. COMMANDS /\ transferred \in 0 .. COMMANDS
                BY TypesOfOne
            <4>2. Forwarded' = bytes'
                <5>1. pc' \in {"origins", "closed"}
                    BY <1>5, <2>2 DEF ReadFromClient, CloseAll
                <5> QED
                    BY <5>1 DEF Forwarded
            <4> QED
                BY <3>1, <4>1, <4>2, Sizes
        <3>3. CASE CloseAll
            BY <1>5, <3>1, <3>2, <3>3, CloseAllType, TypesOfOne DEF ReadFromClient
        <3>4. CASE ~CloseAll
            BY <1>5, <2>2, <3>2, <3>4 DEF ReadFromClient, TypeOK, client, origin
        <3> QED
            BY <3>3, <3>4
    <2> QED
        BY <2>1, <2>2
<1>6. CASE WriteToOrigin
    <2>1. SOCKET - Len(p2o) \in Nat /\ buffer \in Seq(0 .. COMMANDS) /\ p2o \in Seq(0 .. COMMANDS)
        BY Sizes DEF TypeOK
    <2>2. /\ Take(buffer, SOCKET - Len(p2o)) \in Seq(0 .. COMMANDS)
          /\ Len(Take(buffer, SOCKET - Len(p2o))) <= SOCKET - Len(p2o)
          /\ buffer' \in Seq(0 .. COMMANDS) /\ Len(buffer') <= Len(buffer)
        BY <1>6, <2>1, Cut DEF WriteToOrigin
    <2>3. p2o' \in Seq(0 .. COMMANDS) /\ Len(p2o') <= SOCKET
        BY <1>6, <2>1, <2>2, Sizes, ConcatProperties DEF WriteToOrigin
    <2>4. transferred' \in 0 .. COMMANDS
        <3> DEFINE total == transferred + Len(buffer) - Len(Drop(buffer, SOCKET - Len(p2o)))
        <3>1. /\ bytes' = bytes /\ transferred' = total /\ pc' = "forward"
              /\ bytes \in Nat /\ transferred \in Nat
            BY <1>6, TypesOfOne, Sizes DEF WriteToOrigin
        <3>2. total \in Nat
            <4>1. Len(Drop(buffer, SOCKET - Len(p2o))) \in 0 .. Len(buffer)
                BY <2>1, Cut
            <4> QED
                BY <2>1, <3>1, <4>1
        <3> HIDE DEF total
        <3>3. bytes + total <= COMMANDS
            BY <3>1 DEF Forwarded
        <3> QED
            BY <3>1, <3>2, <3>3, Sizes
    <2>5. Len(buffer') <= BUFF_SIZE
        <3>1. Len(buffer) <= BUFF_SIZE
            BY TypesOfOne
        <3> QED
            BY <2>1, <2>2, <3>1, Sizes
    <2> QED
        BY <1>6, <2>2, <2>3, <2>4, <2>5 DEF WriteToOrigin, TypeOK, client, origin
<1>7. CASE ReadFromOrigin
    <2> DEFINE read == IF "origin" \in ready THEN Take(o2p, BUFF_SIZE) ELSE <<>>
    <2>a. o2p \in Seq(Tokens) /\ Len(o2p) <= SOCKET
        BY TypesOfOne
    <2>1. read \in Seq(Tokens) /\ Len(read) \in Nat
        BY <2>a, Cut, Sizes
    <2>2. Drop(o2p, Len(read)) \in Seq(Tokens) /\ Len(Drop(o2p, Len(read))) <= SOCKET
        BY <2>a, <2>1, Cut, Sizes
    <2> HIDE DEF read
    <2>3. CASE CloseAll /\ UNCHANGED <<client, p2o, p2c, origin, metrics>>
        BY <2>3, CloseAllType, TypesOfOne DEF metrics
    <2>4. CASE /\ filterIn' = ToFilter(read) /\ o2p' = Drop(o2p, Len(read)) /\ pc' = "filters"
               /\ UNCHANGED <<c2p, filterOut, ready, buffer, previousEnd, client, p2o, p2c, origin, metrics>>
        BY <2>1, <2>2, <2>4, TypeOfWrites DEF TypeOK, client, origin, metrics
    <2> QED
        BY <1>7, <2>3, <2>4 DEF ReadFromOrigin, read
<1>8. CASE ReadFromFilter
    <2>a. filterOut \in Seq(Tokens) /\ Len(filterOut) <= PIPE
        BY TypesOfOne
    <2>1. /\ Take(filterOut, BUFF_SIZE) \in Seq(Tokens) /\ Drop(filterOut, BUFF_SIZE) \in Seq(Tokens)
          /\ Len(Drop(filterOut, BUFF_SIZE)) <= PIPE
        BY <2>a, Cut, Sizes
    <2>2. CASE "filter" \notin ready
        BY <1>8, <2>2 DEF ReadFromFilter, TypeOK, client, origin, metrics
    <2>3. p2c' \in Seq(Tokens) /\ Len(p2c') <= SOCKET
        BY <1>8, <2>1, <2>a, TypeOfWrites, TypesOfOne DEF ReadFromFilter
    <2> QED
        BY <1>8, <2>1, <2>2, <2>3 DEF ReadFromFilter, TypeOK, client, origin, metrics
<1>9. CASE ClientSends
    <2>a. c2p \in Seq(0 .. COMMANDS) /\ sent \in 0 .. COMMANDS
        BY TypesOfOne
    <2>b. sent + 1 \in 0 .. COMMANDS
        BY <1>9, <2>a, Sizes DEF ClientSends
    <2>1. Append(c2p, sent + 1) \in Seq(0 .. COMMANDS) /\ Len(Append(c2p, sent + 1)) = Len(c2p) + 1
        BY <2>a, <2>b
    <2>2. sent' \in 0 .. COMMANDS /\ Len(c2p') <= SOCKET
        BY <1>9, <2>a, <2>b, <2>1, Sizes DEF ClientSends
    <2> QED
        BY <1>9, <2>1, <2>2 DEF ClientSends, TypeOK, origin, proxy, metrics
<1>10. CASE ClientReceives
    <2>a. /\ clientGot \in Seq(Tokens) /\ p2c \in Seq(Tokens) /\ p2c # <<>>
          /\ Len(p2c) <= SOCKET
        BY <1>10, TypesOfOne DEF ClientReceives
    <2>1. /\ Append(clientGot, Head(p2c)) \in Seq(Tokens)
          /\ Tail(p2c) \in Seq(Tokens) /\ Len(Tail(p2c)) <= SOCKET
        BY <2>a, Sizes
    <2> QED
        BY <1>10, <2>1 DEF ClientReceives, TypeOK, origin, proxy, metrics
<1>11. CASE ClientCloses
    BY <1>11 DEF ClientCloses, TypeOK, channels, origin, proxy, metrics
<1>12. CASE OriginTakes
    <2>a. /\ p2o \in Seq(0 .. COMMANDS) /\ taken \in Seq(0 .. COMMANDS) /\ p2o # <<>>
          /\ Len(p2o) <= SOCKET
        BY <1>12, TypesOfOne DEF OriginTakes
    <2>1. /\ Head(p2o) \in 0 .. COMMANDS /\ Tail(p2o) \in Seq(0 .. COMMANDS) /\ Len(Tail(p2o)) <= SOCKET
        BY <2>a, Sizes
    <2>b. taken' \in Seq(0 .. COMMANDS)
        <3>1. Append(taken, Head(p2o)) \in Seq(0 .. COMMANDS)
            BY <2>a, <2>1
        <3> QED
            BY <1>12, <2>a, <3>1 DEF OriginTakes
    <2>2. PICK text \in CAPA_TEXTS \cup REPLIES \cup {GOODBYE} :
                pending' = Reply(Head(p2o), text) /\ serial' = serial + Len(text)
        BY <1>12 DEF OriginTakes, TypeOK
    <2>3. pending' \in Seq(Tokens) /\ serial' \in Nat \ {0}
        <3>1. Head(p2o) \in BYE .. COMMANDS
            BY <2>1, Sizes DEF BYE
        <3>2. Reply(Head(p2o), text) \in Seq(Tokens) /\ Len(text) \in Nat \ {0}
            BY <3>1, ReplyType
        <3>3. serial \in Nat \ {0}
            BY TypesOfOne
        <3> QED
            BY <2>2, <3>2, <3>3
    <2> QED
        BY <1>12, <2>1, <2>3, <2>b DEF OriginTakes, TypeOK, client, proxy, metrics
<1>13. CASE OriginDismisses
    <2>1. pending' \in Seq(Tokens) /\ serial' \in Nat \ {0}
        <3>1. BYE \in BYE .. COMMANDS
            BY Sizes DEF BYE
        <3>2. Reply(BYE, GOODBYE) \in Seq(Tokens) /\ Len(GOODBYE) \in Nat \ {0}
            BY <3>1, ReplyType
        <3>3. serial \in Nat \ {0}
            BY TypesOfOne
        <3> QED
            BY <1>13, <3>2, <3>3 DEF OriginDismisses
    <2> QED
        BY <1>13, <2>1 DEF OriginDismisses, TypeOK, client, channels, proxy, metrics
<1>14. CASE OriginWrites
    <2>1. PICK n \in 1 .. Len(pending) :
            /\ Len(o2p) + n <= SOCKET
            /\ o2p' = o2p \o Take(pending, n) /\ pending' = Drop(pending, n)
        BY <1>14 DEF OriginWrites
    <2>2. /\ Take(pending, n) \in Seq(Tokens) /\ Len(Take(pending, n)) <= n
          /\ pending' \in Seq(Tokens)
        BY <2>1, Cut, TypesOfOne
    <2>3. o2p' \in Seq(Tokens) /\ Len(o2p') <= SOCKET
        BY <2>1, <2>2, TypesOfOne, Sizes, ConcatProperties
    <2> QED
        BY <1>14, <2>2, <2>3 DEF OriginWrites, TypeOK, client, proxy, metrics
<1>15. CASE FilterRuns
    <2>a. /\ filterIn \in Seq(Tokens) /\ filterOut \in Seq(Tokens) /\ filterIn # <<>>
          /\ Len(filterIn) <= PIPE /\ Len(filterOut) < PIPE
        BY <1>15, TypesOfOne DEF FilterRuns
    <2>1. Append(filterOut, Head(filterIn)) \in Seq(Tokens) /\ Tail(filterIn) \in Seq(Tokens)
        BY <2>a
    <2>2. Len(Append(filterOut, Head(filterIn))) <= PIPE /\ Len(Tail(filterIn)) <= PIPE
        BY <2>a, Sizes
    <2> QED
        BY <1>15, <2>1, <2>2 DEF FilterRuns, TypeOK, client, origin, proxy, metrics
<1>16. CASE OriginResets
    <2>1. <<>> \in Seq(Tokens)
        OBVIOUS
    <2>2. pending' \in Seq(Tokens) /\ reset' \in {"no", "unseen", "seen"}
        BY <1>16, <2>1 DEF OriginResets
    <2> QED
        BY <1>16, <2>2 DEF OriginResets, TypeOK, client, channels, proxy, metrics
<1>17. CASE GreetReset
    BY <1>17 DEF GreetReset, TypeOK, client, channels, metrics
<1>18. CASE AttendClientReset
    <2>1. transferred' \in 0 .. COMMANDS /\ bytes' \in 0 .. COMMANDS
        <3>1. 0 \in 0 .. COMMANDS /\ bytes \in 0 .. COMMANDS
            BY TypesOfOne, Sizes
        <3> QED
            BY <1>18, <3>1 DEF AttendClientReset
    <2> QED
        BY <1>18, <2>1, CloseAllType DEF AttendClientReset
<1>19. CASE PipeliningSupportReset
    BY <1>19, CloseAllType, TypesOfOne DEF PipeliningSupportReset, metrics
<1>20. CASE WriteToOriginReset
    <2>1. buffer \in Seq(0 .. COMMANDS) /\ lost \in Seq(0 .. COMMANDS) /\ Len(buffer) \in Nat
        BY TypesOfOne
    <2>2. lost' \in Seq(0 .. COMMANDS) /\ buffer' \in Seq(0 .. COMMANDS) /\ Len(buffer') <= BUFF_SIZE
        BY <1>20, <2>1, Sizes, ConcatProperties DEF WriteToOriginReset
    <2>3. transferred' \in 0 .. COMMANDS
        <3> DEFINE total == transferred + Len(buffer)
        <3>1. /\ bytes' = bytes /\ transferred' = total /\ pc' = "forward"
              /\ bytes \in Nat /\ transferred \in Nat
            BY <1>20, TypesOfOne, Sizes DEF WriteToOriginReset
        <3>2. total \in Nat
            BY <2>1, <3>1
        <3> HIDE DEF total
        <3>3. bytes + total <= COMMANDS
            BY <3>1 DEF Forwarded
        <3> QED
            BY <3>1, <3>2, <3>3, Sizes
    <2>4. reset' \in {"no", "unseen", "seen"}
        BY <1>20 DEF WriteToOriginReset
    <2> QED
        BY <1>20, <2>2, <2>3, <2>4 DEF WriteToOriginReset, TypeOK, client, channels
<1>21. CASE ReadFromOriginReset
    <2>1. CASE CloseAll
        BY <1>21, <2>1, CloseAllType, TypesOfOne DEF ReadFromOriginReset, metrics
    <2>2. CASE ~CloseAll
        BY <1>21, <2>2 DEF ReadFromOriginReset, TypeOK, client, origin, metrics
    <2> QED
        BY <2>1, <2>2
<1>22. CASE UNCHANGED vars
    BY <1>22 DEF vars, TypeOK, client, channels, origin, proxy, metrics
<1> QED
    BY <1>1, <1>2, <1>3, <1>4, <1>5, <1>6, <1>7, <1>8, <1>9, <1>10, <1>11, <1>12, <1>13,
       <1>14, <1>15, <1>16, <1>17, <1>18, <1>19, <1>20, <1>21, <1>22
       DEF Next, ProxyStep, ResetStep, PeerStep

-----------------------------------------------------------------------------
(* The order of the commands.                                              *)

\* The commands on their way, as five pieces of 1, 2, 3, ...: t has been taken by
\* the origin and o waits there, with probes in between; f of them have been
\* counted as forwarded; b is in the proxy's buffer and c has not been read.
Queues(t, o, b, c, f) ==
    /\ \A i \in DOMAIN t : t[i] = i
    /\ InOrder(o) /\ Said(o) = Len(t) + 1 .. f /\ Len(t) <= f
    /\ \A i \in DOMAIN b : b[i] = f + i
    /\ \A i \in DOMAIN c : c[i] = f + Len(b) + i

\* What was given to write and the origin has not taken: once a write has failed,
\* none that comes after it succeeds.
Given == p2o \o lost

\* The count is exact at every step of the proxy: a session that is closed has lost
\* what was not forwarded, and no other has.
CommandsInv ==
    /\ Queues(taken, Given, buffer, c2p, Forwarded)
    /\ reset = "no" => lost = <<>>
    /\ IF pc = "closed" THEN c2p = <<>> /\ Forwarded <= sent
                        ELSE Forwarded + Len(buffer) + Len(c2p) = sent
    /\ pc # "forward" => buffer = <<>>
    /\ pc = "capa" => transferred = 0
    /\ transferred <= Forwarded /\ Forwarded <= COMMANDS

Queue == Seq(0 .. COMMANDS)

LEMMA SaidIs ==
    ASSUME NEW s \in Queue, NEW k
    PROVE  k \in Said(s) <=> k # CAPA /\ \E i \in 1 .. Len(s) : s[i] = k
<1>1. DOMAIN s = 1 .. Len(s)
    BY DEF Queue
<1> QED
    BY <1>1 DEF Said, Range

\* Commands that follow each other.
LEMMA Consecutive ==
    ASSUME NEW s \in Queue, NEW f \in Nat, \A i \in 1 .. Len(s) : s[i] = f + i
    PROVE  InOrder(s) /\ Said(s) = f + 1 .. f + Len(s)
<1>1. DOMAIN s = 1 .. Len(s) /\ Len(s) \in Nat
    BY DEF Queue
<1>2. InOrder(s)
    BY <1>1 DEF InOrder
<1>3. ASSUME NEW k PROVE k \in Said(s) <=> k \in f + 1 .. f + Len(s)
    <2>1. k \in Said(s) <=> k # CAPA /\ \E i \in 1 .. Len(s) : s[i] = k
        BY SaidIs
    <2>2. ASSUME k \in f + 1 .. f + Len(s) PROVE k - f \in 1 .. Len(s) /\ k = f + (k - f)
        BY <2>2, <1>1
    <2> QED
        BY <2>1, <2>2, <1>1 DEF CAPA
<1> QED
    BY <1>2, <1>3

LEMMA OneAfterTheOther ==
    ASSUME NEW s \in Queue, NEW t \in Queue, InOrder(s), InOrder(t),
           \A k \in Said(s), l \in Said(t) : k < l
    PROVE  s \o t \in Queue /\ InOrder(s \o t) /\ Said(s \o t) = Said(s) \cup Said(t)
<1> DEFINE st == s \o t
<1>1. /\ st \in Queue /\ Len(st) = Len(s) + Len(t)
      /\ \A i \in 1 .. Len(s) + Len(t) : st[i] = IF i <= Len(s) THEN s[i] ELSE t[i - Len(s)]
    BY ConcatProperties DEF Queue
<1>2. Said(st) = Said(s) \cup Said(t)
    BY RangeConcatenation DEF Said, Queue
<1>3. /\ Len(s) \in Nat /\ Len(t) \in Nat /\ DOMAIN st = 1 .. Len(s) + Len(t)
      /\ DOMAIN s = 1 .. Len(s) /\ DOMAIN t = 1 .. Len(t)
    BY <1>1 DEF Queue
<1> HIDE DEF st
<1>4. \A i \in DOMAIN st : \/ i \in DOMAIN s /\ st[i] = s[i]
                           \/ i > Len(s) /\ i - Len(s) \in DOMAIN t /\ st[i] = t[i - Len(s)]
    BY <1>1, <1>3
<1>5. InOrder(st)
    <2> SUFFICES ASSUME NEW i \in DOMAIN st, NEW j \in DOMAIN st, i < j,
                        CAPA \notin {st[i], st[j]}
                 PROVE  st[i] < st[j]
        BY DEF InOrder
    <2>1. CASE j \in DOMAIN s /\ st[j] = s[j]
        <3>1. i \in DOMAIN s /\ st[i] = s[i]
            BY <2>1, <1>3, <1>4
        <3> QED
            BY <2>1, <3>1 DEF InOrder
    <2>2. CASE j > Len(s) /\ j - Len(s) \in DOMAIN t /\ st[j] = t[j - Len(s)]
        <3>1. CASE i \in DOMAIN s /\ st[i] = s[i]
            <4>1. st[i] \in Said(s) /\ st[j] \in Said(t)
                BY <2>2, <3>1, <1>3, SaidIs
            <4> QED
                BY <4>1
        <3>2. CASE i > Len(s) /\ i - Len(s) \in DOMAIN t /\ st[i] = t[i - Len(s)]
            <4>1. i - Len(s) < j - Len(s)
                BY <1>3
            <4> QED
                BY <2>2, <3>2, <4>1 DEF InOrder
        <3> QED
            BY <1>4, <3>1, <3>2
    <2> QED
        BY <1>4, <2>1, <2>2
<1> QED
    BY <1>1, <1>2, <1>5 DEF st

\* attendClient's probe is no command.
LEMMA QueuesProbe ==
    ASSUME NEW t \in Queue, NEW o \in Queue, NEW b \in Queue, NEW c \in Queue, NEW f \in Nat,
           Queues(t, o, b, c, f)
    PROVE  Queues(t, Append(o, CAPA), b, c, f)
<1> DEFINE new == Append(o, CAPA)
<1>1. /\ new \in Queue /\ Len(new) = Len(o) + 1 /\ new[Len(o) + 1] = CAPA
      /\ \A i \in 1 .. Len(o) : new[i] = o[i]
    BY Sizes DEF Queue, CAPA
<1>0. Len(o) \in Nat
    BY DEF Queue
<1> HIDE DEF new
<1>2. Said(new) = Said(o)
    <2>1. ASSUME NEW k PROVE k \in Said(new) <=> k \in Said(o)
        <3>1. k \in Said(new) <=> k # CAPA /\ \E i \in 1 .. Len(o) + 1 : new[i] = k
            BY <1>1, SaidIs
        <3>2. k \in Said(o) <=> k # CAPA /\ \E i \in 1 .. Len(o) : o[i] = k
            BY SaidIs
        <3>3. \A i \in 1 .. Len(o) + 1 : i \in 1 .. Len(o) \/ new[i] = CAPA
            BY <1>1, <1>0
        <3>4. \A i \in 1 .. Len(o) : i \in 1 .. Len(o) + 1
            BY <1>0
        <3> QED
            BY <1>1, <3>1, <3>2, <3>3, <3>4, Zenon
    <2> QED
        BY <2>1
<1>3. InOrder(new)
    <2>1. DOMAIN new = 1 .. Len(o) + 1 /\ DOMAIN o = 1 .. Len(o)
        BY <1>1 DEF Queue
    <2>2. \A i \in DOMAIN new : new[i] = CAPA \/ (i \in DOMAIN o /\ new[i] = o[i])
        BY <1>1, <1>0, <2>1
    <2>3. InOrder(o)
        BY DEF Queues
    <2>4. \A i, j \in DOMAIN new : i < j /\ CAPA \notin {new[i], new[j]} => new[i] < new[j]
        BY <2>2, <2>3 DEF InOrder
    <2> QED
        BY <2>4 DEF InOrder
<1> QED
    BY <1>2, <1>3 DEF Queues, new

\* A read by readFromClient moves the front of what is there into the buffer.
LEMMA QueuesRead ==
    ASSUME NEW t \in Queue, NEW o \in Queue, NEW c \in Queue, NEW f \in Nat, NEW n \in Nat,
           Queues(t, o, <<>>, c, f)
    PROVE  /\ Queues(t, o, Take(c, n), Drop(c, n), f)
           /\ Len(Take(c, n)) + Len(Drop(c, n)) = Len(c)
<1> DEFINE b == Take(c, n)
           d == Drop(c, n)
<1>1. /\ b \in Queue /\ d \in Queue /\ Len(d) = Len(c) - Len(b) /\ Len(b) \in Nat
      /\ \A i \in 1 .. Len(b) : b[i] = c[i]
      /\ \A i \in 1 .. Len(d) : d[i] = c[Len(b) + i]
    <2>1. Len(b) \in 0 .. n
        BY Cut DEF Queue
    <2> QED
        BY <2>1, TakeDrop DEF Queue
<1>2. Len(b) <= Len(c)
    BY TakeDrop DEF Queue
<1> HIDE DEF b, d
<1>3. \A i \in 1 .. Len(c) : c[i] = f + i
    BY DEF Queues, Queue
<1>4. \A i \in 1 .. Len(b) : b[i] = f + i
    BY <1>1, <1>2, <1>3 DEF Queue
<1>5. \A i \in 1 .. Len(d) : d[i] = f + Len(b) + i
    BY <1>1, <1>2, <1>3 DEF Queue
<1>6. DOMAIN b = 1 .. Len(b) /\ DOMAIN d = 1 .. Len(d)
    BY <1>1 DEF Queue
<1>7. Queues(t, o, b, d, f)
    BY <1>4, <1>5, <1>6 DEF Queues
<1>8. Len(b) + Len(d) = Len(c)
    BY <1>1 DEF Queue
<1> QED
    BY <1>7, <1>8 DEF b, d

\* A write to the origin appends the front of the buffer, and that is the count of
\* the commands forwarded that goes up.
LEMMA QueuesWrite ==
    ASSUME NEW t \in Queue, NEW o \in Queue, NEW b \in Queue, NEW c \in Queue, NEW f \in Nat,
           NEW n \in Nat, Queues(t, o, b, c, f)
    PROVE  Queues(t, o \o Take(b, n), Drop(b, n), c, f + Len(b) - Len(Drop(b, n)))
<1> DEFINE w == Take(b, n)
           d == Drop(b, n)
           new == o \o w
<1>1. /\ w \in Queue /\ d \in Queue /\ Len(d) = Len(b) - Len(w)
      /\ \A i \in 1 .. Len(w) : w[i] = b[i]
      /\ \A i \in 1 .. Len(d) : d[i] = b[Len(w) + i]
    BY TakeDrop DEF Queue
<1>2. Len(w) \in 0 .. Len(b)
    <2>1. Len(w) = IF n < Len(b) THEN n ELSE Len(b)
        BY TakeDrop DEF Queue
    <2> QED
        BY <2>1 DEF Queue
<1> HIDE DEF w, d
<1>3. \A i \in 1 .. Len(b) : b[i] = f + i
    BY DEF Queues, Queue
<1>4. \A i \in 1 .. Len(w) : w[i] = f + i
    BY <1>1, <1>2, <1>3 DEF Queue
<1>5. \A i \in 1 .. Len(d) : d[i] = f + Len(w) + i
    BY <1>1, <1>2, <1>3 DEF Queue
<1>7. InOrder(w) /\ Said(w) = f + 1 .. f + Len(w)
    BY <1>1, <1>4, Consecutive
<1>8. InOrder(new) /\ Said(new) = Len(t) + 1 .. f + Len(w)
    <2>1. InOrder(o) /\ Said(o) = Len(t) + 1 .. f /\ Len(t) <= f
        BY DEF Queues
    <2>2. Len(t) \in Nat /\ Len(w) \in Nat
        BY <1>1 DEF Queue
    <2>3. \A k \in Said(o), l \in Said(w) : k < l
        BY <1>7, <2>1, <2>2
    <2>4. InOrder(new) /\ Said(new) = Said(o) \cup Said(w)
        BY <1>1, <1>7, <2>1, <2>3, OneAfterTheOther
    <2> QED
        BY <1>7, <2>1, <2>2, <2>4
<1> HIDE DEF new
<1>9. f + Len(b) - Len(d) = f + Len(w) /\ Len(d) + Len(w) = Len(b)
    BY <1>1, <1>2 DEF Queue
<1>10. Queues(t, new, d, c, f + Len(w))
    <2>1. \A i \in DOMAIN t : t[i] = i
        BY DEF Queues
    <2>2. Len(t) <= f + Len(w)
        BY <1>2 DEF Queues, Queue
    <2>3. DOMAIN d = 1 .. Len(d) /\ DOMAIN c = 1 .. Len(c)
        BY <1>1 DEF Queue
    <2>4. \A i \in 1 .. Len(c) : c[i] = f + Len(b) + i
        BY <2>3 DEF Queues
    <2>5. \A i \in 1 .. Len(c) : c[i] = f + Len(w) + Len(d) + i
        BY <2>4, <1>9, <1>1, <1>2 DEF Queue
    <2> QED
        BY <1>5, <1>8, <2>1, <2>2, <2>3, <2>5 DEF Queues
<1> QED
    BY <1>9, <1>10 DEF w, d, new

\* The client appends the command that comes next.
LEMMA QueuesSend ==
    ASSUME NEW t \in Queue, NEW o \in Queue, NEW b \in Queue, NEW c \in Queue, NEW f \in Nat,
           Queues(t, o, b, c, f), f + Len(b) + Len(c) + 1 <= COMMANDS
    PROVE  Queues(t, o, b, Append(c, f + Len(b) + Len(c) + 1), f)
<1> DEFINE next == f + Len(b) + Len(c) + 1
           new  == Append(c, next)
<1>1. Len(b) \in Nat /\ Len(c) \in Nat /\ DOMAIN c = 1 .. Len(c)
    BY DEF Queue
<1>2. next \in 0 .. COMMANDS
    BY <1>1, Sizes
<1> HIDE DEF next
<1>3. /\ DOMAIN new = 1 .. Len(c) + 1 /\ new[Len(c) + 1] = next
      /\ \A i \in 1 .. Len(c) : new[i] = c[i]
    BY <1>2 DEF Queue
<1> HIDE DEF new
<1>4. \A i \in 1 .. Len(c) : c[i] = f + Len(b) + i
    BY <1>1 DEF Queues
<1>5. \A i \in 1 .. Len(c) + 1 : new[i] = f + Len(b) + i
    BY <1>1, <1>3, <1>4 DEF next
<1>6. Queues(t, o, b, new, f)
    BY <1>3, <1>5 DEF Queues
<1> QED
    BY <1>6 DEF new, next

\* The origin takes what comes first: a probe, or the command that is next.
LEMMA QueuesTake ==
    ASSUME NEW t \in Queue, NEW o \in Queue, NEW b \in Queue, NEW c \in Queue, NEW f \in Nat,
           Queues(t, o, b, c, f), o # <<>>
    PROVE  Queues(IF Head(o) = CAPA THEN t ELSE Append(t, Head(o)), Tail(o), b, c, f)
<1> DEFINE rest == Tail(o)
<1>1. /\ rest \in Queue /\ Len(o) = Len(rest) + 1 /\ Len(rest) \in Nat
      /\ \A i \in 1 .. Len(rest) : rest[i] = o[i + 1]
      /\ Head(o) = o[1] /\ o[1] \in 0 .. COMMANDS
    BY Ends DEF Queue
<1>2. DOMAIN rest = 1 .. Len(rest) /\ DOMAIN o = 1 .. Len(o) /\ 1 \in DOMAIN o
    BY <1>1 DEF Queue
<1> HIDE DEF rest
<1>3. \A i \in 1 .. Len(rest) : i + 1 \in DOMAIN o /\ i + 1 > 1
    BY <1>1, <1>2
<1>4. \A i \in DOMAIN o : i = 1 \/ (i - 1 \in 1 .. Len(rest) /\ rest[i - 1] = o[i])
    BY <1>1, <1>2
<1>5. InOrder(o) /\ Said(o) = Len(t) + 1 .. f /\ Len(t) <= f /\ Len(t) \in Nat
    BY DEF Queues, Queue
<1>6. InOrder(rest)
    <2> SUFFICES ASSUME NEW i \in 1 .. Len(rest), NEW j \in 1 .. Len(rest), i < j,
                        CAPA \notin {rest[i], rest[j]}
                 PROVE  rest[i] < rest[j]
        BY <1>2 DEF InOrder
    <2>1. rest[i] = o[i + 1] /\ rest[j] = o[j + 1] /\ i + 1 < j + 1
        BY <1>1
    <2> QED
        BY <2>1, <1>3, <1>5 DEF InOrder
<1>7. ASSUME NEW k
      PROVE  /\ k \in Said(rest) => k \in Said(o)
             /\ k \in Said(o) => k = o[1] \/ k \in Said(rest)
    <2>1. k \in Said(rest) <=> k # CAPA /\ \E i \in 1 .. Len(rest) : rest[i] = k
        BY <1>1, SaidIs
    <2>2. k \in Said(o) <=> k # CAPA /\ \E i \in DOMAIN o : o[i] = k
        BY <1>2, SaidIs
    <2>3. \A i \in 1 .. Len(rest) : rest[i] = o[i + 1] /\ i + 1 \in DOMAIN o
        BY <1>1, <1>3
    <2> QED
        BY <2>1, <2>2, <2>3, <1>4
<1>8. CASE o[1] = CAPA
    <2>1. Said(rest) = Said(o)
        <3>1. CAPA \notin Said(o)
            BY DEF Said
        <3> QED
            BY <1>7, <1>8, <3>1
    <2> QED
        BY <1>1, <1>5, <1>6, <1>8, <2>1 DEF Queues, rest
<1>9. CASE o[1] # CAPA
    <2> DEFINE new == Append(t, o[1])
    <2>1. \A i \in 2 .. Len(o) : o[i] # CAPA => o[1] < o[i]
        BY <1>2, <1>5, <1>9 DEF InOrder
    <2>2. o[1] \in Len(t) + 1 .. f
        BY <1>2, <1>5, <1>9, SaidIs
    <2>3. o[1] = Len(t) + 1
        <3>1. Len(t) + 1 \in Said(o)
            BY <1>5, <2>2
        <3>2. PICK i \in 1 .. Len(o) : o[i] = Len(t) + 1 /\ o[i] # CAPA
            BY <3>1, SaidIs
        <3>3. CASE i \in 2 .. Len(o)
            BY <3>2, <3>3, <2>1, <2>2, <1>5
        <3>4. CASE i = 1
            BY <3>2, <3>4
        <3> QED
            BY <3>3, <3>4, <1>1
    <2>4. /\ DOMAIN new = 1 .. Len(t) + 1 /\ Len(new) = Len(t) + 1 /\ new[Len(t) + 1] = o[1]
          /\ \A i \in 1 .. Len(t) : new[i] = t[i]
        BY <1>1 DEF Queue
    <2> HIDE DEF new
    <2>5. \A i \in 1 .. Len(t) : t[i] = i
        BY DEF Queues, Queue
    <2>6. \A i \in DOMAIN new : new[i] = i
        BY <1>5, <2>3, <2>4, <2>5
    <2>7. o[1] \notin Said(rest)
        <3> SUFFICES ASSUME NEW i \in 1 .. Len(rest), rest[i] = o[1] PROVE FALSE
            BY <1>1, SaidIs
        <3>1. i + 1 \in 2 .. Len(o) /\ o[i + 1] = o[1]
            BY <1>1
        <3> QED
            BY <3>1, <2>1, <2>3, <1>5, <1>9
    <2>8. Said(rest) = Said(o) \ {o[1]}
        BY <1>7, <2>7
    <2>9. Said(rest) = Len(new) + 1 .. f /\ Len(new) <= f
        BY <1>5, <2>2, <2>3, <2>4, <2>8
    <2>10. Queues(new, rest, b, c, f)
        BY <1>6, <2>6, <2>9 DEF Queues
    <2> QED
        BY <1>1, <1>9, <2>10 DEF new, rest
<1> QED
    BY <1>8, <1>9

\* Whatever is lost is lost from the end.
LEMMA QueuesClose ==
    ASSUME NEW t, NEW o, NEW b, NEW c, NEW f, Queues(t, o, b, c, f)
    PROVE  Queues(t, o, <<>>, <<>>, f)
BY DEF Queues

LEMMA CommandsInit == Init => CommandsInv
<1> SUFFICES ASSUME Init PROVE CommandsInv
    OBVIOUS
<1>1. Said(<<>>) = 1 .. 0 /\ InOrder(<<>>)
    BY DEF Said, InOrder, Range
<1>2. Forwarded = 0
    BY DEF Init, Forwarded
<1>3. Queues(<<>>, <<>>, <<>>, <<>>, 0)
    BY <1>1 DEF Queues
<1>4. Given = <<>>
    BY DEF Init, Given
<1> QED
    BY <1>2, <1>3, <1>4, Sizes DEF Init, CommandsInv

LEMMA QueueTypes ==
    ASSUME TypeOK
    PROVE  /\ taken \in Queue /\ p2o \in Queue /\ buffer \in Queue /\ c2p \in Queue
           /\ lost \in Queue /\ Given \in Queue /\ (lost = <<>> => Given = p2o)
           /\ Forwarded \in Nat /\ bytes \in Nat /\ transferred \in Nat /\ sent \in Nat
           /\ Len(buffer) \in Nat /\ Len(c2p) \in Nat
<1>1. taken \in Queue /\ p2o \in Queue /\ buffer \in Queue /\ c2p \in Queue
    BY TypesOfOne DEF Queue
<1>2. bytes \in Nat /\ transferred \in Nat /\ sent \in Nat
    BY TypesOfOne, Sizes
<1>3. Forwarded \in Nat
    BY <1>2 DEF Forwarded
<1>4. Len(buffer) \in Nat /\ Len(c2p) \in Nat
    BY <1>1 DEF Queue
<1>5. lost \in Queue /\ Given \in Queue /\ (lost = <<>> => Given = p2o)
    <2>1. lost \in Queue
        BY TypesOfOne DEF Queue
    <2>2. \A s, t \in Queue : s \o t \in Queue
        BY ConcatProperties DEF Queue
    <2>3. \A s \in Queue : s \o <<>> = s
        BY ConcatEmptySeq DEF Queue
    <2>4. Given \in Queue
        BY ONLY <1>1, <2>1, <2>2, Zenon DEF Given
    <2>5. lost = <<>> => Given = p2o
        BY ONLY <1>1, <2>3, Zenon DEF Given
    <2> QED
        BY ONLY <2>1, <2>4, <2>5
<1> QED
    BY <1>1, <1>2, <1>3, <1>4, <1>5

\* Most steps leave the commands alone, and at most move on to the next part of
\* the proxy's loop.
LEMMA CommandsSame ==
    ASSUME TypeOK, CommandsInv,
           UNCHANGED <<sent, taken, p2o, lost, buffer, c2p, bytes, transferred>>,
           reset' = "no" => reset = "no",
           \/ pc' = pc
           \/ {pc, pc'} \subseteq {"greet", "select", "clients", "origins", "filters"}
    PROVE  CommandsInv'
<1>1. Forwarded' = Forwarded /\ Given' = Given
    BY DEF Forwarded, Given
<1>2. /\ pc' = "closed" <=> pc = "closed"
      /\ pc' = "forward" <=> pc = "forward"
      /\ pc' = "capa" <=> pc = "capa"
    OBVIOUS
<1> QED
    BY <1>1, <1>2, Zenon DEF CommandsInv

\* The end of a session, from any part of the loop but that which forwards.
LEMMA CommandsClose ==
    ASSUME TypeOK, CommandsInv, CloseAll, UNCHANGED <<sent, taken, p2o, lost, reset>>,
           buffer = <<>>, bytes' = Forwarded, transferred' \in {0, transferred}
    PROVE  CommandsInv'
<1>1. /\ Forwarded' = Forwarded /\ pc' = "closed" /\ c2p' = <<>> /\ buffer' = <<>>
      /\ pc' # "forward" /\ pc' # "capa" /\ Given' = Given
    BY DEF Forwarded, CloseAll, Given
<1>2. Queues(taken, Given, <<>>, <<>>, Forwarded)
    BY QueuesClose DEF CommandsInv
<1>3. Forwarded <= sent
    BY QueueTypes DEF CommandsInv
<1>4. Queues(taken', Given', buffer', c2p', Forwarded')
    BY <1>1, <1>2, Zenon
<1>5. transferred' <= Forwarded' /\ Forwarded' <= sent' /\ Forwarded' <= COMMANDS
    BY <1>1, <1>3, QueueTypes DEF CommandsInv
<1> QED
    BY <1>1, <1>4, <1>5 DEF CommandsInv

LEMMA CommandsStep == TypeOK /\ CommandsInv /\ [Next]_vars => CommandsInv'
<1> SUFFICES ASSUME TypeOK, CommandsInv, [Next]_vars PROVE CommandsInv'
    OBVIOUS
<1>1. CASE Greet
    BY <1>1, CommandsSame DEF Greet, client, origin, metrics
<1>2. CASE Select
    BY <1>2, CommandsSame DEF Select, client, channels, origin, metrics
<1>3. CASE AttendClient
    <2>1. CASE "client" \in ready
        <3>1. /\ Forwarded' = Forwarded /\ p2o' = Append(p2o, CAPA)
              /\ pc' = "capa" /\ pc = "clients" /\ transferred' = 0 /\ reset = "no"
              /\ UNCHANGED <<sent, taken, lost, buffer, c2p, reset>>
            BY <1>3, <2>1 DEF AttendClient, Forwarded, client, origin
        <3>a. lost = <<>> /\ Given = p2o
            BY <3>1, QueueTypes DEF CommandsInv
        <3>2. Queues(taken, Append(p2o, CAPA), buffer, c2p, Forwarded)
            BY <3>a, QueueTypes, QueuesProbe DEF CommandsInv
        <3>3. 0 <= Forwarded
            BY QueueTypes
        <3>b. Given' = Append(p2o, CAPA)
            <4>1. Append(p2o, CAPA) \in Seq(0 .. COMMANDS)
                BY TypesOfOne, Sizes DEF CAPA
            <4> QED
                BY <3>1, <3>a, <4>1 DEF Given
        <3>4. Queues(taken', Given', buffer', c2p', Forwarded')
            BY <3>1, <3>2, <3>b, Zenon
        <3> QED
            BY <3>1, <3>3, <3>4 DEF CommandsInv
    <2>2. CASE "client" \notin ready
        BY <1>3, <2>2, CommandsSame DEF AttendClient, client, origin
    <2> QED
        BY <2>1, <2>2
<1>4. CASE PipeliningSupport
    <2>1. CASE CloseAll
        BY <1>4, <2>1, CommandsClose DEF PipeliningSupport, CommandsInv, Forwarded, client, origin, metrics
    <2>2. CASE pc' = "capa" /\ UNCHANGED <<c2p, buffer>>
        BY <1>4, <2>2, CommandsSame DEF PipeliningSupport, client, origin, metrics
    <2>3. CASE pc' = "forward" /\ UNCHANGED <<c2p, buffer>>
        <3>1. /\ pc = "capa" /\ transferred = 0 /\ buffer = <<>>
              /\ UNCHANGED <<sent, taken, p2o, lost, reset, buffer, c2p, bytes, transferred>>
            BY <1>4, <2>3 DEF PipeliningSupport, CommandsInv, client, origin, metrics
        <3>2. Forwarded' = Forwarded
            <4>1. Forwarded = bytes
                BY <3>1 DEF Forwarded
            <4>2. bytes + transferred = bytes
                BY <3>1, QueueTypes
            <4>3. Forwarded' = bytes + transferred
                BY <3>1, <2>3 DEF Forwarded
            <4> QED
                BY <4>1, <4>2, <4>3
        <3>3. Given' = Given
            BY <3>1 DEF Given
        <3> QED
            BY <2>3, <3>1, <3>2, <3>3, Zenon DEF CommandsInv
    <2> QED
        BY <1>4, <2>1, <2>2, <2>3 DEF PipeliningSupport
<1>5. CASE ReadFromClient
    <2>0. /\ pc = "forward" /\ buffer = <<>>
          /\ UNCHANGED <<sent, taken, p2o, lost, reset, transferred>>
          /\ Forwarded = bytes + transferred /\ Given' = Given
        BY <1>5 DEF ReadFromClient, Forwarded, client, origin, Given
    <2>1. CASE c2p # <<>>
        <3>1. /\ pc' = "forward" /\ bytes' = bytes
              /\ buffer' = Take(c2p, BUFF_SIZE) /\ c2p' = Drop(c2p, BUFF_SIZE)
            BY <1>5, <2>1, <2>0 DEF ReadFromClient
        <3>2. Forwarded' = Forwarded
            BY <2>0, <3>1 DEF Forwarded
        <3>3. /\ Queues(taken, Given, Take(c2p, BUFF_SIZE), Drop(c2p, BUFF_SIZE), Forwarded)
              /\ Len(Take(c2p, BUFF_SIZE)) + Len(Drop(c2p, BUFF_SIZE)) = Len(c2p)
            <4>1. Queues(taken, Given, <<>>, c2p, Forwarded)
                BY <2>0 DEF CommandsInv
            <4>2. /\ taken \in Queue /\ Given \in Queue /\ c2p \in Queue
                  /\ Forwarded \in Nat /\ BUFF_SIZE \in Nat
                BY QueueTypes, Sizes
            <4> QED
                BY <4>1, <4>2, QueuesRead
        <3>4. /\ Len(Take(c2p, BUFF_SIZE)) \in Nat /\ Len(Drop(c2p, BUFF_SIZE)) \in Nat
            BY QueueTypes, Cut, Sizes DEF Queue
        <3>5. Forwarded + Len(c2p) = sent
            BY <2>0, QueueTypes DEF CommandsInv
        <3>6. Forwarded + Len(Take(c2p, BUFF_SIZE)) + Len(Drop(c2p, BUFF_SIZE)) = sent
            BY <3>3, <3>4, <3>5, QueueTypes
        <3>7. Queues(taken', Given', buffer', c2p', Forwarded')
            BY <2>0, <3>1, <3>2, <3>3, Zenon
        <3>8. Forwarded' + Len(buffer') + Len(c2p') = sent'
            BY <2>0, <3>1, <3>2, <3>6, Zenon
        <3>9. /\ transferred' <= Forwarded' /\ Forwarded' <= COMMANDS
              /\ reset' = "no" => lost' = <<>>
            BY <2>0, <3>2 DEF CommandsInv
        <3> QED
            BY <3>1, <3>7, <3>8, <3>9 DEF CommandsInv
    <2>2. CASE c2p = <<>> /\ CloseAll
        BY <1>5, <2>0, <2>2, CommandsClose DEF ReadFromClient
    <2>3. CASE c2p = <<>> /\ ~CloseAll
        <3>1. /\ pc' = "origins" /\ bytes' = bytes + transferred
              /\ UNCHANGED <<buffer, c2p>>
            BY <1>5, <2>3 DEF ReadFromClient
        <3>2. Forwarded' = Forwarded
            BY <2>0, <3>1 DEF Forwarded
        <3> QED
            BY <2>0, <3>1, <3>2 DEF CommandsInv
    <2> QED
        BY <2>1, <2>2, <2>3
<1>6. CASE WriteToOrigin
    <2> DEFINE room == SOCKET - Len(p2o)
               left == Len(Drop(buffer, room))
               now  == Forwarded + Len(buffer) - left
    <2>1. /\ pc = "forward" /\ pc' = "forward" /\ p2o' = p2o \o Take(buffer, room)
          /\ buffer' = Drop(buffer, room) /\ bytes' = bytes
          /\ transferred' = transferred + Len(buffer) - left
          /\ UNCHANGED <<sent, taken, c2p, lost, reset>> /\ Forwarded = bytes + transferred
          /\ reset = "no"
        BY <1>6 DEF WriteToOrigin, Forwarded, client, origin
    <2>a. lost = <<>> /\ Given = p2o
        BY <2>1, QueueTypes DEF CommandsInv
    <2>2. room \in Nat
        BY TypesOfOne, Sizes
    <2> HIDE DEF room
    <2>3. Queues(taken, p2o \o Take(buffer, room), Drop(buffer, room), c2p, now)
        BY <2>2, <2>a, QueueTypes, QueuesWrite DEF CommandsInv
    <2>b. Given' = p2o \o Take(buffer, room)
        <3>1. Take(buffer, room) \in Queue /\ p2o \in Queue
            BY <2>2, QueueTypes, Cut DEF Queue
        <3>2. p2o \o Take(buffer, room) \in Queue
            BY <3>1, ConcatProperties DEF Queue
        <3> QED
            BY <2>1, <2>a, <3>2 DEF Given, Queue
    <2>4. left \in 0 .. Len(buffer) /\ Len(buffer) \in Nat
        BY <2>2, QueueTypes, Cut DEF Queue
    <2>5. Forwarded' = now
        <3>1. Forwarded' = bytes + (transferred + Len(buffer) - left)
            BY <2>1 DEF Forwarded
        <3> HIDE DEF left
        <3> QED
            BY <3>1, <2>1, <2>4, QueueTypes, SMTT(30)
    <2>6. Forwarded + Len(buffer) + Len(c2p) = sent
        BY <2>1 DEF CommandsInv
    <2>7. /\ now + left + Len(c2p) = sent /\ transferred + Len(buffer) - left <= now
          /\ now <= COMMANDS
        <3>1. \A f, m, l, c, n, t, k \in Nat :
                f + m + c = n /\ l <= m /\ t <= f /\ n <= k =>
                    /\ f + m - l + l + c = n /\ t + m - l <= f + m - l /\ f + m - l <= k
            OBVIOUS
        <3>2. left \in Nat /\ left <= Len(buffer) /\ COMMANDS \in Nat /\ sent <= COMMANDS
            BY <2>4, TypesOfOne, Sizes
        <3>3. transferred <= Forwarded
            BY DEF CommandsInv
        <3> HIDE DEF left
        <3> QED
            BY <2>4, <2>6, <3>1, <3>2, <3>3, QueueTypes
    <2>8. Queues(taken', Given', buffer', c2p', Forwarded')
        BY <2>1, <2>3, <2>5, <2>b, Zenon
    <2>9. /\ Forwarded' + Len(buffer') + Len(c2p') = sent' /\ transferred' <= Forwarded'
          /\ Forwarded' <= COMMANDS
        BY <2>1, <2>5, <2>7, Zenon DEF left
    <2> QED
        BY <2>1, <2>8, <2>9 DEF CommandsInv
<1>7. CASE ReadFromOrigin
    <2>1. CASE CloseAll
        BY <1>7, <2>1, CommandsClose DEF ReadFromOrigin, CommandsInv, Forwarded, client, origin, metrics
    <2>2. CASE ~CloseAll
        BY <1>7, <2>2, CommandsSame DEF ReadFromOrigin, client, origin, metrics
    <2> QED
        BY <2>1, <2>2
<1>8. CASE ReadFromFilter
    BY <1>8, CommandsSame DEF ReadFromFilter, client, origin, metrics
<1>9. CASE ClientSends
    <2>1. /\ sent < COMMANDS /\ pc # "closed" /\ sent' = sent + 1 /\ c2p' = Append(c2p, sent + 1)
          /\ UNCHANGED <<pc, taken, p2o, lost, reset, buffer, bytes, transferred>>
        BY <1>9 DEF ClientSends, origin, proxy, metrics
    <2>2. Forwarded' = Forwarded /\ Given' = Given
        BY <2>1 DEF Forwarded, Given
    <2>3. Forwarded + Len(buffer) + Len(c2p) = sent
        BY <2>1 DEF CommandsInv
    <2>4. Queues(taken, Given, buffer, Append(c2p, sent + 1), Forwarded)
        <3>1. Forwarded + Len(buffer) + Len(c2p) + 1 <= COMMANDS
            BY <2>1, <2>3, QueueTypes, Sizes
        <3>2. Queues(taken, Given, buffer, Append(c2p, Forwarded + Len(buffer) + Len(c2p) + 1), Forwarded)
            BY <3>1, QueueTypes, QueuesSend DEF CommandsInv
        <3> QED
            BY <3>2, <2>3
    <2>5. Len(Append(c2p, sent + 1)) = Len(c2p) + 1
        BY QueueTypes DEF Queue
    <2>6. Forwarded + Len(buffer) + Len(Append(c2p, sent + 1)) = sent + 1
        BY <2>3, <2>5, QueueTypes
    <2>7. /\ Queues(taken', Given', buffer', c2p', Forwarded')
          /\ Forwarded' + Len(buffer') + Len(c2p') = sent'
        BY <2>1, <2>2, <2>4, <2>6, Zenon
    <2> QED
        BY <2>1, <2>2, <2>7 DEF CommandsInv
<1>10. CASE ClientReceives
    BY <1>10, CommandsSame DEF ClientReceives, origin, proxy, metrics
<1>11. CASE ClientCloses
    BY <1>11, CommandsSame DEF ClientCloses, channels, origin, proxy, metrics
<1>12. CASE OriginTakes
    <2>1. /\ p2o # <<>> /\ p2o' = Tail(p2o)
          /\ taken' = IF Head(p2o) = CAPA THEN taken ELSE Append(taken, Head(p2o))
          /\ UNCHANGED <<pc, sent, lost, reset, buffer, c2p, bytes, transferred>> /\ reset = "no"
        BY <1>12 DEF OriginTakes, client, proxy, metrics
    <2>a. lost = <<>> /\ Given = p2o
        BY <2>1, QueueTypes DEF CommandsInv
    <2>b. Given' = Tail(p2o)
        <3>1. Tail(p2o) \in Queue
            BY <2>1, QueueTypes, Ends DEF Queue
        <3> QED
            BY <2>1, <2>a, <3>1 DEF Given, Queue
    <2>2. Forwarded' = Forwarded
        BY <2>1 DEF Forwarded
    <2>3. Queues(IF Head(p2o) = CAPA THEN taken ELSE Append(taken, Head(p2o)), Tail(p2o),
                 buffer, c2p, Forwarded)
        BY <2>1, <2>a, QueueTypes, QueuesTake DEF CommandsInv
    <2>4. Queues(taken', Given', buffer', c2p', Forwarded')
        BY <2>1, <2>2, <2>3, <2>b, Zenon
    <2> QED
        BY <2>1, <2>2, <2>4 DEF CommandsInv
<1>13. CASE OriginDismisses
    BY <1>13, CommandsSame DEF OriginDismisses, client, channels, proxy, metrics
<1>14. CASE OriginWrites
    BY <1>14, CommandsSame DEF OriginWrites, client, proxy, metrics
<1>15. CASE FilterRuns
    BY <1>15, CommandsSame DEF FilterRuns, client, origin, proxy, metrics
<1>16. CASE OriginResets
    BY <1>16, CommandsSame DEF OriginResets, client, channels, proxy, metrics
<1>17. CASE GreetReset
    BY <1>17, CommandsSame DEF GreetReset, client, channels, metrics
<1>18. CASE AttendClientReset
    BY <1>18, CommandsClose DEF AttendClientReset, CommandsInv, Forwarded, client, origin
<1>19. CASE PipeliningSupportReset
    BY <1>19, CommandsClose DEF PipeliningSupportReset, CommandsInv, Forwarded, client, origin, metrics
<1>20. CASE WriteToOriginReset
    <2>1. /\ pc = "forward" /\ pc' = "forward" /\ lost' = lost \o buffer /\ buffer' = <<>>
          /\ bytes' = bytes /\ transferred' = transferred + Len(buffer) /\ reset' # "no"
          /\ UNCHANGED <<sent, taken, p2o, c2p>> /\ Forwarded = bytes + transferred
        BY <1>20 DEF WriteToOriginReset, Forwarded, client, channels
    <2>2. Forwarded' = Forwarded + Len(buffer)
        <3>1. Forwarded' = bytes + (transferred + Len(buffer))
            BY <2>1 DEF Forwarded
        <3> QED
            BY <2>1, <3>1, QueueTypes
    <2>3. Given' = Given \o buffer
        <3>1. p2o \o (lost \o buffer) = (p2o \o lost) \o buffer
            <4>1. /\ p2o \in Seq(0 .. COMMANDS) /\ lost \in Seq(0 .. COMMANDS)
                  /\ buffer \in Seq(0 .. COMMANDS)
                BY TypesOfOne
            <4> QED
                BY <4>1, Regrouping
        <3> QED
            BY <2>1, <3>1 DEF Given
    <2>4. Take(buffer, Len(buffer)) = buffer /\ Drop(buffer, Len(buffer)) = <<>>
        <3>1. buffer \in Queue /\ Len(buffer) \in Nat
            BY QueueTypes
        <3> QED
            BY <3>1 DEF Take, Drop, Queue
    <2>5. Queues(taken, Given \o buffer, <<>>, c2p, Forwarded + Len(buffer))
        <3>1. Queues(taken, Given \o Take(buffer, Len(buffer)), Drop(buffer, Len(buffer)), c2p,
                     Forwarded + Len(buffer) - Len(Drop(buffer, Len(buffer))))
            BY QueueTypes, QueuesWrite DEF CommandsInv
        <3>2. Forwarded + Len(buffer) - Len(<<>>) = Forwarded + Len(buffer)
            BY QueueTypes
        <3> QED
            BY <2>4, <3>1, <3>2
    <2>6. Queues(taken', Given', buffer', c2p', Forwarded')
        BY <2>1, <2>2, <2>3, <2>5, Zenon
    <2>7. Forwarded + Len(buffer) + Len(c2p) = sent
        BY <2>1 DEF CommandsInv
    <2>8. /\ Forwarded' + Len(buffer') + Len(c2p') = sent' /\ transferred' <= Forwarded'
          /\ Forwarded' <= COMMANDS
        <3>1. /\ transferred <= Forwarded /\ sent <= COMMANDS /\ COMMANDS \in Nat
            BY TypesOfOne, Sizes DEF CommandsInv
        <3>2. Len(buffer') = 0 /\ Len(c2p') = Len(c2p) /\ sent' = sent
            BY <2>1
        <3>3. \A f, b, c, n, t, k \in Nat : f + b + c = n /\ t <= f /\ n <= k =>
                    /\ f + b + 0 + c = n /\ t + b <= f + b /\ f + b <= k
            OBVIOUS
        <3>4. /\ Forwarded \in Nat /\ Len(buffer) \in Nat /\ Len(c2p) \in Nat /\ sent \in Nat
              /\ transferred \in Nat
            BY QueueTypes
        <3>5. /\ Forwarded + Len(buffer) + 0 + Len(c2p) = sent
              /\ transferred + Len(buffer) <= Forwarded + Len(buffer)
              /\ Forwarded + Len(buffer) <= COMMANDS
            BY ONLY <2>7, <3>1, <3>3, <3>4
        <3> QED
            BY <2>1, <2>2, <3>2, <3>5, Zenon
    <2> QED
        BY <2>1, <2>6, <2>8 DEF CommandsInv
<1>21. CASE ReadFromOriginReset
    <2>1. CASE CloseAll
        BY <1>21, <2>1, CommandsClose DEF ReadFromOriginReset, CommandsInv, Forwarded, client, origin, metrics
    <2>2. CASE ~CloseAll
        BY <1>21, <2>2, CommandsSame DEF ReadFromOriginReset, client, origin, metrics
    <2> QED
        BY <2>1, <2>2
<1>22. CASE UNCHANGED vars
    BY <1>22, CommandsSame DEF vars, client, channels, origin, proxy, metrics
<1> QED
    BY <1>1, <1>2, <1>3, <1>4, <1>5, <1>6, <1>7, <1>8, <1>9, <1>10, <1>11, <1>12, <1>13,
       <1>14, <1>15, <1>16, <1>17, <1>18, <1>19, <1>20, <1>21, <1>22
       DEF Next, ProxyStep, ResetStep, PeerStep

\* What CommandsInv says of the five pieces is what the runs check of the whole.
LEMMA CommandsDeliver ==
    ASSUME TypeOK, CommandsInv
    PROVE  CommandsInOrder /\ BytesAreThoseForwarded
<1> DEFINE F == Forwarded
           T == Len(taken)
           B == Len(buffer)
           C == Len(c2p)
<1>1. /\ taken \in Queue /\ Given \in Queue /\ buffer \in Queue /\ c2p \in Queue
      /\ F \in Nat /\ T \in Nat /\ B \in Nat /\ C \in Nat /\ F + B \in Nat /\ T <= F
    BY QueueTypes DEF CommandsInv, Queues, Queue
<1>2. /\ \A i \in 1 .. T : taken[i] = 0 + i
      /\ \A i \in 1 .. B : buffer[i] = F + i
      /\ \A i \in 1 .. C : c2p[i] = F + B + i
      /\ InOrder(Given) /\ Said(Given) = T + 1 .. F
    BY <1>1 DEF CommandsInv, Queues, Queue
<1>3. InOrder(taken) /\ Said(taken) = 1 .. T
    <2>1. ASSUME NEW f \in Nat, f = 0
          PROVE  InOrder(taken) /\ Said(taken) = f + 1 .. f + Len(taken)
        <3>1. \A i \in 1 .. Len(taken) : taken[i] = f + i
            BY <1>1, <1>2, <2>1
        <3> QED
            BY <1>1, <3>1, Consecutive
    <2> QED
        BY <1>1, <2>1
<1>4. InOrder(buffer) /\ Said(buffer) = F + 1 .. F + B
    BY <1>1, <1>2, Consecutive
<1>5. InOrder(c2p) /\ Said(c2p) = F + B + 1 .. F + B + C
    BY <1>1, <1>2, Consecutive
<1> HIDE DEF F, T, B, C
<1>6. taken \o Given \in Queue /\ InOrder(taken \o Given) /\ Said(taken \o Given) = 1 .. F
    <2>1. \A k \in Said(taken), l \in Said(Given) : k < l
        BY <1>1, <1>2, <1>3
    <2>2. /\ taken \o Given \in Queue /\ InOrder(taken \o Given)
          /\ Said(taken \o Given) = Said(taken) \cup Said(Given)
        BY <1>1, <1>2, <1>3, <2>1, OneAfterTheOther
    <2> QED
        BY <1>1, <1>2, <1>3, <2>2
<1>7. /\ taken \o Given \o buffer \in Queue /\ InOrder(taken \o Given \o buffer)
      /\ Said(taken \o Given \o buffer) = 1 .. F + B
    <2>1. \A k \in Said(taken \o Given), l \in Said(buffer) : k < l
        BY <1>1, <1>4, <1>6
    <2>2. /\ taken \o Given \o buffer \in Queue /\ InOrder(taken \o Given \o buffer)
          /\ Said(taken \o Given \o buffer) = Said(taken \o Given) \cup Said(buffer)
        BY <1>1, <1>4, <1>6, <2>1, OneAfterTheOther
    <2> QED
        BY <1>1, <1>4, <1>6, <2>2
<1>8. /\ InOrder(taken \o Given \o buffer \o c2p)
      /\ Said(taken \o Given \o buffer \o c2p) = 1 .. F + B + C
    <2>1. \A k \in Said(taken \o Given \o buffer), l \in Said(c2p) : k < l
        BY <1>1, <1>5, <1>7
    <2>2. /\ InOrder(taken \o Given \o buffer \o c2p)
          /\ Said(taken \o Given \o buffer \o c2p) = Said(taken \o Given \o buffer) \cup Said(c2p)
        BY <1>1, <1>5, <1>7, <2>1, OneAfterTheOther
    <2> QED
        BY <1>1, <1>5, <1>7, <2>2
<1>9. F + B + C = IF pc = "closed" THEN F ELSE sent
    <2>1. CASE pc = "closed"
        <3>1. buffer = <<>> /\ c2p = <<>>
            BY <2>1 DEF CommandsInv
        <3>2. B = 0 /\ C = 0
            BY <3>1 DEF B, C
        <3> QED
            BY <2>1, <3>2, <1>1
    <2>2. CASE pc # "closed"
        BY <2>2 DEF CommandsInv, F, B, C
    <2> QED
        BY <2>1, <2>2
<1>10. taken \o Given = taken \o p2o \o lost
    <2>1. (taken \o p2o) \o lost = taken \o (p2o \o lost)
        <3>1. /\ taken \in Seq(0 .. COMMANDS) /\ p2o \in Seq(0 .. COMMANDS)
              /\ lost \in Seq(0 .. COMMANDS)
            BY TypesOfOne
        <3> QED
            BY <3>1, Regrouping
    <2> QED
        BY <2>1 DEF Given
<1> QED
    BY <1>6, <1>8, <1>9, <1>10 DEF CommandsInOrder, BytesAreThoseForwarded, F

-----------------------------------------------------------------------------
(* The order of the replies.                                               *)

Numbers(s)   == {s[i].n : i \in DOMAIN s}
Ascends(s)   == \A i, j \in DOMAIN s : i < j => s[i].n < s[j].n
Before(M, N) == \A m \in M, n \in N : m < n

\* What the client has, what is on its way to it, the filter's two pipes, what is
\* on its way from the origin, and what the origin still has to write: in each of
\* them the numbers ascend, none is more than n, and each is before those behind it.
Line(got, out, filtered, unfiltered, in, rest, n) ==
    /\ \A s \in {got, out, filtered, unfiltered, in, rest} :
            Ascends(s) /\ Numbers(s) \subseteq 1 .. n
    /\ \A s \in {out, filtered, unfiltered, in, rest} : Before(Numbers(got), Numbers(s))
    /\ \A s \in {filtered, unfiltered, in, rest} : Before(Numbers(out), Numbers(s))
    /\ \A s \in {unfiltered, in, rest} : Before(Numbers(filtered), Numbers(s))
    /\ \A s \in {in, rest} : Before(Numbers(unfiltered), Numbers(s))
    /\ Before(Numbers(in), Numbers(rest))

\* Only the greeting passes by the filter, which has nothing to do by then.
RepliesInv ==
    /\ Line(clientGot, p2c, filterOut, filterIn, o2p, pending, serial)
    /\ pc = "greet" => filterIn = <<>> /\ filterOut = <<>>

\* What becomes of two channels, one behind the other, when some of the second
\* moves to the end of the first, or gets lost.
Moves(first, second, first1, second1) ==
    /\ Ascends(first1) /\ Numbers(first1) \subseteq Numbers(first) \cup Numbers(second)
    /\ Ascends(second1) /\ Numbers(second1) \subseteq Numbers(second)
    /\ Before(Numbers(first1), Numbers(second1))

LEMMA NumbersOfNone == Numbers(<<>>) = {} /\ Ascends(<<>>)
BY DEF Numbers, Ascends

\* A read takes the lowest numbers.
LEMMA NumbersCut ==
    ASSUME NEW s \in Seq(Tokens), NEW n \in Nat, Ascends(s)
    PROVE  /\ Ascends(Take(s, n)) /\ Numbers(Take(s, n)) \subseteq Numbers(s)
           /\ Ascends(Drop(s, n)) /\ Numbers(Drop(s, n)) \subseteq Numbers(s)
           /\ Before(Numbers(Take(s, n)), Numbers(Drop(s, n)))
<1> DEFINE t == Take(s, n)
           d == Drop(s, n)
<1>1. /\ t \in Seq(Tokens) /\ d \in Seq(Tokens) /\ Len(d) = Len(s) - Len(t)
      /\ \A i \in 1 .. Len(t) : t[i] = s[i]
      /\ \A i \in 1 .. Len(d) : d[i] = s[Len(t) + i]
    BY TakeDrop
<1>2. Len(t) \in Nat /\ Len(d) \in Nat /\ Len(s) \in Nat /\ Len(s) = Len(t) + Len(d)
    BY <1>1
<1> HIDE DEF t, d
<1>3. DOMAIN t = 1 .. Len(t) /\ DOMAIN d = 1 .. Len(d) /\ DOMAIN s = 1 .. Len(s)
    BY <1>1
<1>4. \A i \in DOMAIN t : i \in DOMAIN s /\ t[i] = s[i]
    BY <1>1, <1>2, <1>3
<1>5. \A i \in DOMAIN d : Len(t) + i \in DOMAIN s /\ d[i] = s[Len(t) + i]
    BY <1>1, <1>2, <1>3
<1>6. Ascends(t) /\ Numbers(t) \subseteq Numbers(s)
    BY <1>4 DEF Ascends, Numbers
<1>7. Numbers(d) \subseteq Numbers(s)
    BY <1>5 DEF Numbers
<1>8. Ascends(d)
    <2>1. \A i, j \in DOMAIN d : i < j => Len(t) + i < Len(t) + j
        BY <1>2, <1>3
    <2> QED
        BY <1>5, <2>1 DEF Ascends
<1>9. Before(Numbers(t), Numbers(d))
    <2>1. \A i \in DOMAIN t, j \in DOMAIN d : i < Len(t) + j
        BY <1>2, <1>3
    <2> QED
        BY <1>4, <1>5, <2>1 DEF Ascends, Numbers, Before
<1> QED
    BY <1>6, <1>7, <1>8, <1>9 DEF t, d

LEMMA NumbersConcat ==
    ASSUME NEW s \in Seq(Tokens), NEW t \in Seq(Tokens), Ascends(s), Ascends(t),
           Before(Numbers(s), Numbers(t))
    PROVE  /\ s \o t \in Seq(Tokens) /\ Ascends(s \o t)
           /\ Numbers(s \o t) = Numbers(s) \cup Numbers(t)
<1> DEFINE st == s \o t
<1>1. /\ st \in Seq(Tokens) /\ Len(st) = Len(s) + Len(t)
      /\ \A i \in 1 .. Len(s) + Len(t) : st[i] = IF i <= Len(s) THEN s[i] ELSE t[i - Len(s)]
    BY ConcatProperties
<1>2. /\ Len(s) \in Nat /\ Len(t) \in Nat /\ DOMAIN st = 1 .. Len(s) + Len(t)
      /\ DOMAIN s = 1 .. Len(s) /\ DOMAIN t = 1 .. Len(t)
    BY <1>1
<1> HIDE DEF st
<1>3. \A i \in DOMAIN st : \/ i \in DOMAIN s /\ st[i] = s[i]
                           \/ i > Len(s) /\ i - Len(s) \in DOMAIN t /\ st[i] = t[i - Len(s)]
    BY <1>1, <1>2
<1>4. \A i \in DOMAIN s : i \in DOMAIN st /\ st[i] = s[i]
    BY <1>1, <1>2
<1>5. \A i \in DOMAIN t : i + Len(s) \in DOMAIN st /\ st[i + Len(s)] = t[i]
    BY <1>1, <1>2
<1>6. Numbers(st) = Numbers(s) \cup Numbers(t)
    <2>1. Numbers(st) \subseteq Numbers(s) \cup Numbers(t)
        BY <1>3 DEF Numbers
    <2>2. Numbers(s) \subseteq Numbers(st)
        BY <1>4 DEF Numbers
    <2>3. Numbers(t) \subseteq Numbers(st)
        BY <1>5 DEF Numbers
    <2> QED
        BY <2>1, <2>2, <2>3
<1>7. Ascends(st)
    <2> SUFFICES ASSUME NEW i \in DOMAIN st, NEW j \in DOMAIN st, i < j
                 PROVE  st[i].n < st[j].n
        BY DEF Ascends
    <2>1. CASE j \in DOMAIN s /\ st[j] = s[j]
        <3>1. i \in DOMAIN s /\ st[i] = s[i]
            BY <2>1, <1>2, <1>3
        <3> QED
            BY <2>1, <3>1 DEF Ascends
    <2>2. CASE j > Len(s) /\ j - Len(s) \in DOMAIN t /\ st[j] = t[j - Len(s)]
        <3>1. CASE i \in DOMAIN s /\ st[i] = s[i]
            BY <2>2, <3>1 DEF Before, Numbers
        <3>2. CASE i > Len(s) /\ i - Len(s) \in DOMAIN t /\ st[i] = t[i - Len(s)]
            <4>1. i - Len(s) < j - Len(s)
                BY <1>2
            <4> QED
                BY <2>2, <3>2, <4>1 DEF Ascends
        <3> QED
            BY <1>3, <3>1, <3>2
    <2> QED
        BY <1>3, <2>1, <2>2
<1> QED
    BY <1>1, <1>6, <1>7 DEF st

\* Some of the second channel goes to the end of the first.
LEMMA MovesSome ==
    ASSUME NEW s \in Seq(Tokens), NEW t \in Seq(Tokens), NEW moved \in Seq(Tokens), NEW left,
           Ascends(s), Before(Numbers(s), Numbers(t)),
           Ascends(moved), Numbers(moved) \subseteq Numbers(t),
           Ascends(left), Numbers(left) \subseteq Numbers(t),
           Before(Numbers(moved), Numbers(left))
    PROVE  Moves(s, t, s \o moved, left)
<1>1. Before(Numbers(s), Numbers(moved))
    BY DEF Before
<1>2. Ascends(s \o moved) /\ Numbers(s \o moved) = Numbers(s) \cup Numbers(moved)
    BY <1>1, NumbersConcat
<1>3. Before(Numbers(s \o moved), Numbers(left))
    BY <1>2 DEF Before
<1> QED
    BY <1>2, <1>3 DEF Moves

\* Or just its head does.
LEMMA MovesHead ==
    ASSUME NEW s \in Seq(Tokens), NEW t \in Seq(Tokens), t # <<>>,
           Ascends(s), Ascends(t), Before(Numbers(s), Numbers(t))
    PROVE  Moves(s, t, Append(s, Head(t)), Tail(t))
<1> DEFINE moved == <<Head(t)>>
           rest  == Tail(t)
<1>1. /\ Head(t) = t[1] /\ t[1] \in Tokens /\ 1 \in 1 .. Len(t)
      /\ rest \in Seq(Tokens) /\ Len(rest) \in Nat /\ Len(t) = Len(rest) + 1
      /\ \A i \in 1 .. Len(rest) : rest[i] = t[i + 1]
    BY Ends
<1>2. moved \in Seq(Tokens) /\ Ascends(moved) /\ Numbers(moved) = {t[1].n}
    BY <1>1 DEF Ascends, Numbers
<1>3. Append(s, Head(t)) = s \o moved
    BY <1>1
<1> HIDE DEF moved, rest
<1>4. DOMAIN rest = 1 .. Len(rest) /\ DOMAIN t = 1 .. Len(t)
    BY <1>1
<1>5. \A i \in DOMAIN rest : i + 1 \in DOMAIN t /\ 1 < i + 1 /\ rest[i] = t[i + 1]
    BY <1>1, <1>4
<1>6. 1 \in DOMAIN t /\ t[1].n \in Numbers(t)
    BY <1>1, <1>4 DEF Numbers
<1>7. Numbers(rest) \subseteq Numbers(t)
    BY <1>5 DEF Numbers
<1>8. Ascends(rest)
    <2>1. \A i, j \in DOMAIN rest : i < j => i + 1 < j + 1
        BY <1>4
    <2> QED
        BY <1>5, <2>1 DEF Ascends
<1>9. Before(Numbers(moved), Numbers(rest))
    <2>1. \A i \in DOMAIN rest : t[1].n < rest[i].n
        BY <1>5, <1>6 DEF Ascends
    <2> QED
        BY <1>2, <2>1 DEF Before, Numbers
<1> QED
    BY <1>2, <1>3, <1>6, <1>7, <1>8, <1>9, MovesSome DEF rest

\* A move between neighbours keeps the line, and so does one past an empty filter.
LEMMA LineMoves ==
    ASSUME NEW g, NEW c, NEW o, NEW i, NEW s, NEW p, NEW n, Line(g, c, o, i, s, p, n), NEW x, NEW y
    PROVE  /\ Moves(g, c, x, y) => Line(x, y, o, i, s, p, n)
           /\ Moves(c, o, x, y) => Line(g, x, y, i, s, p, n)
           /\ Moves(o, i, x, y) => Line(g, c, x, y, s, p, n)
           /\ Moves(i, s, x, y) => Line(g, c, o, x, y, p, n)
           /\ Moves(s, p, x, y) => Line(g, c, o, i, x, y, n)
           /\ Moves(c, s, x, y) => Line(g, x, <<>>, <<>>, y, p, n)
<1>1. ASSUME Moves(g, c, x, y) PROVE Line(x, y, o, i, s, p, n)
    BY <1>1 DEF Line, Moves, Before
<1>2. ASSUME Moves(c, o, x, y) PROVE Line(g, x, y, i, s, p, n)
    BY <1>2 DEF Line, Moves, Before
<1>3. ASSUME Moves(o, i, x, y) PROVE Line(g, c, x, y, s, p, n)
    BY <1>3 DEF Line, Moves, Before
<1>4. ASSUME Moves(i, s, x, y) PROVE Line(g, c, o, x, y, p, n)
    BY <1>4 DEF Line, Moves, Before
<1>5. ASSUME Moves(s, p, x, y) PROVE Line(g, c, o, i, x, y, n)
    BY <1>5 DEF Line, Moves, Before
<1>6. ASSUME Moves(c, s, x, y) PROVE Line(g, x, <<>>, <<>>, y, p, n)
    BY <1>6, NumbersOfNone DEF Line, Moves, Before
<1> QED
    BY <1>1, <1>2, <1>3, <1>4, <1>5, <1>6

\* A new reply is numbered after all there ever was.
LEMMA LineReply ==
    ASSUME NEW g, NEW c, NEW o, NEW i, NEW s, NEW n \in Nat, Line(g, c, o, i, s, <<>>, n),
           NEW p \in Seq(Tokens), \A j \in 1 .. Len(p) : p[j].n = n + j
    PROVE  Line(g, c, o, i, s, p, n + Len(p))
<1>1. DOMAIN p = 1 .. Len(p) /\ Len(p) \in Nat
    OBVIOUS
<1>2. Ascends(p) /\ Numbers(p) \subseteq 1 .. n + Len(p)
    BY <1>1 DEF Ascends, Numbers
<1>3. ASSUME NEW q, Numbers(q) \subseteq 1 .. n
      PROVE  Numbers(q) \subseteq 1 .. n + Len(p) /\ Before(Numbers(q), Numbers(p))
    <2>1. \A k \in 1 .. n : k \in 1 .. n + Len(p)
        BY <1>1
    <2>2. \A l \in Numbers(p) : l \in Nat /\ l > n
        BY <1>1 DEF Numbers
    <2>3. \A k \in 1 .. n, l \in Nat : l > n => k < l
        OBVIOUS
    <2> QED
        BY <1>3, <2>1, <2>2, <2>3 DEF Before
<1> QED
    BY <1>2, <1>3 DEF Line

LEMMA LineClose ==
    ASSUME NEW g, NEW c, NEW o, NEW i, NEW s, NEW p, NEW n, Line(g, c, o, i, s, p, n)
    PROVE  Line(g, c, <<>>, <<>>, <<>>, p, n)
BY NumbersOfNone DEF Line, Before

LEMMA RepliesInit == Init => RepliesInv
<1> SUFFICES ASSUME Init PROVE RepliesInv
    OBVIOUS
<1> DEFINE greeting == <<[n |-> 1, to |-> GREETING, text |-> "LF", last |-> TRUE]>>
<1>1. Ascends(greeting) /\ Numbers(greeting) \subseteq 1 .. 1
    BY DEF Ascends, Numbers
<1> HIDE DEF greeting
<1>2. Line(<<>>, <<>>, <<>>, <<>>, <<>>, greeting, 1)
    BY <1>1, NumbersOfNone DEF Line, Before
<1>3. /\ clientGot = <<>> /\ p2c = <<>> /\ filterOut = <<>> /\ filterIn = <<>> /\ o2p = <<>>
      /\ pending = greeting /\ serial = 1
    BY DEF Init, greeting
<1> QED
    BY <1>2, <1>3 DEF RepliesInv

\* Each channel on its own, and next to the one behind it.
LEMMA LineParts ==
    ASSUME RepliesInv
    PROVE  /\ Ascends(clientGot) /\ Ascends(p2c) /\ Ascends(filterOut) /\ Ascends(filterIn)
           /\ Ascends(o2p) /\ Ascends(pending)
           /\ Before(Numbers(clientGot), Numbers(p2c)) /\ Before(Numbers(p2c), Numbers(filterOut))
           /\ Before(Numbers(filterOut), Numbers(filterIn)) /\ Before(Numbers(filterIn), Numbers(o2p))
           /\ Before(Numbers(o2p), Numbers(pending)) /\ Before(Numbers(p2c), Numbers(o2p))
BY DEF RepliesInv, Line

LEMMA RepliesSame ==
    ASSUME RepliesInv, UNCHANGED <<clientGot, p2c, filterOut, filterIn, o2p, pending, serial>>,
           pc' = pc \/ pc' # "greet"
    PROVE  RepliesInv'
BY Zenon DEF RepliesInv

LEMMA RepliesClose ==
    ASSUME RepliesInv, CloseAll, UNCHANGED <<clientGot, p2c, pending, serial>>
    PROVE  RepliesInv'
<1>1. Line(clientGot, p2c, <<>>, <<>>, <<>>, pending, serial)
    BY LineClose DEF RepliesInv
<1>2. /\ filterOut' = <<>> /\ filterIn' = <<>> /\ o2p' = <<>> /\ pc' # "greet"
    BY DEF CloseAll
<1> QED
    BY <1>1, <1>2, Zenon DEF RepliesInv

\* What a write to the client or to the filter takes of a read is a part of it, and
\* what was not read stays behind.
LEMMA ReadAndWritten ==
    ASSUME TypeOK, NEW s \in Seq(Tokens), NEW n \in Nat, NEW m \in Nat, Ascends(s)
    PROVE  /\ Take(Take(s, n), m) \in Seq(Tokens) /\ Ascends(Take(Take(s, n), m))
           /\ Numbers(Take(Take(s, n), m)) \subseteq Numbers(s)
           /\ Before(Numbers(Take(Take(s, n), m)), Numbers(Drop(s, n)))
<1>1. Take(s, n) \in Seq(Tokens) /\ Take(Take(s, n), m) \in Seq(Tokens)
    BY Cut
<1>2. /\ Ascends(Take(s, n)) /\ Numbers(Take(s, n)) \subseteq Numbers(s)
      /\ Before(Numbers(Take(s, n)), Numbers(Drop(s, n)))
    BY NumbersCut
<1>3. /\ Ascends(Take(Take(s, n), m))
      /\ Numbers(Take(Take(s, n), m)) \subseteq Numbers(Take(s, n))
    BY <1>1, <1>2, NumbersCut
<1> QED
    BY <1>1, <1>2, <1>3 DEF Before

LEMMA ToClientMoves ==
    ASSUME TypeOK, NEW s \in Seq(Tokens), NEW n \in Nat, Ascends(p2c), Ascends(s),
           Before(Numbers(p2c), Numbers(s))
    PROVE  Moves(p2c, s, ToClient(Take(s, n)), Drop(s, n))
<1> DEFINE room == SOCKET - Len(p2c)
           part == Take(Take(s, n), room)
<1>1. room \in Nat /\ p2c \in Seq(Tokens)
    BY TypesOfOne, Sizes
<1> HIDE DEF room
<1>2. /\ part \in Seq(Tokens) /\ Ascends(part) /\ Numbers(part) \subseteq Numbers(s)
      /\ Before(Numbers(part), Numbers(Drop(s, n)))
    BY <1>1, ReadAndWritten
<1>3. Ascends(Drop(s, n)) /\ Numbers(Drop(s, n)) \subseteq Numbers(s)
    BY NumbersCut
<1> HIDE DEF part
<1>4. Moves(p2c, s, p2c \o part, Drop(s, n))
    BY <1>1, <1>2, <1>3, MovesSome
<1> QED
    BY <1>4 DEF ToClient, part, room

LEMMA RepliesStep == TypeOK /\ RepliesInv /\ [Next]_vars => RepliesInv'
<1> SUFFICES ASSUME TypeOK, RepliesInv, [Next]_vars PROVE RepliesInv'
    OBVIOUS
<1>0. Line(clientGot, p2c, filterOut, filterIn, o2p, pending, serial)
    BY DEF RepliesInv
<1>1. CASE Greet
    <2>1. /\ p2c' = ToClient(Take(o2p, 2 * BUFF_SIZE)) /\ o2p' = Drop(o2p, 2 * BUFF_SIZE)
          /\ filterIn' = <<>> /\ filterOut' = <<>>
          /\ UNCHANGED <<clientGot, pending, serial>>
        BY <1>1 DEF Greet, RepliesInv, client, origin
    <2>2. 2 * BUFF_SIZE \in Nat /\ o2p \in Seq(Tokens)
        BY Sizes, TypesOfOne
    <2>3. Moves(p2c, o2p, ToClient(Take(o2p, 2 * BUFF_SIZE)), Drop(o2p, 2 * BUFF_SIZE))
        BY <2>2, LineParts, ToClientMoves
    <2>4. Line(clientGot, ToClient(Take(o2p, 2 * BUFF_SIZE)), <<>>, <<>>, Drop(o2p, 2 * BUFF_SIZE),
               pending, serial)
        BY <1>0, <2>3, LineMoves
    <2>5. Line(clientGot', p2c', filterOut', filterIn', o2p', pending', serial')
        BY <2>1, <2>4, Zenon
    <2> QED
        BY <2>1, <2>5 DEF RepliesInv
<1>2. CASE Select
    BY <1>2, RepliesSame DEF Select, client, channels, origin
<1>3. CASE AttendClient
    BY <1>3, RepliesSame DEF AttendClient, client, origin
<1>4. CASE PipeliningSupport
    <2>1. CASE CloseAll
        BY <1>4, <2>1, RepliesClose DEF PipeliningSupport, client, origin
    <2>2. CASE o2p' = Drop(o2p, BUFF_SIZE) /\ UNCHANGED <<filterIn, filterOut>>
        <3>1. UNCHANGED <<clientGot, p2c, pending, serial>> /\ pc' # "greet"
            BY <1>4, <2>2 DEF PipeliningSupport, client, origin, CloseAll
        <3>2. Ascends(Drop(o2p, BUFF_SIZE)) /\ Numbers(Drop(o2p, BUFF_SIZE)) \subseteq Numbers(o2p)
            BY LineParts, TypesOfOne, Sizes, NumbersCut
        <3>3. Moves(filterIn, o2p, filterIn, Drop(o2p, BUFF_SIZE))
            BY <3>2, LineParts DEF Moves, Before
        <3>4. Line(clientGot, p2c, filterOut, filterIn, Drop(o2p, BUFF_SIZE), pending, serial)
            BY <1>0, <3>3, LineMoves
        <3>5. Line(clientGot', p2c', filterOut', filterIn', o2p', pending', serial')
            BY <2>2, <3>1, <3>4, Zenon
        <3> QED
            BY <3>1, <3>5 DEF RepliesInv
    <2> QED
        BY <1>4, <2>1, <2>2 DEF PipeliningSupport
<1>5. CASE ReadFromClient
    <2>1. CASE CloseAll
        BY <1>5, <2>1, RepliesClose DEF ReadFromClient, client, origin
    <2>2. CASE ~CloseAll
        BY <1>5, <2>2, RepliesSame DEF ReadFromClient, client, origin
    <2> QED
        BY <2>1, <2>2
<1>6. CASE WriteToOrigin
    BY <1>6, RepliesSame DEF WriteToOrigin, client, origin
<1>7. CASE ReadFromOrigin
    <2> DEFINE read == IF "origin" \in ready THEN Take(o2p, BUFF_SIZE) ELSE <<>>
               left == Drop(o2p, Len(read))
    <2>1. CASE CloseAll
        BY <1>7, <2>1, RepliesClose DEF ReadFromOrigin, client, origin
    <2>2. CASE filterIn' = ToFilter(read) /\ o2p' = left /\ pc' = "filters" /\ filterOut' = filterOut
        <3>1. /\ read \in Seq(Tokens) /\ left \in Seq(Tokens)
              /\ Ascends(read) /\ Numbers(read) \subseteq Numbers(o2p)
              /\ Ascends(left) /\ Numbers(left) \subseteq Numbers(o2p)
              /\ Before(Numbers(read), Numbers(left))
            <4>1. o2p \in Seq(Tokens) /\ Ascends(o2p) /\ BUFF_SIZE \in Nat
                BY LineParts, TypesOfOne, Sizes
            <4>2. CASE "origin" \in ready
                <5>1. read = Take(o2p, BUFF_SIZE)
                    BY <4>2
                <5>2. read \in Seq(Tokens) /\ Len(read) \in Nat /\ left = Drop(o2p, BUFF_SIZE)
                    <6>1. read \in Seq(Tokens)
                        BY <4>1, <5>1, Cut
                    <6>2. Len(read) = IF BUFF_SIZE < Len(o2p) THEN BUFF_SIZE ELSE Len(o2p)
                        BY <4>1, <5>1, TakeDrop
                    <6>3. Len(o2p) \in Nat
                        BY <4>1
                    <6> HIDE DEF read
                    <6>4. left = Drop(o2p, BUFF_SIZE)
                        BY <4>1, <6>2, <6>3 DEF Drop
                    <6> QED
                        BY <4>1, <6>1, <6>2, <6>3, <6>4
                <5>3. /\ Ascends(Take(o2p, BUFF_SIZE)) /\ Numbers(Take(o2p, BUFF_SIZE)) \subseteq Numbers(o2p)
                      /\ Ascends(Drop(o2p, BUFF_SIZE)) /\ Numbers(Drop(o2p, BUFF_SIZE)) \subseteq Numbers(o2p)
                      /\ Before(Numbers(Take(o2p, BUFF_SIZE)), Numbers(Drop(o2p, BUFF_SIZE)))
                    BY <4>1, NumbersCut
                <5>4. Drop(o2p, BUFF_SIZE) \in Seq(Tokens)
                    BY <4>1, Cut
                <5> HIDE DEF read, left
                <5> QED
                    BY <5>1, <5>2, <5>3, <5>4
            <4>3. CASE "origin" \notin ready
                <5>1. read = <<>> /\ left = Drop(o2p, 0)
                    BY <4>3
                <5>2. left \in Seq(Tokens) /\ Ascends(left) /\ Numbers(left) \subseteq Numbers(o2p)
                    BY <4>1, <5>1, Cut, NumbersCut
                <5> HIDE DEF read, left
                <5>3. read \in Seq(Tokens) /\ Ascends(read) /\ Numbers(read) = {}
                    BY <5>1, NumbersOfNone
                <5> QED
                    BY <5>2, <5>3 DEF Before
            <4> QED
                BY <4>2, <4>3
        <3> HIDE DEF read, left
        <3>2. filterIn \in Seq(Tokens) /\ o2p \in Seq(Tokens)
            BY TypesOfOne
        <3>3. Moves(filterIn, o2p, filterIn \o read, left)
            BY <3>1, <3>2, LineParts, MovesSome
        <3>4. Moves(filterIn, o2p, filterIn, left)
            BY <3>1, LineParts DEF Moves, Before
        <3>5. Moves(filterIn, o2p, ToFilter(read), left)
            BY <3>3, <3>4 DEF ToFilter
        <3>6. Line(clientGot, p2c, filterOut, ToFilter(read), left, pending, serial)
            BY <1>0, <3>5, LineMoves
        <3>7. UNCHANGED <<clientGot, p2c, pending, serial>>
            BY <1>7 DEF ReadFromOrigin, client, origin
        <3>8. Line(clientGot', p2c', filterOut', filterIn', o2p', pending', serial')
            BY <2>2, <3>6, <3>7, Zenon
        <3> QED
            BY <2>2, <3>8 DEF RepliesInv
    <2> QED
        BY <1>7, <2>1, <2>2 DEF ReadFromOrigin
<1>8. CASE ReadFromFilter
    <2>1. CASE "filter" \in ready
        <3>1. /\ p2c' = ToClient(Take(filterOut, BUFF_SIZE)) /\ filterOut' = Drop(filterOut, BUFF_SIZE)
              /\ UNCHANGED <<clientGot, filterIn, o2p, pending, serial>> /\ pc' # "greet"
            BY <1>8, <2>1 DEF ReadFromFilter, client, origin
        <3>2. Moves(p2c, filterOut, ToClient(Take(filterOut, BUFF_SIZE)), Drop(filterOut, BUFF_SIZE))
            <4>1. filterOut \in Seq(Tokens) /\ BUFF_SIZE \in Nat
                BY TypesOfOne, Sizes
            <4> QED
                BY <4>1, LineParts, ToClientMoves
        <3>3. Line(clientGot, ToClient(Take(filterOut, BUFF_SIZE)), Drop(filterOut, BUFF_SIZE),
                   filterIn, o2p, pending, serial)
            BY <1>0, <3>2, LineMoves
        <3>4. Line(clientGot', p2c', filterOut', filterIn', o2p', pending', serial')
            BY <3>1, <3>3, Zenon
        <3> QED
            BY <3>1, <3>4 DEF RepliesInv
    <2>2. CASE "filter" \notin ready
        BY <1>8, <2>2, RepliesSame DEF ReadFromFilter, client, origin
    <2> QED
        BY <2>1, <2>2
<1>9. CASE ClientSends
    BY <1>9, RepliesSame DEF ClientSends, origin, proxy
<1>10. CASE ClientReceives
    <2>1. /\ p2c # <<>> /\ clientGot' = Append(clientGot, Head(p2c)) /\ p2c' = Tail(p2c)
          /\ UNCHANGED <<filterOut, filterIn, o2p, pending, serial, pc>>
        BY <1>10 DEF ClientReceives, origin, proxy
    <2>2. Moves(clientGot, p2c, Append(clientGot, Head(p2c)), Tail(p2c))
        BY <2>1, LineParts, TypesOfOne, MovesHead
    <2>3. Line(Append(clientGot, Head(p2c)), Tail(p2c), filterOut, filterIn, o2p, pending, serial)
        BY <1>0, <2>2, LineMoves
    <2>4. Line(clientGot', p2c', filterOut', filterIn', o2p', pending', serial')
        BY <2>1, <2>3, Zenon
    <2> QED
        BY <2>1, <2>4 DEF RepliesInv
<1>11. CASE ClientCloses
    BY <1>11, RepliesSame DEF ClientCloses, channels, origin, proxy
<1>12. ASSUME NEW to \in BYE .. COMMANDS, NEW text \in CAPA_TEXTS \cup REPLIES \cup {GOODBYE},
              pending = <<>>, pending' = Reply(to, text), serial' = serial + Len(text),
              UNCHANGED <<clientGot, p2c, filterOut, filterIn, o2p, pc>>
       PROVE  RepliesInv'
    <2>1. /\ Reply(to, text) \in Seq(Tokens) /\ Len(Reply(to, text)) = Len(text)
          /\ \A j \in 1 .. Len(Reply(to, text)) : Reply(to, text)[j].n = serial + j
        BY ReplyType
    <2>2. Line(clientGot, p2c, filterOut, filterIn, o2p, <<>>, serial) /\ serial \in Nat
        BY <1>0, <1>12, TypesOfOne
    <2>3. Line(clientGot, p2c, filterOut, filterIn, o2p, Reply(to, text), serial + Len(text))
        BY <2>1, <2>2, LineReply
    <2>4. Line(clientGot', p2c', filterOut', filterIn', o2p', pending', serial')
        BY <1>12, <2>3, Zenon
    <2> QED
        BY <1>12, <2>4 DEF RepliesInv
<1>13. CASE OriginTakes
    <2>1. Head(p2o) \in BYE .. COMMANDS
        <3>1. Head(p2o) \in 0 .. COMMANDS
            BY <1>13, TypesOfOne, Ends DEF OriginTakes
        <3> QED
            BY <3>1, Sizes DEF BYE
    <2>2. PICK text \in CAPA_TEXTS \cup REPLIES \cup {GOODBYE} :
                pending' = Reply(Head(p2o), text) /\ serial' = serial + Len(text)
        BY <1>13 DEF OriginTakes, TypeOK
    <2> QED
        BY <1>12, <1>13, <2>1, <2>2 DEF OriginTakes, client, proxy
<1>14. CASE OriginDismisses
    <2>1. BYE \in BYE .. COMMANDS
        BY Sizes DEF BYE
    <2> QED
        BY <1>12, <1>14, <2>1 DEF OriginDismisses, client, channels, proxy
<1>15. CASE OriginWrites
    <2>1. PICK n \in 1 .. Len(pending) :
            o2p' = o2p \o Take(pending, n) /\ pending' = Drop(pending, n)
        BY <1>15 DEF OriginWrites
    <2>2. UNCHANGED <<clientGot, p2c, filterOut, filterIn, serial, pc>>
        BY <1>15 DEF OriginWrites, client, proxy
    <2>3. /\ n \in Nat /\ pending \in Seq(Tokens) /\ o2p \in Seq(Tokens)
          /\ Take(pending, n) \in Seq(Tokens)
        BY TypesOfOne, Cut
    <2>4. /\ Ascends(Take(pending, n)) /\ Numbers(Take(pending, n)) \subseteq Numbers(pending)
          /\ Ascends(Drop(pending, n)) /\ Numbers(Drop(pending, n)) \subseteq Numbers(pending)
          /\ Before(Numbers(Take(pending, n)), Numbers(Drop(pending, n)))
        BY <2>3, LineParts, NumbersCut
    <2>5. Moves(o2p, pending, o2p \o Take(pending, n), Drop(pending, n))
        BY <2>3, <2>4, LineParts, MovesSome
    <2>6. Line(clientGot, p2c, filterOut, filterIn, o2p \o Take(pending, n), Drop(pending, n), serial)
        BY <1>0, <2>5, LineMoves
    <2>7. Line(clientGot', p2c', filterOut', filterIn', o2p', pending', serial')
        BY <2>1, <2>2, <2>6, Zenon
    <2> QED
        BY <2>2, <2>7 DEF RepliesInv
<1>16. CASE FilterRuns
    <2>1. /\ filterIn # <<>> /\ filterOut' = Append(filterOut, Head(filterIn))
          /\ filterIn' = Tail(filterIn)
          /\ UNCHANGED <<clientGot, p2c, o2p, pending, serial, pc>>
        BY <1>16 DEF FilterRuns, client, origin, proxy
    <2>2. Moves(filterOut, filterIn, Append(filterOut, Head(filterIn)), Tail(filterIn))
        BY <2>1, LineParts, TypesOfOne, MovesHead
    <2>3. Line(clientGot, p2c, Append(filterOut, Head(filterIn)), Tail(filterIn), o2p, pending, serial)
        BY <1>0, <2>2, LineMoves
    <2>4. Line(clientGot', p2c', filterOut', filterIn', o2p', pending', serial')
        BY <2>1, <2>3, Zenon
    <2> QED
        BY <2>1, <2>4 DEF RepliesInv
<1>17. CASE OriginResets
    <2>1. /\ pending' = <<>> /\ UNCHANGED <<clientGot, p2c, filterOut, filterIn, o2p, serial, pc>>
        BY <1>17 DEF OriginResets, client, channels, proxy
    <2>2. Moves(o2p, pending, o2p, <<>>)
        BY LineParts, NumbersOfNone DEF Moves, Before
    <2>3. Line(clientGot, p2c, filterOut, filterIn, o2p, <<>>, serial)
        BY <1>0, <2>2, LineMoves
    <2>4. Line(clientGot', p2c', filterOut', filterIn', o2p', pending', serial')
        BY <2>1, <2>3, Zenon
    <2> QED
        BY <2>1, <2>4 DEF RepliesInv
<1>18. CASE GreetReset
    BY <1>18, RepliesSame DEF GreetReset, client, channels
<1>19. CASE AttendClientReset
    BY <1>19, RepliesClose DEF AttendClientReset, client, origin
<1>20. CASE PipeliningSupportReset
    BY <1>20, RepliesClose DEF PipeliningSupportReset, client, origin
<1>21. CASE WriteToOriginReset
    BY <1>21, RepliesSame DEF WriteToOriginReset, client, channels
<1>22. CASE ReadFromOriginReset
    <2>1. CASE CloseAll
        BY <1>22, <2>1, RepliesClose DEF ReadFromOriginReset, client, origin
    <2>2. CASE ~CloseAll
        BY <1>22, <2>2, RepliesSame DEF ReadFromOriginReset, client, origin
    <2> QED
        BY <2>1, <2>2
<1>23. CASE UNCHANGED vars
    BY <1>23, RepliesSame DEF vars, client, channels, origin, proxy
<1> QED
    BY <1>1, <1>2, <1>3, <1>4, <1>5, <1>6, <1>7, <1>8, <1>9, <1>10, <1>11, <1>13, <1>14,
       <1>15, <1>16, <1>17, <1>18, <1>19, <1>20, <1>21, <1>22, <1>23
       DEF Next, ProxyStep, ResetStep, PeerStep

\* What Line says of the channels one by one holds of them end to end.
LEMMA RepliesArrive ==
    ASSUME TypeOK, RepliesInv
    PROVE  RepliesInOrder
<1>1. /\ clientGot \in Seq(Tokens) /\ p2c \in Seq(Tokens) /\ filterOut \in Seq(Tokens)
      /\ filterIn \in Seq(Tokens) /\ o2p \in Seq(Tokens) /\ pending \in Seq(Tokens)
    BY TypesOfOne
<1> DEFINE s2 == clientGot \o p2c
           s3 == s2 \o filterOut
           s4 == s3 \o filterIn
           s5 == s4 \o o2p
           s6 == s5 \o pending
<1>2. s2 \in Seq(Tokens) /\ Ascends(s2) /\ Numbers(s2) = Numbers(clientGot) \cup Numbers(p2c)
    BY <1>1, LineParts, NumbersConcat
<1> HIDE DEF s2
<1>3. Before(Numbers(s2), Numbers(filterOut))
    BY <1>2 DEF RepliesInv, Line, Before
<1>4. s3 \in Seq(Tokens) /\ Ascends(s3) /\ Numbers(s3) = Numbers(s2) \cup Numbers(filterOut)
    BY <1>1, <1>2, <1>3, LineParts, NumbersConcat
<1> HIDE DEF s3
<1>5. Before(Numbers(s3), Numbers(filterIn))
    BY <1>2, <1>4 DEF RepliesInv, Line, Before
<1>6. s4 \in Seq(Tokens) /\ Ascends(s4) /\ Numbers(s4) = Numbers(s3) \cup Numbers(filterIn)
    BY <1>1, <1>4, <1>5, LineParts, NumbersConcat
<1> HIDE DEF s4
<1>7. Before(Numbers(s4), Numbers(o2p))
    BY <1>2, <1>4, <1>6 DEF RepliesInv, Line, Before
<1>8. s5 \in Seq(Tokens) /\ Ascends(s5) /\ Numbers(s5) = Numbers(s4) \cup Numbers(o2p)
    BY <1>1, <1>6, <1>7, LineParts, NumbersConcat
<1> HIDE DEF s5
<1>9. Before(Numbers(s5), Numbers(pending))
    BY <1>2, <1>4, <1>6, <1>8 DEF RepliesInv, Line, Before
<1>10. Ascends(s6)
    BY <1>1, <1>8, <1>9, LineParts, NumbersConcat
<1>11. s6 = clientGot \o p2c \o filterOut \o filterIn \o o2p \o pending
    BY DEF s2, s3, s4, s5
<1> HIDE DEF s6
<1> QED
    BY <1>10, <1>11 DEF RepliesInOrder, Ascends

-----------------------------------------------------------------------------
(* The inductive invariant, and what follows from it.                      *)

IInv == TypeOK /\ CommandsInv /\ RepliesInv

LEMMA Invariance == Spec => []IInv
<1>1. Init => IInv
    BY TypeInit, CommandsInit, RepliesInit DEF IInv
<1>2. IInv /\ [Next]_vars => IInv'
    <2> SUFFICES ASSUME IInv, [Next]_vars PROVE IInv'
        OBVIOUS
    <2>1. CommandsInv' /\ RepliesInv'
        BY CommandsStep, RepliesStep DEF IInv
    <2>2. Forwarded' <= COMMANDS
        BY <2>1 DEF CommandsInv
    <2>3. TypeOK'
        BY <2>2, TypeStep DEF IInv
    <2> QED
        BY <2>1, <2>3 DEF IInv
<1> QED
    BY <1>1, <1>2, PTL DEF Spec

\* No socket, pipe or buffer ever holds more than its room, whatever the sizes:
\* readFromClient and readFromOrigin write no more than what they found.
THEOREM TypeCorrect == Spec => []TypeOK
<1>1. IInv => TypeOK
    BY DEF IInv
<1> QED
    BY <1>1, Invariance, PTL

\* The commands of the client reach the origin whole, once and in order, however
\* they are cut by reads and writes and mixed with the proxy's CAPA.
THEOREM CommandsReachOrigin == Spec => []CommandsInOrder
<1>1. IInv => CommandsInOrder
    BY CommandsDeliver DEF IInv
<1> QED
    BY <1>1, Invariance, PTL

\* The metric BYTES is the count of what readFromClient took and gave to write, at every
\* step between the writes and the addition at its end, whether they succeed or fail
\* with an origin that has reset its connection.  It is so no count of what the origin
\* got.
THEOREM BytesAreCounted == Spec => []BytesAreThoseForwarded
<1>1. IInv => BytesAreThoseForwarded
    BY CommandsDeliver DEF IInv
<1> QED
    BY <1>1, Invariance, PTL

\* Whatever is lost of the replies, by a full pipe, a full socket or pipeliningSupport,
\* the rest keeps its order.
THEOREM RepliesKeepOrder == Spec => []RepliesInOrder
<1>1. IInv => RepliesInOrder
    BY RepliesArrive DEF IInv
<1> QED
    BY <1>1, Invariance, PTL

=============================================================================
