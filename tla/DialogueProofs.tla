--------------------------- MODULE DialogueProofs ---------------------------
(***************************************************************************)
(* Proofs about Pop3Session for a client that waits for each reply: what   *)
(* it sees is a dialogue of Pop3Dialogue, and the proxy ends it only with  *)
(* a reason, for every number of commands, every size and every text of    *)
(* the replies and the capabilities that fits.                             *)
(***************************************************************************)
EXTENDS Pop3Proofs, WellFoundedInduction

-----------------------------------------------------------------------------
(* The inductive invariant.                                                *)

\* What the tokens that are on their way answer, unless they are a good-bye.
Answering(n) == IF n = 0 THEN GREETING ELSE n

\* From the proxy to the client.
flow == p2c \o filterOut \o filterIn

\* The last m tokens of the reply to k, and then nothing but good-bye; where it is
\* not whole the end may be missing.
Part(s, k, m, whole) ==
    /\ m \in 0 .. Len(s)
    /\ \A i \in 1 .. m : s[i].to = k /\ (s[i].last => i = m)
    /\ m >= 1 /\ (whole \/ m < Len(s)) => s[m].last
    /\ \A i \in m + 1 .. Len(s) : s[i].to = BYE

Byes(s)  == \A i \in 1 .. Len(s) : s[i].to = BYE
NoBye(s) == \A i \in 1 .. Len(s) : s[i].to # BYE

Answers(h, n) == \E i \in 1 .. Len(h) : h[i].last /\ h[i].to = Answering(n)
AtEnd(h)      == h # <<>> /\ (h[Len(h)].last \/ h[Len(h)].to = BYE)

\* A client that has sent n commands heard h, and m tokens of a reply are on their way
\* to it; begun: the greeting has been sent.
Hearing(h, n, m, begun) ==
    /\ \A i \in 1 .. Len(h) : h[i].to \in {GREETING, BYE} \cup 1 .. n
    /\ \A i, j \in 1 .. Len(h) : i < j /\ h[i].to # BYE /\ h[j].to # BYE => h[i].to <= h[j].to
    /\ m >= 1 => ~Answers(h, n) /\ NoBye(h)
    /\ m = 0 /\ begun => AtEnd(h)

\* There is room for n tokens, and for the good-bye that may still come.
Fits(n, room) == n + (IF dismissed THEN 0 ELSE Len(GOODBYE)) <= room

UnderWay == Len(flow) + Len(o2p) + Len(pending)

\* What is left of the reply, m tokens, is on its way or waits to be read; if reads could
\* take it apart, or it has been taken apart, the pipe has room for it.
Going(m) ==
    /\ Part(flow \o o2p, Answering(sent), m, TRUE) /\ Byes(pending)
    /\ m >= 1 => Len(taken) = sent
    /\ Fits(UnderWay, SOCKET)
    /\ \/ Byes(o2p) \/ Fits(UnderWay, PIPE)
       \/ flow = <<>> /\ m <= BUFF_SIZE /\ (pc = "greet" \/ AtEnd(clientGot))

\* All of the reply is still to be written.
Replying ==
    /\ flow = <<>> /\ o2p = <<>> /\ ~dismissed
    /\ NoBye(clientGot) /\ ~Answers(clientGot, sent) /\ Len(taken) = sent
    /\ Len(pending) >= 1 /\ Part(pending, Answering(sent), Len(pending), TRUE)
    /\ Fits(Len(pending), SOCKET)
    /\ Len(pending) <= BUFF_SIZE \/ Fits(Len(pending), PIPE)

\* The same for its capabilities, from the character after the n-th on.
CapaFrom(s, text, n) ==
    /\ n \in 0 .. Len(text) - 1 /\ Len(text) - n <= Len(s)
    /\ \A i \in 1 .. Len(text) - n : s[i].to = CAPA /\ s[i].text = text[n + i]
    /\ \A i \in Len(text) - n + 1 .. Len(s) : s[i].to = BYE

AskedCapa ==
    /\ flow = <<>> /\ NoBye(clientGot) /\ o2p = <<>> /\ ~dismissed /\ previousEnd = <<>>
    /\ CapaFrom(pending, capaText, 0) /\ Len(pending) = Len(capaText)

Telling(q) ==
    /\ flow = <<>> /\ NoBye(clientGot) /\ CapaFrom(o2p, capaText, q * BUFF_SIZE) /\ Byes(pending)
    /\ previousEnd = Kept(capaText, q * BUFF_SIZE)
    /\ Len(o2p) + Len(pending) <= Len(capaText) - q * BUFF_SIZE + (IF dismissed THEN Len(GOODBYE) ELSE 0)

Probing  == pc = "capa" /\ (AskedCapa \/ \E q \in Nat : Telling(q))
Stage(m) == Going(m) \/ (m = 0 /\ (Replying \/ Probing))

\* While the origin answers, there is a probe on its way only where pipeliningSupport
\* waits for it.
Probe ==
    ~dismissed =>
        /\ NoBye(clientGot) /\ NoBye(flow) /\ NoBye(o2p) /\ NoBye(pending)
        /\ pc # "capa" => CAPA \notin Range(p2o)
        /\ pc = "capa" => p2o = <<>> \/ (p2o = <<CAPA>> /\ Going(0) /\ previousEnd = <<>>)

\* A command is only sent when the one before it has been answered, and the proxy only
\* probes for one that it has not forwarded, or when the client has gone.
Turn ==
    /\ Len(taken) >= sent - 1
    /\ Len(taken) < sent => ~Answers(clientGot, sent)
    /\ clientClosed => sent = COMMANDS /\ Answers(clientGot, sent)
    /\ pc = "capa" \/ (pc = "clients" /\ "client" \in ready) => c2p # <<>> \/ clientClosed
    /\ pc # "capa" => previousEnd = <<>>
    /\ pc = "greet" => sent = 0 /\ clientGot = <<>> /\ flow = <<>> /\ (Replying \/ ~Byes(o2p))

Begun == flow # <<>> \/ pc \notin {"greet", "closed"}

Open(m) ==
    /\ Hearing(clientGot, sent, m, Begun)
    /\ Stage(m) /\ Probe /\ Turn

Closed(m) == Part(flow, Answering(sent), m, FALSE) /\ Hearing(clientGot, sent, m, Begun)

DialogueInv == \E m \in Nat : IF pc = "closed" THEN Closed(m) ELSE Open(m)
-----------------------------------------------------------------------------
(* An origin that stays.                                                   *)

\* Where the origin stays, no write fails, and what was given to write is on its way.
Stays   == reset = "no"
Orderly == CommandsInv /\ Stays

LEMMA OrderlyIs ==
    ASSUME TypeOK, Orderly
    PROVE  /\ Queues(taken, p2o, buffer, c2p, Forwarded) /\ CommandsInv
           /\ pc # "closed" => Forwarded + Len(buffer) + Len(c2p) = sent
           /\ pc # "forward" => buffer = <<>>
BY QueueTypes DEF Orderly, Stays, CommandsInv

LEMMA NoReset ==
    ASSUME InTurn, Orderly
    PROVE  /\ ~OriginResets /\ ~ResetStep /\ ~GreetReset /\ ~AttendClientReset
           /\ ~PipeliningSupportReset /\ ~WriteToOriginReset
BY DEF InTurn, Orderly, Stays, OriginResets, ResetStep, GreetReset, AttendClientReset,
       PipeliningSupportReset, WriteToOriginReset, ReadFromOriginReset

LEMMA Ordered ==
    ASSUME InTurn
    PROVE  Spec => [](TypeOK /\ Orderly)
<1>1. Init => Stays
    BY DEF Init, Stays
<1>2. Stays /\ [Next]_vars => Stays'
    BY DEF InTurn, Stays, Next, ProxyStep, ResetStep, PeerStep, Greet, Select, AttendClient, PipeliningSupport,
           ReadFromClient, WriteToOrigin, ReadFromOrigin, ReadFromFilter, GreetReset, AttendClientReset,
           PipeliningSupportReset, WriteToOriginReset, ReadFromOriginReset, ClientSends, ClientReceives,
           ClientCloses, OriginTakes, OriginDismisses, OriginResets, OriginWrites, FilterRuns, vars, origin
<1>3. IInv /\ Stays => TypeOK /\ Orderly
    BY DEF IInv, Orderly
<1> QED
    BY <1>1, <1>2, <1>3, Invariance, PTL DEF Spec

-----------------------------------------------------------------------------
(* Sequences of tokens, taken apart and put together.                      *)

LEMMA Joined ==
    ASSUME NEW s \in Seq(Tokens), NEW t \in Seq(Tokens)
    PROVE  /\ s \o t \in Seq(Tokens) /\ Len(s \o t) = Len(s) + Len(t)
           /\ Len(s) \in Nat /\ Len(t) \in Nat
           /\ \A i \in 1 .. Len(s) : (s \o t)[i] = s[i]
           /\ \A i \in 1 .. Len(t) : (s \o t)[Len(s) + i] = t[i]
           /\ \A i \in 1 .. Len(s) + Len(t) :
                \/ i \in 1 .. Len(s) /\ (s \o t)[i] = s[i]
                \/ i - Len(s) \in 1 .. Len(t) /\ (s \o t)[i] = t[i - Len(s)]
<1> DEFINE st == s \o t
<1>1. /\ st \in Seq(Tokens) /\ Len(st) = Len(s) + Len(t)
      /\ \A i \in 1 .. Len(s) + Len(t) : st[i] = IF i <= Len(s) THEN s[i] ELSE t[i - Len(s)]
    BY ConcatProperties
<1>2. Len(s) \in Nat /\ Len(t) \in Nat
    OBVIOUS
<1> HIDE DEF st
<1>3. \A i \in 1 .. Len(s) : i \in 1 .. Len(s) + Len(t) /\ i <= Len(s)
    BY <1>2
<1>4. \A i \in 1 .. Len(t) :
            Len(s) + i \in 1 .. Len(s) + Len(t) /\ ~(Len(s) + i <= Len(s)) /\ Len(s) + i - Len(s) = i
    BY <1>2
<1>5. \A i \in 1 .. Len(s) + Len(t) :
            IF i <= Len(s) THEN i \in 1 .. Len(s) ELSE i - Len(s) \in 1 .. Len(t)
    BY <1>2
<1> QED
    BY <1>1, <1>2, <1>3, <1>4, <1>5 DEF st

\* A part is cut in two: before its end, or after it.
LEMMA PartSplits ==
    ASSUME NEW s \in Seq(Tokens), NEW t \in Seq(Tokens), NEW k, NEW m, Part(s \o t, k, m, TRUE)
    PROVE  /\ m <= Len(s) => Part(s, k, m, TRUE) /\ Byes(t)
           /\ m > Len(s) => Part(s, k, Len(s), FALSE) /\ Part(t, k, m - Len(s), TRUE)
<1> DEFINE st == s \o t
           S  == Len(s)
           T  == Len(t)
<1>1. /\ Len(st) = S + T /\ S \in Nat /\ T \in Nat
      /\ \A i \in 1 .. S : st[i] = s[i]
      /\ \A i \in 1 .. T : st[S + i] = t[i]
    BY Joined
<1>2. /\ m \in 0 .. Len(st)
      /\ \A i \in 1 .. m : st[i].to = k /\ (st[i].last => i = m)
      /\ m >= 1 => st[m].last
      /\ \A i \in m + 1 .. Len(st) : st[i].to = BYE
    BY DEF Part
<1> HIDE DEF st, S, T
<1>3. CASE m <= S
    <2>1. m \in 0 .. S /\ \A i \in 1 .. m : i \in 1 .. S
        BY <1>1, <1>2, <1>3
    <2>2. \A i \in m + 1 .. S : i \in 1 .. S /\ i \in m + 1 .. Len(st)
        BY <1>1, <2>1
    <2>3. \A i \in 1 .. T : S + i \in m + 1 .. Len(st)
        BY <1>1, <2>1
    <2>4. Part(s, k, m, TRUE)
        <3>1. m >= 1 => m \in 1 .. m
            BY <2>1
        <3> QED
            BY <1>1, <1>2, <2>1, <2>2, <3>1 DEF Part, S
    <2>5. Byes(t)
        BY <1>1, <1>2, <2>3 DEF Byes, T
    <2>6. ~(m > S)
        BY <1>1, <1>2, <1>3
    <2> QED
        BY <2>4, <2>5, <2>6 DEF S
<1>4. CASE m > S
    <2>1. /\ S \in 0 .. S /\ \A i \in 1 .. S : i \in 1 .. m /\ i # m
          /\ \A i \in S + 1 .. S : FALSE
          /\ ~(S < S)
        BY <1>1, <1>2, <1>4
    <2>2. Part(s, k, S, FALSE)
        BY <1>1, <1>2, <2>1 DEF Part, S
    <2> DEFINE n == m - S
    <2>3. /\ n \in 0 .. T /\ n >= 1 /\ S + n = m
          /\ \A i \in 1 .. n : i \in 1 .. T /\ S + i \in 1 .. m /\ (S + i = m => i = n)
          /\ \A i \in n + 1 .. T : i \in 1 .. T /\ S + i \in m + 1 .. Len(st)
        BY <1>1, <1>2, <1>4
    <2> HIDE DEF n
    <2>4. t[n].last
        <3>1. n \in 1 .. n /\ m >= 1
            BY <1>1, <1>4, <2>3
        <3> QED
            BY <1>1, <1>2, <2>3, <3>1
    <2>5. Part(t, k, n, TRUE)
        <3>1. \A i \in 1 .. n : t[i].to = k /\ (t[i].last => i = n)
            BY <1>1, <1>2, <2>3
        <3>2. \A i \in n + 1 .. T : t[i].to = BYE
            BY <1>1, <1>2, <2>3
        <3>3. n \in 0 .. T
            BY <2>3
        <3> QED
            BY <2>4, <3>1, <3>2, <3>3, Zenon DEF Part, T
    <2>6. ~(m <= S)
        BY <1>1, <1>2, <1>4
    <2> QED
        BY <2>2, <2>5, <2>6 DEF n, S
<1> QED
    BY <1>1, <1>2, <1>3, <1>4 DEF S

\* A good-bye after it is no more of it.
LEMMA PartJoins ==
    ASSUME NEW s \in Seq(Tokens), NEW t \in Seq(Tokens), NEW k, NEW m, Part(s, k, m, TRUE), Byes(t)
    PROVE  Part(s \o t, k, m, TRUE)
<1> DEFINE st == s \o t
           S  == Len(s)
           T  == Len(t)
<1>1. /\ Len(st) = S + T /\ S \in Nat /\ T \in Nat
      /\ \A i \in 1 .. S : st[i] = s[i]
      /\ \A i \in 1 .. S + T : \/ i \in 1 .. S /\ st[i] = s[i]
                               \/ i - S \in 1 .. T /\ st[i] = t[i - S]
    BY Joined
<1>2. /\ m \in 0 .. S
      /\ \A i \in 1 .. m : s[i].to = k /\ (s[i].last => i = m)
      /\ m >= 1 => s[m].last
      /\ \A i \in m + 1 .. S : s[i].to = BYE
      /\ \A i \in 1 .. T : t[i].to = BYE
    BY DEF Part, Byes
<1> HIDE DEF st, S, T
<1>3. /\ m \in 0 .. Len(st) /\ \A i \in 1 .. m : i \in 1 .. S
      /\ m >= 1 => m \in 1 .. m
      /\ \A i \in m + 1 .. Len(st) : i \in 1 .. S + T /\ (i \in 1 .. S => i \in m + 1 .. S)
    BY <1>1, <1>2
<1>4. \A i \in m + 1 .. Len(st) : st[i].to = BYE
    BY <1>1, <1>2, <1>3
<1>5. Part(st, k, m, TRUE)
    BY <1>1, <1>2, <1>3, <1>4 DEF Part
<1> QED
    BY <1>5 DEF st

\* The first token of a part, and what is left of it.
LEMMA PartBegins ==
    ASSUME NEW s \in Seq(Tokens), s # <<>>, NEW k, NEW m, NEW w \in BOOLEAN, Part(s, k, m, w)
    PROVE  /\ Tail(s) \in Seq(Tokens) /\ Head(s) \in Tokens
           /\ m = 0 => Head(s).to = BYE /\ Part(Tail(s), k, 0, w)
           /\ m >= 1 => /\ Head(s).to = k /\ Part(Tail(s), k, m - 1, w)
                        /\ Head(s).last => m = 1
                        /\ m = 1 /\ (w \/ Tail(s) # <<>>) => Head(s).last
<1> DEFINE t == Tail(s)
           S == Len(s)
           T == Len(t)
<1>1. /\ Head(s) = s[1] /\ s[1] \in Tokens /\ t \in Seq(Tokens) /\ T \in Nat /\ S = T + 1
      /\ \A i \in 1 .. T : t[i] = s[i + 1]
    BY Ends
<1>2. /\ m \in 0 .. S
      /\ \A i \in 1 .. m : s[i].to = k /\ (s[i].last => i = m)
      /\ m >= 1 /\ (w \/ m < S) => s[m].last
      /\ \A i \in m + 1 .. S : s[i].to = BYE
    BY DEF Part
<1>3. t = <<>> <=> T = 0
    BY <1>1, EmptySeq
<1> HIDE DEF t, S, T
<1>4. CASE m = 0
    <2>1. 1 \in m + 1 .. S /\ 0 \in 0 .. T /\ \A i \in 1 .. T : i + 1 \in m + 1 .. S
        BY <1>1, <1>4
    <2>2. (\A i \in 1 .. 0 : FALSE) /\ ~(0 >= 1) /\ 0 + 1 = 1
        OBVIOUS
    <2>3. Part(t, k, 0, w)
        BY <1>1, <1>2, <2>1, <2>2 DEF Part, T
    <2> QED
        BY <1>1, <1>2, <1>4, <2>1, <2>3 DEF t
<1>5. CASE m >= 1
    <2> DEFINE n == m - 1
    <2>1. /\ n \in 0 .. T /\ n + 1 = m /\ 1 \in 1 .. m
          /\ \A i \in 1 .. n : i \in 1 .. T /\ i + 1 \in 1 .. m /\ (i + 1 = m => i = n)
          /\ n >= 1 => n \in 1 .. T
          /\ n < T <=> m < S
          /\ \A i \in n + 1 .. T : i \in 1 .. T /\ i + 1 \in m + 1 .. S
        BY <1>1, <1>2, <1>5
    <2> HIDE DEF n
    <2>2. Part(t, k, n, w)
        <3>1. \A i \in 1 .. n : t[i] = s[i + 1] /\ t[i].to = k /\ (t[i].last => i = n)
            BY <1>1, <1>2, <2>1
        <3>2. n >= 1 /\ (w \/ n < T) => t[n].last
            <4>1. n >= 1 => t[n] = s[m]
                BY <1>1, <2>1
            <4> QED
                BY <1>2, <1>5, <2>1, <4>1
        <3>3. ASSUME NEW i \in n + 1 .. T PROVE t[i].to = BYE
            <4>1. i \in 1 .. T /\ i + 1 \in m + 1 .. S
                BY <2>1
            <4>2. t[i] = s[i + 1]
                BY <1>1, <4>1
            <4> QED
                BY <1>2, <4>1, <4>2, Zenon
        <3> QED
            BY <2>1, <3>1, <3>2, <3>3, Zenon DEF Part, T
    <2>3. Head(s).to = k /\ (Head(s).last => m = 1)
        BY <1>1, <1>2, <2>1
    <2>4. m = 1 /\ (w \/ t # <<>>) => Head(s).last
        <3>1. m = 1 /\ T # 0 => m < S
            BY <1>1
        <3> QED
            BY <1>1, <1>2, <1>3, <1>5, <3>1
    <2>5. ~(m = 0)
        BY <1>5
    <2> QED
        BY <1>1, <2>2, <2>3, <2>4, <2>5 DEF n, t
<1> QED
    BY <1>2, <1>4, <1>5 DEF t

\* A good-bye is a part of which nothing is left, of whatever reply.
LEMMA ByesArePart ==
    ASSUME NEW s \in Seq(Tokens), NEW k
    PROVE  /\ Byes(s) <=> Part(s, k, 0, TRUE)
           /\ Part(<<>>, k, 0, TRUE) /\ Byes(<<>>) /\ NoBye(<<>>)
           /\ Byes(s) /\ NoBye(s) => s = <<>>
<1>1. Len(s) \in Nat /\ (Len(s) = 0 => s = <<>>) /\ Len(<<>>) = 0
    OBVIOUS
<1>2. /\ 0 \in 0 .. Len(s) /\ (\A i \in 1 .. 0 : FALSE) /\ ~(0 >= 1) /\ 0 + 1 = 1 /\ 0 \in 0 .. 0
      /\ Len(s) # 0 => 1 \in 1 .. Len(s)
    BY <1>1
<1> QED
    BY <1>1, <1>2 DEF Byes, NoBye, Part

LEMMA NothingSaid == Byes(<<>>) /\ NoBye(<<>>)
BY DEF Byes, NoBye

LEMMA ByesJoin ==
    ASSUME NEW s \in Seq(Tokens), NEW t \in Seq(Tokens)
    PROVE  /\ Byes(s \o t) <=> Byes(s) /\ Byes(t)
           /\ NoBye(s \o t) <=> NoBye(s) /\ NoBye(t)
<1> DEFINE st == s \o t
           S  == Len(s)
           T  == Len(t)
<1>1. /\ Len(st) = S + T /\ S \in Nat /\ T \in Nat
      /\ \A i \in 1 .. S : st[i] = s[i]
      /\ \A i \in 1 .. T : st[S + i] = t[i]
      /\ \A i \in 1 .. S + T : \/ i \in 1 .. S /\ st[i] = s[i]
                               \/ i - S \in 1 .. T /\ st[i] = t[i - S]
    BY Joined
<1> HIDE DEF st, S, T
<1>2. (\A i \in 1 .. S : i \in 1 .. Len(st)) /\ (\A i \in 1 .. T : S + i \in 1 .. Len(st))
    BY <1>1
<1>3. Byes(st) <=> Byes(s) /\ Byes(t)
    <2>1. Byes(st) => Byes(s) /\ Byes(t)
        BY <1>1, <1>2 DEF Byes, S, T
    <2>2. ASSUME Byes(s), Byes(t) PROVE Byes(st)
        <3>1. (\A i \in 1 .. S : s[i].to = BYE) /\ (\A i \in 1 .. T : t[i].to = BYE)
            BY <2>2, Zenon DEF Byes, S, T
        <3>2. ASSUME NEW i \in 1 .. S + T PROVE st[i].to = BYE
            <4>1. CASE i \in 1 .. S /\ st[i] = s[i]
                BY <3>1, <4>1, Zenon
            <4>2. CASE i - S \in 1 .. T /\ st[i] = t[i - S]
                BY <3>1, <4>2, Zenon
            <4> QED
                BY <1>1, <4>1, <4>2, Zenon
        <3> QED
            BY <1>1, <3>2, Zenon DEF Byes
    <2> QED
        BY <2>1, <2>2
<1>4. NoBye(st) <=> NoBye(s) /\ NoBye(t)
    <2>1. NoBye(st) => NoBye(s) /\ NoBye(t)
        BY <1>1, <1>2 DEF NoBye, S, T
    <2>2. ASSUME NoBye(s), NoBye(t) PROVE NoBye(st)
        <3>1. (\A i \in 1 .. S : s[i].to # BYE) /\ (\A i \in 1 .. T : t[i].to # BYE)
            BY <2>2, Zenon DEF NoBye, S, T
        <3>2. ASSUME NEW i \in 1 .. S + T PROVE st[i].to # BYE
            <4>1. CASE i \in 1 .. S /\ st[i] = s[i]
                BY <3>1, <4>1, Zenon
            <4>2. CASE i - S \in 1 .. T /\ st[i] = t[i - S]
                BY <3>1, <4>2, Zenon
            <4> QED
                BY <1>1, <4>1, <4>2, Zenon
        <3> QED
            BY <1>1, <3>2, Zenon DEF NoBye
    <2> QED
        BY <2>1, <2>2
<1> QED
    BY <1>3, <1>4 DEF st

\* What a read takes and leaves is all there was.
LEMMA ReadWhole ==
    ASSUME NEW s \in Seq(Tokens), NEW n \in Nat
    PROVE  /\ Take(s, n) \in Seq(Tokens) /\ Drop(s, n) \in Seq(Tokens) /\ Take(s, n) \o Drop(s, n) = s
           /\ Len(Take(s, n)) \in Nat /\ Len(Drop(s, n)) \in Nat
           /\ Len(s) = Len(Take(s, n)) + Len(Drop(s, n))
           /\ n < Len(s) => Len(Take(s, n)) = n
           /\ n >= Len(s) => Take(s, n) = s /\ Drop(s, n) = <<>>
<1> DEFINE t == Take(s, n)
           d == Drop(s, n)
<1>1. /\ t \in Seq(Tokens) /\ d \in Seq(Tokens) /\ Len(t) = (IF n < Len(s) THEN n ELSE Len(s))
      /\ Len(d) = Len(s) - Len(t)
      /\ \A i \in 1 .. Len(t) : t[i] = s[i]
      /\ \A i \in 1 .. Len(d) : d[i] = s[Len(t) + i]
    BY TakeDrop
<1>2. Len(s) \in Nat /\ Len(t) \in Nat /\ Len(d) \in Nat /\ Len(s) = Len(t) + Len(d)
    BY <1>1
<1> HIDE DEF t, d
<1> DEFINE td == t \o d
<1>3. /\ td \in Seq(Tokens) /\ Len(td) = Len(t) + Len(d)
      /\ \A i \in 1 .. Len(t) + Len(d) : \/ i \in 1 .. Len(t) /\ td[i] = t[i]
                                         \/ i - Len(t) \in 1 .. Len(d) /\ td[i] = d[i - Len(t)]
    BY <1>1, Joined
<1> HIDE DEF td
<1>4. td = s
    <2>1. \A i \in 1 .. Len(td) : Len(t) + (i - Len(t)) = i
        BY <1>2, <1>3
    <2>2. \A i \in 1 .. Len(td) : td[i] = s[i]
        BY <1>1, <1>3, <2>1
    <2> QED
        BY <1>2, <1>3, <2>2, SeqEqual
<1>5. n >= Len(s) => Len(t) = Len(s) /\ Len(d) = 0
    <2>1. n >= Len(s) => ~(n < Len(s))
        BY <1>2
    <2>2. Len(s) - Len(s) = 0
        BY <1>2
    <2> QED
        BY <1>1, <2>1, <2>2
<1>6. n >= Len(s) => d = <<>> /\ t = s
    <2>1. Len(d) = 0 => d = <<>>
        BY <1>1, EmptySeq
    <2>2. d = <<>> => t = s
        BY <1>1, <1>4, ConcatEmptySeq DEF td
    <2> QED
        BY <1>5, <2>1, <2>2
<1> QED
    BY <1>1, <1>2, <1>4, <1>6 DEF t, d, td

-----------------------------------------------------------------------------
(* What is on its way to the client.                                       *)

LEMMA Regrouped ==
    ASSUME NEW p \in Seq(Tokens), NEW f \in Seq(Tokens), NEW g \in Seq(Tokens)
    PROVE  (p \o f) \o g = p \o (f \o g)
BY ConcatAssociative

LEMMA FlowIs ==
    ASSUME NEW p \in Seq(Tokens), NEW f \in Seq(Tokens), NEW g \in Seq(Tokens)
    PROVE  /\ p \o f \o g \in Seq(Tokens) /\ p \o f \o g = p \o (f \o g) /\ f \o g \in Seq(Tokens)
           /\ Len(p \o f \o g) = Len(p) + Len(f) + Len(g)
           /\ Len(p) \in Nat /\ Len(f) \in Nat /\ Len(g) \in Nat
           /\ p \o f \o g = <<>> <=> p = <<>> /\ f = <<>> /\ g = <<>>
<1>1. p \o f \in Seq(Tokens) /\ Len(p \o f) = Len(p) + Len(f) /\ f \o g \in Seq(Tokens)
    BY Joined
<1>2. p \o f \o g \in Seq(Tokens) /\ Len(p \o f \o g) = Len(p \o f) + Len(g)
    BY <1>1, Joined
<1>3. p \o f \o g = p \o (f \o g)
    BY ConcatAssociative
<1>4. p \o f \o g = <<>> <=> p = <<>> /\ f = <<>> /\ g = <<>>
    BY <1>1, ConcatEqualIffEmpty
<1> QED
    BY <1>1, <1>2, <1>3, <1>4, Joined

\* What the filter puts out, or takes in, stays in its place on the way.
LEMMA FlowMoves ==
    ASSUME NEW p \in Seq(Tokens), NEW f \in Seq(Tokens), NEW g \in Seq(Tokens)
    PROVE  /\ \A n \in Nat : (p \o Take(f, n)) \o Drop(f, n) \o g = p \o f \o g
           /\ g # <<>> => p \o Append(f, Head(g)) \o Tail(g) = p \o f \o g
<1>1. ASSUME NEW n \in Nat PROVE (p \o Take(f, n)) \o Drop(f, n) \o g = p \o f \o g
    <2>1. Take(f, n) \in Seq(Tokens) /\ Drop(f, n) \in Seq(Tokens) /\ Take(f, n) \o Drop(f, n) = f
        BY ReadWhole
    <2>2. (p \o Take(f, n)) \o Drop(f, n) = p \o (Take(f, n) \o Drop(f, n))
        BY ONLY <2>1, Regrouped, p \in Seq(Tokens), Zenon
    <2> QED
        BY <2>1, <2>2, Zenon
<1>2. ASSUME g # <<>> PROVE p \o Append(f, Head(g)) \o Tail(g) = p \o f \o g
    <2>1. /\ Head(g) \in Tokens /\ Tail(g) \in Seq(Tokens) /\ <<Head(g)>> \in Seq(Tokens)
          /\ g = <<Head(g)>> \o Tail(g) /\ Append(f, Head(g)) = f \o <<Head(g)>>
        <3>1. Head(g) \in Tokens /\ Tail(g) \in Seq(Tokens)
            BY <1>2, HeadTailProperties
        <3> DEFINE a == <<Head(g)>>
                   b == Tail(g)
                   ab == a \o b
        <3>2. a \in Seq(Tokens) /\ Len(a) = 1 /\ a[1] = Head(g)
            BY <3>1
        <3>3. Head(g) = g[1] /\ Len(g) = Len(b) + 1 /\ Len(b) \in Nat /\ \A i \in 1 .. Len(b) : b[i] = g[i + 1]
            BY <1>2, Ends
        <3> HIDE DEF a, b
        <3>4. /\ ab \in Seq(Tokens) /\ Len(ab) = Len(a) + Len(b)
              /\ \A i \in 1 .. Len(a) + Len(b) : \/ i \in 1 .. Len(a) /\ ab[i] = a[i]
                                                 \/ i - Len(a) \in 1 .. Len(b) /\ ab[i] = b[i - Len(a)]
            BY <3>1, <3>2, Joined DEF b
        <3> HIDE DEF ab
        <3>5. \A i \in 1 .. Len(g) : ab[i] = g[i]
            <4> SUFFICES ASSUME NEW i \in 1 .. Len(g) PROVE ab[i] = g[i]
                OBVIOUS
            <4>1. i \in 1 .. Len(a) + Len(b)
                BY <3>2, <3>3
            <4>2. CASE i \in 1 .. Len(a) /\ ab[i] = a[i]
                <5>1. i = 1
                    BY <3>2, <4>2
                <5> QED
                    BY <3>2, <3>3, <4>2, <5>1
            <4>3. CASE i - Len(a) \in 1 .. Len(b) /\ ab[i] = b[i - Len(a)]
                <5>1. (i - Len(a)) + 1 = i
                    BY <3>2, <4>1
                <5> QED
                    BY <3>3, <4>3, <5>1
            <4> QED
                BY <3>4, <4>1, <4>2, <4>3
        <3>6. Len(ab) = Len(g)
            BY <3>2, <3>3, <3>4
        <3>7. ab = g
            BY <3>4, <3>5, <3>6, SeqEqual
        <3>8. Append(f, Head(g)) = f \o <<Head(g)>>
            BY <3>1, AppendIsConcat
        <3> QED
            BY <3>1, <3>2, <3>7, <3>8 DEF a, b, ab
    <2>2. (f \o <<Head(g)>>) \o Tail(g) = f \o (<<Head(g)>> \o Tail(g))
        BY ONLY <2>1, Regrouped, f \in Seq(Tokens), Zenon
    <2>3. Append(f, Head(g)) \in Seq(Tokens) /\ f \o <<Head(g)>> \in Seq(Tokens)
        <3>1. <<Head(g)>> \in Seq(Tokens) /\ Append(f, Head(g)) = f \o <<Head(g)>>
            BY <2>1
        <3>2. f \o <<Head(g)>> \in Seq(Tokens)
            BY <3>1, Joined
        <3> QED
            BY <3>1, <3>2, Zenon
    <2>4. /\ p \o Append(f, Head(g)) \o Tail(g) = p \o (Append(f, Head(g)) \o Tail(g))
          /\ p \o f \o g = p \o (f \o g)
        <3> DEFINE a == Append(f, Head(g))
                   b == Tail(g)
        <3>1. p \in Seq(Tokens) /\ a \in Seq(Tokens) /\ b \in Seq(Tokens)
            BY <2>1, <2>3
        <3> HIDE DEF a, b
        <3>2. p \o a \o b = p \o (a \o b)
            BY ONLY <3>1, Regrouped, ZenonT(60)
        <3>3. p \o f \o g = p \o (f \o g)
            BY ONLY Regrouped, p \in Seq(Tokens), f \in Seq(Tokens), g \in Seq(Tokens), Zenon
        <3> QED
            BY <3>2, <3>3, Zenon DEF a, b
    <2> QED
        BY <2>1, <2>2, <2>4, Zenon
<1> QED
    BY <1>1, <1>2

\* The client takes the first token of all that follows it.
LEMMA FlowBegins ==
    ASSUME NEW s \in Seq(Tokens), s # <<>>, NEW t \in Seq(Tokens)
    PROVE  /\ s \o t # <<>> /\ Head(s \o t) = Head(s) /\ Tail(s \o t) = Tail(s) \o t
           /\ Tail(s) \in Seq(Tokens)
<1> DEFINE st == s \o t
           a  == Tail(s)
           at == a \o t
           b  == Tail(st)
<1>1. /\ Head(s) = s[1] /\ a \in Seq(Tokens) /\ Len(s) = Len(a) + 1 /\ Len(a) \in Nat
      /\ \A i \in 1 .. Len(a) : a[i] = s[i + 1]
    BY Ends
<1> HIDE DEF a
<1>2. /\ st \in Seq(Tokens) /\ Len(st) = Len(s) + Len(t) /\ Len(t) \in Nat
      /\ \A i \in 1 .. Len(s) : st[i] = s[i]
      /\ \A i \in 1 .. Len(t) : st[Len(s) + i] = t[i]
    BY Joined
<1>3. /\ at \in Seq(Tokens) /\ Len(at) = Len(a) + Len(t)
      /\ \A i \in 1 .. Len(a) + Len(t) : \/ i \in 1 .. Len(a) /\ at[i] = a[i]
                                         \/ i - Len(a) \in 1 .. Len(t) /\ at[i] = t[i - Len(a)]
    BY <1>1, Joined
<1> HIDE DEF st, at
<1>4. st # <<>>
    BY <1>1, <1>2
<1>5. /\ Head(st) = st[1] /\ b \in Seq(Tokens) /\ Len(st) = Len(b) + 1 /\ Len(b) \in Nat
      /\ \A i \in 1 .. Len(b) : b[i] = st[i + 1]
    BY <1>2, <1>4, Ends
<1> HIDE DEF b
<1>6. Head(st) = Head(s)
    <2>1. 1 \in 1 .. Len(s)
        BY <1>1
    <2> QED
        BY <1>1, <1>2, <1>5, <2>1
<1>7. \A i \in 1 .. Len(b) : b[i] = at[i]
    <2> SUFFICES ASSUME NEW i \in 1 .. Len(b) PROVE b[i] = at[i]
        OBVIOUS
    <2>1. i \in 1 .. Len(a) + Len(t)
        BY <1>1, <1>2, <1>5
    <2>2. CASE i \in 1 .. Len(a) /\ at[i] = a[i]
        <3>1. i + 1 \in 1 .. Len(s)
            BY <1>1, <2>2
        <3> QED
            BY <1>1, <1>2, <1>5, <2>2, <3>1
    <2>3. CASE i - Len(a) \in 1 .. Len(t) /\ at[i] = t[i - Len(a)]
        <3>1. Len(s) + (i - Len(a)) = i + 1
            BY <1>1, <2>1
        <3>2. st[Len(s) + (i - Len(a))] = t[i - Len(a)]
            BY <1>2, <2>3
        <3>3. b[i] = st[i + 1]
            BY <1>5
        <3> QED
            BY <2>3, <3>1, <3>2, <3>3
    <2> QED
        BY <1>3, <2>1, <2>2, <2>3
<1>8. Len(b) = Len(at)
    BY <1>1, <1>2, <1>3, <1>5
<1>9. b = at
    BY <1>3, <1>5, <1>7, <1>8, SeqEqual
<1> QED
    BY <1>1, <1>4, <1>6, <1>9 DEF st, at, a, b

-----------------------------------------------------------------------------
(* What the client hears.                                                  *)

\* A token more, the next one of the reply or one of the good-bye.
LEMMA Hears ==
    ASSUME NEW h \in Seq(Tokens), NEW n \in Nat, NEW m \in Nat, NEW x \in Tokens, NEW begun,
           Hearing(h, n, m, begun),
           m = 0 => x.to = BYE,
           m >= 1 => x.to = Answering(n) /\ (x.last => m = 1)
    PROVE  /\ m = 0 => Hearing(Append(h, x), n, 0, TRUE)
           /\ m >= 2 => Hearing(Append(h, x), n, m - 1, TRUE)
           /\ m = 1 /\ x.last => Hearing(Append(h, x), n, 0, TRUE)
           /\ m = 1 => Hearing(Append(h, x), n, 0, FALSE)
<1> DEFINE g == Append(h, x)
           H == Len(h)
<1>1. /\ g \in Seq(Tokens) /\ Len(g) = H + 1 /\ H \in Nat /\ g[H + 1] = x
      /\ \A i \in 1 .. H : g[i] = h[i]
    OBVIOUS
<1>2. /\ \A i \in 1 .. H : h[i].to \in {GREETING, BYE} \cup 1 .. n
      /\ \A i, j \in 1 .. H : i < j /\ h[i].to # BYE /\ h[j].to # BYE => h[i].to <= h[j].to
      /\ m >= 1 => ~Answers(h, n) /\ NoBye(h)
    BY DEF Hearing
<1> HIDE DEF g, H
<1>3. \A i \in 1 .. H + 1 : i \in 1 .. H \/ i = H + 1
    BY <1>1
<1>4. x.to \in {GREETING, BYE} \cup 1 .. n
    BY DEF Answering
<1>5. \A i \in 1 .. Len(g) : g[i].to \in {GREETING, BYE} \cup 1 .. n
    BY <1>1, <1>2, <1>3, <1>4
<1>6. \A i, j \in 1 .. Len(g) : i < j /\ g[i].to # BYE /\ g[j].to # BYE => g[i].to <= g[j].to
    <2> SUFFICES ASSUME NEW i \in 1 .. Len(g), NEW j \in 1 .. Len(g), i < j, g[i].to # BYE, g[j].to # BYE
                 PROVE  g[i].to <= g[j].to
        OBVIOUS
    <2>1. CASE j \in 1 .. H
        <3>1. i \in 1 .. H
            BY <1>1, <2>1
        <3> QED
            BY <1>1, <1>2, <2>1, <3>1
    <2>2. CASE j = H + 1
        <3>1. i \in 1 .. H
            BY <1>1, <2>2
        <3>2. x.to = Answering(n) /\ g[j] = x /\ g[i].to \in {GREETING, BYE} \cup 1 .. n
            BY <1>1, <1>2, <2>2, <3>1
        <3>3. g[i].to \in {GREETING} \cup 1 .. n
            BY <3>2
        <3>4. g[i].to <= Answering(n)
            BY <3>3 DEF Answering, GREETING
        <3> QED
            BY <3>2, <3>4
    <2> QED
        BY <1>1, <1>3, <2>1, <2>2
<1>7. AtEnd(g) <=> x.last \/ x.to = BYE
    BY <1>1 DEF AtEnd
<1>8. ASSUME m >= 2 PROVE ~Answers(g, n) /\ NoBye(g)
    <2>1. ~Answers(h, n) /\ NoBye(h) /\ ~x.last /\ x.to # BYE
        BY <1>2, <1>8 DEF Answering, GREETING, BYE
    <2> QED
        BY <1>1, <1>3, <2>1 DEF Answers, NoBye, H
<1>9. (m = 0 => Hearing(g, n, 0, TRUE)) /\ (m = 1 /\ x.last => Hearing(g, n, 0, TRUE))
    BY <1>5, <1>6, <1>7 DEF Hearing
<1>10. (m = 1 => Hearing(g, n, 0, FALSE)) /\ (m >= 2 => Hearing(g, n, m - 1, TRUE))
    <2>1. m >= 2 => m - 1 # 0
        OBVIOUS
    <2> QED
        BY <1>5, <1>6, <1>8, <2>1 DEF Hearing
<1> QED
    BY <1>9, <1>10 DEF g

\* Less may be asked of what has been heard.
LEMMA HearsLess ==
    ASSUME NEW h, NEW n, NEW m, NEW begun, Hearing(h, n, m, begun)
    PROVE  /\ \A any : (m = 0 /\ any => begun) => Hearing(h, n, m, any)
           /\ \A any : (any => begun /\ m = 0) => Hearing(h, n, 0, any)
BY DEF Hearing

\* A client that has its answer may send a command.
LEMMA HearsOn ==
    ASSUME NEW h, NEW n \in Nat, NEW begun, Hearing(h, n, 0, begun)
    PROVE  Hearing(h, n + 1, 0, begun) /\ ~Answers(h, n + 1)
<1>1. \A i \in 1 .. Len(h) : h[i].to \in {GREETING, BYE} \cup 1 .. n + 1 /\ h[i].to # n + 1
    <2>1. \A k \in {GREETING, BYE} \cup 1 .. n : k \in {GREETING, BYE} \cup 1 .. n + 1 /\ k # n + 1
        BY DEF GREETING, BYE
    <2> QED
        BY <2>1 DEF Hearing
<1>2. Answering(n + 1) = n + 1
    BY DEF Answering
<1> QED
    BY <1>1, <1>2 DEF Hearing, Answers

-----------------------------------------------------------------------------
(* The capabilities.                                                       *)

\* A read that begins within a text is one of its reads.
LEMMA ReadOf ==
    ASSUME NEW text, Len(text) \in Nat, NEW q \in Nat
    PROVE  /\ q * BUFF_SIZE < Len(text) => q \in Reads(text)
           /\ (q + 1) * BUFF_SIZE < Len(text) => q \in Reads(text)
<1> DEFINE b == BUFF_SIZE - 1
           f == q * b
<1>1. b \in Nat /\ b + 1 = BUFF_SIZE
    BY Sizes
<1> HIDE DEF b
<1>2. f \in Nat /\ q * (b + 1) = f + q /\ (q + 1) * (b + 1) = f + q + b + 1
    BY <1>1
<1> HIDE DEF f
<1>3. q * BUFF_SIZE = f + q /\ (q + 1) * BUFF_SIZE = f + q + b + 1
    BY <1>1, <1>2, Zenon
<1> QED
    BY <1>1, <1>2, <1>3 DEF Reads

\* There is a character of them left.
LEMMA CapaStarts ==
    ASSUME NEW s \in Seq(Tokens), NEW text, Len(text) \in Nat, NEW n, CapaFrom(s, text, n)
    PROVE  s # <<>> /\ 1 \in 1 .. Len(s) /\ s[1].to = CAPA /\ ~Byes(s)
<1>1. /\ n \in 0 .. Len(text) - 1 /\ Len(text) - n <= Len(s)
      /\ \A i \in 1 .. Len(text) - n : s[i].to = CAPA
    BY DEF CapaFrom
<1>2. 1 \in 1 .. Len(text) - n /\ 1 \in 1 .. Len(s)
    BY <1>1
<1>3. s[1].to = CAPA /\ CAPA # BYE
    BY <1>1, <1>2 DEF CAPA, BYE
<1>4. s # <<>>
    BY <1>2
<1> QED
    BY <1>2, <1>3, <1>4 DEF Byes

\* A good-bye after them is no more of them.
LEMMA CapaJoins ==
    ASSUME NEW s \in Seq(Tokens), NEW t \in Seq(Tokens), NEW text, Len(text) \in Nat, NEW n,
           CapaFrom(s, text, n), Byes(t)
    PROVE  CapaFrom(s \o t, text, n)
<1> DEFINE st == s \o t
           S  == Len(s)
           T  == Len(t)
           L  == Len(text) - n
<1>1. /\ Len(st) = S + T /\ S \in Nat /\ T \in Nat
      /\ \A i \in 1 .. S : st[i] = s[i]
      /\ \A i \in 1 .. S + T : \/ i \in 1 .. S /\ st[i] = s[i]
                               \/ i - S \in 1 .. T /\ st[i] = t[i - S]
    BY Joined
<1>2. /\ n \in 0 .. Len(text) - 1 /\ L <= S
      /\ \A i \in 1 .. L : s[i].to = CAPA /\ s[i].text = text[n + i]
      /\ \A i \in L + 1 .. S : s[i].to = BYE
      /\ \A i \in 1 .. T : t[i].to = BYE
    BY DEF CapaFrom, Byes
<1>3. L \in Nat /\ (\A i \in 1 .. L : i \in 1 .. S) /\ L <= Len(st)
    BY <1>1, <1>2
<1> HIDE DEF st, S, T
<1>4. ASSUME NEW i \in L + 1 .. Len(st) PROVE st[i].to = BYE
    <2>1. i \in 1 .. S + T /\ (i \in 1 .. S => i \in L + 1 .. S)
        BY <1>1, <1>3
    <2>2. CASE i \in 1 .. S /\ st[i] = s[i]
        BY <1>2, <2>1, <2>2
    <2>3. CASE i - S \in 1 .. T /\ st[i] = t[i - S]
        BY <1>2, <2>3
    <2> QED
        BY <1>1, <2>1, <2>2, <2>3
<1>5. CapaFrom(st, text, n)
    BY <1>1, <1>2, <1>3, <1>4 DEF CapaFrom
<1> QED
    BY <1>5 DEF st

\* A read leaves what comes after it, or takes the last character.
LEMMA CapaRead ==
    ASSUME NEW s \in Seq(Tokens), NEW text, Len(text) \in Nat, NEW n, NEW size \in Nat \ {0},
           CapaFrom(s, text, n)
    PROVE  /\ n \in Nat /\ n < Len(text)
           /\ n + size < Len(text) =>
                /\ CapaFrom(Drop(s, size), text, n + size) /\ Len(Take(s, size)) = size
                /\ \A i \in 1 .. size : Take(s, size)[i].text = text[n + i]
           /\ ~(n + size < Len(text)) =>
                Byes(Drop(s, size)) /\ Len(Take(s, size)) >= Len(text) - n
<1> DEFINE t == Take(s, size)
           d == Drop(s, size)
           S == Len(s)
           T == Len(t)
           D == Len(d)
           L == Len(text) - n
<1>1. /\ t \in Seq(Tokens) /\ d \in Seq(Tokens) /\ T = (IF size < S THEN size ELSE S)
      /\ D = S - T
      /\ \A i \in 1 .. T : t[i] = s[i]
      /\ \A i \in 1 .. D : d[i] = s[T + i]
    BY TakeDrop
<1>2. S \in Nat /\ T \in Nat /\ D \in Nat
    BY <1>1
<1>3. /\ n \in 0 .. Len(text) - 1 /\ L <= S
      /\ \A i \in 1 .. L : s[i].to = CAPA /\ s[i].text = text[n + i]
      /\ \A i \in L + 1 .. S : s[i].to = BYE
    BY DEF CapaFrom
<1>4. n \in Nat /\ n < Len(text) /\ L \in Nat /\ L >= 1
    BY <1>3
<1> HIDE DEF t, d, S, T, D, L
<1>5. CASE n + size < Len(text)
    <2> DEFINE K == Len(text) - (n + size)
    <2>1. T = size /\ D = S - size
        BY <1>1, <1>2, <1>3, <1>4, <1>5 DEF L
    <2>2. n + size \in 0 .. Len(text) - 1 /\ K <= D /\ K \in Nat /\ L = K + size
        BY <1>2, <1>3, <1>4, <1>5, <2>1 DEF L
    <2>3. ASSUME NEW i \in 1 .. K PROVE d[i].to = CAPA /\ d[i].text = text[(n + size) + i]
        <3>1. i \in 1 .. D /\ size + i \in 1 .. L /\ n + (size + i) = (n + size) + i
            BY <1>2, <1>4, <2>1, <2>2
        <3>2. d[i] = s[size + i]
            BY <1>1, <2>1, <3>1
        <3>3. s[size + i].to = CAPA /\ s[size + i].text = text[n + (size + i)]
            BY <1>3, <3>1
        <3> QED
            BY <3>1, <3>2, <3>3
    <2>4. ASSUME NEW i \in K + 1 .. D PROVE d[i].to = BYE
        <3>1. i \in 1 .. D /\ size + i \in L + 1 .. S
            BY <1>2, <1>4, <2>1, <2>2
        <3>2. d[i] = s[size + i]
            BY <1>1, <2>1, <3>1
        <3> QED
            BY <1>3, <3>1, <3>2
    <2>5. CapaFrom(d, text, n + size)
        BY <2>2, <2>3, <2>4, Zenon DEF CapaFrom, D, K
    <2>6. \A i \in 1 .. size : t[i].text = text[n + i]
        <3>1. \A i \in 1 .. size : i \in 1 .. T /\ i \in 1 .. L
            BY <1>4, <2>1, <2>2
        <3> QED
            BY <1>1, <1>3, <3>1
    <2> QED
        BY <1>4, <1>5, <2>1, <2>5, <2>6 DEF t, d, T
<1>6. CASE ~(n + size < Len(text))
    <2>1. T >= L
        BY <1>1, <1>2, <1>3, <1>4, <1>6 DEF L
    <2>2. \A i \in 1 .. D : T + i \in L + 1 .. S
        BY <1>1, <1>2, <1>4, <2>1
    <2>3. Byes(d)
        BY <1>1, <1>3, <2>2 DEF Byes, D
    <2> QED
        BY <1>4, <1>6, <2>1, <2>3 DEF t, d, T, L
<1> QED
    BY <1>5, <1>6

\* What is searched then, and what of it is kept.
LEMMA CapaSearched ==
    ASSUME NEW text \in CAPA_TEXTS, NEW n \in Nat, n + BUFF_SIZE < Len(text),
           NEW t \in Seq(Tokens), Len(t) = BUFF_SIZE,
           \A i \in 1 .. BUFF_SIZE : t[i].text = text[n + i]
    PROVE  /\ Text(t) = SubSeq(text, n + 1, n + BUFF_SIZE)
           /\ SubSeq(Text(t), BUFF_SIZE - BUFFER_END + 1, BUFF_SIZE) = Kept(text, n + BUFF_SIZE)
<1> DEFINE R == Range(text)
           B == BUFF_SIZE
           u == SubSeq(text, n + 1, n + B)
<1>1. text \in Seq(R) /\ Len(text) \in Nat
    BY Pop3SessionAssumption
<1>2. B \in Nat \ {0} /\ BUFFER_END \in 1 .. B
    BY Sizes
<1> HIDE DEF R, B
<1> DEFINE first == n + 1
           last  == n + B
<1>3. /\ first \in Int /\ last \in Int /\ last - first + 1 = B /\ first <= last
      /\ \A i \in first .. last : i \in 1 .. Len(text)
      /\ \A i \in 1 .. B : first + i - 1 = n + i
    BY <1>1, <1>2 DEF B
<1>4. \A i \in first .. last : text[i] \in R
    BY <1>1, <1>3
<1>5. u \in Seq(R) /\ Len(u) = B /\ \A i \in 1 .. B : u[i] = text[n + i]
    <2> HIDE DEF first, last
    <2> DEFINE v == SubSeq(text, first, last)
    <2>1. /\ v \in Seq(R) /\ Len(v) = IF first <= last THEN last - first + 1 ELSE 0
          /\ \A i \in 1 .. last - first + 1 : v[i] = text[first + i - 1]
        BY <1>3, <1>4, SubSeqProperties
    <2> HIDE DEF v
    <2>2. v \in Seq(R) /\ Len(v) = B /\ \A i \in 1 .. B : v[i] = text[n + i]
        BY <1>3, <2>1
    <2> QED
        BY <2>2, Zenon DEF v, first, last
<1>6. Text(t) = u
    <2>1. DOMAIN t = 1 .. B /\ DOMAIN u = 1 .. B /\ u = [i \in DOMAIN u |-> u[i]]
        BY <1>5 DEF B
    <2>2. \A i \in 1 .. B : t[i].text = u[i]
        BY <1>5 DEF B
    <2> HIDE DEF u
    <2>3. [i \in 1 .. B |-> t[i].text] = [i \in 1 .. B |-> u[i]]
        BY <2>2
    <2> QED
        BY <2>1, <2>3, Zenon DEF Text
<1>7. SubSeq(u, B - BUFFER_END + 1, B) = Kept(text, n + B)
    <2> DEFINE from == B - BUFFER_END + 1
               to   == last - first + 1
    <2>1. /\ first \in 1 .. Len(text) /\ last \in 1 .. Len(text) /\ from \in 1 .. to /\ B \in 1 .. to
          /\ first + from - 1 = last - BUFFER_END + 1 /\ first + B - 1 = last /\ last # 0
        BY <1>1, <1>2 DEF B
    <2> HIDE DEF first, last, from
    <2>2. SubSeq(SubSeq(text, first, last), from, B) = SubSeq(text, first + from - 1, first + B - 1)
        BY <1>1, <2>1, SubSeqOfSubSeq
    <2>3. SubSeq(SubSeq(text, first, last), from, B) = SubSeq(text, last - BUFFER_END + 1, last)
        BY <2>1, <2>2, Zenon
    <2>4. Kept(text, last) = SubSeq(text, last - BUFFER_END + 1, last)
        BY <2>1, Zenon DEF Kept
    <2> QED
        BY <2>3, <2>4, Zenon DEF first, last, from
<1> QED
    BY <1>6, <1>7 DEF B, u

-----------------------------------------------------------------------------
(* What the steps keep.                                                    *)

LEMMA OnTheWay ==
    ASSUME TypeOK
    PROVE  /\ p2c \in Seq(Tokens) /\ filterOut \in Seq(Tokens) /\ filterIn \in Seq(Tokens)
           /\ flow \in Seq(Tokens) /\ o2p \in Seq(Tokens) /\ pending \in Seq(Tokens)
           /\ clientGot \in Seq(Tokens) /\ flow \o o2p \in Seq(Tokens)
           /\ Len(flow) \in Nat /\ Len(o2p) \in Nat /\ Len(pending) \in Nat
           /\ Len(flow) = Len(p2c) + Len(filterOut) + Len(filterIn)
           /\ Len(p2c) \in Nat /\ Len(filterOut) \in Nat /\ Len(filterIn) \in Nat
           /\ flow = p2c \o (filterOut \o filterIn) /\ filterOut \o filterIn \in Seq(Tokens)
           /\ flow = <<>> <=> p2c = <<>> /\ filterOut = <<>> /\ filterIn = <<>>
           /\ sent \in Nat /\ Len(taken) \in Nat /\ Len(GOODBYE) \in Nat \ {0}
<1>1. /\ p2c \in Seq(Tokens) /\ filterOut \in Seq(Tokens) /\ filterIn \in Seq(Tokens)
      /\ o2p \in Seq(Tokens) /\ pending \in Seq(Tokens) /\ clientGot \in Seq(Tokens)
      /\ taken \in Seq(0 .. COMMANDS) /\ sent \in 0 .. COMMANDS
    BY TypesOfOne
<1>2. /\ flow \in Seq(Tokens) /\ Len(flow) = Len(p2c) + Len(filterOut) + Len(filterIn)
      /\ flow = p2c \o (filterOut \o filterIn) /\ filterOut \o filterIn \in Seq(Tokens)
      /\ flow = <<>> <=> p2c = <<>> /\ filterOut = <<>> /\ filterIn = <<>>
    <2>0. (p2c \o filterOut) \o filterIn = p2c \o (filterOut \o filterIn)
        <3>1. p2c \in Seq(Tokens) /\ filterOut \in Seq(Tokens) /\ filterIn \in Seq(Tokens)
            BY <1>1
        <3> QED
            BY ONLY <3>1, Regrouped, Zenon
    <2> DEFINE way == p2c \o filterOut \o filterIn
    <2>1. flow = way
        BY DEF flow
    <2>2. way \in Seq(Tokens)
        BY ONLY <1>1, FlowIs DEF way
    <2>3. way = p2c \o (filterOut \o filterIn)
        BY <2>0
    <2>4. filterOut \o filterIn \in Seq(Tokens)
        BY ONLY <1>1, FlowIs DEF way
    <2>5. Len(way) = Len(p2c) + Len(filterOut) + Len(filterIn)
        BY ONLY <1>1, FlowIs DEF way
    <2>6. way = <<>> <=> p2c = <<>> /\ filterOut = <<>> /\ filterIn = <<>>
        BY ONLY <1>1, FlowIs DEF way
    <2> QED
        BY ONLY <2>1, <2>2, <2>3, <2>4, <2>5, <2>6
<1>3. flow \o o2p \in Seq(Tokens)
    BY ONLY <1>1, <1>2, Joined, Zenon
<1>4. GOODBYE \in Seq(Range(GOODBYE)) /\ GOODBYE # <<>>
    BY Pop3SessionAssumption
<1>5. Len(GOODBYE) \in Nat \ {0}
    BY <1>4, EmptySeq
<1>6. sent \in Nat /\ Len(taken) \in Nat
    BY <1>1, Sizes
<1>7. /\ Len(flow) \in Nat /\ Len(o2p) \in Nat /\ Len(pending) \in Nat
      /\ Len(p2c) \in Nat /\ Len(filterOut) \in Nat /\ Len(filterIn) \in Nat
    BY ONLY <1>1, <1>2, LenProperties
<1> QED
    BY ONLY <1>1, <1>2, <1>3, <1>5, <1>6, <1>7

\* Where nothing moves, the stage is the same.
LEMMA SameStage ==
    ASSUME UNCHANGED <<flow, o2p, pending, taken, sent, clientGot, dismissed, capaText, previousEnd>>,
           pc = "greet" <=> pc' = "greet", pc = "capa" => pc' = "capa", NEW m
    PROVE  /\ Going(m) => Going(m)'
           /\ Replying => Replying'
           /\ Stage(m) => Stage(m)'
<1>1. Going(m) => Going(m)'
    BY Zenon DEF Going, UnderWay, Fits
<1>2. Replying => Replying'
    BY Zenon DEF Replying, Fits
<1>3. Probing => Probing'
    <2>1. AskedCapa => AskedCapa'
        BY Zenon DEF AskedCapa
    <2>2. \A q \in Nat : Telling(q) => Telling(q)'
        BY Zenon DEF Telling
    <2> QED
        BY <2>1, <2>2, Zenon DEF Probing
<1> QED
    BY <1>1, <1>2, <1>3, Zenon DEF Stage

\* The whole of it, unless the proxy turns to the origin's capabilities or from them.
LEMMA Quiet ==
    ASSUME UNCHANGED <<flow, o2p, pending, taken, sent, clientGot, dismissed, capaText, previousEnd>>,
           pc # "closed", pc' # "closed",
           pc = "greet" <=> pc' = "greet", pc = "capa" <=> pc' = "capa",
           CAPA \in Range(p2o') => CAPA \in Range(p2o), pc = "capa" => p2o' = p2o,
           clientClosed' = clientClosed,
           pc' = "capa" \/ (pc' = "clients" /\ "client" \in ready') => c2p' # <<>> \/ clientClosed',
           NEW m, Open(m)
    PROVE  Open(m)'
<1>1. (Begun <=> Begun') /\ Hearing(clientGot, sent, m, Begun)
    BY DEF Begun, Open
<1>2. Hearing(clientGot', sent', m, Begun')
    BY <1>1, Zenon DEF Hearing
<1>3. Stage(m)' /\ (Going(0) => Going(0)') /\ (Replying => Replying')
    BY SameStage DEF Open
<1>4. Probe'
    BY <1>3, Zenon DEF Open, Probe
<1>5. Turn'
    BY <1>3, Zenon DEF Open, Turn
<1> QED
    BY <1>2, <1>3, <1>4, <1>5 DEF Open

\* And nothing is heard once the session is closed but what was on its way.
LEMMA Shut ==
    ASSUME UNCHANGED <<flow, sent, clientGot, pc>>, pc = "closed", NEW m, Closed(m)
    PROVE  Closed(m)'
<1>1. Begun <=> Begun'
    BY DEF Begun
<1>2. Hearing(clientGot', sent', m, Begun')
    BY <1>1, Zenon DEF Closed, Hearing
<1> QED
    BY <1>2, Zenon DEF Closed

\* Of what was on its way to the client the proxy has lost what it had not written.
LEMMA Closes ==
    ASSUME TypeOK, pc # "closed", CloseAll, UNCHANGED <<sent, clientGot, p2c>>, NEW m, Open(m)
    PROVE  DialogueInv'
<1> DEFINE k == Answering(sent)
           rest == (filterOut \o filterIn) \o o2p
           S == Len(p2c)
<1>1. /\ p2c \in Seq(Tokens) /\ filterOut \in Seq(Tokens) /\ filterIn \in Seq(Tokens)
      /\ filterOut \o filterIn \in Seq(Tokens) /\ o2p \in Seq(Tokens)
      /\ flow = p2c \o (filterOut \o filterIn) /\ S \in Nat
      /\ flow = <<>> => p2c = <<>>
    BY OnTheWay
<1>2. rest \in Seq(Tokens) /\ flow \o o2p = p2c \o rest
    <2>1. p2c \in Seq(Tokens) /\ filterOut \o filterIn \in Seq(Tokens) /\ o2p \in Seq(Tokens)
        BY <1>1
    <2>2. rest \in Seq(Tokens)
        BY ONLY <2>1, Joined, Zenon
    <2>3. (p2c \o (filterOut \o filterIn)) \o o2p = p2c \o rest
        BY ONLY <2>1, Regrouped, Zenon
    <2>4. flow \o o2p = (p2c \o (filterOut \o filterIn)) \o o2p
        BY ONLY <1>1
    <2> QED
        BY ONLY <2>2, <2>3, <2>4, Zenon
<1>3. /\ pc' = "closed" /\ flow' = p2c
    <2>1. p2c' = p2c /\ filterOut' = <<>> /\ filterIn' = <<>> /\ pc' = "closed"
        BY DEF CloseAll
    <2>2. (p2c \o <<>>) \o <<>> = p2c
        BY ONLY <1>1, ConcatEmptySeq
    <2> QED
        BY <2>1, <2>2, Zenon DEF flow
<1>4. Begun' => Begun
    BY <1>1, <1>3 DEF Begun
<1>5. Hearing(clientGot, sent, m, Begun)
    BY DEF Open
<1> HIDE DEF k, rest
<1>6. CASE Going(m)
    <2>1. Part(p2c \o rest, k, m, TRUE)
        BY <1>2, <1>6, Zenon DEF Going, k
    <2>2. m \in Nat
        BY <1>1, <1>2, <2>1, Joined DEF Part
    <2>3. CASE m <= S
        <3>1. Part(p2c, k, m, TRUE)
            BY <1>1, <1>2, <2>1, <2>3, PartSplits
        <3>2. Part(p2c, k, m, FALSE)
            BY <3>1, Zenon DEF Part
        <3>3. Hearing(clientGot, sent, m, Begun')
            BY <1>4, <1>5, HearsLess
        <3>4. Closed(m)'
            BY <1>3, <3>2, <3>3, Zenon DEF Closed, k
        <3> QED
            BY <1>3, <2>2, <3>4, Zenon DEF DialogueInv
    <2>4. CASE m > S
        <3>1. Part(p2c, k, S, FALSE)
            BY <1>1, <1>2, <2>1, <2>4, PartSplits
        <3>2. Hearing(clientGot, sent, S, Begun')
            <4>1. S = 0 => ~Begun'
                BY <1>1, <1>3, EmptySeq DEF Begun
            <4>2. m >= 1 /\ (S >= 1 => ~(S = 0))
                BY <1>1, <2>2, <2>4
            <4> QED
                BY <1>5, <4>1, <4>2, Zenon DEF Hearing
        <3>3. Closed(S)'
            BY <1>3, <3>1, <3>2, Zenon DEF Closed, k
        <3> QED
            BY <1>1, <1>3, <3>3, Zenon DEF DialogueInv
    <2> QED
        BY <1>1, <2>2, <2>3, <2>4
<1>7. CASE m = 0 /\ (Replying \/ Probing)
    <2>1. p2c = <<>>
        BY <1>1, <1>7 DEF Replying, Probing, AskedCapa, Telling
    <2>2. Part(<<>>, k, 0, FALSE)
        BY ByesArePart DEF Part
    <2>3. Hearing(clientGot, sent, 0, Begun')
        BY <1>4, <1>5, <1>7, HearsLess
    <2>4. Closed(0)'
        BY <1>3, <2>1, <2>2, <2>3, Zenon DEF Closed, k
    <2> QED
        BY <1>3, <2>4, Zenon DEF DialogueInv
<1> QED
    BY <1>6, <1>7, Zenon DEF Open, Stage

-----------------------------------------------------------------------------
(* The steps.                                                              *)

LEMMA FitsBarely ==
    ASSUME TypeOK, NEW n \in Nat, NEW room \in Nat, Fits(n, room)
    PROVE  n <= room
<1>1. Len(GOODBYE) \in Nat
    BY OnTheWay
<1>2. CASE dismissed
    BY <1>2 DEF Fits
<1>3. CASE ~dismissed
    BY <1>1, <1>3 DEF Fits
<1> QED
    BY <1>2, <1>3

\* In every stage the client's socket has room for all that is on its way to it.
LEMMA Room ==
    ASSUME TypeOK, InTurn, NEW m, Stage(m)
    PROVE  Len(flow) <= SOCKET
<1>1. Len(flow) \in Nat /\ Len(o2p) \in Nat /\ Len(pending) \in Nat /\ Len(GOODBYE) \in Nat
    BY OnTheWay
<1>2. SOCKET \in Nat
    BY Sizes
<1>3. CASE Going(m)
    <2>1. Fits(UnderWay, SOCKET) /\ UnderWay = Len(flow) + Len(o2p) + Len(pending)
        BY <1>3 DEF Going, UnderWay
    <2>2. UnderWay <= SOCKET
        BY <1>1, <1>2, <2>1, FitsBarely
    <2> QED
        BY <1>1, <1>2, <2>1, <2>2
<1>4. CASE flow = <<>>
    BY <1>2, <1>4
<1> QED
    BY <1>3, <1>4, Zenon DEF Stage, Replying, Probing, AskedCapa, Telling

LEMMA FlowFiltered ==
    ASSUME TypeOK, FilterRuns
    PROVE  flow' = flow
<1>1. /\ p2c \in Seq(Tokens) /\ filterOut \in Seq(Tokens) /\ filterIn \in Seq(Tokens)
      /\ filterIn # <<>>
    BY OnTheWay DEF FilterRuns
<1>2. p2c \o Append(filterOut, Head(filterIn)) \o Tail(filterIn) = p2c \o filterOut \o filterIn
    BY ONLY <1>1, FlowMoves, Zenon
<1>3. p2c' = p2c /\ filterOut' = Append(filterOut, Head(filterIn)) /\ filterIn' = Tail(filterIn)
    BY DEF FilterRuns
<1> QED
    BY <1>2, <1>3, Zenon DEF flow

\* A read that fits where it is written to is written whole.
LEMMA FlowRead ==
    ASSUME TypeOK, InTurn, NEW m, Stage(m), ReadFromFilter
    PROVE  flow' = flow
<1>1. CASE "filter" \in ready
    <2> DEFINE t == Take(filterOut, BUFF_SIZE)
               d == Drop(filterOut, BUFF_SIZE)
               room == SOCKET - Len(p2c)
    <2>1. p2c \in Seq(Tokens) /\ filterOut \in Seq(Tokens) /\ filterIn \in Seq(Tokens)
        BY OnTheWay
    <2>2. BUFF_SIZE \in Nat
        BY Sizes
    <2>3. t \in Seq(Tokens) /\ Len(t) \in Nat /\ Len(t) <= Len(filterOut)
        <3>1. /\ t \in Seq(Tokens) /\ Len(t) \in Nat /\ Len(d) \in Nat
              /\ Len(filterOut) = Len(t) + Len(d)
            BY <2>1, <2>2, ReadWhole
        <3> HIDE DEF t, d
        <3> QED
            BY <3>1
    <2>4. room \in Nat /\ room >= Len(t)
        <3>1. /\ Len(flow) = Len(p2c) + Len(filterOut) + Len(filterIn) /\ Len(flow) <= SOCKET
              /\ Len(p2c) \in Nat /\ Len(filterOut) \in Nat /\ Len(filterIn) \in Nat /\ SOCKET \in Nat
            BY OnTheWay, Room, Sizes
        <3> QED
            BY <2>3, <3>1
    <2>5. Take(t, room) = t
        <3> HIDE DEF t, room
        <3> QED
            BY <2>3, <2>4, ReadWhole
    <2>6. p2c' = p2c \o t /\ filterOut' = d /\ filterIn' = filterIn
        BY <1>1, <2>5 DEF ReadFromFilter, ToClient
    <2>7. (p2c \o t) \o d \o filterIn = p2c \o filterOut \o filterIn
        BY ONLY <2>1, <2>2, FlowMoves, Zenon
    <2> QED
        BY <2>6, <2>7, Zenon DEF flow
<1>2. CASE "filter" \notin ready
    BY <1>2 DEF ReadFromFilter, flow
<1> QED
    BY <1>1, <1>2

LEMMA OpenSelect ==
    ASSUME Select, NEW m, Open(m)
    PROVE  Open(m)' /\ pc' # "closed"
<1>1. /\ pc = "select" /\ pc' = "clients"
      /\ "client" \in ready' => c2p # <<>> \/ clientClosed
      /\ UNCHANGED <<client, channels, origin, buffer, previousEnd>>
    BY DEF Select
<1>2. /\ UNCHANGED <<flow, o2p, pending, taken, sent, clientGot, dismissed, capaText, previousEnd>>
      /\ UNCHANGED <<p2o, clientClosed, c2p>>
    BY <1>1 DEF client, channels, origin, flow
<1> QED
    BY <1>1, <1>2, Quiet

LEMMA OpenFilter ==
    ASSUME TypeOK, FilterRuns, pc # "closed", NEW m, Open(m)
    PROVE  Open(m)' /\ pc' # "closed"
<1>1. UNCHANGED <<client, c2p, p2o, o2p, p2c, origin, proxy>>
    BY DEF FilterRuns
<1>2. UNCHANGED <<sent, clientClosed, clientGot, c2p, p2o, o2p, capaText, taken, pending, dismissed,
                  pc, ready, previousEnd>>
    BY <1>1 DEF client, origin, proxy
<1>3. flow' = flow
    BY FlowFiltered
<1>4. pc = "capa" \/ (pc = "clients" /\ "client" \in ready) => c2p # <<>> \/ clientClosed
    BY DEF Open, Turn
<1> QED
    BY <1>2, <1>3, <1>4, Quiet

LEMMA OpenReadFilter ==
    ASSUME TypeOK, InTurn, ReadFromFilter, NEW m, Open(m)
    PROVE  Open(m)' /\ pc' # "closed"
<1>1. /\ pc = "filters" /\ pc' = "select"
      /\ UNCHANGED <<client, c2p, p2o, o2p, filterIn, origin, ready, buffer, previousEnd>>
    BY DEF ReadFromFilter
<1>2. UNCHANGED <<sent, clientClosed, clientGot, c2p, p2o, o2p, capaText, taken, pending, dismissed,
                  previousEnd>>
    BY <1>1 DEF client, origin
<1>3. flow' = flow
    BY FlowRead DEF Open
<1> QED
    BY <1>1, <1>2, <1>3, Quiet

LEMMA OpenWrite ==
    ASSUME TypeOK, Orderly, WriteToOrigin, NEW m, Open(m)
    PROVE  Open(m)' /\ pc' # "closed"
<1>1. /\ pc = "forward" /\ pc' = "forward" /\ Len(p2o) < SOCKET
      /\ p2o' = p2o \o Take(buffer, SOCKET - Len(p2o))
      /\ UNCHANGED <<client, c2p, o2p, p2c, filterIn, filterOut, origin, ready, previousEnd>>
    BY DEF WriteToOrigin
<1>2. /\ UNCHANGED <<sent, clientClosed, clientGot, c2p, o2p, capaText, taken, pending, dismissed,
                     previousEnd>>
      /\ flow' = flow
    BY <1>1 DEF client, origin, flow
<1>3. CAPA \in Range(p2o') => CAPA \in Range(p2o)
    <2> DEFINE n == SOCKET - Len(p2o)
               t == Take(buffer, n)
    <2>1. buffer \in Queue /\ p2o \in Queue /\ Forwarded \in Nat /\ n \in Nat
        <3>1. SOCKET \in Nat /\ Len(p2o) \in Nat
            BY Sizes, TypesOfOne
        <3> QED
            BY <1>1, <3>1, QueueTypes
    <2>2. /\ t \in Queue /\ \A i \in 1 .. Len(t) : t[i] = buffer[i]
          /\ Len(t) <= Len(buffer)
        <3> HIDE DEF n
        <3>1. /\ t \in Seq(0 .. COMMANDS) /\ Len(t) = (IF n < Len(buffer) THEN n ELSE Len(buffer))
              /\ \A i \in 1 .. Len(t) : t[i] = buffer[i]
            BY <2>1, TakeDrop DEF Queue
        <3>2. Len(buffer) \in Nat
            BY QueueTypes
        <3> QED
            BY <2>1, <3>1, <3>2 DEF Queue
    <2>3. \A i \in 1 .. Len(buffer) : buffer[i] = Forwarded + i
        BY <2>1, OrderlyIs DEF Queues, Queue
    <2> HIDE DEF t
    <2>4. CAPA \notin Range(t)
        <3> SUFFICES ASSUME NEW i \in DOMAIN t, t[i] = CAPA PROVE FALSE
            BY DEF Range
        <3>1. i \in 1 .. Len(t) /\ i \in 1 .. Len(buffer) /\ i >= 1
            <4>1. Len(buffer) \in Nat /\ Len(t) \in Nat /\ DOMAIN t = 1 .. Len(t)
                BY <2>2, QueueTypes DEF Queue
            <4> QED
                BY <2>2, <4>1
        <3>2. CAPA = Forwarded + i
            BY <2>2, <2>3, <3>1
        <3> QED
            BY <2>1, <3>1, <3>2 DEF CAPA
    <2>5. Range(p2o \o t) = Range(p2o) \cup Range(t)
        BY <2>1, <2>2, RangeConcatenation DEF Queue
    <2>6. p2o' = p2o \o t
        BY <1>1 DEF t
    <2> QED
        BY <2>4, <2>5, <2>6
<1> QED
    BY <1>1, <1>2, <1>3, Quiet

LEMMA OpenReadClient ==
    ASSUME TypeOK, ReadFromClient, NEW m \in Nat, Open(m)
    PROVE  DialogueInv'
<1>1. pc = "forward" /\ UNCHANGED <<client, p2o, p2c, origin>>
    BY DEF ReadFromClient
<1>2. UNCHANGED <<sent, clientClosed, clientGot, p2o, p2c, capaText, taken, pending, dismissed>>
    BY <1>1 DEF client, origin
<1>3. CASE CloseAll
    BY <1>1, <1>2, <1>3, Closes
<1>4. CASE pc' \in {"forward", "origins"} /\ UNCHANGED <<o2p, filterIn, filterOut, previousEnd>>
    <2>1. flow' = flow
        BY <1>2, <1>4 DEF flow
    <2>2. Open(m)'
        BY <1>1, <1>2, <1>4, <2>1, Quiet
    <2> QED
        BY <1>4, <2>2, Zenon DEF DialogueInv
<1> QED
    BY <1>1, <1>3, <1>4 DEF ReadFromClient

\* Once the client has something more to say, or nothing any more, what it said before has
\* been answered.
LEMMA Waited ==
    ASSUME TypeOK, Orderly, pc \in {"clients", "capa"}, c2p # <<>> \/ clientClosed,
           NEW m \in Nat, Open(m)
    PROVE  /\ m = 0 /\ ~Replying
           /\ CAPA \notin Range(p2o) => p2o = <<>>
<1> DEFINE F == Forwarded
           T == Len(taken)
           C == Len(c2p)
<1>1. F \in Nat /\ T \in Nat /\ C \in Nat /\ sent \in Nat /\ p2o \in Queue /\ c2p \in Queue
    BY QueueTypes, OnTheWay
<1>2. buffer = <<>> /\ F + Len(buffer) + C = sent /\ T <= F /\ Said(p2o) = T + 1 .. F
    BY OrderlyIs DEF Queues
<1>3. F + C = sent
    BY <1>1, <1>2
<1>4. T >= sent - 1 /\ (T < sent => ~Answers(clientGot, sent))
    BY DEF Open, Turn
<1>5. \/ Going(m) /\ (m >= 1 => T = sent)
      \/ m = 0
    BY DEF Open, Stage, Going
<1>6. m >= 1 => ~Answers(clientGot, sent)
    BY DEF Open, Hearing
<1>7. Replying => T = sent /\ ~Answers(clientGot, sent)
    BY DEF Replying
<1>8. T = F /\ m = 0 /\ ~Replying
    <2>1. CASE c2p # <<>>
        <3>1. C >= 1
            BY <1>1, <2>1, EmptySeq DEF Queue
        <3> HIDE DEF T, C, F
        <3>2. T = F /\ T # sent
            BY <1>1, <1>2, <1>3, <1>4, <3>1
        <3> QED
            BY <1>5, <1>7, <3>2
    <2>2. CASE clientClosed
        <3>1. Answers(clientGot, sent)
            BY <2>2 DEF Open, Turn
        <3> HIDE DEF T, C, F
        <3>2. T = F
            BY <1>1, <1>2, <1>3, <1>4, <3>1
        <3>3. ~(m >= 1) /\ ~Replying
            BY <1>6, <1>7, <3>1
        <3> QED
            BY <3>2, <3>3
    <2> QED
        BY <2>1, <2>2
<1>9. ASSUME CAPA \notin Range(p2o), p2o # <<>> PROVE FALSE
    <2>1. p2o[1] \in Range(p2o)
        BY <1>1, <1>9, Ends DEF Queue, Range
    <2>2. p2o[1] \in Said(p2o)
        BY <1>9, <2>1 DEF Said
    <2> HIDE DEF T, F
    <2> QED
        BY <1>1, <1>2, <1>8, <2>2
<1> QED
    BY <1>8, <1>9

LEMMA OpenAttend ==
    ASSUME TypeOK, Orderly, AttendClient, NEW m \in Nat, Open(m)
    PROVE  Open(m)' /\ pc' # "closed"
<1>1. /\ pc = "clients"
      /\ UNCHANGED <<client, c2p, o2p, p2c, filterIn, filterOut, origin, ready, buffer, previousEnd>>
    BY DEF AttendClient
<1>2. /\ UNCHANGED <<sent, clientClosed, clientGot, c2p, o2p, capaText, taken, pending, dismissed,
                     previousEnd>>
      /\ flow' = flow
    BY <1>1 DEF client, origin, flow
<1>3. CASE "client" \notin ready
    <2>1. p2o' = p2o /\ pc' = "origins"
        BY <1>3 DEF AttendClient
    <2> QED
        BY <1>1, <1>2, <2>1, Quiet
<1>4. CASE "client" \in ready
    <2>1. p2o' = Append(p2o, CAPA) /\ pc' = "capa"
        BY <1>4 DEF AttendClient
    <2>2. (c2p # <<>> \/ clientClosed) /\ previousEnd = <<>>
        BY <1>1, <1>4 DEF Open, Turn
    <2>3. m = 0 /\ Going(0) /\ (CAPA \notin Range(p2o) => p2o = <<>>)
        <3>1. m = 0 /\ ~Replying /\ (CAPA \notin Range(p2o) => p2o = <<>>)
            BY <1>1, <2>2, Waited
        <3> QED
            BY <1>1, <3>1 DEF Open, Stage, Probing
    <2>4. Going(0)' /\ Stage(m)'
        BY <1>1, <1>2, <2>1, <2>3, SameStage DEF Open
    <2>5. Hearing(clientGot', sent', m, Begun')
        <3>1. Begun' <=> Begun
            BY <1>1, <1>2, <2>1 DEF Begun
        <3> QED
            BY <1>2, <3>1, Zenon DEF Open, Hearing
    <2>6. Probe'
        <3>1. ~dismissed => p2o = <<>>
            BY <1>1, <2>3 DEF Open, Probe
        <3>2. ~dismissed => p2o' = <<CAPA>>
            BY <2>1, <3>1
        <3>3. ~dismissed' => NoBye(clientGot)' /\ NoBye(flow)' /\ NoBye(o2p)' /\ NoBye(pending)'
            BY <1>2, Zenon DEF Open, Probe
        <3> QED
            BY <1>2, <2>1, <2>2, <2>4, <3>2, <3>3 DEF Probe
    <2>7. Turn'
        BY <1>1, <1>2, <2>1, <2>2 DEF Open, Turn
    <2> QED
        BY <2>1, <2>4, <2>5, <2>6, <2>7 DEF Open
<1> QED
    BY <1>3, <1>4

LEMMA AnsweredIs ==
    ASSUME TypeOK, NEW k
    PROVE  Answered(k) <=> Answers(clientGot, k)
<1>1. DOMAIN clientGot = 1 .. Len(clientGot)
    BY OnTheWay
<1> QED
    BY <1>1, Zenon DEF Answered, Answers, Answering

LEMMA DialogueCloses ==
    ASSUME TypeOK, InTurn, DialogueInv, ClientCloses
    PROVE  DialogueInv'
<1>1. /\ UNCHANGED <<sent, clientGot, channels, origin, proxy>>
      /\ clientClosed' = TRUE /\ Answers(clientGot, COMMANDS)
    BY AnsweredIs DEF ClientCloses, InTurn
<1>2. UNCHANGED <<sent, clientGot, c2p, p2o, o2p, flow, capaText, taken, pending, dismissed, pc, ready,
                  previousEnd>>
    BY <1>1 DEF channels, origin, proxy, flow
<1>3. PICK m \in Nat : IF pc = "closed" THEN Closed(m) ELSE Open(m)
    BY DEF DialogueInv
<1>4. CASE pc = "closed"
    <2>1. Closed(m)'
        BY <1>2, <1>3, <1>4, Shut
    <2> QED
        BY <1>2, <1>4, <2>1, Zenon DEF DialogueInv
<1>5. CASE pc # "closed"
    <2>1. Open(m)
        BY <1>3, <1>5
    <2>2. Hearing(clientGot, sent, m, Begun) /\ (Begun' <=> Begun)
        BY <1>2, <2>1 DEF Open, Begun
    <2>3. sent = COMMANDS /\ Answers(clientGot, sent)
        <3>1. PICK i \in 1 .. Len(clientGot) : clientGot[i].to = Answering(COMMANDS)
            BY <1>1 DEF Answers
        <3>2. clientGot[i].to \in {GREETING, BYE} \cup 1 .. sent
            BY <2>2 DEF Hearing
        <3>3. sent \in 0 .. COMMANDS /\ COMMANDS \in Nat \ {0}
            BY TypesOfOne, Sizes
        <3>4. sent = COMMANDS
            BY <3>1, <3>2, <3>3 DEF Answering, GREETING, BYE
        <3> QED
            BY <1>1, <3>4
    <2>4. Hearing(clientGot', sent', m, Begun')
        BY <1>2, <2>2, Zenon DEF Hearing
    <2>5. Stage(m)' /\ (Going(0) => Going(0)') /\ (Replying => Replying')
        BY <1>2, <2>1, SameStage DEF Open
    <2>6. Probe'
        BY <1>2, <2>1, <2>5, Zenon DEF Open, Probe
    <2>7. Turn'
        BY <1>1, <1>2, <2>1, <2>3, <2>5, Zenon DEF Open, Turn
    <2>8. Open(m)'
        BY <2>4, <2>5, <2>6, <2>7 DEF Open
    <2> QED
        BY <1>2, <1>5, <2>8, Zenon DEF DialogueInv
<1> QED
    BY <1>4, <1>5

LEMMA OpenGreet ==
    ASSUME TypeOK, InTurn, Greet, NEW m \in Nat, Open(m)
    PROVE  Open(m)' /\ pc' # "closed"
<1> DEFINE t == Take(o2p, 2 * BUFF_SIZE)
           d == Drop(o2p, 2 * BUFF_SIZE)
           k == Answering(sent)
<1>1. /\ pc = "greet" /\ o2p # <<>> /\ pc' = "select" /\ p2c' = ToClient(t) /\ o2p' = d
      /\ UNCHANGED <<client, c2p, p2o, filterIn, filterOut, origin, ready, buffer, previousEnd>>
    BY DEF Greet
<1>2. UNCHANGED <<sent, clientClosed, clientGot, p2o, capaText, taken, pending, dismissed, previousEnd>>
    BY <1>1 DEF client, origin
<1>3. sent = 0 /\ clientGot = <<>> /\ flow = <<>> /\ ~Byes(o2p)
    BY <1>1 DEF Open, Turn, Replying
<1>4. Going(m)
    BY <1>1 DEF Open, Stage, Replying, Probing
<1>5. /\ o2p \in Seq(Tokens) /\ Len(o2p) \in Nat /\ Len(o2p) <= SOCKET /\ Len(pending) \in Nat
      /\ p2c = <<>> /\ filterIn = <<>> /\ filterOut = <<>>
    BY <1>3, OnTheWay, TypesOfOne
<1>6. Part(o2p, k, m, TRUE)
    <2>1. <<>> \o o2p = o2p
        BY <1>5, ConcatEmptySeq
    <2> QED
        BY <1>3, <1>4, <2>1 DEF Going
<1>7. m >= 1
    <2>1. m # 0
        BY <1>3, <1>5, <1>6, ByesArePart
    <2> QED
        BY <2>1
<1>8. 2 * BUFF_SIZE \in Nat /\ BUFF_SIZE \in Nat /\ SOCKET \in Nat
    BY Sizes
<1>9. /\ t \in Seq(Tokens) /\ d \in Seq(Tokens) /\ t \o d = o2p
      /\ Len(t) \in Nat /\ Len(d) \in Nat /\ Len(o2p) = Len(t) + Len(d)
      /\ 2 * BUFF_SIZE < Len(o2p) => Len(t) = 2 * BUFF_SIZE
      /\ 2 * BUFF_SIZE >= Len(o2p) => t = o2p /\ d = <<>>
    BY <1>5, <1>8, ReadWhole
<1> HIDE DEF t, d, k
<1>10. flow' = t
    <2>1. Take(t, SOCKET - 0) = t
        BY <1>5, <1>8, <1>9, ReadWhole
    <2>2. Len(<<>>) = 0 /\ <<>> \o t = t /\ (t \o <<>>) \o <<>> = t
        BY <1>9, ConcatEmptySeq
    <2>3. p2c' = t
        BY <1>1, <1>5, <2>1, <2>2 DEF ToClient
    <2>4. filterIn' = <<>> /\ filterOut' = <<>>
        BY <1>1, <1>5
    <2> QED
        BY <2>2, <2>3, <2>4, Zenon DEF flow
<1>11. Going(m)'
    <2>1. Part(flow' \o o2p', Answering(sent'), m, TRUE) /\ Byes(pending')
        BY <1>1, <1>2, <1>4, <1>6, <1>9, <1>10 DEF Going, k
    <2>2. UnderWay' = UnderWay
        <3>1. Len(<<>>) = 0
            OBVIOUS
        <3> QED
            BY <1>1, <1>2, <1>3, <1>5, <1>9, <1>10, <3>1 DEF UnderWay
    <2>3. Len(taken') = sent' \/ ~(m >= 1)
        BY <1>2, <1>4 DEF Going
    <2>4. Fits(UnderWay, SOCKET)' /\ (Fits(UnderWay, PIPE) => Fits(UnderWay, PIPE)')
        BY <1>2, <1>4, <2>2, Zenon DEF Going, Fits
    <2>5. Byes(o2p') \/ Fits(UnderWay, PIPE)
        <3>1. CASE m <= BUFF_SIZE
            <4>1. m <= Len(t) \/ d = <<>>
                BY <1>5, <1>8, <1>9, <3>1
            <4>2. Byes(d)
                BY <1>6, <1>9, <4>1, PartSplits, ByesArePart
            <4> QED
                BY <1>1, <4>2
        <3> QED
            BY <1>3, <1>4, <3>1 DEF Going
    <2> QED
        BY <2>1, <2>3, <2>4, <2>5, Zenon DEF Going
<1>12. Hearing(clientGot', sent', m, Begun')
    <2>1. Hearing(clientGot, sent, m, Begun)
        BY DEF Open
    <2> QED
        BY <1>2, <1>7, <2>1 DEF Hearing
<1>13. Probe'
    <2>1. NoBye(o2p) <=> NoBye(t) /\ NoBye(d)
        BY <1>9, ByesJoin
    <2> QED
        BY <1>1, <1>2, <1>10, <2>1 DEF Open, Probe
<1>14. Turn'
    <2>1. previousEnd = <<>>
        BY <1>1 DEF Open, Turn
    <2> QED
        BY <1>1, <1>2, <2>1 DEF Open, Turn
<1> QED
    BY <1>1, <1>11, <1>12, <1>13, <1>14 DEF Open, Stage

\* The client hears the first of what is on its way to it.
LEMMA FlowReceived ==
    ASSUME TypeOK, ClientReceives
    PROVE  /\ flow # <<>> /\ Head(p2c) = Head(flow) /\ flow' = Tail(flow)
           /\ flow' \in Seq(Tokens) /\ Len(flow') \in Nat /\ Len(flow) = Len(flow') + 1
           /\ Head(flow) \in Tokens
<1>1. /\ p2c \in Seq(Tokens) /\ filterOut \in Seq(Tokens) /\ filterIn \in Seq(Tokens)
      /\ filterOut \o filterIn \in Seq(Tokens) /\ flow = p2c \o (filterOut \o filterIn)
      /\ flow \in Seq(Tokens)
    BY OnTheWay
<1>2. p2c # <<>> /\ p2c' = Tail(p2c) /\ filterOut' = filterOut /\ filterIn' = filterIn
    BY DEF ClientReceives
<1> DEFINE rest == filterOut \o filterIn
<1>3. /\ p2c \o rest # <<>> /\ Head(p2c \o rest) = Head(p2c)
      /\ Tail(p2c \o rest) = Tail(p2c) \o rest /\ Tail(p2c) \in Seq(Tokens)
    <2>1. p2c # <<>> /\ p2c \in Seq(Tokens) /\ rest \in Seq(Tokens)
        BY <1>1, <1>2
    <2> HIDE DEF rest
    <2> QED
        BY ONLY <2>1, FlowBegins
<1>4. flow' = Tail(p2c) \o rest
    <2>1. (Tail(p2c) \o filterOut) \o filterIn = Tail(p2c) \o (filterOut \o filterIn)
        <3>1. Tail(p2c) \in Seq(Tokens) /\ filterOut \in Seq(Tokens) /\ filterIn \in Seq(Tokens)
            BY <1>1, <1>3
        <3> QED
            BY ONLY <3>1, Regrouped, Zenon
    <2>2. flow' = (Tail(p2c) \o filterOut) \o filterIn
        BY <1>2, Zenon DEF flow
    <2> QED
        BY <2>1, <2>2, Zenon
<1> HIDE DEF rest
<1>5. flow # <<>> /\ Head(p2c) = Head(flow) /\ flow' = Tail(flow)
    BY <1>1, <1>3, <1>4 DEF rest
<1>6. Tail(flow) \in Seq(Tokens) /\ Head(flow) \in Tokens /\ Len(Tail(flow)) \in Nat /\ Len(flow) = Len(Tail(flow)) + 1
    BY <1>1, <1>5, Ends
<1> QED
    BY <1>5, <1>6

LEMMA ClosedReceives ==
    ASSUME TypeOK, ClientReceives, pc = "closed", NEW m \in Nat, Closed(m)
    PROVE  DialogueInv'
<1> DEFINE k == Answering(sent)
           x == Head(flow)
           rest == Tail(flow)
<1>1. /\ flow \in Seq(Tokens) /\ flow # <<>> /\ Head(p2c) = x /\ flow' = rest /\ x \in Tokens
      /\ clientGot \in Seq(Tokens) /\ sent \in Nat
    BY FlowReceived, OnTheWay
<1>2. clientGot' = Append(clientGot, x) /\ sent' = sent /\ pc' = pc
    BY <1>1 DEF ClientReceives, proxy
<1>3. Part(flow, k, m, FALSE) /\ Hearing(clientGot, sent, m, Begun)
    BY DEF Closed
<1> HIDE DEF k, x, rest
<1>4. /\ m = 0 => x.to = BYE /\ Part(rest, k, 0, FALSE)
      /\ m >= 1 => x.to = k /\ Part(rest, k, m - 1, FALSE) /\ (x.last => m = 1)
                   /\ (m = 1 /\ rest # <<>> => x.last)
    <2>1. FALSE \in BOOLEAN
        OBVIOUS
    <2> QED
        BY <1>1, <1>3, <2>1, PartBegins DEF x, rest
<1> DEFINE n == IF m = 0 THEN 0 ELSE m - 1
<1>5. n \in Nat /\ Part(rest, k, n, FALSE)
    <2>1. CASE m = 0
        BY <1>4, <2>1
    <2>2. CASE m >= 1
        <3>1. n = m - 1 /\ n \in Nat
            BY <2>2
        <3>2. Part(rest, k, m - 1, FALSE)
            BY <1>4, <2>2, Zenon
        <3> HIDE DEF n
        <3> QED
            BY <3>1, <3>2, Zenon
    <2>3. m = 0 \/ m >= 1
        OBVIOUS
    <2> QED
        BY <2>1, <2>2, <2>3, Zenon
<1>6. Hearing(clientGot', sent', n, Begun')
    <2>1. /\ m = 0 => Hearing(clientGot', sent, 0, TRUE)
          /\ m >= 2 => Hearing(clientGot', sent, m - 1, TRUE)
          /\ m = 1 /\ x.last => Hearing(clientGot', sent, 0, TRUE)
          /\ m = 1 => Hearing(clientGot', sent, 0, FALSE)
        BY <1>1, <1>2, <1>3, <1>4, Hears DEF k
    <2>2. Begun' => rest # <<>>
        BY <1>1, <1>2 DEF Begun
    <2>3. CASE m = 0
        BY <1>2, <2>1, <2>3, Zenon DEF Hearing
    <2>4. CASE m = 1
        <3>1. n = 0
            BY <2>4
        <3>2. Begun' => Hearing(clientGot', sent, 0, TRUE)
            <4>1. m >= 1
                BY <2>4
            <4>2. rest # <<>> => x.last
                BY <1>4, <2>4, <4>1, Zenon
            <4> QED
                BY <2>1, <2>2, <2>4, <4>2, Zenon
        <3> QED
            BY <1>2, <2>1, <2>4, <3>1, <3>2, Zenon DEF Hearing
    <2>5. CASE m >= 2
        <3>1. n = m - 1 /\ n # 0
            BY <2>5
        <3> QED
            BY <1>2, <2>1, <2>5, <3>1, Zenon DEF Hearing
    <2> QED
        BY <2>3, <2>4, <2>5
<1>7. Closed(n)'
    BY <1>1, <1>2, <1>5, <1>6, Zenon DEF Closed, k
<1> QED
    BY <1>2, <1>5, <1>7, Zenon DEF DialogueInv

LEMMA FitsLess ==
    ASSUME TypeOK, NEW n \in Nat, NEW l \in Nat, l <= n, NEW room \in Nat, Fits(n, room)
    PROVE  Fits(l, room)
<1>1. Len(GOODBYE) \in Nat
    BY OnTheWay
<1>2. CASE dismissed
    BY <1>2 DEF Fits
<1>3. CASE ~dismissed
    BY <1>1, <1>3 DEF Fits
<1> QED
    BY <1>2, <1>3

LEMMA HeardMore ==
    ASSUME NEW h \in Seq(Tokens), NEW x \in Tokens
    PROVE  /\ \A n : Answers(Append(h, x), n) <=> Answers(h, n) \/ (x.last /\ x.to = Answering(n))
           /\ NoBye(Append(h, x)) <=> NoBye(h) /\ x.to # BYE
<1> DEFINE g == Append(h, x)
           H == Len(h)
<1>1. /\ g \in Seq(Tokens) /\ Len(g) = H + 1 /\ H \in Nat /\ g[H + 1] = x
      /\ \A i \in 1 .. H : g[i] = h[i]
    OBVIOUS
<1> HIDE DEF g, H
<1>2. /\ \A i \in 1 .. Len(g) : i \in 1 .. H \/ i = H + 1
      /\ H + 1 \in 1 .. Len(g) /\ \A i \in 1 .. H : i \in 1 .. Len(g)
    BY <1>1
<1>3. ASSUME NEW n PROVE Answers(g, n) <=> Answers(h, n) \/ (x.last /\ x.to = Answering(n))
    <2>1. Answers(g, n) => Answers(h, n) \/ (x.last /\ x.to = Answering(n))
        BY <1>1, <1>2 DEF Answers, H
    <2>2. Answers(h, n) => Answers(g, n)
        BY <1>1, <1>2 DEF Answers, H
    <2>3. x.last /\ x.to = Answering(n) => Answers(g, n)
        BY <1>1, <1>2 DEF Answers
    <2> QED
        BY <2>1, <2>2, <2>3
<1>4. NoBye(g) <=> NoBye(h) /\ x.to # BYE
    <2>1. NoBye(g) => NoBye(h) /\ x.to # BYE
        BY <1>1, <1>2 DEF NoBye, H
    <2>2. NoBye(h) /\ x.to # BYE => NoBye(g)
        BY <1>1, <1>2 DEF NoBye, H
    <2> QED
        BY <2>1, <2>2
<1> QED
    BY <1>3, <1>4 DEF g

LEMMA OpenReceives ==
    ASSUME TypeOK, InTurn, ClientReceives, pc # "closed", NEW m \in Nat, Open(m)
    PROVE  DialogueInv'
<1> DEFINE k == Answering(sent)
           x == Head(flow)
           rest == Tail(flow)
           n == IF m = 0 THEN 0 ELSE m - 1
<1>1. /\ flow \in Seq(Tokens) /\ flow # <<>> /\ Head(p2c) = x /\ flow' = rest /\ x \in Tokens
      /\ clientGot \in Seq(Tokens) /\ sent \in Nat /\ o2p \in Seq(Tokens) /\ flow \o o2p \in Seq(Tokens)
      /\ Len(flow) = Len(flow') + 1 /\ Len(flow') \in Nat /\ Len(o2p) \in Nat /\ Len(pending) \in Nat
    BY FlowReceived, OnTheWay
<1>2. /\ clientGot' = Append(clientGot, x)
      /\ UNCHANGED <<sent, clientClosed, c2p, p2o, o2p, capaText, taken, pending, dismissed, pc, ready,
                     previousEnd>>
    BY <1>1 DEF ClientReceives, proxy, origin
<1>3. Going(m) /\ Hearing(clientGot, sent, m, Begun)
    BY <1>1 DEF Open, Stage, Replying, Probing, AskedCapa, Telling
<1>4. pc # "greet"
    BY <1>1 DEF Open, Turn
<1>5. /\ flow \o o2p # <<>> /\ Head(flow \o o2p) = x /\ Tail(flow \o o2p) = rest \o o2p
      /\ rest \in Seq(Tokens)
    BY <1>1, FlowBegins
<1> HIDE DEF k, x, rest
<1>6. /\ m = 0 => x.to = BYE /\ Part(rest \o o2p, k, 0, TRUE)
      /\ m >= 1 => x.to = k /\ Part(rest \o o2p, k, m - 1, TRUE) /\ (x.last => m = 1)
                   /\ (m = 1 => x.last)
    <2> DEFINE st == flow \o o2p
    <2>1. /\ TRUE \in BOOLEAN /\ Part(st, k, m, TRUE) /\ st \in Seq(Tokens) /\ st # <<>>
          /\ Head(st) = x /\ Tail(st) = rest \o o2p
        BY <1>1, <1>3, <1>5 DEF Going, k
    <2> HIDE DEF st
    <2>2. /\ m = 0 => Head(st).to = BYE /\ Part(Tail(st), k, 0, TRUE)
          /\ m >= 1 => /\ Head(st).to = k /\ Part(Tail(st), k, m - 1, TRUE)
                       /\ Head(st).last => m = 1
                       /\ m = 1 /\ (TRUE \/ Tail(st) # <<>>) => Head(st).last
        BY ONLY <2>1, PartBegins
    <2> QED
        BY <2>1, <2>2, Zenon
<1>7. n \in Nat /\ Part(rest \o o2p, k, n, TRUE) /\ (n >= 1 => m >= 1)
    <2>1. CASE m = 0
        BY <1>6, <2>1
    <2>2. CASE m >= 1
        <3>1. n = m - 1 /\ n \in Nat
            BY <2>2
        <3>2. Part(rest \o o2p, k, m - 1, TRUE)
            BY <1>6, <2>2, Zenon
        <3> HIDE DEF n
        <3> QED
            BY <2>2, <3>1, <3>2, Zenon
    <2>3. m = 0 \/ m >= 1
        OBVIOUS
    <2> QED
        BY <2>1, <2>2, <2>3, Zenon
<1>8. Hearing(clientGot', sent', n, Begun')
    <2>1. /\ m = 0 => Hearing(clientGot', sent, 0, TRUE)
          /\ m >= 2 => Hearing(clientGot', sent, m - 1, TRUE)
          /\ m = 1 /\ x.last => Hearing(clientGot', sent, 0, TRUE)
        BY <1>1, <1>2, <1>3, <1>6, Hears DEF k
    <2>2. Hearing(clientGot', sent, n, TRUE)
        <3>1. CASE m = 0
            <4>1. n = 0
                BY <3>1
            <4> QED
                BY <2>1, <3>1, <4>1, Zenon
        <3>2. CASE m = 1
            <4>1. n = 0 /\ m >= 1
                BY <3>2
            <4>2. x.last
                BY <1>6, <3>2, <4>1, Zenon
            <4> QED
                BY <2>1, <3>2, <4>1, <4>2, Zenon
        <3>3. CASE m >= 2
            <4>1. n = m - 1
                BY <3>3
            <4> QED
                BY <2>1, <3>3, <4>1, Zenon
        <3>4. m = 0 \/ m = 1 \/ m >= 2
            OBVIOUS
        <3> QED
            BY <3>1, <3>2, <3>3, <3>4, Zenon
    <2> HIDE DEF n
    <2>3. Hearing(clientGot', sent, n, Begun')
        BY <2>2, HearsLess
    <2> QED
        BY <1>2, <2>3, Zenon
<1>9. Going(n)'
    <2> HIDE DEF n
    <2>1. Part(flow' \o o2p', Answering(sent'), n, TRUE) /\ Byes(pending')
        BY <1>1, <1>2, <1>3, <1>7 DEF Going, k
    <2>2. n >= 1 => Len(taken') = sent'
        BY <1>2, <1>3, <1>7 DEF Going
    <2>3. UnderWay \in Nat /\ UnderWay' \in Nat /\ UnderWay' <= UnderWay
        BY <1>1, <1>2 DEF UnderWay
    <2>4. Fits(UnderWay', SOCKET) /\ (Fits(UnderWay, PIPE) => Fits(UnderWay', PIPE))
        BY <1>3, <2>3, FitsLess, Sizes DEF Going
    <2>5. Fits(UnderWay, SOCKET)' /\ (Fits(UnderWay, PIPE) => Fits(UnderWay, PIPE)')
        BY <1>2, <2>4, Zenon DEF Fits
    <2>6. Byes(o2p') \/ Fits(UnderWay, PIPE)
        BY <1>1, <1>2, <1>3 DEF Going
    <2> QED
        BY <2>1, <2>2, <2>5, <2>6, Zenon DEF Going
<1>10. Probe'
    <2> SUFFICES ASSUME ~dismissed PROVE Probe'
        BY <1>2 DEF Probe
    <2>1. NoBye(clientGot) /\ NoBye(flow) /\ NoBye(o2p) /\ NoBye(pending)
        BY DEF Open, Probe
    <2>2. /\ x = flow[1] /\ 1 \in 1 .. Len(flow)
          /\ \A i \in 1 .. Len(rest) : i + 1 \in 1 .. Len(flow) /\ rest[i] = flow[i + 1]
        <3>1. \A i \in 1 .. Len(rest) : rest[i] = flow[i + 1]
            BY <1>1, Ends DEF rest
        <3> QED
            BY <1>1, <3>1, Ends DEF x
    <2>3. x.to # BYE /\ NoBye(rest)
        BY <2>1, <2>2 DEF NoBye
    <2>4. NoBye(clientGot')
        BY <1>1, <1>2, <2>1, <2>3, HeardMore
    <2>5. ~Going(0)
        <3> SUFFICES ASSUME Going(0) PROVE FALSE
            OBVIOUS
        <3>1. Part(flow \o o2p, k, 0, TRUE)
            BY DEF Going, k
        <3>2. Byes(flow)
            BY <1>1, <3>1, ByesArePart, ByesJoin
        <3> QED
            BY <1>1, <2>1, <3>2, ByesArePart
    <2>6. (pc # "capa" => CAPA \notin Range(p2o)) /\ (pc = "capa" => p2o = <<>>)
        BY <2>5 DEF Open, Probe
    <2> QED
        BY <1>1, <1>2, <2>1, <2>3, <2>4, <2>6, Zenon DEF Probe
<1>11. Turn'
    <2>1. \A l : Answers(clientGot', l) <=> Answers(clientGot, l) \/ (x.last /\ x.to = Answering(l))
        BY <1>1, <1>2, HeardMore
    <2>2. Len(taken) < sent => ~(x.to = Answering(sent))
        <3>1. m >= 1 => Len(taken) = sent
            BY <1>3 DEF Going
        <3>2. m = 0 => x.to # Answering(sent)
            BY <1>1, <1>6 DEF Answering, GREETING, BYE
        <3>3. m = 0 \/ m >= 1
            OBVIOUS
        <3>4. Len(taken) = sent => ~(Len(taken) < sent)
            BY <1>1
        <3> QED
            BY <3>1, <3>2, <3>3, <3>4, Zenon
    <2> QED
        BY <1>2, <1>4, <2>1, <2>2, Zenon DEF Open, Turn
<1>12. Open(n)'
    BY <1>8, <1>9, <1>10, <1>11, Zenon DEF Open, Stage
<1> QED
    BY <1>2, <1>7, <1>12, Zenon DEF DialogueInv

\* That all has been answered does not depend on what has been asked.
LEMMA GoingNone ==
    ASSUME TypeOK, UNCHANGED <<flow, o2p, pending, clientGot, dismissed, pc>>, Going(0)
    PROVE  Going(0)'
<1>1. Part(flow \o o2p, Answering(sent'), 0, TRUE)
    <2>1. Part(flow \o o2p, Answering(sent), 0, TRUE) /\ flow \o o2p \in Seq(Tokens)
        BY OnTheWay DEF Going
    <2> QED
        BY <2>1, ByesArePart
<1>2. ~(0 >= 1)
    OBVIOUS
<1> QED
    BY <1>1, <1>2, Zenon DEF Going, UnderWay, Fits

LEMMA OpenSends ==
    ASSUME TypeOK, InTurn, ClientSends, NEW m \in Nat, Open(m)
    PROVE  Open(m)' /\ pc' # "closed"
<1>1. /\ ~clientClosed /\ pc # "closed" /\ Answers(clientGot, sent)
      /\ sent' = sent + 1 /\ c2p' = Append(c2p, sent + 1)
      /\ UNCHANGED <<clientClosed, clientGot, p2o, o2p, p2c, filterIn, filterOut, origin, proxy>>
    BY AnsweredIs DEF ClientSends, InTurn
<1>2. /\ UNCHANGED <<p2o, o2p, capaText, taken, pending, dismissed, pc, ready, previousEnd>>
      /\ flow' = flow
    BY <1>1 DEF origin, proxy, flow
<1>3. Hearing(clientGot, sent, m, Begun) /\ sent \in Nat /\ Len(taken) \in Nat /\ c2p \in Seq(0 .. COMMANDS)
    BY OnTheWay, TypesOfOne DEF Open
<1>4. m = 0 /\ ~Replying
    BY <1>1, <1>3 DEF Hearing, Replying
<1>5. pc # "greet"
    <2>1. ~Answers(<<>>, sent)
        BY DEF Answers
    <2> QED
        BY <1>1, <2>1 DEF Open, Turn
<1>6. Hearing(clientGot, sent + 1, 0, Begun) /\ ~Answers(clientGot, sent + 1)
    BY <1>3, <1>4, HearsOn
<1>7. Hearing(clientGot', sent', m, Begun')
    <2>1. Begun' <=> Begun
        BY <1>2 DEF Begun
    <2> QED
        BY <1>1, <1>4, <1>6, <2>1, Zenon DEF Hearing
<1>8. Going(0) => Going(0)'
    BY <1>1, <1>2, GoingNone
<1>9. Stage(m)'
    <2>1. CASE Going(0)
        BY <1>4, <1>8, <2>1, Zenon DEF Stage
    <2>2. CASE Probing
        <3>1. AskedCapa => AskedCapa'
            BY <1>1, <1>2, Zenon DEF AskedCapa
        <3>2. \A q \in Nat : Telling(q) => Telling(q)'
            BY <1>1, <1>2, Zenon DEF Telling
        <3>3. Probing'
            BY <1>2, <2>2, <3>1, <3>2, Zenon DEF Probing
        <3> QED
            BY <1>4, <3>3, Zenon DEF Stage
    <2> QED
        BY <1>4, <2>1, <2>2, Zenon DEF Open, Stage
<1>10. Probe'
    BY <1>1, <1>2, <1>8, Zenon DEF Open, Probe
<1>11. Turn'
    <2>1. Len(taken') >= sent' - 1
        BY <1>1, <1>2, <1>3 DEF Open, Turn
    <2>2. c2p' # <<>>
        BY <1>1, <1>3
    <2> QED
        BY <1>1, <1>2, <1>5, <1>6, <2>1, <2>2, Zenon DEF Open, Turn
<1> QED
    BY <1>2, <1>1, <1>7, <1>9, <1>10, <1>11, Zenon DEF Open

LEMMA ReplyIs ==
    ASSUME TypeOK, NEW to \in BYE .. COMMANDS, NEW text \in CAPA_TEXTS \cup REPLIES \cup {GOODBYE}
    PROVE  /\ Reply(to, text) \in Seq(Tokens) /\ Len(Reply(to, text)) = Len(text)
           /\ Len(text) \in Nat \ {0}
           /\ \A j \in 1 .. Len(text) :
                /\ Reply(to, text)[j].to = to /\ Reply(to, text)[j].text = text[j]
                /\ Reply(to, text)[j].last <=> j = Len(text)
<1> DEFINE token(j) == [n |-> serial + j, to |-> to, text |-> text[j], last |-> j = Len(text)]
<1>1. /\ Reply(to, text) \in Seq(Tokens) /\ Len(Reply(to, text)) = Len(text)
      /\ Len(text) \in Nat \ {0}
    BY ReplyType
<1>2. DOMAIN text = 1 .. Len(text)
    BY Pop3SessionAssumption
<1>3. Reply(to, text) = [j \in 1 .. Len(text) |-> token(j)]
    BY <1>2, Zenon DEF Reply
<1>4. \A j \in 1 .. Len(text) :
        token(j).to = to /\ token(j).text = text[j] /\ (token(j).last <=> j = Len(text))
    OBVIOUS
<1>5. \A j \in 1 .. Len(text) : Reply(to, text)[j] = token(j)
    BY <1>3
<1> HIDE DEF token
<1> QED
    BY <1>1, <1>4, <1>5

\* Between two turns there is nothing on its way from an origin that answers.
LEMMA Silence ==
    ASSUME TypeOK, ~dismissed, NEW m, Open(m), Going(0)
    PROVE  flow = <<>> /\ o2p = <<>>
<1>1. NoBye(flow) /\ NoBye(o2p)
    BY DEF Open, Probe
<1>2. flow \in Seq(Tokens) /\ o2p \in Seq(Tokens) /\ flow \o o2p \in Seq(Tokens)
    BY OnTheWay
<1>3. Part(flow \o o2p, Answering(sent), 0, TRUE)
    BY DEF Going
<1>4. Byes(flow) /\ Byes(o2p)
    BY <1>2, <1>3, ByesArePart, ByesJoin
<1> QED
    BY <1>1, <1>2, <1>4, ByesArePart

LEMMA OpenTakes ==
    ASSUME TypeOK, Orderly, InTurn, OriginTakes, pc # "closed", NEW m \in Nat, Open(m)
    PROVE  Open(m)' /\ pc' # "closed"
<1> DEFINE k == Head(p2o)
           T == Len(taken)
           F == Forwarded
<1>1. /\ p2o # <<>> /\ pending = <<>> /\ ~dismissed /\ p2o' = Tail(p2o)
      /\ taken' = IF k = CAPA THEN taken ELSE Append(taken, k)
      /\ \E text \in IF k = CAPA THEN {capaText} ELSE REPLIES : pending' = Reply(k, text)
      /\ UNCHANGED <<client, c2p, o2p, p2c, filterIn, filterOut, capaText, dismissed, proxy>>
    BY DEF OriginTakes
<1>2. /\ UNCHANGED <<sent, clientClosed, clientGot, c2p, o2p, capaText, dismissed, pc, ready, previousEnd>>
      /\ flow' = flow
    BY <1>1 DEF client, proxy, flow
<1>3. /\ p2o \in Queue /\ k \in 0 .. COMMANDS /\ k \in Range(p2o) /\ Tail(p2o) \in Queue
      /\ Range(Tail(p2o)) \subseteq Range(p2o)
    <2>1. p2o \in Seq(0 .. COMMANDS) /\ p2o # <<>>
        BY <1>1, TypesOfOne
    <2>2. /\ k = p2o[1] /\ p2o[1] \in 0 .. COMMANDS /\ 1 \in 1 .. Len(p2o) /\ Tail(p2o) \in Seq(0 .. COMMANDS)
          /\ Len(p2o) = Len(Tail(p2o)) + 1 /\ Len(Tail(p2o)) \in Nat
          /\ \A i \in 1 .. Len(Tail(p2o)) : Tail(p2o)[i] = p2o[i + 1]
        BY <2>1, Ends
    <2> DEFINE rest == Tail(p2o)
    <2>3. DOMAIN p2o = 1 .. Len(p2o) /\ DOMAIN rest = 1 .. Len(rest)
        BY <2>1, <2>2
    <2> HIDE DEF rest
    <2>4. \A i \in DOMAIN rest : i + 1 \in DOMAIN p2o
        BY <2>2, <2>3 DEF rest
    <2>5. Range(rest) \subseteq Range(p2o)
        BY <2>2, <2>3, <2>4 DEF Range, rest
    <2> QED
        BY <2>1, <2>2, <2>3, <2>5 DEF Queue, Range, rest
<1>4. Hearing(clientGot', sent', m, Begun')
    <2>1. Begun' <=> Begun
        BY <1>2 DEF Begun
    <2> QED
        BY <1>2, <2>1, Zenon DEF Open, Hearing
<1>5. Begun => (Begun' <=> Begun)
    BY <1>2 DEF Begun
<1>6. sent \in Nat /\ T \in Nat /\ COMMANDS \in Nat /\ Len(GOODBYE) \in Nat
    BY OnTheWay, Sizes
<1>7. T >= sent - 1 /\ (T < sent => ~Answers(clientGot, sent))
    BY DEF Open, Turn
<1>8. NoBye(clientGot) /\ NoBye(flow) /\ NoBye(o2p)
    BY <1>1 DEF Open, Probe
<1> HIDE DEF k
<1>9. CASE k = CAPA
    <2>1. /\ pc = "capa" /\ Going(0) /\ previousEnd = <<>> /\ p2o' = <<>> /\ taken' = taken
          /\ pending' = Reply(CAPA, capaText)
        <3>1. pc = "capa"
            BY <1>1, <1>3, <1>9 DEF Open, Probe
        <3>2. p2o = <<CAPA>> /\ Going(0) /\ previousEnd = <<>>
            BY <1>1, <3>1 DEF Open, Probe
        <3> QED
            BY <1>1, <1>9, <3>1, <3>2
    <2>2. flow = <<>> /\ o2p = <<>>
        BY <1>1, <2>1, Silence
    <2>3. m = 0
        <3>1. Going(m) => m \in 0 .. Len(<<>> \o <<>>)
            BY <2>2 DEF Going, Part
        <3>2. Len(<<>> \o <<>>) = 0
            OBVIOUS
        <3> QED
            BY <3>1, <3>2 DEF Open, Stage
    <2> DEFINE r == Reply(CAPA, capaText)
               L == Len(capaText)
    <2>4. /\ Len(r) = L /\ L \in Nat \ {0}
          /\ \A i \in 1 .. L : r[i].to = CAPA /\ r[i].text = capaText[i]
        <3>1. CAPA \in BYE .. COMMANDS /\ capaText \in CAPA_TEXTS \cup REPLIES \cup {GOODBYE}
            BY <1>6 DEF CAPA, BYE, TypeOK
        <3> QED
            BY <3>1, ReplyIs
    <2> HIDE DEF r, L
    <2>5. CapaFrom(r, capaText, 0) /\ NoBye(r)
        <3>1. /\ 0 \in 0 .. L - 1 /\ L - 0 = L /\ L <= L /\ \A i \in 1 .. L : 0 + i = i
              /\ \A i \in L + 1 .. L : FALSE
            BY <2>4
        <3>2. CapaFrom(r, capaText, 0)
            BY <2>4, <3>1 DEF CapaFrom, L
        <3> QED
            BY <2>4, <3>2 DEF NoBye, CAPA, BYE
    <2>6. Stage(m)'
        <3>1. AskedCapa'
            BY <1>1, <1>2, <1>8, <2>1, <2>2, <2>4, <2>5 DEF AskedCapa, r, L
        <3> QED
            BY <1>2, <2>1, <2>3, <3>1 DEF Stage, Probing
    <2>7. Probe'
        BY <1>1, <1>2, <1>8, <2>1, <2>5 DEF Probe, r
    <2>8. Turn'
        BY <1>2, <2>1 DEF Open, Turn
    <2> QED
        BY <1>2, <1>4, <2>6, <2>7, <2>8 DEF Open
<1>10. CASE k # CAPA
    <2>1. /\ k = sent /\ T = sent - 1 /\ sent >= 1
        <3>1. k \in Said(p2o)
            BY <1>3, <1>10 DEF Said
        <3>2. /\ Said(p2o) = T + 1 .. F /\ F + Len(buffer) + Len(c2p) = sent
            BY OrderlyIs DEF Queues
        <3>3. F \in Nat /\ Len(buffer) \in Nat /\ Len(c2p) \in Nat
            BY QueueTypes
        <3> HIDE DEF T, F
        <3> QED
            BY <1>6, <1>7, <3>1, <3>2, <3>3
    <2>2. Len(taken') = sent
        BY <1>1, <1>6, <1>10, <2>1, TypesOfOne
    <2>3. pc # "capa" /\ pc # "greet"
        <3>1. pc = "capa" => p2o = <<CAPA>>
            BY <1>1 DEF Open, Probe
        <3>2. p2o # <<CAPA>>
            BY <1>10 DEF k
        <3> QED
            BY <1>6, <2>1, <3>1, <3>2 DEF Open, Turn
    <2>4. m = 0 /\ Going(0)
        <3>1. T # sent
            BY <1>6, <2>1
        <3>2. ~Replying /\ ~Probing
            BY <2>3, <3>1 DEF Replying, Probing
        <3>3. Going(m) /\ (m >= 1 => T = sent)
            BY <3>2 DEF Open, Stage, Going
        <3>4. m = 0
            BY <3>1, <3>3
        <3> QED
            BY <3>3, <3>4
    <2>5. flow = <<>> /\ o2p = <<>>
        BY <1>1, <2>4, Silence
    <2>6. PICK text \in REPLIES : pending' = Reply(k, text)
        BY <1>1, <1>10
    <2> DEFINE r == Reply(k, text)
               L == Len(text)
    <2>7. /\ Len(r) = L /\ L \in Nat \ {0}
          /\ \A i \in 1 .. L : r[i].to = sent /\ (r[i].last <=> i = L)
        <3>1. k \in BYE .. COMMANDS /\ text \in CAPA_TEXTS \cup REPLIES \cup {GOODBYE}
            BY <1>3, <1>6 DEF BYE
        <3> QED
            BY <2>1, <3>1, ReplyIs
    <2> HIDE DEF r
    <2>8. Part(r, Answering(sent), L, TRUE) /\ NoBye(r)
        <3> HIDE DEF L
        <3>1. /\ Answering(sent) = sent /\ sent # BYE
              /\ L \in 0 .. L /\ L \in 1 .. L /\ L >= 1 /\ \A i \in L + 1 .. L : FALSE
            BY <1>6, <2>1, <2>7 DEF Answering, BYE
        <3>2. Part(r, Answering(sent), L, TRUE)
            BY <2>7, <3>1 DEF Part
        <3> QED
            BY <2>7, <3>1, <3>2 DEF NoBye
    <2>9. Stage(m)'
        <3>1. Len(text) + Len(GOODBYE) <= SOCKET
              /\ (Len(text) <= BUFF_SIZE \/ Len(text) + Len(GOODBYE) <= PIPE)
            BY DEF InTurn
        <3>6. pending' = r /\ Len(pending') = L /\ ~dismissed'
            BY <1>1, <1>2, <2>6, <2>7 DEF r
        <3> HIDE DEF L
        <3>2. Fits(Len(pending), SOCKET)' /\ (Len(pending') <= BUFF_SIZE \/ Fits(Len(pending), PIPE)')
            BY <3>1, <3>6 DEF Fits, L
        <3>3. Len(pending') >= 1 /\ Part(pending', Answering(sent), Len(pending'), TRUE)
            <4>1. L >= 1
                BY <2>7
            <4> QED
                BY <2>8, <3>6, <4>1
        <3>4. ~Answers(clientGot, sent)
            BY <1>6, <1>7, <2>1
        <3>5. Replying'
            <4>1. /\ flow' = <<>> /\ o2p' = <<>> /\ ~dismissed' /\ clientGot' = clientGot /\ sent' = sent
                  /\ NoBye(clientGot) /\ Len(taken') = sent
                BY <1>1, <1>2, <1>8, <2>2, <2>5
            <4> QED
                BY <3>2, <3>3, <3>4, <4>1, Zenon DEF Replying
        <3> QED
            BY <2>4, <3>5 DEF Stage
    <2>10. Probe'
        <3>1. CAPA \notin Range(p2o)
            BY <1>1, <2>3 DEF Open, Probe
        <3>2. CAPA \notin Range(p2o')
            BY <1>1, <1>3, <3>1
        <3>3. NoBye(pending')
            BY <2>6, <2>8 DEF r
        <3> QED
            BY <1>1, <1>2, <1>8, <2>3, <3>2, <3>3 DEF Probe
    <2>11. Turn'
        BY <1>2, <1>6, <2>2, <2>3 DEF Open, Turn
    <2> QED
        BY <1>2, <1>4, <2>9, <2>10, <2>11 DEF Open
<1> QED
    BY <1>9, <1>10

LEMMA OpenDismisses ==
    ASSUME TypeOK, InTurn, OriginDismisses, pc # "closed", NEW m \in Nat, Open(m)
    PROVE  Open(m)' /\ pc' # "closed"
<1> DEFINE r == Reply(BYE, GOODBYE)
           G == Len(GOODBYE)
<1>1. /\ ~dismissed /\ pending = <<>> /\ dismissed' = TRUE /\ pending' = r
      /\ UNCHANGED <<client, channels, capaText, taken, proxy>>
    BY DEF OriginDismisses
<1>2. /\ UNCHANGED <<sent, clientClosed, clientGot, c2p, p2o, o2p, capaText, taken, pc, ready, previousEnd>>
      /\ flow' = flow
    BY <1>1 DEF client, channels, proxy, flow
<1>3. /\ Len(r) = G /\ G \in Nat /\ Byes(r)
    <2>1. BYE \in BYE .. COMMANDS /\ GOODBYE \in CAPA_TEXTS \cup REPLIES \cup {GOODBYE}
        BY Sizes DEF BYE
    <2>2. Len(r) = G /\ G \in Nat /\ \A i \in 1 .. G : r[i].to = BYE
        BY <2>1, ReplyIs
    <2> QED
        BY <2>2 DEF Byes
<1> HIDE DEF r, G
<1>4. /\ Len(flow) \in Nat /\ Len(o2p) \in Nat /\ Len(pending) = 0 /\ SOCKET \in Nat /\ PIPE \in Nat
    BY <1>1, OnTheWay, Sizes
<1>5. Going(m) => Going(m)'
    <2>1. UnderWay' = UnderWay + G
        BY <1>1, <1>2, <1>3, <1>4 DEF UnderWay
    <2>2. (Fits(UnderWay, SOCKET) => Fits(UnderWay, SOCKET)') /\ (Fits(UnderWay, PIPE) => Fits(UnderWay, PIPE)')
        <3>1. UnderWay \in Nat
            BY <1>4 DEF UnderWay
        <3> QED
            BY <1>1, <1>3, <2>1, <3>1 DEF Fits, G
    <2> QED
        BY <1>1, <1>2, <1>3, <2>2, Zenon DEF Going
<1>6. ~Replying
    BY <1>4 DEF Replying
<1>7. Probing => Probing'
    <2>1. ~AskedCapa
        <3>1. Len(capaText) \in Nat
            BY Pop3SessionAssumption DEF TypeOK
        <3> QED
            BY <1>1, <3>1, OnTheWay, CapaStarts DEF AskedCapa
    <2>2. ASSUME NEW q \in Nat, Telling(q) PROVE Telling(q)'
        <3> DEFINE left == Len(capaText) - q * BUFF_SIZE
        <3>1. left \in Int
            BY Sizes, Pop3SessionAssumption DEF TypeOK
        <3>2. Len(o2p) + Len(pending) <= left + (IF dismissed THEN G ELSE 0)
            BY <2>2 DEF Telling, G
        <3> HIDE DEF left
        <3>3. Len(o2p') + Len(pending') <= left + G
            BY <1>1, <1>2, <1>3, <1>4, <3>1, <3>2
        <3>4. left' = left
            BY <1>2 DEF left
        <3>5. (Len(o2p) + Len(pending) <= left + (IF dismissed THEN G ELSE 0))'
            BY <1>1, <3>3, <3>4 DEF G
        <3> QED
            BY <1>1, <1>2, <1>3, <2>2, <3>5, Zenon DEF Telling, left, G
    <2> QED
        BY <1>2, <2>1, <2>2, Zenon DEF Probing
<1>8. Stage(m)'
    BY <1>5, <1>6, <1>7, Zenon DEF Open, Stage
<1>9. Hearing(clientGot', sent', m, Begun')
    <2>1. Begun' <=> Begun
        BY <1>2 DEF Begun
    <2> QED
        BY <1>2, <2>1, Zenon DEF Open, Hearing
<1>10. Probe'
    BY <1>1 DEF Probe
<1>11. Turn'
    BY <1>2, <1>6, Zenon DEF Open, Turn
<1> QED
    BY <1>2, <1>8, <1>9, <1>10, <1>11, Zenon DEF Open

\* Part of what the origin still had to write is on its way.
LEMMA Written ==
    ASSUME TypeOK, OriginWrites
    PROVE  \E n \in 1 .. Len(pending) :
            /\ WHOLE => n = Len(pending) \/ Len(o2p) + n = SOCKET
            /\ Len(o2p) + n <= SOCKET
            /\ Take(pending, n) \in Seq(Tokens) /\ Drop(pending, n) \in Seq(Tokens)
            /\ pending = Take(pending, n) \o Drop(pending, n)
            /\ o2p' = o2p \o Take(pending, n) /\ pending' = Drop(pending, n)
            /\ Len(o2p') \in Nat /\ Len(pending') \in Nat
            /\ Len(o2p') + Len(pending') = Len(o2p) + Len(pending)
            /\ n = Len(pending) => Take(pending, n) = pending /\ Drop(pending, n) = <<>>
<1>1. PICK n \in 1 .. Len(pending) :
            /\ Len(o2p) + n <= SOCKET /\ (WHOLE => n = Len(pending) \/ Len(o2p) + n = SOCKET)
            /\ o2p' = o2p \o Take(pending, n) /\ pending' = Drop(pending, n)
    BY DEF OriginWrites
<1> DEFINE t == Take(pending, n)
           d == Drop(pending, n)
<1>2. pending \in Seq(Tokens) /\ o2p \in Seq(Tokens) /\ n \in Nat /\ Len(pending) \in Nat /\ Len(o2p) \in Nat
    BY OnTheWay
<1>3. /\ t \in Seq(Tokens) /\ d \in Seq(Tokens) /\ t \o d = pending
      /\ Len(t) \in Nat /\ Len(d) \in Nat /\ Len(pending) = Len(t) + Len(d)
      /\ n >= Len(pending) => t = pending /\ d = <<>>
    BY <1>2, ReadWhole
<1>4. n = Len(pending) => t = pending /\ d = <<>>
    BY <1>2, <1>3
<1> HIDE DEF t, d
<1>5. Len(o2p \o t) = Len(o2p) + Len(t)
    BY <1>2, <1>3, Joined
<1>6. o2p' = o2p \o t /\ pending' = d
    BY <1>1 DEF t, d
<1>7. Len(o2p') \in Nat /\ Len(pending') \in Nat /\ Len(o2p') + Len(pending') = Len(o2p) + Len(pending)
    BY <1>2, <1>3, <1>5, <1>6
<1> QED
    BY <1>1, <1>3, <1>4, <1>7 DEF t, d

LEMMA OpenWrites ==
    ASSUME TypeOK, InTurn, OriginWrites, NEW m \in Nat, Open(m)
    PROVE  DialogueInv'
<1>1. /\ pending # <<>> /\ pc # "closed"
      /\ UNCHANGED <<client, c2p, p2o, p2c, filterIn, filterOut, capaText, taken, dismissed, proxy>>
    BY DEF OriginWrites
<1>2. /\ UNCHANGED <<sent, clientClosed, clientGot, c2p, p2o, capaText, taken, dismissed, pc, ready, previousEnd>>
      /\ flow' = flow
    BY <1>1 DEF client, proxy, flow
<1>3. PICK n \in 1 .. Len(pending) :
            /\ WHOLE => n = Len(pending) \/ Len(o2p) + n = SOCKET
            /\ Len(o2p) + n <= SOCKET
            /\ Take(pending, n) \in Seq(Tokens) /\ Drop(pending, n) \in Seq(Tokens)
            /\ pending = Take(pending, n) \o Drop(pending, n)
            /\ o2p' = o2p \o Take(pending, n) /\ pending' = Drop(pending, n)
            /\ Len(o2p') \in Nat /\ Len(pending') \in Nat
            /\ Len(o2p') + Len(pending') = Len(o2p) + Len(pending)
            /\ n = Len(pending) => Take(pending, n) = pending /\ Drop(pending, n) = <<>>
    BY Written
<1> DEFINE t == Take(pending, n)
           d == Drop(pending, n)
           k == Answering(sent)
<1>4. /\ t \in Seq(Tokens) /\ d \in Seq(Tokens) /\ pending = t \o d /\ o2p' = o2p \o t /\ pending' = d
      /\ n = Len(pending) => t = pending /\ d = <<>>
    BY <1>3
<1>5. /\ flow \in Seq(Tokens) /\ o2p \in Seq(Tokens) /\ flow \o o2p \in Seq(Tokens)
      /\ pending \in Seq(Tokens) /\ Len(flow) \in Nat /\ Len(o2p) \in Nat /\ Len(pending) \in Nat
      /\ Len(GOODBYE) \in Nat /\ SOCKET \in Nat /\ BUFF_SIZE \in Nat
      /\ Len(o2p') \in Nat /\ Len(pending') \in Nat /\ n \in Nat
    BY <1>3, OnTheWay, Sizes
<1> HIDE DEF t, d, k
<1>6. UnderWay' = UnderWay
    <2> DEFINE a == Len(o2p')
               c == Len(pending')
    <2>1. UnderWay' = Len(flow) + a + c
        BY <1>2 DEF UnderWay
    <2>2. a \in Nat /\ c \in Nat /\ a + c = Len(o2p) + Len(pending)
        BY <1>3
    <2> HIDE DEF a, c
    <2>3. Len(flow) + a + c = Len(flow) + Len(o2p) + Len(pending)
        <3>1. Len(flow) \in Nat /\ Len(o2p) \in Nat /\ Len(pending) \in Nat
            BY <1>5
        <3> QED
            BY ONLY <2>2, <3>1
    <2> QED
        BY <2>1, <2>3 DEF UnderWay
<1>7. (Fits(UnderWay, SOCKET) => Fits(UnderWay, SOCKET)') /\ (Fits(UnderWay, PIPE) => Fits(UnderWay, PIPE)')
    BY <1>2, <1>6, Zenon DEF Fits
<1>8. Hearing(clientGot, sent, m, Begun) /\ (Begun' <=> Begun) /\ (Begun <=> pc # "greet" \/ flow # <<>>)
    BY <1>1, <1>2 DEF Open, Begun
<1>9. Probe'
    <2> SUFFICES ASSUME ~dismissed PROVE Probe'
        BY <1>2 DEF Probe
    <2>1. NoBye(clientGot) /\ NoBye(flow) /\ NoBye(o2p) /\ NoBye(pending)
        BY DEF Open, Probe
    <2>2. NoBye(o2p') /\ NoBye(pending')
        BY <1>4, <1>5, <2>1, ByesJoin
    <2>3. ~Going(0)
        <3>1. ~Byes(pending)
            BY <1>1, <1>5, <2>1, ByesArePart
        <3> QED
            BY <3>1 DEF Going
    <2>4. (pc # "capa" => CAPA \notin Range(p2o)) /\ (pc = "capa" => p2o = <<>>)
        BY <2>3 DEF Open, Probe
    <2> QED
        BY <1>2, <2>1, <2>2, <2>4, Zenon DEF Probe
<1>10. ASSUME pc = "greet" => Replying' \/ ~Byes(o2p')
       PROVE  Turn'
    BY <1>2, <1>10, Zenon DEF Open, Turn
<1>11. CASE Going(m)
    <2>1. Part(flow \o o2p, k, m, TRUE) /\ Byes(pending)
        BY <1>11 DEF Going, k
    <2>2. Byes(t) /\ Byes(d)
        BY <1>4, <2>1, ByesJoin
    <2>3. Part((flow \o o2p) \o t, k, m, TRUE)
        BY <1>4, <1>5, <2>1, <2>2, PartJoins
    <2>4. (flow \o o2p) \o t = flow \o (o2p \o t)
        <3>1. flow \in Seq(Tokens) /\ o2p \in Seq(Tokens) /\ t \in Seq(Tokens)
            BY <1>4, <1>5
        <3> QED
            BY ONLY <3>1, Regrouped, Zenon
    <2>5. Part(flow' \o o2p', Answering(sent'), m, TRUE) /\ Byes(pending')
        BY <1>2, <1>4, <2>2, <2>3, <2>4 DEF k
    <2>6. Byes(o2p) <=> Byes(o2p')
        BY <1>4, <1>5, <2>2, ByesJoin
    <2>7. Going(m)'
        BY <1>2, <1>7, <1>11, <2>5, <2>6, Zenon DEF Going
    <2>8. Turn'
        <3>1. ~Replying
            <4>1. Byes(pending) /\ 1 \in 1 .. Len(pending)
                BY <1>3, <1>5, <2>1
            <4>2. pending[1].to = BYE
                BY <4>1 DEF Byes
            <4>3. Answering(sent) # BYE
                BY OnTheWay DEF Answering, GREETING, BYE
            <4> QED
                BY <4>1, <4>2, <4>3 DEF Replying, Part
        <3> QED
            BY <1>10, <2>6, <3>1 DEF Open, Turn
    <2>9. Hearing(clientGot', sent', m, Begun')
        BY <1>2, <1>8, Zenon DEF Hearing
    <2>10. Open(m)'
        BY <1>9, <2>7, <2>8, <2>9, Zenon DEF Open, Stage
    <2> QED
        BY <1>1, <1>2, <2>10, Zenon DEF DialogueInv
<1>12. CASE m = 0 /\ Replying
    <2> PICK M \in Nat : M = Len(pending)
        BY <1>5
    <2>1. /\ flow = <<>> /\ o2p = <<>> /\ ~dismissed /\ NoBye(clientGot) /\ ~Answers(clientGot, sent)
          /\ Len(taken) = sent /\ M >= 1 /\ Part(pending, k, M, TRUE) /\ Fits(M, SOCKET)
          /\ M <= BUFF_SIZE \/ Fits(M, PIPE)
        BY <1>12 DEF Replying, k
    <2>2. Len(<<>>) = 0
        OBVIOUS
    <2>3. M <= SOCKET
        BY <1>5, <2>1, FitsBarely
    <2>4. n = M
        BY <1>3, <1>5, <2>1, <2>2, <2>3 DEF InTurn
    <2>5. o2p' = pending /\ pending' = <<>> /\ flow' \o o2p' = pending
        <3>1. <<>> \o pending = pending
            BY <1>5, ConcatEmptySeq
        <3> QED
            BY <1>2, <1>4, <2>1, <2>4, <3>1
    <2>6. UnderWay' = M
        BY <1>2, <1>5, <2>1, <2>2, <2>5 DEF UnderWay
    <2>7. Fits(UnderWay, SOCKET)' /\ (Fits(M, PIPE) => Fits(UnderWay, PIPE)')
        BY <1>2, <2>1, <2>6 DEF Fits
    <2>8. pc = "greet" \/ AtEnd(clientGot)
        BY <1>8, <1>12 DEF Hearing
    <2>9. Going(M)'
        <3>1. Byes(<<>>)
            BY NothingSaid
        <3>2. Part(flow' \o o2p', Answering(sent'), M, TRUE) /\ Byes(pending')
            BY <1>2, <2>1, <2>5, <3>1 DEF k
        <3>3. Len(taken') = sent' /\ flow' = <<>>
            BY <1>2, <2>1
        <3> QED
            BY <1>2, <2>1, <2>7, <2>8, <3>2, <3>3, Zenon DEF Going
    <2>10. Hearing(clientGot', sent', M, Begun')
        <3>1. M # 0
            BY <1>5, <2>1
        <3> QED
            BY <1>2, <1>8, <2>1, <3>1, Zenon DEF Hearing
    <2>11. Turn'
        <3>1. ~Byes(pending)
            <4>1. 1 \in 1 .. M /\ 1 \in 1 .. Len(pending)
                BY <1>5, <2>1
            <4>2. k # BYE
                BY OnTheWay DEF Answering, GREETING, BYE, k
            <4> QED
                BY <2>1, <4>1, <4>2 DEF Byes, Part
        <3> QED
            BY <1>10, <2>5, <3>1
    <2>12. Open(M)'
        BY <1>9, <2>9, <2>10, <2>11, Zenon DEF Open, Stage
    <2> QED
        BY <1>1, <1>2, <2>12, Zenon DEF DialogueInv
<1>13. CASE m = 0 /\ Probing
    <2>1. /\ pc = "capa" /\ Len(capaText) \in Nat /\ capaText \in CAPA_TEXTS
        BY <1>13, Pop3SessionAssumption DEF Probing, TypeOK
    <2>2. ASSUME AskedCapa PROVE Telling(0)'
        <3>1. /\ flow = <<>> /\ NoBye(clientGot) /\ o2p = <<>> /\ ~dismissed /\ previousEnd = <<>>
              /\ CapaFrom(pending, capaText, 0) /\ Len(pending) = Len(capaText)
            BY <2>2 DEF AskedCapa
        <3>2. Len(<<>>) = 0 /\ Len(capaText) <= SOCKET /\ 0 * BUFF_SIZE = 0
            BY <1>5, <2>1 DEF InTurn
        <3>3. n = Len(pending)
            BY <1>3, <1>5, <3>1, <3>2 DEF InTurn
        <3>4. o2p' = pending /\ pending' = <<>>
            <4>1. <<>> \o pending = pending
                BY <1>5, ConcatEmptySeq
            <4> QED
                BY <1>4, <3>1, <3>3, <4>1
        <3>5. Byes(<<>>) /\ Kept(capaText, 0) = <<>>
            BY NothingSaid DEF Kept
        <3>6. (Len(o2p) + Len(pending) <= Len(capaText) - 0 * BUFF_SIZE + (IF dismissed THEN Len(GOODBYE) ELSE 0))'
            BY <1>2, <2>1, <3>1, <3>2, <3>4
        <3> QED
            BY <1>2, <3>1, <3>2, <3>4, <3>5, <3>6 DEF Telling
    <2>3. ASSUME NEW q \in Nat, Telling(q) PROVE Telling(q)'
        <3>1. /\ flow = <<>> /\ NoBye(clientGot) /\ CapaFrom(o2p, capaText, q * BUFF_SIZE) /\ Byes(pending)
              /\ previousEnd = Kept(capaText, q * BUFF_SIZE)
            BY <2>3 DEF Telling
        <3>2. Byes(t) /\ Byes(d)
            BY <1>4, <3>1, ByesJoin
        <3>3. CapaFrom(o2p', capaText, q * BUFF_SIZE)
            <4> DEFINE from == q * BUFF_SIZE
            <4> HIDE DEF from
            <4>1. CapaFrom(o2p, capaText, from)
                BY <3>1 DEF from
            <4>2. CapaFrom(o2p', capaText, from)
                BY <1>4, <1>5, <2>1, <3>2, <4>1, CapaJoins
            <4> QED
                BY <4>2 DEF from
        <3>4. Len(o2p') + Len(pending') = Len(o2p) + Len(pending)
            BY <1>3
        <3> QED
            BY <1>2, <1>4, <2>3, <3>1, <3>2, <3>3, <3>4, Zenon DEF Telling
    <2>4. Probing'
        <3>1. 0 \in Nat
            OBVIOUS
        <3> QED
            BY <1>2, <1>13, <2>2, <2>3, <3>1, Zenon DEF Probing
    <2>5. Turn'
        BY <1>10, <2>1
    <2>6. Hearing(clientGot', sent', m, Begun')
        BY <1>2, <1>8, Zenon DEF Hearing
    <2>7. Open(m)'
        BY <1>9, <1>13, <2>4, <2>5, <2>6, Zenon DEF Open, Stage
    <2> QED
        BY <1>1, <1>2, <2>7, Zenon DEF DialogueInv
<1> QED
    BY <1>11, <1>12, <1>13, Zenon DEF Open, Stage

\* A read for the capabilities that is not the last one finds nothing, and is followed by
\* another.
LEMMA ReadsOn ==
    ASSUME TypeOK, InTurn, NEW q \in Nat, Telling(q), PipeliningSupport,
           q * BUFF_SIZE + BUFF_SIZE < Len(capaText)
    PROVE  /\ pc' = "capa" /\ o2p' = Drop(o2p, BUFF_SIZE) /\ ~CloseAll
           /\ previousEnd' = Kept(capaText, (q + 1) * BUFF_SIZE)
<1> DEFINE B    == BUFF_SIZE
           from == q * BUFF_SIZE
           t    == Take(o2p, B)
           found == FindPipelining(Searched(t))
<1>1. B \in Nat \ {0} /\ from \in Nat /\ (q + 1) * B = from + B
    BY Sizes
<1>2. capaText \in CAPA_TEXTS /\ Len(capaText) \in Nat /\ o2p \in Seq(Tokens)
    BY OnTheWay, Pop3SessionAssumption DEF TypeOK
<1>3. CapaFrom(o2p, capaText, from) /\ previousEnd = Kept(capaText, from)
    BY DEF Telling
<1>4. from + B < Len(capaText)
    BY Zenon
<1>5. FindPipelining(SearchedIn(capaText, from, B)) = "FALSE"
    <2>1. (q + 1) * BUFF_SIZE < Len(capaText)
        BY <1>1, <1>4, Zenon
    <2>2. q \in Reads(capaText)
        BY <1>2, <2>1, ReadOf
    <2> QED
        BY <1>2, <2>1, <2>2, Zenon DEF InTurn
<1> HIDE DEF from, B
<1>6. Len(t) = B /\ t \in Seq(Tokens) /\ \A i \in 1 .. B : t[i].text = capaText[from + i]
    <2>1. t \in Seq(Tokens)
        BY <1>1, <1>2, ReadWhole
    <2>2. from + B < Len(capaText) =>
            /\ CapaFrom(Drop(o2p, B), capaText, from + B) /\ Len(Take(o2p, B)) = B
            /\ \A i \in 1 .. B : Take(o2p, B)[i].text = capaText[from + i]
        <3>1. /\ CapaFrom(o2p, capaText, from) /\ o2p \in Seq(Tokens) /\ Len(capaText) \in Nat
              /\ B \in Nat \ {0}
            BY <1>1, <1>2, <1>3
        <3> QED
            BY ONLY <3>1, CapaRead
    <2> QED
        BY <1>4, <2>1, <2>2, Zenon
<1> HIDE DEF t
<1>7. /\ Text(t) = SubSeq(capaText, from + 1, from + B)
      /\ SubSeq(Text(t), B - BUFFER_END + 1, B) = Kept(capaText, from + B)
    BY <1>1, <1>2, <1>4, <1>6, CapaSearched DEF B
<1>8. found = "FALSE"
    <2>1. Searched(t) = SearchedIn(capaText, from, B)
        BY <1>3, <1>7, Zenon DEF Searched, SearchedIn
    <2> QED
        BY <1>5, <2>1
<1> HIDE DEF found
<1>9. /\ Len(t) = BUFF_SIZE /\ found # "TRUE" /\ found # "NOT_SUPPORTED"
    BY <1>6, <1>8 DEF B
<1>10. /\ pc' = "capa" /\ o2p' = Drop(o2p, BUFF_SIZE)
       /\ previousEnd' = SubSeq(Text(t), BUFF_SIZE - BUFFER_END + 1, BUFF_SIZE)
    BY <1>8, <1>9 DEF PipeliningSupport, t, found, B
<1>11. ~CloseAll
    BY <1>10 DEF CloseAll
<1> QED
    BY <1>1, <1>7, <1>10, <1>11 DEF B, from

\* The last of them is followed by no more than the good-bye.
LEMMA ReadsAll ==
    ASSUME TypeOK, InTurn, NEW q \in Nat, Telling(q), ~(q * BUFF_SIZE + BUFF_SIZE < Len(capaText))
    PROVE  /\ Byes(Drop(o2p, BUFF_SIZE)) /\ flow = <<>> /\ Byes(pending)
           /\ Fits(Len(Drop(o2p, BUFF_SIZE)) + Len(pending), SOCKET)
<1> DEFINE B    == BUFF_SIZE
           from == q * BUFF_SIZE
           d    == Drop(o2p, B)
           t    == Take(o2p, B)
           L    == Len(capaText)
           G    == Len(GOODBYE)
<1>1. B \in Nat \ {0} /\ from \in Nat /\ SOCKET \in Nat
    BY Sizes
<1>2. L \in Nat /\ o2p \in Seq(Tokens) /\ Len(pending) \in Nat /\ Len(o2p) \in Nat /\ G \in Nat
    <2>1. capaText \in Seq(Range(capaText))
        BY Pop3SessionAssumption DEF TypeOK
    <2>2. Len(capaText) \in Nat
        BY <2>1
    <2> QED
        BY <2>2, OnTheWay
<1>3. /\ CapaFrom(o2p, capaText, from) /\ flow = <<>> /\ Byes(pending)
      /\ Len(o2p) + Len(pending) <= L - from + (IF dismissed THEN G ELSE 0)
    BY DEF Telling
<1>4. ~(from + B < L)
    BY Zenon
<1> HIDE DEF from, B
<1>5. /\ from \in Nat /\ from < L
      /\ ~(from + B < L) => Byes(d) /\ Len(t) >= L - from
    <2>1. CapaFrom(o2p, capaText, from) /\ o2p \in Seq(Tokens) /\ L \in Nat /\ B \in Nat \ {0}
        BY <1>1, <1>2, <1>3
    <2> QED
        BY ONLY <2>1, CapaRead
<1>6. Len(o2p) = Len(t) + Len(d) /\ Len(t) \in Nat /\ Len(d) \in Nat
    BY <1>1, <1>2, ReadWhole
<1>7. G + 1 <= SOCKET
    BY <1>1, <1>2 DEF InTurn
<1> HIDE DEF d, t, L
<1>8. Len(d) + Len(pending) <= (IF dismissed THEN G ELSE 0)
    <2>1. CASE dismissed
        BY <1>1, <1>2, <1>3, <1>4, <1>5, <1>6, <2>1
    <2>2. CASE ~dismissed
        BY <1>1, <1>2, <1>3, <1>4, <1>5, <1>6, <2>2
    <2> QED
        BY <2>1, <2>2
<1>9. Fits(Len(d) + Len(pending), SOCKET)
    <2>1. CASE dismissed
        BY <1>1, <1>2, <1>6, <1>7, <1>8, <2>1 DEF Fits
    <2>2. CASE ~dismissed
        BY <1>1, <1>2, <1>6, <1>7, <1>8, <2>2 DEF Fits
    <2> QED
        BY <2>1, <2>2
<1> QED
    BY <1>3, <1>4, <1>5, <1>9 DEF d, B

LEMMA OpenCapa ==
    ASSUME TypeOK, Orderly, InTurn, PipeliningSupport, NEW m \in Nat, Open(m)
    PROVE  DialogueInv'
<1> DEFINE d == Drop(o2p, BUFF_SIZE)
<1>1. pc = "capa" /\ o2p # <<>> /\ UNCHANGED <<client, p2o, p2c, origin>>
    BY DEF PipeliningSupport
<1>2. UNCHANGED <<sent, clientClosed, clientGot, p2o, p2c, capaText, taken, pending, dismissed>>
    BY <1>1 DEF client, origin
<1>3. CASE CloseAll
    BY <1>1, <1>2, <1>3, Closes
<1>4. ASSUME ~CloseAll PROVE DialogueInv'
    <2>1. /\ o2p' = d /\ UNCHANGED <<c2p, filterIn, filterOut, ready>>
          /\ pc' \in {"forward", "capa"} /\ (pc' = "forward" => previousEnd' = <<>>)
        BY <1>4 DEF PipeliningSupport
    <2>2. flow' = flow
        BY <1>2, <2>1 DEF flow
    <2>3. c2p # <<>> \/ clientClosed
        BY <1>1 DEF Open, Turn
    <2>4. m = 0 /\ ~Replying
        BY <1>1, <2>3, Waited
    <2>5. /\ o2p \in Seq(Tokens) /\ flow \in Seq(Tokens) /\ Len(o2p) \in Nat /\ Len(flow) \in Nat
          /\ Len(pending) \in Nat /\ BUFF_SIZE \in Nat /\ SOCKET \in Nat /\ flow \o o2p \in Seq(Tokens)
        BY OnTheWay, Sizes
    <2>6. d \in Seq(Tokens) /\ Len(d) \in Nat /\ Len(d) <= Len(o2p) /\ o2p = Take(o2p, BUFF_SIZE) \o d
          /\ Take(o2p, BUFF_SIZE) \in Seq(Tokens)
        <3>1. /\ d \in Seq(Tokens) /\ Len(d) \in Nat /\ Len(Take(o2p, BUFF_SIZE)) \in Nat
              /\ Len(o2p) = Len(Take(o2p, BUFF_SIZE)) + Len(d) /\ o2p = Take(o2p, BUFF_SIZE) \o d
              /\ Take(o2p, BUFF_SIZE) \in Seq(Tokens)
            BY <2>5, ReadWhole
        <3> HIDE DEF d
        <3> QED
            BY <2>5, <3>1
    <2> HIDE DEF d
    <2>7. Hearing(clientGot', sent', 0, Begun')
        <3>1. Begun /\ Hearing(clientGot, sent, 0, Begun)
            BY <1>1, <2>4 DEF Open, Begun
        <3>2. Begun'
            BY <2>1 DEF Begun
        <3> QED
            BY <1>2, <3>1, <3>2, Zenon DEF Hearing
    <2>8. ~dismissed => ~Going(0)
        BY <1>1, Silence
    <2>9. Probe'
        <3> SUFFICES ASSUME ~dismissed PROVE Probe'
            BY <1>2 DEF Probe
        <3>1. NoBye(clientGot) /\ NoBye(flow) /\ NoBye(o2p) /\ NoBye(pending) /\ p2o = <<>>
            BY <1>1, <2>8 DEF Open, Probe
        <3>2. NoBye(d)
            BY <2>6, <3>1, ByesJoin
        <3>3. CAPA \notin Range(<<>>)
            BY DEF Range
        <3> QED
            BY <1>2, <2>1, <2>2, <3>1, <3>2, <3>3 DEF Probe
    <2>10. Turn'
        BY <1>1, <1>2, <2>1, <2>3 DEF Open, Turn
    <2>11. ASSUME Byes(flow), Byes(d), Byes(pending), Fits(Len(flow) + Len(d) + Len(pending), SOCKET)
           PROVE  Stage(0)'
        <3>1. Byes(flow \o d) /\ flow \o d \in Seq(Tokens)
            BY <2>5, <2>6, <2>11, ByesJoin, Joined
        <3>2. Part(flow \o d, Answering(sent), 0, TRUE)
            BY <3>1, ByesArePart
        <3>3. UnderWay' = Len(flow) + Len(d) + Len(pending)
            BY <1>2, <2>1, <2>2 DEF UnderWay
        <3>4. Fits(UnderWay, SOCKET)'
            BY <1>2, <2>11, <3>3, Zenon DEF Fits
        <3>5. ~(0 >= 1)
            OBVIOUS
        <3>6. Going(0)'
            BY <1>2, <2>1, <2>2, <2>11, <3>2, <3>4, <3>5, Zenon DEF Going
        <3> QED
            BY <3>6, Zenon DEF Stage
    <2>12. ASSUME Going(0) PROVE Stage(0)'
        <3>1. Part(flow \o o2p, Answering(sent), 0, TRUE) /\ Byes(pending) /\ Fits(UnderWay, SOCKET)
            BY <2>12 DEF Going
        <3>2. Byes(flow) /\ Byes(o2p)
            BY <2>5, <3>1, ByesArePart, ByesJoin
        <3>3. Byes(d)
            BY <2>6, <3>2, ByesJoin
        <3>4. Fits(Len(flow) + Len(d) + Len(pending), SOCKET)
            <4>1. /\ UnderWay = Len(flow) + Len(o2p) + Len(pending)
                  /\ UnderWay \in Nat /\ Len(flow) + Len(d) + Len(pending) \in Nat
                  /\ Len(flow) + Len(d) + Len(pending) <= UnderWay
                BY <2>5, <2>6 DEF UnderWay
            <4> QED
                BY <2>5, <3>1, <4>1, FitsLess
        <3> QED
            BY <2>11, <3>1, <3>2, <3>3, <3>4
    <2>13. ~AskedCapa
        BY <1>1 DEF AskedCapa
    <2>14. ASSUME NEW q \in Nat, Telling(q) PROVE Stage(0)'
        <3>1. CASE q * BUFF_SIZE + BUFF_SIZE < Len(capaText)
            <4>1. /\ pc' = "capa" /\ previousEnd' = Kept(capaText, (q + 1) * BUFF_SIZE)
                BY <2>14, <3>1, ReadsOn
            <4> DEFINE from == q * BUFF_SIZE
                       L    == Len(capaText)
                       G    == Len(GOODBYE)
            <4>2. /\ CapaFrom(o2p, capaText, from) /\ flow = <<>> /\ NoBye(clientGot) /\ Byes(pending)
                  /\ Len(o2p) + Len(pending) <= L - from + (IF dismissed THEN G ELSE 0)
                BY <2>14 DEF Telling
            <4>3. (q + 1) * BUFF_SIZE = from + BUFF_SIZE /\ from \in Nat /\ BUFF_SIZE \in Nat \ {0}
                  /\ L \in Nat /\ G \in Nat
                <5>1. BUFF_SIZE \in Nat \ {0}
                    BY Sizes
                <5>2. (q + 1) * BUFF_SIZE = from + BUFF_SIZE /\ from \in Nat
                    BY <5>1
                <5>3. L \in Nat
                    BY Pop3SessionAssumption DEF TypeOK
                <5>4. G \in Nat
                    BY OnTheWay
                <5> QED
                    BY <5>1, <5>2, <5>3, <5>4
            <4>4. from + BUFF_SIZE < L
                BY <3>1, Zenon
            <4> HIDE DEF from
            <4>5. CapaFrom(d, capaText, from + BUFF_SIZE) /\ Len(Take(o2p, BUFF_SIZE)) = BUFF_SIZE
                <5>1. /\ CapaFrom(o2p, capaText, from) /\ o2p \in Seq(Tokens) /\ Len(capaText) \in Nat
                      /\ BUFF_SIZE \in Nat \ {0} /\ from + BUFF_SIZE < Len(capaText)
                    BY <2>5, <4>2, <4>3, <4>4
                <5>2. /\ CapaFrom(Drop(o2p, BUFF_SIZE), capaText, from + BUFF_SIZE)
                      /\ Len(Take(o2p, BUFF_SIZE)) = BUFF_SIZE
                    BY ONLY <5>1, CapaRead
                <5> QED
                    BY <5>2 DEF d
            <4>6. Len(o2p) = BUFF_SIZE + Len(d)
                BY <2>6, <4>5, Joined
            <4> HIDE DEF L, G
            <4>7. Len(d) + Len(pending) <= L - (from + BUFF_SIZE) + (IF dismissed THEN G ELSE 0)
                <5>1. CASE dismissed
                    BY <2>5, <2>6, <4>2, <4>3, <4>6, <5>1
                <5>2. CASE ~dismissed
                    BY <2>5, <2>6, <4>2, <4>3, <4>6, <5>2
                <5> QED
                    BY <5>1, <5>2
            <4>8. Telling(q + 1)'
                <5>1. CapaFrom(d, capaText, (q + 1) * BUFF_SIZE)
                    BY <4>3, <4>5, Zenon
                <5>2. Len(d) + Len(pending) <= Len(capaText) - (q + 1) * BUFF_SIZE
                                                + (IF dismissed THEN Len(GOODBYE) ELSE 0)
                    BY <4>3, <4>7, Zenon DEF L, G
                <5> QED
                    BY <1>2, <2>1, <2>2, <4>1, <4>2, <5>1, <5>2, Zenon DEF Telling
            <4>9. q + 1 \in Nat
                OBVIOUS
            <4> QED
                BY <4>1, <4>8, <4>9, Zenon DEF Stage, Probing
        <3>2. CASE ~(q * BUFF_SIZE + BUFF_SIZE < Len(capaText))
            <4>1. /\ Byes(d) /\ flow = <<>> /\ Byes(pending) /\ Fits(Len(d) + Len(pending), SOCKET)
                BY <2>14, <3>2, ReadsAll DEF d
            <4>2. Byes(flow) /\ Len(flow) + Len(d) + Len(pending) = Len(d) + Len(pending)
                <5>1. Len(<<>>) = 0
                    OBVIOUS
                <5> QED
                    BY <2>5, <2>6, <4>1, <5>1, NothingSaid
            <4> QED
                BY <2>11, <4>1, <4>2
        <3> QED
            BY <3>1, <3>2
    <2>15. Stage(0)'
        BY <1>1, <2>4, <2>12, <2>13, <2>14, Zenon DEF Open, Stage, Probing
    <2>16. Open(0)'
        BY <2>7, <2>9, <2>10, <2>15, Zenon DEF Open
    <2>17. pc' # "closed" /\ 0 \in Nat
        BY <2>1
    <2> QED
        BY <2>16, <2>17, Zenon DEF DialogueInv
<1> QED
    BY <1>3, <1>4

\* readFromOrigin: what it reads goes into the filter whole, or is lost.
LEMMA OpenReadOrigin ==
    ASSUME TypeOK, InTurn, ReadFromOrigin, NEW m \in Nat, Open(m)
    PROVE  DialogueInv'
<1> DEFINE t == Take(o2p, BUFF_SIZE)
           d == Drop(o2p, BUFF_SIZE)
           k == Answering(sent)
<1>1. pc = "origins" /\ UNCHANGED <<client, p2o, p2c, origin>>
    BY DEF ReadFromOrigin
<1>2. UNCHANGED <<sent, clientClosed, clientGot, p2o, p2c, capaText, taken, pending, dismissed>>
    BY <1>1 DEF client, origin
<1>3. CASE CloseAll
    BY <1>1, <1>2, <1>3, Closes
<1>4. ASSUME ~CloseAll PROVE DialogueInv'
    <2>1. /\ p2c \in Seq(Tokens) /\ filterOut \in Seq(Tokens) /\ filterIn \in Seq(Tokens)
          /\ flow \in Seq(Tokens) /\ o2p \in Seq(Tokens) /\ flow \o o2p \in Seq(Tokens)
          /\ Len(flow) \in Nat /\ Len(o2p) \in Nat /\ Len(pending) \in Nat
          /\ Len(flow) = Len(p2c) + Len(filterOut) + Len(filterIn)
          /\ Len(p2c) \in Nat /\ Len(filterOut) \in Nat /\ Len(filterIn) \in Nat
          /\ flow = p2c \o (filterOut \o filterIn) /\ sent \in Nat
        BY OnTheWay
    <2>2. BUFF_SIZE \in Nat /\ SOCKET \in Nat /\ PIPE \in Nat
        BY Sizes
    <2>3. /\ pc' = "filters" /\ UNCHANGED <<c2p, filterOut, ready, buffer, previousEnd>>
          /\ "origin" \in ready => o2p # <<>>
          /\ \E read : /\ read = (IF "origin" \in ready THEN t ELSE <<>>)
                       /\ filterIn' = ToFilter(read) /\ o2p' = Drop(o2p, Len(read))
        BY <1>4, Zenon DEF ReadFromOrigin
    <2>4. /\ t \in Seq(Tokens) /\ d \in Seq(Tokens) /\ t \o d = o2p
          /\ Len(t) \in Nat /\ Len(d) \in Nat /\ Len(o2p) = Len(t) + Len(d)
          /\ BUFF_SIZE < Len(o2p) => Len(t) = BUFF_SIZE
          /\ BUFF_SIZE >= Len(o2p) => t = o2p /\ d = <<>>
        BY <2>1, <2>2, ReadWhole
    <2>5. Drop(o2p, Len(t)) = d
        <3>1. CASE BUFF_SIZE < Len(o2p)
            BY <2>4, <3>1
        <3>2. CASE BUFF_SIZE >= Len(o2p)
            <4>1. Drop(o2p, Len(o2p)) = <<>>
                BY <2>1, ReadWhole
            <4> QED
                BY <2>4, <3>2, <4>1
        <3> QED
            BY <2>1, <2>2, <3>1, <3>2
    <2> HIDE DEF t, d, k
    <2>6. CASE "origin" \notin ready
        <3>1. filterIn' = filterIn /\ o2p' = o2p
            <4>1. filterIn' = ToFilter(<<>>) /\ o2p' = Drop(o2p, 0)
                <5>1. Len(<<>>) = 0
                    OBVIOUS
                <5> QED
                    BY <2>3, <2>6, <5>1
            <4>2. filterIn \o <<>> = filterIn
                BY <2>1, ConcatEmptySeq
            <4>3. ToFilter(<<>>) = filterIn
                BY <4>2 DEF ToFilter
            <4>4. Drop(o2p, 0) = o2p
                <5>1. /\ Take(o2p, 0) \in Seq(Tokens) /\ Drop(o2p, 0) \in Seq(Tokens)
                      /\ Take(o2p, 0) \o Drop(o2p, 0) = o2p
                      /\ 0 < Len(o2p) => Len(Take(o2p, 0)) = 0
                      /\ 0 >= Len(o2p) => Take(o2p, 0) = o2p
                    BY <2>1, ReadWhole
                <5>2. Len(Take(o2p, 0)) = 0
                    BY <2>1, <5>1
                <5>3. Take(o2p, 0) = <<>>
                    BY <5>1, <5>2, EmptySeq
                <5>4. <<>> \o Drop(o2p, 0) = Drop(o2p, 0)
                    BY <5>1, ConcatEmptySeq
                <5> QED
                    BY <5>1, <5>3, <5>4, Zenon
            <4> QED
                BY <4>1, <4>3, <4>4
        <3>2. flow' = flow
            BY <1>2, <2>3, <3>1 DEF flow
        <3>3. Open(m)'
            BY <1>1, <1>2, <2>3, <3>1, <3>2, Quiet
        <3> QED
            BY <2>3, <3>3, Zenon DEF DialogueInv
    <2>7. CASE "origin" \in ready
        <3>1. o2p # <<>> /\ filterIn' = ToFilter(t) /\ o2p' = d
            BY <2>3, <2>5, <2>7, Zenon
        <3>2. Going(m)
            BY <1>1, <3>1 DEF Open, Stage, Replying, Probing
        <3>3. /\ Part(flow \o o2p, k, m, TRUE) /\ Byes(pending) /\ (m >= 1 => Len(taken) = sent)
              /\ Fits(UnderWay, SOCKET) /\ UnderWay = Len(flow) + Len(o2p) + Len(pending)
              /\ \/ Byes(o2p) \/ Fits(UnderWay, PIPE)
                 \/ flow = <<>> /\ m <= BUFF_SIZE /\ AtEnd(clientGot)
            BY <1>1, <3>2 DEF Going, UnderWay, k
        <3>4. Begun /\ Begun' /\ Hearing(clientGot, sent, m, TRUE)
            <4>1. Begun /\ Begun'
                BY <1>1, <2>3 DEF Begun
            <4> QED
                BY <4>1, Zenon DEF Open, Hearing
        <3>5. ASSUME flow = <<>>, m <= BUFF_SIZE PROVE Byes(d)
            <4>1. <<>> \o o2p = o2p
                BY <2>1, ConcatEmptySeq
            <4>2. Part(t \o d, k, m, TRUE)
                BY <2>4, <3>3, <3>5, <4>1
            <4>3. m <= Len(t) \/ d = <<>>
                BY <2>1, <2>2, <2>4, <3>5
            <4> QED
                BY <2>4, <4>2, <4>3, PartSplits, NothingSaid
        <3>6. Byes(o2p) => Byes(d)
            BY <2>4, ByesJoin
        <3>7. ASSUME flow' \in {flow, flow \o t} PROVE Probe' /\ Turn'
            <4>1. Probe'
                <5> SUFFICES ASSUME ~dismissed PROVE Probe'
                    BY <1>2 DEF Probe
                <5>1. /\ NoBye(clientGot) /\ NoBye(flow) /\ NoBye(o2p) /\ NoBye(pending)
                      /\ CAPA \notin Range(p2o)
                    BY <1>1 DEF Open, Probe
                <5>2. NoBye(t) /\ NoBye(d)
                    BY <2>4, <5>1, ByesJoin
                <5>3. NoBye(flow \o t)
                    BY <2>1, <2>4, <5>1, <5>2, ByesJoin
                <5>4. NoBye(flow')
                    BY <3>7, <5>1, <5>3, Zenon
                <5> QED
                    BY <1>2, <2>3, <3>1, <5>1, <5>2, <5>4, Zenon DEF Probe
            <4>2. Turn'
                BY <1>1, <1>2, <2>3 DEF Open, Turn
            <4> QED
                BY <4>1, <4>2
        <3>8. CASE Len(filterIn) + Len(t) <= PIPE
            <4>1. filterIn' = filterIn \o t
                BY <3>1, <3>8 DEF ToFilter
            <4>2. flow' = flow \o t
                <5>1. p2c \o filterOut \in Seq(Tokens)
                    BY <2>1, FlowIs
                <5>2. ((p2c \o filterOut) \o filterIn) \o t = (p2c \o filterOut) \o (filterIn \o t)
                    <6>1. p2c \o filterOut \in Seq(Tokens) /\ filterIn \in Seq(Tokens) /\ t \in Seq(Tokens)
                        BY <2>1, <2>4, <5>1
                    <6> QED
                        BY ONLY <6>1, Regrouped, Zenon
                <5> QED
                    BY <1>2, <2>3, <4>1, <5>2, Zenon DEF flow
            <4>3. flow' \o o2p' = flow \o o2p /\ Len(flow') = Len(flow) + Len(t)
                <5>1. (flow \o t) \o d = flow \o (t \o d)
                    <6>1. flow \in Seq(Tokens) /\ t \in Seq(Tokens) /\ d \in Seq(Tokens)
                        BY <2>1, <2>4
                    <6> QED
                        BY ONLY <6>1, Regrouped, Zenon
                <5>2. Len(flow \o t) = Len(flow) + Len(t)
                    BY <2>1, <2>4, Joined
                <5> QED
                    BY <2>4, <3>1, <4>2, <5>1, <5>2, Zenon
            <4>4. UnderWay' = UnderWay
                BY <1>2, <2>1, <2>4, <3>1, <3>3, <4>3 DEF UnderWay
            <4>5. Fits(UnderWay, SOCKET)' /\ (Fits(UnderWay, PIPE) => Fits(UnderWay, PIPE)')
                BY <1>2, <3>3, <4>4, Zenon DEF Fits
            <4>6. Byes(d) \/ Fits(UnderWay, PIPE)
                BY <3>3, <3>5, <3>6
            <4>7. Going(m)'
                BY <1>2, <3>1, <3>3, <4>3, <4>5, <4>6, Zenon DEF Going, k
            <4>8. Hearing(clientGot', sent', m, Begun')
                BY <1>2, <3>4, Zenon DEF Hearing
            <4>9. Open(m)'
                BY <3>7, <4>2, <4>7, <4>8, Zenon DEF Open, Stage
            <4>10. pc' # "closed"
                BY <2>3
            <4> QED
                BY <4>9, <4>10, Zenon DEF DialogueInv
        <3>9. CASE ~(Len(filterIn) + Len(t) <= PIPE)
            <4>1. filterIn' = filterIn /\ flow' = flow
                BY <1>2, <2>3, <3>1, <3>9 DEF ToFilter, flow
            <4>2. ~Fits(UnderWay, PIPE)
                <5> SUFFICES ASSUME Fits(UnderWay, PIPE) PROVE FALSE
                    OBVIOUS
                <5>1. UnderWay <= PIPE
                    BY <2>1, <2>2, <3>3, FitsBarely
                <5> QED
                    BY <2>1, <2>2, <2>4, <3>3, <3>9, <5>1
            <4>3. UnderWay' = Len(flow) + Len(d) + Len(pending)
                BY <1>2, <3>1, <4>1 DEF UnderWay
            <4>4. Fits(UnderWay, SOCKET)'
                <5> DEFINE n == Len(flow) + Len(d) + Len(pending)
                <5>1. n \in Nat /\ UnderWay \in Nat /\ n <= UnderWay
                    <6>1. /\ UnderWay = Len(flow) + Len(o2p) + Len(pending) /\ Len(o2p) = Len(t) + Len(d)
                          /\ Len(flow) \in Nat /\ Len(t) \in Nat /\ Len(d) \in Nat /\ Len(pending) \in Nat
                        BY <2>1, <2>4, <3>3
                    <6> QED
                        BY ONLY <6>1
                <5> HIDE DEF n
                <5>2. Fits(n, SOCKET)
                    BY <2>2, <3>3, <5>1, FitsLess
                <5> QED
                    BY <1>2, <4>3, <5>2, Zenon DEF Fits, n
            <4>5. Byes(d)
                BY <3>3, <3>5, <3>6, <4>2
            <4>6. CASE Byes(o2p)
                <5>1. m <= Len(flow)
                    <6> SUFFICES ASSUME m > Len(flow) PROVE FALSE
                        BY <2>1
                    <6>1. Part(o2p, k, m - Len(flow), TRUE)
                        BY <2>1, <3>3, PartSplits
                    <6>2. 1 \in 1 .. m - Len(flow) /\ 1 \in 1 .. Len(o2p)
                        BY <2>1, <3>1
                    <6>3. o2p[1].to = k /\ o2p[1].to = BYE
                        BY <4>6, <6>1, <6>2 DEF Part, Byes
                    <6> QED
                        BY <2>1, <6>3 DEF k, Answering, BYE, GREETING
                <5>2. Part(flow, k, m, TRUE)
                    BY <2>1, <3>3, <5>1, PartSplits
                <5>3. Part(flow \o d, k, m, TRUE)
                    BY <2>1, <2>4, <4>5, <5>2, PartJoins
                <5>4. Going(m)'
                    BY <1>2, <3>1, <3>3, <4>1, <4>4, <4>5, <5>3, Zenon DEF Going, k
                <5>5. Hearing(clientGot', sent', m, Begun')
                    BY <1>2, <3>4, Zenon DEF Hearing
                <5>6. Open(m)'
                    BY <3>7, <4>1, <5>4, <5>5, Zenon DEF Open, Stage
                <5>7. pc' # "closed"
                    BY <2>3
                <5> QED
                    BY <5>6, <5>7, Zenon DEF DialogueInv
            <4>7. CASE flow = <<>> /\ m <= BUFF_SIZE /\ AtEnd(clientGot)
                <5>1. Byes(flow \o d) /\ flow \o d \in Seq(Tokens)
                    BY <2>1, <2>4, <4>5, <4>7, ByesJoin, NothingSaid, Joined
                <5>2. Part(flow \o d, k, 0, TRUE)
                    BY <5>1, ByesArePart
                <5>3. ~(0 >= 1) /\ 0 \in Nat /\ pc' # "closed"
                    BY <2>3
                <5>4. Going(0)'
                    BY <1>2, <3>1, <3>3, <4>1, <4>4, <4>5, <5>2, <5>3, Zenon DEF Going, k
                <5>5. Hearing(clientGot', sent', 0, Begun')
                    BY <1>2, <3>4, <4>7, <5>3, Zenon DEF Hearing
                <5>6. Open(0)'
                    BY <3>7, <4>1, <5>4, <5>5, Zenon DEF Open, Stage
                <5> QED
                    BY <5>3, <5>6, Zenon DEF DialogueInv
            <4> QED
                BY <3>3, <4>2, <4>6, <4>7
        <3> QED
            BY <3>8, <3>9
    <2> QED
        BY <2>6, <2>7
<1> QED
    BY <1>3, <1>4

-----------------------------------------------------------------------------
(* The invariant.                                                          *)

LEMMA DialogueInit ==
    ASSUME InTurn, Init
    PROVE  DialogueInv
<1> DEFINE x == [n |-> 1, to |-> GREETING, text |-> "LF", last |-> TRUE]
<1>1. /\ sent = 0 /\ clientClosed = FALSE /\ clientGot = <<>> /\ c2p = <<>> /\ p2o = <<>> /\ o2p = <<>>
      /\ p2c = <<>> /\ filterIn = <<>> /\ filterOut = <<>> /\ taken = <<>> /\ dismissed = FALSE
      /\ pending = <<x>> /\ pc = "greet" /\ ready = {} /\ previousEnd = <<>>
    BY DEF Init
<1>2. x.to = GREETING /\ x.last
    OBVIOUS
<1> HIDE DEF x
<1>3. Len(<<>>) = 0 /\ (<<>> \o <<>>) \o <<>> = <<>>
    OBVIOUS
<1>4. flow = <<>>
    BY <1>1, <1>3 DEF flow
<1>5. Len(pending) = 1 /\ pending[1] = x
    BY <1>1
<1>6. Answering(sent) = GREETING /\ GREETING # BYE
    BY <1>1 DEF Answering, GREETING, BYE
<1>7. \A i \in 1 .. 1 : i = 1
    OBVIOUS
<1>8. NoBye(<<>>) /\ NoBye(pending)
    BY <1>2, <1>5, <1>6, <1>7, NothingSaid DEF NoBye
<1>9. Part(pending, GREETING, 1, TRUE)
    <2>1. 1 \in 0 .. 1 /\ 1 \in 1 .. 1 /\ 1 >= 1 /\ \A i \in 1 + 1 .. 1 : FALSE
        OBVIOUS
    <2> QED
        BY <1>2, <1>5, <1>7, <2>1 DEF Part
<1>10. ~Answers(<<>>, sent)
    BY <1>3 DEF Answers
<1>11. Replying
    <2>1. Fits(Len(pending), SOCKET)
        <3>1. 1 + Len(GOODBYE) <= SOCKET
            BY DEF InTurn
        <3> QED
            BY <1>1, <1>5, <3>1 DEF Fits
    <2>2. Len(pending) >= 1 /\ Len(taken) = sent /\ Len(pending) <= BUFF_SIZE
        BY <1>1, <1>3, <1>5, Sizes
    <2> QED
        BY <1>1, <1>4, <1>5, <1>6, <1>8, <1>9, <1>10, <2>1, <2>2 DEF Replying
<1>12. Hearing(clientGot, sent, 0, Begun)
    <2>1. ~Begun
        BY <1>1, <1>4 DEF Begun
    <2> QED
        BY <1>1, <1>3, <2>1 DEF Hearing
<1>13. Probe
    <2>1. CAPA \notin Range(<<>>)
        BY DEF Range
    <2> QED
        BY <1>1, <1>4, <1>8, <2>1 DEF Probe
<1>14. Turn
    BY <1>1, <1>3, <1>4, <1>11 DEF Turn
<1>15. Open(0) /\ 0 \in Nat /\ pc # "closed"
    BY <1>1, <1>11, <1>12, <1>13, <1>14 DEF Open, Stage
<1> QED
    BY <1>15, Zenon DEF DialogueInv

\* Once the session is closed only the client, the filter and the origin go on, and what
\* the client gets of them is what was written to its socket before.
LEMMA ClosedStep ==
    ASSUME TypeOK, Orderly, InTurn, pc = "closed", NEW m \in Nat, Closed(m), Next
    PROVE  DialogueInv'
<1>1. CASE ClientReceives
    BY <1>1, ClosedReceives
<1>2. CASE ClientCloses
    <2>1. DialogueInv
        BY Zenon DEF DialogueInv
    <2> QED
        BY <1>2, <2>1, DialogueCloses
<1>3. ASSUME UNCHANGED <<flow, sent, clientGot, pc>> PROVE DialogueInv'
    <2>1. Closed(m)' /\ pc' = "closed"
        BY <1>3, Shut
    <2> QED
        BY <2>1, Zenon DEF DialogueInv
<1>4. CASE FilterRuns
    <2>1. flow' = flow
        BY <1>4, FlowFiltered
    <2> QED
        BY <1>3, <1>4, <2>1 DEF FilterRuns, client, proxy
<1>5. CASE OriginTakes
    BY <1>3, <1>5 DEF OriginTakes, client, proxy, flow
<1>6. CASE OriginDismisses
    BY <1>3, <1>6 DEF OriginDismisses, client, proxy, channels, flow
<1>7. ~ClientSends /\ ~OriginWrites /\ ~ProxyStep
    BY NoReset DEF ClientSends, OriginWrites, ProxyStep, Greet, Select, AttendClient, PipeliningSupport,
           ReadFromClient, WriteToOrigin, ReadFromOrigin, ReadFromFilter
<1> QED
    BY <1>1, <1>2, <1>4, <1>5, <1>6, <1>7, NoReset, Zenon DEF Next, PeerStep

LEMMA OpenStep ==
    ASSUME TypeOK, Orderly, InTurn, pc # "closed", NEW m \in Nat, Open(m), Next
    PROVE  DialogueInv'
<1>1. ASSUME Open(m)' /\ pc' # "closed" PROVE DialogueInv'
    BY <1>1, Zenon DEF DialogueInv
<1>2. CASE Greet
    BY <1>1, <1>2, OpenGreet
<1>3. CASE Select
    BY <1>1, <1>3, OpenSelect
<1>4. CASE AttendClient
    BY <1>1, <1>4, OpenAttend
<1>5. CASE PipeliningSupport
    BY <1>5, OpenCapa
<1>6. CASE ReadFromClient
    BY <1>6, OpenReadClient
<1>7. CASE WriteToOrigin
    BY <1>1, <1>7, OpenWrite
<1>8. CASE ReadFromOrigin
    BY <1>8, OpenReadOrigin
<1>9. CASE ReadFromFilter
    BY <1>1, <1>9, OpenReadFilter
<1>10. CASE ClientSends
    BY <1>1, <1>10, OpenSends
<1>11. CASE ClientReceives
    BY <1>11, OpenReceives
<1>12. CASE ClientCloses
    <2>1. DialogueInv
        BY Zenon DEF DialogueInv
    <2> QED
        BY <1>12, <2>1, DialogueCloses
<1>13. CASE OriginTakes
    BY <1>1, <1>13, OpenTakes
<1>14. CASE OriginDismisses
    BY <1>1, <1>14, OpenDismisses
<1>15. CASE OriginWrites
    BY <1>15, OpenWrites
<1>16. CASE FilterRuns
    BY <1>1, <1>16, OpenFilter
<1> QED
    BY <1>2, <1>3, <1>4, <1>5, <1>6, <1>7, <1>8, <1>9, <1>10, <1>11, <1>12, <1>13, <1>14, <1>15, <1>16,
       NoReset, Zenon DEF Next, ProxyStep, PeerStep

LEMMA DialogueStep ==
    ASSUME TypeOK, Orderly, InTurn, DialogueInv, [Next]_vars
    PROVE  DialogueInv'
<1>1. PICK m \in Nat : IF pc = "closed" THEN Closed(m) ELSE Open(m)
    BY DEF DialogueInv
<1>2. CASE Next /\ pc = "closed"
    BY <1>1, <1>2, ClosedStep
<1>3. CASE Next /\ pc # "closed"
    BY <1>1, <1>3, OpenStep
<1>4. CASE UNCHANGED vars
    <2>1. UNCHANGED <<flow, o2p, pending, taken, sent, clientGot, dismissed, capaText, previousEnd, pc,
                      p2o, clientClosed, c2p, ready>>
        BY <1>4 DEF vars, client, channels, origin, proxy, flow
    <2>2. CASE pc = "closed"
        <3>1. Closed(m)'
            BY <1>1, <2>1, <2>2, Shut
        <3> QED
            BY <2>1, <2>2, <3>1, Zenon DEF DialogueInv
    <2>3. CASE pc # "closed"
        <3>1. pc = "capa" \/ (pc = "clients" /\ "client" \in ready) => c2p # <<>> \/ clientClosed
            BY <1>1, <2>3 DEF Open, Turn
        <3>2. Open(m)'
            BY <1>1, <2>1, <2>3, <3>1, Quiet
        <3> QED
            BY <2>1, <2>3, <3>2, Zenon DEF DialogueInv
    <2> QED
        BY <2>2, <2>3
<1> QED
    BY <1>2, <1>3, <1>4

-----------------------------------------------------------------------------
(* What the client hears is a dialogue.                                    *)

\* Of the places of a sequence, some of them have a last.
LEMMA LastOfSome ==
    ASSUME NEW n \in Nat, NEW s \in SUBSET (1 .. n), s # {}
    PROVE  \E x \in s : \A y \in s : y <= x
<1> DEFINE T == {n - y : y \in s}
           R == {p \in Nat \X Nat : p[1] < p[2]}
<1>1. T \subseteq Nat /\ T # {}
    <2>1. PICK z \in s : TRUE
        OBVIOUS
    <2>2. n - z \in T
        OBVIOUS
    <2>3. \A y \in s : n - y \in Nat
        OBVIOUS
    <2> QED
        BY <2>2, <2>3
<1>2. IsWellFoundedOn(R, Nat)
    BY NatLessThanWellFounded DEF OpToRel
<1>3. PICK t \in T : \A u \in T : ~(<<u, t>> \in R)
    <2> HIDE DEF R, T
    <2> QED
        BY <1>1, <1>2, WFMin
<1>4. PICK x \in s : t = n - x
    OBVIOUS
<1>5. ASSUME NEW y \in s PROVE y <= x
    <2>1. n - y \in T /\ n - y \in Nat /\ t \in Nat
        OBVIOUS
    <2>2. ~(n - y < t)
        BY <1>3, <2>1
    <2> QED
        BY <1>4, <2>1, <2>2
<1> QED
    BY <1>5

heard == [i \in DOMAIN clientGot |-> Heard(i)]

LEMMA HeardIs ==
    ASSUME clientGot \in Seq(Tokens)
    PROVE  /\ DOMAIN heard = 1 .. Len(clientGot) /\ Len(clientGot) \in Nat
           /\ \A i \in 1 .. Len(clientGot) :
                heard[i].to = clientGot[i].to /\ heard[i].last = clientGot[i].last
<1>1. DOMAIN clientGot = 1 .. Len(clientGot) /\ Len(clientGot) \in Nat
    OBVIOUS
<1> QED
    BY <1>1 DEF heard, Heard

\* The reply that is complete is the one to the last command that was answered.
LEMMA CompleteIs ==
    ASSUME clientGot \in Seq(Tokens), sent \in Nat, NEW m, NEW begun, Hearing(clientGot, sent, m, begun)
    PROVE  /\ Answers(clientGot, sent) => Dialogue!Complete(heard) = sent
           /\ ~Answers(clientGot, sent) => Dialogue!Complete(heard) < sent
<1> DEFINE N     == Len(clientGot)
           lasts == {i \in DOMAIN heard : heard[i].last /\ heard[i].to # Dialogue!BYE}
           h     == clientGot
<1>1. /\ DOMAIN heard = 1 .. N /\ N \in Nat
      /\ \A i \in 1 .. N : heard[i].to = h[i].to /\ heard[i].last = h[i].last
    BY HeardIs
<1>2. /\ \A i \in 1 .. N : h[i].to \in {GREETING, BYE} \cup 1 .. sent
      /\ \A i, j \in 1 .. N : i < j /\ h[i].to # BYE /\ h[j].to # BYE => h[i].to <= h[j].to
    BY DEF Hearing
<1>3. Dialogue!BYE = BYE /\ Dialogue!GREETING = GREETING /\ BYE = -2 /\ GREETING = -1
    BY DEF Dialogue!BYE, Dialogue!GREETING, BYE, GREETING
<1>4. lasts \in SUBSET (1 .. N) /\ \A i \in lasts : h[i].last /\ h[i].to # BYE
    BY <1>1, <1>3
<1>5. \A i \in 1 .. N : h[i].last /\ h[i].to # BYE => i \in lasts
    BY <1>1, <1>3
<1>6. Answering(sent) # BYE
    BY <1>3 DEF Answering
<1> HIDE DEF N
<1>7. CASE lasts = {}
    <2>1. Dialogue!Complete(heard) = -1
        BY <1>7 DEF Dialogue!Complete
    <2>2. ~Answers(clientGot, sent)
        BY <1>5, <1>6, <1>7 DEF Answers, N
    <2> QED
        BY <2>1, <2>2
<1>8. CASE lasts # {}
    <2> DEFINE i == CHOOSE i \in lasts : \A j \in lasts : j <= i
    <2>1. i \in lasts /\ \A j \in lasts : j <= i
        <3>1. \E x \in lasts : \A y \in lasts : y <= x
            <4> HIDE DEF lasts
            <4> QED
                BY <1>1, <1>4, <1>8, LastOfSome
        <3> HIDE DEF lasts
        <3> QED
            BY <3>1
    <2>2. Dialogue!Complete(heard) = IF heard[i].to = Dialogue!GREETING THEN 0 ELSE heard[i].to
        BY <1>8 DEF Dialogue!Complete
    <2> HIDE DEF i, lasts
    <2>3. i \in 1 .. N /\ h[i].last /\ h[i].to # BYE
        BY <1>4, <2>1
    <2> DEFINE c == h[i].to
    <2>4. Dialogue!Complete(heard) = IF c = GREETING THEN 0 ELSE c
        BY <1>1, <1>3, <2>2, <2>3
    <2>5. c \in {GREETING} \cup 1 .. sent
        BY <1>2, <2>3
    <2>6. ASSUME Answers(clientGot, sent) PROVE c = Answering(sent)
        <3>1. PICK a \in 1 .. N : h[a].last /\ h[a].to = Answering(sent)
            BY <2>6 DEF Answers, N
        <3>2. a \in lasts /\ a <= i
            BY <1>5, <1>6, <2>1, <3>1
        <3>3. a = i \/ Answering(sent) <= c
            <4>1. a = i \/ a < i
                BY <1>1, <2>3, <3>2
            <4> QED
                BY <1>2, <1>6, <2>3, <3>1, <4>1
        <3> HIDE DEF c
        <3> QED
            BY <1>3, <2>5, <3>1, <3>3 DEF Answering, c
    <2>7. ASSUME ~Answers(clientGot, sent) PROVE c # Answering(sent)
        BY <2>3, <2>7 DEF Answers, N
    <2> HIDE DEF c
    <2> QED
        BY <1>3, <2>4, <2>5, <2>6, <2>7 DEF Answering
<1> QED
    BY <1>7, <1>8

\* One more token is one more piece.
LEMMA HeardGrows ==
    ASSUME clientGot \in Seq(Tokens), NEW x \in Tokens, clientGot' = Append(clientGot, x)
    PROVE  heard' = Append(heard, [to |-> x.to, last |-> x.last])
<1> DEFINE y == [to |-> x.to, last |-> x.last]
           P == [to : BYE .. COMMANDS, last : BOOLEAN]
           N == Len(clientGot)
           g == Append(clientGot, x)
<1>1. /\ g \in Seq(Tokens) /\ Len(g) = N + 1 /\ N \in Nat /\ g[N + 1] = x
      /\ \A i \in 1 .. N : g[i] = clientGot[i]
      /\ DOMAIN g = 1 .. N + 1 /\ DOMAIN clientGot = 1 .. N
      /\ \A i \in 1 .. N : clientGot[i] \in Tokens
    OBVIOUS
<1>2. \A z \in Tokens : [to |-> z.to, last |-> z.last] \in P
    BY DEF Tokens
<1>3. heard' = [i \in 1 .. N + 1 |-> [to |-> g[i].to, last |-> g[i].last]]
    BY <1>1 DEF heard, Heard
<1>4. heard = [i \in 1 .. N |-> [to |-> clientGot[i].to, last |-> clientGot[i].last]]
    BY <1>1 DEF heard, Heard
<1> HIDE DEF g, N, P
<1>5. heard \in Seq(P) /\ Len(heard) = N /\ y \in P
    <2>1. \A i \in 1 .. N : [to |-> clientGot[i].to, last |-> clientGot[i].last] \in P
        BY <1>1, <1>2
    <2> DEFINE h == [i \in 1 .. N |-> [to |-> clientGot[i].to, last |-> clientGot[i].last]]
    <2>2. h \in Seq(P) /\ Len(h) = N
        <3>1. N \in Nat
            BY <1>1
        <3> QED
            BY ONLY <2>1, <3>1
    <2>3. y \in P
        BY <1>2
    <2> QED
        BY <1>4, <2>2, <2>3
<1>6. \A i \in 1 .. N : heard[i] = [to |-> g[i].to, last |-> g[i].last]
    BY <1>1, <1>4
<1> HIDE DEF y
<1>7. Append(heard, y) = [i \in 1 .. N + 1 |-> IF i = N + 1 THEN y ELSE heard[i]]
    <2> DEFINE a == Append(heard, y)
    <2>1. /\ a \in Seq(P) /\ Len(a) = N + 1 /\ a[N + 1] = y
          /\ \A i \in 1 .. N : a[i] = heard[i]
        BY <1>1, <1>5, AppendProperties
    <2> HIDE DEF a
    <2>2. a = [i \in 1 .. N + 1 |-> a[i]]
        BY <1>1, <2>1
    <2>3. \A i \in 1 .. N + 1 : i = N + 1 \/ i \in 1 .. N
        BY <1>1
    <2>4. \A i \in 1 .. N + 1 : a[i] = IF i = N + 1 THEN y ELSE heard[i]
        BY <2>1, <2>3, Zenon
    <2>5. a = [i \in 1 .. N + 1 |-> IF i = N + 1 THEN y ELSE heard[i]]
        BY <2>2, <2>4, Zenon
    <2> QED
        BY <2>5 DEF a
<1>8. \A i \in 1 .. N + 1 : [to |-> g[i].to, last |-> g[i].last] = IF i = N + 1 THEN y ELSE heard[i]
    <2> SUFFICES ASSUME NEW i \in 1 .. N + 1
                 PROVE  [to |-> g[i].to, last |-> g[i].last] = IF i = N + 1 THEN y ELSE heard[i]
        OBVIOUS
    <2>1. CASE i = N + 1
        BY <1>1, <2>1 DEF y
    <2>2. CASE i # N + 1
        <3>1. i \in 1 .. N
            BY <1>1, <2>2
        <3> QED
            BY <1>6, <2>2, <3>1, Zenon
    <2> QED
        BY <2>1, <2>2
<1>9. Append(heard, y) = [i \in 1 .. N + 1 |-> [to |-> g[i].to, last |-> g[i].last]]
    BY <1>7, <1>8, Zenon
<1> QED
    BY <1>3, <1>9, Zenon DEF y

LEMMA HeardInit ==
    ASSUME Init
    PROVE  Dialogue!Init
<1>1. sent = 0 /\ clientGot = <<>>
    BY DEF Init
<1>2. [i \in DOMAIN <<>> |-> Heard(i)] = <<>>
    OBVIOUS
<1> QED
    BY <1>1, <1>2 DEF Dialogue!Init

\* What comes to the client is the next piece of the reply it waits for, or of the good-bye.
LEMMA HeardNext ==
    ASSUME TypeOK, InTurn, DialogueInv, ClientReceives
    PROVE  Dialogue!Hear \/ Dialogue!HearGoodbye
<1> DEFINE x == Head(flow)
           k == Answering(sent)
<1>1. /\ flow \in Seq(Tokens) /\ flow # <<>> /\ Head(p2c) = x /\ x \in Tokens
      /\ clientGot \in Seq(Tokens) /\ sent \in Nat /\ o2p \in Seq(Tokens) /\ flow \o o2p \in Seq(Tokens)
    BY FlowReceived, OnTheWay
<1>2. clientGot' = Append(clientGot, x) /\ sent' = sent
    BY <1>1 DEF ClientReceives
<1>3. PICK m \in Nat : IF pc = "closed" THEN Closed(m) ELSE Open(m)
    BY DEF DialogueInv
<1>4. Hearing(clientGot, sent, m, Begun) /\ Begun
    BY <1>1, <1>3 DEF Closed, Open, Begun
<1> HIDE DEF x, k
<1>5. (m = 0 => x.to = BYE) /\ (m >= 1 => x.to = k)
    <2>1. CASE pc = "closed"
        <3>1. Part(flow, k, m, FALSE) /\ FALSE \in BOOLEAN
            BY <1>3, <2>1 DEF Closed, k
        <3> QED
            BY <1>1, <3>1, PartBegins DEF x
    <2>2. CASE pc # "closed"
        <3>1. Going(m)
            BY <1>1, <1>3, <2>2 DEF Open, Stage, Replying, Probing, AskedCapa, Telling
        <3>2. flow \o o2p # <<>> /\ Head(flow \o o2p) = x
            BY <1>1, FlowBegins DEF x
        <3> DEFINE st == flow \o o2p
        <3>3. /\ TRUE \in BOOLEAN /\ Part(st, k, m, TRUE) /\ st \in Seq(Tokens) /\ st # <<>>
              /\ Head(st) = x
            BY <1>1, <3>1, <3>2 DEF Going, k
        <3> HIDE DEF st
        <3>4. (m = 0 => Head(st).to = BYE) /\ (m >= 1 => Head(st).to = k)
            BY ONLY <3>3, PartBegins
        <3> QED
            BY <3>3, <3>4
    <2> QED
        BY <2>1, <2>2
<1>6. heard' = Append(heard, [to |-> x.to, last |-> x.last])
    BY <1>1, <1>2, HeardGrows
<1>7. /\ DOMAIN heard = 1 .. Len(clientGot) /\ Len(clientGot) \in Nat
      /\ \A i \in 1 .. Len(clientGot) :
            heard[i].to = clientGot[i].to /\ heard[i].last = clientGot[i].last
    BY <1>1, HeardIs
<1>8. Dialogue!BYE = BYE /\ Dialogue!GREETING = GREETING
    BY DEF Dialogue!BYE, Dialogue!GREETING, BYE, GREETING
<1>9. x.last \in BOOLEAN
    BY <1>1 DEF Tokens
<1>10. CASE m >= 1
    <2>1. ~Answers(clientGot, sent) /\ NoBye(clientGot)
        BY <1>4, <1>10 DEF Hearing
    <2>2. Dialogue!Complete(heard) < sent
        BY <1>1, <1>4, <2>1, CompleteIs
    <2>3. ~Dialogue!Dismissed
        BY <1>7, <1>8, <2>1 DEF Dialogue!Dismissed, NoBye, heard
    <2>4. x.to = IF sent = 0 THEN Dialogue!GREETING ELSE sent
        BY <1>5, <1>8, <1>10 DEF k, Answering
    <2>5. Dialogue!Hear
        BY <1>2, <1>6, <1>9, <2>2, <2>3, <2>4 DEF Dialogue!Hear, heard
    <2> QED
        BY <2>5
<1>11. CASE m = 0
    <2>1. AtEnd(clientGot) /\ x.to = Dialogue!BYE
        BY <1>4, <1>5, <1>8, <1>11 DEF Hearing
    <2>2. Len(clientGot) \in 1 .. Len(clientGot) /\ Len(heard) = Len(clientGot) /\ heard # <<>>
        BY <1>1, <1>7, <2>1, EmptySeq DEF AtEnd
    <2>3. heard[Len(heard)].last \/ Dialogue!Dismissed
        BY <1>7, <1>8, <2>1, <2>2 DEF AtEnd, Dialogue!Dismissed, heard
    <2>4. Dialogue!HearGoodbye
        BY <1>2, <1>6, <1>9, <2>1, <2>2, <2>3 DEF Dialogue!HearGoodbye, heard
    <2> QED
        BY <2>4
<1> QED
    BY <1>10, <1>11

\* And what it says comes when the reply to what it said before is complete.
LEMMA HeardStep ==
    ASSUME TypeOK, Orderly, InTurn, DialogueInv, [Next]_vars
    PROVE  [Dialogue!Next]_<<sent, heard>>
<1>1. CASE ClientReceives
    <2>1. Dialogue!Hear \/ Dialogue!HearGoodbye
        BY <1>1, HeardNext
    <2> QED
        BY <2>1 DEF Dialogue!Next
<1>2. CASE ClientSends
    <2>1. /\ sent < COMMANDS /\ sent' = sent + 1 /\ clientGot' = clientGot /\ Answers(clientGot, sent)
        BY <1>2, AnsweredIs DEF ClientSends, InTurn
    <2>2. PICK m \in Nat : IF pc = "closed" THEN Closed(m) ELSE Open(m)
        BY DEF DialogueInv
    <2>3. Hearing(clientGot, sent, m, Begun)
        BY <2>2 DEF Closed, Open
    <2>4. Dialogue!Complete(heard) = sent
        BY <2>1, <2>3, CompleteIs, OnTheWay
    <2>5. heard' = heard
        BY <2>1 DEF heard, Heard
    <2>6. Dialogue!Say
        BY <2>1, <2>4, <2>5 DEF Dialogue!Say, heard
    <2> QED
        BY <2>6 DEF Dialogue!Next
<1>3. ASSUME UNCHANGED <<sent, clientGot>> PROVE UNCHANGED <<sent, heard>>
    BY <1>3 DEF heard, Heard
<1>4. CASE ClientCloses \/ OriginTakes \/ OriginDismisses \/ OriginWrites \/ FilterRuns
    BY <1>3, <1>4 DEF ClientCloses, OriginTakes, OriginDismisses, OriginWrites, FilterRuns, client
<1>5. CASE ProxyStep
    BY <1>3, <1>5, NoReset DEF ProxyStep, Greet, Select, AttendClient, PipeliningSupport, ReadFromClient,
                      WriteToOrigin, ReadFromOrigin, ReadFromFilter, client
<1>6. CASE UNCHANGED vars
    BY <1>3, <1>6 DEF vars, client
<1> QED
    BY <1>1, <1>2, <1>4, <1>5, <1>6, NoReset, Zenon DEF Next, PeerStep

\* A client that waits for each reply sees of the proxy nothing: not a piece of a reply to
\* the proxy's own CAPA (pipeliningSupport), no reply before its turn, none with an end that
\* readFromOrigin or readFromFilter lost, and nothing after the origin's good-bye.
THEOREM DialogueIsKept ==
    ASSUME InTurn
    PROVE  Spec => InDialogue
<1>1. Init => DialogueInv
    BY DialogueInit
<1>2. TypeOK /\ Orderly /\ DialogueInv /\ [Next]_vars => DialogueInv'
    BY DialogueStep
<1>3. Spec => [](TypeOK /\ Orderly)
    BY Ordered
<1>4. Init => Dialogue!Init
    BY HeardInit
<1>5. TypeOK /\ Orderly /\ DialogueInv /\ [Next]_vars
        => [Dialogue!Next]_<<sent, [i \in DOMAIN clientGot |-> Heard(i)]>>
    BY HeardStep DEF heard
<1>6. Spec => Dialogue!Spec
    BY <1>1, <1>2, <1>3, <1>4, <1>5, PTL DEF Spec, Dialogue!Spec
<1> QED
    BY <1>6 DEF InDialogue

-----------------------------------------------------------------------------
(* What pipeliningSupport finds.                                           *)

LEMMA SaysIs ==
    ASSUME NEW R, NEW text \in Seq(R), NEW what \in Seq(R), NEW i \in 1 .. Len(text), what # <<>>
    PROVE  IsPrefix(what, SubSeq(text, i, Len(text))) <=> Says(text, i, what)
<1> DEFINE L == Len(text)
           W == Len(what)
           u == SubSeq(text, i, L)
<1>1. L \in Nat /\ W \in Nat \ {0} /\ i \in 1 .. L
    BY EmptySeq
<1>2. u \in Seq(R) /\ Len(u) = L - i + 1 /\ \A j \in 1 .. L - i + 1 : u[j] = text[i + j - 1]
    <2>1. \A j \in i .. L : text[j] \in R
        BY <1>1
    <2> QED
        BY <1>1, <2>1, SubSeqProperties
<1>3. SubSeq(what, 1, W) = what
    BY <1>1
<1> HIDE DEF u, L, W
<1>4. ASSUME W <= L - i + 1
      PROVE  SubSeq(u, 1, W) = what <=> \A j \in 1 .. W : text[i + j - 1] = what[j]
    <2> DEFINE v == SubSeq(u, 1, W)
    <2>1. v \in Seq(R) /\ Len(v) = W /\ \A j \in 1 .. W : v[j] = u[j]
        <3>1. \A j \in 1 .. W : u[j] \in R /\ j \in 1 .. Len(u)
            BY <1>1, <1>2, <1>4
        <3> QED
            BY <1>1, <1>2, <3>1, SubSeqProperties
    <2>2. \A j \in 1 .. W : v[j] = text[i + j - 1]
        BY <1>1, <1>2, <1>4, <2>1
    <2> HIDE DEF v
    <2>3. v = what <=> \A j \in 1 .. W : v[j] = what[j]
        <3>1. what \in Seq(R) /\ Len(what) = W
            BY DEF W
        <3> QED
            BY <2>1, <3>1, SeqEqual
    <2> QED
        BY <2>2, <2>3 DEF v
<1>5. i + W - 1 <= L <=> W <= L - i + 1
    BY <1>1
<1>6. IsPrefix(what, u) <=> W <= L - i + 1 /\ SubSeq(u, 1, W) = what
    BY <1>2, <1>3, Zenon DEF IsPrefix, W
<1> QED
    BY <1>4, <1>5, <1>6 DEF Says, u, L, W

LEMMA FirstOfSome ==
    ASSUME NEW s \in SUBSET Nat, s # {}
    PROVE  \E x \in s : \A y \in s : x <= y
<1> DEFINE R == {p \in Nat \X Nat : p[1] < p[2]}
<1>1. IsWellFoundedOn(R, Nat)
    BY NatLessThanWellFounded DEF OpToRel
<1>2. PICK x \in s : \A y \in s : ~(<<y, x>> \in R)
    <2> HIDE DEF R
    <2> QED
        BY <1>1, WFMin
<1>3. ASSUME NEW y \in s PROVE x <= y
    <2>1. x \in Nat /\ y \in Nat
        OBVIOUS
    <2>2. ~(y < x)
        BY <1>2, <2>1
    <2> QED
        BY <2>1, <2>2
<1> QED
    BY <1>3

\* Without empty lines it finds the word where a line begins with it.
LEMMA FindIs ==
    ASSUME NEW R, NEW text \in Seq(R), {"CR", "LF"} \cup Range(PIPELINING) \subseteq R
    PROVE  /\ FindPipelining(text) = "FALSE" =>
                \A i \in LineStarts(text) : ~Says(text, i, PIPELINING)
           /\ (\A i \in LineStarts(text) : ~Says(text, i, EmptyLine)) =>
                /\ (\E i \in LineStarts(text) : Says(text, i, PIPELINING)) => FindPipelining(text) = "TRUE"
                /\ (\A i \in LineStarts(text) : ~Says(text, i, PIPELINING)) => FindPipelining(text) = "FALSE"
<1> DEFINE says(i, what) == IsPrefix(what, SubSeq(text, i, Len(text)))
           hits == {i \in LineStarts(text) : says(i, <<"CR", "LF">>) \/ says(i, PIPELINING)}
<1>1. LineStarts(text) \subseteq 1 .. Len(text) /\ 1 .. Len(text) \subseteq Nat
    BY DEF LineStarts
<1>2. PIPELINING \in Seq(R) /\ PIPELINING # <<>> /\ EmptyLine \in Seq(R) /\ EmptyLine # <<>>
    <2>1. PIPELINING \in Seq(Range(PIPELINING)) /\ PIPELINING # <<>>
        BY Pop3SessionAssumption
    <2> QED
        BY <2>1 DEF EmptyLine
<1>3. \A i \in LineStarts(text) : /\ says(i, <<"CR", "LF">>) <=> Says(text, i, EmptyLine)
                                  /\ says(i, PIPELINING) <=> Says(text, i, PIPELINING)
    BY <1>1, <1>2, SaysIs DEF EmptyLine
<1>4. FindPipelining(text) = IF hits = {} THEN "FALSE"
                             ELSE IF says(Min(hits), PIPELINING) THEN "TRUE" ELSE "NOT_SUPPORTED"
    BY DEF FindPipelining
<1>5. hits # {} => Min(hits) \in hits
    <2> SUFFICES ASSUME hits # {} PROVE Min(hits) \in hits
        OBVIOUS
    <2>1. hits \in SUBSET Nat
        BY <1>1
    <2> HIDE DEF hits
    <2>2. \E x \in hits : \A y \in hits : x <= y
        BY <2>1, FirstOfSome
    <2> QED
        BY <2>2 DEF Min
<1>6. \A i \in hits : i \in LineStarts(text) /\ (says(i, <<"CR", "LF">>) \/ says(i, PIPELINING))
    OBVIOUS
<1>7. \A i \in LineStarts(text) : says(i, <<"CR", "LF">>) \/ says(i, PIPELINING) => i \in hits
    OBVIOUS
<1> HIDE DEF hits, says
<1>8. FindPipelining(text) = "FALSE" => hits = {}
    BY <1>4
<1>9. ASSUME \A i \in LineStarts(text) : ~Says(text, i, EmptyLine), hits # {}
      PROVE  FindPipelining(text) = "TRUE"
    <2>1. says(Min(hits), PIPELINING)
        BY <1>3, <1>5, <1>6, <1>9, Zenon
    <2> QED
        BY <1>4, <1>9, <2>1
<1>10. hits = {} => FindPipelining(text) = "FALSE"
    BY <1>4
<1>11. (\A i \in LineStarts(text) : ~Says(text, i, EmptyLine) /\ ~Says(text, i, PIPELINING)) => hits = {}
    BY <1>3, <1>6, Zenon
<1> QED
    BY <1>3, <1>7, <1>8, <1>9, <1>10, <1>11, Zenon

\* What is searched is a window of the text, from what was kept on.
First(n) == IF n = 0 THEN 0 ELSE n - BUFFER_END

LEMMA WindowIs ==
    ASSUME NEW text \in CAPA_TEXTS, NEW n \in Nat, n = 0 \/ n >= BUFFER_END, NEW m \in Nat \ {0},
           n + m <= Len(text)
    PROVE  /\ First(n) \in 0 .. n /\ Len(text) \in Nat /\ text \in Seq(Range(text))
           /\ SearchedIn(text, n, m) \in Seq(Range(text))
           /\ Len(SearchedIn(text, n, m)) = n + m - First(n)
           /\ \A j \in 1 .. n + m - First(n) : SearchedIn(text, n, m)[j] = text[First(n) + j]
<1> DEFINE R == Range(text)
           L == Len(text)
           s == First(n)
           u == Kept(text, n)
           v == SubSeq(text, n + 1, n + m)
<1>1. text \in Seq(R) /\ L \in Nat /\ BUFFER_END \in Nat \ {0}
    BY Pop3SessionAssumption, Sizes
<1> HIDE DEF R, L
<1>2. s \in 0 .. n
    BY <1>1 DEF First
<1>3. \A j \in 1 .. L : text[j] \in R
    BY <1>1 DEF L
<1>4. v \in Seq(R) /\ Len(v) = m /\ \A j \in 1 .. m : v[j] = text[n + j]
    <2> DEFINE from == n + 1
               to   == n + m
    <2>1. /\ \A j \in from .. to : text[j] \in R
          /\ from \in Int /\ to \in Int /\ from <= to /\ to - from + 1 = m
          /\ \A j \in 1 .. m : from + j - 1 = n + j
        BY <1>1, <1>3 DEF L
    <2> HIDE DEF from, to
    <2>2. /\ SubSeq(text, from, to) \in Seq(R)
          /\ Len(SubSeq(text, from, to)) = IF from <= to THEN to - from + 1 ELSE 0
          /\ \A j \in 1 .. to - from + 1 : SubSeq(text, from, to)[j] = text[from + j - 1]
        BY <2>1, SubSeqProperties
    <2> QED
        BY <2>1, <2>2 DEF from, to
<1>5. u \in Seq(R) /\ Len(u) = n - s /\ \A j \in 1 .. n - s : u[j] = text[s + j]
    <2>1. CASE n = 0
        BY <1>2, <2>1 DEF Kept
    <2>2. CASE n # 0
        <3> DEFINE from == n - BUFFER_END + 1
        <3>1. /\ \A j \in from .. n : text[j] \in R
              /\ from \in Int /\ from <= n /\ n - from + 1 = n - s
              /\ \A j \in 1 .. n - s : from + j - 1 = s + j
            BY <1>1, <1>3, <2>2 DEF L, First
        <3>2. u = SubSeq(text, from, n)
            BY <2>2 DEF Kept
        <3> HIDE DEF from, u, s
        <3>3. /\ SubSeq(text, from, n) \in Seq(R)
              /\ Len(SubSeq(text, from, n)) = IF from <= n THEN n - from + 1 ELSE 0
              /\ \A j \in 1 .. n - from + 1 : SubSeq(text, from, n)[j] = text[from + j - 1]
            BY <3>1, SubSeqProperties
        <3> QED
            BY <3>1, <3>2, <3>3
    <2> QED
        BY <2>1, <2>2
<1> HIDE DEF u, v, s
<1>6. /\ u \o v \in Seq(R) /\ Len(u \o v) = n + m - s
      /\ \A j \in 1 .. n + m - s : (u \o v)[j] = text[s + j]
    <2>1. /\ u \o v \in Seq(R) /\ Len(u \o v) = Len(u) + Len(v)
          /\ \A j \in 1 .. Len(u) + Len(v) : (u \o v)[j] = IF j <= Len(u) THEN u[j] ELSE v[j - Len(u)]
        BY <1>4, <1>5, ConcatProperties
    <2>2. ASSUME NEW j \in 1 .. n + m - s PROVE (u \o v)[j] = text[s + j]
        <3> DEFINE a == n - s
        <3>0. a \in Nat /\ n + m - s = a + m /\ j \in 1 .. a + m /\ s \in Nat /\ n = s + a
            BY <1>2
        <3>1. /\ Len(u) = a /\ Len(v) = m /\ \A k \in 1 .. a : u[k] = text[s + k]
              /\ \A k \in 1 .. m : v[k] = text[n + k]
            BY <1>4, <1>5
        <3>2. (u \o v)[j] = IF j <= a THEN u[j] ELSE v[j - a]
            BY <2>1, <3>0, <3>1
        <3> HIDE DEF a
        <3>3. CASE j <= a
            BY <3>0, <3>1, <3>2, <3>3
        <3>4. CASE ~(j <= a)
            <4>1. j - a \in 1 .. m /\ n + (j - a) = s + j
                BY <3>0, <3>4
            <4> QED
                BY <3>1, <3>2, <3>4, <4>1
        <3> QED
            BY <3>3, <3>4
    <2>3. (n - s) + m = n + m - s
        BY <1>2
    <2>4. Len(u \o v) = n + m - s
        BY <1>4, <1>5, <2>1, <2>3, Zenon
    <2> QED
        BY <2>1, <2>2, <2>4
<1>7. SearchedIn(text, n, m) = u \o v
    BY DEF SearchedIn, u, v
<1> QED
    BY <1>1, <1>2, <1>6, <1>7, Zenon DEF s, R, L

\* What the window says the text says, and the other way round where it is in the window.
LEMMA SaysThere ==
    ASSUME NEW text, Len(text) \in Nat, NEW w, Len(w) \in Nat, NEW s \in Nat, s + Len(w) <= Len(text),
           \A j \in 1 .. Len(w) : w[j] = text[s + j], NEW what, Len(what) \in Nat \ {0}
    PROVE  /\ \A j \in 1 .. Len(w) : Says(w, j, what) => Says(text, s + j, what)
           /\ \A i \in 1 .. Len(text) : i > s /\ i + Len(what) - 1 <= s + Len(w) /\ Says(text, i, what)
                => i - s \in 1 .. Len(w) /\ Says(w, i - s, what)
<1> DEFINE W == Len(what)
           N == Len(w)
           L == Len(text)
<1>1. ASSUME NEW j \in 1 .. N, Says(w, j, what) PROVE Says(text, s + j, what)
    <2>1. j + W - 1 <= N /\ \A k \in 1 .. W : w[j + k - 1] = what[k]
        BY <1>1 DEF Says
    <2> HIDE DEF W, N, L
    <2>2. /\ (s + j) + W - 1 <= L
          /\ \A k \in 1 .. W : /\ j + k - 1 \in 1 .. N /\ s + (j + k - 1) = (s + j) + k - 1
        BY <2>1 DEF W, N, L
    <2>3. \A k \in 1 .. W : text[(s + j) + k - 1] = what[k]
        <3> SUFFICES ASSUME NEW k \in 1 .. W PROVE text[(s + j) + k - 1] = what[k]
            OBVIOUS
        <3>1. w[j + k - 1] = text[s + (j + k - 1)]
            BY <2>2 DEF N
        <3> QED
            BY <2>1, <2>2, <3>1
    <2> QED
        BY <2>2, <2>3 DEF Says, W, L
<1>2. ASSUME NEW i \in 1 .. L, i > s, i + W - 1 <= s + N, Says(text, i, what)
      PROVE  i - s \in 1 .. N /\ Says(w, i - s, what)
    <2>1. \A k \in 1 .. W : text[i + k - 1] = what[k]
        BY <1>2 DEF Says
    <2>4. W \in Nat \ {0} /\ N \in Nat /\ L \in Nat /\ i \in Int /\ i > s /\ i + W - 1 <= s + N
        BY <1>2
    <2> HIDE DEF W, N, L
    <2>5. i - s \in 1 .. N /\ (i - s) + W - 1 <= N
        BY <2>4
    <2>6. ASSUME NEW k \in 1 .. W
          PROVE  (i - s) + k - 1 \in 1 .. N /\ s + ((i - s) + k - 1) = i + k - 1
        BY <2>4
    <2>2. /\ i - s \in 1 .. N /\ (i - s) + W - 1 <= N
          /\ \A k \in 1 .. W : /\ (i - s) + k - 1 \in 1 .. N
                               /\ s + ((i - s) + k - 1) = i + k - 1
        BY <2>5, <2>6
    <2>3. \A k \in 1 .. W : w[(i - s) + k - 1] = what[k]
        <3> SUFFICES ASSUME NEW k \in 1 .. W PROVE w[(i - s) + k - 1] = what[k]
            OBVIOUS
        <3>1. w[(i - s) + k - 1] = text[s + ((i - s) + k - 1)]
            BY <2>2 DEF N
        <3> QED
            BY <2>1, <2>2, <3>1
    <2> QED
        BY <2>2, <2>3 DEF Says, W, N
<1> QED
    BY <1>1, <1>2

\* And lines begin in both at the same places, but for the beginning of the window.
LEMMA LinesThere ==
    ASSUME NEW text, Len(text) \in Nat, DOMAIN text = 1 .. Len(text),
           NEW w, Len(w) \in Nat, DOMAIN w = 1 .. Len(w), NEW s \in Nat, s + Len(w) <= Len(text),
           \A j \in 1 .. Len(w) : w[j] = text[s + j]
    PROVE  /\ \A j \in LineStarts(w) : /\ j \in 1 .. Len(w) /\ s + j \in 1 .. Len(text)
                                       /\ j = 1 \/ s + j \in LineStarts(text)
           /\ \A i \in LineStarts(text) : /\ i \in 1 .. Len(text)
                                          /\ i > s /\ i <= s + Len(w) => i - s \in LineStarts(w)
<1>1. ASSUME NEW j \in LineStarts(w)
      PROVE  j \in 1 .. Len(w) /\ s + j \in 1 .. Len(text) /\ (j = 1 \/ s + j \in LineStarts(text))
    <2>1. j \in 1 .. Len(w) /\ (j = 1 \/ w[j - 1] = "LF")
        BY DEF LineStarts
    <2>2. CASE j # 1
        <3>1. j - 1 \in 1 .. Len(w) /\ s + (j - 1) = (s + j) - 1 /\ s + j \in 1 .. Len(text)
            BY <2>1, <2>2
        <3>2. text[(s + j) - 1] = "LF"
            BY <2>1, <2>2, <3>1
        <3> QED
            BY <2>1, <3>1, <3>2 DEF LineStarts
    <2> QED
        BY <2>1, <2>2
<1>2. ASSUME NEW i \in LineStarts(text)
      PROVE  i \in 1 .. Len(text) /\ (i > s /\ i <= s + Len(w) => i - s \in LineStarts(w))
    <2>1. i \in 1 .. Len(text) /\ (i = 1 \/ text[i - 1] = "LF")
        BY DEF LineStarts
    <2>2. ASSUME i > s, i <= s + Len(w) PROVE i - s \in LineStarts(w)
        <3>1. i - s \in 1 .. Len(w)
            BY <2>1, <2>2
        <3>2. CASE i - s # 1
            <4>1. (i - s) - 1 \in 1 .. Len(w) /\ s + ((i - s) - 1) = i - 1 /\ i # 1
                BY <2>1, <2>2, <3>1, <3>2
            <4>2. w[(i - s) - 1] = "LF"
                BY <2>1, <4>1
            <4> QED
                BY <3>1, <4>2 DEF LineStarts
        <3> QED
            BY <3>1, <3>2 DEF LineStarts
    <2> QED
        BY <2>1, <2>2
<1> QED
    BY <1>1, <1>2

\* A window of the text, read as the q-th, has the word at the beginning of a line where the
\* text has it, and no empty line.
LEMMA WindowSays ==
    ASSUME InTurn, Readable, NEW text \in CAPA_TEXTS, NEW q \in Nat, NEW m \in Nat \ {0},
           q * BUFF_SIZE + m <= Len(text)
    PROVE  LET n == q * BUFF_SIZE
               w == SearchedIn(text, n, m)
           IN  /\ \A j \in LineStarts(w) : ~Says(w, j, EmptyLine)
               /\ \A j \in LineStarts(w) : Says(w, j, PIPELINING) =>
                    \E i \in LineStarts(text) : Says(text, i, PIPELINING)
               /\ \A i \in LineStarts(text) :
                    i > First(n) /\ i + Len(PIPELINING) - 1 <= n + m /\ Says(text, i, PIPELINING) =>
                        \E j \in LineStarts(w) : Says(w, j, PIPELINING)
<1> DEFINE n == q * BUFF_SIZE
           w == SearchedIn(text, n, m)
           s == First(n)
           P == Len(PIPELINING)
<1>1. /\ BUFF_SIZE \in Nat \ {0} /\ BUFFER_END \in 1 .. BUFF_SIZE /\ n \in Nat
      /\ n + m <= Len(text)
    BY Sizes
<1>2. n = 0 \/ (q - 1 \in Nat /\ n = ((q - 1) + 1) * BUFF_SIZE /\ n >= BUFFER_END)
    <2>1. CASE q = 0
        BY <1>1, <2>1
    <2>2. CASE q # 0
        <3> DEFINE p == q - 1
        <3>1. p \in Nat /\ q = p + 1
            BY <2>2
        <3>2. n = (p + 1) * BUFF_SIZE
            BY <3>1
        <3> HIDE DEF p, n
        <3>3. (p + 1) * BUFF_SIZE = p * BUFF_SIZE + BUFF_SIZE /\ p * BUFF_SIZE \in Nat
            BY <1>1, <3>1
        <3>4. n >= BUFFER_END
            BY <1>1, <3>2, <3>3
        <3> QED
            BY <3>1, <3>2, <3>4, Zenon DEF p
    <2> QED
        BY <2>1, <2>2
<1> HIDE DEF n
<1>3. /\ s \in 0 .. n /\ Len(text) \in Nat /\ text \in Seq(Range(text)) /\ w \in Seq(Range(text))
      /\ Len(w) = n + m - s /\ \A j \in 1 .. n + m - s : w[j] = text[s + j]
    BY <1>1, <1>2, WindowIs
<1>4. /\ s \in Nat /\ Len(w) \in Nat /\ s + Len(w) = n + m /\ s + Len(w) <= Len(text)
      /\ \A j \in 1 .. Len(w) : w[j] = text[s + j]
      /\ DOMAIN w = 1 .. Len(w)
    <2> HIDE DEF w, s
    <2> QED
        BY <1>1, <1>3
<1>5. P \in Nat \ {0} /\ Len(EmptyLine) \in Nat \ {0}
    <2>1. PIPELINING \in Seq(Range(PIPELINING)) /\ PIPELINING # <<>>
        BY Pop3SessionAssumption
    <2> QED
        BY <2>1, EmptySeq DEF EmptyLine
<1>10. DOMAIN text = 1 .. Len(text)
    BY <1>3
<1> HIDE DEF w, s
<1>6. /\ \A j \in LineStarts(w) : /\ j \in 1 .. Len(w) /\ s + j \in 1 .. Len(text)
                                  /\ j = 1 \/ s + j \in LineStarts(text)
      /\ \A i \in LineStarts(text) : /\ i \in 1 .. Len(text)
                                     /\ i > s /\ i <= s + Len(w) => i - s \in LineStarts(w)
    BY <1>3, <1>4, <1>10, LinesThere
<1>7. ASSUME NEW j \in LineStarts(w) PROVE ~Says(w, j, EmptyLine)
    <2> SUFFICES ASSUME Says(w, j, EmptyLine) PROVE FALSE
        OBVIOUS
    <2>1. Says(text, s + j, EmptyLine)
        BY <1>3, <1>4, <1>5, <1>6, SaysThere
    <2>2. s + j \notin LineStarts(text)
        BY <2>1 DEF Readable
    <2>3. j = 1 /\ s # 0
        <3>1. j = 1
            BY <1>6, <2>2, Zenon
        <3>2. 1 \in LineStarts(text)
            BY <1>6, <1>10, <3>1 DEF LineStarts
        <3> QED
            BY <2>2, <3>1, <3>2
    <2>4. q - 1 \in Nat /\ n = ((q - 1) + 1) * BUFF_SIZE /\ s = n - BUFFER_END
        BY <1>2, <2>3 DEF s, First
    <2>5. n < Len(text)
        BY <1>1, <1>3
    <2>6. ~Says(text, n - BUFFER_END + 1, EmptyLine)
        <3> DEFINE p == q - 1
        <3>1. p \in Nat /\ (p + 1) * BUFF_SIZE = n /\ (p + 1) * BUFF_SIZE < Len(text)
            BY <2>4, <2>5
        <3> HIDE DEF p
        <3>2. p \in Reads(text)
            BY <1>3, <3>1, ReadOf
        <3>3. ~Says(text, (p + 1) * BUFF_SIZE - BUFFER_END + 1, EmptyLine)
            BY <3>1, <3>2, Zenon DEF Readable
        <3> QED
            BY <3>1, <3>3, Zenon
    <2> QED
        BY <1>1, <2>1, <2>3, <2>4, <2>6
<1>8. ASSUME NEW j \in LineStarts(w), Says(w, j, PIPELINING)
      PROVE  \E i \in LineStarts(text) : Says(text, i, PIPELINING)
    <2>1. Says(text, s + j, PIPELINING)
        BY <1>3, <1>4, <1>5, <1>6, <1>8, SaysThere
    <2>2. CASE s + j \in LineStarts(text)
        BY <2>1, <2>2
    <2>3. CASE j = 1 /\ s = 0
        <3>1. s + j \in LineStarts(text)
            BY <1>6, <1>10, <2>3 DEF LineStarts
        <3> QED
            BY <2>1, <3>1
    <2>4. CASE j = 1 /\ s # 0
        <3>1. q - 1 \in Nat /\ n = ((q - 1) + 1) * BUFF_SIZE /\ s = n - BUFFER_END
            BY <1>2, <2>4 DEF s, First
        <3>2. n < Len(text)
            BY <1>1, <1>3
        <3> DEFINE p == q - 1
        <3>3. p \in Nat /\ (p + 1) * BUFF_SIZE = n /\ (p + 1) * BUFF_SIZE < Len(text)
            BY <3>1, <3>2
        <3> HIDE DEF p
        <3> DEFINE i == (p + 1) * BUFF_SIZE - BUFFER_END + 1
        <3>4. i = s + j
            BY <1>1, <2>4, <3>1, <3>3
        <3>5. p \in Reads(text)
            BY <1>3, <3>3, ReadOf
        <3>6. Says(text, i, PIPELINING) => i \in LineStarts(text)
            BY <3>3, <3>5, Zenon DEF Readable
        <3> HIDE DEF i
        <3> QED
            BY <2>1, <3>4, <3>6
    <2> QED
        BY <1>6, <2>2, <2>3, <2>4
<1>9. ASSUME NEW i \in LineStarts(text), i > s, i + P - 1 <= n + m, Says(text, i, PIPELINING)
      PROVE  \E j \in LineStarts(w) : Says(w, j, PIPELINING)
    <2>1. i \in 1 .. Len(text) /\ i <= s + Len(w)
        <3> HIDE DEF P
        <3>1. i \in 1 .. Len(text)
            BY <1>6
        <3> QED
            BY <1>1, <1>3, <1>4, <1>5, <1>9, <3>1
    <2>2. i - s \in LineStarts(w)
        BY <1>6, <1>9, <2>1
    <2>3. Says(w, i - s, PIPELINING)
        BY <1>3, <1>4, <1>5, <1>9, <2>1, SaysThere
    <2> QED
        BY <2>2, <2>3
<1> QED
    BY <1>7, <1>8, <1>9 DEF n, w, s, P

LEMMA Multiples ==
    ASSUME NEW p \in Nat, NEW q \in Nat, p <= q, NEW b \in Nat
    PROVE  p * b <= q * b /\ p * b \in Nat /\ q * b \in Nat
<1> DEFINE d == q - p
<1>1. d \in Nat /\ q = p + d
    OBVIOUS
<1> HIDE DEF d
<1>2. (p + d) * b = p * b + d * b /\ p * b \in Nat /\ d * b \in Nat
    BY <1>1
<1> QED
    BY <1>1, <1>2

\* Wherever the reads cut the text, the last of them tells whether the word is in it: the
\* reads before it have found it, unless its beginning was kept.
LEMMA SearchDecides ==
    ASSUME InTurn, Readable, NEW text \in CAPA_TEXTS, NEW q \in Nat,
           q * BUFF_SIZE < Len(text), Len(text) <= q * BUFF_SIZE + BUFF_SIZE
    PROVE  FindPipelining(SearchedIn(text, q * BUFF_SIZE, Len(text) - q * BUFF_SIZE))
                = IF Announces(text) THEN "TRUE" ELSE "FALSE"
<1> DEFINE B == BUFF_SIZE
           n == q * B
           L == Len(text)
           w == SearchedIn(text, n, L - n)
           P == Len(PIPELINING)
           R == Range(text) \cup {"CR", "LF"} \cup Range(PIPELINING)
           S == {i \in LineStarts(text) : Says(text, i, PIPELINING)}
<1>13. DOMAIN text = 1 .. Len(text)
    BY Pop3SessionAssumption
<1>1. /\ B \in Nat \ {0} /\ BUFFER_END \in 1 .. B /\ n \in Nat /\ L \in Nat /\ L - n \in Nat \ {0}
      /\ n + (L - n) = L /\ n < L /\ text \in Seq(Range(text))
    <2>1. text \in Seq(Range(text))
        BY Pop3SessionAssumption
    <2>2. B \in Nat \ {0} /\ BUFFER_END \in 1 .. B /\ n \in Nat /\ L \in Nat /\ n < L
        BY <2>1, Sizes
    <2> HIDE DEF n, L, B
    <2> QED
        BY <2>1, <2>2
<1>12. n = q * B /\ B = BUFF_SIZE /\ L = Len(text)
    OBVIOUS
<1> HIDE DEF B, n, L
<1>2. PIPELINING \in Seq(Range(PIPELINING)) /\ PIPELINING # <<>> /\ P \in Nat \ {0} /\ P <= BUFFER_END
    <2>1. PIPELINING \in Seq(Range(PIPELINING)) /\ PIPELINING # <<>>
        BY Pop3SessionAssumption
    <2> QED
        BY <2>1, EmptySeq DEF Readable
<1> HIDE DEF P
<1>3. S \subseteq 1 .. L /\ DOMAIN text = 1 .. L
    <2>1. DOMAIN text = 1 .. L
        BY <1>12, <1>13
    <2> QED
        BY <2>1 DEF LineStarts
<1>4. Announces(text) <=> S # {}
    <2> DEFINE U == Range(text) \cup Range(PIPELINING)
    <2>0. Range(text) \subseteq U /\ Range(PIPELINING) \subseteq U
        OBVIOUS
    <2>1. text \in Seq(U) /\ PIPELINING \in Seq(U)
        <3> DEFINE U1 == Range(text)
                   U2 == Range(PIPELINING)
        <3>1. text \in Seq(U1) /\ U1 \subseteq U /\ PIPELINING \in Seq(U2) /\ U2 \subseteq U
            BY <1>1, <1>2, <2>0
        <3> HIDE DEF U, U1, U2
        <3> QED
            BY <3>1
    <2> HIDE DEF U
    <2>2. \A i \in LineStarts(text) : IsPrefix(PIPELINING, SubSeq(text, i, Len(text))) <=> Says(text, i, PIPELINING)
        <3>1. \A i \in LineStarts(text) : i \in 1 .. Len(text)
            BY <1>3, <1>12 DEF LineStarts
        <3> QED
            BY <1>2, <2>1, <3>1, SaysIs
    <2> QED
        BY <1>12, <2>2 DEF Announces
<1>5. \A k \in Nat, m \in Nat \ {0} : k * B + m <= L => SearchedIn(text, k * B, m) \in Seq(R)
    <2> SUFFICES ASSUME NEW k \in Nat, NEW m \in Nat \ {0}, k * B + m <= L
                 PROVE  SearchedIn(text, k * B, m) \in Seq(R)
        OBVIOUS
    <2> DEFINE nk == k * B
    <2>1. nk \in Nat /\ (nk = 0 \/ nk >= BUFFER_END)
        <3>1. 0 * B = 0 /\ 1 * B = B /\ nk \in Nat
            BY <1>1
        <3>2. CASE k = 0
            BY <3>1, <3>2
        <3>3. CASE 1 <= k
            <4>1. 1 * B <= nk
                BY <1>1, <3>3, Multiples
            <4> HIDE DEF nk
            <4> QED
                BY <1>1, <3>1, <4>1
        <3> QED
            BY <3>1, <3>2, <3>3
    <2> HIDE DEF nk
    <2>2. SearchedIn(text, nk, m) \in Seq(Range(text))
        <3>1. nk + m <= Len(text)
            BY <1>12 DEF nk
        <3> QED
            BY <2>1, <3>1, WindowIs
    <2>3. \A x \in Seq(Range(text)) : x \in Seq(R)
        OBVIOUS
    <2> QED
        BY <2>2, <2>3 DEF nk
<1>6. {"CR", "LF"} \cup Range(PIPELINING) \subseteq R
    OBVIOUS
<1> HIDE DEF R
<1>7. w \in Seq(R)
    <2> DEFINE m == L - n
    <2>3. n + m <= L /\ m \in Nat \ {0}
        BY <1>1
    <2> HIDE DEF m
    <2>1. q * B + m <= L /\ m \in Nat \ {0} /\ q \in Nat
        BY <1>12, <2>3, Zenon
    <2>2. SearchedIn(text, q * B, m) \in Seq(R)
        BY <1>5, <2>1
    <2> QED
        BY <1>12, <2>2 DEF m
<1>8. /\ \A j \in LineStarts(w) : ~Says(w, j, EmptyLine)
      /\ \A j \in LineStarts(w) : Says(w, j, PIPELINING) => S # {}
      /\ \A i \in S : i > First(n) /\ i + P - 1 <= L => \E j \in LineStarts(w) : Says(w, j, PIPELINING)
    <2> DEFINE m == L - n
    <2>3. m \in Nat \ {0} /\ n + m <= L /\ n + m = L
        BY <1>1
    <2> HIDE DEF m
    <2>1. m \in Nat \ {0} /\ q * B + m <= Len(text) /\ n + m = L
        BY <1>12, <2>3, Zenon
    <2>2. LET v == SearchedIn(text, n, m) IN
          /\ \A j \in LineStarts(v) : ~Says(v, j, EmptyLine)
          /\ \A j \in LineStarts(v) : Says(v, j, PIPELINING) =>
                \E i \in LineStarts(text) : Says(text, i, PIPELINING)
          /\ \A i \in LineStarts(text) :
                i > First(n) /\ i + P - 1 <= n + m /\ Says(text, i, PIPELINING) =>
                    \E j \in LineStarts(v) : Says(v, j, PIPELINING)
        BY <1>12, <2>1, WindowSays DEF P
    <2> QED
        BY <2>1, <2>2 DEF m
<1>9. /\ (\E j \in LineStarts(w) : Says(w, j, PIPELINING)) => FindPipelining(w) = "TRUE"
      /\ (\A j \in LineStarts(w) : ~Says(w, j, PIPELINING)) => FindPipelining(w) = "FALSE"
    <2> HIDE DEF w
    <2> QED
        BY <1>6, <1>7, <1>8, FindIs
<1>10. ASSUME S = {} PROVE FindPipelining(w) = "FALSE"
    BY <1>8, <1>9, <1>10
<1>11. ASSUME S # {} PROVE FindPipelining(w) = "TRUE"
    <2>1. PICK i \in S : TRUE
        BY <1>11
    <2>2. i \in LineStarts(text) /\ Says(text, i, PIPELINING) /\ i \in 1 .. L /\ i + P - 1 <= L
        BY <1>3, <2>1 DEF Says, P, L
    <2>3. CASE i > First(n)
        BY <1>8, <1>9, <2>1, <2>2, <2>3
    <2>4. CASE ~(i > First(n))
        <3> DEFINE e == i + P - 1
                   T == {p \in Nat : e <= (p + 1) * B}
        <3>1. n # 0 /\ First(n) = n - BUFFER_END /\ q # 0
            <4>1. n # 0 /\ First(n) = n - BUFFER_END
                BY <1>1, <2>2, <2>4 DEF First
            <4>2. 0 * B = 0
                BY <1>1
            <4> QED
                BY <1>12, <4>1, <4>2
        <3>2. e \in Nat /\ e <= n
            BY <1>1, <1>2, <2>2, <2>4, <3>1
        <3> HIDE DEF e
        <3>3. q - 1 \in T
            <4>1. q - 1 \in Nat /\ (q - 1) + 1 = q
                BY <3>1
            <4>2. ((q - 1) + 1) * B = n
                BY <1>12, <4>1, Zenon
            <4> QED
                BY <3>2, <4>1, <4>2
        <3>4. PICK p \in T : \A x \in T : p <= x
            <4>1. T \in SUBSET Nat /\ T # {}
                BY <3>3
            <4> HIDE DEF T
            <4> QED
                BY <4>1, FirstOfSome
        <3>5. p \in Nat /\ e <= (p + 1) * B /\ p <= q - 1 /\ p + 1 <= q
            <4>1. p \in Nat /\ e <= (p + 1) * B /\ p <= q - 1
                BY <3>3, <3>4, Zenon
            <4>2. p + 1 <= q
                BY <4>1
            <4> QED
                BY <4>1, <4>2
        <3> DEFINE f == p * B
        <3>6. f \in Nat /\ (p + 1) * B = f + B
            BY <1>1, <3>5
        <3>7. f + B <= n
            <4>1. (p + 1) * B <= n
                <5>1. p + 1 \in Nat /\ B \in Nat
                    BY <1>1, <3>5
                <5>2. (p + 1) * B <= q * B
                    BY <3>5, <5>1, Multiples
                <5> QED
                    BY <1>12, <5>2, Zenon
            <4> QED
                BY <3>6, <4>1, Zenon
        <3>8. f = 0 \/ e > f
            <4>1. CASE p = 0
                <5>1. 0 * B = 0
                    BY <1>1
                <5> QED
                    BY <4>1, <5>1
            <4>2. CASE p # 0
                <5>1. p - 1 \in Nat /\ (p - 1) + 1 = p /\ ~(p <= p - 1)
                    BY <3>5, <4>2
                <5>2. p - 1 \notin T
                    BY <3>4, <5>1
                <5>3. ~(e <= ((p - 1) + 1) * B)
                    BY <5>1, <5>2
                <5>4. ~(e <= f)
                    BY <5>1, <5>3, Zenon
                <5> HIDE DEF f
                <5> QED
                    BY <3>2, <3>6, <5>4
            <4> QED
                BY <4>1, <4>2
        <3> HIDE DEF T
        <3> DEFINE v == SearchedIn(text, f, B)
        <3>9. i > First(f) /\ i + P - 1 <= f + B
            <4>1. e <= f + B
                BY <3>5, <3>6, Zenon
            <4>2. First(f) = IF f = 0 THEN 0 ELSE f - BUFFER_END
                BY DEF First
            <4> HIDE DEF f
            <4> QED
                BY <1>1, <1>2, <2>2, <3>6, <3>8, <4>1, <4>2 DEF e
        <3>10. \E j \in LineStarts(v) : Says(v, j, PIPELINING)
            <4>1. p * BUFF_SIZE + B <= Len(text) /\ p \in Nat /\ B \in Nat \ {0}
                <5>1. f + B <= L
                    <6> HIDE DEF f
                    <6> QED
                        BY <1>1, <3>6, <3>7
                <5> QED
                    BY <1>1, <1>12, <3>5, <5>1
            <4>2. LET u == SearchedIn(text, p * BUFF_SIZE, B) IN
                  \A j \in LineStarts(text) :
                    j > First(p * BUFF_SIZE) /\ j + Len(PIPELINING) - 1 <= p * BUFF_SIZE + B
                        /\ Says(text, j, PIPELINING) =>
                            \E k \in LineStarts(u) : Says(u, k, PIPELINING)
                BY <4>1, WindowSays
            <4> QED
                BY <1>12, <2>2, <3>9, <4>2, Zenon DEF P
        <3>11. FindPipelining(v) = "FALSE"
            <4>1. (p + 1) * BUFF_SIZE < Len(text)
                <5>1. f + B < L
                    <6> HIDE DEF f
                    <6> QED
                        BY <1>1, <3>6, <3>7
                <5> QED
                    BY <1>12, <3>6, <5>1, Zenon
            <4>2. FindPipelining(SearchedIn(text, p * BUFF_SIZE, BUFF_SIZE)) = "FALSE"
                <5>1. Len(text) \in Nat
                    BY <1>1, <1>12
                <5>2. p \in Reads(text)
                    BY <3>5, <4>1, <5>1, ReadOf
                <5> QED
                    BY <3>5, <4>1, <5>2, Zenon DEF InTurn
            <4> QED
                BY <1>12, <4>2, Zenon
        <3>12. v \in Seq(R)
            <4>1. p * B + B <= L
                <5> HIDE DEF f
                <5>1. f + B <= L
                    BY <1>1, <3>6, <3>7
                <5> QED
                    BY <5>1 DEF f
            <4> QED
                BY <1>1, <1>5, <3>5, <4>1
        <3> HIDE DEF v
        <3>13. \A j \in LineStarts(v) : ~Says(v, j, PIPELINING)
            BY <1>6, <3>11, <3>12, FindIs
        <3> QED
            BY <3>10, <3>13
    <2> QED
        BY <2>3, <2>4
<1> QED
    BY <1>4, <1>10, <1>11 DEF w, n, L, B

\* The last read takes all that is left of the text, and nothing else.
LEMMA ReadsLast ==
    ASSUME TypeOK, InTurn, NEW q \in Nat, Telling(q), NoBye(o2p),
           ~(q * BUFF_SIZE + BUFF_SIZE < Len(capaText))
    PROVE  /\ q * BUFF_SIZE < Len(capaText) /\ Len(capaText) <= q * BUFF_SIZE + BUFF_SIZE
           /\ Take(o2p, BUFF_SIZE) = o2p /\ Len(o2p) <= BUFF_SIZE
           /\ Searched(o2p) = SearchedIn(capaText, q * BUFF_SIZE, Len(capaText) - q * BUFF_SIZE)
<1> DEFINE B    == BUFF_SIZE
           from == q * BUFF_SIZE
           L    == Len(capaText)
           T    == Len(o2p)
<1>1. B \in Nat \ {0} /\ from \in Nat
    BY Sizes
<1>2. /\ capaText \in CAPA_TEXTS /\ L \in Nat /\ o2p \in Seq(Tokens) /\ T \in Nat
      /\ capaText \in Seq(Range(capaText)) /\ DOMAIN capaText = 1 .. L
    <2>1. capaText \in CAPA_TEXTS
        BY DEF TypeOK
    <2>2. capaText \in Seq(Range(capaText))
        BY <2>1, Pop3SessionAssumption
    <2>3. L \in Nat /\ DOMAIN capaText = 1 .. L
        BY <2>2
    <2> QED
        BY <2>1, <2>2, <2>3, OnTheWay
<1>3. CapaFrom(o2p, capaText, from) /\ previousEnd = Kept(capaText, from)
    BY DEF Telling
<1>4. ~(from + B < L)
    BY Zenon
<1> HIDE DEF from, B
<1>5. /\ from \in 0 .. L - 1 /\ L - from <= T
      /\ \A i \in 1 .. L - from : o2p[i].to = CAPA /\ o2p[i].text = capaText[from + i]
      /\ \A i \in L - from + 1 .. T : o2p[i].to = BYE
    BY <1>3 DEF CapaFrom
<1>6. \A i \in 1 .. T : o2p[i].to # BYE
    BY DEF NoBye
<1> HIDE DEF L, T
<1> DEFINE R == L - from
<1>7. R \in Nat \ {0} /\ from < L /\ R <= B /\ L <= from + B /\ from + R = L
    BY <1>1, <1>2, <1>4, <1>5
<1>8. T = R
    <2> SUFFICES ASSUME T # R PROVE FALSE
        OBVIOUS
    <2>1. T \in R + 1 .. T /\ T \in 1 .. T
        BY <1>2, <1>5, <1>7
    <2> QED
        BY <1>5, <1>6, <2>1
<1>9. Take(o2p, B) = o2p
    <2>1. B \in Nat /\ B >= Len(o2p)
        BY <1>1, <1>7, <1>8 DEF T
    <2> QED
        BY <1>2, <2>1, ReadWhole
<1>10. Text(o2p) = SubSeq(capaText, from + 1, from + R)
    <2> DEFINE first == from + 1
               last  == from + R
               v == SubSeq(capaText, first, last)
    <2>1. first \in Int /\ last \in Int /\ first <= last /\ last - first + 1 = R
          /\ (\A i \in first .. last : capaText[i] \in Range(capaText))
          /\ (\A i \in 1 .. R : first + i - 1 = from + i)
        <3>1. \A i \in 1 .. L : capaText[i] \in Range(capaText)
            BY <1>2 DEF Range
        <3> QED
            BY <1>1, <1>2, <1>7, <3>1
    <2> HIDE DEF first, last, R
    <2>2. /\ v \in Seq(Range(capaText)) /\ Len(v) = IF first <= last THEN last - first + 1 ELSE 0
          /\ \A i \in 1 .. last - first + 1 : v[i] = capaText[first + i - 1]
        BY <2>1, SubSeqProperties
    <2> HIDE DEF v
    <2>3. DOMAIN v = 1 .. R /\ v = [i \in 1 .. R |-> v[i]] /\ \A i \in 1 .. R : v[i] = capaText[from + i]
        BY <2>1, <2>2
    <2>4. DOMAIN o2p = 1 .. R
        BY <1>2, <1>8 DEF T
    <2>5. \A i \in 1 .. R : o2p[i].text = v[i]
        BY <1>5, <2>3 DEF R
    <2>6. [i \in 1 .. R |-> o2p[i].text] = [i \in 1 .. R |-> v[i]]
        BY <2>5
    <2>7. Text(o2p) = v
        BY <2>3, <2>4, <2>6, Zenon DEF Text
    <2> QED
        BY <2>7 DEF v, first, last
<1>11. Searched(o2p) = SearchedIn(capaText, from, R)
    BY <1>3, <1>10, Zenon DEF Searched, SearchedIn
<1>12. T <= B
    BY <1>7, <1>8
<1> QED
    BY <1>7, <1>9, <1>11, <1>12 DEF from, B, L, T

\* When pipeliningSupport has decided, it has decided what the capabilities say.
LEMMA Decides ==
    ASSUME TypeOK, Orderly, InTurn, Readable, DialogueInv, PipeliningSupport, pc' # "capa", ~dismissed
    PROVE  IF Announces(capaText) THEN pc' = "forward" ELSE pc' = "closed"
<1>1. pc = "capa" /\ o2p # <<>>
    BY DEF PipeliningSupport
<1>2. PICK m \in Nat : Open(m)
    BY <1>1 DEF DialogueInv
<1>3. c2p # <<>> \/ clientClosed
    BY <1>1, <1>2 DEF Open, Turn
<1>4. m = 0 /\ ~Replying
    BY <1>1, <1>2, <1>3, Waited
<1>5. ~Going(0) /\ NoBye(o2p)
    BY <1>1, <1>2, Silence DEF Open, Probe
<1>6. PICK q \in Nat : Telling(q)
    BY <1>1, <1>2, <1>4, <1>5 DEF Open, Stage, Probing, AskedCapa
<1>7. ~(q * BUFF_SIZE + BUFF_SIZE < Len(capaText))
    BY <1>6, ReadsOn
<1>8. /\ q * BUFF_SIZE < Len(capaText) /\ Len(capaText) <= q * BUFF_SIZE + BUFF_SIZE
      /\ Take(o2p, BUFF_SIZE) = o2p /\ Len(o2p) <= BUFF_SIZE
      /\ Searched(o2p) = SearchedIn(capaText, q * BUFF_SIZE, Len(capaText) - q * BUFF_SIZE)
    BY <1>5, <1>6, <1>7, ReadsLast
<1>9. FindPipelining(Searched(o2p)) = IF Announces(capaText) THEN "TRUE" ELSE "FALSE"
    <2>1. capaText \in CAPA_TEXTS
        BY DEF TypeOK
    <2>2. FindPipelining(SearchedIn(capaText, q * BUFF_SIZE, Len(capaText) - q * BUFF_SIZE))
                = IF Announces(capaText) THEN "TRUE" ELSE "FALSE"
        BY <1>8, <2>1, SearchDecides
    <2> QED
        BY <1>8, <2>2, Zenon
<1> DEFINE found == FindPipelining(Searched(o2p))
           full  == Len(o2p) = BUFF_SIZE
           yes   == found = "TRUE" \/ (found = "NOT_SUPPORTED" /\ (full => previousEnd = <<>>))
           again == found = "FALSE" /\ full
<1>10. \/ (yes \/ again) /\ pc' = IF yes THEN "forward" ELSE "capa"
       \/ ~yes /\ ~again /\ pc' = "closed"
    <2>1. \/ (yes \/ again) /\ pc' = IF yes THEN "forward" ELSE "capa"
          \/ ~yes /\ ~again /\ CloseAll
        BY <1>8, Zenon DEF PipeliningSupport
    <2> HIDE DEF yes, again
    <2> QED
        BY <2>1 DEF CloseAll
<1>11. CASE Announces(capaText)
    <2>1. found = "TRUE"
        BY <1>9, <1>11
    <2> HIDE DEF found, full
    <2> QED
        BY <1>10, <1>11, <2>1
<1>12. CASE ~Announces(capaText)
    <2>1. found = "FALSE"
        BY <1>9, <1>12
    <2> HIDE DEF found, full
    <2>2. ~yes
        BY <2>1
    <2> HIDE DEF yes, again
    <2> QED
        BY <1>10, <1>12, <2>2
<1> QED
    BY <1>11, <1>12

\* Wherever the reads cut the reply to CAPA, pipeliningSupport decides what it says, and of
\* nothing else that is on its way.
THEOREM VerdictHolds ==
    ASSUME InTurn, Readable
    PROVE  Spec => VerdictIsCapabilities
<1> DEFINE Verdict == pc = "capa" /\ pc' # "capa" /\ ~dismissed => (pc' = "forward" <=> Announces(capaText))
<1>1. TypeOK /\ Orderly /\ DialogueInv /\ [Next]_vars => [Verdict]_vars
    <2> SUFFICES ASSUME TypeOK, Orderly, DialogueInv, [Next]_vars, pc = "capa", pc' # "capa", ~dismissed
                 PROVE  pc' = "forward" <=> Announces(capaText)
        OBVIOUS
    <2>1. PipeliningSupport
        <3>1. ~UNCHANGED vars
            BY DEF vars, proxy
        <3>2. ~PeerStep
            BY NoReset DEF PeerStep, ClientSends, ClientReceives, ClientCloses, OriginTakes, OriginDismisses,
                   OriginWrites, FilterRuns, proxy
        <3> QED
            BY <3>1, <3>2, NoReset DEF Next, ProxyStep, Greet, Select, AttendClient, ReadFromClient,
                              WriteToOrigin, ReadFromOrigin, ReadFromFilter
    <2> QED
        BY <2>1, Decides
<1>2. Spec => [][Verdict]_vars
    <2>1. Init => DialogueInv
        BY DialogueInit
    <2>2. TypeOK /\ Orderly /\ DialogueInv /\ [Next]_vars => DialogueInv'
        BY DialogueStep
    <2>3. Spec => [](TypeOK /\ Orderly)
        BY Ordered
    <2> QED
        BY <1>1, <2>1, <2>2, <2>3, PTL DEF Spec
<1> QED
    BY <1>2 DEF VerdictIsCapabilities

-----------------------------------------------------------------------------
(* What ends a session.                                                    *)

\* The tokens are what some reads have left of a reply, or begin one of capabilities.
RestOf(s, text, q) ==
    /\ q * BUFF_SIZE < Len(text) /\ Len(s) = Len(text) - q * BUFF_SIZE
    /\ \A i \in 1 .. Len(s) : s[i].text = text[q * BUFF_SIZE + i]

IsRest(s) ==
    \/ s = <<>> \/ s[1].to = CAPA
    \/ \E text \in REPLIES \cup {<<"LF">>} : \E q \in Nat : RestOf(s, text, q)

RestInv == ~dismissed => IsRest(o2p) /\ IsRest(pending)

LEMMA TextLength ==
    ASSUME NEW text \in REPLIES \cup {<<"LF">>}
    PROVE  text \in Seq(Range(text)) /\ Len(text) \in Nat \ {0} /\ DOMAIN text = 1 .. Len(text)
<1>1. CASE text \in REPLIES
    <2>1. text \in Seq(Range(text)) /\ text # <<>>
        BY <1>1, Pop3SessionAssumption
    <2> QED
        BY <2>1, EmptySeq
<1>2. CASE text = <<"LF">>
    <2>1. 1 \in DOMAIN <<"LF">> /\ <<"LF">>[1] = "LF"
        OBVIOUS
    <2>2. "LF" \in Range(<<"LF">>)
        BY <2>1, Zenon DEF Range
    <2>3. <<"LF">> \in Seq(Range(<<"LF">>)) /\ Len(<<"LF">>) = 1
        BY <2>2
    <2> QED
        BY <1>2, <2>3
<1> QED
    BY <1>1, <1>2

LEMMA RestDrops ==
    ASSUME NEW s \in Seq(Tokens), s # <<>>, s[1].to # CAPA, IsRest(s), NEW k \in Nat
    PROVE  IsRest(Drop(s, k * BUFF_SIZE))
<1> DEFINE n == k * BUFF_SIZE
           d == Drop(s, n)
           t == Take(s, n)
<1>1. PICK text \in REPLIES \cup {<<"LF">>}, q \in Nat : RestOf(s, text, q)
    BY DEF IsRest
<1> DEFINE f == q * BUFF_SIZE
           L == Len(text)
<1>2. n \in Nat /\ f \in Nat /\ (q + k) * BUFF_SIZE = f + n /\ q + k \in Nat
    BY Sizes
<1>3. L \in Nat
    BY TextLength
<1>4. f < L /\ Len(s) = L - f /\ \A i \in 1 .. Len(s) : s[i].text = text[f + i]
    BY <1>1 DEF RestOf
<1> HIDE DEF n, f, L
<1>5. /\ t \in Seq(Tokens) /\ d \in Seq(Tokens) /\ t \o d = s
      /\ Len(t) \in Nat /\ Len(d) \in Nat /\ Len(s) = Len(t) + Len(d)
      /\ n < Len(s) => Len(t) = n
      /\ n >= Len(s) => d = <<>>
    BY <1>2, ReadWhole
<1>6. Len(s) \in Nat
    OBVIOUS
<1> HIDE DEF d, t
<1>7. CASE n >= Len(s)
    BY <1>5, <1>7 DEF IsRest, d, n
<1>8. CASE n < Len(s)
    <2>1. /\ Len(t) = n /\ Len(d) = L - (f + n) /\ f + n < L
        <3>1. Len(t) = n
            BY <1>5, <1>8
        <3>2. /\ Len(d) \in Int /\ Len(s) = n + Len(d) /\ Len(s) = L - f /\ n < Len(s)
              /\ n \in Int /\ f \in Int /\ L \in Int /\ Len(s) \in Int
            <4>1. Len(s) = Len(t) + Len(d)
                BY <1>5
            <4>2. Len(s) = n + Len(d)
                BY <3>1, <4>1
            <4>3. Len(d) \in Int /\ n \in Int /\ f \in Int /\ L \in Int
                BY <1>2, <1>3, <1>5
            <4>4. Len(s) \in Int
                BY <1>6
            <4> QED
                BY <1>4, <1>8, <4>2, <4>3, <4>4
        <3> QED
            BY ONLY <3>1, <3>2
    <2>2. \A i \in 1 .. Len(d) : (t \o d)[n + i] = d[i]
        <3>1. t \in Seq(Tokens) /\ d \in Seq(Tokens)
            BY <1>5
        <3>2. \A i \in 1 .. Len(d) : (t \o d)[Len(t) + i] = d[i]
            BY ONLY <3>1, Joined
        <3>3. Len(t) = n
            BY <2>1
        <3> QED
            BY ONLY <3>2, <3>3, Zenon
    <2>3. \A i \in 1 .. Len(d) : d[i].text = text[f + n + i]
        <3> SUFFICES ASSUME NEW i \in 1 .. Len(d) PROVE d[i].text = text[f + n + i]
            OBVIOUS
        <3>1. n + i \in 1 .. Len(s) /\ f + (n + i) = f + n + i
            BY <1>2, <1>5, <2>1
        <3>2. s[n + i] = d[i]
            BY <1>5, <2>2
        <3> QED
            BY <1>4, <3>1, <3>2
    <2>4. RestOf(d, text, q + k)
        BY <1>2, <2>1, <2>3 DEF RestOf, L
    <2> QED
        BY <1>2, <2>4, Zenon DEF IsRest, d, n
<1> QED
    BY <1>2, <1>6, <1>7, <1>8

\* A read of it is none of the good-bye.
LEMMA RestIsCivil ==
    ASSUME Civil, NEW s \in Seq(Tokens), s # <<>>, s[1].to # CAPA, IsRest(s)
    PROVE  ~IsGoodbye(Take(s, BUFF_SIZE))
<1> DEFINE B == BUFF_SIZE
           t == Take(s, B)
<1>1. PICK text \in REPLIES \cup {<<"LF">>}, q \in Nat : RestOf(s, text, q)
    BY DEF IsRest
<1> DEFINE f == q * B
           L == Len(text)
           u == SubSeq(text, f + 1, L)
           N == IF B < L - f THEN B ELSE L - f
<1>2. B \in Nat \ {0} /\ f \in Nat
    BY Sizes
<1>3. L \in Nat /\ text \in Seq(Range(text)) /\ DOMAIN text = 1 .. L
    BY TextLength
<1>4. f < L /\ Len(s) = L - f /\ \A i \in 1 .. Len(s) : s[i].text = text[f + i]
    BY <1>1 DEF RestOf
<1>5. ~IsPrefix(Take(u, B), GOODBYE)
    <2>1. q * BUFF_SIZE < Len(text)
        BY <1>4
    <2>2. q \in Reads(text)
        BY <1>3, <2>1, ReadOf
    <2> QED
        BY <2>1, <2>2 DEF Civil
<1> HIDE DEF f, L, B
<1>6. /\ t \in Seq(Tokens) /\ Len(t) = N /\ \A i \in 1 .. N : t[i].text = text[f + i]
    <2>1. /\ t \in Seq(Tokens) /\ Len(t) = (IF B < Len(s) THEN B ELSE Len(s))
          /\ \A i \in 1 .. Len(t) : t[i] = s[i]
        BY <1>2, TakeDrop
    <2> HIDE DEF t
    <2>2. N \in Nat /\ N <= Len(s) /\ Len(s) \in Nat
        BY <1>2, <1>3, <1>4
    <2>3. Len(t) = N
        BY <1>4, <2>1
    <2> HIDE DEF N
    <2> QED
        BY <1>4, <2>1, <2>2, <2>3
<1>7. Len(u) = L - f /\ u \in Seq(Range(text)) /\ \A i \in 1 .. L - f : u[i] = text[f + i]
    <2> DEFINE first == f + 1
    <2>1. /\ first \in Int /\ L \in Int /\ first <= L /\ L - first + 1 = L - f
          /\ (\A i \in first .. L : text[i] \in Range(text))
          /\ \A i \in 1 .. L - f : first + i - 1 = f + i
        <3>1. \A i \in 1 .. L : text[i] \in Range(text)
            BY <1>3 DEF Range
        <3> QED
            BY <1>2, <1>3, <1>4, <3>1
    <2> HIDE DEF first
    <2>2. /\ SubSeq(text, first, L) \in Seq(Range(text))
          /\ Len(SubSeq(text, first, L)) = IF first <= L THEN L - first + 1 ELSE 0
          /\ \A i \in 1 .. L - first + 1 : SubSeq(text, first, L)[i] = text[first + i - 1]
        BY <2>1, SubSeqProperties
    <2> QED
        BY <2>1, <2>2 DEF first
<1> DEFINE v == Take(u, B)
<1>8. Len(v) = N /\ v \in Seq(Range(text)) /\ \A i \in 1 .. N : v[i] = text[f + i]
    <2> HIDE DEF u
    <2>1. /\ v \in Seq(Range(text)) /\ Len(v) = (IF B < Len(u) THEN B ELSE Len(u))
          /\ \A i \in 1 .. Len(v) : v[i] = u[i]
        BY <1>2, <1>7, TakeDrop
    <2> HIDE DEF v
    <2>2. N \in Nat /\ N <= L - f
        BY <1>2, <1>3, <1>4
    <2>3. Len(v) = N
        BY <1>7, <2>1
    <2> HIDE DEF N
    <2> QED
        BY <1>2, <1>3, <1>7, <2>1, <2>2, <2>3
<1> HIDE DEF t, v, N
<1>9. Text(t) = v
    <2>1. DOMAIN t = 1 .. N /\ v = [i \in 1 .. N |-> v[i]]
        BY <1>6, <1>8
    <2>2. [i \in 1 .. N |-> t[i].text] = [i \in 1 .. N |-> v[i]]
        BY <1>6, <1>8
    <2> QED
        BY <2>1, <2>2, Zenon DEF Text
<1> QED
    BY <1>5, <1>9 DEF IsGoodbye, t, v, B

LEMMA NoRest == IsRest(<<>>)
BY DEF IsRest

\* A reply, before anything of it has been read.
LEMMA ReplyIsRest ==
    ASSUME NEW s \in Seq(Tokens), NEW text \in REPLIES \cup {<<"LF">>}, Len(s) = Len(text),
           \A j \in 1 .. Len(text) : s[j].text = text[j]
    PROVE  IsRest(s)
<1>1. Len(text) \in Nat \ {0}
    BY TextLength
<1>2. 0 * BUFF_SIZE = 0 /\ 0 \in Nat
    BY Sizes
<1> DEFINE f == 0 * BUFF_SIZE
           L == Len(text)
<1>3. /\ f < L /\ Len(s) = L - f /\ \A i \in 1 .. Len(s) : s[i].text = text[f + i]
    <2>1. f = 0 /\ L \in Nat \ {0} /\ Len(s) = L
        BY <1>1, <1>2
    <2>2. \A j \in 1 .. L : s[j].text = text[j]
        OBVIOUS
    <2> HIDE DEF f, L
    <2>3. f < L /\ Len(s) = L - f /\ \A i \in 1 .. L : f + i = i
        BY <2>1
    <2> QED
        BY <2>1, <2>2, <2>3
<1>4. RestOf(s, text, 0)
    BY <1>3, Zenon DEF RestOf
<1> QED
    BY <1>2, <1>4, Zenon DEF IsRest

LEMMA RestInit ==
    ASSUME Init
    PROVE  RestInv
<1> DEFINE x == [n |-> 1, to |-> GREETING, text |-> "LF", last |-> TRUE]
<1>1. o2p = <<>> /\ pending = <<x>>
    BY DEF Init
<1>2. x.text = "LF"
    OBVIOUS
<1>3. TypeOK
    BY TypeInit
<1>4. pending \in Seq(Tokens)
    BY <1>3, OnTheWay
<1> HIDE DEF x
<1>5. Len(pending) = 1 /\ pending[1] = x /\ Len(<<"LF">>) = 1 /\ <<"LF">>[1] = "LF"
    BY <1>1
<1>6. \A j \in 1 .. Len(<<"LF">>) : j = 1
    BY <1>5
<1>7. \A j \in 1 .. Len(<<"LF">>) : pending[j].text = <<"LF">>[j]
    BY <1>2, <1>5, <1>6, Zenon
<1>8. <<"LF">> \in REPLIES \cup {<<"LF">>} /\ Len(pending) = Len(<<"LF">>)
    BY <1>5
<1>9. IsRest(pending)
    BY <1>4, <1>7, <1>8, ReplyIsRest
<1> QED
    BY <1>1, <1>9, NoRest DEF RestInv

\* What comes from the origin while a reply is going to the client is of that reply, or a
\* good-bye.
LEMMA NotCapa ==
    ASSUME TypeOK, NEW m \in Nat, Going(m), o2p # <<>>
    PROVE  o2p[1].to # CAPA
<1> DEFINE k == Answering(sent)
<1>1. flow \in Seq(Tokens) /\ o2p \in Seq(Tokens) /\ Part(flow \o o2p, k, m, TRUE)
      /\ Len(flow) \in Nat /\ sent \in Nat
    BY OnTheWay DEF Going
<1>2. 1 \in 1 .. Len(o2p)
    BY <1>1, Ends
<1>3. k # CAPA /\ BYE # CAPA
    BY <1>1 DEF Answering, CAPA, BYE, GREETING
<1> HIDE DEF k
<1>4. CASE m <= Len(flow)
    <2>1. Byes(o2p)
        BY <1>1, <1>4, PartSplits
    <2> QED
        BY <1>2, <1>3, <2>1 DEF Byes
<1>5. CASE m > Len(flow)
    <2>1. Part(o2p, k, m - Len(flow), TRUE)
        BY <1>1, <1>5, PartSplits
    <2>2. 1 \in 1 .. m - Len(flow)
        BY <1>1, <1>5
    <2>3. o2p[1].to = k
        BY <2>1, <2>2, Zenon DEF Part
    <2> QED
        BY <1>3, <2>3
<1> QED
    BY <1>1, <1>4, <1>5

\* To take away what was read is to take away what a read takes.
LEMMA ReadDrops ==
    ASSUME NEW s \in Seq(Tokens)
    PROVE  /\ \A n \in Nat : Drop(s, Len(Take(s, n))) = Drop(s, n)
           /\ Drop(s, Len(<<>>)) = s
<1>1. ASSUME NEW n \in Nat PROVE Drop(s, Len(Take(s, n))) = Drop(s, n)
    <2>1. Len(s) \in Nat /\ Len(Take(s, n)) = IF n < Len(s) THEN n ELSE Len(s)
        BY TakeDrop
    <2>2. CASE n < Len(s)
        BY <2>1, <2>2, Zenon
    <2>3. CASE ~(n < Len(s))
        <3>1. Len(Take(s, n)) = Len(s)
            BY <2>1, <2>3, Zenon
        <3>2. Len(s) >= Len(s) /\ n >= Len(s)
            BY <2>1, <2>3
        <3>3. Drop(s, Len(s)) = <<>> /\ Drop(s, n) = <<>>
            BY <2>1, <3>2, ReadWhole
        <3> QED
            BY <3>1, <3>3
    <2> QED
        BY <2>2, <2>3
<1>2. Drop(s, Len(<<>>)) = s
    <2>1. Len(<<>>) = 0 /\ 0 \in Nat
        OBVIOUS
    <2>2. /\ Drop(s, 0) \in Seq(Tokens) /\ Take(s, 0) \in Seq(Tokens) /\ Take(s, 0) \o Drop(s, 0) = s
          /\ Len(Take(s, 0)) = IF 0 < Len(s) THEN 0 ELSE Len(s)
        BY <2>1, ReadWhole, TakeDrop
    <2>3. Len(Take(s, 0)) = 0
        <3>1. Len(s) \in Nat
            OBVIOUS
        <3> QED
            BY <2>2, <3>1
    <2>4. Take(s, 0) = <<>>
        BY <2>2, <2>3, EmptySeq
    <2>5. <<>> \o Drop(s, 0) = Drop(s, 0)
        BY <2>2, ConcatEmptySeq
    <2> QED
        BY <2>1, <2>2, <2>4, <2>5, Zenon
<1> QED
    BY <1>1, <1>2

\* Greet and readFromOrigin read a part of a reply.
LEMMA RestRead ==
    ASSUME TypeOK, InTurn, DialogueInv, RestInv, ~dismissed,
           Greet \/ (ReadFromOrigin /\ "origin" \in ready)
    PROVE  o2p # <<>> /\ o2p[1].to # CAPA /\ o2p \in Seq(Tokens) /\ IsRest(o2p)
<1>1. o2p # <<>> /\ pc \in {"greet", "origins"}
    BY DEF Greet, ReadFromOrigin
<1>2. PICK m \in Nat : Open(m)
    BY <1>1 DEF DialogueInv
<1>3. Going(m)
    BY <1>1, <1>2 DEF Open, Stage, Replying, Probing
<1>4. o2p[1].to # CAPA
    BY <1>1, <1>3, NotCapa
<1> QED
    BY <1>1, <1>4, OnTheWay DEF RestInv

\* pipeliningSupport leaves capabilities, or nothing.
LEMMA RestProbed ==
    ASSUME TypeOK, Orderly, InTurn, DialogueInv, ~dismissed, PipeliningSupport
    PROVE  IsRest(o2p')
<1>1. pc = "capa" /\ o2p # <<>>
    BY DEF PipeliningSupport
<1>2. PICK m \in Nat : Open(m)
    BY <1>1 DEF DialogueInv
<1>3. c2p # <<>> \/ clientClosed
    BY <1>1, <1>2 DEF Open, Turn
<1>4. m = 0 /\ ~Replying
    BY <1>1, <1>2, <1>3, Waited
<1>5. ~Going(0) /\ NoBye(o2p)
    BY <1>1, <1>2, Silence DEF Open, Probe
<1>6. PICK q \in Nat : Telling(q)
    BY <1>1, <1>2, <1>4, <1>5 DEF Open, Stage, Probing, AskedCapa
<1> DEFINE B == BUFF_SIZE
           n == q * BUFF_SIZE
           d == Drop(o2p, B)
<1>7. /\ o2p \in Seq(Tokens) /\ B \in Nat \ {0} /\ d \in Seq(Tokens) /\ Len(capaText) \in Nat
      /\ Take(o2p, B) \in Seq(Tokens) /\ Take(o2p, B) \o d = o2p
    <2>1. o2p \in Seq(Tokens) /\ B \in Nat \ {0}
        BY OnTheWay, Sizes
    <2>2. capaText \in CAPA_TEXTS
        BY DEF TypeOK
    <2>3. Len(capaText) \in Nat
        BY <2>2, Pop3SessionAssumption
    <2>4. d \in Seq(Tokens) /\ Take(o2p, B) \in Seq(Tokens) /\ Take(o2p, B) \o d = o2p
        BY <2>1, ReadWhole
    <2> QED
        BY <2>1, <2>3, <2>4
<1>8. CASE n + B < Len(capaText)
    <2>1. o2p' = d
        BY <1>6, <1>8, ReadsOn
    <2>2. CapaFrom(o2p, capaText, n)
        BY <1>6 DEF Telling
    <2> HIDE DEF n
    <2>3. CapaFrom(d, capaText, n + B)
        BY <1>7, <1>8, <2>2, CapaRead
    <2> HIDE DEF d, B
    <2> DEFINE after == n + B
    <2>4. CapaFrom(d, capaText, after)
        BY <2>3
    <2> HIDE DEF after
    <2>5. d[1].to = CAPA
        BY <1>7, <2>4, CapaStarts
    <2> QED
        BY <2>1, <2>5 DEF IsRest
<1>9. CASE ~(n + B < Len(capaText))
    <2>1. Byes(d)
        BY <1>6, <1>9, ReadsAll
    <2>2. o2p' = d \/ o2p' = <<>>
        BY DEF PipeliningSupport, CloseAll
    <2> HIDE DEF d
    <2>3. NoBye(d)
        <3>1. /\ Take(o2p, B) \in Seq(Tokens) /\ d \in Seq(Tokens)
              /\ Take(o2p, B) \o d = o2p /\ NoBye(o2p)
            BY <1>5, <1>7
        <3> DEFINE t == Take(o2p, B)
        <3>2. t \in Seq(Tokens) /\ NoBye(t \o d)
            BY <3>1, Zenon
        <3> HIDE DEF t
        <3> QED
            BY <3>1, <3>2, ByesJoin, Zenon
    <2>4. d = <<>>
        BY <1>7, <2>1, <2>3, ByesArePart
    <2> QED
        BY <2>2, <2>4, NoRest
<1> QED
    BY <1>8, <1>9

\* What the origin writes, it writes whole.
LEMMA RestWritten ==
    ASSUME TypeOK, InTurn, DialogueInv, ~dismissed, OriginWrites
    PROVE  o2p' = pending /\ pending' = <<>>
<1>1. pending # <<>> /\ pc # "closed"
    BY DEF OriginWrites
<1>2. PICK m \in Nat : Open(m)
    BY <1>1 DEF DialogueInv
<1>3. /\ pending \in Seq(Tokens) /\ Len(pending) \in Nat /\ SOCKET \in Nat /\ Len(GOODBYE) \in Nat
    BY OnTheWay, Sizes
<1>4. ~Byes(pending)
    BY <1>1, <1>2, <1>3, ByesArePart DEF Open, Probe
<1>5. Replying \/ AskedCapa
    BY <1>2, <1>4 DEF Open, Stage, Going, Probing, Telling
<1>6. o2p = <<>> /\ Len(pending) <= SOCKET
    <2>1. CASE Replying
        <3>1. Fits(Len(pending), SOCKET)
            BY <2>1 DEF Replying
        <3> QED
            BY <1>3, <2>1, <3>1, FitsBarely DEF Replying
    <2>2. CASE AskedCapa
        <3>1. capaText \in CAPA_TEXTS
            BY DEF TypeOK
        <3> QED
            BY <2>2, <3>1 DEF AskedCapa, InTurn
    <2> QED
        BY <1>5, <2>1, <2>2
<1>7. PICK n \in 1 .. Len(pending) :
            /\ WHOLE => n = Len(pending) \/ Len(o2p) + n = SOCKET
            /\ o2p' = o2p \o Take(pending, n) /\ pending' = Drop(pending, n)
            /\ n = Len(pending) => Take(pending, n) = pending /\ Drop(pending, n) = <<>>
    BY Written
<1>8. n = Len(pending)
    <2>1. n = Len(pending) \/ 0 + n = SOCKET
        <3>1. Len(<<>>) = 0 /\ WHOLE
            BY DEF InTurn
        <3> QED
            BY <1>6, <1>7, <3>1
    <2>2. n \in Nat /\ n <= Len(pending)
        BY <1>3
    <2> QED
        BY ONLY <1>3, <1>6, <2>1, <2>2
<1>9. <<>> \o pending = pending
    BY <1>3, ConcatEmptySeq
<1> QED
    BY <1>6, <1>7, <1>8, <1>9, Zenon

LEMMA RestStep ==
    ASSUME TypeOK, Orderly, InTurn, DialogueInv, RestInv, [Next]_vars
    PROVE  RestInv'
<1> SUFFICES ASSUME ~dismissed' PROVE IsRest(o2p') /\ IsRest(pending')
    BY DEF RestInv
<1>1. ~dismissed
    <2> SUFFICES ASSUME dismissed PROVE dismissed'
        OBVIOUS
    <2>1. CASE ProxyStep
        BY <2>1, NoReset DEF ProxyStep, Greet, Select, AttendClient, PipeliningSupport, ReadFromClient,
                    WriteToOrigin, ReadFromOrigin, ReadFromFilter, origin
    <2>2. CASE PeerStep
        BY <2>2, NoReset DEF PeerStep, ClientSends, ClientReceives, ClientCloses, OriginTakes, OriginDismisses,
                    OriginWrites, FilterRuns, origin
    <2>3. CASE UNCHANGED vars
        BY <2>3 DEF vars, origin
    <2> QED
        BY <2>1, <2>2, <2>3 DEF Next
<1>2. IsRest(o2p) /\ IsRest(pending)
    BY <1>1 DEF RestInv
<1>3. ASSUME UNCHANGED <<o2p, pending>> PROVE IsRest(o2p') /\ IsRest(pending')
    BY <1>2, <1>3, Zenon
<1>4. ASSUME o2p' = <<>>, pending' = pending PROVE IsRest(o2p') /\ IsRest(pending')
    BY <1>2, <1>4, NoRest, Zenon
<1>5. CASE Greet
    <2>1. o2p' = Drop(o2p, 2 * BUFF_SIZE) /\ pending' = pending
        BY <1>5 DEF Greet, origin
    <2>2. o2p # <<>> /\ o2p[1].to # CAPA /\ o2p \in Seq(Tokens) /\ 2 \in Nat
        BY <1>1, <1>5, RestRead
    <2>3. IsRest(Drop(o2p, 2 * BUFF_SIZE))
        BY <1>2, <2>2, RestDrops
    <2> QED
        BY <1>2, <2>1, <2>3, Zenon
<1>6. CASE ReadFromOrigin
    <2>1. pending' = pending
        BY <1>6 DEF ReadFromOrigin, origin
    <2>2. CASE CloseAll
        BY <1>4, <2>1, <2>2 DEF CloseAll
    <2>3. CASE ~CloseAll /\ "origin" \in ready
        <3>1. o2p # <<>> /\ o2p[1].to # CAPA /\ o2p \in Seq(Tokens) /\ 1 \in Nat
            BY <1>1, <1>6, <2>3, RestRead
        <3>2. o2p' = Drop(o2p, Len(Take(o2p, BUFF_SIZE)))
            BY <1>6, <2>3, Zenon DEF ReadFromOrigin
        <3>3. Drop(o2p, Len(Take(o2p, BUFF_SIZE))) = Drop(o2p, BUFF_SIZE)
            <4>1. BUFF_SIZE \in Nat
                BY Sizes
            <4> QED
                BY <3>1, <4>1, ReadDrops, Zenon
        <3>4. IsRest(Drop(o2p, 1 * BUFF_SIZE)) /\ 1 * BUFF_SIZE = BUFF_SIZE
            <4>1. 1 * BUFF_SIZE = BUFF_SIZE
                BY Sizes
            <4>2. IsRest(Drop(o2p, 1 * BUFF_SIZE))
                BY <1>2, <3>1, RestDrops, Zenon
            <4> QED
                BY <4>1, <4>2
        <3> QED
            BY <1>2, <2>1, <3>2, <3>3, <3>4, Zenon
    <2>4. CASE ~CloseAll /\ "origin" \notin ready
        <3>1. o2p' = Drop(o2p, Len(<<>>))
            BY <1>6, <2>4, Zenon DEF ReadFromOrigin
        <3>2. Drop(o2p, Len(<<>>)) = o2p
            BY OnTheWay, ReadDrops
        <3> QED
            BY <1>3, <2>1, <3>1, <3>2, Zenon
    <2> QED
        BY <2>2, <2>3, <2>4
<1>7. CASE PipeliningSupport
    <2>1. pending' = pending
        BY <1>7 DEF PipeliningSupport, origin
    <2> QED
        BY <1>1, <1>2, <1>7, <2>1, RestProbed
<1>8. CASE ReadFromClient
    <2>1. pending' = pending /\ (o2p' = o2p \/ o2p' = <<>>)
        BY <1>8 DEF ReadFromClient, CloseAll, origin
    <2> QED
        BY <1>3, <1>4, <2>1
<1>9. CASE OriginTakes
    <2>1. /\ p2o # <<>> /\ o2p' = o2p
          /\ \E text \in IF Head(p2o) = CAPA THEN {capaText} ELSE REPLIES : pending' = Reply(Head(p2o), text)
        BY <1>9 DEF OriginTakes
    <2>2. PICK text \in IF Head(p2o) = CAPA THEN {capaText} ELSE REPLIES : pending' = Reply(Head(p2o), text)
        BY <2>1
    <2>3. Head(p2o) \in 0 .. COMMANDS
        <3>1. p2o \in Seq(0 .. COMMANDS)
            BY TypesOfOne
        <3> QED
            BY <2>1, <3>1, Ends
    <2>4. Head(p2o) \in BYE .. COMMANDS
        BY <2>3, Sizes DEF BYE
    <2>5. text \in CAPA_TEXTS \cup REPLIES \cup {GOODBYE} /\ (Head(p2o) # CAPA => text \in REPLIES)
        BY <2>2 DEF TypeOK
    <2> DEFINE r == Reply(Head(p2o), text)
    <2>6. /\ r \in Seq(Tokens) /\ Len(r) = Len(text) /\ Len(text) \in Nat \ {0}
          /\ \A j \in 1 .. Len(text) : r[j].to = Head(p2o) /\ r[j].text = text[j]
        BY <2>4, <2>5, ReplyIs
    <2> HIDE DEF r
    <2>7. IsRest(r)
        <3>1. CASE Head(p2o) = CAPA
            <4>1. 1 \in 1 .. Len(text)
                BY <2>6
            <4>2. r[1].to = CAPA
                BY <2>6, <3>1, <4>1
            <4> QED
                BY <4>2 DEF IsRest
        <3>2. CASE Head(p2o) # CAPA
            <4>1. text \in REPLIES \cup {<<"LF">>}
                BY <2>5, <3>2
            <4> QED
                BY <2>6, <4>1, ReplyIsRest
        <3> QED
            BY <3>1, <3>2
    <2> QED
        BY <1>2, <2>1, <2>2, <2>7, Zenon DEF r
<1>10. CASE OriginDismisses
    BY <1>10 DEF OriginDismisses
<1>11. CASE OriginWrites
    <2>1. o2p' = pending /\ pending' = <<>>
        BY <1>1, <1>11, RestWritten
    <2> QED
        BY <1>2, <2>1, NoRest, Zenon
<1>12. CASE Select \/ AttendClient \/ WriteToOrigin \/ ReadFromFilter
    BY <1>3, <1>12 DEF Select, AttendClient, WriteToOrigin, ReadFromFilter, origin, channels
<1>13. CASE ClientSends \/ ClientReceives \/ ClientCloses \/ FilterRuns
    BY <1>3, <1>13 DEF ClientSends, ClientReceives, ClientCloses, FilterRuns, origin, channels
<1>14. CASE UNCHANGED vars
    BY <1>3, <1>14 DEF vars, origin, channels
<1> QED
    BY <1>5, <1>6, <1>7, <1>8, <1>9, <1>10, <1>11, <1>12, <1>13, <1>14, NoReset, Zenon DEF Next, ProxyStep, PeerStep

\* The proxy closes a session because the client did, because the origin says good-bye, or
\* because its capabilities do not have the word; no reply and no cut of one is taken for any.
THEOREM ClosedForAReasonHolds ==
    ASSUME InTurn, Readable, Civil
    PROVE  Spec => ClosedForAReason
<1> DEFINE Reason == pc # "closed" /\ pc' = "closed" =>
            clientClosed \/ ~Announces(capaText) \/ dismissed \/ reset # "no"
<1>1. TypeOK /\ Orderly /\ DialogueInv /\ RestInv /\ [Next]_vars => [Reason]_vars
    <2> SUFFICES ASSUME TypeOK, Orderly, DialogueInv, RestInv, [Next]_vars, pc # "closed", pc' = "closed",
                        ~clientClosed, ~dismissed
                 PROVE  ~Announces(capaText)
        OBVIOUS
    <2>1. PipeliningSupport \/ ReadFromOrigin
        <3>1. ~UNCHANGED vars
            BY DEF vars, proxy
        <3>2. ~PeerStep
            BY NoReset DEF PeerStep, ClientSends, ClientReceives, ClientCloses, OriginTakes, OriginDismisses,
                   OriginWrites, FilterRuns, proxy
        <3> QED
            BY <3>1, <3>2, NoReset DEF Next, ProxyStep, Greet, Select, AttendClient, ReadFromClient,
                              WriteToOrigin, ReadFromFilter
    <2>2. CASE PipeliningSupport
        BY <2>2, Decides
    <2>3. CASE ReadFromOrigin
        <3>1. "origin" \in ready /\ IsGoodbye(Take(o2p, BUFF_SIZE))
            BY <2>3, Zenon DEF ReadFromOrigin
        <3>2. o2p # <<>> /\ o2p[1].to # CAPA /\ o2p \in Seq(Tokens) /\ IsRest(o2p)
            BY <2>3, <3>1, RestRead
        <3> QED
            BY <3>1, <3>2, RestIsCivil
    <2> QED
        BY <2>1, <2>2, <2>3
<1>2. Spec => [][Reason]_vars
    <2>1. Init => DialogueInv /\ RestInv
        BY DialogueInit, RestInit
    <2>2. TypeOK /\ Orderly /\ DialogueInv /\ RestInv /\ [Next]_vars => DialogueInv' /\ RestInv'
        BY DialogueStep, RestStep
    <2>3. Spec => [](TypeOK /\ Orderly)
        BY Ordered
    <2> QED
        BY <1>1, <2>1, <2>2, <2>3, PTL DEF Spec
<1> QED
    BY <1>2 DEF ClosedForAReason
=============================================================================
