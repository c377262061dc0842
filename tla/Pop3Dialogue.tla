---------------------------- MODULE Pop3Dialogue ----------------------------
(***************************************************************************)
(* What a POP3 client that waits for every reply should see of the proxy:  *)
(* nothing.  It hears a greeting, and from then on the reply to each of    *)
(* its commands, in order and complete, as if it talked to the origin      *)
(* server itself.  The good-bye of a server that shuts down may come at    *)
(* any time between replies, whole or in part, and nothing comes after it. *)
(***************************************************************************)
EXTENDS Integers, Sequences

CONSTANT COMMANDS

VARIABLES
    sent,       \* commands the client has sent
    heard       \* what it has heard: pieces of replies

GREETING == -1
BYE      == -2

\* The reply that is complete in h, 0 for the greeting, or -1 before that.
Complete(h) ==
    IF \E i \in DOMAIN h : h[i].last /\ h[i].to # BYE
       THEN LET lasts == {i \in DOMAIN h : h[i].last /\ h[i].to # BYE}
                i == CHOOSE i \in lasts : \A j \in lasts : j <= i
            IN  IF h[i].to = GREETING THEN 0 ELSE h[i].to
       ELSE -1

Init == sent = 0 /\ heard = <<>>

\* The next command, once the reply to the one before it is complete.
Say ==
    /\ sent < COMMANDS /\ Complete(heard) = sent
    /\ sent' = sent + 1
    /\ UNCHANGED heard

Dismissed == \E i \in DOMAIN heard : heard[i].to = BYE

\* The next piece of the reply that is under way.
Hear ==
    /\ Complete(heard) < sent /\ ~Dismissed
    /\ \E last \in BOOLEAN :
        heard' = Append(heard, [to |-> IF sent = 0 THEN GREETING ELSE sent, last |-> last])
    /\ UNCHANGED sent

\* A piece of the good-bye, with no reply left half heard.
HearGoodbye ==
    /\ heard # <<>> /\ (heard[Len(heard)].last \/ Dismissed)
    /\ \E last \in BOOLEAN : heard' = Append(heard, [to |-> BYE, last |-> last])
    /\ UNCHANGED sent

Next == Say \/ Hear \/ HearGoodbye

Spec == Init /\ [][Next]_<<sent, heard>>

\* Every command is answered, to the last piece of its reply.
EveryCommandAnswered == \A k \in 1 .. COMMANDS : (sent = k) ~> (Complete(heard) = k)
=============================================================================
