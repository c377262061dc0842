---------------------------- MODULE AdminService ----------------------------
(***************************************************************************)
(* What the management protocol of Informe.pdf, pages 2 to 4, promises to  *)
(* the administrators: each asks for one thing at a time, what is asked is *)
(* done at one moment between the request and its answer, on settings that *)
(* all of them share, and the answer is that of the request.               *)
(***************************************************************************)
CONSTANTS
    ADMINS,         \* the administrators' consoles
    CONTENTS,       \* what they may say
    DIRECTORIES,    \* contents that are the name of a directory
    PASSWORD        \* the content that is the password

VARIABLES
    settings,       \* content of each option that can be set
    call            \* what each console has asked for, and how it went

vars == <<settings, call>>

Options == {"m", "M", "t", "e"}
Opcodes == Options \cup {"x", "z", "v", "f"}

Idle == [status |-> "idle"]

\* How a request ends.
Outcome(op, content) ==
    CASE op \in {"m", "M", "t"} -> "OK"
      [] op = "e" -> IF content \in DIRECTORIES THEN "OK" ELSE "ERROR"
      [] op = "x" -> IF content = PASSWORD THEN "OK" ELSE "ERROR"
      [] op = "z" -> "METRICS"
      [] op = "v" -> "VERSION"
      [] OTHER    -> "ERROR"

\* The content of a setting that nobody has set, on the command line neither.
Default == <<0>>

Init ==
    /\ settings \in [Options -> CONTENTS \cup {Default}]
    /\ call = [a \in ADMINS |-> Idle]

Call(a, op, content) ==
    /\ call[a] = Idle
    /\ call' = [call EXCEPT ![a] = [op |-> op, content |-> content, status |-> "asked"]]
    /\ UNCHANGED settings

Apply(a) ==
    /\ call[a].status = "asked"
    /\ LET op == call[a].op
           content == call[a].content
           status == Outcome(op, content)
       IN
       /\ call' = [call EXCEPT ![a].status = status]
       /\ settings' = IF op \in Options /\ status = "OK"
                         THEN [settings EXCEPT ![op] = content] ELSE settings

Return(a) ==
    /\ call[a].status \notin {"idle", "asked"}
    /\ call' = [call EXCEPT ![a] = Idle]
    /\ UNCHANGED settings

Next ==
    \E a \in ADMINS :
        \/ \E op \in Opcodes, content \in CONTENTS : Call(a, op, content)
        \/ Apply(a)
        \/ Return(a)

Spec == Init /\ [][Next]_vars

\* Whoever asks is answered.
EveryCallReturns == \A a \in ADMINS : call[a] # Idle ~> call[a] = Idle
=============================================================================
