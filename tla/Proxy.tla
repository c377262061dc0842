------------------------------- MODULE Proxy -------------------------------
(***************************************************************************)
(* The POP3 proxy of src/Proxy/proxy.c at the level of file descriptors:   *)
(* one process that runs selectLoop, the five parallel arrays that make a  *)
(* session out of a client socket, an origin socket and two pipe ends, the *)
(* flag and the counters of the Configuration, and the kernel's view of    *)
(* the same descriptors (which are open, what they are, what is readable). *)
(*                                                                         *)
(* The process is sequential, so `phase' and `slot' are its program        *)
(* counter; the peers act between any two of its steps.  A step that       *)
(* blocks in the code (a read or a write on a socket that was never made   *)
(* non-blocking) is a step that is not enabled here.                       *)
(*                                                                         *)
(* Not in this module: quitInvoked, which no path ever sets, because       *)
(* readFromClient (pop3parser.c 51-77) never returns QUITCOMMAND and the   *)
(* QUITCOMMAND of readFromOrigin is ignored; the bytes and their order     *)
(* (Pop3Session); the bytes of the management protocol (AdminWire).        *)
(***************************************************************************)
EXTENDS Integers, FiniteSets

CONSTANTS
    MAX_CLIENTS,    \* length of the session arrays (30 in the code)
    MAX_FD,         \* greatest descriptor the process may open
    MAX_ACCESSES,   \* bound: connections that ever reach the two ports
    MAX_HANGUPS,    \* bound: peers gone on their own at the same time
    VISITORS,       \* bound: who connects, clients or administrators or both
    QUITTERS        \* bound: the kinds of peers that go on their own

ASSUME ProxyAssumption ==
    /\ MAX_CLIENTS \in Nat \ {0}
    /\ MAX_FD \in Nat /\ MAX_FD >= 5
    /\ MAX_ACCESSES \in Nat /\ MAX_HANGUPS \in Nat

ASSUME PeersAssumption ==
    /\ VISITORS \subseteq {1, 2}      \* CLIENT and ADMIN
    /\ QUITTERS \subseteq {"client", "admin", "origin", "generic"}

VARIABLES
    phase,                  \* where selectLoop is
    slot,                   \* the index i of the loop it is in
    readfds,                \* the fd_set, as select left it
    newSocket,              \* the local of checkForNewClients, 0 elsewhere
    clientSockets, clientTypeArray, originServerSockets,
    filterOutputs, filterInputs,
    genericOriginServer,
    originServerIsActive, concurrentConnections, totalAccesses,
    kind,                   \* what each descriptor is, "closed" when free
    owner,                  \* the access that created the descriptor, 0 at start
    inbox,                  \* what a read on the descriptor would find
    hup,                    \* descriptors whose peer has gone
    backlog,                \* ports with a connection waiting in listen's queue
    originUp                \* is the origin server accepting connections

loop    == <<phase, slot, readfds, newSocket>>
arrays  == <<clientSockets, clientTypeArray, originServerSockets,
             filterOutputs, filterInputs>>
config  == <<originServerIsActive, concurrentConnections, totalAccesses>>
kernel  == <<kind, owner, inbox, hup>>
world   == <<backlog, originUp, genericOriginServer>>
vars    == <<loop, arrays, config, kernel, world>>

CLIENT == 1
ADMIN  == 2

Slots == 0 .. MAX_CLIENTS - 1
Fds   == 0 .. MAX_FD

\* Descriptors the process has before its loop starts.
popSocketFd    == 3
configSocketFd == 4
Base == 0 .. 5

Phases == {"select", "openness", "admin", "pop", "greet",
           "clients", "capa", "forward", "origins", "filters", "dead"}
Kinds  == {"closed", "std", "listen", "generic", "client", "admin",
           "origin", "filterOut", "filterIn", "leaked"}

\* "shutdown" is the good-bye of the origin, "reset" a pending ECONNRESET.
Inboxes == {"none", "data", "shutdown", "reset"}

Open == {f \in Fds : kind[f] # "closed"}
Free == Fds \ Open

\* POSIX hands out the lowest free descriptor: the n-th opened from here on, if
\* nothing is closed meanwhile, is the free one with n free ones below it.
Fresh(n) == {f \in Free : Cardinality({g \in Free : g < f}) = n}

Readable(f) ==
    \/ f = popSocketFd    /\ CLIENT \in backlog
    \/ f = configSocketFd /\ ADMIN \in backlog
    \/ inbox[f] # "none"
    \/ f \in hup

Descriptors(i) == {clientSockets[i], originServerSockets[i],
                   filterOutputs[i], filterInputs[i]}

\* What the loop of FD_SET puts in the set: positive entries only.  FD_SET(-1)
\* of an origin that was down at the start touches no bit below nfds.
Watched ==
    ({popSocketFd, configSocketFd, genericOriginServer}
        \cup UNION {{clientSockets[i], filterOutputs[i], originServerSockets[i]}
                        : i \in Slots}) \cap (1 .. MAX_FD)

-----------------------------------------------------------------------------
(* The start: main up to the call of selectLoop.                           *)

Init ==
    /\ originUp \in BOOLEAN
    /\ genericOriginServer = (IF originUp THEN 5 ELSE -1)
    /\ originServerIsActive = originUp
    /\ kind = [f \in Fds |-> IF f \in 0 .. 2 THEN "std"
                             ELSE IF f \in {popSocketFd, configSocketFd} THEN "listen"
                             ELSE IF f # 5 THEN "closed"
                             ELSE IF originUp THEN "generic" ELSE "leaked"]
    /\ owner = [f \in Fds |-> 0]
    /\ inbox = [f \in Fds |-> "none"]
    /\ hup = {}
    /\ backlog = {}
    /\ phase = "select" /\ slot = 0 /\ readfds = {} /\ newSocket = 0
    /\ clientSockets = [i \in Slots |-> 0]
    /\ clientTypeArray = [i \in Slots |-> 0]
    /\ originServerSockets = [i \in Slots |-> 0]
    /\ filterOutputs = [i \in Slots |-> 0]
    /\ filterInputs = [i \in Slots |-> 0]
    /\ concurrentConnections = 0
    /\ totalAccesses = 0

-----------------------------------------------------------------------------
(* Helpers of the steps.                                                   *)

GoTo(p) == phase' = p /\ slot' = 0 /\ UNCHANGED <<readfds, newSocket>>

\* Mutant: one slot too many.
NextSlotOffByOne(p, after) ==
    /\ IF slot + 1 <= MAX_CLIENTS
          THEN phase' = p     /\ slot' = slot + 1
          ELSE phase' = after /\ slot' = 0
    /\ UNCHANGED <<readfds, newSocket>>

\* The next index of a loop over the slots, or the phase after the loop.
NextSlot(p, after) ==
    /\ IF slot + 1 < MAX_CLIENTS
          THEN phase' = p     /\ slot' = slot + 1
          ELSE phase' = after /\ slot' = 0
    /\ UNCHANGED <<readfds, newSocket>>

\* exit(EXIT_FAILURE), or the SIGPIPE nobody handles.
Exit ==
    /\ phase' = "dead"
    /\ UNCHANGED <<slot, readfds, newSocket, arrays, config, kernel, world>>

\* The first write to a socket whose peer has gone may still succeed or
\* return an error; a later one raises SIGPIPE.
BrokenPipe(f) == f \in hup /\ Exit

\* close() of every descriptor of C, with the inboxes otherwise as in box.
Close(C, box) ==
    /\ kind'  = [f \in Fds |-> IF f \in C THEN "closed" ELSE kind[f]]
    /\ owner' = [f \in Fds |-> IF f \in C THEN 0 ELSE owner[f]]
    /\ inbox' = [f \in Fds |-> IF f \in C THEN "none" ELSE box[f]]
    /\ hup'   = hup \ C

\* Descriptors C become of the kinds given by k, for the current access.
Opens(k) ==
    /\ kind'  = [f \in Fds |-> IF f \in DOMAIN k THEN k[f] ELSE kind[f]]
    /\ owner' = [f \in Fds |-> IF f \in DOMAIN k THEN totalAccesses + 1
                                                 ELSE owner[f]]
    /\ UNCHANGED <<inbox, hup>>

\* A write of the proxy that some pipe of this model delivers; what goes to
\* a socket leaves the model.
Written(box, f) ==
    IF f \in Fds /\ kind[f] = "filterIn" THEN [box EXCEPT ![f] = "data"] ELSE box

\* Mutant: the entry of the origin connection survives its session.
CloseAllForgetsOrigin(i, box) ==
    /\ concurrentConnections' = concurrentConnections - 1
    /\ Close(Descriptors(i) \cap Fds, box)
    /\ clientSockets'   = [clientSockets   EXCEPT ![i] = 0]
    /\ filterOutputs'   = [filterOutputs   EXCEPT ![i] = 0]
    /\ filterInputs'    = [filterInputs    EXCEPT ![i] = 0]
    /\ clientTypeArray' = [clientTypeArray EXCEPT ![i] = 0]
    /\ UNCHANGED <<originServerSockets, originServerIsActive, totalAccesses>>

\* Mutant: the connection to the origin stays open.
CloseAllKeepsOrigin(i, box) ==
    /\ concurrentConnections' = concurrentConnections - 1
    /\ Close({clientSockets[i], filterOutputs[i], filterInputs[i]} \cap Fds, box)
    /\ clientSockets'       = [clientSockets       EXCEPT ![i] = 0]
    /\ originServerSockets' = [originServerSockets EXCEPT ![i] = 0]
    /\ filterOutputs'       = [filterOutputs       EXCEPT ![i] = 0]
    /\ filterInputs'        = [filterInputs        EXCEPT ![i] = 0]
    /\ clientTypeArray'     = [clientTypeArray     EXCEPT ![i] = 0]
    /\ UNCHANGED <<originServerIsActive, totalAccesses>>

\* Mutant: the pipes of the filter stay open.
CloseAllButPipes(i, box) ==
    /\ concurrentConnections' = concurrentConnections - 1
    /\ Close({clientSockets[i], originServerSockets[i]} \cap Fds, box)
    /\ clientSockets'       = [clientSockets       EXCEPT ![i] = 0]
    /\ originServerSockets' = [originServerSockets EXCEPT ![i] = 0]
    /\ filterOutputs'       = [filterOutputs       EXCEPT ![i] = 0]
    /\ filterInputs'        = [filterInputs        EXCEPT ![i] = 0]
    /\ clientTypeArray'     = [clientTypeArray     EXCEPT ![i] = 0]
    /\ UNCHANGED <<originServerIsActive, totalAccesses>>

CloseAll(i, box) ==
    /\ concurrentConnections' = concurrentConnections - 1
    /\ Close(Descriptors(i) \cap Fds, box)
    /\ clientSockets'       = [clientSockets       EXCEPT ![i] = 0]
    /\ originServerSockets' = [originServerSockets EXCEPT ![i] = 0]
    /\ filterOutputs'       = [filterOutputs       EXCEPT ![i] = 0]
    /\ filterInputs'        = [filterInputs        EXCEPT ![i] = 0]
    /\ clientTypeArray'     = [clientTypeArray     EXCEPT ![i] = 0]
    /\ UNCHANGED <<originServerIsActive, totalAccesses>>

-----------------------------------------------------------------------------
(* select and the generic origin connection.                               *)

\* select waits for a watched descriptor to be readable.  Were one of them
\* closed it would return EBADF at once and leave the set as it was.
SelectReturns ==
    /\ phase = "select"
    /\ IF Watched \subseteq Open
          THEN readfds' = {f \in Watched : Readable(f)} /\ readfds' # {}
          ELSE readfds' = Watched
    /\ phase' = "openness"
    /\ UNCHANGED <<slot, newSocket, arrays, config, kernel, world>>

\* Mutant: the connection is also closed when its end of file is read.
UpdateOriginOpennessCloses ==
    /\ phase = "openness"
    /\ IF /\ originServerIsActive
          /\ genericOriginServer \in readfds \cap hup
          /\ inbox[genericOriginServer] = "none"
          THEN Close({genericOriginServer}, inbox) /\ originServerIsActive' = FALSE
          ELSE UNCHANGED <<kernel, originServerIsActive>>
    /\ GoTo("admin")
    /\ UNCHANGED <<arrays, concurrentConnections, totalAccesses, world>>


\* One read of the connection kept to notice that the origin has gone; only an
\* end of file counts, and setOriginServerIsActive ignores the value it is given.
UpdateOriginOpenness ==
    /\ phase = "openness"
    /\ IF originServerIsActive /\ genericOriginServer \in readfds
          THEN IF inbox[genericOriginServer] # "none"
                  THEN /\ inbox' = [inbox EXCEPT ![genericOriginServer] = "none"]
                       /\ UNCHANGED originServerIsActive
                  ELSE /\ originServerIsActive' = (genericOriginServer \notin hup)
                       /\ UNCHANGED inbox
          ELSE UNCHANGED <<originServerIsActive, inbox>>
    /\ GoTo("admin")
    /\ UNCHANGED <<arrays, concurrentConnections, totalAccesses,
                   kind, owner, hup, world>>

-----------------------------------------------------------------------------
(* checkForNewClients, once for the management port and once for POP3.     *)

\* Mutant: an access is not a connection while the origin is held to be down.
CountedWhenActive ==
    /\ totalAccesses' = totalAccesses + 1
    /\ concurrentConnections' =
           concurrentConnections + (IF originServerIsActive THEN 1 ELSE 0)

Counted ==
    /\ totalAccesses' = totalAccesses + 1
    /\ concurrentConnections' = concurrentConnections + 1

\* The search for a slot stops at the first one whose client socket is 0.
FirstFree(i) == clientSockets[i] = 0 /\ \A j \in 0 .. i - 1 : clientSockets[j] # 0
TableFull    == \A i \in Slots : clientSockets[i] # 0

\* socketToOriginServer, whose socket is the second descriptor opened here: -1
\* when there is none, and a socket whose connect fails is never closed.
OriginSocket   == IF Fresh(1) = {} THEN {-1} ELSE Fresh(1)
Connected(s)   == s # -1 /\ originUp
OriginEntry(s) == IF Connected(s) THEN s ELSE -1
OriginKind     == IF originUp THEN "origin" ELSE "leaked"

\* Mutant: the entry is written only when the connection was made.
TakeSlotKeepsOrigin(i, type, c, s) ==
    /\ clientSockets'       = [clientSockets       EXCEPT ![i] = c]
    /\ clientTypeArray'     = [clientTypeArray     EXCEPT ![i] = type]
    /\ originServerSockets' = [originServerSockets EXCEPT ![i] = IF Connected(s) THEN s ELSE @]
    /\ originServerIsActive' = Connected(s)

TakeSlot(i, type, c, s) ==
    /\ clientSockets'       = [clientSockets       EXCEPT ![i] = c]
    /\ clientTypeArray'     = [clientTypeArray     EXCEPT ![i] = type]
    /\ originServerSockets' = [originServerSockets EXCEPT ![i] = OriginEntry(s)]
    /\ originServerIsActive' = Connected(s)

NobodyWaits(port, p) == port \notin readfds /\ GoTo(p) /\ UNCHANGED <<arrays, config, kernel, world>>

\* accept fails when no descriptor is left: the proxy exits.
AcceptFails(type) == Free = {} /\ type \in {CLIENT, ADMIN} /\ Exit

\* An administrator takes a slot, and a connection to the origin with it; when
\* the table is full the accepted socket is neither kept nor closed.
AcceptAdmin ==
    /\ \/ \E i \in Slots, c \in Fresh(0), s \in OriginSocket :
            /\ FirstFree(i)
            /\ Opens([f \in {c, s} |-> IF f = c THEN "admin" ELSE OriginKind])
            /\ TakeSlot(i, ADMIN, c, s)
            /\ UNCHANGED <<filterOutputs, filterInputs>>
       \/ \E c \in Fresh(0) :
            /\ TableFull
            /\ Opens([f \in {c} |-> "leaked"])
            /\ UNCHANGED <<arrays, originServerIsActive>>
    /\ Counted
    /\ backlog' = backlog \ {ADMIN}
    /\ GoTo("pop")
    /\ UNCHANGED <<originUp, genericOriginServer>>

\* While the origin is held to be down a POP3 client is answered -ERR and
\* closed; the access has been counted as a connection and stays counted.  One
\* that has gone again while it waited in the queue may raise SIGPIPE.
RefuseClient ==
    /\ ~originServerIsActive
    /\ Free # {}
    /\ \/ Exit
       \/ /\ Counted
          /\ backlog' = backlog \ {CLIENT}
          /\ GoTo("clients")
          /\ UNCHANGED <<arrays, originServerIsActive, kernel, originUp, genericOriginServer>>

\* startFilter opens the pipes <<r1, w1>> and <<r2, w2>>; r1 and w2 are kept and
\* the other two ends are never closed.
SessionKinds(c, s, r1, w1, r2, w2) ==
    [f \in {c, s, r1, w1, r2, w2} |-> IF f = c THEN "client"
                                     ELSE IF f = s THEN OriginKind
                                     ELSE IF f = r1 THEN "filterOut"
                                     ELSE IF f = w2 THEN "filterIn" ELSE "leaked"]

\* The slot of a POP3 client: its socket, its origin connection, its filter.
AcceptClient ==
    /\ originServerIsActive
    /\ \E i \in Slots, c \in Fresh(0), s \in Fresh(1),
          r1 \in Fresh(2), w1 \in Fresh(3), r2 \in Fresh(4), w2 \in Fresh(5) :
        /\ FirstFree(i)
        /\ Opens(SessionKinds(c, s, r1, w1, r2, w2))
        /\ TakeSlot(i, CLIENT, c, s)
        /\ filterOutputs' = [filterOutputs EXCEPT ![i] = r1]
        /\ filterInputs'  = [filterInputs  EXCEPT ![i] = w2]
        /\ newSocket' = c /\ slot' = i
    /\ Counted
    /\ backlog' = backlog \ {CLIENT}
    /\ phase' = "greet"
    /\ UNCHANGED <<readfds, originUp, genericOriginServer>>

\* With the table full a filter is started all the same.  Its ends are stored
\* at index MAX_CLIENTS, past the arrays, where the build leaves padding that
\* nothing reads: all five descriptors are lost.
AcceptBeyondTable ==
    /\ originServerIsActive
    /\ TableFull
    /\ \E c \in Fresh(0), r1 \in Fresh(1), w1 \in Fresh(2), r2 \in Fresh(3), w2 \in Fresh(4) :
        /\ Opens([f \in {c, r1, w1, r2, w2} |-> "leaked"])
        /\ newSocket' = c
    /\ Counted
    /\ backlog' = backlog \ {CLIENT}
    /\ phase' = "greet" /\ slot' = MAX_CLIENTS
    /\ UNCHANGED <<readfds, arrays, originServerIsActive, originUp, genericOriginServer>>

\* pipe fails: too few descriptors are left for the two pipes of a filter.
PipesFail ==
    /\ originServerIsActive
    /\ Fresh(IF TableFull THEN 4 ELSE 5) = {}
    /\ Exit

CheckForNewAdmin ==
    /\ phase = "admin"
    /\ \/ NobodyWaits(configSocketFd, "pop")
       \/ configSocketFd \in readfds /\ (AcceptFails(ADMIN) \/ AcceptAdmin)

CheckForNewClient ==
    /\ phase = "pop"
    /\ \/ NobodyWaits(popSocketFd, "clients")
       \/ /\ popSocketFd \in readfds
          /\ \/ AcceptFails(CLIENT) \/ RefuseClient
             \/ AcceptClient \/ AcceptBeyondTable \/ PipesFail

-----------------------------------------------------------------------------
(* The greeting: one blocking read of the new origin connection, or, past  *)
(* the table, of the 0 that the padding holds: standard input.             *)

GreetingFd == IF slot = MAX_CLIENTS THEN 0 ELSE originServerSockets[slot]

\* Descriptors that were never made non-blocking.
Blocking(f) == kind[f] \in {"std", "origin"}

Greet ==
    /\ phase = "greet"
    /\ \/ /\ GreetingFd \in Open /\ inbox[GreetingFd] \in {"data", "shutdown"}
          /\ BrokenPipe(newSocket)
       \/ /\ (GreetingFd \in Open /\ Blocking(GreetingFd)) => Readable(GreetingFd)
          /\ inbox' = [f \in Fds |-> IF f = GreetingFd THEN "none" ELSE inbox[f]]
          /\ phase' = "clients" /\ slot' = 0 /\ newSocket' = 0
          /\ UNCHANGED <<readfds, arrays, config, kind, owner, hup, world>>

-----------------------------------------------------------------------------
(* readFromClients, one slot at a time.                                    *)

\* parseConfig.  The socket is non-blocking and any failing read is exit(): a
\* command that has arrived only in part, or a connection that was reset,
\* takes the whole proxy down.  An end of file frees the slot, but neither
\* its origin connection nor its place in the count of connections.
AdminCommand(i) ==
    LET d == clientSockets[i] IN
    \/ inbox[d] = "data" /\ (Exit \/ BrokenPipe(d))
    \/ inbox[d] # "data" /\ (d \in hup => inbox[d] # "none") /\ Exit
    \/ /\ inbox[d] = "data"
       /\ inbox' = [inbox EXCEPT ![d] = "none"]
       /\ NextSlot("clients", "origins")
       /\ UNCHANGED <<arrays, config, kind, owner, hup, world>>
    \/ /\ inbox[d] \in {"none", "data"} /\ d \in hup
       /\ Close({d}, inbox)
       /\ clientSockets'   = [clientSockets   EXCEPT ![i] = 0]
       /\ clientTypeArray' = [clientTypeArray EXCEPT ![i] = 0]
       /\ NextSlot("clients", "origins")
       /\ UNCHANGED <<originServerSockets, filterOutputs, filterInputs, config, world>>


\* The origin is held to be down: -ERR, the session is released and the loop
\* returns without a look at the slots after this one.
DismissClient(i) ==
    \/ BrokenPipe(clientSockets[i])
    \/ /\ CloseAll(i, inbox)
       /\ GoTo("origins")
       /\ UNCHANGED world

\* attendClient begins with CAPA to the origin, whatever the client wants, and
\* waits for an answer; with no origin connection the write fails.
AttendClient(i) ==
    LET o == originServerSockets[i] IN
    \/ BrokenPipe(o)
    \/ /\ o = -1 \/ o \in hup
       /\ CloseAll(i, inbox)
       /\ NextSlot("clients", "origins")
       /\ UNCHANGED world
    \/ /\ o # -1
       /\ phase' = "capa"
       /\ UNCHANGED <<slot, readfds, newSocket, arrays, config, kernel, world>>

ReadFromClients ==
    /\ phase = "clients"
    /\ LET d == clientSockets[slot] IN
       IF d \notin readfds
          THEN NextSlot("clients", "origins") /\ UNCHANGED <<arrays, config, kernel, world>>
          ELSE \/ clientTypeArray[slot] = ADMIN  /\ AdminCommand(slot)
               \/ clientTypeArray[slot] = CLIENT /\ ~originServerIsActive /\ DismissClient(slot)
               \/ clientTypeArray[slot] = CLIENT /\ originServerIsActive  /\ AttendClient(slot)

\* The blocking read of pipeliningSupport.  The answer is whatever the origin had
\* to say first; with none, or no PIPELINING in it, the session is released.
CapaAnswer ==
    LET o == originServerSockets[slot] IN
    /\ phase = "capa"
    /\ Readable(o)
    /\ \/ CloseAll(slot, inbox) /\ NextSlot("clients", "origins") /\ UNCHANGED world
       \/ /\ inbox[o] \in {"data", "shutdown"}
          /\ inbox' = [inbox EXCEPT ![o] = "none"]
          /\ phase' = "forward"
          /\ UNCHANGED <<slot, readfds, newSocket, arrays, config, kind, owner, hup, world>>

\* Mutant: an end of file from the client is no reason to release the session.
ReadFromClientMissesEnd ==
    LET c == clientSockets[slot]
        o == originServerSockets[slot]
    IN
    /\ phase = "forward"
    /\ inbox[c] = "data" => o \in hup
    /\ inbox' = [inbox EXCEPT ![c] = "none"]
    /\ NextSlot("clients", "origins")
    /\ UNCHANGED <<arrays, config, kind, owner, hup, world>>

\* The client is read until it has nothing more; an end of file, or a reset,
\* releases the session at once.  What it said is written to the origin first:
\* that write blocks until the origin makes room (OriginTakes), or has gone,
\* and then fails unnoticed or breaks the pipe.
ReadFromClient ==
    LET c == clientSockets[slot]
        o == originServerSockets[slot]
    IN
    /\ phase = "forward"
    /\ \/ inbox[c] = "data" /\ BrokenPipe(o)
       \/ /\ inbox[c] = "data" /\ o \in hup
          /\ inbox' = [inbox EXCEPT ![c] = "none"]
          /\ UNCHANGED <<loop, arrays, config, kind, owner, hup, world>>
       \/ /\ inbox[c] # "data" /\ c \in hup
          /\ CloseAll(slot, inbox)
          /\ NextSlot("clients", "origins")
          /\ UNCHANGED world
       \/ /\ inbox[c] # "data" /\ c \notin hup
          /\ NextSlot("clients", "origins")
          /\ UNCHANGED <<arrays, config, kernel, world>>

-----------------------------------------------------------------------------
(* originServerResponses and readFilters, one slot at a time.              *)

\* readFromOrigin.  An end of file is QUITCOMMAND, which the caller ignores; a
\* failed read and the origin's good-bye are QUIT.  FD_ISSET(-1) is undefined:
\* the bit it tests belongs to another descriptor, and may be set.
OriginServerResponses ==
    LET d == originServerSockets[slot]
        w == filterInputs[slot]
    IN
    /\ phase = "origins"
    /\ \/ /\ d \notin readfds
          /\ NextSlot("origins", "filters")
          /\ UNCHANGED <<arrays, config, kernel, world>>
       \/ d \in readfds /\ inbox[d] = "data" /\ BrokenPipe(w)
       \/ /\ d \in readfds /\ inbox[d] = "data"
          /\ inbox' = Written([inbox EXCEPT ![d] = "none"], w)
          /\ NextSlot("origins", "filters")
          /\ UNCHANGED <<arrays, config, kind, owner, hup, world>>
       \/ /\ d \in readfds /\ inbox[d] = "none" /\ d \in hup
          /\ NextSlot("origins", "filters")
          /\ UNCHANGED <<arrays, config, kernel, world>>
       \/ /\ d = -1 \/ (d \in readfds /\ inbox[d] \in {"shutdown", "reset"})
          /\ CloseAll(slot, inbox)
          /\ NextSlot("origins", "filters")
          /\ UNCHANGED world

\* readFromFilter.  The proxy itself holds a write end of the filter's output
\* pipe, so that this read never finds an end of file.
ReadFilters ==
    LET d == filterOutputs[slot]
        w == clientSockets[slot]
    IN
    /\ phase = "filters"
    /\ \/ d \in readfds /\ inbox[d] # "none" /\ BrokenPipe(w)
       \/ /\ inbox' = [f \in Fds |-> IF f = d /\ d \in readfds THEN "none" ELSE inbox[f]]
          /\ NextSlot("filters", "select")
          /\ UNCHANGED <<arrays, config, kind, owner, hup, world>>

ProxyStep ==
    \/ SelectReturns \/ UpdateOriginOpenness
    \/ CheckForNewAdmin \/ CheckForNewClient \/ Greet
    \/ ReadFromClients \/ CapaAnswer \/ ReadFromClient
    \/ OriginServerResponses \/ ReadFilters

-----------------------------------------------------------------------------
(* The peers.  What they send is noticed by select, or by the one read that *)
(* waits for it, and so it is delivered there only; they may go, and the   *)
(* origin may come and go, between any two steps.  Nothing is said about   *)
(* descriptors the process has lost track of.                              *)

Reachable == Watched \cup {newSocket, 0}

\* The descriptor a blocking read of the proxy waits on.
WaitingFor ==
    CASE phase = "greet"   -> GreetingFd
      [] phase = "capa"    -> originServerSockets[slot]
      [] phase = "origins" -> originServerSockets[slot]
      [] OTHER             -> -1

ConnectionArrives(type) ==
    /\ phase = "select" /\ type \notin backlog
    /\ totalAccesses + Cardinality(backlog) < MAX_ACCESSES
    /\ backlog' = backlog \cup {type}
    /\ UNCHANGED <<loop, arrays, config, kernel, originUp, genericOriginServer>>

Delivers(f, m) ==
    /\ phase = "select" \/ f = WaitingFor
    /\ inbox[f] = "none" /\ f \notin hup
    /\ inbox' = [inbox EXCEPT ![f] = m]
    /\ UNCHANGED <<loop, arrays, config, kind, owner, hup, world>>

PeerSends(f) ==
    /\ kind[f] \in {"client", "admin"} \/ (f = WaitingFor /\ kind[f] = "std")
    /\ Delivers(f, "data")

\* "shutdown" is any chunk that is a prefix of the good-bye readFromOrigin
\* looks for, whatever it was meant to be.
OriginSends(f) ==
    /\ kind[f] = "origin"
    /\ \E m \in {"data", "shutdown"} : Delivers(f, m)

\* The origin makes room for what the proxy is writing to it.
OriginTakes ==
    LET c == clientSockets[slot] IN
    /\ phase = "forward" /\ originServerSockets[slot] \notin hup
    /\ inbox[c] = "data"
    /\ inbox' = [inbox EXCEPT ![c] = "none"]
    /\ UNCHANGED <<loop, arrays, config, kind, owner, hup, world>>

\* A filter moves what it was given to its output.
FilterRuns(f, g) ==
    /\ phase = "select"
    /\ kind[f] = "filterIn" /\ kind[g] = "filterOut" /\ owner[f] = owner[g]
    /\ inbox[f] = "data"
    /\ inbox' = [inbox EXCEPT ![f] = "none", ![g] = "data"]
    /\ UNCHANGED <<loop, arrays, config, kind, owner, hup, world>>

\* A peer goes, by an orderly close or by a reset that drops what was sent.
PeerHangsUp(f) ==
    /\ kind[f] \in QUITTERS /\ f \notin hup
    /\ Cardinality(hup) < MAX_HANGUPS
    /\ hup' = hup \cup {f}
    /\ inbox' \in {inbox, [inbox EXCEPT ![f] = "reset"]}
    /\ UNCHANGED <<loop, arrays, config, kind, owner, world>>

OriginCrashes ==
    /\ originUp
    /\ originUp' = FALSE
    /\ hup' = hup \cup {f \in Fds : kind[f] \in {"origin", "generic"}}
    /\ UNCHANGED <<loop, arrays, config, kind, owner, inbox, backlog, genericOriginServer>>

OriginRestarts ==
    /\ ~originUp
    /\ originUp' = TRUE
    /\ UNCHANGED <<loop, arrays, config, kernel, backlog, genericOriginServer>>

PeerStep ==
    \/ \E type \in VISITORS : ConnectionArrives(type)
    \/ \E f \in Reachable : PeerSends(f) \/ OriginSends(f) \/ PeerHangsUp(f)
    \/ \E i \in Slots : FilterRuns(filterInputs[i], filterOutputs[i])
    \/ OriginTakes \/ OriginCrashes \/ OriginRestarts

\* After exit() the peers go on, but nothing is left to say about them.
Next == ProxyStep \/ (phase # "dead" /\ PeerStep)

Spec == Init /\ [][Next]_vars

\* The process is scheduled: a step that can be taken is taken.
ProxyFairness == WF_vars(ProxyStep)

-----------------------------------------------------------------------------
(* Properties.                                                             *)

\* Every variable keeps its type; an entry of the arrays is a descriptor, 0 for
\* none, or the -1 of a connection to the origin that failed.
LoopOK ==
    /\ phase \in Phases
    /\ slot \in 0 .. MAX_CLIENTS
    /\ phase \in {"clients", "capa", "forward", "origins", "filters"} => slot \in Slots
    /\ readfds \subseteq 1 .. MAX_FD
    /\ newSocket \in Fds

ArraysOK ==
    /\ clientSockets \in [Slots -> Fds]
    /\ clientTypeArray \in [Slots -> {0, CLIENT, ADMIN}]
    /\ originServerSockets \in [Slots -> Fds \cup {-1}]
    /\ filterOutputs \in [Slots -> Fds]
    /\ filterInputs \in [Slots -> Fds]

ConfigOK ==
    /\ originServerIsActive \in BOOLEAN
    /\ concurrentConnections \in Int
    /\ totalAccesses \in Nat

KernelOK ==
    /\ kind \in [Fds -> Kinds]
    /\ owner \in [Fds -> Nat]
    /\ inbox \in [Fds -> Inboxes]
    /\ hup \subseteq Fds

WorldOK ==
    /\ backlog \subseteq {CLIENT, ADMIN}
    /\ originUp \in BOOLEAN
    /\ genericOriginServer \in {5, -1}

TypeOK == LoopOK /\ ArraysOK /\ ConfigOK /\ KernelOK /\ WorldOK

\* An entry of the arrays names a descriptor that is open and is what the code
\* takes it for, and two slots never name the same one: closeAll of one session
\* cannot close, and a read for one session cannot consume, what is another's.
EntriesAreLive ==
    \A i \in Slots :
        /\ clientSockets[i] > 0 =>
               kind[clientSockets[i]] = (IF clientTypeArray[i] = ADMIN THEN "admin" ELSE "client")
        /\ clientSockets[i] > 0 => clientTypeArray[i] # 0
        /\ originServerSockets[i] > 0 => kind[originServerSockets[i]] = "origin"
        /\ filterOutputs[i] > 0 => kind[filterOutputs[i]] = "filterOut"
        /\ filterInputs[i] > 0 => kind[filterInputs[i]] = "filterIn"

EntriesAreApart ==
    \A i, j \in Slots : i # j =>
        /\ clientSockets[i] > 0 => clientSockets[i] # clientSockets[j]
        /\ originServerSockets[i] > 0 => originServerSockets[i] # originServerSockets[j]
        /\ filterOutputs[i] > 0 => filterOutputs[i] # filterOutputs[j]
        /\ filterInputs[i] > 0 => filterInputs[i] # filterInputs[j]

NoAliasing == EntriesAreLive /\ EntriesAreApart

\* The descriptors of a POP3 session were all created by the same access, so no
\* session is ever assembled from the ends of two.
SessionIsolation ==
    \A i, j \in Slots :
        clientTypeArray[i] = CLIENT /\ clientTypeArray[j] = CLIENT =>
            \A f \in Descriptors(i) \cap (1 .. MAX_FD),
               g \in Descriptors(j) \cap (1 .. MAX_FD) :
                    (owner[f] = owner[g]) <=> (i = j)

\* A slot is held while any of its entries is set.
Held == {i \in Slots : \/ clientSockets[i] # 0 \/ originServerSockets[i] # 0
                       \/ filterOutputs[i] # 0 \/ filterInputs[i] # 0}

\* CON_CON never falls below the number of slots held: closeAll is never called
\* twice for a session, by the three loops that may each find a reason to.
NoDoubleRelease == concurrentConnections >= Cardinality(Held)

\* While standard input has not been closed by mistake, no client socket and no
\* pipe end the loop works with is ever open and out of the arrays' reach.
NothingStranded ==
    kind[0] = "std" =>
        \A f \in Open :
            kind[f] \in {"client", "admin", "filterOut", "filterIn"} =>
                \E i \in Slots : f \in Descriptors(i)

\* What access k opened, and no entry of the arrays has any more.
LostBy(k) == {f \in Open : owner[f] = k /\ \A i \in Slots : f \notin Descriptors(i)}

\* While standard input has not been closed by mistake, an access that is over
\* leaves no more open than it must in this code: two ends of the pipes of its
\* filter and a socket whose connect failed; or the connection to the origin, if
\* it was an administrator's and the slot has been taken again; or all five
\* descriptors, if it found the table full.
LeaksAreBounded ==
    kind[0] = "std" =>
        \A k \in 1 .. totalAccesses :
            LET lost == LostBy(k)
            IN  /\ Cardinality(lost) \in 0 .. 3 \cup {5}
                /\ \A f \in lost : kind[f] = "origin" => lost = {f}

\* A descriptor the process opens while it works on the result of a select is
\* not in that result: stale readiness is never taken for that of a new peer.
FreshDescriptorsAreNotReady ==
    [][\A f \in Fds : kind[f] = "closed" /\ kind'[f] # "closed" => f \notin readfds]_vars

\* The proxy is in a call that does not return: the read of a greeting, of the
\* answer to CAPA, or of a reply that another read of the same pass has taken,
\* or the write of commands to an origin that does not take them.
Waits ==
    \/ /\ phase = "greet" /\ GreetingFd \in Open
       /\ Blocking(GreetingFd) /\ ~Readable(GreetingFd)
    \/ /\ phase = "capa" /\ ~Readable(originServerSockets[slot])
    \/ /\ phase = "forward" /\ originServerSockets[slot] \notin hup
       /\ inbox[clientSockets[slot]] = "data"
    \/ /\ phase = "origins" /\ originServerSockets[slot] \in readfds
       /\ ~Readable(originServerSockets[slot])

\* Nothing in the code bounds such a call, so that no fairness says this.
NoWaitIsForEver == []<>~Waits

HasGone(i) == clientTypeArray[i] = CLIENT /\ clientSockets[i] \in hup \ {0}



FairSpec == Spec /\ ProxyFairness

\* A claim of the repository's documentation that the code does not keep.

\* Informe.pdf, page 5: position i of every array is of one and the same client.
ArraysAreParallel ==
    \A i \in Slots : clientTypeArray[i] = ADMIN =>
        \A f \in Descriptors(i) \cap (1 .. MAX_FD) : owner[f] = owner[clientSockets[i]]

=============================================================================
