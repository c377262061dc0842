---------------------------- MODULE ProxyProofs ----------------------------
(***************************************************************************)
(* Proofs about Proxy, for every number of slots, descriptors, accesses.   *)
(***************************************************************************)
EXTENDS Proxy, FiniteSetTheorems, TLAPS

\* The descriptors of the start, 0 excepted, stay what they are.
BaseIsOpen ==
    /\ kind[popSocketFd] = "listen" /\ kind[configSocketFd] = "listen"
    /\ genericOriginServer = 5 => kind[5] = "generic"

\* Between select and the last accept nothing is closed.
SnapshotIsOpen == phase \in {"openness", "admin", "pop"} => readfds \subseteq Open

\* pipeliningSupport and readFromClient are only called for a client that has a socket.
CapaHasClient == phase \in {"capa", "forward"} => clientSockets[slot] # 0

\* No descriptor is of an access that has not happened.
OwnersHappened == \A f \in Fds : owner[f] <= totalAccesses

\* A slot whose client entry is 0 is free, and only a POP3 client has a filter.
SlotsTell ==
    \A i \in Slots :
        /\ clientSockets[i] = 0 => clientTypeArray[i] = 0
        /\ clientTypeArray[i] # CLIENT => filterOutputs[i] = 0 /\ filterInputs[i] = 0

\* Both hold until a closeAll of a slot with an entry 0 closes descriptor 0, whose
\* number a client may then get: an entry 0 is then no longer an empty one.
Tidy == NothingStranded /\ (kind[0] = "std" => SlotsTell)

\* What the steps that open and close descriptors preserve together.
Core == NoAliasing /\ NoDoubleRelease /\ SessionIsolation /\ BaseIsOpen /\ OwnersHappened

\* The inductive invariant.
IInv == TypeOK /\ Core /\ SnapshotIsOpen /\ CapaHasClient /\ Tidy

-----------------------------------------------------------------------------
(* The types.                                                              *)

USE ProxyAssumption DEF CLIENT, ADMIN, Slots, Fds, popSocketFd, configSocketFd

LEMMA TypeInit == Init => TypeOK
<1> SUFFICES ASSUME Init PROVE TypeOK
  OBVIOUS
<1>1. LoopOK /\ ConfigOK /\ WorldOK
  BY DEF Init, LoopOK, ConfigOK, WorldOK, Phases
<1>2. ArraysOK /\ KernelOK
  BY DEF Init, ArraysOK, KernelOK, Kinds, Inboxes
<1> QED BY <1>1, <1>2 DEF TypeOK

\* A descriptor that is about to be opened is free, and no two are the same.
LEMMA FreshIsFree ==
  ASSUME NEW n, NEW f \in Fresh(n)
  PROVE  f \in Fds /\ kind[f] = "closed"
  BY DEF Fresh, Free, Open

LEMMA FreshDiffer ==
  ASSUME NEW n, NEW m, n # m, NEW f \in Fresh(n), NEW g \in Fresh(m)
  PROVE  f # g
  BY DEF Fresh

\* Every part of the type invariant holds after a step that leaves its variables
\* alone, and after the helpers the steps are written with.
LEMMA SameArrays == ASSUME ArraysOK, UNCHANGED arrays PROVE ArraysOK'
  BY DEF ArraysOK, arrays

LEMMA SameConfig == ASSUME ConfigOK, UNCHANGED config PROVE ConfigOK'
  BY DEF ConfigOK, config

LEMMA SameKernel == ASSUME KernelOK, UNCHANGED kernel PROVE KernelOK'
  BY DEF KernelOK, kernel

LEMMA SameWorld == ASSUME WorldOK, UNCHANGED world PROVE WorldOK'
  BY DEF WorldOK, world

LEMMA GoToType ==
  ASSUME LoopOK, NEW p \in Phases, GoTo(p)
  PROVE  LoopOK'
  BY DEF LoopOK, GoTo

LEMMA NextSlotType ==
  ASSUME LoopOK, slot \in Slots,
         NEW p \in Phases, NEW q \in Phases, NextSlot(p, q)
  PROVE  LoopOK'
<1>1. CASE slot + 1 < MAX_CLIENTS
  BY <1>1 DEF LoopOK, NextSlot
<1>2. CASE ~(slot + 1 < MAX_CLIENTS)
  BY <1>2 DEF LoopOK, NextSlot
<1> QED BY <1>1, <1>2

LEMMA ExitType == ASSUME TypeOK, Exit PROVE TypeOK'
<1>1. LoopOK'
  BY DEF TypeOK, LoopOK, Exit, Phases
<1>2. UNCHANGED <<arrays, config, kernel, world>>
  BY DEF Exit
<1> QED BY <1>1, <1>2, SameArrays, SameConfig, SameKernel, SameWorld DEF TypeOK

LEMMA InboxType ==
  ASSUME KernelOK, inbox' \in [Fds -> Inboxes], UNCHANGED <<kind, owner, hup>>
  PROVE  KernelOK'
  BY DEF KernelOK

LEMMA CloseType == ASSUME KernelOK, NEW C, Close(C, inbox) PROVE KernelOK'
  BY DEF KernelOK, Close, Kinds, Inboxes

LEMMA OpensType ==
  ASSUME KernelOK, ConfigOK, NEW k, \A f \in DOMAIN k : k[f] \in Kinds, Opens(k)
  PROVE  KernelOK'
  BY DEF KernelOK, ConfigOK, Opens

LEMMA CloseAllType ==
  ASSUME ArraysOK, ConfigOK, KernelOK, NEW i \in Slots, CloseAll(i, inbox)
  PROVE  ArraysOK' /\ ConfigOK' /\ KernelOK'
<1>1. ArraysOK'
  BY DEF CloseAll, ArraysOK
<1>2. ConfigOK'
  BY DEF CloseAll, ConfigOK
<1>3. KernelOK'
  BY CloseType DEF CloseAll
<1> QED BY <1>1, <1>2, <1>3

LEMMA TakeSlotType ==
  ASSUME ArraysOK, NEW i \in Slots, NEW type \in {CLIENT, ADMIN},
         NEW c \in Fds, NEW s \in Fds \cup {-1}, TakeSlot(i, type, c, s),
         filterOutputs' \in [Slots -> Fds], filterInputs' \in [Slots -> Fds]
  PROVE  ArraysOK' /\ originServerIsActive' \in BOOLEAN
<1>1. OriginEntry(s) \in Fds \cup {-1}
  BY DEF OriginEntry
<1>2. ArraysOK'
  BY <1>1 DEF TakeSlot, ArraysOK
<1>3. originServerIsActive' \in BOOLEAN
  BY DEF TakeSlot, Connected
<1> QED BY <1>2, <1>3

-----------------------------------------------------------------------------
(* The type invariant is inductive: one case per step.                     *)

LEMMA TypeStep == TypeOK /\ [Next]_vars => TypeOK'
<1> SUFFICES ASSUME TypeOK, [Next]_vars PROVE TypeOK'
  OBVIOUS
<1> USE SameArrays, SameConfig, SameKernel, SameWorld DEF TypeOK
<1>0. Phases = {"select", "openness", "admin", "pop", "greet",
                "clients", "capa", "forward", "origins", "filters", "dead"}
  BY DEF Phases
<1>1. CASE Exit
  BY <1>1, ExitType
<1>2. CASE SelectReturns
  <2>1. LoopOK'
    BY <1>2 DEF SelectReturns, LoopOK, Watched, Phases
  <2> QED BY <1>2, <2>1 DEF SelectReturns
<1>3. CASE UpdateOriginOpenness
  <2>1. LoopOK'
    BY <1>0, <1>3, GoToType DEF UpdateOriginOpenness
  <2>2. ConfigOK'
    BY <1>3 DEF UpdateOriginOpenness, ConfigOK
  <2>3. inbox' \in [Fds -> Inboxes] /\ UNCHANGED <<kind, owner, hup>>
    BY <1>3 DEF UpdateOriginOpenness, KernelOK, Inboxes
  <2> QED BY <1>3, <2>1, <2>2, <2>3, InboxType DEF UpdateOriginOpenness
<1>4. CASE CheckForNewAdmin
  <2>1. CASE NobodyWaits(configSocketFd, "pop")
    BY <1>0, <2>1, GoToType DEF NobodyWaits
  <2>2. CASE AcceptAdmin
    <3>1. LoopOK' /\ WorldOK' /\ totalAccesses' \in Nat /\ concurrentConnections' \in Int
      BY <1>0, <2>2, GoToType DEF AcceptAdmin, Counted, WorldOK, ConfigOK
    <3>2. CASE \E i \in Slots, c \in Fresh(0), s \in OriginSocket :
                  /\ Opens([f \in {c, s} |-> IF f = c THEN "admin" ELSE OriginKind])
                  /\ TakeSlot(i, ADMIN, c, s)
                  /\ UNCHANGED <<filterOutputs, filterInputs>>
      <4> PICK i \in Slots, c \in Fresh(0), s \in OriginSocket :
                  /\ Opens([f \in {c, s} |-> IF f = c THEN "admin" ELSE OriginKind])
                  /\ TakeSlot(i, ADMIN, c, s)
                  /\ UNCHANGED <<filterOutputs, filterInputs>>
        BY <3>2
      <4>1. c \in Fds /\ s \in Fds \cup {-1}
        BY FreshIsFree DEF OriginSocket
      <4>2. KernelOK'
        <5> DEFINE k == [f \in {c, s} |-> IF f = c THEN "admin" ELSE OriginKind]
        <5>1. \A f \in DOMAIN k : k[f] \in Kinds
          BY DEF OriginKind, Kinds
        <5> QED BY <5>1, OpensType
      <4>3. ArraysOK' /\ originServerIsActive' \in BOOLEAN
        BY <4>1, TakeSlotType DEF ArraysOK
      <4> QED BY <3>1, <4>2, <4>3 DEF ConfigOK
    <3>3. CASE \E c \in Fresh(0) :
                  /\ Opens([f \in {c} |-> "leaked"])
                  /\ UNCHANGED <<arrays, originServerIsActive>>
      <4>1. KernelOK'
        BY <3>3, OpensType DEF Kinds
      <4> QED BY <3>1, <3>3, <4>1 DEF ConfigOK
    <3> QED BY <2>2, <3>2, <3>3 DEF AcceptAdmin
  <2> QED BY <1>1, <1>4, <2>1, <2>2 DEF CheckForNewAdmin, AcceptFails
<1>5. CASE CheckForNewClient
  <2>1. CASE NobodyWaits(popSocketFd, "clients")
    BY <1>0, <2>1, GoToType DEF NobodyWaits
  <2>2. CASE RefuseClient
    <3>0. CASE /\ Counted /\ backlog' = backlog \ {CLIENT} /\ GoTo("clients")
               /\ UNCHANGED <<arrays, originServerIsActive, kernel, originUp, genericOriginServer>>
      <4>1. LoopOK' /\ WorldOK' /\ ConfigOK'
        BY <1>0, <3>0, GoToType DEF Counted, WorldOK, ConfigOK
      <4> QED BY <3>0, <4>1
    <3> QED BY <1>1, <2>2, <3>0 DEF RefuseClient
  <2>3. CASE AcceptClient
    <3> PICK i \in Slots, c \in Fresh(0), s \in Fresh(1),
             r1 \in Fresh(2), w1 \in Fresh(3), r2 \in Fresh(4), w2 \in Fresh(5) :
             /\ Opens(SessionKinds(c, s, r1, w1, r2, w2))
             /\ TakeSlot(i, CLIENT, c, s)
             /\ filterOutputs' = [filterOutputs EXCEPT ![i] = r1]
             /\ filterInputs'  = [filterInputs  EXCEPT ![i] = w2]
             /\ newSocket' = c /\ slot' = i
      BY <2>3, ZenonT(30) DEF AcceptClient
    <3>1. c \in Fds /\ s \in Fds /\ r1 \in Fds /\ w2 \in Fds
      BY FreshIsFree
    <3>2. KernelOK'
      <4>1. \A f \in DOMAIN SessionKinds(c, s, r1, w1, r2, w2) :
                SessionKinds(c, s, r1, w1, r2, w2)[f] \in Kinds
        BY DEF SessionKinds, OriginKind, Kinds
      <4> QED BY <4>1, OpensType
    <3>3. ArraysOK' /\ originServerIsActive' \in BOOLEAN
      <4>1. filterOutputs' \in [Slots -> Fds] /\ filterInputs' \in [Slots -> Fds]
        BY <3>1 DEF ArraysOK
      <4> QED BY <3>1, <4>1, TakeSlotType
    <3>4. LoopOK'
      BY <1>0, <2>3, <3>1 DEF AcceptClient, LoopOK
    <3>5. WorldOK' /\ ConfigOK'
      BY <2>3, <3>3 DEF AcceptClient, Counted, WorldOK, ConfigOK
    <3> QED BY <3>2, <3>3, <3>4, <3>5
  <2>4. CASE AcceptBeyondTable
    <3> PICK c \in Fresh(0), r1 \in Fresh(1), w1 \in Fresh(2), r2 \in Fresh(3), w2 \in Fresh(4) :
             /\ Opens([f \in {c, r1, w1, r2, w2} |-> "leaked"])
             /\ newSocket' = c
      BY <2>4 DEF AcceptBeyondTable
    <3>1. KernelOK'
      <4> DEFINE k == [f \in {c, r1, w1, r2, w2} |-> "leaked"]
      <4>1. \A f \in DOMAIN k : k[f] \in Kinds
        BY DEF Kinds
      <4> QED BY <4>1, OpensType
    <3>2. LoopOK'
      BY <1>0, <2>4, FreshIsFree DEF AcceptBeyondTable, LoopOK
    <3>3. WorldOK' /\ ConfigOK' /\ UNCHANGED arrays
      BY <2>4 DEF AcceptBeyondTable, Counted, WorldOK, ConfigOK
    <3> QED BY <3>1, <3>2, <3>3
  <2> QED BY <1>1, <1>5, <2>1, <2>2, <2>3, <2>4 DEF CheckForNewClient, AcceptFails, PipesFail
<1>6. CASE Greet
  <2>1. CASE /\ inbox' = [f \in Fds |-> IF f = GreetingFd THEN "none" ELSE inbox[f]]
             /\ phase' = "clients" /\ slot' = 0 /\ newSocket' = 0
             /\ UNCHANGED <<readfds, arrays, config, kind, owner, hup, world>>
    <3>1. LoopOK'
      BY <1>0, <2>1 DEF LoopOK
    <3>2. KernelOK'
      BY <2>1, InboxType DEF KernelOK, Inboxes
    <3> QED BY <2>1, <3>1, <3>2
  <2> QED BY <1>1, <1>6, <2>1 DEF Greet, BrokenPipe
<1>7. CASE ReadFromClients
  <2>0. slot \in Slots
    BY <1>7 DEF ReadFromClients, LoopOK
  <2>1. ASSUME NextSlot("clients", "origins") PROVE LoopOK'
    BY <1>0, <2>0, <2>1, NextSlotType
  <2>2. ASSUME CloseAll(slot, inbox) PROVE ArraysOK' /\ ConfigOK' /\ KernelOK'
    BY <2>0, <2>2, CloseAllType
  <2>3. CASE NextSlot("clients", "origins") /\ UNCHANGED <<arrays, config, kernel, world>>
    BY <2>1, <2>3
  <2>4. CASE AdminCommand(slot)
    <3>1. CASE /\ inbox' = [inbox EXCEPT ![clientSockets[slot]] = "none"]
               /\ NextSlot("clients", "origins")
               /\ UNCHANGED <<arrays, config, kind, owner, hup, world>>
      <4>1. KernelOK'
        BY <3>1, InboxType DEF KernelOK, Inboxes
      <4> QED BY <2>1, <3>1, <4>1
    <3>2. CASE /\ Close({clientSockets[slot]}, inbox)
               /\ clientSockets'   = [clientSockets   EXCEPT ![slot] = 0]
               /\ clientTypeArray' = [clientTypeArray EXCEPT ![slot] = 0]
               /\ NextSlot("clients", "origins")
               /\ UNCHANGED <<originServerSockets, filterOutputs, filterInputs, config, world>>
      <4>1. clientSockets' \in [Slots -> Fds]
        <5>1. 0 \in Fds
          OBVIOUS
        <5> QED BY <3>2, <5>1 DEF ArraysOK
      <4>2. clientTypeArray' \in [Slots -> {0, CLIENT, ADMIN}]
        BY <3>2 DEF ArraysOK
      <4>3. ArraysOK'
        BY <3>2, <4>1, <4>2 DEF ArraysOK
      <4>4. KernelOK'
        BY <3>2, CloseType
      <4> QED BY <2>1, <3>2, <4>3, <4>4
    <3> QED BY <1>1, <2>4, <3>1, <3>2 DEF AdminCommand, BrokenPipe
  <2>5. CASE DismissClient(slot)
    <3>1. CASE CloseAll(slot, inbox) /\ GoTo("origins") /\ UNCHANGED world
      BY <1>0, <2>2, <3>1, GoToType
    <3> QED BY <1>1, <2>5, <3>1 DEF DismissClient, BrokenPipe
  <2>6. CASE AttendClient(slot)
    <3>1. CASE CloseAll(slot, inbox) /\ NextSlot("clients", "origins") /\ UNCHANGED world
      BY <2>1, <2>2, <3>1
    <3>2. CASE phase' = "capa" /\ UNCHANGED <<slot, readfds, newSocket, arrays, config, kernel, world>>
      <4>1. LoopOK'
        BY <1>0, <2>0, <3>2 DEF LoopOK
      <4> QED BY <3>2, <4>1
    <3> QED BY <1>1, <2>6, <3>1, <3>2 DEF AttendClient, BrokenPipe
  <2> QED BY <1>7, <2>3, <2>4, <2>5, <2>6 DEF ReadFromClients
<1>8. CASE CapaAnswer
  <2>0. slot \in Slots
    BY <1>8 DEF CapaAnswer, LoopOK
  <2>2. CASE CloseAll(slot, inbox) /\ NextSlot("clients", "origins") /\ UNCHANGED world
    BY <1>0, <2>0, <2>2, CloseAllType, NextSlotType
  <2>3. CASE /\ inbox' = [inbox EXCEPT ![originServerSockets[slot]] = "none"]
             /\ phase' = "forward"
             /\ UNCHANGED <<slot, readfds, newSocket, arrays, config, kind, owner, hup, world>>
    <3>1. KernelOK'
      BY <2>3, InboxType DEF KernelOK, Inboxes
    <3>2. LoopOK'
      BY <1>0, <2>0, <2>3 DEF LoopOK
    <3> QED BY <2>3, <3>1, <3>2
  <2> QED BY <1>8, <2>2, <2>3 DEF CapaAnswer
<1>13. CASE ReadFromClient
  <2>0. slot \in Slots
    BY <1>13 DEF ReadFromClient, LoopOK
  <2>1. ASSUME NextSlot("clients", "origins") PROVE LoopOK'
    BY <1>0, <2>0, <2>1, NextSlotType
  <2>2. CASE CloseAll(slot, inbox) /\ NextSlot("clients", "origins") /\ UNCHANGED world
    BY <2>0, <2>1, <2>2, CloseAllType
  <2>3. CASE /\ inbox' = [inbox EXCEPT ![clientSockets[slot]] = "none"]
             /\ UNCHANGED <<loop, arrays, config, kind, owner, hup, world>>
    <3>1. KernelOK'
      BY <2>3, InboxType DEF KernelOK, Inboxes
    <3>2. LoopOK'
      BY <2>3 DEF loop, LoopOK
    <3> QED BY <2>3, <3>1, <3>2
  <2>4. CASE NextSlot("clients", "origins") /\ UNCHANGED <<arrays, config, kernel, world>>
    BY <2>1, <2>4
  <2> QED BY <1>1, <1>13, <2>2, <2>3, <2>4 DEF ReadFromClient, BrokenPipe
<1>9. CASE OriginServerResponses
  <2>0. slot \in Slots
    BY <1>9 DEF OriginServerResponses, LoopOK
  <2>1. ASSUME NextSlot("origins", "filters") PROVE LoopOK'
    BY <1>0, <2>0, <2>1, NextSlotType
  <2>2. CASE NextSlot("origins", "filters") /\ UNCHANGED <<arrays, config, kernel, world>>
    BY <2>1, <2>2
  <2>3. CASE /\ inbox' = Written([inbox EXCEPT ![originServerSockets[slot]] = "none"], filterInputs[slot])
             /\ NextSlot("origins", "filters")
             /\ UNCHANGED <<arrays, config, kind, owner, hup, world>>
    <3>1. KernelOK'
      BY <2>3, InboxType DEF Written, KernelOK, Inboxes
    <3> QED BY <2>1, <2>3, <3>1
  <2>4. CASE CloseAll(slot, inbox) /\ NextSlot("origins", "filters") /\ UNCHANGED world
    BY <2>0, <2>1, <2>4, CloseAllType
  <2> QED BY <1>1, <1>9, <2>2, <2>3, <2>4 DEF OriginServerResponses, BrokenPipe
<1>10. CASE ReadFilters
  <2>0. slot \in Slots
    BY <1>10 DEF ReadFilters, LoopOK
  <2>1. CASE /\ inbox' = [f \in Fds |-> IF f = filterOutputs[slot] /\ filterOutputs[slot] \in readfds
                                        THEN "none" ELSE inbox[f]]
             /\ NextSlot("filters", "select")
             /\ UNCHANGED <<arrays, config, kind, owner, hup, world>>
    <3>1. KernelOK'
      BY <2>1, InboxType DEF KernelOK, Inboxes
    <3> QED BY <1>0, <2>0, <2>1, <3>1, NextSlotType
  <2> QED BY <1>1, <1>10, <2>1 DEF ReadFilters, BrokenPipe
<1>11. CASE PeerStep
  <2>1. ASSUME NEW type \in VISITORS, ConnectionArrives(type) PROVE TypeOK'
    <3>1. UNCHANGED loop => LoopOK'
      BY DEF loop, LoopOK
    <3>2. WorldOK'
      BY <2>1, PeersAssumption DEF ConnectionArrives, WorldOK
    <3> QED BY <2>1, <3>1, <3>2 DEF ConnectionArrives
  <2>2. ASSUME UNCHANGED <<loop, arrays, config, kind, owner, hup, world>>,
               inbox' \in [Fds -> Inboxes]
        PROVE  TypeOK'
    <3>1. LoopOK'
      BY <2>2 DEF loop, LoopOK
    <3> QED BY <2>2, <3>1, InboxType
  <2>3. ASSUME NEW f, PeerSends(f) \/ OriginSends(f) PROVE TypeOK'
    <3>1. PICK m \in {"data", "shutdown"} : Delivers(f, m)
      BY <2>3 DEF PeerSends, OriginSends
    <3> QED BY <2>2, <3>1 DEF Delivers, KernelOK, Inboxes
  <2>4. ASSUME NEW f \in Reachable, PeerHangsUp(f) PROVE TypeOK'
    <3>1. f \in Fds
      BY DEF Reachable, Watched, LoopOK
    <3>2. KernelOK'
      BY <2>4, <3>1 DEF PeerHangsUp, KernelOK, Inboxes
    <3>3. LoopOK'
      BY <2>4 DEF PeerHangsUp, loop, LoopOK
    <3> QED BY <2>4, <3>2, <3>3 DEF PeerHangsUp
  <2>5. ASSUME NEW f, NEW g, FilterRuns(f, g) PROVE TypeOK'
    BY <2>2, <2>5 DEF FilterRuns, KernelOK, Inboxes
  <2>8. CASE OriginTakes
    BY <2>2, <2>8 DEF OriginTakes, KernelOK, Inboxes
  <2>6. CASE OriginCrashes
    <3>1. KernelOK' /\ WorldOK'
      BY <2>6 DEF OriginCrashes, KernelOK, WorldOK
    <3>2. LoopOK'
      BY <2>6 DEF OriginCrashes, loop, LoopOK
    <3> QED BY <2>6, <3>1, <3>2 DEF OriginCrashes
  <2>7. CASE OriginRestarts
    <3>1. WorldOK' /\ LoopOK'
      BY <2>7 DEF OriginRestarts, WorldOK, loop, LoopOK
    <3> QED BY <2>7, <3>1 DEF OriginRestarts
  <2> QED BY <1>11, <2>1, <2>3, <2>4, <2>5, <2>6, <2>7, <2>8 DEF PeerStep
<1>12. CASE UNCHANGED vars
  <2>1. LoopOK'
    BY <1>12 DEF vars, loop, LoopOK
  <2> QED BY <1>12, <2>1 DEF vars
<1> QED BY <1>2, <1>3, <1>4, <1>5, <1>6, <1>7, <1>8, <1>9, <1>10, <1>11, <1>12, <1>13
        DEF Next, ProxyStep

\* The type invariant holds in every state the proxy reaches.
THEOREM TypeCorrect == Spec => []TypeOK
<1>1. Init => TypeOK
  BY TypeInit
<1>2. TypeOK /\ [Next]_vars => TypeOK'
  BY TypeStep
<1> QED BY <1>1, <1>2, PTL DEF Spec

-----------------------------------------------------------------------------
(* The sessions.                                                           *)

LEMMA CoreInit == Init => Core
<1> SUFFICES ASSUME Init PROVE Core
  OBVIOUS
<1>1. NoAliasing /\ SessionIsolation
  BY DEF Init, NoAliasing, EntriesAreLive, EntriesAreApart, SessionIsolation
<1>2. Held = {}
  BY DEF Init, Held
<1>3. NoDoubleRelease
  BY <1>2, FS_EmptySet DEF NoDoubleRelease, Init
<1>4. BaseIsOpen
  BY DEF Init, BaseIsOpen
<1>5. OwnersHappened
  BY DEF Init, OwnersHappened
<1> QED BY <1>1, <1>3, <1>4, <1>5 DEF Core

LEMMA CoreSame ==
  ASSUME Core,
         UNCHANGED <<arrays, concurrentConnections, totalAccesses, kind, owner, genericOriginServer>>
  PROVE  Core'
<1>1. NoAliasing'
  BY DEF Core, NoAliasing, EntriesAreLive, EntriesAreApart, arrays
<1>2. SessionIsolation'
  BY DEF Core, SessionIsolation, Descriptors, arrays
<1>3. NoDoubleRelease'
  BY DEF Core, NoDoubleRelease, Held, arrays
<1>4. BaseIsOpen' /\ OwnersHappened'
  BY DEF Core, BaseIsOpen, OwnersHappened
<1> QED BY <1>1, <1>2, <1>3, <1>4 DEF Core

\* An entry that is set is open, and is not one the process started with.
LEMMA LiveEntries ==
  ASSUME TypeOK, NoAliasing, NEW i \in Slots, NEW f \in Descriptors(i), f > 0
  PROVE  f \in Fds /\ kind[f] \in {"client", "admin", "origin", "filterOut", "filterIn"}
<1>1. CASE f = clientSockets[i]
  <2>1. clientSockets[i] \in Fds
    BY DEF TypeOK, ArraysOK
  <2> QED BY <1>1, <2>1 DEF NoAliasing, EntriesAreLive
<1>2. CASE f = originServerSockets[i]
  <2>1. originServerSockets[i] \in Fds \cup {-1}
    BY DEF TypeOK, ArraysOK
  <2> QED BY <1>2, <2>1 DEF NoAliasing, EntriesAreLive
<1>3. CASE f = filterOutputs[i]
  <2>1. filterOutputs[i] \in Fds
    BY DEF TypeOK, ArraysOK
  <2> QED BY <1>3, <2>1 DEF NoAliasing, EntriesAreLive
<1>4. CASE f = filterInputs[i]
  <2>1. filterInputs[i] \in Fds
    BY DEF TypeOK, ArraysOK
  <2> QED BY <1>4, <2>1 DEF NoAliasing, EntriesAreLive
<1> QED BY <1>1, <1>2, <1>3, <1>4 DEF Descriptors

\* What is set in one slot is not in another.
LEMMA SlotsApart ==
  ASSUME TypeOK, NoAliasing, NEW i \in Slots, NEW j \in Slots, i # j,
         NEW f \in Descriptors(j), f > 0
  PROVE  f \notin Descriptors(i)
<1>1. CASE f = clientSockets[j]
  BY <1>1 DEF TypeOK, ArraysOK, NoAliasing, EntriesAreLive, EntriesAreApart, Descriptors
<1>2. CASE f = originServerSockets[j]
  BY <1>2 DEF TypeOK, ArraysOK, NoAliasing, EntriesAreLive, EntriesAreApart, Descriptors
<1>3. CASE f = filterOutputs[j]
  BY <1>3 DEF TypeOK, ArraysOK, NoAliasing, EntriesAreLive, EntriesAreApart, Descriptors
<1>4. CASE f = filterInputs[j]
  BY <1>4 DEF TypeOK, ArraysOK, NoAliasing, EntriesAreLive, EntriesAreApart, Descriptors
<1> QED BY <1>1, <1>2, <1>3, <1>4 DEF Descriptors

LEMMA HeldIsFinite == IsFiniteSet(Held) /\ Cardinality(Held) \in Nat
<1>1. IsFiniteSet(Slots)
  BY FS_Interval
<1>2. Held \subseteq Slots
  BY DEF Held
<1> QED BY <1>1, <1>2, FS_Subset, FS_CardinalityType

\* Releasing a slot that is held frees it, and takes one off the count.
LEMMA CountAfterRelease ==
  ASSUME TypeOK, NoDoubleRelease, NEW i \in Held, CloseAll(i, inbox)
  PROVE  NoDoubleRelease'
<1>1. Held' = Held \ {i}
  BY DEF Held, CloseAll, TypeOK, ArraysOK
<1>2. Cardinality(Held') = Cardinality(Held) - 1
  BY <1>1, HeldIsFinite, FS_RemoveElement
<1>3. concurrentConnections' = concurrentConnections - 1 /\ concurrentConnections \in Int
  BY DEF CloseAll, TypeOK, ConfigOK
<1> QED BY <1>2, <1>3, HeldIsFinite DEF NoDoubleRelease

\* Taking a slot, held or not, holds at most one slot more.
LEMMA CountAfterAccept ==
  ASSUME TypeOK, NoDoubleRelease, Counted, NEW i \in Slots, Held' \subseteq Held \cup {i}
  PROVE  NoDoubleRelease'
<1>1. IsFiniteSet(Held \cup {i}) /\ Cardinality(Held \cup {i}) \in Nat
  BY HeldIsFinite, FS_AddElement, FS_CardinalityType
<1>2. Cardinality(Held \cup {i}) <= Cardinality(Held) + 1
  BY HeldIsFinite, FS_AddElement, SMTT(30)
<1>3. Cardinality(Held') \in Nat /\ Cardinality(Held') <= Cardinality(Held \cup {i})
  BY <1>1, FS_Subset, FS_CardinalityType
<1>4. concurrentConnections' = concurrentConnections + 1 /\ concurrentConnections \in Int
  BY DEF Counted, TypeOK, ConfigOK
<1> QED BY <1>1, <1>2, <1>3, <1>4, HeldIsFinite DEF NoDoubleRelease

\* closeAll of a slot that is held leaves every other session as it was.
LEMMA CoreCloseAll ==
  ASSUME TypeOK, Core, NEW i \in Held, CloseAll(i, inbox), UNCHANGED genericOriginServer
  PROVE  Core'
<1> USE DEF Core
<1>0. i \in Slots
  BY DEF Held
<1>1. /\ clientSockets'       = [clientSockets       EXCEPT ![i] = 0]
      /\ originServerSockets' = [originServerSockets EXCEPT ![i] = 0]
      /\ filterOutputs'       = [filterOutputs       EXCEPT ![i] = 0]
      /\ filterInputs'        = [filterInputs        EXCEPT ![i] = 0]
      /\ clientTypeArray'     = [clientTypeArray     EXCEPT ![i] = 0]
  BY DEF CloseAll
<1>2. \A f \in Fds : f \notin Descriptors(i) => kind'[f] = kind[f] /\ owner'[f] = owner[f]
  BY DEF CloseAll, Close
<1>3. ASSUME NEW j \in Slots, j # i
      PROVE  /\ clientSockets'[j] = clientSockets[j]
             /\ originServerSockets'[j] = originServerSockets[j]
             /\ filterOutputs'[j] = filterOutputs[j]
             /\ filterInputs'[j] = filterInputs[j]
             /\ clientTypeArray'[j] = clientTypeArray[j]
             /\ Descriptors(j)' = Descriptors(j)
             /\ \A f \in Descriptors(j) : f > 0 =>
                    f \in Fds /\ kind'[f] = kind[f] /\ owner'[f] = owner[f]
  <2>1. /\ clientSockets'[j] = clientSockets[j]
        /\ originServerSockets'[j] = originServerSockets[j]
        /\ filterOutputs'[j] = filterOutputs[j]
        /\ filterInputs'[j] = filterInputs[j]
        /\ clientTypeArray'[j] = clientTypeArray[j]
    BY <1>1, <1>3 DEF TypeOK, ArraysOK
  <2>2. Descriptors(j)' = Descriptors(j)
    BY <2>1 DEF Descriptors
  <2>3. ASSUME NEW f \in Descriptors(j), f > 0
        PROVE  f \in Fds /\ kind'[f] = kind[f] /\ owner'[f] = owner[f]
    BY <1>0, <1>2, <1>3, <2>3, LiveEntries, SlotsApart
  <2> QED BY <2>1, <2>2, <2>3
<1>4. /\ clientSockets'[i] = 0 /\ originServerSockets'[i] = 0
      /\ filterOutputs'[i] = 0 /\ filterInputs'[i] = 0 /\ clientTypeArray'[i] = 0
  BY <1>0, <1>1 DEF TypeOK, ArraysOK
<1>5. EntriesAreLive'
  <2> SUFFICES ASSUME NEW j \in Slots
      PROVE  /\ clientSockets'[j] > 0 =>
                   kind'[clientSockets'[j]] = (IF clientTypeArray'[j] = ADMIN THEN "admin" ELSE "client")
             /\ clientSockets'[j] > 0 => clientTypeArray'[j] # 0
             /\ originServerSockets'[j] > 0 => kind'[originServerSockets'[j]] = "origin"
             /\ filterOutputs'[j] > 0 => kind'[filterOutputs'[j]] = "filterOut"
             /\ filterInputs'[j] > 0 => kind'[filterInputs'[j]] = "filterIn"
    BY DEF EntriesAreLive
  <2>1. CASE j = i
    BY <1>4, <2>1
  <2>2. CASE j # i
    BY <1>3, <2>2 DEF NoAliasing, EntriesAreLive, Descriptors
  <2> QED BY <2>1, <2>2
<1>6. EntriesAreApart'
  <2> SUFFICES ASSUME NEW j \in Slots, NEW k \in Slots, j # k
      PROVE  /\ clientSockets'[j] > 0 => clientSockets'[j] # clientSockets'[k]
             /\ originServerSockets'[j] > 0 => originServerSockets'[j] # originServerSockets'[k]
             /\ filterOutputs'[j] > 0 => filterOutputs'[j] # filterOutputs'[k]
             /\ filterInputs'[j] > 0 => filterInputs'[j] # filterInputs'[k]
    BY DEF EntriesAreApart
  <2>1. CASE j = i \/ k = i
    BY <1>3, <1>4, <2>1
  <2>2. CASE j # i /\ k # i
    BY <1>3, <2>2 DEF NoAliasing, EntriesAreApart
  <2> QED BY <2>1, <2>2
<1>7. SessionIsolation'
  <2> SUFFICES ASSUME NEW j \in Slots, NEW k \in Slots,
                      clientTypeArray'[j] = CLIENT, clientTypeArray'[k] = CLIENT,
                      NEW f \in Descriptors(j)' \cap (1 .. MAX_FD),
                      NEW g \in Descriptors(k)' \cap (1 .. MAX_FD)
               PROVE  (owner'[f] = owner'[g]) <=> (j = k)
    BY DEF SessionIsolation
  <2>1. j # i /\ k # i
    BY <1>4
  <2>2. /\ f \in Descriptors(j) /\ owner'[f] = owner[f] /\ clientTypeArray[j] = CLIENT
        /\ g \in Descriptors(k) /\ owner'[g] = owner[g] /\ clientTypeArray[k] = CLIENT
    BY <1>3, <2>1
  <2> QED BY <2>2 DEF SessionIsolation
<1>8. NoDoubleRelease'
  BY CountAfterRelease
<1>9. BaseIsOpen'
  <2>1. \A f \in Descriptors(i) : f > 0 => kind[f] \notin {"listen", "generic"}
    BY <1>0, LiveEntries
  <2>2. 3 \in Fds /\ 4 \in Fds /\ 5 \in Fds
    OBVIOUS
  <2>3. kind[5] = "generic" => kind'[5] = "generic"
    BY <1>2, <2>1, <2>2
  <2>4. kind'[3] = "listen" /\ kind'[4] = "listen"
    BY <1>2, <2>1, <2>2 DEF BaseIsOpen
  <2> QED BY <2>3, <2>4 DEF BaseIsOpen
<1>10. OwnersHappened'
  BY DEF CloseAll, Close, OwnersHappened, TypeOK, ConfigOK, KernelOK
<1> QED BY <1>5, <1>6, <1>7, <1>8, <1>9, <1>10 DEF NoAliasing

\* Opening descriptors that are free changes nothing about those that are not.
LEMMA OpensFree ==
  ASSUME TypeOK, NEW k, \A f \in DOMAIN k : f \in Fds => kind[f] = "closed",
         Opens(k), NEW f \in Fds, kind[f] # "closed"
  PROVE  kind'[f] = kind[f] /\ owner'[f] = owner[f]
  BY DEF Opens

\* What the accept of a connection into slot i does to the sessions: the client
\* socket and, if it is there, the origin socket of i are fresh; the filter ends
\* are fresh for a POP3 client, and what they were for an administrator.
LEMMA CoreAccept ==
  ASSUME TypeOK, Core, Counted, UNCHANGED genericOriginServer,
         NEW k, Opens(k), \A f \in DOMAIN k : f \in Fds => kind[f] = "closed",
         NEW i \in Slots, NEW type \in {CLIENT, ADMIN},
         NEW c \in Fds, NEW s \in Fds \cup {-1},
         NEW r \in Fds, NEW w \in Fds,
         c \in DOMAIN k, k[c] = (IF type = ADMIN THEN "admin" ELSE "client"),
         OriginEntry(s) > 0 => s \in DOMAIN k /\ k[s] = "origin",
         TakeSlot(i, type, c, s),
         filterOutputs' = [filterOutputs EXCEPT ![i] = r],
         filterInputs'  = [filterInputs  EXCEPT ![i] = w],
         \/ type = ADMIN /\ r = filterOutputs[i] /\ w = filterInputs[i]
         \/ /\ type = CLIENT
            /\ r \in DOMAIN k /\ k[r] = "filterOut" /\ w \in DOMAIN k /\ k[w] = "filterIn"
  PROVE  Core'
<1> USE DEF Core
<1> DEFINE o == OriginEntry(s)
<1>0. o \in {s, -1}
  BY DEF OriginEntry
<1>1. /\ clientSockets'[i] = c /\ originServerSockets'[i] = o
      /\ filterOutputs'[i] = r /\ filterInputs'[i] = w /\ clientTypeArray'[i] = type
  BY DEF TakeSlot, TypeOK, ArraysOK
<1>2. ASSUME NEW j \in Slots, j # i
      PROVE  /\ clientSockets'[j] = clientSockets[j]
             /\ originServerSockets'[j] = originServerSockets[j]
             /\ filterOutputs'[j] = filterOutputs[j]
             /\ filterInputs'[j] = filterInputs[j]
             /\ clientTypeArray'[j] = clientTypeArray[j]
             /\ Descriptors(j)' = Descriptors(j)
  <2>1. /\ clientSockets'[j] = clientSockets[j]
        /\ originServerSockets'[j] = originServerSockets[j]
        /\ filterOutputs'[j] = filterOutputs[j]
        /\ filterInputs'[j] = filterInputs[j]
        /\ clientTypeArray'[j] = clientTypeArray[j]
    BY <1>2 DEF TakeSlot, TypeOK, ArraysOK
  <2> QED BY <2>1 DEF Descriptors
<1>3. ASSUME NEW j \in Slots, NEW f \in Descriptors(j), f > 0
      PROVE  /\ f \in Fds /\ f \notin DOMAIN k
             /\ kind'[f] = kind[f] /\ owner'[f] = owner[f] /\ owner[f] <= totalAccesses
  <2>1. f \in Fds /\ kind[f] # "closed"
    BY <1>3, LiveEntries
  <2> QED BY <2>1, OpensFree DEF OwnersHappened
<1>4. ASSUME NEW f \in DOMAIN k, f \in Fds
      PROVE  kind'[f] = k[f] /\ owner'[f] = totalAccesses + 1
  BY <1>4 DEF Opens
<1>5. EntriesAreLive'
  <2> SUFFICES ASSUME NEW j \in Slots
      PROVE  /\ clientSockets'[j] > 0 =>
                   kind'[clientSockets'[j]] = (IF clientTypeArray'[j] = ADMIN THEN "admin" ELSE "client")
             /\ clientSockets'[j] > 0 => clientTypeArray'[j] # 0
             /\ originServerSockets'[j] > 0 => kind'[originServerSockets'[j]] = "origin"
             /\ filterOutputs'[j] > 0 => kind'[filterOutputs'[j]] = "filterOut"
             /\ filterInputs'[j] > 0 => kind'[filterInputs'[j]] = "filterIn"
    BY DEF EntriesAreLive
  <2>1. CASE j # i
    BY <1>2, <1>3, <2>1 DEF NoAliasing, EntriesAreLive, Descriptors
  <2>2. CASE j = i
    <3>1. kind'[c] = (IF type = ADMIN THEN "admin" ELSE "client") /\ type # 0
      BY <1>4
    <3>2. o > 0 => kind'[o] = "origin"
      BY <1>0, <1>4
    <3>3. r > 0 => kind'[r] = "filterOut"
      BY <1>3, <1>4 DEF NoAliasing, EntriesAreLive, Descriptors
    <3>4. w > 0 => kind'[w] = "filterIn"
      BY <1>3, <1>4 DEF NoAliasing, EntriesAreLive, Descriptors
    <3> QED BY <1>1, <2>2, <3>1, <3>2, <3>3, <3>4
  <2> QED BY <2>1, <2>2
<1>6. EntriesAreApart'
  <2>1. ASSUME NEW j \in Slots, j # i
        PROVE  /\ c > 0 => c # clientSockets[j]
               /\ o > 0 => o # originServerSockets[j]
               /\ r > 0 => r # filterOutputs[j]
               /\ w > 0 => w # filterInputs[j]
    <3>1. c > 0 => c # clientSockets[j]
      BY <1>3, <2>1 DEF Descriptors
    <3>2. o > 0 => o # originServerSockets[j]
      BY <1>0, <1>3, <2>1 DEF Descriptors
    <3>3. r > 0 => r # filterOutputs[j]
      BY <1>3, <2>1 DEF Descriptors, NoAliasing, EntriesAreApart
    <3>4. w > 0 => w # filterInputs[j]
      BY <1>3, <2>1 DEF Descriptors, NoAliasing, EntriesAreApart
    <3> QED BY <3>1, <3>2, <3>3, <3>4
  <2> SUFFICES ASSUME NEW j \in Slots, NEW l \in Slots, j # l
      PROVE  /\ clientSockets'[j] > 0 => clientSockets'[j] # clientSockets'[l]
             /\ originServerSockets'[j] > 0 => originServerSockets'[j] # originServerSockets'[l]
             /\ filterOutputs'[j] > 0 => filterOutputs'[j] # filterOutputs'[l]
             /\ filterInputs'[j] > 0 => filterInputs'[j] # filterInputs'[l]
    BY DEF EntriesAreApart
  <2>2. CASE j # i /\ l # i
    BY <1>2, <2>2 DEF NoAliasing, EntriesAreApart
  <2>3. CASE j = i
    BY <1>1, <1>2, <2>1, <2>3
  <2>4. CASE l = i
    BY <1>1, <1>2, <2>1, <2>4
  <2> QED BY <2>2, <2>3, <2>4
<1>7. SessionIsolation'
  <2> SUFFICES ASSUME NEW j \in Slots, NEW l \in Slots,
                      clientTypeArray'[j] = CLIENT, clientTypeArray'[l] = CLIENT,
                      NEW f \in Descriptors(j)' \cap (1 .. MAX_FD),
                      NEW g \in Descriptors(l)' \cap (1 .. MAX_FD)
               PROVE  (owner'[f] = owner'[g]) <=> (j = l)
    BY DEF SessionIsolation
  <2>1. ASSUME NEW h \in Descriptors(i)' \cap (1 .. MAX_FD), type = CLIENT
        PROVE  owner'[h] = totalAccesses + 1
    <3>1. h \in {c, o, r, w} /\ h > 0 /\ h \in Fds
      BY <1>1 DEF Descriptors
    <3>2. h \in DOMAIN k
      BY <1>0, <2>1, <3>1
    <3> QED BY <1>4, <3>1, <3>2
  <2>2. ASSUME NEW j0 \in Slots, j0 # i, NEW h \in Descriptors(j0)' \cap (1 .. MAX_FD)
        PROVE  h \in Descriptors(j0) \cap (1 .. MAX_FD) /\ owner'[h] = owner[h]
               /\ owner[h] \in Nat /\ owner[h] <= totalAccesses
    <3>1. h \in Descriptors(j0) /\ h > 0
      BY <1>2, <2>2
    <3> QED BY <1>3, <2>2, <3>1 DEF TypeOK, KernelOK
  <2>3. totalAccesses \in Nat
    BY DEF TypeOK, ConfigOK
  <2>4. CASE j # i /\ l # i
    <3>1. clientTypeArray[j] = CLIENT /\ clientTypeArray[l] = CLIENT
      BY <1>2, <2>4
    <3> QED BY <2>2, <2>4, <3>1 DEF SessionIsolation
  <2>5. CASE j = i /\ l # i
    BY <1>1, <2>1, <2>2, <2>3, <2>5
  <2>6. CASE j # i /\ l = i
    BY <1>1, <2>1, <2>2, <2>3, <2>6
  <2>7. CASE j = i /\ l = i
    BY <1>1, <2>1, <2>7
  <2> QED BY <2>4, <2>5, <2>6, <2>7
<1>8. NoDoubleRelease'
  <2>1. Held' \subseteq Held \cup {i}
    BY <1>2 DEF Held
  <2> QED BY <2>1, CountAfterAccept
<1>9. BaseIsOpen'
  <2>1. kind'[3] = kind[3] /\ kind'[4] = kind[4]
    BY OpensFree DEF BaseIsOpen
  <2>2. kind[5] = "generic" => kind'[5] = "generic"
    BY OpensFree
  <2> QED BY <2>1, <2>2 DEF BaseIsOpen
<1>10. OwnersHappened'
  BY DEF Opens, Counted, OwnersHappened, TypeOK, ConfigOK, KernelOK
<1> QED BY <1>5, <1>6, <1>7, <1>8, <1>9, <1>10 DEF NoAliasing

\* An access that takes no slot, whether or not it leaves descriptors open.
LEMMA CoreCounted ==
  ASSUME TypeOK, Core, Counted, UNCHANGED arrays, UNCHANGED genericOriginServer,
         \A f \in Fds : kind[f] # "closed" => kind'[f] = kind[f] /\ owner'[f] = owner[f],
         \A f \in Fds : owner'[f] <= totalAccesses'
  PROVE  Core'
<1> USE DEF Core
<1>1. ASSUME NEW j \in Slots, NEW f \in Descriptors(j), f > 0
      PROVE  f \in Fds /\ kind'[f] = kind[f] /\ owner'[f] = owner[f]
  <2>1. f \in Fds /\ kind[f] # "closed"
    BY <1>1, LiveEntries
  <2> QED BY <2>1
<1>2. NoAliasing'
  <2>1. EntriesAreLive'
    BY <1>1 DEF NoAliasing, EntriesAreLive, arrays, Descriptors
  <2>2. EntriesAreApart'
    BY DEF NoAliasing, EntriesAreApart, arrays
  <2> QED BY <2>1, <2>2 DEF NoAliasing
<1>3. SessionIsolation'
  <2>1. \A j \in Slots : Descriptors(j)' = Descriptors(j) /\ clientTypeArray'[j] = clientTypeArray[j]
    BY DEF arrays, Descriptors
  <2>2. \A j \in Slots : \A f \in Descriptors(j) \cap (1 .. MAX_FD) : owner'[f] = owner[f]
    BY <1>1
  <2> QED BY <2>1, <2>2 DEF SessionIsolation
<1>4. NoDoubleRelease'
  <2>1. Held' = Held
    BY DEF Held, arrays
  <2>2. concurrentConnections' = concurrentConnections + 1 /\ concurrentConnections \in Int
    BY DEF Counted, TypeOK, ConfigOK
  <2> QED BY <2>1, <2>2, HeldIsFinite DEF NoDoubleRelease
<1>5. BaseIsOpen'
  BY DEF BaseIsOpen
<1>6. OwnersHappened'
  BY DEF OwnersHappened
<1> QED BY <1>2, <1>3, <1>4, <1>5, <1>6

\* The end of an administrator's connection closes one descriptor, and forgets it.
LEMMA CoreAdminGone ==
  ASSUME TypeOK, Core, NEW i \in Slots, clientSockets[i] > 0,
         Close({clientSockets[i]}, inbox),
         clientSockets'   = [clientSockets   EXCEPT ![i] = 0],
         clientTypeArray' = [clientTypeArray EXCEPT ![i] = 0],
         UNCHANGED <<originServerSockets, filterOutputs, filterInputs, config, genericOriginServer>>
  PROVE  Core'
<1> USE DEF Core
<1> DEFINE d == clientSockets[i]
<1>0. d \in Fds /\ kind[d] \in {"client", "admin"}
  BY DEF TypeOK, ArraysOK, NoAliasing, EntriesAreLive
<1>1. \A f \in Fds : f # d => kind'[f] = kind[f] /\ owner'[f] = owner[f]
  BY DEF Close
<1>2. /\ clientSockets'[i] = 0 /\ clientTypeArray'[i] = 0
      /\ \A j \in Slots : j # i => /\ clientSockets'[j] = clientSockets[j]
                                   /\ clientTypeArray'[j] = clientTypeArray[j]
                                   /\ Descriptors(j)' = Descriptors(j)
  BY DEF TypeOK, ArraysOK, Descriptors
<1>3. ASSUME NEW j \in Slots
      PROVE  /\ originServerSockets[j] > 0 => originServerSockets[j] # d
             /\ filterOutputs[j] > 0 => filterOutputs[j] # d
             /\ filterInputs[j] > 0 => filterInputs[j] # d
             /\ j # i => clientSockets[j] # d
  <2>1. originServerSockets[j] > 0 => originServerSockets[j] # d
    BY <1>0, <1>3 DEF NoAliasing, EntriesAreLive
  <2>2. filterOutputs[j] > 0 => filterOutputs[j] # d
    BY <1>0, <1>3 DEF NoAliasing, EntriesAreLive
  <2>3. filterInputs[j] > 0 => filterInputs[j] # d
    BY <1>0, <1>3 DEF NoAliasing, EntriesAreLive
  <2>4. j # i => clientSockets[j] # d
    BY <1>3 DEF NoAliasing, EntriesAreApart
  <2> QED BY <2>1, <2>2, <2>3, <2>4
<1>4. EntriesAreLive'
  <2> SUFFICES ASSUME NEW j \in Slots
      PROVE  /\ clientSockets'[j] > 0 =>
                   kind'[clientSockets'[j]] = (IF clientTypeArray'[j] = ADMIN THEN "admin" ELSE "client")
             /\ clientSockets'[j] > 0 => clientTypeArray'[j] # 0
             /\ originServerSockets[j] > 0 => kind'[originServerSockets[j]] = "origin"
             /\ filterOutputs[j] > 0 => kind'[filterOutputs[j]] = "filterOut"
             /\ filterInputs[j] > 0 => kind'[filterInputs[j]] = "filterIn"
    BY DEF EntriesAreLive
  <2>1. originServerSockets[j] > 0 => kind'[originServerSockets[j]] = "origin"
    <3>1. originServerSockets[j] \in Fds \cup {-1}
      BY DEF TypeOK, ArraysOK
    <3>2. originServerSockets[j] > 0 => kind[originServerSockets[j]] = "origin"
      BY DEF NoAliasing, EntriesAreLive
    <3> QED BY <1>1, <1>3, <3>1, <3>2
  <2>2. filterOutputs[j] > 0 => kind'[filterOutputs[j]] = "filterOut"
    BY <1>1, <1>3 DEF NoAliasing, EntriesAreLive, TypeOK, ArraysOK
  <2>3. filterInputs[j] > 0 => kind'[filterInputs[j]] = "filterIn"
    BY <1>1, <1>3 DEF NoAliasing, EntriesAreLive, TypeOK, ArraysOK
  <2>4. j # i /\ clientSockets[j] > 0 =>
            /\ kind'[clientSockets[j]] = (IF clientTypeArray[j] = ADMIN THEN "admin" ELSE "client")
            /\ clientTypeArray[j] # 0
    <3>1. clientSockets[j] \in Fds
      BY DEF TypeOK, ArraysOK
    <3>2. j # i => kind'[clientSockets[j]] = kind[clientSockets[j]]
      BY <1>1, <1>3, <3>1
    <3> QED BY <3>1, <3>2 DEF NoAliasing, EntriesAreLive
  <2> QED BY <1>2, <2>1, <2>2, <2>3, <2>4
<1>5. EntriesAreApart'
  BY <1>2 DEF NoAliasing, EntriesAreApart
<1>6. SessionIsolation'
  <2> SUFFICES ASSUME NEW j \in Slots, NEW k \in Slots,
                      clientTypeArray'[j] = CLIENT, clientTypeArray'[k] = CLIENT,
                      NEW f \in Descriptors(j)' \cap (1 .. MAX_FD),
                      NEW g \in Descriptors(k)' \cap (1 .. MAX_FD)
               PROVE  (owner'[f] = owner'[g]) <=> (j = k)
    BY DEF SessionIsolation
  <2>1. j # i /\ k # i
    BY <1>2
  <2>2. d \in Descriptors(i)
    BY DEF Descriptors
  <2>3. f \in Descriptors(j) /\ f # d /\ clientTypeArray[j] = CLIENT
    BY <1>2, <2>1, <2>2, SlotsApart
  <2>4. g \in Descriptors(k) /\ g # d /\ clientTypeArray[k] = CLIENT
    BY <1>2, <2>1, <2>2, SlotsApart
  <2>5. owner'[f] = owner[f] /\ owner'[g] = owner[g]
    BY <1>1, <2>3, <2>4
  <2> QED BY <2>3, <2>4, <2>5 DEF SessionIsolation
<1>7. NoDoubleRelease'
  <2>1. Held' \subseteq Held
    BY <1>2 DEF Held
  <2>2. Cardinality(Held') \in Nat /\ Cardinality(Held') <= Cardinality(Held)
    BY <2>1, HeldIsFinite, FS_Subset, FS_CardinalityType
  <2>3. concurrentConnections' = concurrentConnections /\ concurrentConnections \in Int
    BY DEF config, TypeOK, ConfigOK
  <2> QED BY <2>2, <2>3, HeldIsFinite DEF NoDoubleRelease
<1>8. BaseIsOpen'
  <2>1. 3 \in Fds /\ 4 \in Fds /\ 5 \in Fds
    OBVIOUS
  <2> QED BY <1>0, <1>1, <2>1 DEF BaseIsOpen
<1>9. OwnersHappened'
  BY DEF Close, config, OwnersHappened, TypeOK, ConfigOK, KernelOK
<1> QED BY <1>4, <1>5, <1>6, <1>7, <1>8, <1>9 DEF NoAliasing

-----------------------------------------------------------------------------
(* The core is inductive: one case per step.                               *)

LEMMA CoreStep == TypeOK /\ Core /\ CapaHasClient /\ [Next]_vars => Core'
<1> SUFFICES ASSUME TypeOK, Core, CapaHasClient, [Next]_vars PROVE Core'
  OBVIOUS
<1> USE CoreSame
<1>1. CASE Exit
  BY <1>1 DEF Exit, config, kernel, world
<1>2. CASE SelectReturns
  BY <1>2 DEF SelectReturns, config, kernel, world
<1>3. CASE UpdateOriginOpenness
  BY <1>3 DEF UpdateOriginOpenness, world
<1>4. CASE CheckForNewAdmin
  <2>1. CASE NobodyWaits(configSocketFd, "pop")
    BY <2>1 DEF NobodyWaits, config, kernel, world
  <2>2. CASE AcceptAdmin
    <3>0. Counted /\ UNCHANGED genericOriginServer
      BY <2>2 DEF AcceptAdmin
    <3>1. CASE \E i \in Slots, c \in Fresh(0), s \in OriginSocket :
                  /\ Opens([f \in {c, s} |-> IF f = c THEN "admin" ELSE OriginKind])
                  /\ TakeSlot(i, ADMIN, c, s)
                  /\ UNCHANGED <<filterOutputs, filterInputs>>
      <4> PICK i \in Slots, c \in Fresh(0), s \in OriginSocket :
                  /\ Opens([f \in {c, s} |-> IF f = c THEN "admin" ELSE OriginKind])
                  /\ TakeSlot(i, ADMIN, c, s)
                  /\ UNCHANGED <<filterOutputs, filterInputs>>
        BY <3>1
      <4> DEFINE k == [f \in {c, s} |-> IF f = c THEN "admin" ELSE OriginKind]
      <4>1. c \in Fds /\ kind[c] = "closed"
        BY FreshIsFree
      <4>2. s = -1 \/ (s \in Fds /\ kind[s] = "closed" /\ s # c)
        BY FreshIsFree, FreshDiffer DEF OriginSocket
      <4>3. \A f \in DOMAIN k : f \in Fds => kind[f] = "closed"
        BY <4>1, <4>2
      <4>4. OriginEntry(s) > 0 => s \in DOMAIN k /\ k[s] = "origin"
        BY <4>2 DEF OriginEntry, Connected, OriginKind
      <4>5. filterOutputs[i] \in Fds /\ filterInputs[i] \in Fds
        BY DEF TypeOK, ArraysOK
      <4>6. /\ filterOutputs' = [filterOutputs EXCEPT ![i] = filterOutputs[i]]
            /\ filterInputs'  = [filterInputs  EXCEPT ![i] = filterInputs[i]]
        BY DEF TypeOK, ArraysOK
      <4>7. c \in DOMAIN k /\ k[c] = (IF ADMIN = ADMIN THEN "admin" ELSE "client")
        OBVIOUS
      <4> HIDE DEF k
      <4>8. Opens(k)
        BY DEF k
      <4> QED BY <3>0, <4>1, <4>2, <4>3, <4>4, <4>5, <4>6, <4>7, <4>8, CoreAccept
    <3>2. CASE \E c \in Fresh(0) :
                  /\ Opens([f \in {c} |-> "leaked"])
                  /\ UNCHANGED <<arrays, originServerIsActive>>
      <4> PICK c \in Fresh(0) : /\ Opens([f \in {c} |-> "leaked"])
                                /\ UNCHANGED <<arrays, originServerIsActive>>
        BY <3>2
      <4>1. \A f \in Fds : kind[f] # "closed" => kind'[f] = kind[f] /\ owner'[f] = owner[f]
        BY FreshIsFree DEF Opens
      <4>2. \A f \in Fds : owner'[f] <= totalAccesses'
        BY <3>0 DEF Opens, Counted, Core, OwnersHappened, TypeOK, ConfigOK, KernelOK
      <4> QED BY <3>0, <4>1, <4>2, CoreCounted
    <3> QED BY <2>2, <3>1, <3>2 DEF AcceptAdmin
  <2> QED BY <1>1, <1>4, <2>1, <2>2 DEF CheckForNewAdmin, AcceptFails
<1>5. CASE CheckForNewClient
  <2>1. CASE NobodyWaits(popSocketFd, "clients")
    BY <2>1 DEF NobodyWaits, config, kernel, world
  <2>2. CASE RefuseClient
    <3>1. CASE /\ Counted /\ UNCHANGED arrays /\ UNCHANGED genericOriginServer
               /\ UNCHANGED <<kind, owner>>
      <4>1. \A f \in Fds : owner'[f] <= totalAccesses'
        BY <3>1 DEF Counted, Core, OwnersHappened, TypeOK, ConfigOK, KernelOK
      <4> QED BY <3>1, <4>1, CoreCounted
    <3> QED BY <1>1, <2>2, <3>1 DEF RefuseClient, kernel
  <2>3. CASE AcceptClient
    <3> PICK i \in Slots, c \in Fresh(0), s \in Fresh(1),
             r1 \in Fresh(2), w1 \in Fresh(3), r2 \in Fresh(4), w2 \in Fresh(5) :
             /\ Opens(SessionKinds(c, s, r1, w1, r2, w2))
             /\ TakeSlot(i, CLIENT, c, s)
             /\ filterOutputs' = [filterOutputs EXCEPT ![i] = r1]
             /\ filterInputs'  = [filterInputs  EXCEPT ![i] = w2]
      BY <2>3, ZenonT(30) DEF AcceptClient
    <3> DEFINE k == SessionKinds(c, s, r1, w1, r2, w2)
    <3>1. \A f \in {c, s, r1, w1, r2, w2} : f \in Fds /\ kind[f] = "closed"
      BY FreshIsFree
    <3>2. DOMAIN k = {c, s, r1, w1, r2, w2}
      BY DEF SessionKinds
    <3>3. c # s /\ c # r1 /\ s # r1 /\ c # w2 /\ s # w2 /\ r1 # w2
      BY FreshDiffer
    <3>4. k[c] = "client" /\ k[r1] = "filterOut" /\ k[w2] = "filterIn"
      BY <3>3 DEF SessionKinds
    <3>5. OriginEntry(s) > 0 => k[s] = "origin"
      BY <3>3 DEF SessionKinds, OriginEntry, Connected, OriginKind
    <3>6. k[c] = (IF CLIENT = ADMIN THEN "admin" ELSE "client")
      BY <3>4
    <3>7. Opens(k) /\ Counted /\ UNCHANGED genericOriginServer
      BY <2>3 DEF AcceptClient
    <3> HIDE DEF k
    <3> QED BY <3>1, <3>2, <3>4, <3>5, <3>6, <3>7, CoreAccept
  <2>4. CASE AcceptBeyondTable
    <3> PICK c \in Fresh(0), r1 \in Fresh(1), w1 \in Fresh(2), r2 \in Fresh(3), w2 \in Fresh(4) :
             Opens([f \in {c, r1, w1, r2, w2} |-> "leaked"])
      BY <2>4 DEF AcceptBeyondTable
    <3>0. Counted /\ UNCHANGED arrays /\ UNCHANGED genericOriginServer
      BY <2>4 DEF AcceptBeyondTable
    <3>1. \A f \in Fds : kind[f] # "closed" => kind'[f] = kind[f] /\ owner'[f] = owner[f]
      BY FreshIsFree DEF Opens
    <3>2. \A f \in Fds : owner'[f] <= totalAccesses'
      BY <3>0 DEF Opens, Counted, Core, OwnersHappened, TypeOK, ConfigOK, KernelOK
    <3> QED BY <3>0, <3>1, <3>2, CoreCounted
  <2> QED BY <1>1, <1>5, <2>1, <2>2, <2>3, <2>4 DEF CheckForNewClient, AcceptFails, PipesFail
<1>6. CASE Greet
  BY <1>1, <1>6 DEF Greet, BrokenPipe, config, world
<1>7. CASE ReadFromClients
  <2>1. CASE UNCHANGED <<arrays, config, kernel, world>>
    BY <2>1 DEF config, kernel, world
  <2>2. CASE clientSockets[slot] \in readfds
    <3>0. slot \in Slots
      BY <1>7 DEF ReadFromClients, TypeOK, LoopOK
    <3>a. clientSockets[slot] > 0
      <4>1. readfds \subseteq 1 .. MAX_FD
        BY DEF TypeOK, LoopOK
      <4>2. clientSockets[slot] \in 1 .. MAX_FD
        BY <2>2, <4>1
      <4> QED BY <4>2
    <3>1. slot \in Held
      BY <3>0, <3>a DEF Held
    <3>2. CloseAll(slot, inbox) /\ UNCHANGED world => Core'
      BY <3>1, CoreCloseAll DEF world
    <3>3. CASE AdminCommand(slot)
      <4>1. CASE UNCHANGED <<arrays, config, kind, owner, hup, world>>
        BY <4>1 DEF config, world
      <4>2. CASE /\ Close({clientSockets[slot]}, inbox)
                 /\ clientSockets'   = [clientSockets   EXCEPT ![slot] = 0]
                 /\ clientTypeArray' = [clientTypeArray EXCEPT ![slot] = 0]
                 /\ UNCHANGED <<originServerSockets, filterOutputs, filterInputs, config, world>>
        BY <3>0, <3>a, <4>2, CoreAdminGone DEF world
      <4> QED BY <1>1, <3>3, <4>1, <4>2 DEF AdminCommand, BrokenPipe
    <3>4. CASE DismissClient(slot)
      BY <1>1, <3>2, <3>4 DEF DismissClient, BrokenPipe
    <3>5. CASE AttendClient(slot)
      BY <1>1, <2>1, <3>2, <3>5 DEF AttendClient, BrokenPipe
    <3> QED BY <1>7, <2>2, <3>3, <3>4, <3>5 DEF ReadFromClients
  <2> QED BY <1>7, <2>1, <2>2 DEF ReadFromClients
<1>8. CASE CapaAnswer
  <2>1. CASE CloseAll(slot, inbox) /\ UNCHANGED world
    <3>1. slot \in Held
      BY <1>8 DEF CapaAnswer, CapaHasClient, Held, TypeOK, LoopOK
    <3> QED BY <2>1, <3>1, CoreCloseAll DEF world
  <2>2. CASE UNCHANGED <<arrays, config, kind, owner, hup, world>>
    BY <2>2 DEF config, world
  <2> QED BY <1>8, <2>1, <2>2 DEF CapaAnswer
<1>13. CASE ReadFromClient
  <2>1. CASE CloseAll(slot, inbox) /\ UNCHANGED world
    <3>1. slot \in Held
      BY <1>13 DEF ReadFromClient, CapaHasClient, Held, TypeOK, LoopOK
    <3> QED BY <2>1, <3>1, CoreCloseAll DEF world
  <2>2. CASE UNCHANGED <<arrays, config, kind, owner, hup, world>>
    BY <2>2 DEF config, world
  <2> QED BY <1>1, <1>13, <2>1, <2>2 DEF ReadFromClient, BrokenPipe, kernel
<1>9. CASE OriginServerResponses
  <2>1. CASE UNCHANGED <<arrays, config, kind, owner, world>>
    BY <2>1 DEF config, world
  <2>2. CASE /\ originServerSockets[slot] = -1 \/ originServerSockets[slot] \in readfds
             /\ CloseAll(slot, inbox) /\ UNCHANGED world
    <3>1. slot \in Slots /\ originServerSockets[slot] # 0
      BY <1>9, <2>2 DEF OriginServerResponses, TypeOK, LoopOK
    <3>2. slot \in Held
      BY <3>1 DEF Held
    <3> QED BY <2>2, <3>2, CoreCloseAll DEF world
  <2> QED BY <1>1, <1>9, <2>1, <2>2 DEF OriginServerResponses, BrokenPipe, kernel
<1>10. CASE ReadFilters
  BY <1>1, <1>10 DEF ReadFilters, BrokenPipe, config, world
<1>11. CASE PeerStep
  <2>1. CASE UNCHANGED <<arrays, config, kind, owner, genericOriginServer>>
    BY <2>1 DEF config
  <2>2. ASSUME NEW type, ConnectionArrives(type) PROVE Core'
    BY <2>1, <2>2 DEF ConnectionArrives, kernel
  <2>3. ASSUME NEW f, NEW m, Delivers(f, m) PROVE Core'
    BY <2>1, <2>3 DEF Delivers, world
  <2>4. ASSUME NEW f, PeerSends(f) \/ OriginSends(f) \/ PeerHangsUp(f) PROVE Core'
    BY <2>1, <2>3, <2>4 DEF PeerSends, OriginSends, PeerHangsUp, world
  <2>5. ASSUME NEW f, NEW g, FilterRuns(f, g) PROVE Core'
    BY <2>1, <2>5 DEF FilterRuns, world
  <2>6. CASE OriginTakes \/ OriginCrashes \/ OriginRestarts
    BY <2>1, <2>6 DEF OriginTakes, OriginCrashes, OriginRestarts, world, kernel
  <2> QED BY <1>11, <2>2, <2>4, <2>5, <2>6 DEF PeerStep
<1>12. CASE UNCHANGED vars
  BY <1>12 DEF vars, config, kernel, world
<1> QED BY <1>2, <1>3, <1>4, <1>5, <1>6, <1>7, <1>8, <1>9, <1>10, <1>11, <1>12, <1>13
        DEF Next, ProxyStep

-----------------------------------------------------------------------------
(* Nothing is stranded.                                                    *)

\* The descriptors NothingStranded speaks of.
Worked == {"client", "admin", "filterOut", "filterIn"}

\* Of what is opened, all of it free until then, only c, r and w are such.
OpensOnly(k, c, r, w) ==
    /\ c \in DOMAIN k
    /\ \A f \in DOMAIN k :
           /\ f \in Fds => kind[f] = "closed"
           /\ k[f] # "std"
           /\ k[f] \in Worked => f \in {c, r, w}

LEMMA TidyInit == Init => Tidy
  BY DEF Init, Tidy, NothingStranded, SlotsTell, Open

LEMMA TidySame == ASSUME Tidy, UNCHANGED <<arrays, kind>> PROVE Tidy'
  BY DEF Tidy, NothingStranded, SlotsTell, Open, Descriptors, arrays

\* closeAll closes every descriptor of its slot, and 0 with them if one is missing.
LEMMA TidyCloseAll ==
  ASSUME TypeOK, Tidy, NEW i \in Slots, CloseAll(i, inbox)
  PROVE  Tidy'
<1> SUFFICES ASSUME kind'[0] = "std" PROVE NothingStranded' /\ SlotsTell'
  BY DEF Tidy, NothingStranded
<1>0. 0 \in Fds
  OBVIOUS
<1>1. \A f \in Fds : kind'[f] = IF f \in Descriptors(i) THEN "closed" ELSE kind[f]
  BY DEF CloseAll, Close
<1>2. kind[0] = "std"
  BY <1>0, <1>1
<1>3. /\ clientSockets'[i] = 0 /\ clientTypeArray'[i] = 0
      /\ filterOutputs'[i] = 0 /\ filterInputs'[i] = 0
  BY DEF CloseAll, TypeOK, ArraysOK
<1>4. ASSUME NEW j \in Slots, j # i
      PROVE  /\ clientSockets'[j] = clientSockets[j] /\ clientTypeArray'[j] = clientTypeArray[j]
             /\ originServerSockets'[j] = originServerSockets[j]
             /\ filterOutputs'[j] = filterOutputs[j] /\ filterInputs'[j] = filterInputs[j]
  BY <1>4 DEF CloseAll, TypeOK, ArraysOK
<1>5. SlotsTell'
  BY <1>2, <1>3, <1>4 DEF SlotsTell, Tidy
<1>6. NothingStranded'
  <2> SUFFICES ASSUME NEW f \in Fds, kind'[f] \in Worked
               PROVE  \E j \in Slots : f \in Descriptors(j)'
    BY DEF NothingStranded, Open, Worked
  <2>1. f \notin Descriptors(i) /\ kind'[f] = kind[f]
    BY <1>1 DEF Worked
  <2>2. PICK j \in Slots : f \in Descriptors(j)
    BY <1>2, <2>1 DEF Tidy, NothingStranded, Open, Worked
  <2>3. Descriptors(j)' = Descriptors(j)
    BY <1>4, <2>1, <2>2 DEF Descriptors
  <2> QED BY <2>2, <2>3
<1> QED BY <1>5, <1>6

\* The end of an administrator's connection closes the one descriptor it forgets.
LEMMA TidyAdminGone ==
  ASSUME TypeOK, Tidy, NEW i \in Slots, clientTypeArray[i] = ADMIN,
         Close({clientSockets[i]}, inbox),
         clientSockets'   = [clientSockets   EXCEPT ![i] = 0],
         clientTypeArray' = [clientTypeArray EXCEPT ![i] = 0],
         UNCHANGED <<originServerSockets, filterOutputs, filterInputs>>
  PROVE  Tidy'
<1> SUFFICES ASSUME kind'[0] = "std" PROVE NothingStranded' /\ SlotsTell'
  BY DEF Tidy, NothingStranded
<1> DEFINE d == clientSockets[i]
<1>0. 0 \in Fds
  OBVIOUS
<1>1. \A f \in Fds : kind'[f] = IF f = d THEN "closed" ELSE kind[f]
  BY DEF Close
<1>2. kind[0] = "std" /\ SlotsTell
  BY <1>0, <1>1 DEF Tidy
<1>3. clientSockets'[i] = 0 /\ clientTypeArray'[i] = 0
  BY DEF TypeOK, ArraysOK
<1>4. \A j \in Slots : j # i =>
         clientSockets'[j] = clientSockets[j] /\ clientTypeArray'[j] = clientTypeArray[j]
  BY DEF TypeOK, ArraysOK
<1>5. SlotsTell'
  BY <1>2, <1>3, <1>4 DEF SlotsTell
<1>6. NothingStranded'
  <2> SUFFICES ASSUME NEW f \in Fds, kind'[f] \in Worked
               PROVE  \E j \in Slots : f \in Descriptors(j)'
    BY DEF NothingStranded, Open, Worked
  <2>1. f # d /\ kind'[f] = kind[f]
    BY <1>1 DEF Worked
  <2>2. PICK j \in Slots : f \in Descriptors(j)
    BY <1>2, <2>1 DEF Tidy, NothingStranded, Open, Worked
  <2>3. f \in Descriptors(j)'
    BY <1>4, <2>1, <2>2 DEF Descriptors
  <2> QED BY <2>3
<1> QED BY <1>5, <1>6

\* An access that takes no slot leaves open no descriptor of those kinds.
LEMMA TidyLeaks ==
  ASSUME TypeOK, Tidy, NEW C, Opens([f \in C |-> "leaked"]), UNCHANGED arrays,
         \A f \in C : f \in Fds => kind[f] = "closed"
  PROVE  Tidy'
<1>1. \A f \in Fds : kind'[f] = IF f \in C THEN "leaked" ELSE kind[f]
  BY DEF Opens
<1>2. 0 \in Fds
  OBVIOUS
<1>3. kind'[0] = "std" => kind[0] = "std"
  BY <1>1, <1>2
<1>4. \A j \in Slots : Descriptors(j)' = Descriptors(j)
  BY DEF Descriptors, arrays
<1>5. kind[0] = "std" => \A f \in Fds : kind[f] \in Worked => \E j \in Slots : f \in Descriptors(j)
  BY DEF Tidy, NothingStranded, Open, Worked
<1>6. NothingStranded'
  <2> SUFFICES ASSUME kind'[0] = "std", NEW f \in Fds, kind'[f] \in Worked
               PROVE  \E j \in Slots : f \in Descriptors(j)'
    BY DEF NothingStranded, Open, Worked
  <2>1. kind[f] \in Worked
    BY <1>1 DEF Worked
  <2> QED BY <1>3, <1>4, <1>5, <2>1
<1>7. kind'[0] = "std" => SlotsTell'
  BY <1>3 DEF Tidy, SlotsTell, arrays
<1> QED BY <1>6, <1>7 DEF Tidy

\* The slot an access takes had no client, hence no filter: of what its entries
\* named only a connection to the origin is overwritten.
LEMMA TidyAccept ==
  ASSUME TypeOK, Tidy, NEW k, Opens(k),
         NEW i \in Slots, clientSockets[i] = 0, NEW type \in {CLIENT, ADMIN},
         NEW c \in Fds, NEW s \in Fds \cup {-1}, NEW r \in Fds, NEW w \in Fds,
         TakeSlot(i, type, c, s), EntriesAreLive,
         filterOutputs' = [filterOutputs EXCEPT ![i] = r],
         filterInputs'  = [filterInputs  EXCEPT ![i] = w],
         type = CLIENT \/ UNCHANGED <<filterOutputs, filterInputs>>,
         OpensOnly(k, c, r, w)
  PROVE  Tidy'
<1> SUFFICES ASSUME kind'[0] = "std" PROVE NothingStranded' /\ SlotsTell'
  BY DEF Tidy, NothingStranded
<1>0. 0 \in Fds
  OBVIOUS
<1>1. \A f \in Fds : kind'[f] = IF f \in DOMAIN k THEN k[f] ELSE kind[f]
  BY DEF Opens
<1>2. kind[0] = "std" /\ SlotsTell
  BY <1>0, <1>1 DEF Tidy, OpensOnly
<1>3. c # 0
  BY <1>0, <1>2 DEF OpensOnly
<1>4. clientSockets[i] = 0 /\ filterOutputs[i] = 0 /\ filterInputs[i] = 0
  BY <1>2 DEF SlotsTell
<1>5. /\ clientSockets'[i] = c /\ clientTypeArray'[i] = type
      /\ filterOutputs'[i] = r /\ filterInputs'[i] = w
  BY DEF TakeSlot, TypeOK, ArraysOK
<1>6. ASSUME NEW j \in Slots, j # i
      PROVE  /\ clientSockets'[j] = clientSockets[j] /\ clientTypeArray'[j] = clientTypeArray[j]
             /\ originServerSockets'[j] = originServerSockets[j]
             /\ filterOutputs'[j] = filterOutputs[j] /\ filterInputs'[j] = filterInputs[j]
  BY <1>6 DEF TakeSlot, TypeOK, ArraysOK
<1>7. SlotsTell'
  BY <1>2, <1>3, <1>4, <1>5, <1>6 DEF SlotsTell
<1>8. NothingStranded'
  <2> SUFFICES ASSUME NEW f \in Fds, kind'[f] \in Worked
               PROVE  \E j \in Slots : f \in Descriptors(j)'
    BY DEF NothingStranded, Open, Worked
  <2>1. CASE f \in DOMAIN k
    <3>1. f \in {c, r, w}
      BY <1>1, <2>1 DEF OpensOnly
    <3>2. f \in Descriptors(i)'
      BY <1>5, <3>1 DEF Descriptors
    <3> QED BY <3>2
  <2>2. CASE f \notin DOMAIN k
    <3>1. kind[f] = kind'[f]
      BY <1>1, <2>2
    <3>2. PICK j \in Slots : f \in Descriptors(j)
      BY <1>2, <3>1 DEF Tidy, NothingStranded, Open, Worked
    <3>3. CASE j # i
      BY <1>6, <3>2, <3>3 DEF Descriptors
    <3>4. CASE j = i
      <4>1. f # 0
        BY <1>2, <3>1 DEF Worked
      <4>2. f = originServerSockets[i] /\ f > 0
        BY <1>4, <3>2, <3>4, <4>1 DEF Descriptors
      <4>3. kind[f] = "origin"
        BY <4>2 DEF EntriesAreLive
      <4> QED BY <3>1, <4>3 DEF Worked
    <3> QED BY <3>3, <3>4
  <2> QED BY <2>1, <2>2
<1> QED BY <1>7, <1>8

LEMMA TidyStep == TypeOK /\ Core /\ Tidy /\ [Next]_vars => Tidy'
<1> SUFFICES ASSUME TypeOK, Core, Tidy, [Next]_vars PROVE Tidy'
  OBVIOUS
<1> USE TidySame
<1>0. EntriesAreLive
  BY DEF Core, NoAliasing
<1>1. CASE Exit
  BY <1>1 DEF Exit, kernel
<1>2. CASE SelectReturns
  BY <1>2 DEF SelectReturns, kernel
<1>3. CASE UpdateOriginOpenness
  BY <1>3 DEF UpdateOriginOpenness
<1>4. CASE CheckForNewAdmin
  <2>1. CASE NobodyWaits(configSocketFd, "pop")
    BY <2>1 DEF NobodyWaits, kernel
  <2>2. CASE AcceptAdmin
    <3>1. ASSUME NEW i \in Slots, NEW c \in Fresh(0), NEW s \in OriginSocket,
                 FirstFree(i),
                 Opens([f \in {c, s} |-> IF f = c THEN "admin" ELSE OriginKind]),
                 TakeSlot(i, ADMIN, c, s),
                 UNCHANGED <<filterOutputs, filterInputs>>
          PROVE  Tidy'
      <4> DEFINE k == [f \in {c, s} |-> IF f = c THEN "admin" ELSE OriginKind]
      <4>1. c \in Fds /\ s \in Fds \cup {-1} /\ \A f \in {c, s} : f \in Fds => kind[f] = "closed"
        BY FreshIsFree DEF OriginSocket
      <4>2. DOMAIN k = {c, s} /\ \A f \in {c, s} : k[f] = IF f = c THEN "admin" ELSE OriginKind
        OBVIOUS
      <4>3. OriginKind \notin Worked /\ OriginKind # "std"
        BY DEF OriginKind, Worked
      <4>4. /\ filterOutputs' = [filterOutputs EXCEPT ![i] = filterOutputs[i]]
            /\ filterInputs' = [filterInputs EXCEPT ![i] = filterInputs[i]]
            /\ UNCHANGED <<filterOutputs, filterInputs>>
        BY <3>1 DEF TypeOK, ArraysOK
      <4>5. Opens(k)
        BY <3>1
      <4> PICK r \in Fds, w \in Fds : r = filterOutputs[i] /\ w = filterInputs[i]
        BY DEF TypeOK, ArraysOK
      <4>6. OpensOnly(k, c, r, w)
        BY <4>1, <4>2, <4>3 DEF OpensOnly
      <4>7. /\ filterOutputs' = [filterOutputs EXCEPT ![i] = r]
            /\ filterInputs' = [filterInputs EXCEPT ![i] = w]
        BY <4>4
      <4>8. TakeSlot(i, ADMIN, c, s) /\ clientSockets[i] = 0
        BY <3>1 DEF FirstFree
      <4>9. UNCHANGED <<filterOutputs, filterInputs>> /\ ADMIN \in {CLIENT, ADMIN}
        BY <3>1
      <4> HIDE DEF k
      <4> QED BY ONLY TypeOK, Tidy, i \in Slots, r \in Fds, w \in Fds,
                      <1>0, <4>1, <4>5, <4>6, <4>7, <4>8, <4>9, TidyAccept
    <3>2. ASSUME NEW c \in Fresh(0), Opens([f \in {c} |-> "leaked"]), UNCHANGED arrays
          PROVE  Tidy'
      BY <3>2, FreshIsFree, TidyLeaks
    <3> QED BY <2>2, <3>1, <3>2 DEF AcceptAdmin
  <2> QED BY <1>1, <1>4, <2>1, <2>2 DEF CheckForNewAdmin, AcceptFails
<1>5. CASE CheckForNewClient
  <2>1. CASE NobodyWaits(popSocketFd, "clients")
    BY <2>1 DEF NobodyWaits, kernel
  <2>2. CASE RefuseClient
    BY <1>1, <2>2 DEF RefuseClient, kernel
  <2>3. CASE AcceptClient
    <3> PICK i \in Slots, c \in Fresh(0), s \in Fresh(1),
             r1 \in Fresh(2), w1 \in Fresh(3), r2 \in Fresh(4), w2 \in Fresh(5) :
             /\ FirstFree(i)
             /\ Opens(SessionKinds(c, s, r1, w1, r2, w2))
             /\ TakeSlot(i, CLIENT, c, s)
             /\ filterOutputs' = [filterOutputs EXCEPT ![i] = r1]
             /\ filterInputs'  = [filterInputs  EXCEPT ![i] = w2]
      BY <2>3, ZenonT(30) DEF AcceptClient
    <3> DEFINE k == SessionKinds(c, s, r1, w1, r2, w2)
    <3>1. \A f \in {c, s, r1, w1, r2, w2} : f \in Fds /\ kind[f] = "closed"
      BY FreshIsFree
    <3>2. DOMAIN k = {c, s, r1, w1, r2, w2}
      BY DEF SessionKinds
    <3>3. OpensOnly(k, c, r1, w2)
      BY <3>1, <3>2 DEF OpensOnly, SessionKinds, OriginKind, Worked
    <3>4. Opens(k) /\ clientSockets[i] = 0
      BY DEF FirstFree
    <3> HIDE DEF k
    <3> QED BY <1>0, <3>1, <3>3, <3>4, TidyAccept
  <2>4. CASE AcceptBeyondTable
    <3> PICK c \in Fresh(0), r1 \in Fresh(1), w1 \in Fresh(2), r2 \in Fresh(3), w2 \in Fresh(4) :
             Opens([f \in {c, r1, w1, r2, w2} |-> "leaked"])
      BY <2>4 DEF AcceptBeyondTable
    <3>1. UNCHANGED arrays
      BY <2>4 DEF AcceptBeyondTable
    <3>2. \A f \in {c, r1, w1, r2, w2} : kind[f] = "closed"
      BY FreshIsFree
    <3> QED BY <3>1, <3>2, TidyLeaks
  <2> QED BY <1>1, <1>5, <2>1, <2>2, <2>3, <2>4 DEF CheckForNewClient, AcceptFails, PipesFail
<1>6. CASE Greet
  BY <1>1, <1>6 DEF Greet, BrokenPipe
<1>7. CASE ReadFromClients
  <2>0. slot \in Slots
    BY <1>7 DEF ReadFromClients, TypeOK, LoopOK
  <2>1. CASE UNCHANGED <<arrays, kind>>
    BY <2>1
  <2>2. CASE CloseAll(slot, inbox)
    BY <2>0, <2>2, TidyCloseAll
  <2>3. CASE clientTypeArray[slot] = ADMIN /\ AdminCommand(slot)
    BY <1>1, <2>0, <2>1, <2>3, TidyAdminGone DEF AdminCommand, BrokenPipe
  <2> QED BY <1>1, <1>7, <2>1, <2>2, <2>3
          DEF ReadFromClients, DismissClient, AttendClient, BrokenPipe, kernel
<1>8. CASE CapaAnswer
  <2>1. CASE CloseAll(slot, inbox)
    BY <1>8, <2>1, TidyCloseAll DEF CapaAnswer, TypeOK, LoopOK
  <2> QED BY <1>8, <2>1 DEF CapaAnswer
<1>13. CASE ReadFromClient
  <2>1. CASE CloseAll(slot, inbox)
    BY <1>13, <2>1, TidyCloseAll DEF ReadFromClient, TypeOK, LoopOK
  <2> QED BY <1>1, <1>13, <2>1 DEF ReadFromClient, BrokenPipe, kernel
<1>9. CASE OriginServerResponses
  <2>1. CASE CloseAll(slot, inbox)
    BY <1>9, <2>1, TidyCloseAll DEF OriginServerResponses, TypeOK, LoopOK
  <2> QED BY <1>1, <1>9, <2>1 DEF OriginServerResponses, BrokenPipe, kernel
<1>10. CASE ReadFilters
  BY <1>1, <1>10 DEF ReadFilters, BrokenPipe
<1>11. CASE PeerStep
  BY <1>11 DEF PeerStep, ConnectionArrives, PeerSends, OriginSends, Delivers, FilterRuns,
               PeerHangsUp, OriginTakes, OriginCrashes, OriginRestarts, kernel
<1>12. CASE UNCHANGED vars
  BY <1>12 DEF vars, kernel
<1> QED BY <1>2, <1>3, <1>4, <1>5, <1>6, <1>7, <1>8, <1>9, <1>10, <1>11, <1>12, <1>13
        DEF Next, ProxyStep

-----------------------------------------------------------------------------
(* The snapshot of select, and the client of a CAPA that is under way.     *)

\* Only descriptors that are open are given to select.
LEMMA WatchedIsOpen == ASSUME TypeOK, Core PROVE Watched \subseteq Open
<1> SUFFICES ASSUME NEW f \in Watched PROVE f \in Open
  OBVIOUS
<1>0. f > 0 /\ f \in Fds
  BY DEF Watched
<1>1. CASE f \in {popSocketFd, configSocketFd}
  BY <1>0, <1>1 DEF Core, BaseIsOpen, Open
<1>2. CASE f = genericOriginServer
  BY <1>0, <1>2 DEF Core, BaseIsOpen, Open, TypeOK, WorldOK
<1>3. CASE \E i \in Slots : f \in Descriptors(i)
  BY <1>0, <1>3, LiveEntries DEF Core, Open
<1> QED BY <1>1, <1>2, <1>3 DEF Watched, Descriptors

\* CAPA is only sent for a client that has a socket, and what the client says comes next.
LEMMA CapaStep == TypeOK /\ CapaHasClient /\ [Next]_vars => CapaHasClient'
<1> SUFFICES ASSUME TypeOK, CapaHasClient, [Next]_vars, phase' \in {"capa", "forward"}
             PROVE  (clientSockets[slot])' # 0
  BY DEF CapaHasClient
<1>1. CASE UNCHANGED <<loop, arrays>>
  BY <1>1 DEF loop, arrays, CapaHasClient
<1>5. CASE CapaAnswer
  <2>1. phase = "capa" /\ UNCHANGED <<slot, arrays>>
    BY <1>5 DEF CapaAnswer, NextSlot
  <2> QED BY <2>1 DEF arrays, CapaHasClient
<1>6. CASE ReadFromClient
  <2>1. UNCHANGED <<loop, arrays>>
    BY <1>6 DEF ReadFromClient, BrokenPipe, Exit, NextSlot
  <2> QED BY <1>1, <2>1
<1>2. CASE ReadFromClients
  <2>1. AttendClient(slot) /\ clientSockets[slot] \in readfds
    BY <1>2 DEF ReadFromClients, NextSlot, AdminCommand, DismissClient, AttendClient,
                BrokenPipe, Exit, GoTo
  <2>2. UNCHANGED <<slot, arrays>>
    BY <2>1 DEF AttendClient, NextSlot, BrokenPipe, Exit
  <2> QED BY <2>1, <2>2 DEF arrays, TypeOK, LoopOK
<1>3. CASE PeerStep
  <2>1. UNCHANGED <<loop, arrays>>
    BY <1>3 DEF PeerStep, ConnectionArrives, PeerSends, OriginSends, Delivers, FilterRuns,
                PeerHangsUp, OriginTakes, OriginCrashes, OriginRestarts
  <2> QED BY <1>1, <2>1
<1>4. ASSUME \/ SelectReturns \/ UpdateOriginOpenness \/ CheckForNewAdmin \/ CheckForNewClient
             \/ Greet \/ OriginServerResponses \/ ReadFilters
      PROVE FALSE
  <2>1. CASE SelectReturns \/ UpdateOriginOpenness
    BY <2>1 DEF SelectReturns, UpdateOriginOpenness, GoTo
  <2>2. CASE CheckForNewAdmin
    BY <2>2 DEF CheckForNewAdmin, NobodyWaits, AcceptFails, AcceptAdmin, Exit, GoTo
  <2>3. CASE CheckForNewClient
    BY <2>3 DEF CheckForNewClient, NobodyWaits, AcceptFails, RefuseClient, AcceptClient,
                AcceptBeyondTable, PipesFail, Exit, GoTo
  <2>4. CASE Greet
    BY <2>4 DEF Greet, BrokenPipe, Exit
  <2>5. CASE OriginServerResponses \/ ReadFilters
    BY <2>5 DEF OriginServerResponses, ReadFilters, BrokenPipe, Exit, NextSlot
  <2> QED BY <1>4, <2>1, <2>2, <2>3, <2>4, <2>5
<1> QED BY <1>1, <1>2, <1>3, <1>4, <1>5, <1>6 DEF Next, ProxyStep, vars

\* A step either keeps the set of open descriptors from growing, or is an accept;
\* from select to the last accept it never shrinks.
LEMMA OpenStep ==
  ASSUME TypeOK, [Next]_vars
  PROVE  /\ phase \in {"select", "openness", "admin", "pop"} /\ phase' # "dead" => Open \subseteq Open'
         /\ phase \notin {"admin", "pop"} => Open' \subseteq Open
<1> DEFINE Goal == /\ phase \in {"select", "openness", "admin", "pop"} /\ phase' # "dead" => Open \subseteq Open'
                   /\ phase \notin {"admin", "pop"} => Open' \subseteq Open
<1> SUFFICES Goal
  OBVIOUS
<1>1. CASE UNCHANGED kind
  BY <1>1 DEF Open
<1>2. ASSUME NEW C, NEW box, Close(C, box), phase \in {"clients", "capa", "forward", "origins", "filters"} PROVE Goal
  <2>1. Open' \subseteq Open
    BY <1>2 DEF Close, Open
  <2> QED BY <1>2, <2>1
<1>3. ASSUME NEW k, Opens(k), \A f \in DOMAIN k : f \in Fds => kind[f] = "closed",
             \A f \in DOMAIN k : k[f] # "closed", phase \in {"admin", "pop"}
      PROVE  Goal
  <2>1. \A f \in Open : kind'[f] = kind[f]
    BY <1>3 DEF Opens, Open
  <2> QED BY <1>3, <2>1 DEF Open
<1>4. CASE CheckForNewAdmin
  <2>1. CASE UNCHANGED kernel
    BY <1>1, <2>1 DEF kernel
  <2>2. CASE AcceptAdmin
    <3>1. ASSUME NEW c \in Fresh(0), NEW s \in OriginSocket,
                 Opens([f \in {c, s} |-> IF f = c THEN "admin" ELSE OriginKind])
          PROVE  Goal
      <4> DEFINE k == [f \in {c, s} |-> IF f = c THEN "admin" ELSE OriginKind]
      <4>1. \A f \in DOMAIN k : f \in Fds => kind[f] = "closed"
        BY FreshIsFree DEF OriginSocket
      <4>2. \A f \in DOMAIN k : k[f] # "closed"
        BY DEF OriginKind
      <4>3. phase = "admin"
        BY <1>4 DEF CheckForNewAdmin
      <4> QED BY <1>3, <3>1, <4>1, <4>2, <4>3
    <3>2. ASSUME NEW c \in Fresh(0), Opens([f \in {c} |-> "leaked"]) PROVE Goal
      <4>1. \A f \in {c} : f \in Fds => kind[f] = "closed"
        BY FreshIsFree
      <4>2. phase = "admin"
        BY <1>4 DEF CheckForNewAdmin
      <4> QED BY <1>3, <3>2, <4>1, <4>2
    <3> QED BY <2>2, <3>1, <3>2 DEF AcceptAdmin
  <2> QED BY <1>4, <2>1, <2>2 DEF CheckForNewAdmin, NobodyWaits, AcceptFails, Exit
<1>5. CASE CheckForNewClient
  <2>0. phase = "pop"
    BY <1>5 DEF CheckForNewClient
  <2>1. CASE UNCHANGED kernel
    BY <1>1, <2>1 DEF kernel
  <2>2. CASE AcceptClient
    <3> PICK c \in Fresh(0), s \in Fresh(1),
             r1 \in Fresh(2), w1 \in Fresh(3), r2 \in Fresh(4), w2 \in Fresh(5) :
             Opens(SessionKinds(c, s, r1, w1, r2, w2))
      BY <2>2 DEF AcceptClient
    <3> DEFINE k == SessionKinds(c, s, r1, w1, r2, w2)
    <3>1. \A f \in DOMAIN k : f \in Fds => kind[f] = "closed"
      BY FreshIsFree DEF SessionKinds
    <3>2. \A f \in DOMAIN k : k[f] # "closed"
      BY DEF SessionKinds, OriginKind
    <3> QED BY <1>3, <2>0, <3>1, <3>2
  <2>3. CASE AcceptBeyondTable
    <3> PICK c \in Fresh(0), r1 \in Fresh(1), w1 \in Fresh(2), r2 \in Fresh(3), w2 \in Fresh(4) :
             Opens([f \in {c, r1, w1, r2, w2} |-> "leaked"])
      BY <2>3 DEF AcceptBeyondTable
    <3> DEFINE k == [f \in {c, r1, w1, r2, w2} |-> "leaked"]
    <3>1. \A f \in DOMAIN k : f \in Fds => kind[f] = "closed"
      BY FreshIsFree
    <3> QED BY <1>3, <2>0, <3>1
  <2> QED BY <1>5, <2>1, <2>2, <2>3 DEF CheckForNewClient, NobodyWaits, AcceptFails,
                                       RefuseClient, PipesFail, Exit
<1>6. CASE SelectReturns \/ UpdateOriginOpenness \/ Greet \/ ReadFilters
  BY <1>1, <1>6 DEF SelectReturns, UpdateOriginOpenness, Greet, ReadFilters, BrokenPipe, Exit, kernel
<1>7. CASE ReadFromClients
  <2>0. phase = "clients"
    BY <1>7 DEF ReadFromClients
  <2>1. UNCHANGED kind \/ \E C : Close(C, inbox)
    <3>1. CASE AdminCommand(slot)
      BY <3>1 DEF AdminCommand, BrokenPipe, Exit, kernel
    <3>2. CASE DismissClient(slot)
      BY <3>2 DEF DismissClient, CloseAll, BrokenPipe, Exit, kernel
    <3>3. CASE AttendClient(slot)
      BY <3>3 DEF AttendClient, CloseAll, BrokenPipe, Exit, kernel
    <3> QED BY <1>7, <3>1, <3>2, <3>3 DEF ReadFromClients, kernel
  <2> QED BY <1>1, <1>2, <2>0, <2>1
<1>8. CASE CapaAnswer
  <2>1. phase = "capa" /\ (UNCHANGED kind \/ \E C : Close(C, inbox))
    BY <1>8 DEF CapaAnswer, CloseAll
  <2> QED BY <1>1, <1>2, <2>1
<1>12. CASE ReadFromClient
  <2>1. phase = "forward" /\ (UNCHANGED kind \/ \E C : Close(C, inbox))
    BY <1>12 DEF ReadFromClient, CloseAll, BrokenPipe, Exit, kernel
  <2> QED BY <1>1, <1>2, <2>1
<1>9. CASE OriginServerResponses
  <2>1. phase = "origins" /\ (UNCHANGED kind \/ \E C : Close(C, inbox))
    BY <1>9 DEF OriginServerResponses, CloseAll, BrokenPipe, Exit, kernel
  <2> QED BY <1>1, <1>2, <2>1
<1>10. CASE PeerStep
  BY <1>1, <1>10 DEF PeerStep, ConnectionArrives, PeerSends, OriginSends, Delivers, FilterRuns,
                     PeerHangsUp, OriginTakes, OriginCrashes, OriginRestarts, kernel
<1>11. CASE UNCHANGED vars
  BY <1>1, <1>11 DEF vars, kernel
<1> QED BY <1>4, <1>5, <1>6, <1>7, <1>8, <1>9, <1>10, <1>11, <1>12 DEF Next, ProxyStep

\* Up to the last accept the result of select is kept, and only select makes one.
LEMMA SnapshotKept ==
  ASSUME TypeOK, [Next]_vars, phase' \in {"openness", "admin", "pop"}
  PROVE  \/ SelectReturns
         \/ UNCHANGED readfds /\ phase \in {"openness", "admin", "pop"}
<1>1. CASE UpdateOriginOpenness \/ CheckForNewAdmin
  BY <1>1 DEF UpdateOriginOpenness, CheckForNewAdmin, NobodyWaits, AcceptFails, AcceptAdmin, Exit, GoTo
<1>2. CASE CheckForNewClient
  BY <1>2 DEF CheckForNewClient, NobodyWaits, AcceptFails, RefuseClient, AcceptClient,
              AcceptBeyondTable, PipesFail, Exit, GoTo
<1>3. CASE Greet \/ CapaAnswer
  BY <1>3 DEF Greet, CapaAnswer, BrokenPipe, Exit, NextSlot
<1>8. CASE ReadFromClient
  BY <1>8 DEF ReadFromClient, BrokenPipe, Exit, NextSlot, loop
<1>4. CASE ReadFromClients
  BY <1>4 DEF ReadFromClients, NextSlot, AdminCommand, DismissClient, AttendClient,
              BrokenPipe, Exit, GoTo
<1>5. CASE OriginServerResponses \/ ReadFilters
  BY <1>5 DEF OriginServerResponses, ReadFilters, BrokenPipe, Exit, NextSlot
<1>6. CASE PeerStep
  BY <1>6 DEF PeerStep, ConnectionArrives, PeerSends, OriginSends, Delivers, FilterRuns,
              PeerHangsUp, OriginTakes, OriginCrashes, OriginRestarts, loop
<1>7. CASE UNCHANGED vars
  BY <1>7 DEF vars, loop
<1> QED BY <1>1, <1>2, <1>3, <1>4, <1>5, <1>6, <1>7, <1>8 DEF Next, ProxyStep

LEMMA SnapshotStep == TypeOK /\ Core /\ SnapshotIsOpen /\ [Next]_vars => SnapshotIsOpen'
<1> SUFFICES ASSUME TypeOK, Core, SnapshotIsOpen, [Next]_vars,
                    phase' \in {"openness", "admin", "pop"}
             PROVE  readfds' \subseteq Open'
  BY DEF SnapshotIsOpen
<1>1. CASE SelectReturns
  <2>1. readfds' \subseteq Watched /\ UNCHANGED kind
    BY <1>1 DEF SelectReturns, kernel
  <2> QED BY <2>1, WatchedIsOpen DEF Open
<1>2. CASE UNCHANGED readfds /\ phase \in {"openness", "admin", "pop"}
  BY <1>2, OpenStep DEF SnapshotIsOpen
<1> QED BY <1>1, <1>2, SnapshotKept

-----------------------------------------------------------------------------
(* The theorems.                                                           *)

LEMMA Invariance == Spec => []IInv
<1>1. Init => IInv
  BY TypeInit, CoreInit, TidyInit DEF IInv, Init, SnapshotIsOpen, CapaHasClient
<1>2. IInv /\ [Next]_vars => IInv'
  BY TypeStep, CoreStep, SnapshotStep, CapaStep, TidyStep DEF IInv
<1> QED BY <1>1, <1>2, PTL DEF Spec

\* No entry of the arrays names a descriptor that is closed, has become something
\* else, or is in another slot: closeAll never closes what is another session's.
THEOREM NoAliasingHolds == Spec => []NoAliasing
<1>1. IInv => NoAliasing
  BY DEF IInv, Core
<1> QED BY <1>1, Invariance, PTL

\* closeAll is never called for a slot that is not held, so CON_CON never falls
\* below the number of slots held.
THEOREM NoDoubleReleaseHolds == Spec => []NoDoubleRelease
<1>1. IInv => NoDoubleRelease
  BY DEF IInv, Core
<1> QED BY <1>1, Invariance, PTL

\* The socket, the origin connection and the filter of a POP3 session are of the
\* same access, through any reuse of descriptors and of slots.
THEOREM SessionIsolationHolds == Spec => []SessionIsolation
<1>1. IInv => SessionIsolation
  BY DEF IInv, Core
<1> QED BY <1>1, Invariance, PTL

\* While standard input is open, every socket of a client and every pipe end of a
\* filter that is open is in the arrays: no release, no accept into a slot that
\* was left half free, forgets one without closing it.
THEOREM NothingStrandedHolds == Spec => []NothingStranded
<1>1. IInv => NothingStranded
  BY DEF IInv, Tidy
<1> QED BY <1>1, Invariance, PTL

\* The accepts between select and the loops that use its result never open a
\* descriptor whose bit is set in that result.
THEOREM FreshDescriptorsHold == Spec => FreshDescriptorsAreNotReady
<1> DEFINE Step == \A f \in Fds : kind[f] = "closed" /\ kind'[f] # "closed" => f \notin readfds
<1>1. IInv /\ [Next]_vars => [Step]_vars
  <2> SUFFICES ASSUME IInv, [Next]_vars, NEW f \in Fds,
                      kind[f] = "closed", kind'[f] # "closed"
               PROVE  f \notin readfds
    OBVIOUS
  <2>1. f \in Open' /\ f \notin Open
    BY DEF Open
  <2>2. phase \in {"admin", "pop"}
    BY <2>1, OpenStep DEF IInv
  <2> QED BY <2>1, <2>2 DEF IInv, SnapshotIsOpen
<1> QED BY <1>1, Invariance, PTL DEF Spec, FreshDescriptorsAreNotReady

=============================================================================
