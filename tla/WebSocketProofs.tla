--------------------------- MODULE WebSocketProofs ---------------------------
(***************************************************************************)
(* Theorems about WebSocketManager, for any connections, executions and    *)
(* jobs.                                                                   *)
(***************************************************************************)
EXTENDS WebSocketManager, TLAPS

\* The client is not known to be gone, and the connection is in its job's map.
Connected == {"welcoming", "writing", "reading"}

\* In a map: a handler that is about to remove its connection has not done so.
Listed == Connected \cup {"removing"}

\* A map is named by a connection of its job; a connection is in the map its job
\* has, and in no map that the job had before; who is connected is in it.
MapsSound ==
    /\ \A j \in Jobs : table[j] # None => topic[table[j]] = j
    /\ \A m, c \in Conns : c \in members[m] => m = table[topic[c]] /\ handler[c] \in Listed
    /\ \A c \in Conns : handler[c] \in Connected =>
           table[topic[c]] # None /\ c \in members[table[topic[c]]]

\* What a sender still owes is in the map it looked up, then in the connections it
\* goes through; while it does, the second read lock keeps them listed.
SenderSound(s) ==
    /\ stage[s] = "working" => owed[s] = {}
    /\ stage[s] = "found" => map[s] \in Conns /\ owed[s] \subseteq members[map[s]]
    /\ stage[s] = "broadcasting" =>
           /\ s \in readers /\ owed[s] \subseteq left[s]
           /\ \A c \in left[s] : handler[c] \in Listed
    /\ at[s] # None => stage[s] = "broadcasting" /\ at[s] \in left[s]
    /\ \A c \in owed[s] : handler[c] \in Connected

SendersSound == \A s \in Senders : SenderSound(s)

IInv == TypeOK /\ MapsSound /\ SendersSound

LEMMA ConstantFacts == None \notin Conns /\ Topics \subseteq [Conns \cup Senders -> Jobs]
BY WebSocketAssumption

-----------------------------------------------------------------------------
(* The start of a process.                                                 *)

\* The variables of a process that has just started, at first or after a panic.
Started ==
    /\ topic \in Topics
    /\ peer = Fresh.peer /\ handler = Fresh.handler
    /\ table = Fresh.table /\ members = Fresh.members
    /\ writer = Fresh.writer /\ readers = Fresh.readers
    /\ stage = Fresh.stage /\ map = Fresh.map /\ left = Fresh.left
    /\ at = Fresh.at /\ owed = Fresh.owed

LEMMA StartedSound == Started => IInv
<1> SUFFICES ASSUME Started PROVE IInv
  OBVIOUS
<1> USE ConstantFacts
<1>1. /\ \A j \in Jobs : table[j] = None
      /\ \A c \in Conns : members[c] = {} /\ handler[c] = "none"
      /\ \A s \in Senders : stage[s] = "working" /\ owed[s] = {} /\ at[s] = None
  BY DEF Fresh, Started
<1>2. TypeOK
  BY <1>1 DEF TypeOK, Fresh, Started
<1>3. MapsSound
  BY <1>1, <1>2 DEF MapsSound, Connected, TypeOK
<1>4. SendersSound
  BY <1>1 DEF SendersSound, SenderSound
<1> QED
  BY <1>2, <1>3, <1>4 DEF IInv

LEMMA InvInitially == Init => IInv
BY StartedSound DEF Init, Started

\* A sender's panic ends the process: its successor starts with nothing.
LEMMA DeathKeeps ==
    ASSUME IInv, ProcessDies
    PROVE  IInv'
<1>1. Started'
  BY DEF ProcessDies, Started, IInv, TypeOK
<1>2. Started' => IInv'
  BY StartedSound, PTL
<1> QED
  BY <1>1, <1>2

-----------------------------------------------------------------------------
(* The clients and the handlers.                                           *)

\* No client's step, and no step of a handler that stays connected, changes what
\* IInv relates: the maps, the lock and who is listed.
LEMMA ClientKeeps ==
    ASSUME IInv, NEW c \in Conns, Client(c)
    PROVE  IInv'
<1> USE ConstantFacts
<1>1. CASE Stall(c) \/ ReadOn(c) \/ Disconnect(c)
  <2>1. TypeOK'
    BY <1>1 DEF Stall, ReadOn, Disconnect, IInv, TypeOK, maps, mutex, sender
  <2> QED
    BY <1>1, <2>1 DEF Stall, ReadOn, Disconnect, IInv, MapsSound, SendersSound, SenderSound,
       maps, mutex, sender
<1>2. CASE Upgrade(c)
  <2>1. PICK h \in {"adding", "closed"} : handler' = [handler EXCEPT ![c] = h]
    BY <1>2 DEF Upgrade
  <2>2. UNCHANGED <<topic, peer, maps, mutex, sender>> /\ handler[c] = "none"
    BY <1>2 DEF Upgrade
  <2>3. TypeOK'
    BY <2>1, <2>2 DEF IInv, TypeOK, maps, mutex, sender
  <2>4. MapsSound'
    BY <2>1, <2>2 DEF IInv, TypeOK, MapsSound, Listed, Connected, maps
  <2>5. SendersSound'
    BY <2>1, <2>2 DEF IInv, TypeOK, SendersSound, SenderSound, Listed, Connected, maps, mutex, sender
  <2> QED
    BY <2>3, <2>4, <2>5 DEF IInv
<1> QED
  BY <1>1, <1>2 DEF Client

\* Who holds Lock alone finds no sender going through its connections.
LEMMA AloneAtLock ==
    ASSUME IInv, readers = {}, NEW s \in Senders
    PROVE  stage[s] # "broadcasting" /\ at[s] = None
BY DEF IInv, SendersSound, SenderSound

LEMMA AddKeeps ==
    ASSUME IInv, NEW c \in Conns, AddConnection(c)
    PROVE  IInv'
<1> USE ConstantFacts
<1> DEFINE t == topic[c]
<1>1. t \in Jobs /\ table[t] \in Conns \cup {None}
  BY DEF IInv, TypeOK
<1>2. /\ readers = {} /\ handler[c] = "adding"
      /\ handler' = [handler EXCEPT ![c] = "welcoming"] /\ writer' = None
      /\ UNCHANGED <<topic, peer, readers, stage, map, left, at, owed>>
  BY DEF AddConnection, sender
<1>3. \A m \in Conns : c \notin members[m]
  BY <1>2 DEF IInv, MapsSound, Listed, Connected
<1>4. CASE table[t] = None
  <2>1. /\ table' = [table EXCEPT ![t] = c]
        /\ members' = [members EXCEPT ![c] = {c}]
    BY <1>4 DEF AddConnection
  <2>2. members[c] = {}
    <3> SUFFICES ASSUME NEW d \in Conns, d \in members[c] PROVE FALSE
      BY DEF IInv, TypeOK
    <3>1. c = table[topic[d]] /\ topic[d] \in Jobs
      BY DEF IInv, TypeOK, MapsSound
    <3>2. topic[c] = topic[d]
      BY <3>1 DEF IInv, MapsSound
    <3> QED
      BY <1>4, <3>1, <3>2
  <2>3. \A j \in Jobs : j # t => table[j] # c
    BY DEF IInv, MapsSound
  <2>4. TypeOK'
    BY <1>1, <1>2, <2>1, <2>3 DEF IInv, TypeOK
  <2>5. MapsSound'
    BY <1>1, <1>2, <1>4, <2>1, <2>2 DEF IInv, TypeOK, MapsSound, Listed, Connected
  <2>6. SendersSound'
    <3> SUFFICES ASSUME NEW s \in Senders PROVE SenderSound(s)'
      BY DEF SendersSound
    <3>1. stage[s] # "broadcasting" /\ at[s] = None
      BY <1>2, AloneAtLock
    <3>2. stage[s] = "found" => owed[s] \subseteq members'[map[s]]
      BY <2>1, <2>2 DEF IInv, TypeOK, SendersSound, SenderSound
    <3>3. \A d \in owed[s] : handler'[d] \in Connected
      BY <1>2 DEF IInv, TypeOK, SendersSound, SenderSound, Connected
    <3> QED
      BY <1>2, <3>1, <3>2, <3>3 DEF IInv, SendersSound, SenderSound
  <2> QED
    BY <2>4, <2>5, <2>6 DEF IInv
<1>5. CASE table[t] # None
  <2>1. /\ members' = [members EXCEPT ![table[t]] = members[table[t]] \cup {c}]
        /\ table' = table /\ table[t] \in Conns
    BY <1>1, <1>5 DEF AddConnection
  <2>2. \A m \in Conns : members[m] \subseteq members'[m]
    BY <2>1 DEF IInv, TypeOK
  <2>3. topic[table[t]] = t
    BY <1>1, <1>5 DEF IInv, MapsSound
  <2>4. TypeOK'
    <3>1. \A j \in Jobs : table[j] = table[t] => j = t
      BY <1>5, <2>3 DEF IInv, MapsSound
    <3> QED
      BY <1>2, <2>1, <3>1 DEF IInv, TypeOK
  <2>5. MapsSound'
    BY <1>1, <1>2, <1>5, <2>1, <2>2 DEF IInv, TypeOK, MapsSound, Listed, Connected
  <2>6. SendersSound'
    <3> SUFFICES ASSUME NEW s \in Senders PROVE SenderSound(s)'
      BY DEF SendersSound
    <3>1. stage[s] # "broadcasting" /\ at[s] = None
      BY <1>2, AloneAtLock
    <3>2. stage[s] = "found" => owed[s] \subseteq members'[map[s]]
      BY <2>2 DEF IInv, TypeOK, SendersSound, SenderSound
    <3>3. \A d \in owed[s] : handler'[d] \in Connected
      BY <1>2 DEF IInv, TypeOK, SendersSound, SenderSound, Connected
    <3> QED
      BY <1>2, <3>1, <3>2, <3>3 DEF IInv, SendersSound, SenderSound
  <2> QED
    BY <2>4, <2>5, <2>6 DEF IInv
<1> QED
  BY <1>4, <1>5

\* A handler moves on without the lock; who leaves is owed nothing any more.
LEMMA HandlerKeeps ==
    ASSUME IInv, NEW c \in Conns,
           \/ Lock(c) \/ BeginWelcome(c) \/ EndWelcome(c) \/ WelcomePanics(c)
           \/ ReadFails(c) \/ Close(c)
    PROVE  IInv'
<1> USE ConstantFacts
<1>1. CASE Lock(c)
  BY <1>1 DEF Lock, IInv, TypeOK, MapsSound, SendersSound, SenderSound, maps, sender
<1>2. CASE BeginWelcome(c) \/ EndWelcome(c)
  <2>1. PICK h \in {"writing", "reading"} :
            /\ handler[c] \in Connected /\ handler' = [handler EXCEPT ![c] = h]
            /\ UNCHANGED <<topic, peer, maps, mutex, sender>>
    BY <1>2 DEF BeginWelcome, EndWelcome, Connected
  <2>2. \A d \in Conns :
            /\ handler'[d] \in Connected <=> handler[d] \in Connected
            /\ handler'[d] \in Listed <=> handler[d] \in Listed
    BY <2>1 DEF IInv, TypeOK, Connected, Listed
  <2>3. TypeOK'
    BY <2>1 DEF IInv, TypeOK, maps, mutex, sender
  <2>4. MapsSound'
    BY <2>1, <2>2 DEF IInv, MapsSound, maps
  <2>5. SendersSound'
    BY <2>1, <2>2 DEF IInv, TypeOK, SendersSound, SenderSound, maps, mutex, sender
  <2> QED
    BY <2>3, <2>4, <2>5 DEF IInv
<1>3. CASE WelcomePanics(c) \/ ReadFails(c)
  <2>1. handler[c] \in Connected /\ Leave(c)
    BY <1>3 DEF WelcomePanics, ReadFails, Connected
  <2>2. /\ handler' = [handler EXCEPT ![c] = "removing"]
        /\ owed' = [s \in Senders |-> owed[s] \ {c}]
        /\ UNCHANGED <<topic, peer, table, members, writer, readers, stage, map, left, at>>
    BY <2>1 DEF Leave, maps, mutex
  <2>3. \A d \in Conns :
            /\ handler'[d] \in Connected <=> handler[d] \in Connected /\ d # c
            /\ handler'[d] \in Listed <=> handler[d] \in Listed
    BY <2>1, <2>2 DEF IInv, TypeOK, Connected, Listed
  <2>4. TypeOK'
    BY <2>2 DEF IInv, TypeOK
  <2>5. MapsSound'
    BY <2>2, <2>3 DEF IInv, MapsSound
  <2>6. SendersSound'
    BY <2>2, <2>3 DEF IInv, TypeOK, SendersSound, SenderSound
  <2> QED
    BY <2>4, <2>5, <2>6 DEF IInv
<1>4. CASE Close(c)
  <2>1. /\ handler[c] = "closing" /\ handler' = [handler EXCEPT ![c] = "closed"]
        /\ UNCHANGED <<topic, peer, maps, mutex, sender>>
    BY <1>4 DEF Close
  <2>2. \A d \in Conns :
            /\ handler'[d] \in Connected <=> handler[d] \in Connected
            /\ handler'[d] \in Listed <=> handler[d] \in Listed
    BY <2>1 DEF IInv, TypeOK, Connected, Listed
  <2>3. TypeOK'
    BY <2>1 DEF IInv, TypeOK, maps, mutex, sender
  <2>4. MapsSound'
    BY <2>1, <2>2 DEF IInv, MapsSound, maps
  <2>5. SendersSound'
    BY <2>1, <2>2 DEF IInv, TypeOK, SendersSound, SenderSound, maps, mutex, sender
  <2> QED
    BY <2>3, <2>4, <2>5 DEF IInv
<1> QED
  BY <1>1, <1>2, <1>3, <1>4

\* A map that loses its last connection is dropped by its job: nobody is in it.
LEMMA RemoveKeeps ==
    ASSUME IInv, NEW c \in Conns, RemoveConnection(c)
    PROVE  IInv'
<1> USE ConstantFacts
<1> DEFINE t == topic[c]
           m == table[t]
<1>1. t \in Jobs /\ m \in Conns \cup {None}
  BY DEF IInv, TypeOK
<1>2. /\ readers = {} /\ handler[c] = "removing"
      /\ handler' = [handler EXCEPT ![c] = "closing"] /\ writer' = None
      /\ UNCHANGED <<topic, peer, readers, stage, map, left, at, owed>>
  BY DEF RemoveConnection, sender
<1>3. \A d \in Conns :
          /\ handler'[d] \in Connected <=> handler[d] \in Connected
          /\ handler'[d] \in Listed <=> handler[d] \in Listed /\ d # c
  BY <1>2 DEF IInv, TypeOK, Connected, Listed
<1>4. \A n, d \in Conns : d \in members'[n] <=> d \in members[n] /\ d # c
  <2>1. CASE m = None
    <3>1. members' = members
      BY <2>1 DEF RemoveConnection, maps
    <3>2. \A n \in Conns : c \notin members[n]
      BY <2>1 DEF IInv, MapsSound
    <3> QED
      BY <3>1, <3>2
  <2>2. CASE m # None
    <3>1. members' = [members EXCEPT ![m] = members[m] \ {c}]
      BY <2>2 DEF RemoveConnection
    <3>2. \A n \in Conns : c \in members[n] => n = m
      BY DEF IInv, MapsSound
    <3> QED
      BY <1>1, <2>2, <3>1, <3>2 DEF IInv, TypeOK
  <2> QED
    BY <2>1, <2>2
<1>5. members' \in [Conns -> SUBSET Conns]
  BY <1>1 DEF RemoveConnection, maps, IInv, TypeOK
<1>6. /\ table' \in [Jobs -> Conns \cup {None}]
      /\ \A j \in Jobs :
             table'[j] = IF j = t /\ table[j] # None /\ members'[table[j]] = {}
                         THEN None ELSE table[j]
  <2>1. CASE m = None
    BY <2>1, <1>1 DEF RemoveConnection, maps, IInv, TypeOK
  <2>2. CASE m # None
    <3>1. members'[m] = members[m] \ {c}
      BY <1>1, <2>2 DEF RemoveConnection, IInv, TypeOK
    <3>2. table' = IF members[m] \ {c} = {} THEN [table EXCEPT ![t] = None] ELSE table
      BY <2>2 DEF RemoveConnection
    <3> QED
      BY <1>1, <2>2, <3>1, <3>2 DEF IInv, TypeOK
  <2> QED
    BY <2>1, <2>2
<1>7. TypeOK'
  <2>1. table' \in [Jobs -> Conns \cup {None}]
    BY <1>1, <1>6
  <2>2. ASSUME NEW j \in Jobs, table'[j] # None
        PROVE  members'[table'[j]] # {} /\ \A d \in members'[table'[j]] : topic'[d] = j
    <3>1. table'[j] = table[j] /\ table[j] \in Conns
      BY <1>6, <2>2 DEF IInv, TypeOK
    <3>2. \A d \in members[table[j]] : d \in Conns /\ topic[d] = j
      BY <3>1 DEF IInv, TypeOK
    <3>3. members'[table[j]] # {}
      <4>1. CASE j = t
        BY <1>6, <2>2, <3>1, <4>1
      <4>2. CASE j # t
        <5>1. PICK d \in members[table[j]] : TRUE
          BY <3>1 DEF IInv, TypeOK
        <5>2. d \in Conns /\ d # c
          BY <3>2, <4>2, <5>1
        <5> QED
          BY <1>4, <3>1, <5>1, <5>2
      <4> QED
        BY <4>1, <4>2
    <3>4. \A d \in members'[table[j]] : d \in Conns /\ d \in members[table[j]]
      BY <1>4, <1>5, <3>1
    <3> QED
      BY <1>2, <3>1, <3>2, <3>3, <3>4
  <2> QED
    BY <1>2, <1>5, <2>1, <2>2 DEF IInv, TypeOK
<1>8. MapsSound'
  <2>1. ASSUME NEW n \in Conns, NEW d \in Conns, d \in members'[n]
        PROVE  n = table'[topic[d]] /\ handler'[d] \in Listed
    <3>1. d \in members[n] /\ d # c
      BY <1>4, <2>1
    <3>2. n = table[topic[d]] /\ handler[d] \in Listed /\ topic[d] \in Jobs
      BY <3>1 DEF IInv, MapsSound, TypeOK
    <3> QED
      BY <1>3, <1>6, <2>1, <3>1, <3>2
  <2>2. ASSUME NEW d \in Conns, handler'[d] \in Connected
        PROVE  table'[topic[d]] # None /\ d \in members'[table'[topic[d]]]
    <3>1. handler[d] \in Connected /\ topic[d] \in Jobs /\ d # c
      BY <1>2, <1>3, <2>2 DEF IInv, TypeOK, Connected
    <3>2. /\ table[topic[d]] \in Conns /\ table[topic[d]] # None
          /\ d \in members[table[topic[d]]]
      BY <3>1 DEF IInv, MapsSound, TypeOK
    <3>3. d \in members'[table[topic[d]]]
      BY <1>4, <3>1, <3>2
    <3> QED
      BY <1>6, <3>1, <3>2, <3>3
  <2> QED
    BY <1>2, <1>6, <2>1, <2>2 DEF IInv, MapsSound
<1>9. SendersSound'
  <2> SUFFICES ASSUME NEW s \in Senders PROVE SenderSound(s)'
    BY DEF SendersSound
  <2>1. stage[s] # "broadcasting" /\ at[s] = None
    BY <1>2, AloneAtLock
  <2>2. \A d \in owed[s] : d \in Conns /\ d # c /\ handler'[d] \in Connected
    BY <1>2, <1>3 DEF IInv, TypeOK, SendersSound, SenderSound, Connected
  <2>3. stage[s] = "found" => owed[s] \subseteq members'[map[s]]
    BY <1>4, <2>2 DEF IInv, SendersSound, SenderSound
  <2> QED
    BY <1>2, <2>1, <2>2, <2>3 DEF IInv, SendersSound, SenderSound
<1> QED
  BY <1>7, <1>8, <1>9 DEF IInv

-----------------------------------------------------------------------------
(* The broadcasts.                                                         *)

\* The lookup and every step of a broadcast keep what its sender owes within the
\* connections it has still to write to.
LEMMA SenderKeeps ==
    ASSUME IInv, NEW s \in Senders, LookUp(s) \/ Broadcast(s) \/ EndWrite(s)
    PROVE  IInv'
<1> USE ConstantFacts
<1>1. CASE LookUp(s)
  <2>1. topic[s] \in Jobs /\ table[topic[s]] \in Conns \cup {None}
    BY DEF IInv, TypeOK
  <2>2. \A c \in Registered(topic[s]) :
            /\ c \in Conns /\ handler[c] \in Connected
            /\ table[topic[s]] # None /\ c \in members[table[topic[s]]]
    BY DEF Registered, Connected, IInv, MapsSound
  <2>3. /\ owed' = [owed EXCEPT ![s] = Registered(topic[s])]
        /\ map' = [map EXCEPT ![s] = table[topic[s]]]
        /\ stage' = [stage EXCEPT ![s] =
                        IF table[topic[s]] = None THEN "working" ELSE "found"]
        /\ stage[s] = "working"
        /\ UNCHANGED <<topic, peer, handler, table, members, writer, readers, left, at>>
    BY <1>1 DEF LookUp, maps, mutex, IInv, TypeOK
  <2>4. TypeOK'
    BY <2>1, <2>2, <2>3 DEF IInv, TypeOK
  <2>5. MapsSound'
    BY <2>3 DEF IInv, MapsSound
  <2>6. SendersSound'
    <3> SUFFICES ASSUME NEW r \in Senders PROVE SenderSound(r)'
      BY DEF SendersSound
    <3>1. CASE r = s
      BY <2>1, <2>2, <2>3, <3>1 DEF IInv, TypeOK, SendersSound, SenderSound
    <3>2. CASE r # s
      BY <2>3, <3>2 DEF IInv, TypeOK, SendersSound, SenderSound
    <3> QED
      BY <3>1, <3>2
  <2> QED
    BY <2>4, <2>5, <2>6 DEF IInv
<1>2. CASE SkipEmpty(s)
  <2>1. owed[s] = {}
    BY <1>2 DEF SkipEmpty, IInv, SendersSound, SenderSound
  <2>2. TypeOK'
    BY <1>2 DEF SkipEmpty, IInv, TypeOK, maps, mutex
  <2>3. MapsSound'
    BY <1>2 DEF SkipEmpty, IInv, MapsSound, maps
  <2>4. SendersSound'
    BY <1>2, <2>1 DEF SkipEmpty, IInv, TypeOK, SendersSound, SenderSound, maps, mutex
  <2> QED
    BY <2>2, <2>3, <2>4 DEF IInv
<1>3. CASE BeginBroadcast(s)
  <2>1. map[s] \in Conns /\ owed[s] \subseteq members[map[s]] /\ at[s] = None
    BY <1>3 DEF BeginBroadcast, IInv, SendersSound, SenderSound
  <2>2. \A c \in members[map[s]] : c \in Conns /\ handler[c] \in Listed
    BY <2>1 DEF IInv, TypeOK, MapsSound
  <2>3. TypeOK'
    BY <1>3, <2>1 DEF BeginBroadcast, IInv, TypeOK, maps
  <2>4. MapsSound'
    BY <1>3 DEF BeginBroadcast, IInv, MapsSound, maps
  <2>5. SendersSound'
    BY <1>3, <2>1, <2>2
       DEF BeginBroadcast, IInv, TypeOK, SendersSound, SenderSound, maps
  <2> QED
    BY <2>3, <2>4, <2>5 DEF IInv
<1>4. CASE EndBroadcast(s)
  <2>1. owed[s] = {}
    BY <1>4 DEF EndBroadcast, IInv, SendersSound, SenderSound
  <2>2. TypeOK'
    BY <1>4 DEF EndBroadcast, IInv, TypeOK, maps
  <2>3. MapsSound'
    BY <1>4 DEF EndBroadcast, IInv, MapsSound, maps
  <2>4. SendersSound'
    BY <1>4, <2>1 DEF EndBroadcast, IInv, TypeOK, SendersSound, SenderSound, maps
  <2> QED
    BY <2>2, <2>3, <2>4 DEF IInv
<1>5. ASSUME NEW c \in Conns, BeginWrite(s, c)
      PROVE  IInv'
  <2>1. TypeOK'
    BY <1>5 DEF BeginWrite, IInv, TypeOK, maps, mutex
  <2>2. MapsSound'
    BY <1>5 DEF BeginWrite, IInv, MapsSound, maps
  <2>3. SendersSound'
    BY <1>5 DEF BeginWrite, IInv, TypeOK, SendersSound, SenderSound, maps, mutex
  <2> QED
    BY <2>1, <2>2, <2>3 DEF IInv
<1>6. ASSUME NEW c \in Conns, WritePanics(s, c)
      PROVE  IInv'
  BY <1>6, DeathKeeps DEF WritePanics
<1>7. CASE EndWrite(s)
  <2>1. stage[s] = "broadcasting" /\ at[s] \in left[s] /\ owed[s] \subseteq left[s]
    BY <1>7 DEF EndWrite, IInv, SendersSound, SenderSound
  <2>2. TypeOK'
    BY <1>7 DEF EndWrite, IInv, TypeOK, maps, mutex
  <2>3. MapsSound'
    BY <1>7 DEF EndWrite, IInv, MapsSound, maps
  <2>4. SendersSound'
    BY <1>7, <2>1 DEF EndWrite, IInv, TypeOK, SendersSound, SenderSound, maps, mutex
  <2> QED
    BY <2>2, <2>3, <2>4 DEF IInv
<1> QED
  BY <1>1, <1>2, <1>3, <1>4, <1>5, <1>6, <1>7 DEF Broadcast

-----------------------------------------------------------------------------
(* The theorems.                                                           *)

LEMMA InvKept == IInv /\ [Next]_vars => IInv'
<1> SUFFICES ASSUME IInv, [Next]_vars PROVE IInv'
  OBVIOUS
<1>1. CASE UNCHANGED vars
  BY <1>1 DEF vars, maps, mutex, sender, IInv, TypeOK, MapsSound, SendersSound, SenderSound
<1>2. ASSUME NEW c \in Conns, Client(c) \/ Handle(c) \/ EndWelcome(c)
      PROVE  IInv'
  BY <1>2, ClientKeeps, AddKeeps, HandlerKeeps, RemoveKeeps DEF Handle
<1>3. ASSUME NEW s \in Senders, LookUp(s) \/ Broadcast(s) \/ EndWrite(s)
      PROVE  IInv'
  BY <1>3, SenderKeeps
<1> QED
  BY <1>1, <1>2, <1>3 DEF Next

\* The variables keep their types, and a job's map is never empty and holds the
\* connections of that job only (addConnection, removeConnection, also when the
\* process is started again after a panic).
THEOREM TypeCorrect == Spec => []TypeOK
<1>1. IInv => TypeOK
  BY DEF IInv
<1> QED
  BY <1>1, InvInitially, InvKept, PTL DEF Spec

\* BroadcastProgress writes to no connection that HandleConnection has closed:
\* what it goes through was in its job's map when the second read lock was taken,
\* and the removal that comes before the close waits for that lock.
THEOREM NoWriteAfterCloseCorrect == Spec => []NoWriteAfterClose
<1>1. IInv => NoWriteAfterClose
  BY DEF IInv, SendersSound, SenderSound, NoWriteAfterClose, Listed, Connected
<1> QED
  BY <1>1, InvInitially, InvKept, PTL DEF Spec

\* A broadcast that is over has written to every connection that stayed from its
\* lookup on: the map it looked up was dropped by its job only when empty, so none
\* of them was in the map the job has been given since.
THEOREM AllConnectedWrittenCorrect == Spec => []AllConnectedWritten
<1>1. IInv => AllConnectedWritten
  BY DEF IInv, SendersSound, SenderSound, AllConnectedWritten
<1> QED
  BY <1>1, InvInitially, InvKept, PTL DEF Spec
=============================================================================
