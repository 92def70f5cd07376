-------------------------- MODULE WebSocketManager --------------------------
(***************************************************************************)
(* The progress connections of the clients: a handler per connection that  *)
(* registers it, reads until the client is gone, and removes it; and the   *)
(* executions, which broadcast to the connections of their job.            *)
(*                                                                         *)
(* A broadcast looks up the map of its job under one read lock, drops the  *)
(* lock, and writes to that map's connections under a second one, which it *)
(* holds while a client that does not read keeps a write waiting.  A Go    *)
(* map is a reference, so the maps have identities: a map is named by the  *)
(* connection it was made for.                                             *)
(***************************************************************************)
EXTENDS FiniteSets

CONSTANTS
    Conns,      \* connections, each of one client
    Senders,    \* goroutines that execute a job and broadcast for it
    Jobs,
    Topics,     \* which job each connection and sender may be for
    None        \* no map, no connection

ASSUME WebSocketAssumption ==
    None \notin Conns /\ Topics \subseteq [Conns \cup Senders -> Jobs]

VARIABLES
    topic,      \* the job of each connection and sender; never changes
    peer,       \* per connection: what its client does
    handler,    \* per connection: where HandleConnection stands
    table,      \* Manager.connections: per job its map, or None
    members,    \* the connections in each map
    writer,     \* the connection whose handler is the RWMutex's writer, or None
    readers,    \* the senders that hold the second read lock
    stage,      \* per sender: where BroadcastProgress stands
    map,        \* per sender: the map it looked up
    left,       \* per sender: the connections it still has to write to
    at,         \* per sender: the connection it writes to, or None
    owed        \* per sender: registered since its lookup and not yet written to

maps   == <<table, members>>
mutex  == <<writer, readers>>
sender == <<stage, map, left, at, owed>>
vars   == <<topic, peer, handler, maps, mutex, sender>>

\* The process has just started.
Fresh ==
    [peer    |-> [c \in Conns |-> "reading"],
     handler |-> [c \in Conns |-> "none"],
     table   |-> [j \in Jobs |-> None],
     members |-> [c \in Conns |-> {}],
     writer  |-> None,
     readers |-> {},
     stage   |-> [s \in Senders |-> "working"],
     map     |-> [s \in Senders |-> None],
     left    |-> [s \in Senders |-> {}],
     at      |-> [s \in Senders |-> None],
     owed    |-> [s \in Senders |-> {}]]

Init ==
    /\ topic \in Topics
    /\ peer = Fresh.peer /\ handler = Fresh.handler
    /\ table = Fresh.table /\ members = Fresh.members
    /\ writer = Fresh.writer /\ readers = Fresh.readers
    /\ stage = Fresh.stage /\ map = Fresh.map /\ left = Fresh.left
    /\ at = Fresh.at /\ owed = Fresh.owed

\* A panic outside a request handler ends the process, and it is started again.
ProcessDies ==
    /\ peer' = Fresh.peer /\ handler' = Fresh.handler
    /\ table' = Fresh.table /\ members' = Fresh.members
    /\ writer' = Fresh.writer /\ readers' = Fresh.readers
    /\ stage' = Fresh.stage /\ map' = Fresh.map /\ left' = Fresh.left
    /\ at' = Fresh.at /\ owed' = Fresh.owed
    /\ UNCHANGED topic

\* Registered, and the client is not known to be gone.
Registered(j) ==
    {c \in Conns : topic[c] = j /\ handler[c] \in {"welcoming", "writing", "reading"}}

\* The goroutines inside WriteMessage of a connection, as far as a sender or the
\* welcome message is concerned.
Writing(c) == handler[c] = "writing" \/ \E s \in Senders : at[s] = c

-----------------------------------------------------------------------------
(* The clients.                                                            *)

\* Its receive window and the send buffer are full: a write to it waits.  Bound:
\* a client stalls once.
Stall(c) ==
    /\ peer[c] = "reading" /\ handler[c] # "none"
    /\ peer' = [peer EXCEPT ![c] = "stalled"]
    /\ UNCHANGED <<topic, handler, maps, mutex, sender>>

ReadOn(c) ==
    /\ peer[c] = "stalled"
    /\ peer' = [peer EXCEPT ![c] = "draining"]
    /\ UNCHANGED <<topic, handler, maps, mutex, sender>>

Disconnect(c) ==
    /\ peer[c] # "gone" /\ handler[c] # "none"
    /\ peer' = [peer EXCEPT ![c] = "gone"]
    /\ UNCHANGED <<topic, handler, maps, mutex, sender>>

-----------------------------------------------------------------------------
(* HandleConnection.                                                       *)

Upgrade(c) ==
    /\ handler[c] = "none"
    /\ \E h \in {"adding", "closed"} : handler' = [handler EXCEPT ![c] = h]
    /\ UNCHANGED <<topic, peer, maps, mutex, sender>>

\* Lock: from now on no new reader gets in, and the writer waits for the others.
Lock(c) ==
    /\ writer = None /\ handler[c] \in {"adding", "removing"}
    /\ writer' = c
    /\ UNCHANGED <<topic, peer, handler, maps, readers, sender>>

\* Mutant of AddConnection: a map is made although the job has one.
AddReplaces(c) ==
    /\ writer = c /\ readers = {} /\ handler[c] = "adding"
    /\ table' = [table EXCEPT ![topic[c]] = c]
    /\ members' = [members EXCEPT ![c] = {c}]
    /\ handler' = [handler EXCEPT ![c] = "welcoming"] /\ writer' = None
    /\ UNCHANGED <<topic, peer, readers, sender>>

AddConnection(c) ==
    /\ writer = c /\ readers = {} /\ handler[c] = "adding"
    /\ IF table[topic[c]] = None
       THEN /\ table' = [table EXCEPT ![topic[c]] = c]
            /\ members' = [members EXCEPT ![c] = {c}]
       ELSE /\ members' = [members EXCEPT ![table[topic[c]]] = @ \cup {c}]
            /\ UNCHANGED table
    /\ handler' = [handler EXCEPT ![c] = "welcoming"] /\ writer' = None
    /\ UNCHANGED <<topic, peer, readers, sender>>

\* sendWelcomeMessage: a write without the lock, to a registered connection.
BeginWelcome(c) ==
    /\ handler[c] = "welcoming"
    /\ handler' = [handler EXCEPT ![c] = "writing"]
    /\ UNCHANGED <<topic, peer, maps, mutex, sender>>

\* Whether it was sent is not looked at.
EndWelcome(c) ==
    /\ handler[c] = "writing" /\ peer[c] # "stalled"
    /\ handler' = [handler EXCEPT ![c] = "reading"]
    /\ UNCHANGED <<topic, peer, maps, mutex, sender>>

\* The handler has returned or panicked; its first deferred call waits for Lock.
Leave(c) ==
    /\ handler' = [handler EXCEPT ![c] = "removing"]
    /\ owed' = [s \in Senders |-> owed[s] \ {c}]
    /\ UNCHANGED <<topic, peer, maps, mutex, stage, map, left, at>>

\* The library panics on a second writer; net/http recovers, the deferred calls run.
WelcomePanics(c) ==
    /\ handler[c] = "welcoming" /\ Writing(c)
    /\ Leave(c)

\* Mutant of ReadFails: the deferred removal is missing.
ReadFailsStays(c) ==
    /\ handler[c] = "reading" /\ peer[c] = "gone"
    /\ handler' = [handler EXCEPT ![c] = "closing"]
    /\ owed' = [s \in Senders |-> owed[s] \ {c}]
    /\ UNCHANGED <<topic, peer, maps, mutex, stage, map, left, at>>

ReadFails(c) ==
    /\ handler[c] = "reading" /\ peer[c] = "gone"
    /\ Leave(c)

\* Mutant of RemoveConnection: a job keeps its map when the map is empty.
RemoveKeepsMap(c) ==
    /\ writer = c /\ readers = {} /\ handler[c] = "removing"
    /\ members' = [m \in Conns |-> members[m] \ IF m = table[topic[c]] THEN {c} ELSE {}]
    /\ handler' = [handler EXCEPT ![c] = "closing"] /\ writer' = None
    /\ UNCHANGED <<topic, peer, table, readers, sender>>

RemoveConnection(c) ==
    /\ writer = c /\ readers = {} /\ handler[c] = "removing"
    /\ LET m == table[topic[c]]
       IN  IF m = None
           THEN UNCHANGED maps
           ELSE /\ members' = [members EXCEPT ![m] = @ \ {c}]
                /\ table' = IF members[m] \ {c} = {}
                            THEN [table EXCEPT ![topic[c]] = None] ELSE table
    /\ handler' = [handler EXCEPT ![c] = "closing"] /\ writer' = None
    /\ UNCHANGED <<topic, peer, readers, sender>>

Close(c) ==
    /\ handler[c] = "closing"
    /\ handler' = [handler EXCEPT ![c] = "closed"]
    /\ UNCHANGED <<topic, peer, maps, mutex, sender>>

-----------------------------------------------------------------------------
(* BroadcastProgress.                                                      *)

\* The first read lock: from here on the map is used without looking it up.
LookUp(s) ==
    /\ stage[s] = "working" /\ writer = None
    /\ owed' = [owed EXCEPT ![s] = Registered(topic[s])]
    /\ map' = [map EXCEPT ![s] = table[topic[s]]]
    /\ stage' = [stage EXCEPT ![s] = IF table[topic[s]] = None THEN @ ELSE "found"]
    /\ UNCHANGED <<topic, peer, handler, maps, mutex, left, at>>

\* The length is read without the lock: that of an emptied map may be 0 already.
SkipEmpty(s) ==
    /\ stage[s] = "found" /\ members[map[s]] = {}
    /\ stage' = [stage EXCEPT ![s] = "working"]
    /\ UNCHANGED <<topic, peer, handler, maps, mutex, map, left, at, owed>>

\* The second read lock.
BeginBroadcast(s) ==
    /\ stage[s] = "found" /\ writer = None
    /\ readers' = readers \cup {s}
    /\ left' = [left EXCEPT ![s] = members[map[s]]]
    /\ stage' = [stage EXCEPT ![s] = "broadcasting"]
    /\ UNCHANGED <<topic, peer, handler, maps, writer, map, at, owed>>

BeginWrite(s, c) ==
    /\ stage[s] = "broadcasting" /\ at[s] = None /\ c \in left[s]
    /\ at' = [at EXCEPT ![s] = c]
    /\ UNCHANGED <<topic, peer, handler, maps, mutex, stage, map, left, owed>>

\* A failed write is only logged.
EndWrite(s) ==
    /\ at[s] # None /\ peer[at[s]] # "stalled"
    /\ left' = [left EXCEPT ![s] = @ \ {at[s]}]
    /\ owed' = [owed EXCEPT ![s] = @ \ {at[s]}]
    /\ at' = [at EXCEPT ![s] = None]
    /\ UNCHANGED <<topic, peer, handler, maps, mutex, stage, map>>

\* The library panics on a second writer, and nothing recovers a sender.
WritePanics(s, c) ==
    /\ stage[s] = "broadcasting" /\ at[s] = None /\ c \in left[s] /\ Writing(c)
    /\ ProcessDies

\* Mutant of EndBroadcast: the second read lock is kept.
EndKeepsLock(s) ==
    /\ stage[s] = "broadcasting" /\ at[s] = None /\ left[s] = {}
    /\ stage' = [stage EXCEPT ![s] = "working"]
    /\ UNCHANGED <<topic, peer, handler, maps, mutex, map, left, at, owed>>

EndBroadcast(s) ==
    /\ stage[s] = "broadcasting" /\ at[s] = None /\ left[s] = {}
    /\ readers' = readers \ {s}
    /\ stage' = [stage EXCEPT ![s] = "working"]
    /\ UNCHANGED <<topic, peer, handler, maps, writer, map, left, at, owed>>

-----------------------------------------------------------------------------
Client(c) == Stall(c) \/ ReadOn(c) \/ Disconnect(c) \/ Upgrade(c)

Handle(c) ==
    \/ Lock(c) \/ AddConnection(c) \/ BeginWelcome(c) \/ WelcomePanics(c) \/ ReadFails(c)
    \/ RemoveConnection(c) \/ Close(c)

Broadcast(s) ==
    \/ SkipEmpty(s) \/ BeginBroadcast(s) \/ EndBroadcast(s)
    \/ \E c \in Conns : BeginWrite(s, c) \/ WritePanics(s, c)

Next ==
    \/ \E c \in Conns : Client(c) \/ Handle(c) \/ EndWelcome(c)
    \/ \E s \in Senders : LookUp(s) \/ Broadcast(s) \/ EndWrite(s)

Spec == Init /\ [][Next]_vars

\* Go runs its goroutines, and a write ends unless the client stalls it for good.
\* That no client does is assumed of the clients: the writes have no deadline.
\* Nobody has to broadcast or connect.
FairSpec ==
    /\ Spec
    /\ \A c \in Conns : WF_vars(Handle(c)) /\ WF_vars(EndWelcome(c)) /\ WF_vars(ReadOn(c))
    /\ \A s \in Senders : WF_vars(Broadcast(s)) /\ WF_vars(EndWrite(s))

-----------------------------------------------------------------------------
(* Properties.                                                             *)

\* Types of the variables; a job's map is never empty and holds its connections.
TypeOK ==
    /\ topic \in Topics
    /\ peer \in [Conns -> {"reading", "stalled", "draining", "gone"}]
    /\ handler \in [Conns -> {"none", "adding", "welcoming", "writing", "reading",
                              "removing", "closing", "closed"}]
    /\ table \in [Jobs -> Conns \cup {None}] /\ members \in [Conns -> SUBSET Conns]
    /\ writer \in Conns \cup {None} /\ readers \subseteq Senders
    /\ stage \in [Senders -> {"working", "found", "broadcasting"}]
    /\ map \in [Senders -> Conns \cup {None}]
    /\ left \in [Senders -> SUBSET Conns] /\ owed \in [Senders -> SUBSET Conns]
    /\ at \in [Senders -> Conns \cup {None}]
    /\ \A j \in Jobs : table[j] # None =>
           members[table[j]] # {} /\ \A c \in members[table[j]] : topic[c] = j

\* No broadcast writes to a connection its handler has closed, although the map
\* was looked up under a lock that was dropped since (HandleConnection defers
\* the removal after the close, so that it runs before it).
NoWriteAfterClose ==
    \A s \in Senders : at[s] # None => handler[at[s]] # "closed"

\* "Updates sent to all connected clients": a broadcast that is over has written
\* to every connection that was registered from its lookup to its end, although
\* the job's map may have been emptied and made anew meanwhile.
AllConnectedWritten ==
    \A s \in Senders : stage[s] = "working" => owed[s] = {}

\* If no client stalls a write for good, every broadcast ends and every handler
\* whose client is gone is removed and closed: the two kinds of lock do not keep
\* each other out for ever (BroadcastProgress, removeConnection).
BroadcastsEnd == \A s \in Senders : (stage[s] # "working") ~> (stage[s] = "working")

HandlersLeave ==
    \A c \in Conns : (handler[c] = "removing") ~> (handler[c] \in {"closed", "none"})
=============================================================================
