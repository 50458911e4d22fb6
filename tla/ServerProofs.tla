---------------------------- MODULE ServerProofs ----------------------------
(***************************************************************************)
(* Proofs about ServerManager for every number of clients, of slots and of *)
(* messages: the manager implements ContextFeed, and an open connection is *)
(* in the table. ServerInv is inductive; it is the conjunction of what     *)
(* each thread may rely on.                                                *)
(***************************************************************************)
EXTENDS ServerProperties, WellFoundedInduction, TLAPS

Messages == [kind : {"none", "other", "context", "controller"}, number : Nat]

\* The types, and what a place in the code knows of its loop variable.
TypeInv ==
  /\ queue \in [Producers -> Seq(Messages)]
  /\ connectionQueue \in Seq(Conns)
  /\ connections \in [Slots -> Conns \cup {NoConn}]
  /\ at \in 1..(MaxConnections + 1)
  /\ message \in Messages
  /\ client \in Conns \cup {NoConn}
  /\ queuePc \in {"deliver", "adding"} => at \in Slots
  /\ queuePc = "adding" => client \in Conns
  /\ socket \in [Conns -> {"new", "queued", "open", "left", "closed"}]
  /\ handle \in [Conns -> 0..MaxConnections]
  /\ io \in [pc : {"idle", "requested", "closed"}, conn : Sockets \cup {NoConn}]
  /\ io.pc = "closed" => io.conn \in Sockets
  /\ mainAt \in 1..(MaxConnections + 1)
  /\ mainConn \in Conns \cup {NoConn}
  /\ mainPc \in {"closing", "closed"} => mainConn \in Conns /\ mainAt \in Slots
  /\ published \in Nat
  /\ fed \in [Conns -> Nat]

\* Contexts are queued by the scanner only, in the order of publication, and
\* none that a client was already fed.
QueueInv ==
  /\ \A p \in Producers \ {"scanner"} :
       \A i \in 1..Len(queue[p]) : queue[p][i].kind # "context"
  /\ \A i \in 1..Len(queue["scanner"]) : queue["scanner"][i].number \in 1..published
  /\ \A i, j \in 1..Len(queue["scanner"]) :
       i < j => queue["scanner"][i].number < queue["scanner"][j].number
  /\ \A c \in Conns, i \in 1..Len(queue["scanner"]) : fed[c] < queue["scanner"][i].number
  /\ \A c \in Conns : fed[c] <= published

\* During a broadcast only those before the slot have the context.
Broadcasting == queuePc \in {"check", "deliver"} /\ message.kind = "context"
BroadcastInv ==
  Broadcasting =>
    /\ message.number \in 1..published
    /\ \A i \in 1..Len(queue["scanner"]) : message.number < queue["scanner"][i].number
    /\ \A c \in Conns : /\ fed[c] <= message.number
                        /\ fed[c] = message.number => handle[c] < at

\* A connection waits in the queue, is being added, or has the slot of its
\* handle; nobody has two of these.
TableInv ==
  /\ \A i \in 1..Len(connectionQueue) : socket[connectionQueue[i]] = "queued"
  /\ \A i, j \in 1..Len(connectionQueue) :
       i # j => connectionQueue[i] # connectionQueue[j]
  /\ \A i \in Slots : connections[i] # NoConn =>
       /\ handle[connections[i]] = i
       /\ socket[connections[i]] \notin {"new", "queued"}
  /\ queuePc = "adding" =>
       /\ socket[client] \notin {"new", "queued"}
       /\ handle[client] = at
       /\ connections[at] = NoConn

\* The slot of a connection that a thread is about to clear holds it, or is
\* about to, or is empty for good, since main allows no more connections.
Adding(c) == queuePc = "adding" /\ client = c
Clearable(c) ==
  /\ handle[c] # 0
  /\ \/ connections[handle[c]] = c
     \/ Adding(c)
     \/ /\ connections[handle[c]] = NoConn /\ ~allowConnections
        /\ ~(queuePc = "adding" /\ at = handle[c])
ClearInv ==
  Alive =>
    /\ \A c \in Conns : socket[c] = "open" => SlotOf(c) = c \/ Adding(c)
    /\ mainPc \notin {"starting", "allowed", "running"} => ~allowConnections
    /\ ~run \/ queuePc = "stopping" => mainPc \notin {"starting", "allowed", "running"}
    /\ io.pc = "closed" =>
         mainPc # "starting" /\ socket[io.conn] = "closed" /\ Clearable(io.conn)
    /\ mainPc \in {"closing", "closed"} =>
         socket[mainConn] \notin {"new", "queued"} /\ Clearable(mainConn)
    /\ mainPc = "closed" => socket[mainConn] # "open"

ServerInv == TypeInv /\ QueueInv /\ BroadcastInv /\ TableInv /\ ClearInv

-----------------------------------------------------------------------------
\* What the assumption says of the constants.
LEMMA ConstantFacts ==
  /\ MaxConnections \in Nat /\ MaxConnections > 0
  /\ MaxClients \in Nat /\ MaxPublished \in Nat /\ MaxLevels \in Nat
  /\ NoConn \notin Conns /\ Console \notin Sockets
  BY ServerAssumption DEF Conns, Sockets

\* The slot that _addConnection takes is a free one.
LEMMA LowestIsFree == FreeSlots # {} => LowestFree \in FreeSlots
<1> SUFFICES ASSUME FreeSlots # {} PROVE LowestFree \in FreeSlots
  OBVIOUS
<1>1. FreeSlots \subseteq Nat
  BY ConstantFacts DEF FreeSlots, Slots
<1>2. PICK i \in FreeSlots : \A j \in FreeSlots : ~(<<j, i>> \in OpToRel(<, Nat))
  BY <1>1, NatLessThanWellFounded, WFMin
<1>3. ASSUME NEW j \in FreeSlots PROVE i <= j
  <2>1. <<j, i>> \in Nat \X Nat
    BY <1>1
  <2>2. ~(j < i)
    BY <1>2, <2>1 DEF OpToRel
  <2> QED
    BY <1>1, <2>2
<1> QED
  BY <1>3 DEF LowestFree

-----------------------------------------------------------------------------
(* Types.                                                                  *)

\* The initial states have the types.
LEMMA InitTypes == Init => TypeInv
<1> SUFFICES ASSUME Init PROVE TypeInv
  OBVIOUS
<1>1. connectionQueue \in Seq(Conns)
  <2>1. <<Console>> \in Seq(Conns) /\ <<>> \in Seq(Conns)
    BY DEF Conns
  <2> QED
    BY <2>1 DEF Init
<1>2. message \in Messages /\ io \in [pc : {"idle", "requested", "closed"}, conn : Sockets \cup {NoConn}]
  BY DEF Init, Messages, NoMessage, Quiet
<1>3. queue \in [Producers -> Seq(Messages)]
  BY DEF Init
<1> QED
  BY <1>1, <1>2, <1>3, ConstantFacts DEF Init, TypeInv, Quiet, Slots

\* Giving a message is type correct.
LEMMA EnqueueTypes ==
  ASSUME queue \in [Producers -> Seq(Messages)], NEW p \in Producers, NEW m \in Messages,
         queue' = [queue EXCEPT ![p] = Append(@, m)]
  PROVE  queue' \in [Producers -> Seq(Messages)]
<1>1. Append(queue[p], m) \in Seq(Messages)
  OBVIOUS
<1> QED
  BY <1>1

\* The kinds of messages.
LEMMA MessageFacts ==
  /\ Other \in Messages /\ Other.kind = "other"
  /\ NoMessage \in Messages /\ NoMessage.kind = "none"
  /\ \A n \in Nat : [kind |-> "context", number |-> n] \in Messages
  /\ [kind |-> "controller", number |-> 0] \in Messages
  BY DEF Other, NoMessage, Messages

\* Every step keeps them.
LEMMA NextTypes == TypeInv /\ [Next]_vars => TypeInv'
<1> SUFFICES ASSUME TypeInv, [Next]_vars PROVE TypeInv'
  OBVIOUS
<1> USE ConstantFacts
<1> USE DEF TypeInv, Unchanged, vars, queueVars, threadVars, flagVars, connVars, mainVars
<1>1. CASE GiveContext
  <2>1. published' \in Nat /\ [kind |-> "context", number |-> published'] \in Messages
    BY <1>1, MessageFacts DEF GiveContext
  <2>2. queue' \in [Producers -> Seq(Messages)]
    BY <1>1, <2>1, EnqueueTypes DEF GiveContext, Enqueue, Producers
  <2> QED
    BY <1>1, <2>1, <2>2 DEF GiveContext
<1>2. CASE GiveLevel \/ ConsoleTunes
  <2>1. queue' \in [Producers -> Seq(Messages)]
    BY <1>2, EnqueueTypes, MessageFacts DEF GiveLevel, ConsoleTunes, Enqueue, Producers
  <2> QED
    BY <1>2, <2>1 DEF GiveLevel, ConsoleTunes
<1>3. CASE \E p \in Producers : Wake(p)
  BY <1>3 DEF Wake
<1>4. CASE ConsoleExit
  <2>1. queue' \in [Producers -> Seq(Messages)]
    <3>1. CASE SlotOf(Console) = NoConn
      BY <1>4, <3>1 DEF ConsoleExit
    <3>2. CASE SlotOf(Console) # NoConn
      BY <1>4, <3>2, EnqueueTypes, MessageFacts DEF ConsoleExit, Enqueue, Producers
    <3> QED
      BY <3>1, <3>2
  <2>2. socket' \in [Conns -> {"new", "queued", "open", "left", "closed"}]
    BY <1>4 DEF ConsoleExit
  <2> QED
    BY <1>4, <2>1, <2>2 DEF ConsoleExit, Crash
<1>5. CASE QueueTop
  BY <1>5 DEF QueueTop
<1>6. CASE QueueWait
  BY <1>6 DEF QueueWait
<1>7. CASE QueueDrained
  BY <1>7 DEF QueueDrained
<1>8. CASE QueueUnlock
  BY <1>8 DEF QueueUnlock, FlagAfterLoop
<1>9. CASE QueueTop \/ QueueWait \/ QueueDrained \/ QueueUnlock
  BY <1>9, <1>5, <1>6, <1>7, <1>8
<1>10. CASE QueueDequeue
  <2>1. PICK p \in Producers : /\ queue[p] # <<>> /\ message' = Head(queue[p])
                               /\ queue' = [queue EXCEPT ![p] = Tail(@)]
    BY <1>10 DEF QueueDequeue
  <2>2. Head(queue[p]) \in Messages /\ Tail(queue[p]) \in Seq(Messages)
    BY <2>1
  <2>3. queue' \in [Producers -> Seq(Messages)] /\ message' \in Messages
    BY <2>1, <2>2
  <2>4. at' = 1 /\ 1 \in 1..(MaxConnections + 1) /\ queuePc' \in {"crashed", "check"}
    BY <1>10 DEF QueueDequeue
  <2> QED
    BY <1>10, <2>3, <2>4 DEF QueueDequeue
<1>11. CASE QueueCheck
  BY <1>11 DEF QueueCheck, AfterMessage, NoMessage, Messages, Slots
<1>12. CASE QueueDeliver
  <2>1. fed' \in [Conns -> Nat]
    BY <1>12 DEF QueueDeliver, Messages
  <2>2. at' \in 1..(MaxConnections + 1) /\ queuePc' \in {"crashed", "check"}
    BY <1>12 DEF QueueDeliver, Slots
  <2> QED
    BY <1>12, <2>1, <2>2 DEF QueueDeliver
<1>13. CASE QueueConnect
  BY <1>13, LowestIsFree DEF QueueConnect, FreeSlots, Slots
<1>14. CASE QueueDrop
  BY <1>14 DEF QueueDrop
<1>15. CASE QueueAdd
  BY <1>15 DEF QueueAdd, Slots
<1>16. CASE QueueStop
  <2>1. connections' \in [Slots -> Conns \cup {NoConn}]
    BY <1>16 DEF QueueStop
  <2>2. socket' \in [Conns -> {"new", "queued", "open", "left", "closed"}]
    BY <1>16 DEF QueueStop
  <2>3. queue' \in [Producers -> Seq(Messages)]
    BY <1>16 DEF QueueStop
  <2> QED
    BY <1>16, <2>1, <2>2, <2>3 DEF QueueStop
<1>17. ASSUME NEW c \in Sockets, Accept(c) PROVE TypeInv'
  <2>1. connectionQueue' \in Seq(Conns)
    BY <1>17 DEF Accept, Conns
  <2>2. socket' \in [Conns -> {"new", "queued", "open", "left", "closed"}]
    BY <1>17 DEF Accept
  <2>3. io' \in [pc : {"idle", "requested", "closed"}, conn : Sockets \cup {NoConn}] /\ io'.pc = "requested"
    BY <1>17 DEF Accept, Quiet
  <2> QED
    BY <1>17, <2>1, <2>2, <2>3 DEF Accept
<1>18. ASSUME NEW c \in Sockets, ClientTunes(c) PROVE TypeInv'
  <2>1. queue' \in [Producers -> Seq(Messages)]
    BY <1>18, EnqueueTypes, MessageFacts DEF ClientTunes, Producers
  <2>2. io' \in [pc : {"idle", "requested", "closed"}, conn : Sockets \cup {NoConn}] /\ io'.pc = "requested"
    BY <1>18 DEF ClientTunes, Quiet
  <2> QED
    BY <1>18, <2>1, <2>2 DEF ClientTunes
<1>19. ASSUME NEW c \in Sockets, ClientLeaves(c) PROVE TypeInv'
  BY <1>19 DEF ClientLeaves, Quiet, Conns
<1>20. CASE IoWake
  BY <1>20 DEF IoWake, Quiet
<1>21. CASE ClientCleared
  <2>1. connections' \in [Slots -> Conns \cup {NoConn}]
    <3>1. \/ UNCHANGED connections
          \/ connections' = [connections EXCEPT ![handle[io.conn]] = NoConn]
      BY <1>21 DEF ClientCleared, ClearSlot
    <3> QED
      BY <3>1
  <2>2. io' \in [pc : {"idle", "requested", "closed"}, conn : Sockets \cup {NoConn}] /\ io'.pc = "idle"
    BY <1>21 DEF ClientCleared, Quiet
  <2> QED
    BY <1>21, <2>1, <2>2 DEF ClientCleared, Crash
<1>22. CASE MainAllow \/ MainRuns \/ MainStop \/ MainRunOff \/ MainWake \/ MainSave
  BY <1>22 DEF MainAllow, MainRuns, MainStop, MainRunOff, MainWake, MainSave
<1>23. CASE MainLoop
  BY <1>23 DEF MainLoop, Slots
<1>24. CASE MainClose
  <2>1. socket' \in [Conns -> {"new", "queued", "open", "left", "closed"}]
    <3>1. CASE UNCHANGED socket
      BY <3>1
    <3>2. CASE socket' = [socket EXCEPT ![mainConn] = IF @ = "open" THEN "closed" ELSE @]
      BY <3>2
    <3> QED
      BY <1>24, <3>1, <3>2 DEF MainClose
  <2>2. mainAt \in Slots /\ mainAt + 1 \in 1..(MaxConnections + 1) /\ mainConn \in Conns
    BY <1>24 DEF MainClose, Slots
  <2>3. /\ mainAt' \in {mainAt, mainAt + 1} /\ mainConn' \in {mainConn, NoConn}
        /\ mainPc' \in {"closing", "closed"} => UNCHANGED <<mainAt, mainConn>>
    BY <1>24 DEF MainClose
  <2>4. UNCHANGED <<at, message, client>> /\ queuePc' \in {queuePc, "crashed"}
    BY <1>24 DEF MainClose, Crash
  <2> QED
    BY <1>24, <2>1, <2>2, <2>3, <2>4 DEF MainClose
<1>25. CASE MainCleared
  <2>1. connections' \in [Slots -> Conns \cup {NoConn}]
    BY <1>25 DEF MainCleared, ClearSlot
  <2> QED
    BY <1>25, <2>1 DEF MainCleared, Crash, Slots
<1>26. CASE UNCHANGED vars
  BY <1>26
<1> QED
  BY <1>1, <1>2, <1>3, <1>4, <1>9, <1>10, <1>11, <1>12, <1>13, <1>14, <1>15, <1>16, <1>17,
     <1>18, <1>19, <1>20, <1>21, <1>22, <1>23, <1>24, <1>25, <1>26 DEF Next, IoStep, QueueStep, MainStep

-----------------------------------------------------------------------------
(* The table of connections.                                               *)

\* Nobody is in the table at first.
LEMMA InitTable == Init => TableInv
<1> SUFFICES ASSUME Init PROVE TableInv
  OBVIOUS
<1>1. \A i \in 1..Len(connectionQueue) : i = 1 /\ connectionQueue[i] = Console /\ UseDebugServer
  BY DEF Init
<1>2. socket[Console] = "queued" \/ ~UseDebugServer
  BY DEF Init, Conns
<1> QED
  BY <1>1, <1>2 DEF Init, TableInv

\* TableInv speaks of these variables only, and of the socket only whether it
\* is still in the queue.
LEMMA TableFrame ==
  ASSUME TypeInv, TableInv, UNCHANGED <<connectionQueue, handle>>,
         socket' \in [Conns -> {"new", "queued", "open", "left", "closed"}],
         \A c \in Conns : socket'[c] = socket[c] \/ (socket[c] = "open" /\ socket'[c] \in {"left", "closed"}),
         \A i \in Slots : connections'[i] \in {connections[i], NoConn},
         queuePc' = "adding" => UNCHANGED <<queuePc, client, at>>
  PROVE  TableInv'
<1> USE DEF TypeInv
<1>1. \A i \in 1..Len(connectionQueue) : connectionQueue[i] \in Conns
  OBVIOUS
<1>2. \A i \in 1..Len(connectionQueue') : socket'[connectionQueue'[i]] = "queued"
  BY <1>1 DEF TableInv
<1>3. \A i \in Slots : connections'[i] # NoConn =>
        handle'[connections'[i]] = i /\ socket'[connections'[i]] \notin {"new", "queued"}
  <2> SUFFICES ASSUME NEW i \in Slots, connections'[i] # NoConn
               PROVE  handle'[connections'[i]] = i /\ socket'[connections'[i]] \notin {"new", "queued"}
    OBVIOUS
  <2>1. connections'[i] = connections[i] /\ connections[i] \in Conns
    OBVIOUS
  <2>2. handle[connections[i]] = i /\ socket[connections[i]] \notin {"new", "queued"}
    BY <2>1 DEF TableInv
  <2>3. socket'[connections[i]] \notin {"new", "queued"}
    BY <2>1, <2>2
  <2> QED
    BY <2>1, <2>2, <2>3
<1>4. queuePc' = "adding" =>
        socket'[client'] \notin {"new", "queued"} /\ handle'[client'] = at' /\ connections'[at'] = NoConn
  <2> SUFFICES ASSUME queuePc' = "adding"
               PROVE  socket'[client'] \notin {"new", "queued"} /\ handle'[client'] = at' /\ connections'[at'] = NoConn
    OBVIOUS
  <2>1. client' \in Conns /\ at' \in Slots /\ client' = client /\ at' = at /\ queuePc = "adding"
    OBVIOUS
  <2> QED
    BY <2>1 DEF TableInv
<1> QED
  BY <1>2, <1>3, <1>4 DEF TableInv

\* The thread takes the longest waiting connection: the rest of the queue is
\* still in order, and no longer holds it.
LEMMA HeadLeaves ==
  ASSUME TypeInv, TableInv, connectionQueue # <<>>,
         connectionQueue' = Tail(connectionQueue)
  PROVE  LET c == Head(connectionQueue) IN
         /\ c \in Conns /\ socket[c] = "queued"
         /\ \A i \in 1..Len(connectionQueue') :
              /\ connectionQueue'[i] \in Conns
              /\ connectionQueue'[i] # c
              /\ socket[connectionQueue'[i]] = "queued"
         /\ \A i, j \in 1..Len(connectionQueue') :
              i # j => connectionQueue'[i] # connectionQueue'[j]
<1> DEFINE c == Head(connectionQueue)
<1>1. connectionQueue \in Seq(Conns)
  BY DEF TypeInv
<1>2. c = connectionQueue[1] /\ 1 \in 1..Len(connectionQueue) /\ c \in Conns
  BY <1>1
<1>3. ASSUME NEW i \in 1..Len(connectionQueue')
      PROVE  /\ connectionQueue'[i] = connectionQueue[i + 1]
             /\ i + 1 \in 1..Len(connectionQueue) /\ i + 1 # 1
             /\ connectionQueue[i + 1] \in Conns
  <2>1. Len(connectionQueue') = Len(connectionQueue) - 1 /\ Len(connectionQueue) \in Nat
    BY <1>1
  <2>2. i + 1 \in 1..Len(connectionQueue) /\ i + 1 # 1
    BY <2>1
  <2> QED
    BY <1>1, <2>1, <2>2
<1>4. socket[c] = "queued"
  BY <1>2 DEF TableInv
<1>5. ASSUME NEW i \in 1..Len(connectionQueue')
      PROVE  /\ connectionQueue'[i] \in Conns /\ connectionQueue'[i] # c
             /\ socket[connectionQueue'[i]] = "queued"
  <2>1. connectionQueue[i + 1] # connectionQueue[1]
    BY <1>2, <1>3 DEF TableInv
  <2>2. socket[connectionQueue[i + 1]] = "queued"
    BY <1>3 DEF TableInv
  <2> QED
    BY <1>2, <1>3, <2>1, <2>2
<1>6. ASSUME NEW i \in 1..Len(connectionQueue'), NEW j \in 1..Len(connectionQueue'), i # j
      PROVE  connectionQueue'[i] # connectionQueue'[j]
  <2>1. i + 1 # j + 1
    BY <1>6
  <2>2. connectionQueue[i + 1] # connectionQueue[j + 1]
    BY <1>3, <2>1 DEF TableInv
  <2> QED
    BY <1>3, <2>2
<1> QED
  BY <1>2, <1>4, <1>5, <1>6

\* Every step keeps the table in order.
LEMMA NextTable == TypeInv /\ TableInv /\ [Next]_vars => TableInv'
<1> SUFFICES ASSUME TypeInv, TableInv, [Next]_vars PROVE TableInv'
  OBVIOUS
<1> USE ConstantFacts
<1> USE DEF Unchanged, vars, queueVars, threadVars, flagVars, connVars, mainVars
<1>0. ASSUME UNCHANGED <<connectionQueue, connections, socket, handle, client, at>>,
             queuePc' = queuePc \/ queuePc' # "adding"
      PROVE  TableInv'
  BY <1>0, TableFrame DEF TypeInv
<1>1. CASE GiveContext \/ GiveLevel \/ ConsoleTunes \/ \E p \in Producers : Wake(p)
  BY <1>0, <1>1 DEF GiveContext, GiveLevel, ConsoleTunes, Wake
<1>2. CASE ConsoleExit
  BY <1>2, TableFrame DEF ConsoleExit, Crash, TypeInv, Conns
<1>3. CASE QueueTop \/ QueueWait \/ QueueDrained \/ QueueUnlock
  BY <1>0, <1>3 DEF QueueTop, QueueWait, QueueDrained, QueueUnlock
<1>4. CASE QueueDequeue \/ QueueCheck \/ QueueDeliver
  <2>1. queuePc' # "adding"
    BY <1>4 DEF QueueDequeue, QueueCheck, QueueDeliver, AfterMessage
  <2> QED
    BY <1>4, <2>1, TableFrame DEF QueueDequeue, QueueCheck, QueueDeliver, TypeInv
<1>5. CASE QueueConnect
  <2> DEFINE c == Head(connectionQueue)
  <2>1. connectionQueue # <<>> /\ connectionQueue' = Tail(connectionQueue)
    BY <1>5 DEF QueueConnect
  <2>2. /\ client' = c /\ at' = LowestFree /\ queuePc' = "adding" /\ UNCHANGED connections
        /\ handle' = [handle EXCEPT ![c] = at'] /\ socket' = [socket EXCEPT ![c] = "open"]
    BY <1>5 DEF QueueConnect
  <2>3. at' \in Slots /\ connections[at'] = NoConn
    BY <1>5, <2>2, LowestIsFree DEF QueueConnect, FreeSlots
  <2>4. c \in Conns /\ socket[c] = "queued"
    BY <2>1, HeadLeaves
  <2>5. \A i \in 1..Len(connectionQueue') : socket'[connectionQueue'[i]] = "queued"
    BY <2>1, <2>2, HeadLeaves DEF TypeInv
  <2>6. \A i, j \in 1..Len(connectionQueue') : i # j => connectionQueue'[i] # connectionQueue'[j]
    BY <2>1, HeadLeaves
  <2>7. \A i \in Slots : connections'[i] # NoConn =>
          handle'[connections'[i]] = i /\ socket'[connections'[i]] \notin {"new", "queued"}
    BY <2>2, <2>4 DEF TableInv, TypeInv
  <2>8. socket'[client'] = "open" /\ handle'[client'] = at' /\ connections'[at'] = NoConn
    BY <2>2, <2>3, <2>4 DEF TypeInv
  <2> QED
    BY <2>5, <2>6, <2>7, <2>8 DEF TableInv
<1>6. CASE QueueDrop
  <2> DEFINE c == Head(connectionQueue)
  <2>1. connectionQueue # <<>> /\ connectionQueue' = Tail(connectionQueue)
    BY <1>6 DEF QueueDrop
  <2>2. /\ socket' = [socket EXCEPT ![c] = "closed"] /\ queuePc' = "connections"
        /\ UNCHANGED <<connections, handle>>
    BY <1>6 DEF QueueDrop
  <2>3. \A i \in 1..Len(connectionQueue') : socket'[connectionQueue'[i]] = "queued"
    BY <2>1, <2>2, HeadLeaves DEF TypeInv
  <2>4. \A i, j \in 1..Len(connectionQueue') : i # j => connectionQueue'[i] # connectionQueue'[j]
    BY <2>1, HeadLeaves
  <2>5. \A i \in Slots : connections'[i] # NoConn =>
          handle'[connections'[i]] = i /\ socket'[connections'[i]] \notin {"new", "queued"}
    BY <2>2 DEF TableInv, TypeInv
  <2> QED
    BY <2>2, <2>3, <2>4, <2>5 DEF TableInv
<1>7. CASE QueueAdd
  <2>1. /\ connections' = [connections EXCEPT ![at] = client] /\ queuePc' = "connections"
        /\ UNCHANGED <<connectionQueue, socket, handle>>
        /\ queuePc = "adding" /\ at \in Slots /\ client \in Conns
    BY <1>7 DEF QueueAdd, TypeInv
  <2>2. \A i \in Slots : connections'[i] # NoConn =>
          handle'[connections'[i]] = i /\ socket'[connections'[i]] \notin {"new", "queued"}
    BY <2>1 DEF TableInv, TypeInv
  <2> QED
    BY <2>1, <2>2 DEF TableInv
<1>8. CASE QueueStop
  BY <1>8, TableFrame DEF QueueStop, TypeInv, Conns
<1>9. ASSUME NEW c \in Sockets, Accept(c) PROVE TableInv'
  <2>1. /\ c \in Conns /\ socket[c] = "new" /\ socket' = [socket EXCEPT ![c] = "queued"]
        /\ UNCHANGED <<connections, handle, queuePc, client, at>>
        /\ connectionQueue' = Append(connectionQueue, c)
    BY <1>9 DEF Accept, Conns
  <2>2. /\ Len(connectionQueue') = Len(connectionQueue) + 1
        /\ connectionQueue'[Len(connectionQueue) + 1] = c
        /\ \A i \in 1..Len(connectionQueue) : connectionQueue'[i] = connectionQueue[i]
                                              /\ connectionQueue[i] \in Conns
    BY <2>1 DEF TypeInv
  <2>3. \A i \in 1..Len(connectionQueue) : connectionQueue[i] # c
    BY <2>1 DEF TableInv
  <2>4. ASSUME NEW i \in 1..Len(connectionQueue')
        PROVE  \/ i \in 1..Len(connectionQueue) /\ connectionQueue'[i] = connectionQueue[i]
               \/ i = Len(connectionQueue) + 1 /\ connectionQueue'[i] = c
    <3>1. Len(connectionQueue) \in Nat
      BY DEF TypeInv
    <3>2. i \in 1..Len(connectionQueue) \/ i = Len(connectionQueue) + 1
      BY <2>2, <3>1
    <3> QED
      BY <2>2, <3>2
  <2>5. ASSUME NEW i \in 1..Len(connectionQueue')
        PROVE  socket'[connectionQueue'[i]] = "queued"
    <3>1. CASE i \in 1..Len(connectionQueue) /\ connectionQueue'[i] = connectionQueue[i]
      <4>1. socket[connectionQueue[i]] = "queued" /\ connectionQueue[i] # c
        BY <2>3, <3>1 DEF TableInv
      <4> QED
        BY <2>1, <3>1, <4>1 DEF TypeInv
    <3>2. CASE connectionQueue'[i] = c
      BY <2>1, <3>2 DEF TypeInv
    <3> QED
      BY <2>4, <3>1, <3>2
  <2>6. ASSUME NEW i \in 1..Len(connectionQueue'), NEW j \in 1..Len(connectionQueue'), i # j
        PROVE  connectionQueue'[i] # connectionQueue'[j]
    <3>1. CASE /\ i \in 1..Len(connectionQueue) /\ connectionQueue'[i] = connectionQueue[i]
               /\ j \in 1..Len(connectionQueue) /\ connectionQueue'[j] = connectionQueue[j]
      BY <2>6, <3>1 DEF TableInv
    <3>2. CASE connectionQueue'[i] = c /\ i = Len(connectionQueue) + 1
      BY <2>3, <2>4, <2>6, <3>2
    <3>3. CASE connectionQueue'[j] = c /\ j = Len(connectionQueue) + 1
      BY <2>3, <2>4, <2>6, <3>3
    <3> QED
      BY <2>4, <3>1, <3>2, <3>3
  <2>7. ASSUME NEW i \in Slots, connections'[i] # NoConn
        PROVE  handle'[connections'[i]] = i /\ socket'[connections'[i]] \notin {"new", "queued"}
    <3>1. connections[i] \in Conns /\ connections'[i] = connections[i]
      BY <2>1, <2>7 DEF TypeInv
    <3>2. handle[connections[i]] = i /\ socket[connections[i]] \notin {"new", "queued"}
      BY <2>7, <3>1 DEF TableInv
    <3> QED
      BY <2>1, <3>1, <3>2 DEF TypeInv
  <2>8. ASSUME queuePc' = "adding"
        PROVE  socket'[client'] \notin {"new", "queued"} /\ handle'[client'] = at'
               /\ connections'[at'] = NoConn
    <3>1. queuePc = "adding" /\ client \in Conns
      BY <2>1, <2>8 DEF TypeInv
    <3>2. socket[client] \notin {"new", "queued"} /\ handle[client] = at /\ connections[at] = NoConn
      BY <3>1 DEF TableInv
    <3> QED
      BY <2>1, <3>1, <3>2 DEF TypeInv
  <2> QED
    BY <2>5, <2>6, <2>7, <2>8 DEF TableInv
<1>10. ASSUME NEW c \in Sockets, ClientTunes(c) PROVE TableInv'
  BY <1>0, <1>10 DEF ClientTunes
<1>11. ASSUME NEW c \in Sockets, ClientLeaves(c) PROVE TableInv'
  BY <1>11, TableFrame DEF ClientLeaves, TypeInv, Conns
<1>12. CASE IoWake \/ MainAllow \/ MainRuns \/ MainStop \/ MainLoop \/ MainRunOff \/ MainWake \/ MainSave
  BY <1>0, <1>12 DEF IoWake, MainAllow, MainRuns, MainStop, MainLoop, MainRunOff, MainWake, MainSave
<1>13. CASE ClientCleared
  BY <1>13, TableFrame DEF ClientCleared, Crash, ClearSlot, TypeInv
<1>14. CASE MainClose
  <2>1. mainConn \in Conns
    BY <1>14 DEF MainClose, TypeInv
  <2>2. /\ UNCHANGED <<connectionQueue, connections, handle, client, at>>
        /\ queuePc' = queuePc \/ queuePc' = "crashed"
        /\ \/ socket' = [socket EXCEPT ![mainConn] = IF @ = "open" THEN "closed" ELSE @]
           \/ UNCHANGED socket
    BY <1>14 DEF MainClose, Crash
  <2>3. /\ socket' \in [Conns -> {"new", "queued", "open", "left", "closed"}]
        /\ \A c \in Conns : socket'[c] = socket[c] \/ (socket[c] = "open" /\ socket'[c] \in {"left", "closed"})
    <3>1. CASE UNCHANGED socket
      BY <3>1 DEF TypeInv
    <3>2. CASE socket' = [socket EXCEPT ![mainConn] = IF @ = "open" THEN "closed" ELSE @]
      BY <2>1, <3>2 DEF TypeInv
    <3> QED
      BY <2>2, <3>1, <3>2
  <2>4. queuePc' = "adding" => UNCHANGED <<queuePc, client, at>>
    BY <2>2
  <2>5. UNCHANGED <<connectionQueue, handle>> /\ \A i \in Slots : connections'[i] \in {connections[i], NoConn}
    BY <2>2
  <2> QED
    BY <2>3, <2>4, <2>5, TableFrame
<1>15. CASE MainCleared
  BY <1>15, TableFrame DEF MainCleared, Crash, ClearSlot, TypeInv
<1>16. CASE UNCHANGED vars
  BY <1>0, <1>16
<1> QED
  BY <1>1, <1>2, <1>3, <1>4, <1>5, <1>6, <1>7, <1>8, <1>9, <1>10, <1>11, <1>12, <1>13,
     <1>14, <1>15, <1>16 DEF Next, QueueStep, IoStep, MainStep

-----------------------------------------------------------------------------
(* The contexts in the queue and in a broadcast.                           *)

\* Nothing is queued at first.
LEMMA InitContexts == Init => QueueInv /\ BroadcastInv
  BY DEF Init, QueueInv, BroadcastInv, Broadcasting, Producers

\* Steps that leave queue, fed and published alone.
LEMMA QueueFrame == QueueInv /\ UNCHANGED <<queue, fed, published>> => QueueInv'
  BY DEF QueueInv

\* A message of another kind from another producer.
LEMMA QueueOther ==
  ASSUME TypeInv, QueueInv, NEW p \in Producers \ {"scanner"}, NEW m \in Messages, m.kind # "context",
         queue' = [queue EXCEPT ![p] = Append(@, m)], UNCHANGED <<fed, published>>
  PROVE  QueueInv' /\ queue'["scanner"] = queue["scanner"]
<1>1. queue'["scanner"] = queue["scanner"]
  BY DEF TypeInv, Producers
<1>2. ASSUME NEW q \in Producers \ {"scanner"}, NEW i \in 1..Len(queue'[q])
      PROVE  queue'[q][i].kind # "context"
  <2>1. queue[p] \in Seq(Messages) /\ queue[q] \in Seq(Messages)
    BY DEF TypeInv
  <2>2. CASE q # p
    BY <2>2 DEF TypeInv, QueueInv
  <2>3. CASE q = p
    <3>1. queue'[q] = Append(queue[p], m)
      BY <2>3 DEF TypeInv
    <3>2. CASE i = Len(queue[p]) + 1
      BY <2>1, <3>1, <3>2
    <3>3. CASE i \in 1..Len(queue[p])
      <4>1. queue'[q][i] = queue[p][i]
        BY <2>1, <3>1, <3>3
      <4> QED
        BY <3>3, <4>1 DEF QueueInv
    <3>4. Len(queue[p]) \in Nat /\ Len(queue'[q]) = Len(queue[p]) + 1
      BY <2>1, <3>1
    <3>5. i \in 1..Len(queue[p]) \/ i = Len(queue[p]) + 1
      BY <3>4
    <3> QED
      BY <3>2, <3>3, <3>5
  <2> QED
    BY <2>2, <2>3
<1> QED
  BY <1>1, <1>2 DEF QueueInv

\* The broadcast goes on, or none is begun.
LEMMA BroadcastFrame ==
  ASSUME TypeInv, BroadcastInv, queue'["scanner"] = queue["scanner"],
         UNCHANGED <<fed, published, handle>>,
         Broadcasting' => Broadcasting /\ UNCHANGED <<at, message>>
  PROVE  BroadcastInv'
  BY DEF BroadcastInv

\* Every step keeps the contexts in order.
LEMMA NextContexts ==
  TypeInv /\ TableInv /\ QueueInv /\ BroadcastInv /\ [Next]_vars => QueueInv' /\ BroadcastInv'
<1> SUFFICES ASSUME TypeInv, TableInv, QueueInv, BroadcastInv, [Next]_vars
             PROVE  QueueInv' /\ BroadcastInv'
  OBVIOUS
<1> USE ConstantFacts
<1> USE DEF Unchanged, vars, queueVars, threadVars, flagVars, connVars, mainVars
<1>0. ASSUME UNCHANGED <<queue, fed, published, handle, at, message>>,
             queuePc' = queuePc \/ queuePc' \notin {"check", "deliver"}
      PROVE  QueueInv' /\ BroadcastInv'
  BY <1>0, QueueFrame, BroadcastFrame DEF Broadcasting
<1>1. CASE GiveContext
  <2> DEFINE q == queue["scanner"]
             m == [kind |-> "context", number |-> published + 1]
  <2>1. q \in Seq(Messages) /\ m \in Messages /\ m.number = published + 1
    BY MessageFacts DEF TypeInv, Producers
  <2>2. /\ published' = published + 1
        /\ UNCHANGED <<fed, handle, at, message, queuePc>>
        /\ queue' = [queue EXCEPT !["scanner"] = Append(q, m)]
    BY <1>1 DEF GiveContext, Enqueue
  <2>3. /\ queue'["scanner"] = Append(q, m)
        /\ \A p \in Producers \ {"scanner"} : queue'[p] = queue[p]
    BY <2>2 DEF TypeInv, Producers
  <2>4. /\ Len(q) \in Nat /\ Len(queue'["scanner"]) = Len(q) + 1
        /\ \A i \in 1..Len(q) : queue'["scanner"][i] = q[i] /\ q[i].number \in 1..published
        /\ queue'["scanner"][Len(q) + 1].number = published + 1
    BY <2>1, <2>3 DEF QueueInv
  <2> HIDE DEF q, m
  <2>5. \A i \in 1..Len(queue'["scanner"]) : i \in 1..Len(q) \/ i = Len(q) + 1
    BY <2>4
  <2>6. \A i \in 1..Len(queue'["scanner"]) : queue'["scanner"][i].number \in 1..published'
    <3> SUFFICES ASSUME NEW i \in 1..Len(queue'["scanner"])
                 PROVE  queue'["scanner"][i].number \in 1..(published + 1)
      BY <2>2
    <3>1. published \in Nat
      BY DEF TypeInv
    <3>2. CASE i \in 1..Len(q)
      BY <2>4, <3>1, <3>2
    <3>3. CASE i = Len(q) + 1
      BY <2>4, <3>1, <3>3
    <3> QED
      BY <2>5, <3>2, <3>3
  <2>7. \A i, j \in 1..Len(queue'["scanner"]) :
          i < j => queue'["scanner"][i].number < queue'["scanner"][j].number
    <3> SUFFICES ASSUME NEW i \in 1..Len(queue'["scanner"]), NEW j \in 1..Len(queue'["scanner"]), i < j
                 PROVE  queue'["scanner"][i].number < queue'["scanner"][j].number
      OBVIOUS
    <3>1. i \in 1..Len(q)
      BY <2>4
    <3>2. CASE j \in 1..Len(q)
      BY <2>4, <3>1, <3>2 DEF QueueInv, q
    <3>3. CASE j = Len(q) + 1
      <4>1. queue'["scanner"][i].number \in 1..published /\ published \in Nat
        BY <2>4, <3>1 DEF TypeInv
      <4>2. queue'["scanner"][j].number = published + 1
        BY <2>4, <3>3
      <4> QED
        BY <4>1, <4>2
    <3> QED
      BY <2>5, <3>2, <3>3
  <2>8. \A c \in Conns, i \in 1..Len(queue'["scanner"]) : fed'[c] < queue'["scanner"][i].number
    <3> SUFFICES ASSUME NEW c \in Conns, NEW i \in 1..Len(queue'["scanner"])
                 PROVE  fed[c] < queue'["scanner"][i].number
      BY <2>2
    <3>1. fed[c] \in Nat /\ fed[c] <= published /\ published \in Nat
      BY DEF TypeInv, QueueInv
    <3>2. CASE i \in 1..Len(q)
      BY <2>4, <3>2 DEF QueueInv, q
    <3>3. CASE i = Len(q) + 1
      BY <2>4, <3>1, <3>3
    <3> QED
      BY <2>5, <3>2, <3>3
  <2>9. \A c \in Conns : fed'[c] <= published'
    BY <2>2 DEF TypeInv, QueueInv
  <2>10. QueueInv'
    <3>1. \A p \in Producers \ {"scanner"} :
            \A i \in 1..Len(queue'[p]) : queue'[p][i].kind # "context"
      BY <2>3 DEF QueueInv
    <3> QED
      BY <2>6, <2>7, <2>8, <2>9, <3>1 DEF QueueInv
  <2>11. BroadcastInv'
    <3> SUFFICES ASSUME Broadcasting' PROVE BroadcastInv'
      BY DEF BroadcastInv
    <3>1. Broadcasting
      BY <2>2 DEF Broadcasting
    <3>2. message'.number \in 1..published' /\ message.number \in 1..published
      BY <2>2, <3>1 DEF BroadcastInv, TypeInv
    <3>3. \A i \in 1..Len(queue'["scanner"]) : message'.number < queue'["scanner"][i].number
      <4> SUFFICES ASSUME NEW i \in 1..Len(queue'["scanner"])
                   PROVE  message.number < queue'["scanner"][i].number
        BY <2>2
      <4>1. CASE i \in 1..Len(q)
        BY <2>4, <3>1, <4>1 DEF BroadcastInv, q
      <4>2. CASE i = Len(q) + 1
        BY <2>4, <3>2, <4>2 DEF TypeInv
      <4> QED
        BY <2>5, <4>1, <4>2
    <3>4. \A c \in Conns : fed'[c] <= message'.number /\ (fed'[c] = message'.number => handle'[c] < at')
      BY <2>2, <3>1 DEF BroadcastInv
    <3> QED
      BY <3>2, <3>3, <3>4 DEF BroadcastInv
  <2> QED
    BY <2>10, <2>11
<1>2. ASSUME NEW p \in Producers \ {"scanner"}, NEW m \in Messages, m.kind # "context",
             queue' = [queue EXCEPT ![p] = Append(@, m)],
             UNCHANGED <<fed, published, handle, at, message>>,
             queuePc' = queuePc \/ queuePc' = "crashed"
      PROVE  QueueInv' /\ BroadcastInv'
  BY <1>2, QueueOther, BroadcastFrame DEF Broadcasting
<1>3. CASE GiveLevel
  BY <1>2, <1>3, MessageFacts DEF GiveLevel, Enqueue, Producers
<1>4. CASE ConsoleTunes
  BY <1>2, <1>4, MessageFacts DEF ConsoleTunes, Enqueue, Producers
<1>5. CASE ConsoleExit
  <2> DEFINE m == [kind |-> "controller", number |-> 0]
  <2>1. m \in Messages /\ m.kind # "context"
    BY MessageFacts
  <2>2. CASE SlotOf(Console) = NoConn
    BY <1>0, <1>5, <2>2 DEF ConsoleExit, Crash
  <2>3. CASE SlotOf(Console) # NoConn
    <3>1. queue' = [queue EXCEPT !["console"] = Append(@, m)] /\ "console" \in Producers \ {"scanner"}
      BY <1>5, <2>3 DEF ConsoleExit, Enqueue, Producers
    <3>2. UNCHANGED <<fed, published, handle, at, message, queuePc>>
      BY <1>5, <2>3 DEF ConsoleExit
    <3> QED
      BY <1>2, <2>1, <3>1, <3>2
  <2> QED
    BY <2>2, <2>3
<1>6. ASSUME NEW c \in Sockets, ClientTunes(c) PROVE QueueInv' /\ BroadcastInv'
  BY <1>2, <1>6, MessageFacts DEF ClientTunes, Producers
<1>7. CASE QueueDequeue
  <2>1. PICK p \in Producers : /\ queue[p] # <<>> /\ message' = Head(queue[p])
                               /\ queue' = [queue EXCEPT ![p] = Tail(@)]
    BY <1>7 DEF QueueDequeue
  <2>2. UNCHANGED <<fed, published, handle>>
    BY <1>7 DEF QueueDequeue
  <2>3. /\ queue[p] \in Seq(Messages) /\ Len(queue[p]) \in Nat \ {0}
        /\ message' = queue[p][1] /\ queue'[p] = Tail(queue[p])
        /\ Len(queue'[p]) = Len(queue[p]) - 1
        /\ \A i \in 1..Len(queue'[p]) : queue'[p][i] = queue[p][i + 1]
        /\ \A r \in Producers : r # p => queue'[r] = queue[r]
    BY <2>1 DEF TypeInv
  <2>4. /\ 1 \in 1..Len(queue[p])
        /\ \A i \in 1..Len(queue'[p]) : i + 1 \in 1..Len(queue[p]) /\ 1 < i + 1
        /\ \A i, j \in 1..Len(queue'[p]) : i < j => i + 1 < j + 1
    BY <2>3
  <2>5. CASE p = "scanner"
    <3>1. QueueInv'
      <4>1. ASSUME NEW r \in Producers \ {"scanner"}, NEW i \in 1..Len(queue'[r])
            PROVE  queue'[r][i].kind # "context"
        BY <2>3, <2>5 DEF QueueInv
      <4>2. ASSUME NEW i \in 1..Len(queue'["scanner"])
            PROVE  /\ queue'["scanner"][i].number \in 1..published'
                   /\ \A c \in Conns : fed'[c] < queue'["scanner"][i].number
        BY <2>2, <2>3, <2>4, <2>5 DEF QueueInv
      <4>3. ASSUME NEW i \in 1..Len(queue'["scanner"]), NEW j \in 1..Len(queue'["scanner"]), i < j
            PROVE  queue'["scanner"][i].number < queue'["scanner"][j].number
        BY <2>3, <2>4, <2>5, <4>3 DEF QueueInv
      <4>4. \A c \in Conns : fed'[c] <= published'
        BY <2>2 DEF QueueInv
      <4> QED
        BY <4>1, <4>2, <4>3, <4>4 DEF QueueInv
    <3>2. BroadcastInv'
      <4>1. message'.number \in 1..published'
        BY <2>2, <2>3, <2>4, <2>5 DEF QueueInv
      <4>2. \A i \in 1..Len(queue'["scanner"]) : message'.number < queue'["scanner"][i].number
        BY <2>3, <2>4, <2>5 DEF QueueInv
      <4>3. \A c \in Conns : fed'[c] \in Nat /\ fed'[c] < message'.number /\ message'.number \in Nat
        BY <2>2, <2>3, <2>4, <2>5, <4>1 DEF QueueInv, TypeInv
      <4> QED
        BY <4>1, <4>2, <4>3 DEF BroadcastInv
    <3> QED
      BY <3>1, <3>2
  <2>6. CASE p # "scanner"
    <3>1. queue'["scanner"] = queue["scanner"]
      BY <2>3, <2>6 DEF Producers
    <3>2. message'.kind # "context"
      BY <2>3, <2>4, <2>6 DEF QueueInv
    <3>3. \A r \in Producers \ {"scanner"} :
            \A i \in 1..Len(queue'[r]) : queue'[r][i].kind # "context"
      <4> SUFFICES ASSUME NEW r \in Producers \ {"scanner"}, NEW i \in 1..Len(queue'[r])
                   PROVE  queue'[r][i].kind # "context"
        OBVIOUS
      <4>1. CASE r = p
        <5>1. i + 1 \in 1..Len(queue[r]) /\ queue'[r][i] = queue[r][i + 1]
          BY <2>3, <2>4, <4>1
        <5> QED
          BY <5>1 DEF QueueInv
      <4>2. CASE r # p
        BY <2>3, <4>2 DEF QueueInv
      <4> QED
        BY <4>1, <4>2
    <3> QED
      BY <2>2, <3>1, <3>2, <3>3 DEF QueueInv, BroadcastInv, Broadcasting
  <2> QED
    BY <2>5, <2>6
<1>8. CASE QueueCheck
  <2>1. QueueInv'
    BY <1>8, QueueFrame DEF QueueCheck
  <2>2. BroadcastInv'
    <3>1. UNCHANGED <<queue, fed, published, handle>>
      BY <1>8 DEF QueueCheck
    <3>2. CASE at \notin Slots
      BY <1>8, <3>2 DEF QueueCheck, AfterMessage, BroadcastInv, Broadcasting
    <3>3. CASE at \in Slots
      <4>1. UNCHANGED message /\ at' \in {at, at + 1} /\ queuePc = "check"
        BY <1>8, <3>3 DEF QueueCheck
      <4>2. \A c \in Conns : handle[c] < at => handle[c] < at'
        BY <4>1 DEF TypeInv
      <4> QED
        BY <3>1, <4>1, <4>2 DEF BroadcastInv, Broadcasting
    <3> QED
      BY <3>2, <3>3
  <2> QED
    BY <2>1, <2>2
<1>9. CASE QueueDeliver
  <2> DEFINE c == connections[at]
  <2>1. CASE c = NoConn \/ message.kind # "context"
    <3>1. UNCHANGED <<queue, fed, published, handle, message>>
      BY <1>9, <2>1 DEF QueueDeliver
    <3>2. QueueInv'
      BY <3>1, QueueFrame
    <3>3. ~Broadcasting'
      BY <1>9, <2>1, <3>1 DEF QueueDeliver, Broadcasting
    <3> QED
      BY <3>2, <3>3 DEF BroadcastInv
  <2>2. CASE c # NoConn /\ message.kind = "context"
    <3>1. /\ UNCHANGED <<queue, published, handle, message>>
          /\ queuePc = "deliver" /\ at' = at + 1 /\ at \in Slots
          /\ fed' = [fed EXCEPT ![c] = message.number]
      BY <1>9, <2>2 DEF QueueDeliver, TypeInv
    <3>2. c \in Conns /\ handle[c] = at
      BY <2>2, <3>1 DEF TypeInv, TableInv
    <3>3. /\ message.number \in 1..published
          /\ \A i \in 1..Len(queue["scanner"]) : message.number < queue["scanner"][i].number
          /\ \A d \in Conns : fed[d] <= message.number /\ (fed[d] = message.number => handle[d] < at)
      BY <2>2, <3>1 DEF BroadcastInv, Broadcasting
    <3>4. \A d \in Conns : fed'[d] = IF d = c THEN message.number ELSE fed[d]
      BY <3>1, <3>2 DEF TypeInv
    <3>5. at < at' /\ \A d \in Conns : handle[d] < at => handle[d] < at'
      BY <3>1 DEF TypeInv
    <3>6. QueueInv'
      <4>1. ASSUME NEW d \in Conns, NEW i \in 1..Len(queue'["scanner"])
            PROVE  fed'[d] < queue'["scanner"][i].number
        BY <3>1, <3>3, <3>4 DEF QueueInv
      <4>2. ASSUME NEW d \in Conns PROVE fed'[d] <= published'
        BY <3>1, <3>3, <3>4 DEF QueueInv
      <4> QED
        BY <3>1, <4>1, <4>2 DEF QueueInv
    <3>7. ASSUME NEW d \in Conns
          PROVE  fed'[d] <= message'.number /\ (fed'[d] = message'.number => handle'[d] < at')
      <4>1. message' = message /\ handle' = handle /\ message.number \in Nat
        BY <3>1 DEF TypeInv, Messages
      <4>2. CASE d = c
        <5>1. fed'[d] = message.number /\ handle[d] < at'
          BY <3>2, <3>4, <3>1, <4>2 DEF TypeInv
        <5> QED
          BY <4>1, <5>1
      <4>3. CASE d # c
        BY <3>3, <3>4, <3>5, <4>1, <4>3
      <4> QED
        BY <4>2, <4>3
    <3> QED
      BY <3>1, <3>3, <3>6, <3>7 DEF BroadcastInv
  <2> QED
    BY <2>1, <2>2
<1>10. CASE QueueTop \/ QueueWait \/ QueueDrained \/ QueueUnlock \/ QueueDrop
  BY <1>0, <1>10 DEF QueueTop, QueueWait, QueueDrained, QueueUnlock, QueueDrop
<1>11. CASE QueueConnect \/ QueueAdd
  <2>1. UNCHANGED <<queue, fed, published>> /\ ~Broadcasting'
    BY <1>11 DEF QueueConnect, QueueAdd, Broadcasting
  <2> QED
    BY <2>1, QueueFrame DEF BroadcastInv
<1>12. CASE QueueStop
  <2>1. /\ queue' = [p \in Producers |-> <<>>] /\ UNCHANGED <<fed, published>>
        /\ queuePc' \in {"crashed", "done"}
    BY <1>12 DEF QueueStop
  <2>2. \A p \in Producers : Len(queue'[p]) = 0
    BY <2>1
  <2>3. QueueInv'
    BY <2>1, <2>2 DEF QueueInv, Producers
  <2> QED
    BY <2>1, <2>3 DEF BroadcastInv, Broadcasting
<1>13. ASSUME NEW c \in Sockets, Accept(c) \/ ClientLeaves(c) PROVE QueueInv' /\ BroadcastInv'
  BY <1>0, <1>13 DEF Accept, ClientLeaves
<1>14. CASE IoStep \/ \E p \in Producers : Wake(p)
  BY <1>0, <1>14 DEF IoStep, IoWake, ClientCleared, Crash, Wake
<1>15. CASE MainStep \/ MainStop
  <2>1. UNCHANGED <<queue, fed, published, handle, at, message>>
    BY <1>15 DEF MainStep, MainAllow, MainRuns, MainStop, MainLoop, MainClose, MainCleared,
                 MainRunOff, MainWake, MainSave, Crash
  <2>2. queuePc' \in {queuePc, "crashed"}
    BY <1>15 DEF MainStep, MainAllow, MainRuns, MainStop, MainLoop, MainClose, MainCleared,
                 MainRunOff, MainWake, MainSave, Crash
  <2> QED
    BY <1>0, <2>1, <2>2
<1>16. CASE UNCHANGED vars
  BY <1>0, <1>16
<1> QED
  BY <1>1, <1>3, <1>4, <1>5, <1>6, <1>7, <1>8, <1>9, <1>10, <1>11, <1>12, <1>13,
     <1>14, <1>15, <1>16 DEF Next, QueueStep

-----------------------------------------------------------------------------
(* Who clears which slot.                                                  *)

\* Nothing is open or being cleared at first.
LEMMA InitClear == Init => ClearInv
  BY DEF Init, ClearInv, Quiet

\* Steps that leave connections and sockets alone.
LEMMA ClearFrame ==
  ASSUME TypeInv, ClearInv, Alive' => Alive,
         UNCHANGED <<connections, allowConnections, socket, handle>>,
         \/ UNCHANGED <<queuePc, client, at>>
         \/ queuePc # "adding" /\ queuePc' # "adding",
         UNCHANGED io \/ io'.pc # "closed",
         \/ UNCHANGED <<mainPc, mainConn>>
         \/ /\ mainPc # "starting" /\ mainPc' \notin {"starting", "closing", "closed"}
            /\ mainPc \in {"allowed", "running"} <=> mainPc' \in {"allowed", "running"},
         ~run' \/ queuePc' = "stopping" =>
           ~run \/ queuePc = "stopping" \/ mainPc' \notin {"starting", "allowed", "running"}
  PROVE  ClearInv'
<1> SUFFICES ASSUME Alive' PROVE ClearInv'
  BY DEF ClearInv
<1>1. \A c \in Conns : (Adding(c) <=> Adding(c)') /\ (SlotOf(c) = c <=> SlotOf(c)' = c)
  BY DEF Adding, SlotOf
<1>2. \A c \in Conns : Clearable(c) => Clearable(c)'
  BY <1>1 DEF Clearable
<1>3. \A c \in Conns : socket'[c] = "open" => SlotOf(c)' = c \/ Adding(c)'
  BY <1>1 DEF ClearInv
<1>4. mainPc' \notin {"starting", "allowed", "running"} => ~allowConnections'
  BY DEF ClearInv
<1>5. io'.pc = "closed" =>
        mainPc' # "starting" /\ socket'[io'.conn] = "closed" /\ Clearable(io.conn)'
  <2> SUFFICES ASSUME io'.pc = "closed"
               PROVE  mainPc' # "starting" /\ socket'[io'.conn] = "closed" /\ Clearable(io.conn)'
    OBVIOUS
  <2>1. UNCHANGED io /\ io.conn \in Conns
    BY DEF TypeInv, Conns
  <2> QED
    BY <1>2, <2>1 DEF ClearInv, Clearable, Adding
<1>6. mainPc' \in {"closing", "closed"} =>
        /\ socket'[mainConn'] \notin {"new", "queued"} /\ Clearable(mainConn)'
        /\ mainPc' = "closed" => socket'[mainConn'] # "open"
  <2> SUFFICES ASSUME mainPc' \in {"closing", "closed"}
               PROVE  /\ socket'[mainConn'] \notin {"new", "queued"} /\ Clearable(mainConn)'
                      /\ mainPc' = "closed" => socket'[mainConn'] # "open"
    OBVIOUS
  <2>1. UNCHANGED <<mainPc, mainConn>> /\ mainConn \in Conns
    BY DEF TypeInv
  <2> QED
    BY <1>2, <2>1 DEF ClearInv, Clearable, Adding
<1>7. ~run' \/ queuePc' = "stopping" => mainPc' \notin {"starting", "allowed", "running"}
  BY DEF ClearInv
<1> QED
  BY <1>3, <1>4, <1>5, <1>6, <1>7 DEF ClearInv

\* A connection that is open, or being cleared, is not in the queue.
LEMMA OpenIsNotQueued ==
  ASSUME TypeInv, TableInv, ClearInv, Alive, NEW c \in Conns, socket[c] \in {"new", "queued"}
  PROVE  /\ ~Adding(c)
         /\ io.pc = "closed" => io.conn # c
         /\ mainPc \in {"closing", "closed"} => mainConn # c
  BY DEF TypeInv, TableInv, ClearInv, Adding

\* Clearing the slot of a connection that is not open leaves the others'.
LEMMA ClearOne ==
  ASSUME TypeInv, TableInv, ClearInv, Alive, NEW c \in Conns, socket'[c] # "open",
         Clearable(c), connections[handle[c]] # NoConn,
         connections' = [connections EXCEPT ![handle[c]] = NoConn],
         UNCHANGED <<handle, client, at>>, queuePc' = queuePc \/ (queuePc # "adding" /\ queuePc' # "adding"),
         \A d \in Conns \ {c} : socket'[d] = "open" => socket[d] = "open"
  PROVE  /\ \A d \in Conns : socket'[d] = "open" => SlotOf(d)' = d \/ Adding(d)'
         /\ ~allowConnections' => \A d \in Conns : Clearable(d) => Clearable(d)'
<1>1. connections[handle[c]] = c /\ handle[c] \in Slots
  BY ConstantFacts DEF Clearable, Adding, TableInv, TypeInv, Slots
<1>2. \A d \in Conns : Adding(d) <=> Adding(d)'
  BY DEF Adding
<1>3. \A d \in Conns : handle[d] \in Slots /\ handle[d] # handle[c] => connections'[handle[d]] = connections[handle[d]]
  BY <1>1 DEF TypeInv
<1>4. connections'[handle[c]] = NoConn
  BY <1>1 DEF TypeInv
<1>5. queuePc' = "adding" => at # handle[c]
  BY <1>1, ConstantFacts DEF TableInv
<1>6. ASSUME NEW d \in Conns, socket'[d] = "open" PROVE SlotOf(d)' = d \/ Adding(d)'
  <2>1. d # c /\ (SlotOf(d) = d \/ Adding(d))
    BY <1>6 DEF ClearInv
  <2>2. CASE Adding(d)
    BY <1>2, <2>2
  <2>3. CASE SlotOf(d) = d
    <3>1. handle[d] \in Slots /\ connections[handle[d]] = d
      BY <2>3, ConstantFacts DEF SlotOf, TypeInv, Slots
    <3>2. handle[d] # handle[c]
      BY <1>1, <2>1, <3>1
    <3> QED
      BY <1>3, <3>1, <3>2, ConstantFacts DEF SlotOf, Slots
  <2> QED
    BY <2>1, <2>2, <2>3
<1>7. ASSUME ~allowConnections', NEW d \in Conns, Clearable(d) PROVE Clearable(d)'
  <2>1. handle[d] \in Slots
    BY <1>7, ConstantFacts DEF Clearable, TypeInv, Slots
  <2>2. CASE handle[d] = handle[c]
    BY <1>4, <1>5, <1>7, <2>2 DEF Clearable
  <2>3. CASE handle[d] # handle[c]
    BY <1>2, <1>3, <1>7, <2>1, <2>3 DEF Clearable
  <2> QED
    BY <2>2, <2>3
<1> QED
  BY <1>6, <1>7

\* Every step keeps the open connections in the table and the others' slots
\* out of the reach of those that clear one.
LEMMA NextClear == TypeInv /\ TypeInv' /\ TableInv /\ ClearInv /\ [Next]_vars => ClearInv'
<1> SUFFICES ASSUME TypeInv, TypeInv', TableInv, ClearInv, [Next]_vars, Alive' PROVE ClearInv'
  BY DEF ClearInv
<1> USE ConstantFacts
<1> USE DEF Unchanged, vars, queueVars, threadVars, flagVars, connVars, mainVars
<1>0. Alive
  BY DEF Alive, Next, QueueStep, QueueTop, QueueWait, QueueDequeue, QueueCheck, QueueDeliver,
     QueueDrained, QueueConnect, QueueDrop, QueueAdd, QueueUnlock, QueueStop, GiveContext,
     GiveLevel, ConsoleTunes, ConsoleExit, Wake, Accept, ClientTunes, ClientLeaves, IoStep, IoWake,
     ClientCleared, MainStep, MainAllow, MainRuns, MainStop, MainLoop, MainClose, MainCleared,
     MainRunOff, MainWake, MainSave
<1>1. CASE GiveContext \/ GiveLevel \/ ConsoleTunes \/ \E p \in Producers : Wake(p)
  <2>1. UNCHANGED <<connections, allowConnections, run, socket, handle, queuePc, client, at, io, mainPc, mainConn>>
    BY <1>1 DEF GiveContext, GiveLevel, ConsoleTunes, Wake
  <2> QED
    BY <1>0, <2>1, ClearFrame
<1>2. CASE ConsoleExit
  <2>1. /\ socket' = [socket EXCEPT ![Console] = "left"]
        /\ UNCHANGED <<connections, allowConnections, run, handle, queuePc, client, at, io, mainPc, mainConn>>
    BY <1>2 DEF ConsoleExit, Crash, Alive
  <2>2. \A c \in Conns : (Adding(c) <=> Adding(c)') /\ (SlotOf(c) = c <=> SlotOf(c)' = c)
                      /\ (Clearable(c) => Clearable(c)')
    BY <2>1 DEF Adding, SlotOf, Clearable
  <2>3. \A c \in Conns : socket'[c] = IF c = Console THEN "left" ELSE socket[c]
    BY <2>1 DEF TypeInv
  <2>4. io.pc = "closed" => io.conn # Console /\ io.conn \in Conns
    BY DEF TypeInv, Conns
  <2> QED
    BY <1>0, <2>1, <2>2, <2>3, <2>4 DEF ClearInv, TypeInv
<1>3. CASE QueueTop \/ QueueWait \/ QueueDrained \/ QueueUnlock \/ QueueDequeue \/ QueueCheck \/ QueueDeliver
  <2>1. UNCHANGED <<connections, allowConnections, run, socket, handle, io, mainPc, mainConn>>
    BY <1>3 DEF QueueTop, QueueWait, QueueDrained, QueueUnlock, QueueDequeue, QueueCheck, QueueDeliver
  <2>2. queuePc # "adding" /\ queuePc' # "adding"
    BY <1>3 DEF QueueTop, QueueWait, QueueDrained, QueueUnlock, QueueDequeue, QueueCheck,
                QueueDeliver, AfterMessage
  <2>3. queuePc' = "stopping" => ~run
    BY <1>3 DEF QueueTop, QueueWait, QueueDrained, QueueUnlock, QueueDequeue, QueueCheck,
                QueueDeliver, AfterMessage
  <2> QED
    BY <1>0, <2>1, <2>2, <2>3, ClearFrame
<1>4. CASE QueueConnect
  <2>0. PICK c : c = Head(connectionQueue)
    OBVIOUS
  <2>1. /\ client' = c /\ at' = LowestFree /\ queuePc = "connections" /\ queuePc' = "adding"
        /\ allowConnections
        /\ UNCHANGED <<connections, allowConnections, run, io, mainPc, mainConn>>
        /\ handle' = [handle EXCEPT ![c] = at'] /\ socket' = [socket EXCEPT ![c] = "open"]
    BY <1>4, <2>0 DEF QueueConnect
  <2>2. c \in Conns /\ socket[c] = "queued"
    <3>1. connectionQueue \in Seq(Conns) /\ connectionQueue # <<>>
      BY <1>4 DEF QueueConnect, TypeInv
    <3>2. c = connectionQueue[1] /\ 1 \in 1..Len(connectionQueue) /\ c \in Conns
      BY <2>0, <3>1
    <3> QED
      BY <3>2 DEF TableInv
  <2>3. Adding(c)'
    BY <2>1 DEF Adding
  <2>4. ASSUME NEW d \in Conns, d # c, Clearable(d) PROVE Clearable(d)'
    <3>1. connections[handle[d]] = d /\ handle[d] # 0
      BY <2>1, <2>4 DEF Clearable, Adding
    <3>2. handle'[d] = handle[d]
      BY <2>1, <2>4 DEF TypeInv
    <3> QED
      BY <2>1, <3>1, <3>2 DEF Clearable
  <2>5. ASSUME NEW d \in Conns, socket'[d] = "open" PROVE SlotOf(d)' = d \/ Adding(d)'
    <3>1. CASE d = c
      BY <2>3, <3>1
    <3>2. CASE d # c
      <4>1. socket[d] = "open" /\ handle'[d] = handle[d]
        BY <2>1, <2>5, <3>2 DEF TypeInv
      <4>2. SlotOf(d) = d
        BY <1>0, <2>1, <4>1 DEF ClearInv, Adding
      <4> QED
        BY <2>1, <4>1, <4>2 DEF SlotOf
    <3> QED
      BY <3>1, <3>2
  <2>6. io.pc = "closed" =>
          mainPc' # "starting" /\ socket'[io.conn] = "closed" /\ Clearable(io.conn)'
    <3> SUFFICES ASSUME io.pc = "closed"
                 PROVE  mainPc' # "starting" /\ socket'[io.conn] = "closed" /\ Clearable(io.conn)'
      OBVIOUS
    <3>1. io.conn \in Conns /\ io.conn # c /\ Clearable(io.conn) /\ socket[io.conn] = "closed"
          /\ mainPc # "starting"
      BY <1>0, <2>2, OpenIsNotQueued DEF ClearInv, TypeInv, Conns
    <3> QED
      BY <2>1, <2>2, <2>4, <3>1 DEF TypeInv
  <2>7. mainPc \in {"starting", "allowed", "running"}
    BY <1>0, <2>1 DEF ClearInv
  <2>8. \A d \in Conns : socket'[d] = "open" => SlotOf(d)' = d \/ Adding(d)'
    BY <2>5
  <2> QED
    BY <1>0, <2>1, <2>6, <2>7, <2>8 DEF ClearInv
<1>5. CASE QueueDrop
  <2>0. PICK c : c = Head(connectionQueue)
    OBVIOUS
  <2>1. /\ UNCHANGED <<connections, allowConnections, run, handle, client, at, queuePc, io, mainPc, mainConn>>
        /\ socket' = [socket EXCEPT ![c] = "closed"]
    BY <1>5, <2>0 DEF QueueDrop
  <2>2. \A d \in Conns : (Adding(d) <=> Adding(d)') /\ (SlotOf(d) = d <=> SlotOf(d)' = d)
                      /\ (Clearable(d) => Clearable(d)')
    BY <2>1 DEF Adding, SlotOf, Clearable
  <2>3. \A d \in Conns : socket'[d] = IF d = c THEN "closed" ELSE socket[d]
    BY <2>1 DEF TypeInv
  <2>4. io.pc = "closed" => io.conn \in Conns
    BY DEF TypeInv, Conns
  <2> QED
    BY <1>0, <2>1, <2>2, <2>3, <2>4 DEF ClearInv, TypeInv
<1>6. CASE QueueAdd
  <2>1. /\ queuePc = "adding" /\ queuePc' = "connections" /\ at \in Slots /\ client \in Conns
        /\ connections' = [connections EXCEPT ![at] = client]
        /\ UNCHANGED <<allowConnections, run, handle, socket, io, mainPc, mainConn>>
    BY <1>6 DEF QueueAdd, TypeInv
  <2>2. /\ handle[client] = at /\ connections[at] = NoConn
        /\ connections'[at] = client
        /\ \A i \in Slots : i # at => connections'[i] = connections[i]
    BY <2>1 DEF TableInv, TypeInv
  <2>3. \A d \in Conns : handle[d] # 0 => handle[d] \in Slots
    BY DEF TypeInv, Slots
  <2>4. ASSUME NEW d \in Conns, SlotOf(d) = d \/ Adding(d) PROVE SlotOf(d)' = d
    <3>1. CASE Adding(d)
      BY <2>1, <2>2, <3>1 DEF Adding, SlotOf, Slots
    <3>2. CASE SlotOf(d) = d
      <4>1. handle[d] # 0 /\ connections[handle[d]] = d
        BY <3>2 DEF SlotOf
      <4>2. handle[d] # at
        BY <2>2, <4>1
      <4> QED
        BY <2>1, <2>2, <2>3, <4>1, <4>2 DEF SlotOf
    <3> QED
      BY <2>4, <3>1, <3>2
  <2>5. ASSUME NEW d \in Conns, Clearable(d) PROVE Clearable(d)'
    <3>1. handle[d] \in Slots /\ handle[d] # 0
      BY <2>3, <2>5 DEF Clearable
    <3>2. CASE connections[handle[d]] = d \/ Adding(d)
      <4>1. SlotOf(d)' = d
        BY <2>4, <3>1, <3>2 DEF SlotOf
      <4> QED
        BY <2>1, <3>1, <4>1 DEF SlotOf, Clearable
    <3>3. CASE connections[handle[d]] = NoConn /\ ~allowConnections /\ at # handle[d]
      BY <2>1, <2>2, <3>1, <3>3 DEF Clearable
    <3> QED
      BY <2>1, <2>5, <3>2, <3>3 DEF Clearable
  <2>6. io.pc = "closed" => io.conn \in Conns
    BY DEF TypeInv, Conns
  <2> QED
    BY <1>0, <2>1, <2>4, <2>5, <2>6 DEF ClearInv, TypeInv
<1>7. CASE QueueStop
  <2>1. CASE socket[Console] = "open"
    <3>1. /\ socket' = [socket EXCEPT ![Console] = "left"] /\ SlotOf(Console) # NoConn
          /\ connections' = [connections EXCEPT ![handle[Console]] = NoConn]
          /\ queuePc = "stopping" /\ queuePc' = "done"
          /\ UNCHANGED <<allowConnections, run, handle, client, at, io, mainPc, mainConn>>
      BY <1>7, <2>1 DEF QueueStop, Alive
    <3>2. Console \in Conns /\ SlotOf(Console) = Console
      BY <1>0, <2>1, <3>1 DEF ClearInv, Conns, Adding
    <3>3. Clearable(Console) /\ connections[handle[Console]] # NoConn
      BY <3>2 DEF SlotOf, Clearable
    <3>4. \A d \in Conns : socket'[d] = IF d = Console THEN "left" ELSE socket[d]
      BY <3>1 DEF TypeInv
    <3>5. mainPc \notin {"starting", "allowed", "running"} /\ ~allowConnections'
      BY <1>0, <3>1 DEF ClearInv
    <3>6. /\ \A d \in Conns : socket'[d] = "open" => SlotOf(d)' = d \/ Adding(d)'
          /\ \A d \in Conns : Clearable(d) => Clearable(d)'
      <4>1. /\ socket'[Console] # "open"
            /\ \A d \in Conns \ {Console} : socket'[d] = "open" => socket[d] = "open"
            /\ queuePc # "adding" /\ queuePc' # "adding"
        BY <3>1, <3>2, <3>4
      <4> QED
        BY <1>0, <3>1, <3>2, <3>3, <3>5, <4>1, ClearOne
    <3>7. io.pc = "closed" => io.conn # Console /\ io.conn \in Conns
      BY DEF TypeInv, Conns
    <3> QED
      BY <1>0, <3>1, <3>4, <3>5, <3>6, <3>7 DEF ClearInv, TypeInv
  <2>2. CASE socket[Console] # "open"
    <3>1. /\ UNCHANGED <<connections, allowConnections, run, socket, handle, client, at, io, mainPc, mainConn>>
          /\ queuePc = "stopping" /\ queuePc' = "done"
      BY <1>7, <2>2 DEF QueueStop
    <3> QED
      BY <1>0, <3>1, ClearFrame
  <2> QED
    BY <2>1, <2>2
<1>8. ASSUME NEW c \in Sockets, Accept(c) PROVE ClearInv'
  <2>1. /\ UNCHANGED <<connections, allowConnections, run, handle, client, at, queuePc, mainPc, mainConn>>
        /\ socket[c] = "new" /\ socket' = [socket EXCEPT ![c] = "queued"] /\ io'.pc = "requested"
    BY <1>8 DEF Accept, Quiet
  <2>2. \A d \in Conns : (Adding(d) <=> Adding(d)') /\ (SlotOf(d) = d <=> SlotOf(d)' = d)
                      /\ (Clearable(d) => Clearable(d)')
    BY <2>1 DEF Adding, SlotOf, Clearable
  <2>3. \A d \in Conns : socket'[d] = IF d = c THEN "queued" ELSE socket[d]
    BY <2>1 DEF TypeInv
  <2>4. mainPc \in {"closing", "closed"} => mainConn # c
    BY <1>0, <2>1 DEF ClearInv
  <2> QED
    BY <1>0, <2>1, <2>2, <2>3, <2>4 DEF ClearInv, TypeInv
<1>9. ASSUME NEW c \in Sockets, ClientTunes(c) PROVE ClearInv'
  <2>1. UNCHANGED <<connections, allowConnections, run, socket, handle, queuePc, client, at, mainPc, mainConn>>
        /\ io'.pc = "requested"
    BY <1>9 DEF ClientTunes, Quiet
  <2> QED
    BY <1>0, <2>1, ClearFrame
<1>10. ASSUME NEW c \in Sockets, ClientLeaves(c) PROVE ClearInv'
  <2>1. /\ UNCHANGED <<connections, allowConnections, run, handle, client, at, queuePc, mainPc, mainConn>>
        /\ socket[c] = "open" /\ socket' = [socket EXCEPT ![c] = "closed"]
        /\ io'.pc = "closed" /\ io'.conn = c /\ c \in Conns /\ mainPc # "starting"
    BY <1>10 DEF ClientLeaves, IoRuns, Quiet, Conns
  <2>2. \A d \in Conns : (Adding(d) <=> Adding(d)') /\ (SlotOf(d) = d <=> SlotOf(d)' = d)
                      /\ (Clearable(d) <=> Clearable(d)')
    BY <2>1 DEF Adding, SlotOf, Clearable
  <2>3. \A d \in Conns : socket'[d] = IF d = c THEN "closed" ELSE socket[d]
    BY <2>1 DEF TypeInv
  <2>4. Clearable(c)
    <3>1. SlotOf(c) = c \/ Adding(c)
      BY <1>0, <2>1 DEF ClearInv
    <3>2. handle[c] # 0
      <4>1. CASE SlotOf(c) = c
        BY <2>1, <4>1 DEF SlotOf
      <4>2. CASE Adding(c)
        <5>1. handle[c] = at /\ at \in Slots
          BY <4>2 DEF Adding, TableInv, TypeInv
        <5> QED
          BY <5>1 DEF Slots
      <4> QED
        BY <3>1, <4>1, <4>2
    <3> QED
      BY <3>1, <3>2 DEF Clearable, SlotOf
  <2>5. Clearable(io.conn)'
    BY <2>1, <2>2, <2>4 DEF Clearable, Adding
  <2> QED
    BY <1>0, <2>1, <2>2, <2>3, <2>5 DEF ClearInv, TypeInv
<1>11. CASE IoWake
  <2>1. UNCHANGED <<connections, allowConnections, run, socket, handle, queuePc, client, at, mainPc, mainConn>>
        /\ io'.pc = "idle"
    BY <1>11 DEF IoWake, Quiet
  <2> QED
    BY <1>0, <2>1, ClearFrame
<1>12. CASE ClientCleared
  <2>0. PICK c : c = io.conn
    OBVIOUS
  <2>1. /\ io.pc = "closed" /\ SlotOf(c) # NoConn /\ io'.pc = "idle"
        /\ connections' = [connections EXCEPT ![handle[c]] = NoConn]
        /\ UNCHANGED <<allowConnections, run, handle, socket, client, at, queuePc, mainPc, mainConn>>
    BY <1>12, <2>0 DEF ClientCleared, ClearSlot, Crash, Quiet, Alive
  <2>2. c \in Conns /\ Clearable(c) /\ socket[c] = "closed"
    BY <1>0, <2>0, <2>1 DEF ClearInv, TypeInv, Conns
  <2>3. connections[handle[c]] # NoConn /\ socket'[c] # "open"
    BY <2>1, <2>2 DEF SlotOf, Clearable
  <2>4. /\ \A d \in Conns : socket'[d] = "open" => SlotOf(d)' = d \/ Adding(d)'
        /\ ~allowConnections' => \A d \in Conns : Clearable(d) => Clearable(d)'
    BY <1>0, <2>1, <2>2, <2>3, ClearOne
  <2> QED
    BY <1>0, <2>1, <2>4 DEF ClearInv, TypeInv
<1>13. CASE MainAllow
  <2>1. /\ UNCHANGED <<connections, run, handle, socket, client, at, queuePc, io, mainConn>>
        /\ mainPc = "starting" /\ mainPc' = "allowed"
    BY <1>13 DEF MainAllow
  <2>2. \A d \in Conns : (Adding(d) <=> Adding(d)') /\ (SlotOf(d) = d <=> SlotOf(d)' = d)
    BY <2>1 DEF Adding, SlotOf
  <2> QED
    BY <1>0, <2>1, <2>2 DEF ClearInv
<1>14. CASE MainRuns \/ MainRunOff \/ MainWake \/ MainSave
  <2>1. UNCHANGED <<connections, allowConnections, socket, handle, queuePc, client, at, io>>
    BY <1>14 DEF MainRuns, MainRunOff, MainWake, MainSave
  <2>2. \/ mainPc = "allowed" /\ mainPc' = "running" /\ UNCHANGED run
        \/ mainPc \in {"loop", "wake", "wait"} /\ mainPc' \in {"wake", "wait", "saved"}
    BY <1>14 DEF MainRuns, MainRunOff, MainWake, MainSave
  <2> QED
    BY <1>0, <2>1, <2>2, ClearFrame
<1>15. CASE MainStop
  <2>1. /\ UNCHANGED <<connections, run, handle, socket, client, at, queuePc, io>>
        /\ ~allowConnections' /\ mainPc' = "loop"
    BY <1>15 DEF MainStop
  <2>2. \A d \in Conns : (Adding(d) <=> Adding(d)') /\ (SlotOf(d) = d <=> SlotOf(d)' = d)
                      /\ (Clearable(d) => Clearable(d)')
    BY <2>1 DEF Adding, SlotOf, Clearable
  <2>3. io.pc = "closed" => io.conn \in Conns
    BY DEF TypeInv, Conns
  <2> QED
    BY <1>0, <2>1, <2>2, <2>3 DEF ClearInv, Clearable, Adding
<1>16. CASE MainLoop
  <2>1. /\ UNCHANGED <<connections, allowConnections, run, handle, socket, client, at, queuePc, io>>
        /\ mainPc = "loop" /\ mainPc' \in {"loop", "closing"} /\ mainAt \in Slots
        /\ mainPc' = "closing" => mainConn' = connections[mainAt] /\ mainConn' # NoConn
    BY <1>16 DEF MainLoop
  <2>2. \A d \in Conns : (Adding(d) <=> Adding(d)') /\ (SlotOf(d) = d <=> SlotOf(d)' = d)
                      /\ (Clearable(d) <=> Clearable(d)')
    BY <2>1 DEF Adding, SlotOf, Clearable
  <2>3. mainPc' = "closing" => /\ mainConn' \in Conns /\ socket[mainConn'] \notin {"new", "queued"}
                               /\ handle[mainConn'] = mainAt /\ connections[mainAt] = mainConn'
    BY <2>1 DEF TableInv, TypeInv
  <2>4. mainPc' = "closing" => Clearable(mainConn)'
    BY <2>1, <2>3 DEF Clearable, Slots
  <2>5. io.pc = "closed" => io.conn \in Conns
    BY DEF TypeInv, Conns
  <2> QED
    BY <1>0, <2>1, <2>2, <2>3, <2>4, <2>5 DEF ClearInv, Clearable, Adding
<1>17. CASE MainClose
  <2>1. /\ UNCHANGED <<connections, allowConnections, run, handle, client, at, queuePc, io>>
        /\ mainPc = "closing" /\ mainConn \in Conns
        /\ \/ /\ mainPc' = "closed" /\ UNCHANGED mainConn
              /\ socket' = [socket EXCEPT ![mainConn] = IF @ = "open" THEN "closed" ELSE @]
           \/ mainPc' = "loop" /\ UNCHANGED socket
    BY <1>17 DEF MainClose, Crash, Alive, TypeInv
  <2>2. \A d \in Conns : (Adding(d) <=> Adding(d)') /\ (SlotOf(d) = d <=> SlotOf(d)' = d)
                      /\ (Clearable(d) <=> Clearable(d)')
    BY <2>1 DEF Adding, SlotOf, Clearable
  <2>3. /\ socket' \in [Conns -> {"new", "queued", "open", "left", "closed"}]
        /\ \A d \in Conns : socket'[d] = socket[d] \/ (socket[d] = "open" /\ socket'[d] = "closed")
        /\ mainPc' = "closed" => socket'[mainConn] # "open"
    <3>1. CASE UNCHANGED socket
      BY <2>1, <3>1 DEF TypeInv
    <3>2. CASE socket' = [socket EXCEPT ![mainConn] = IF @ = "open" THEN "closed" ELSE @]
      BY <2>1, <3>2 DEF TypeInv
    <3> QED
      BY <2>1, <3>1, <3>2
  <2>4. io.pc = "closed" => io.conn \in Conns
    BY DEF TypeInv, Conns
  <2>5. mainPc' = "closed" => Clearable(mainConn)' /\ socket'[mainConn] \notin {"new", "queued"}
    BY <1>0, <2>1, <2>2, <2>3 DEF ClearInv, Clearable, Adding
  <2> QED
    BY <1>0, <2>1, <2>2, <2>3, <2>4, <2>5 DEF ClearInv, Clearable, Adding
<1>18. CASE MainCleared
  <2>0. PICK c : c = mainConn
    OBVIOUS
  <2>1. /\ mainPc = "closed" /\ mainPc' = "loop" /\ SlotOf(c) # NoConn
        /\ connections' = [connections EXCEPT ![handle[c]] = NoConn]
        /\ UNCHANGED <<allowConnections, run, handle, socket, client, at, queuePc, io>>
    BY <1>18, <2>0 DEF MainCleared, ClearSlot, Crash, Alive
  <2>2. c \in Conns /\ Clearable(c) /\ socket[c] # "open" /\ ~allowConnections
    BY <1>0, <2>0, <2>1 DEF ClearInv, TypeInv
  <2>3. connections[handle[c]] # NoConn
    BY <2>1, <2>2 DEF SlotOf, Clearable
  <2>4. /\ \A d \in Conns : socket'[d] = "open" => SlotOf(d)' = d \/ Adding(d)'
        /\ \A d \in Conns : Clearable(d) => Clearable(d)'
    BY <1>0, <2>1, <2>2, <2>3, ClearOne
  <2>5. io.pc = "closed" => io.conn \in Conns
    BY DEF TypeInv, Conns
  <2> QED
    BY <1>0, <2>1, <2>2, <2>4, <2>5 DEF ClearInv, Clearable, Adding
<1>19. CASE UNCHANGED vars
  <2>1. UNCHANGED <<connections, allowConnections, run, socket, handle, queuePc, client, at, io, mainPc, mainConn>>
    BY <1>19
  <2> QED
    BY <1>0, <2>1, ClearFrame
<1> QED
  BY <1>1, <1>2, <1>3, <1>4, <1>5, <1>6, <1>7, <1>8, <1>9, <1>10, <1>11, <1>12, <1>13, <1>14,
     <1>15, <1>16, <1>17, <1>18, <1>19 DEF Next, QueueStep, IoStep, MainStep

-----------------------------------------------------------------------------
(* The theorems.                                                           *)

\* ServerInv holds of every reachable state.
THEOREM ServerInvariant == Spec => []ServerInv
<1>1. Init => ServerInv
  BY InitTypes, InitTable, InitContexts, InitClear DEF ServerInv
<1>2. ServerInv /\ [Next]_vars => ServerInv'
  BY NextTypes, NextTable, NextContexts, NextClear DEF ServerInv
<1> QED
  BY <1>1, <1>2, PTL DEF Spec

\* A client whose socket is open gets the broadcasts: the table has it under
\* its handle, or _addConnection is about to put it there.
THEOREM OpenIsInTable == Spec => []OpenIsRegistered
<1>1. ServerInv => OpenIsRegistered
  BY DEF ServerInv, ClearInv, OpenIsRegistered, Adding, Conns
<1> QED
  BY <1>1, ServerInvariant, PTL

\* The manager implements ContextFeed: each client is fed contexts that were
\* published, in their order, none twice.
THEOREM ManagerFeedsInOrder == Spec => FeedsInOrder
<1>1. Init => Feeding!FeedInit
  BY DEF Init, Feeding!FeedInit
<1>2. ServerInv /\ [Next]_vars => [Feeding!FeedNext]_<<published, fed>>
  <2> SUFFICES ASSUME ServerInv, [Next]_vars PROVE [Feeding!FeedNext]_<<published, fed>>
    OBVIOUS
  <2> USE DEF Unchanged, vars, queueVars, threadVars, flagVars, connVars, mainVars
  <2>1. CASE GiveContext
    BY <2>1 DEF GiveContext, Feeding!FeedNext, Feeding!Publish
  <2>2. CASE QueueDeliver
    <3> DEFINE c == connections[at]
    <3>1. CASE c = NoConn \/ message.kind # "context"
      BY <2>2, <3>1 DEF QueueDeliver
    <3>2. CASE c # NoConn /\ message.kind = "context"
      <4>1. /\ queuePc = "deliver" /\ at \in Slots /\ UNCHANGED published
            /\ fed' = [fed EXCEPT ![c] = message.number]
        BY <2>2, <3>2 DEF QueueDeliver, ServerInv, TypeInv
      <4>2. c \in Conns /\ handle[c] = at
        BY <3>2, <4>1 DEF ServerInv, TypeInv, TableInv
      <4>3. /\ message.number \in 1..published /\ fed[c] <= message.number
            /\ fed[c] = message.number => handle[c] < at
        BY <3>2, <4>1, <4>2 DEF ServerInv, BroadcastInv, Broadcasting
      <4>4. message.number \in (fed[c] + 1)..published
        BY <4>2, <4>3 DEF ServerInv, TypeInv
      <4> QED
        BY <4>1, <4>2, <4>4 DEF Feeding!FeedNext, Feeding!Feed
    <3> QED
      BY <3>1, <3>2
  <2>3. CASE QueueStep /\ ~QueueDeliver
    BY <2>3 DEF QueueStep, QueueTop, QueueWait, QueueDequeue, QueueCheck, QueueDrained,
                QueueConnect, QueueDrop, QueueAdd, QueueUnlock, QueueStop
  <2>4. CASE GiveLevel \/ ConsoleTunes \/ ConsoleExit \/ IoStep \/ \E p \in Producers : Wake(p)
    BY <2>4 DEF GiveLevel, ConsoleTunes, ConsoleExit, IoStep, IoWake, ClientCleared, Wake
  <2>5. CASE \E c \in Sockets : Accept(c) \/ ClientTunes(c) \/ ClientLeaves(c)
    BY <2>5 DEF Accept, ClientTunes, ClientLeaves
  <2>6. CASE MainStep \/ MainStop
    BY <2>6 DEF MainStep, MainAllow, MainRuns, MainStop, MainLoop, MainClose, MainCleared,
                MainRunOff, MainWake, MainSave
  <2>7. CASE UNCHANGED vars
    BY <2>7
  <2> QED
    BY <2>1, <2>2, <2>3, <2>4, <2>5, <2>6, <2>7 DEF Next
<1> QED
  BY <1>1, <1>2, ServerInvariant, PTL DEF Spec, FeedsInOrder, Feeding!FeedSpec, Feeding!feedVars
=============================================================================
