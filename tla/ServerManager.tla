---------------------------- MODULE ServerManager ----------------------------
(***************************************************************************)
(* The connection manager (ServerManager.cpp) and the threads around it:   *)
(* its queue thread, the threads that give it messages (the scanner's      *)
(* context updates, the signal level timer), the I/O thread that accepts,  *)
(* serves and closes socket clients, the  debug console's input thread,    *)
(* and main, which allows connections and stops it.                        *)
(*                                                                         *)
(* _msgMutex is held by the queue thread exactly while "queuePc" is in     *)
(* Holding.  The others only try_lock it: they set _msgAvailable, or go    *)
(* away without having woken the thread.  The connection table is read     *)
(* and written without a lock.                                             *)
(*                                                                         *)
(* Data: a scanner context is its number in the order of publication; the  *)
(* demodulator's contexts and the signal levels are "other" messages.  The *)
(* message queue keeps the order of each producer and no other.            *)
(***************************************************************************)
EXTENDS Naturals, Sequences, FiniteSets

CONSTANTS
  MaxClients,       \* bound: clients that connect over TCP
  Console,          \* the debug console's connection
  NoConn,           \* an empty slot of _connections
  MaxConnections,   \* MAX_CONNECTIONS, 5 in ServerManager.h
  UseDebugServer,   \* the -d option
  MaxPublished,     \* bound: messages of all kinds
  MaxLevels         \* bound: those that are no scanner context

ASSUME ServerAssumption ==
  /\ MaxClients \in Nat
  /\ Console \notin 1..MaxClients /\ NoConn \notin (1..MaxClients) \cup {Console}
  /\ MaxConnections \in Nat \ {0}
  /\ UseDebugServer \in BOOLEAN
  /\ MaxPublished \in Nat /\ MaxLevels \in Nat

VARIABLES
  queue,            \* _queue, one sequence per producer
  connectionQueue,  \* _connectionQueue
  connections,      \* _connections[MAX_CONNECTIONS]
  msgAvailable, allowConnections, run,
  queuePc,          \* where the queue thread is
  at,               \* the slot its loop is at, or the slot being filled
  message,          \* the message it handles
  client,           \* the connection it adds
  giver,            \* giveMessage of each producer: enqueued, not yet woken
  socket,           \* the life of each connection
  handle,           \* Connection::_handle
  io,               \* the I/O thread's handler in progress
  mainPc,           \* where main is
  mainAt, mainConn, \* its loop in disconnectClients
  published,        \* contexts published so far
  levels,           \* how many other messages there were
  fed               \* the last context the queue thread sent each client

queueVars == <<queue, connectionQueue>>
threadVars == <<queuePc, at, message, client>>
flagVars == <<msgAvailable, allowConnections, run>>
connVars == <<connections, socket, handle>>
mainVars == <<mainPc, mainAt, mainConn>>
vars == <<queueVars, threadVars, flagVars, connVars, mainVars, levels,
          fed, giver, io, published>>

-----------------------------------------------------------------------------
Slots == 1..MaxConnections

\* Clients are numbered in the order in which they are accepted.
Sockets == 1..MaxClients
Conns == Sockets \cup {Console}
Producers == {"scanner", "timer", "console", "client"}
Holding == {"held", "messages", "check", "deliver", "connections", "adding"}

\* try_lock fails while the queue thread has the mutex.
TryLock == queuePc \notin Holding

NoMessage == [kind |-> "none", number |-> 0]
Other == [kind |-> "other", number |-> 0]   \* a signal level or a demodulator context
Quiet == [pc |-> "idle", conn |-> NoConn]

\* ServerManager::start has returned; DebugServer::start requested the
\* console's connection, and woke the thread or found the mutex taken.
Init ==
  /\ queue = [p \in Producers |-> <<>>]
  /\ connectionQueue = IF UseDebugServer THEN <<Console>> ELSE <<>>
  /\ connections = [i \in Slots |-> NoConn]
  /\ msgAvailable \in {FALSE, UseDebugServer} /\ allowConnections = FALSE /\ run = TRUE
  /\ queuePc = "top" /\ at = 1 /\ message = NoMessage /\ client = NoConn
  /\ giver = [p \in Producers |-> "idle"]
  /\ socket = [c \in Conns |-> IF c = Console /\ UseDebugServer THEN "queued" ELSE "new"]
  /\ handle = [c \in Conns |-> 0]
  /\ io = Quiet
  /\ mainPc = "starting" /\ mainAt = 1 /\ mainConn = NoConn
  /\ published = 0 /\ levels = 0
  /\ fed = [c \in Conns |-> 0]

Alive == queuePc # "crashed"
MayGive == published + levels < MaxPublished
MayGiveOther == MayGive /\ levels < MaxLevels

-----------------------------------------------------------------------------
(* giveMessage: enqueue, then try to wake the queue thread.                *)

EnqueueMutant(p, m) ==
  /\ queue' = [queue EXCEPT ![p] = <<m>> \o @]
  /\ giver' = [giver EXCEPT ![p] = "enqueued"]
Enqueue(p, m) ==
  /\ queue' = [queue EXCEPT ![p] = Append(@, m)]
  /\ giver' = [giver EXCEPT ![p] = "enqueued"]

\* app::server::scannerContextUpdate, from the scanner's thread, which main
\* starts after it allowed connections.
GiveContext ==
  /\ Alive /\ giver["scanner"] = "idle" /\ MayGive
  /\ mainPc \notin {"starting", "saved"}
  /\ published' = published + 1
  /\ Enqueue("scanner", [kind |-> "context", number |-> published'])
  /\ UNCHANGED <<connectionQueue, threadVars, flagVars, connVars, mainVars,
                 levels, fed, io>>

\* app::server::signalLevelUpdate, from the signal level timer, which runs
\* during reception only.
GiveLevel ==
  /\ Alive /\ giver["timer"] = "idle" /\ MayGiveOther
  /\ mainPc \notin {"starting", "saved"}
  /\ levels' = levels + 1
  /\ Enqueue("timer", Other)
  /\ UNCHANGED <<connectionQueue, threadVars, flagVars, connVars, mainVars,
                 fed, io, published>>

\* The console's "squelch" and "gain": the demodulator publishes its context
\* from the console's thread.
ConsoleTunes ==
  /\ Alive /\ socket[Console] = "open" /\ giver["console"] = "idle"
  /\ MayGiveOther
  /\ levels' = levels + 1
  /\ Enqueue("console", Other)
  /\ UNCHANGED <<connectionQueue, threadVars, flagVars, connVars, mainVars,
                 fed, io, published>>

Wake(p) ==
  /\ Alive /\ giver[p] = "enqueued"
  /\ giver' = [giver EXCEPT ![p] = "idle"]
  /\ msgAvailable' = (TryLock \/ msgAvailable)
  /\ UNCHANGED <<queueVars, threadVars, allowConnections, run, connVars,
                 mainVars, levels, fed, io, published>>

\* giveRequest reads the level of the connection in the requester's slot; there
\* is none there if the slot is still, or again, empty.
SlotOf(c) == IF handle[c] = 0 THEN NoConn ELSE connections[handle[c]]
Crash == queuePc' = "crashed" /\ UNCHANGED <<at, message, client>>

\* The console's "exit": a request whose message is for SYSTEM_CONTROL.
ConsoleExit ==
  /\ Alive /\ socket[Console] = "open" /\ giver["console"] = "idle"
  /\ MayGiveOther
  /\ levels' = levels + 1
  /\ socket' = [socket EXCEPT ![Console] = "left"]
  /\ IF SlotOf(Console) = NoConn
     THEN Crash /\ UNCHANGED <<queue, giver>>
     ELSE /\ Enqueue("console", [kind |-> "controller", number |-> 0])
          /\ UNCHANGED threadVars
  /\ UNCHANGED <<connectionQueue, flagVars, connections, handle, mainVars, fed, io, published>>

-----------------------------------------------------------------------------
(* The queue thread.                                                       *)

Unchanged == UNCHANGED <<mainVars, levels, giver, io, published>>

\* while(_run), then the lock, which nobody else keeps.
QueueTop ==
  /\ queuePc \in {"top", "lock"}
  /\ queuePc' = IF queuePc = "lock" THEN "held" ELSE IF run THEN "lock" ELSE "stopping"
  /\ UNCHANGED <<queueVars, flagVars, connVars, fed, at, message, client>>
  /\ Unchanged

\* _cv.wait: the mutex is given up while _msgAvailable is false.
QueueWait ==
  /\ queuePc \in {"held", "waiting"}
  /\ queuePc' = IF msgAvailable THEN "messages" ELSE "waiting"
  /\ queuePc' # queuePc
  /\ UNCHANGED <<queueVars, flagVars, connVars, fed, at, message, client>>
  /\ Unchanged

\* try_dequeue: any producer's oldest message; _handleMessage asserts that it
\* is one for the server.
QueueDequeue ==
  /\ queuePc = "messages"
  /\ \E p \in Producers :
       /\ queue[p] # <<>>
       /\ message' = Head(queue[p])
       /\ queue' = [queue EXCEPT ![p] = Tail(@)]
  /\ queuePc' = IF message'.kind = "controller" THEN "crashed" ELSE "check"
  /\ at' = 1
  /\ UNCHANGED <<connectionQueue, flagVars, connVars, fed, client>>
  /\ Unchanged

\* The loop of a broadcast; after its last slot, while(try_dequeue) goes on.
AfterMessageMutant == "connections"
AfterMessage == "messages"
QueueCheck ==
  /\ queuePc = "check"
  /\ IF at \notin Slots
     THEN /\ queuePc' = AfterMessage
          /\ msgAvailable' = FALSE
          /\ at' = 1 /\ message' = NoMessage
     ELSE /\ queuePc' = IF connections[at] = NoConn THEN "check" ELSE "deliver"
          /\ at' = IF connections[at] = NoConn THEN at + 1 ELSE at
          /\ UNCHANGED <<msgAvailable, message>>
  /\ UNCHANGED <<queueVars, allowConnections, run, connVars, fed, client>>
  /\ Unchanged

\* A slot is tested, then used: in between it may have been cleared.
QueueDeliver ==
  /\ queuePc = "deliver"
  /\ LET c == connections[at]
     IN  IF c = NoConn
         THEN queuePc' = "crashed" /\ UNCHANGED <<at, fed>>
         ELSE /\ queuePc' = "check"
              /\ at' = at + 1
              /\ fed' = IF message.kind = "context"
                        THEN [fed EXCEPT ![c] = message.number] ELSE fed
  /\ UNCHANGED <<queueVars, flagVars, connVars, message, client>>
  /\ Unchanged

\* No more messages: the connection requests are next.
QueueDrained ==
  /\ queuePc = "messages" /\ \A p \in Producers : queue[p] = <<>>
  /\ queuePc' = "connections"
  /\ UNCHANGED <<queueVars, flagVars, connVars, fed, at, message, client>>
  /\ Unchanged

\* _addConnection up to connect(): from here on the client's own thread runs.
FreeSlotsMutant == Slots
FreeSlots == {i \in Slots : connections[i] = NoConn}
LowestFree == CHOOSE i \in FreeSlots : \A j \in FreeSlots : i <= j
QueueConnect ==
  /\ queuePc = "connections" /\ allowConnections /\ connectionQueue # <<>>
  /\ FreeSlots # {}
  /\ connectionQueue' = Tail(connectionQueue)
  /\ client' = Head(connectionQueue)
  /\ at' = LowestFree
  /\ handle' = [handle EXCEPT ![client'] = at']
  /\ socket' = [socket EXCEPT ![client'] = "open"]
  /\ queuePc' = "adding"
  /\ UNCHANGED <<queue, flagVars, connections, fed, message>>
  /\ Unchanged

\* Every slot is taken: the connection is dropped, its socket closes with it.
QueueDrop ==
  /\ queuePc = "connections" /\ allowConnections /\ connectionQueue # <<>>
  /\ FreeSlots = {}
  /\ connectionQueue' = Tail(connectionQueue)
  /\ socket' = [socket EXCEPT ![Head(connectionQueue)] = "closed"]
  /\ msgAvailable' = FALSE
  /\ UNCHANGED <<queue, allowConnections, run, connections, handle, fed, threadVars>>
  /\ Unchanged

\* connect() returned: the slot is filled.
QueueAdd ==
  /\ queuePc = "adding"
  /\ connections' = [connections EXCEPT ![at] = client]
  /\ msgAvailable' = FALSE
  /\ queuePc' = "connections"
  /\ client' = NoConn /\ at' = 1
  /\ UNCHANGED <<queueVars, allowConnections, run, socket, handle, fed, message>>
  /\ Unchanged

\* The thread unlocks and starts over: the flag is only cleared for what was
\* taken, so that a request that has to wait for main keeps the thread awake.
FlagAfterLoopMutant == FALSE
FlagAfterLoop == msgAvailable
QueueUnlock ==
  /\ queuePc = "connections" /\ (allowConnections => connectionQueue = <<>>)
  /\ queuePc' = "top"
  /\ msgAvailable' = FlagAfterLoop
  /\ UNCHANGED <<queueVars, allowConnections, run, connVars, fed, at, message, client>>
  /\ Unchanged

\* After the loop: the servers are stopped, the queue is emptied, notifyDeinit.
\* DebugServer::stop disconnects a console that still runs.
QueueStop ==
  /\ queuePc = "stopping"
  /\ queue' = [p \in Producers |-> <<>>]
  /\ IF socket[Console] = "open"
     THEN /\ socket' = [socket EXCEPT ![Console] = "left"]
          /\ IF SlotOf(Console) = NoConn
             THEN queuePc' = "crashed" /\ UNCHANGED connections
             ELSE /\ connections' = [connections EXCEPT ![handle[Console]] = NoConn]
                  /\ queuePc' = "done"
     ELSE queuePc' = "done" /\ UNCHANGED <<socket, connections>>
  /\ UNCHANGED <<connectionQueue, flagVars, handle, fed, at, message, client>>
  /\ Unchanged

QueueStep ==
  \/ QueueTop \/ QueueWait \/ QueueDequeue \/ QueueCheck \/ QueueDeliver
  \/ QueueDrained \/ QueueConnect \/ QueueDrop \/ QueueAdd \/ QueueUnlock
  \/ QueueStop

-----------------------------------------------------------------------------
(* The I/O thread, started once main has allowed connections.              *)

IoRuns == Alive /\ mainPc \notin {"starting", "allowed", "saved"}

\* handle_accept -> requestConnection: _activeConnections is never raised, so
\* every request is accepted and queued, then the thread is woken as below.
Accept(c) ==
  /\ IoRuns /\ io = Quiet
  /\ c \in Sockets /\ socket[c] = "new" /\ \A d \in Sockets : d < c => socket[d] # "new"
  /\ connectionQueue' = Append(connectionQueue, c)
  /\ socket' = [socket EXCEPT ![c] = "queued"]
  /\ io' = [Quiet EXCEPT !.pc = "requested"]
  /\ UNCHANGED <<queue, threadVars, flagVars, connections, handle, mainVars,
                 levels, fed, giver, published>>

\* _handleDemodRequest: the demodulator publishes its context from this thread ...
ClientTunes(c) ==
  /\ IoRuns /\ io = Quiet /\ MayGiveOther
  /\ c \in Sockets /\ socket[c] = "open"
  /\ levels' = levels + 1
  /\ queue' = [queue EXCEPT !["client"] = Append(@, Other)]
  /\ io' = [Quiet EXCEPT !.pc = "requested"]
  /\ UNCHANGED <<connectionQueue, threadVars, flagVars, connVars, mainVars,
                 fed, giver, published>>

\* ... and the thread is woken if try_lock succeeds.
IoWake ==
  /\ Alive /\ io.pc = "requested"
  /\ msgAvailable' = (TryLock \/ msgAvailable)
  /\ io' = Quiet
  /\ UNCHANGED <<queueVars, threadVars, allowConnections, run, connVars,
                 mainVars, levels, fed, giver, published>>

\* A read or a write of an open client failed: its socket is closed ...
ClientLeaves(c) ==
  /\ IoRuns /\ io = Quiet
  /\ c \in Sockets /\ socket[c] = "open"
  /\ socket' = [socket EXCEPT ![c] = "closed"]
  /\ io' = [Quiet EXCEPT !.pc = "closed", !.conn = c]
  /\ UNCHANGED <<queueVars, threadVars, flagVars, connections, handle, mainVars,
                 levels, fed, giver, published>>

\* ... and notifyDisconnected clears the slot of its handle.
ClearSlot(c) == connections' = [connections EXCEPT ![handle[c]] = NoConn]
ClientCleared ==
  /\ Alive /\ io.pc = "closed"
  /\ IF SlotOf(io.conn) = NoConn
     THEN Crash /\ UNCHANGED connections
     ELSE ClearSlot(io.conn) /\ UNCHANGED threadVars
  /\ io' = Quiet
  /\ UNCHANGED <<queueVars, flagVars, socket, handle, mainVars, levels,
                 fed, giver, published>>

IoStep == IoWake \/ ClientCleared

-----------------------------------------------------------------------------
(* main.                                                                   *)

\* allowConnections, then startScanner and the I/O thread.
MainAllow ==
  /\ Alive /\ mainPc = "starting"
  /\ allowConnections' = TRUE
  /\ mainPc' = "allowed"
  /\ UNCHANGED <<queueVars, threadVars, msgAvailable, run, connVars, mainAt, mainConn,
                 levels, fed, giver, io, published>>

MainRuns ==
  /\ Alive /\ mainPc = "allowed"
  /\ mainPc' = "running"
  /\ UNCHANGED <<queueVars, threadVars, flagVars, connVars, mainAt, mainConn, levels,
                 fed, giver, io, published>>

\* stop() -> disconnectClients.
MainStop ==
  /\ Alive /\ mainPc = "running"
  /\ allowConnections' = FALSE
  /\ mainPc' = "loop" /\ mainAt' = 1
  /\ UNCHANGED <<queueVars, threadVars, msgAvailable, run, connVars, mainConn, levels,
                 fed, giver, io, published>>

\* One slot of the loop: the pointer is read and disconnect() asks whether the
\* socket is open (the console has none and is always disconnected).
MainLoop ==
  /\ Alive /\ mainPc = "loop" /\ mainAt \in Slots
  /\ LET c == connections[mainAt]
     IN  IF c # NoConn /\ (socket[c] = "open" \/ c = Console)
         THEN mainPc' = "closing" /\ mainConn' = c /\ UNCHANGED mainAt
         ELSE mainAt' = mainAt + 1 /\ UNCHANGED <<mainPc, mainConn>>
  /\ UNCHANGED <<queueVars, threadVars, flagVars, connVars, levels,
                 fed, giver, io, published>>

\* disconnect() goes on.  The I/O thread may have closed the socket, cleared the
\* slot and with it freed the connection since: then anything may follow.
MainClose ==
  /\ Alive /\ mainPc = "closing"
  /\ \/ /\ socket' = [socket EXCEPT ![mainConn] = IF @ = "open" THEN "closed" ELSE @]
        /\ mainPc' = "closed"
        /\ UNCHANGED <<mainAt, mainConn, threadVars>>
     \/ /\ mainConn # Console /\ socket[mainConn] # "open"
        /\ mainPc' = "loop" /\ mainAt' = mainAt + 1 /\ mainConn' = NoConn
        /\ UNCHANGED <<socket, threadVars>>
     \/ /\ mainConn # Console /\ SlotOf(mainConn) # mainConn
        /\ Crash
        /\ UNCHANGED <<socket, mainVars>>
  /\ UNCHANGED <<queueVars, flagVars, connections, handle, levels,
                 fed, giver, io, published>>

\* notifyDisconnected, as in ClientCleared.
MainCleared ==
  /\ Alive /\ mainPc = "closed"
  /\ IF SlotOf(mainConn) = NoConn
     THEN Crash /\ UNCHANGED connections
     ELSE ClearSlot(mainConn) /\ UNCHANGED threadVars
  /\ mainPc' = "loop" /\ mainAt' = mainAt + 1 /\ mainConn' = NoConn
  /\ UNCHANGED <<queueVars, flagVars, socket, handle, levels,
                 fed, giver, io, published>>

\* _run = false ...
MainRunOff ==
  /\ Alive /\ mainPc = "loop" /\ mainAt \notin Slots
  /\ run' = FALSE
  /\ mainPc' = "wake"
  /\ UNCHANGED <<queueVars, threadVars, msgAvailable, allowConnections, connVars,
                 mainAt, mainConn, levels, fed, giver, io, published>>

\* ... and the thread is woken if try_lock succeeds.
MainWake ==
  /\ Alive /\ mainPc = "wake"
  /\ msgAvailable' = (TryLock \/ msgAvailable)
  /\ mainPc' = "wait"
  /\ UNCHANGED <<queueVars, threadVars, allowConnections, run, connVars, mainAt, mainConn,
                 levels, fed, giver, io, published>>

\* waitDeinit returned: the state and the configuration are saved.
MainSave ==
  /\ mainPc = "wait" /\ queuePc = "done"
  /\ mainPc' = "saved"
  /\ UNCHANGED <<queueVars, threadVars, flagVars, connVars, mainAt, mainConn, levels,
                 fed, giver, io, published>>

MainStep == MainAllow \/ MainRuns \/ MainLoop \/ MainClose \/ MainCleared \/ MainRunOff
              \/ MainWake \/ MainSave

Next ==
  \/ QueueStep
  \/ GiveContext \/ GiveLevel \/ ConsoleTunes \/ ConsoleExit
  \/ \E p \in Producers : Wake(p)
  \/ \E c \in Sockets : Accept(c) \/ ClientTunes(c) \/ ClientLeaves(c)
  \/ IoStep
  \/ MainStep \/ MainStop

\* The queue thread and main are scheduled again and again; nobody has to
\* publish, to finish a call, to connect, to leave or to stop.
Fairness == WF_vars(QueueStep) /\ WF_vars(MainStep)

Spec == Init /\ [][Next]_vars
FairSpec == Spec /\ Fairness
=============================================================================
