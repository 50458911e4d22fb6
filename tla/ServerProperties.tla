-------------------------- MODULE ServerProperties --------------------------
(***************************************************************************)
(* What the connection manager promises.                                   *)
(***************************************************************************)
EXTENDS ServerManager

Feeding == INSTANCE ContextFeed WITH Clients <- Conns

\* A client whose socket is open gets the broadcasts: it is in the table, or
\* about to be put there, whoever else connected and left in between.
OpenIsRegistered ==
  \A c \in Sockets : socket[c] = "open" =>
    SlotOf(c) = c \/ (queuePc = "adding" /\ client = c) \/ ~Alive

\* The queue thread feeds each client published contexts in order, without
\* repeating one: the manager implements ContextFeed.
FeedsInOrder == Feeding!FeedSpec

\* A wake-up that got through (giveMessage locked the mutex and set the flag)
\* has every queued message handled, or discarded by a stop, its own and those
\* whose wake-up failed: none is left behind when the thread sleeps again.
WokenFlushes ==
  (msgAvailable /\ TryLock /\ \E p \in Producers : queue[p] # <<>>)
    ~> ((\A p \in Producers : queue[p] = <<>>) \/ queuePc = "done" \/ ~Alive)

\* A connection request that woke the thread is answered, even if it came before
\* main allowed connections.
RequestsAreTaken ==
  (msgAvailable /\ connectionQueue # <<>>)
    ~> (connectionQueue = <<>> \/ mainPc \notin {"starting", "allowed", "running"} \/ ~Alive)
=============================================================================
