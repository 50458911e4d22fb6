-------------------------------- MODULE Audio --------------------------------
(***************************************************************************)
(* The audio output (AudioThread.cpp): one thread per modem, a controller  *)
(* that the first of them creates for the device, and RtAudio's callback,  *)
(* which mixes the threads bound to the controller. Activity is switched   *)
(* by the post thread and by the scanner (DemodulatorInstance::setActive), *)
(* and main takes everything down (DemodulatorMgr::terminateAll,           *)
(* AudioThread::deviceCleanup).                                            *)
(*                                                                         *)
(* Locks: m_device_mutex, the controller's m_mutex ("C") and that of each  *)
(* modem's thread. One taken and released with no other lock request in    *)
(* between is a guard of its step; only locks held while another is        *)
(* awaited are state. One output device; samples and gains are left out.   *)
(***************************************************************************)
EXTENDS Integers, Sequences

CONSTANTS
  Modems,     \* the modems, each with an audio thread
  QueueMax,   \* capacity of pipeAudioData
  MaxCalls    \* bound: calls of setActive by the post thread and the scanner

Callers == {"post", "scan", "main"}

\* The names of the modems are none of the other names.
ASSUME AudioAssumption ==
  /\ QueueMax \in Nat \ {0} /\ MaxCalls \in Nat
  /\ Modems \cap (Callers \cup {"device", "C", "callback", "none", "run"}) = {}

VARIABLES
  lock,       \* holder of each mutex, "none" when it is free
  phase,      \* of each modem's thread: new, setup, bound, ready, unbind, end
  controller, \* "none", "new", "open", "end", "freed"
  boundThreads,
  active,     \* AudioThread::active
  running,    \* DemodulatorInstance::active
  queue,      \* items in pipeAudioData
  mixing,     \* index of the thread the callback is at, 0 outside it
  call,       \* what the post thread, the scanner and main are doing
  calls,
  stopping,
  left,       \* modems main has still to terminate, "run" before
  early       \* modems switched on before they had an input queue

vars == <<lock, phase, controller, boundThreads, active, running, queue, mixing, call, calls,
          stopping, left, early>>
threads == <<phase, controller, stopping, left>>

Idle == [pc |-> "idle", modem |-> "none", state |-> FALSE]
Free(m) == lock[m] = "none"
Bound == {boundThreads[i] : i \in DOMAIN boundThreads}

Init ==
  /\ lock = [m \in Modems \cup {"device", "C"} |-> "none"]
  /\ phase = [m \in Modems |-> "new"] /\ controller = "none"
  /\ boundThreads = <<>>
  /\ active = [m \in Modems |-> FALSE] /\ running = [m \in Modems |-> TRUE]
  /\ queue = [m \in Modems |-> 0] /\ mixing = 0
  /\ call = [c \in Callers |-> Idle] /\ calls = 0
  /\ stopping = {} /\ left = {"run"} /\ early = {}

-----------------------------------------------------------------------------
(* The list, under the controller's mutex.                                 *)

BindThread(m) == IF m \in Bound THEN boundThreads ELSE Append(boundThreads, m)
\* std::find and erase.
RemoveThread(m) ==
  IF m \notin Bound THEN boundThreads
  ELSE LET at == CHOOSE i \in DOMAIN boundThreads : boundThreads[i] = m
       IN [i \in 1..(Len(boundThreads) - 1) |->
             IF i < at THEN boundThreads[i] ELSE boundThreads[i + 1]]

-----------------------------------------------------------------------------
(* A modem's thread: setupDevice under the device mutex, then its loop.    *)

SetupDevice(m) ==
  /\ phase[m] = "new" /\ phase' = [phase EXCEPT ![m] = "setup"]
  /\ Free("device") /\ lock' = [lock EXCEPT !["device"] = m]
  /\ stopping' = stopping \ {m}  \* threadMain
  /\ UNCHANGED <<controller, boundThreads, active, running, queue, mixing, call, calls, left, early>>

\* The first makes the controller and its thread, the others bind themselves.
Bind(m) ==
  /\ phase[m] = "setup" /\ phase' = [phase EXCEPT ![m] = "bound"]
  /\ controller # "none" => Free("C")
  /\ controller' = IF controller = "none" THEN "new" ELSE controller
  /\ boundThreads' = BindThread(m)
  /\ active' = [active EXCEPT ![m] = TRUE]
  /\ lock' = [lock EXCEPT !["device"] = "none"]
  /\ UNCHANGED <<running, queue, mixing, call, calls, stopping, left, early>>

SetInputQueue(m) ==
  /\ phase[m] = "bound" /\ phase' = [phase EXCEPT ![m] = "ready"]
  /\ UNCHANGED <<lock, controller, boundThreads, active, running, queue, mixing, call, calls,
                 stopping, left, early>>

\* DemodulatorThread pushes what it has demodulated, if there is room.
Receive(m) ==
  /\ phase[m] \in {"bound", "ready"} /\ running[m] /\ left = {"run"}
  /\ queue[m] < QueueMax /\ queue' = [queue EXCEPT ![m] = @ + 1]
  /\ UNCHANGED <<lock, threads, boundThreads, active, running, mixing, call, calls, early>>

\* The end of run: the controller is looked up, ...
Leave(m) ==
  /\ phase[m] = "ready" /\ m \in stopping /\ Free("device")
  /\ phase' = [phase EXCEPT ![m] = IF controller = "freed" THEN "crashed" ELSE "unbind"]
  /\ queue' = [queue EXCEPT ![m] = 0]
  /\ UNCHANGED <<lock, controller, boundThreads, active, running, mixing, call, calls, stopping,
                 left, early>>

UnbindMutant(m) ==
  /\ phase[m] = "unbind"
  /\ phase' = [phase EXCEPT ![m] = IF controller = "freed" THEN "crashed" ELSE "end"]
  /\ UNCHANGED <<lock, controller, boundThreads, active, running, queue, mixing, call, calls,
                 stopping, left, early>>
\* ... and its list left, under its mutex.
Unbind(m) ==
  /\ phase[m] = "unbind" /\ (controller = "freed" \/ Free("C"))
  /\ phase' = [phase EXCEPT ![m] = IF controller = "freed" THEN "crashed" ELSE "end"]
  /\ boundThreads' = RemoveThread(m)
  /\ UNCHANGED <<lock, controller, active, running, queue, mixing, call, calls, stopping, left,
                 early>>

-----------------------------------------------------------------------------
(* The controller's thread and the callback of its stream.                 *)

OpenStream ==
  /\ controller = "new" /\ controller' = "open"
  /\ Free("device") /\ Free("C")
  /\ stopping' = stopping \ {"C"}
  /\ UNCHANGED <<lock, phase, boundThreads, active, running, queue, mixing, call, calls, left, early>>

\* stopStream waits for the callback.
CloseStream ==
  /\ controller = "open" /\ "C" \in stopping /\ controller' = "end"
  /\ Free("device") /\ mixing = 0
  /\ UNCHANGED <<lock, phase, boundThreads, active, running, queue, mixing, call, calls, stopping,
                 left, early>>

AudioCallback ==
  /\ controller = "open" /\ mixing = 0 /\ Free("C")
  /\ lock' = [lock EXCEPT !["C"] = "callback"] /\ mixing' = 1
  /\ UNCHANGED <<threads, boundThreads, active, running, queue, call, calls, early>>

\* isActive and the mixing take the thread's mutex, with the controller's held;
\* a thread with nothing to play is passed over before.
Waits(m) == phase[m] = "ready" /\ queue[m] > 0
Mix ==
  /\ mixing \in DOMAIN boundThreads /\ mixing' = mixing + 1
  /\ LET m == boundThreads[mixing]
     IN IF Waits(m)
        THEN /\ Free(m)
             /\ queue' = IF active[m] THEN [queue EXCEPT ![m] = @ - 1] ELSE queue
        ELSE UNCHANGED queue
  /\ UNCHANGED <<lock, threads, boundThreads, active, running, call, calls, early>>

CallbackReturns ==
  /\ mixing > Len(boundThreads) /\ mixing' = 0
  /\ lock' = [lock EXCEPT !["C"] = "none"]
  /\ UNCHANGED <<threads, boundThreads, active, running, queue, call, calls, early>>

-----------------------------------------------------------------------------
(* DemodulatorInstance::setActive, and AudioThread::setActive within it:   *)
(* the thread's mutex, the device's for a moment, the controller's.        *)

Switches(c, m, s) ==
  call' = [call EXCEPT ![c] =
             [pc |-> IF running[m] = s THEN "return" ELSE "lock", modem |-> m, state |-> s]]

SetActive(c) ==
  /\ c # "main" /\ left = {"run"} /\ call[c] = Idle
  /\ calls < MaxCalls /\ calls' = calls + 1
  /\ \E m \in Modems, s \in BOOLEAN : Switches(c, m, s)
  /\ UNCHANGED <<lock, threads, boundThreads, active, running, queue, mixing, early>>

Moves(c, to) == call' = [call EXCEPT ![c].pc = to]

LockThread(c) ==
  LET m == call[c].modem
  IN /\ call[c].pc = "lock" /\ Moves(c, "find")
     /\ Free(m) /\ lock' = [lock EXCEPT ![m] = c]
     /\ UNCHANGED <<threads, boundThreads, active, running, queue, mixing, calls, early>>

\* The device's mutex is kept until the controller's is there.
FindControllerMutant(c) ==
  LET m == call[c].modem
  IN /\ call[c].pc = "find" /\ Free("device")
     /\ IF controller = "none"
        THEN Moves(c, "return") /\ lock' = [lock EXCEPT ![m] = "none"]
        ELSE Moves(c, "switch") /\ lock' = [lock EXCEPT !["device"] = c]
     /\ UNCHANGED <<threads, boundThreads, active, running, queue, mixing, calls, early>>
\* No controller yet: nothing is switched.
FindController(c) ==
  LET m == call[c].modem
  IN /\ call[c].pc = "find" /\ Free("device")
     /\ IF controller = "none"
        THEN Moves(c, "return") /\ lock' = [lock EXCEPT ![m] = "none"]
        ELSE Moves(c, "switch") /\ UNCHANGED lock
     /\ UNCHANGED <<threads, boundThreads, active, running, queue, mixing, calls, early>>

\* Switched on again, but not bound again.
RelistMutant(m, s) == IF ~s /\ active[m] THEN RemoveThread(m) ELSE boundThreads
HasQueue(m) == phase[m] \notin {"new", "setup", "bound"}
Relist(m, s) ==
  IF s /\ ~active[m] /\ HasQueue(m) THEN BindThread(m)
  ELSE IF ~s /\ active[m] THEN RemoveThread(m)
  ELSE boundThreads

\* bindThread waits for the controller's mutex, removeThread spins for it.
NeedsController(m, s) == (s /\ ~active[m] /\ HasQueue(m)) \/ (~s /\ active[m])
SwitchThread(c) ==
  LET m == call[c].modem
      s == call[c].state
  IN /\ call[c].pc = "switch" /\ Moves(c, "return")
     /\ NeedsController(m, s) => Free("C")
     /\ boundThreads' = Relist(m, s)
     /\ active' = [active EXCEPT ![m] = s]
     /\ queue' = IF HasQueue(m) THEN [queue EXCEPT ![m] = 0] ELSE queue
     /\ lock' = [lock EXCEPT ![m] = "none", !["device"] = IF @ = c THEN "none" ELSE @]
     /\ early' = IF s /\ ~active[m] /\ ~HasQueue(m) THEN early \cup {m} ELSE early
     /\ UNCHANGED <<threads, running, mixing, calls>>

\* What main switches off it terminates next.
Return(c) ==
  /\ call[c].pc = "return" /\ call' = [call EXCEPT ![c] = Idle]
  /\ running' = [running EXCEPT ![call[c].modem] = call[c].state]
  /\ stopping' = IF c = "main" THEN stopping \cup {call[c].modem} ELSE stopping
  /\ UNCHANGED <<lock, phase, controller, boundThreads, active, queue, mixing, calls, left, early>>

-----------------------------------------------------------------------------
(* OnExit, when the post thread and the scanner are gone.                  *)

\* deleteThread: setActive(false), then terminate.
TerminateAll ==
  /\ left = {"run"} /\ \A c \in Callers : call[c] = Idle
  /\ left' = Modems
  /\ UNCHANGED <<lock, phase, controller, boundThreads, active, running, queue, mixing, call, calls,
                 stopping, early>>

DeleteThread ==
  /\ left # {"run"} /\ call["main"] = Idle
  /\ \E m \in left :
       /\ Switches("main", m, FALSE)
       /\ left' = left \ {m}
  /\ UNCHANGED <<lock, phase, controller, boundThreads, active, running, queue, mixing, calls,
                 stopping, early>>

\* deviceCleanup: the controller's destructor terminates and joins its thread.
DeviceCleanup ==
  /\ left = {} /\ call["main"] = Idle /\ controller \notin {"none", "freed"}
  /\ "C" \notin stopping /\ controller # "end"
  /\ stopping' = stopping \cup {"C"}
  /\ UNCHANGED <<lock, phase, controller, boundThreads, active, running, queue, mixing, call, calls,
                 left, early>>

DeleteController ==
  /\ left = {} /\ controller = "end" /\ controller' = "freed"
  /\ UNCHANGED <<lock, phase, boundThreads, active, running, queue, mixing, call, calls, stopping,
                 left, early>>

-----------------------------------------------------------------------------
ThreadNext(m) == SetupDevice(m) \/ Bind(m) \/ SetInputQueue(m) \/ Leave(m) \/ Unbind(m)
CallbackNext == Mix \/ CallbackReturns
CallNext(c) == LockThread(c) \/ FindController(c) \/ SwitchThread(c) \/ Return(c)
MainNext == DeleteThread \/ DeviceCleanup \/ DeleteController

Next ==
  \/ \E m \in Modems : ThreadNext(m) \/ Receive(m)
  \/ OpenStream \/ CloseStream \/ AudioCallback \/ CallbackNext
  \/ \E c \in Callers : SetActive(c) \/ CallNext(c)
  \/ TerminateAll \/ MainNext

\* Threads run. The callback has a mutex for a part of its period only, and
\* nobody holds one for long without waiting for another: whoever waits gets
\* one that is free again and again.
Fairness ==
  /\ \A m \in Modems : SF_vars(Bind(m))
  /\ \A c \in Callers : SF_vars(CallNext(c))
  /\ WF_vars(CallbackNext)

Spec == Init /\ [][Next]_vars /\ Fairness
=============================================================================
