--------------------------- MODULE AudioProperties ---------------------------
(* What the audio threads owe the callback and their callers.              *)
EXTENDS Audio

\* A thread that has ended is in no list: the callback never reaches one
\* (AudioThread::run, its end, against setActive and setupDevice).
EndedIsUnbound == \A m \in Modems : phase[m] = "end" => m \notin Bound

\* A modem whose audio is active is mixed. The exception is one switched
\* off and on between setupDevice and the assignment of inputQueue, which
\* nobody binds (AudioThread::setActive, AudioThread::run).
ActiveIsBound ==
  \A m \in Modems :
    phase[m] = "ready" /\ active[m] /\ m \notin early /\ (\A c \in Callers : lock[m] # c)
      => m \in Bound

\* The callback has the controller's mutex and wants a thread's, whose
\* holder wants the controller's, or the device's, which a modem's thread
\* has while it waits for the controller's: they wait for ever.
Inverted ==
  /\ mixing \in DOMAIN boundThreads /\ Waits(boundThreads[mixing])
  /\ \E c \in Callers :
       /\ lock[boundThreads[mixing]] = c
       /\ \/ call[c].pc = "switch" /\ NeedsController(call[c].modem, call[c].state)
          \/ call[c].pc = "find" /\ lock["device"] \in Modems

\* setActive returns to the post thread, the scanner and main, unless it
\* meets the callback that way: there is no other circle of waiting among
\* the device, the controller and the threads (AudioThread::setActive,
\* audioCallback, AudioThread::setupDevice).
SetActiveReturns == \A c \in Callers : call[c] # Idle ~> (call[c] = Idle \/ Inverted)
=============================================================================
