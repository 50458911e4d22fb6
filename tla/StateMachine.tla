---------------------------- MODULE StateMachine ----------------------------
(***************************************************************************)
(* The event engine of util/StateMachine.{h,cpp}: ONE pending event slot   *)
(* (_eventGenerated, _pEventData and the pair lastState/currentState), a   *)
(* thread that takes the event and runs the state function of currentState *)
(* while it holds _eventMutex, and external callers that overwrite the     *)
(* slot under the same mutex.                                              *)
(*                                                                         *)
(* A state function runs in one or more steps.  "engine" says where the    *)
(* thread is: "wait" (it holds no mutex: it is parked on _cv, or between   *)
(* two calls of StateEngine), "done" (it left StateThreadFunc), or a label *)
(* of the derived machine while a state function is running.               *)
(***************************************************************************)
EXTENDS Naturals

CONSTANT NoData               \* the NULL EventData pointer

VARIABLES
  currentState, lastState,    \* unsigned char currentState, lastState
  evtSrcExternal,             \* the pending event came from ExternalEvent
  eventGenerated,             \* _eventGenerated
  pEventData,                 \* _pEventData
  run,                        \* _run
  engine                      \* where the state machine thread is

smVars == <<currentState, lastState, evtSrcExternal, eventGenerated,
            pEventData, run, engine>>

\* _eventMutex is held from the moment an event is taken until the state
\* function has returned (StateEngine holds the unique_lock throughout).
MutexFree == engine \in {"wait", "done"}

\* InternalEvent(newState, pData), called when currentState is "from" (a state
\* function may call it more than once, each call seeing the previous one).
InternalEventMutant(from, newState, data) ==
  /\ pEventData' = IF eventGenerated THEN pEventData ELSE data
  /\ eventGenerated' = TRUE
  /\ lastState' = from
  /\ currentState' = newState
InternalEvent(from, newState, data) ==
  /\ pEventData' = data
  /\ eventGenerated' = TRUE
  /\ lastState' = from
  /\ currentState' = newState

\* ExternalEvent(newState, pData) with newState # EVENT_IGNORED: it overwrites
\* whatever event is pending.
ExternalEvent(newState, data) ==
  /\ MutexFree
  /\ InternalEvent(currentState, newState, data)
  /\ evtSrcExternal' = TRUE
  /\ UNCHANGED <<run, engine>>

\* StateEngine's wait returns: an event is pending, and the thread still runs.
EventTaken(state) ==
  /\ engine = "wait"
  /\ run
  /\ eventGenerated
  /\ currentState = state

\* The first step of a state function that takes several: the slot is emptied,
\* the mutex stays held.
EnterStateFunction(label) ==
  /\ engine' = label
  /\ eventGenerated' = FALSE
  /\ pEventData' = NoData
  /\ UNCHANGED <<currentState, lastState, evtSrcExternal, run>>

\* A step in the middle of a state function.
StayInStateFunction(label) ==
  /\ engine' = label
  /\ UNCHANGED <<currentState, lastState, evtSrcExternal, eventGenerated,
                 pEventData, run>>

\* The end of StateEngine after a state function that posted an event ...
ReturnPosting(from, newState, data) ==
  /\ InternalEvent(from, newState, data)
  /\ evtSrcExternal' = FALSE
  /\ engine' = "wait"
  /\ UNCHANGED run

\* ... after one that posted none and leaves the thread parked on _cv ...
ReturnParked ==
  /\ eventGenerated' = FALSE
  /\ pEventData' = NoData
  /\ evtSrcExternal' = FALSE
  /\ engine' = "wait"
  /\ UNCHANGED <<currentState, lastState, run>>

\* ... and after one that called stop(false): the thread leaves its loop.
ReturnStopped ==
  /\ eventGenerated' = FALSE
  /\ pEventData' = NoData
  /\ evtSrcExternal' = FALSE
  /\ run' = FALSE
  /\ engine' = "done"
  /\ UNCHANGED <<currentState, lastState>>

\* StateMachine::start: _run = true; InternalEvent(0); the thread is spawned.
Started(initial, data) ==
  /\ currentState = initial
  /\ lastState = initial
  /\ evtSrcExternal = FALSE
  /\ eventGenerated = TRUE
  /\ pEventData = data
  /\ run = TRUE
  /\ engine = "wait"

StartEngine(initial, data) ==
  /\ InternalEvent(initial, initial, data)
  /\ evtSrcExternal' = FALSE
  /\ run' = TRUE
  /\ engine' = "wait"
=============================================================================
