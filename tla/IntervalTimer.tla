---------------------------- MODULE IntervalTimer ----------------------------
(***************************************************************************)
(* The timer that sends signal levels during reception (IntervalTimer.h)   *)
(* and its two users: the scanner's thread, which starts and stops it with *)
(* the audio (Demodulator::squelchBreak), and main, which stops it with    *)
(* the demodulator and destroys it at exit, when the scanner is done.      *)
(*                                                                         *)
(* The thread waits on _cv under _mtx while it is stopped and on           *)
(* _sleepTime under _sleepMtx between two ticks; the three flags are       *)
(* atomics that are also written without these mutexes.                    *)
(***************************************************************************)
EXTENDS Naturals

CONSTANT MaxCalls   \* bound: starts and stops by the scanner

ASSUME TimerAssumption == MaxCalls \in Nat

VARIABLES
  runTimer, execute, stateChanged,
  mtx, sleepMtx,    \* who holds the mutex
  timer,            \* where the timer's thread is
  user,             \* where each user is
  calls,            \* calls by the scanner so far
  late              \* ticks begun since _runTimer was cleared, up to ManyTicks

flags == <<runTimer, execute, stateChanged>>
mutexes == <<mtx, sleepMtx>>
vars == <<flags, mutexes, timer, user, calls, late>>

ManyTicks == 2   \* bound: more late ticks are not told apart
Users == {"scanner", "main"}
Free == "nobody"

Init ==
  /\ runTimer = FALSE /\ execute = TRUE /\ stateChanged = FALSE
  /\ mtx = Free /\ sleepMtx = Free
  /\ timer = "top" /\ user = [u \in Users |-> "idle"]
  /\ calls = 0 /\ late = 0

-----------------------------------------------------------------------------
(* The thread.                                                             *)

Goes(from, to) == timer = from /\ timer' = to

\* while(_execute)
ThreadTop ==
  /\ Goes("top", IF execute THEN "lock" ELSE "done")
  /\ UNCHANGED <<flags, mutexes, user, calls, late>>

\* _mtx is taken, at first or to leave the wait.
ThreadLock ==
  /\ mtx = Free /\ Goes("lock", "testRun")
  /\ mtx' = "timer"
  /\ UNCHANGED <<flags, sleepMtx, user, calls, late>>

\* while(!_runTimer && _execute): two loads ...
ThreadTestRun ==
  /\ Goes("testRun", IF runTimer THEN "unlock" ELSE "testExecute")
  /\ UNCHANGED <<flags, mutexes, user, calls, late>>

\* ... and the wait, which gives up the mutex.
ThreadTestExecute ==
  /\ Goes("testExecute", IF execute THEN "waiting" ELSE "unlock")
  /\ mtx' = IF execute THEN Free ELSE mtx
  /\ UNCHANGED <<flags, sleepMtx, user, calls, late>>

ThreadUnlock ==
  /\ Goes("unlock", "unlocked")
  /\ mtx' = Free
  /\ UNCHANGED <<flags, sleepMtx, user, calls, late>>

\* if(!_execute) break;
ThreadLeaves ==
  /\ Goes("unlocked", IF execute THEN "func" ELSE "done")
  /\ UNCHANGED <<flags, mutexes, user, calls, late>>

\* func()
ThreadTicks ==
  /\ Goes("func", "sleepLock")
  /\ late' = IF runTimer THEN 0 ELSE IF late < ManyTicks THEN late + 1 ELSE late
  /\ UNCHANGED <<flags, mutexes, user, calls>>

\* wait_for: the predicate is tested under _sleepMtx before the wait, after a
\* notification and after the timeout.
ThreadSleepLock ==
  /\ sleepMtx = Free
  /\ Goes("sleepLock", "asleep?") \/ Goes("timedOut", "late?")
  /\ sleepMtx' = "timer"
  /\ UNCHANGED <<flags, mtx, user, calls, late>>

\* Both ways out of the sleep lead back to the tests of the outer loop.
AfterSleepMutant == "unlocked"
AfterSleep == "top"

ThreadSleeps ==
  /\ ~stateChanged
  /\ Goes("asleep?", "sleeping") \/ Goes("late?", AfterSleep)
  /\ sleepMtx' = Free
  /\ UNCHANGED <<flags, mtx, user, calls, late>>

ThreadIsWoken ==
  /\ stateChanged
  /\ Goes("asleep?", "woken") \/ Goes("late?", "woken")
  /\ UNCHANGED <<flags, mutexes, user, calls, late>>

\* _stateChanged = false; break;
ThreadConsumes ==
  /\ Goes("woken", AfterSleep)
  /\ stateChanged' = FALSE /\ sleepMtx' = Free
  /\ UNCHANGED <<runTimer, execute, mtx, user, calls, late>>

\* The interval is over.
Timeout ==
  /\ Goes("sleeping", "timedOut")
  /\ UNCHANGED <<flags, mutexes, user, calls, late>>

\* A condition variable may wake without a notification.
SpuriousWake ==
  /\ Goes("waiting", "lock") \/ Goes("sleeping", "sleepLock")
  /\ UNCHANGED <<flags, mutexes, user, calls, late>>

-----------------------------------------------------------------------------
(* The users.                                                              *)

UserGoes(u, from, to) == user[u] = from /\ user' = [user EXCEPT ![u] = to]

NotifyCvMutant == timer' = timer
NotifyCv == timer' = IF timer = "waiting" THEN "lock" ELSE timer
NotifySleep == timer' = IF timer = "sleeping" THEN "sleepLock" ELSE timer

\* squelchBreak from the scanner's thread: start() or stop().
ScannerCalls ==
  /\ calls < MaxCalls
  /\ UserGoes("scanner", "idle", "start") \/ UserGoes("scanner", "idle", "stop")
  /\ calls' = calls + 1
  /\ UNCHANGED <<flags, mutexes, timer, late>>

\* start(): under _mtx, _runTimer ...
StartSets ==
  /\ mtx = Free /\ UserGoes("scanner", "start", "starting")
  /\ mtx' = "scanner" /\ runTimer' = TRUE /\ late' = 0
  /\ UNCHANGED <<execute, stateChanged, sleepMtx, timer, calls>>

\* ... then _stateChanged, which may be another user's stop, and the wake-up.
StartNotifies ==
  /\ UserGoes("scanner", "starting", "idle")
  /\ stateChanged' = FALSE /\ mtx' = Free
  /\ NotifyCv
  /\ UNCHANGED <<runTimer, execute, sleepMtx, calls, late>>

\* stop(): two stores without a mutex, then the wake-up with one.
StopClears(u) ==
  /\ UserGoes(u, "stop", "stopping")
  /\ runTimer' = FALSE
  /\ late' = IF runTimer THEN 0 ELSE late
  /\ UNCHANGED <<execute, stateChanged, mutexes, timer, calls>>

StopChanges(u) ==
  /\ UserGoes(u, "stopping", "notify")
  /\ stateChanged' = TRUE
  /\ UNCHANGED <<runTimer, execute, mutexes, timer, calls, late>>

\* What main does next depends on whether destroy() called stop().
AfterStop(u) == IF u = "scanner" THEN "idle" ELSE IF execute THEN "stopped" ELSE "join"
StopNotifies(u) ==
  /\ sleepMtx = Free /\ UserGoes(u, "notify", AfterStop(u))
  /\ NotifySleep
  /\ UNCHANGED <<flags, mutexes, calls, late>>

\* Demodulator::stop.
MainStops ==
  /\ UserGoes("main", "idle", "stop")
  /\ UNCHANGED <<flags, mutexes, timer, calls, late>>

\* main has waited for the scanner's deinit, after which it calls nothing.
ScannerEnds ==
  /\ user["main"] # "idle" /\ UserGoes("scanner", "idle", "ended")
  /\ UNCHANGED <<flags, mutexes, timer, calls, late>>

\* The destructor: _execute is cleared, and _runTimer decides whom to wake.
DestroyClears ==
  /\ user["scanner"] = "ended" /\ UserGoes("main", "stopped", "destroy")
  /\ execute' = FALSE
  /\ UNCHANGED <<runTimer, stateChanged, mutexes, timer, calls, late>>

DestroyTests ==
  /\ UserGoes("main", "destroy", IF runTimer THEN "stop" ELSE "wake")
  /\ UNCHANGED <<flags, mutexes, timer, calls, late>>

DestroyNotifies ==
  /\ mtx = Free /\ UserGoes("main", "wake", "join")
  /\ NotifyCv
  /\ UNCHANGED <<flags, mutexes, calls, late>>

DestroyJoins ==
  /\ timer = "done" /\ UserGoes("main", "join", "destroyed")
  /\ UNCHANGED <<flags, mutexes, timer, calls, late>>

-----------------------------------------------------------------------------
ThreadStep ==
  \/ ThreadTop \/ ThreadLock \/ ThreadTestRun \/ ThreadTestExecute \/ ThreadUnlock
  \/ ThreadLeaves \/ ThreadTicks \/ ThreadSleepLock \/ ThreadSleeps \/ ThreadIsWoken
  \/ ThreadConsumes \/ Timeout

ScannerStep ==
  StartSets \/ StartNotifies \/ StopClears("scanner") \/ StopChanges("scanner")
    \/ StopNotifies("scanner")

MainStep ==
  \/ StopClears("main") \/ StopChanges("main") \/ StopNotifies("main")
  \/ ScannerEnds \/ DestroyClears \/ DestroyTests \/ DestroyNotifies \/ DestroyJoins

Next == ThreadStep \/ SpuriousWake \/ ScannerCalls \/ ScannerStep \/ MainStops \/ MainStep

\* The threads run; a user that waits for a mutex gets it.  The interval ends
\* however often the thread wakes before, since the loop sleeps what is left.
Fairness ==
  /\ WF_vars(ThreadStep) /\ SF_vars(Timeout) /\ SF_vars(ThreadLock) /\ SF_vars(ThreadSleepLock)
  /\ SF_vars(ScannerStep) /\ SF_vars(MainStep)

Spec == Init /\ [][Next]_vars
FairSpec == Spec /\ Fairness

-----------------------------------------------------------------------------
(* What the timer promises.                                                *)

\* Every variable has its type, and each mutex is held by whom its owner's
\* place in the code says.
TimerTypeOK ==
  /\ runTimer \in BOOLEAN /\ execute \in BOOLEAN /\ stateChanged \in BOOLEAN
  /\ calls \in 0..MaxCalls /\ late \in 0..ManyTicks
  /\ mtx = "timer" <=> timer \in {"testRun", "testExecute", "unlock"}
  /\ mtx = "scanner" <=> user["scanner"] = "starting"
  /\ sleepMtx = "timer" <=> timer \in {"asleep?", "late?", "woken"}

\* After a stop at most the tick that was already under way is still executed,
\* whichever user stops, starts again or destroys the timer in between.
OneLateTick == ~runTimer => late <= 1

\* A timer that stays stopped comes to rest in its wait, even if the start of
\* one user erased the _stateChanged of another user's stop.
StopRests == (~runTimer) ~> (timer \in {"waiting", "done"} \/ runTimer)

\* The destructor returns: its wake-up reaches the thread wherever it is.
DestroyReturns == user["main"] = "destroy" ~> user["main"] = "destroyed"
=============================================================================
