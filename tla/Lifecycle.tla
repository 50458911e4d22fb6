----------------------------- MODULE Lifecycle -----------------------------
(***************************************************************************)
(* The server process from start to end, several times over: main, the     *)
(* scanner's and the connection manager's threads, the demodulator that    *)
(* main itself starts and stops, signals, and the three files they leave   *)
(* for the next start. A file that is being written is cut off if the      *)
(* process ends there (write_json truncates it first).                     *)
(*                                                                         *)
(* Of systems.json only whether its systems are in it is kept, of          *)
(* state.json the squelch and gain, of config.json the list of tuners.     *)
(* Gains are in tenths of a decibel: those of a dongle may have fractions, *)
(* which are saved and not read back. What the scanner does between load   *)
(* and save is in ScannerSM, the wake-ups of the connection manager are in *)
(* ServerManager, the threads of the tuner in Tuner.                       *)
(***************************************************************************)
EXTENDS TunerSelect

CONSTANTS
  Squelches,     \* squelch levels a user may choose: whole numbers
  Gains,         \* gains a user may choose, AUTO_GAIN apart
  UserLists,     \* lists of tuners a user may have written
  MaxBoots,      \* bound: starts
  MaxChanges     \* bound: settings changed

ASSUME LifecycleAssumption ==
  /\ Squelches \subseteq Int /\ Gains \subseteq Nat
  /\ MaxBoots \in Nat \ {0} /\ MaxChanges \in Nat
  /\ \A l \in UserLists : l \in Seq([rank : Nat, name : Names, by : {"user"}])

Modules == {"scanner", "manager", "demod"}

AUTO_GAIN == -100
Default == [squelch |-> 0, gain |-> AUTO_GAIN]
Settings == [squelch : Squelches \cup {0}, gain : Gains \cup {AUTO_GAIN}]

VARIABLES
  file,        \* systems, state, config
  main,        \* where main is
  engine,      \* the scanner's thread
  event,       \* the state it is to enter
  systems,     \* _systems: what is in memory
  queue,       \* the connection manager's thread
  rtsp,        \* _rtspServer is there
  cubic,       \* none, made (OnInit), tuned (the tuner's thread runs), gone
  plugged,     \* devices at this start
  tuner, list, \* _selectedTuner, tuners
  demod,       \* _squelchLevel and _gain: what clients are told
  tunerGain,   \* what the tuner's thread is told
  gap,         \* why the two gains differ: no, inherited, misread
  state,       \* State: squelch and gain
  ready, stopped,   \* Synchronizable
  sysRun,
  ended,       \* how the process ended
  boots, changes,
  chosen,      \* the settings as the user was told of them last
  fault        \* what went wrong in this start or an earlier one

threadVars == <<engine, event, systems, queue, rtsp>>
gainVars == <<tunerGain, gap>>
demodVars == <<cubic, plugged, tuner, list, demod, gainVars>>
syncVars == <<ready, stopped>>
countVars == <<boots, changes, chosen>>
vars == <<file, main, threadVars, demodVars, state, syncVars, sysRun, ended, countVars, fault>>

-----------------------------------------------------------------------------
(* Files: absent, cut (does not parse), or their contents. A list of       *)
(* tuners that is not there is empty.                                      *)

Absent == [is |-> "absent"]
Cut == [is |-> "cut"]
CutList == <<NoTuner>>

\* ptree::get with a default that is an int: what has a fraction does not
\* convert.
AsInt(gain) == IF gain % 10 = 0 THEN gain ELSE AUTO_GAIN

\* State::loadFromFile, DemodState::load: without a file, or with one that
\* does not parse, State keeps its defaults.
StateRead == IF file.state \in {Absent, Cut} THEN state ELSE [file.state EXCEPT !.gain = AsInt(@)]

\* Static objects are zero: neither ready nor stopped, sysRun false.
Fresh ==
  /\ main' = "load" /\ engine' = "none" /\ event' = "none" /\ systems' = "none"
  /\ queue' = "none" /\ rtsp' = FALSE /\ cubic' = "none" /\ tuner' = NoTuner /\ list' = {}
  /\ demod' = Default /\ tunerGain' = AUTO_GAIN /\ gap' = "no" /\ state' = Default /\ ready' = {} /\ stopped' = {}
  /\ sysRun' = FALSE /\ ended' = "no"

\* A first start: the user has written a list of tuners and has systems, or
\* not; state.json only the program writes.
Init ==
  /\ file \in [systems : {"absent", "all"}, state : {Absent}, config : {<<>>} \cup UserLists]
  /\ main = "load" /\ engine = "none" /\ event = "none" /\ systems = "none"
  /\ queue = "none" /\ rtsp = FALSE /\ cubic = "none" /\ plugged \in Plugged /\ tuner = NoTuner /\ list = {}
  /\ demod = Default /\ tunerGain = AUTO_GAIN /\ gap = "no" /\ state = Default /\ ready = {} /\ stopped = {}
  /\ sysRun = FALSE /\ ended = "no"
  /\ boots = 1 /\ changes = 0 /\ chosen = Default /\ fault = {}

Alive == ended = "no"
At(pc) == Alive /\ main = pc
Goto(pc) == main' = pc

\* abort, a segmentation fault or exit: nothing else happens.
End(how) == ended' = how
Die(why) == End("died") /\ fault' = fault \cup {why}

-----------------------------------------------------------------------------
(* main, up to the loop.                                                   *)

\* Configuration::loadFromFile, State::loadFromFile
LoadFiles ==
  /\ At("load") /\ Goto("scanner")
  /\ list' = IF file.config = CutList THEN list ELSE LoadTuners(file.config)
  /\ state' = StateRead
  /\ UNCHANGED <<file, threadVars, cubic, plugged, tuner, demod, gainVars, syncVars, sysRun, ended, countVars,
                 fault>>

StartScanner ==
  /\ At("scanner") /\ Goto("manager")
  /\ engine' = "new" /\ event' = "LOAD"
  /\ UNCHANGED <<file, systems, queue, rtsp, demodVars, state, syncVars, sysRun, ended, countVars, fault>>

\* The RTSP server is not made when its port is taken, which is only logged.
MakeRtsp == rtsp' \in BOOLEAN /\ fault' = fault \cup (IF rtsp' THEN {} ELSE {"rtsp"})

\* ServerManager::start
StartManager ==
  /\ At("manager") /\ Goto("demod")
  /\ MakeRtsp
  /\ queue' = "run" /\ ready' = ready \cup {"manager"}
  /\ UNCHANGED <<file, engine, event, systems, demodVars, state, stopped, sysRun, ended, countVars>>

\* An exception on the way: main goes on with the end of the program.
Throws ==
  /\ At("manager") \/ (At("demod") /\ cubic = "made")
  /\ Goto("stop") /\ fault' = fault \cup {"start"}
  /\ UNCHANGED <<file, threadVars, demodVars, state, syncVars, sysRun, ended, countVars>>

\* Demodulator::start: settings, OnInit, the devices; a CHECK_F that fails
\* aborts, and so does the null pointer of an empty list of devices. The gain
\* is only kept to be told to clients.
OnInit ==
  /\ At("demod") /\ cubic = "none" /\ cubic' = "made"
  /\ demod' = state
  /\ gap' = IF state.gain # tunerGain THEN "inherited" ELSE "no"
  /\ IF NothingFound(plugged) \/ Devs(plugged) = {} THEN Die("start") ELSE UNCHANGED <<ended, fault>>
  /\ UNCHANGED <<file, main, threadVars, plugged, tuner, list, tunerGain, state, syncVars, sysRun, countVars>>

\* setDevice: the tuner begins with the gain control of its own, which the
\* configuration of a device says and nothing ever writes.
SelectTuner ==
  /\ At("demod") /\ cubic = "made"
  /\ LET s == AutoSelectTuner(list, Devs(plugged))
     IN tuner' = s.tuner /\ list' = s.list
  /\ tunerGain' = AUTO_GAIN
  /\ cubic' = "tuned" /\ ready' = ready \cup {"demod"} /\ Goto("wait")
  /\ UNCHANGED <<file, threadVars, plugged, demod, gap, state, stopped, sysRun, ended, countVars, fault>>

\* waitReady three times, allowConnections, startScanner.
AllReady ==
  /\ At("wait") /\ ready = Modules /\ Goto("ready")
  /\ UNCHANGED <<file, threadVars, demodVars, state, syncVars, sysRun, ended, countVars, fault>>

Run ==
  /\ At("ready") /\ Goto("run") /\ sysRun' = TRUE
  /\ UNCHANGED <<file, threadVars, demodVars, state, syncVars, ended, countVars, fault>>

-----------------------------------------------------------------------------
(* The other threads.                                                      *)

\* ST_Load: a systems file that does not parse is an exception nobody
\* catches.
LoadSystemsMutant ==
  /\ Alive /\ engine = "new" /\ event = "LOAD"
  /\ engine' = "idle" /\ event' = "none"
  /\ systems' = IF file.systems = "absent" THEN systems ELSE file.systems
  /\ ready' = IF file.systems = "absent" THEN ready ELSE ready \cup {"scanner"}
  /\ UNCHANGED <<file, main, queue, rtsp, demodVars, state, stopped, sysRun, ended, countVars, fault>>
LoadSystems ==
  /\ Alive /\ engine = "new" /\ event = "LOAD"
  /\ IF file.systems = "cut"
     THEN Die("database") /\ UNCHANGED <<engine, event, systems, ready>>
     ELSE /\ engine' = "idle" /\ event' = "none"
          /\ systems' = IF file.systems = "absent" THEN systems ELSE file.systems
          /\ ready' = ready \cup {"scanner"} /\ UNCHANGED <<ended, fault>>
  /\ UNCHANGED <<file, main, queue, rtsp, demodVars, state, stopped, sysRun, countVars>>

\* ST_SaveAll, ST_Stopped
SaveSystems ==
  /\ Alive /\ engine \in {"new", "idle"} /\ event = "SAVEALL"
  /\ engine' = "saving" /\ event' = "none"
  /\ file' = [file EXCEPT !.systems = "cut"]
  /\ UNCHANGED <<main, systems, queue, rtsp, demodVars, state, syncVars, sysRun, ended, countVars, fault>>

SystemsSaved ==
  /\ Alive /\ engine = "saving" /\ engine' = "done"
  /\ file' = [file EXCEPT !.systems = systems]
  /\ stopped' = stopped \cup {"scanner"} /\ ready' = ready \ {"scanner"}
  /\ UNCHANGED <<main, event, systems, queue, rtsp, demodVars, state, sysRun, ended, countVars, fault>>

\* AudioStreamServer: only an RTSP server that was made starts a thread, and
\* stop joins it whether it was started or not.
StopThrows == ~rtsp

\* The end of _queueThreadFunc.
StopServers ==
  /\ Alive /\ queue = "stop"
  /\ IF ~StopThrows THEN /\ queue' = "done" /\ stopped' = stopped \cup {"manager"} /\ ready' = ready \ {"manager"}
                         /\ UNCHANGED <<ended, fault>>
     ELSE Die("rtsp") /\ UNCHANGED <<queue, syncVars>>
  /\ UNCHANGED <<file, main, engine, event, systems, rtsp, demodVars, state, sysRun, countVars>>

SetSquelch ==
  /\ \E level \in Squelches : demod' = [demod EXCEPT !.squelch = level]
  /\ UNCHANGED gainVars

\* Demodulator::setTunerGain: a gain is read back from the tuner's thread,
\* which may have put the device's own in its place (updateGains).
SetTunerGain ==
  \/ /\ demod' = [demod EXCEPT !.gain = AUTO_GAIN]
     /\ tunerGain' = AUTO_GAIN /\ gap' = "no"
  \/ \E gain, read \in Gains :
       /\ tunerGain' = gain /\ demod' = [demod EXCEPT !.gain = read]
       /\ gap' = IF read = gain THEN "no" ELSE "misread"

\* A client or the console changes a setting, and everybody is told.
ChangeSettings ==
  /\ At("run") /\ changes < MaxChanges /\ changes' = changes + 1
  /\ SetSquelch \/ SetTunerGain
  /\ chosen' = demod'
  /\ UNCHANGED <<file, main, threadVars, cubic, plugged, tuner, list, state, syncVars, sysRun, ended, boots,
                 fault>>

\* sigIntHandler, sigTermHandler
Signal ==
  /\ Alive /\ main # "load"
  /\ IF sysRun THEN sysRun' = FALSE /\ UNCHANGED <<ended, fault>>
     ELSE Die("kill") /\ UNCHANGED sysRun
  /\ UNCHANGED <<file, main, threadVars, demodVars, state, syncVars, countVars>>

\* The machine is switched off.
PowerOff ==
  /\ Alive /\ Die("kill")
  /\ UNCHANGED <<file, main, threadVars, demodVars, state, syncVars, sysRun, countVars>>

-----------------------------------------------------------------------------
(* main, from the loop on.                                                 *)

LeaveLoop ==
  /\ At("run") /\ ~sysRun /\ Goto("stop")
  /\ UNCHANGED <<file, threadVars, demodVars, state, syncVars, sysRun, ended, countVars, fault>>

\* stopScanner waits for the event mutex. If the thread has not begun, its
\* assertion about the first state fails, in a build that has assertions.
StopScanner ==
  /\ At("stop") /\ Goto("stopManager") /\ event' = "SAVEALL"
  /\ \/ UNCHANGED <<ended, fault>>
     \/ engine = "new" /\ event = "LOAD" /\ Die("start")
  /\ UNCHANGED <<file, engine, systems, queue, rtsp, demodVars, state, syncVars, sysRun, countVars>>

StopManager ==
  /\ At("stopManager") /\ Goto("stopDemod")
  /\ queue' = IF queue = "run" THEN "stop" ELSE queue
  /\ UNCHANGED <<file, engine, event, systems, rtsp, demodVars, state, syncVars, sysRun, ended, countVars, fault>>

\* OnExit dereferences threads that OnInit makes, and exits at once (11, 12)
\* when one does not end within three seconds.
OnExitDies == Die(IF cubic = "tuned" THEN "timeout" ELSE "start")

\* Demodulator::stop
StopDemod ==
  /\ At("stopDemod")
  /\ \/ /\ cubic = "tuned" /\ cubic' = "gone" /\ state' = demod
        /\ stopped' = stopped \cup {"demod"} /\ ready' = ready \ {"demod"} /\ Goto("waitDeinit")
        /\ UNCHANGED <<ended, fault>>
     \/ OnExitDies /\ UNCHANGED <<main, cubic, state, syncVars>>
  /\ UNCHANGED <<file, threadVars, plugged, tuner, list, demod, gainVars, sysRun, countVars>>

\* Nobody waits for the scanner.
AllStoppedMutant == {"manager", "demod"} \subseteq stopped
AllStopped == stopped = Modules

WaitDeinit ==
  /\ At("waitDeinit") /\ AllStopped /\ Goto("saveState")
  /\ UNCHANGED <<file, threadVars, demodVars, state, syncVars, sysRun, ended, countVars, fault>>

\* State::saveToFile, then Configuration::saveToFile.
WriteStateMutant ==
  /\ At("saveState") /\ Goto("saveConfig")
  /\ file' = [file EXCEPT !.state = IF file.state = Cut THEN state ELSE file.state, !.config = CutList]
  /\ UNCHANGED <<threadVars, demodVars, state, syncVars, sysRun, ended, countVars, fault>>
WriteState ==
  /\ At("saveState")
  /\ IF file.state = Cut THEN file' = [file EXCEPT !.state = state] /\ Goto("saveConfig")
     ELSE file' = [file EXCEPT !.state = Cut] /\ UNCHANGED main
  /\ UNCHANGED <<threadVars, demodVars, state, syncVars, sysRun, ended, countVars, fault>>

WriteConfig ==
  /\ At("saveConfig")
  /\ IF file.config = CutList THEN file' = [file EXCEPT !.config = SaveTuners(list)] /\ Goto("exit")
     ELSE file' = [file EXCEPT !.config = CutList] /\ UNCHANGED main
  /\ UNCHANGED <<threadVars, demodVars, state, syncVars, sysRun, ended, countVars, fault>>

\* piscan::exit. A program whose I/O thread was never started, which it would
\* join, does not come this far.
Exit ==
  /\ At("exit") /\ End("clean")
  /\ UNCHANGED <<file, main, threadVars, demodVars, state, syncVars, sysRun, countVars, fault>>

\* Somebody starts the program again, with what is plugged in by then.
Boot ==
  /\ ~Alive /\ boots < MaxBoots /\ boots' = boots + 1
  /\ Fresh /\ plugged' \in Plugged
  /\ UNCHANGED <<file, changes, chosen, fault>>

-----------------------------------------------------------------------------
Startup == LoadFiles \/ StartScanner \/ StartManager \/ OnInit \/ SelectTuner \/ AllReady \/ Run
Shutdown == LeaveLoop \/ StopScanner \/ StopManager \/ StopDemod \/ WaitDeinit \/ WriteState \/ WriteConfig \/ Exit
Main == Startup \/ Shutdown \/ Throws
Engine == LoadSystems \/ SaveSystems \/ SystemsSaved

Next == Main \/ Engine \/ StopServers \/ ChangeSettings \/ Signal \/ PowerOff \/ Boot

\* The threads run; nobody has to start, stop or use the program.
Spec == Init /\ [][Next]_vars /\ WF_vars(Main) /\ WF_vars(Engine) /\ WF_vars(StopServers)
=============================================================================
