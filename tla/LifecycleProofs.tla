--------------------------- MODULE LifecycleProofs ---------------------------
(***************************************************************************)
(* Proofs about Lifecycle for every number of starts, every set of         *)
(* dongles, lists and settings: what the files hold between two starts,    *)
(* and that the database survives.                                         *)
(***************************************************************************)
EXTENDS LifecycleProperties, FiniteSetTheorems, WellFoundedInduction, TLAPS

Starting == {"load", "scanner", "manager", "demod", "wait", "ready"}
Stopping == {"stop", "stopManager", "stopDemod", "waitDeinit"}
Saving == {"saveState", "saveConfig", "exit"}

TypeInv ==
  /\ file = [systems |-> file.systems, state |-> file.state, config |-> file.config]
  /\ file.systems \in {"absent", "all", "none", "cut"}
  /\ systems \in {"none", "all"}
  /\ main \in Starting \cup {"run"} \cup Stopping \cup Saving
  /\ engine \in {"none", "new", "idle", "saving", "done"}
  /\ event \in {"none", "LOAD", "SAVEALL"}
  /\ cubic \in {"none", "made", "tuned", "gone"}
  /\ ready \subseteq Modules /\ stopped \subseteq Modules
  /\ ended \in {"no", "clean", "died"}

\* Nothing goes wrong in a process that dies without a fault being noted.
EndInv ==
  /\ ended = "died" => fault # {}
  /\ ended = "clean" => main = "exit"

\* While nothing has gone wrong, the settings the user was told of are in the
\* file, or on their way from it to the demodulator, or back. What the file
\* has of a gain with a fraction is not what is read, but what was read once
\* is read again.
Kept(v, c) == v.squelch = c.squelch /\ v.gain \in {c.gain, AsInt(c.gain)}

SettingsInv == fault = {} =>
  /\ main = "load" => /\ state = Default
                      /\ \/ file.state \in Settings /\ Kept(file.state, chosen)
                         \/ file.state = Absent /\ chosen = Default
  /\ main \in {"scanner", "manager"} => Kept(state, chosen)
  /\ main = "demod" => Kept(state, chosen) /\ (cubic = "none" \/ Kept(demod, chosen))
  /\ main \in {"wait", "ready", "run", "stop", "stopManager", "stopDemod"} => Kept(demod, chosen)
  /\ main \in {"waitDeinit", "saveState"} => Kept(state, chosen)
  /\ main \in {"saveConfig", "exit"} => file.state \in Settings /\ Kept(file.state, chosen)

SettingsType ==
  /\ chosen \in Settings /\ demod \in Settings /\ state \in Settings
  /\ file.state \in Settings \cup {Absent, Cut}
  /\ tunerGain \in Gains \cup {AUTO_GAIN}

\* The tuner begins with its own gain control, and hears of every gain from
\* then on.
GainInv ==
  /\ demod.gain # tunerGain => gap # "no"
  /\ cubic \in {"none", "made"} => tunerGain = AUTO_GAIN
CubicInv ==
  /\ main \in {"load", "scanner", "manager"} => cubic = "none"
  /\ main \in {"wait", "ready", "run"} => cubic = "tuned"

\* The scanner's thread loads before it saves, and has saved before main
\* ends; only a program that failed to start saves what it has not loaded.
EngineInv ==
  /\ main \in Starting \cup {"run"} => event # "SAVEALL" /\ engine \in {"none", "new", "idle"}
  /\ main \in {"load", "scanner"} => engine = "none"
  /\ main \in {"ready", "run"} => engine = "idle"
  /\ "scanner" \in ready => engine \notin {"none", "new"}
  /\ "scanner" \in stopped => engine = "done"
  /\ main \in Saving => engine = "done"
  /\ engine = "done" => file.systems = systems
  /\ event = "SAVEALL" /\ engine \in {"none", "new"} => "start" \in fault
  /\ main = "stop" /\ engine \in {"none", "new"} => "start" \in fault
DatabaseInv ==
  /\ file.systems # "absent"
  /\ file.systems = "none" => "start" \in fault
  /\ systems = "none" /\ engine \in {"idle", "saving", "done"} => "start" \in fault

LifecycleInv == TypeInv /\ EndInv /\ SettingsType /\ SettingsInv /\ CubicInv /\ GainInv /\ EngineInv

-----------------------------------------------------------------------------
\* Types.
LEMMA TypeInvStep ==
  ASSUME TypeInv, [Next]_vars
  PROVE  TypeInv'
<1> USE DEF TypeInv, Modules, Starting, Stopping, Saving, At,
        Alive, Goto, Die, End, threadVars, demodVars, gainVars, syncVars, countVars
<1>1. CASE LoadFiles
  BY <1>1 DEF LoadFiles
<1>2. CASE Boot
  BY <1>2 DEF Boot, Fresh
<1>3. CASE OnInit
  BY <1>3 DEF OnInit
<1>4. CASE StartManager
  BY <1>4 DEF StartManager, MakeRtsp
<1>5. CASE StopDemod
  BY <1>5 DEF StopDemod, OnExitDies
<1>6. CASE StopServers
  BY <1>6 DEF StopServers, StopThrows
<1>7. CASE LoadSystems
  BY <1>7 DEF LoadSystems
<1>8. CASE SystemsSaved
  BY <1>8 DEF SystemsSaved
<1>9. CASE WriteState
  BY <1>9 DEF WriteState
<1>10. CASE WriteConfig
  BY <1>10 DEF WriteConfig
<1>11. CASE ChangeSettings
  BY <1>11 DEF ChangeSettings
<1>12. CASE StartScanner \/ SelectTuner \/ AllReady
  BY <1>12 DEF StartScanner, SelectTuner, AllReady
<1>13. CASE Run \/ LeaveLoop \/ StopScanner
  BY <1>13 DEF Run, LeaveLoop, StopScanner
<1>14. CASE StopManager \/ WaitDeinit \/ Exit
  BY <1>14 DEF StopManager, WaitDeinit, Exit
<1>15. CASE Throws \/ SaveSystems \/ Signal
  BY <1>15 DEF Throws, SaveSystems, Signal
<1>16. CASE PowerOff
  BY <1>16 DEF PowerOff
<1>17. CASE UNCHANGED vars
  BY <1>17 DEF vars
<1>18. QED
  BY <1>1, <1>2, <1>3, <1>4, <1>5, <1>6, <1>7, <1>8, <1>9, <1>10, <1>11, <1>12,
     <1>13, <1>14, <1>15, <1>16, <1>17
  DEF Next, Main, Startup, Shutdown, Engine

\* A process that ends without a fault has gone through main.
LEMMA EndInvStep ==
  ASSUME TypeInv, EndInv, [Next]_vars
  PROVE  EndInv'
<1> USE DEF EndInv, At, Alive, Goto, Die, End, threadVars, demodVars, gainVars, syncVars,
        countVars
<1>1. CASE StopDemod
  BY <1>1 DEF StopDemod, OnExitDies
<1>2. CASE StopServers
  BY <1>2 DEF StopServers, StopThrows
<1>3. CASE LoadSystems
  BY <1>3 DEF LoadSystems
<1>4. CASE Boot
  BY <1>4 DEF Boot, Fresh
<1>5. CASE StartManager
  BY <1>5 DEF StartManager, MakeRtsp
<1>6. CASE LoadFiles \/ StartScanner \/ OnInit \/ SelectTuner
  BY <1>6 DEF LoadFiles, StartScanner, OnInit, SelectTuner
<1>7. CASE AllReady \/ Run \/ LeaveLoop \/ StopScanner
  BY <1>7 DEF AllReady, Run, LeaveLoop, StopScanner
<1>8. CASE StopManager \/ WaitDeinit \/ WriteState \/ WriteConfig
  BY <1>8 DEF StopManager, WaitDeinit, WriteState, WriteConfig
<1>9. CASE Exit \/ Throws \/ SaveSystems \/ SystemsSaved
  BY <1>9 DEF Exit, Throws, SaveSystems, SystemsSaved
<1>10. CASE ChangeSettings \/ Signal \/ PowerOff
  BY <1>10 DEF ChangeSettings, Signal, PowerOff
<1>11. CASE UNCHANGED vars
  BY <1>11 DEF vars
<1>12. QED
  BY <1>1, <1>2, <1>3, <1>4, <1>5, <1>6, <1>7, <1>8, <1>9, <1>10, <1>11
  DEF Next, Main, Startup, Shutdown, Engine

\* A gain is read as itself or as the automatic one, and then stays it.
LEMMA ReadOnce ==
  ASSUME NEW v \in Settings, NEW c \in Settings, Kept(v, c)
  PROVE  LET w == [v EXCEPT !.gain = AsInt(@)] IN w \in Settings /\ Kept(w, c)
<1> DEFINE w == [v EXCEPT !.gain = AsInt(@)]
<1>1. \A gain \in Gains \cup {AUTO_GAIN} : AsInt(gain) \in {gain, AUTO_GAIN}
  BY DEF AsInt
<1>2. AUTO_GAIN % 10 = 0
  BY DEF AUTO_GAIN
<1>3. \A gain \in Gains \cup {AUTO_GAIN} : AsInt(AsInt(gain)) = AsInt(gain)
  BY <1>2 DEF AsInt
<1>4. w.squelch = v.squelch /\ w.gain = AsInt(v.gain)
  BY DEF Settings
<1>5. w \in Settings
  BY <1>1 DEF Settings
<1>6. Kept(w, c)
  BY <1>3, <1>4 DEF Kept, Settings
<1>7. QED
  BY <1>5, <1>6

\* The two marks of a file are no settings.
LEMMA MarksApart == Absent \notin Settings /\ Cut \notin Settings /\ Absent # Cut
  BY DEF Absent, Cut, Settings

LEMMA KeptItself == ASSUME NEW v PROVE Kept(v, v)
  BY DEF Kept

LEMMA DefaultTyped == Default \in Settings
  BY DEF Default, Settings

\* The settings are handed on from one step of main to the next, and from a
\* start to the next by the file.
LEMMA SettingsInvStep ==
  ASSUME TypeInv, EndInv, SettingsType, CubicInv, SettingsInv, [Next]_vars
  PROVE  CubicInv' /\ SettingsInv'
<1> USE DEF CubicInv, SettingsInv, At, Alive, Goto, Die, End, threadVars, demodVars, gainVars,
        syncVars, countVars
<1>1. CASE Boot
  <2>1. /\ ~Alive /\ main' = "load" /\ cubic' = "none" /\ state' = Default
        /\ UNCHANGED <<file, chosen, fault>>
    BY <1>1 DEF Boot, Fresh
  \* Without a fault main has written the file.
  <2>2. fault = {} => main = "exit"
    BY <2>1 DEF TypeInv, EndInv
  <2>3. fault = {} => file.state \in Settings /\ Kept(file.state, chosen)
    BY <2>2
  <2>4. CubicInv' /\ (fault' = {} => file'.state \in Settings /\ Kept(file'.state, chosen'))
    BY <2>1, <2>3
  <2>5. QED
    BY <2>1, <2>4
<1>2. CASE LoadFiles
  <2>1. main = "load" /\ main' = "scanner" /\ state' = StateRead /\ UNCHANGED <<file, cubic, chosen, fault>>
    BY <1>2 DEF LoadFiles
  <2>2. SUFFICES ASSUME fault = {} PROVE Kept(state', chosen)
    BY <2>1
  <2>3. CASE file.state = Absent /\ chosen = Default
    BY <2>1, <2>2, <2>3, KeptItself DEF StateRead
  <2>4. CASE file.state \in Settings /\ Kept(file.state, chosen)
    <3>1. state' = [file.state EXCEPT !.gain = AsInt(@)]
      BY <2>1, <2>4, MarksApart DEF StateRead
    <3>2. QED
      BY <2>4, <3>1, ReadOnce DEF SettingsType
  <2>5. QED
    BY <2>1, <2>2, <2>3, <2>4
<1>3. CASE OnInit
  BY <1>3 DEF OnInit
<1>4. CASE SelectTuner
  BY <1>4 DEF SelectTuner
<1>5. CASE StopDemod
  BY <1>5 DEF StopDemod, OnExitDies
<1>6. CASE WriteState
  BY <1>6, MarksApart DEF WriteState, TypeInv, SettingsType
<1>7. CASE WriteConfig
  BY <1>7 DEF WriteConfig, TypeInv
<1>8. CASE StopServers
  BY <1>8 DEF StopServers, StopThrows
<1>9. CASE LoadSystems
  BY <1>9 DEF LoadSystems
<1>10. CASE StartManager
  BY <1>10 DEF StartManager, MakeRtsp
<1>11. CASE SystemsSaved
  BY <1>11 DEF SystemsSaved, TypeInv
<1>12. CASE SaveSystems
  BY <1>12 DEF SaveSystems, TypeInv
<1>13. CASE StartScanner \/ AllReady \/ Run
  BY <1>13 DEF StartScanner, AllReady, Run
<1>14. CASE LeaveLoop \/ StopScanner \/ StopManager
  BY <1>14 DEF LeaveLoop, StopScanner, StopManager
<1>15. CASE WaitDeinit \/ Exit \/ Throws
  BY <1>15 DEF WaitDeinit, Exit, Throws
<1>16. CASE ChangeSettings \/ Signal \/ PowerOff
  BY <1>16, KeptItself DEF ChangeSettings, Signal, PowerOff
<1>17. CASE UNCHANGED vars
  BY <1>17 DEF vars
<1>18. QED
  BY <1>1, <1>2, <1>3, <1>4, <1>5, <1>6, <1>7, <1>8, <1>9, <1>10, <1>11, <1>12,
     <1>13, <1>14, <1>15, <1>16, <1>17
  DEF Next, Main, Startup, Shutdown, Engine

\* A step leaves the settings and the gains alone, or is one of a few.
LEMMA SettingsTypeStep ==
  ASSUME TypeInv, SettingsType, CubicInv, GainInv, [Next]_vars
  PROVE  SettingsType' /\ GainInv'
<1> DEFINE Same == UNCHANGED <<chosen, demod, state, gainVars>>
<1>1. Same /\ file'.state = file.state /\ (cubic' \in {"none", "made"} => cubic \in {"none", "made"})
        => SettingsType' /\ GainInv'
  BY DEF SettingsType, GainInv, gainVars
<1> USE DEF At, Goto, Die, End, threadVars, demodVars, gainVars, countVars
<1>2. CASE LoadFiles
  <2>1. StateRead \in Settings
    <3>1. CASE file.state \in {Absent, Cut}
      BY <3>1 DEF StateRead, SettingsType
    <3>2. CASE file.state \in Settings
      <4>1. [file.state EXCEPT !.gain = AsInt(@)] \in Settings
        BY <3>2, ReadOnce, KeptItself
      <4>2. StateRead = [file.state EXCEPT !.gain = AsInt(@)]
        BY <3>2, MarksApart DEF StateRead
      <4>3. QED
        BY <4>1, <4>2
    <3>3. QED
      BY <3>1, <3>2 DEF SettingsType
  <2>2. state' = StateRead /\ UNCHANGED <<file, chosen, demod, gainVars, cubic>>
    BY <1>2 DEF LoadFiles
  <2>3. QED
    BY <2>1, <2>2 DEF SettingsType, GainInv
<1>3. CASE Boot
  BY <1>3, DefaultTyped DEF Boot, Fresh, SettingsType, GainInv, Default
<1>4. CASE OnInit
  <2>1. /\ demod' = state /\ tunerGain = AUTO_GAIN /\ UNCHANGED <<file, chosen, state, tunerGain>>
        /\ gap' = IF state.gain # tunerGain THEN "inherited" ELSE "no"
    BY <1>4 DEF OnInit, GainInv
  <2>2. QED
    BY <2>1 DEF SettingsType, GainInv
<1>5. CASE SelectTuner
  <2>1. /\ cubic = "made" /\ cubic' = "tuned" /\ tunerGain' = AUTO_GAIN
        /\ UNCHANGED <<file, chosen, demod, state, gap>>
    BY <1>5 DEF SelectTuner
  <2>2. QED
    BY <2>1 DEF SettingsType, GainInv
<1>6. CASE ChangeSettings
  <2>1. main = "run" /\ chosen' = demod' /\ UNCHANGED <<file, state, cubic>> /\ (SetSquelch \/ SetTunerGain)
    BY <1>6 DEF ChangeSettings
  <2>2. CASE SetSquelch
    <3>1. PICK level \in Squelches : demod' = [demod EXCEPT !.squelch = level]
      BY <2>2 DEF SetSquelch
    <3>2. demod' \in Settings /\ demod'.gain = demod.gain /\ UNCHANGED gainVars
      BY <2>2, <3>1 DEF SetSquelch, SettingsType, Settings
    <3>3. QED
      BY <2>1, <3>2 DEF SettingsType, GainInv
  <2>3. CASE SetTunerGain
    <3>1. PICK gain \in Gains \cup {AUTO_GAIN}, read \in Gains \cup {AUTO_GAIN} :
            /\ tunerGain' = gain /\ demod' = [demod EXCEPT !.gain = read]
            /\ gap' = IF read = gain THEN "no" ELSE "misread"
      BY <2>3 DEF SetTunerGain
    <3>2. demod' \in Settings /\ demod'.gain = read
      BY <3>1 DEF SettingsType, Settings
    <3>3. QED
      BY <2>1, <3>1, <3>2 DEF SettingsType, GainInv, CubicInv
  <2>4. QED
    BY <2>1, <2>2, <2>3
<1>7. CASE StopDemod
  BY <1>7 DEF StopDemod, OnExitDies, SettingsType, GainInv
<1>8. CASE WriteState
  <2>1. file'.state \in {state, Cut} /\ Same /\ UNCHANGED cubic
    BY <1>8 DEF WriteState, TypeInv
  <2>2. QED
    BY <2>1 DEF SettingsType, GainInv
<1>9. CASE WriteConfig
  BY <1>1, <1>9 DEF WriteConfig, TypeInv
<1>10. CASE SaveSystems \/ SystemsSaved
  BY <1>1, <1>10 DEF SaveSystems, SystemsSaved, TypeInv
<1>11. CASE LoadSystems
  BY <1>1, <1>11 DEF LoadSystems
<1>12. CASE StopServers
  BY <1>1, <1>12 DEF StopServers
<1>13. CASE StartScanner \/ StartManager \/ AllReady \/ Run
  BY <1>1, <1>13 DEF StartScanner, StartManager, AllReady, Run
<1>14. CASE LeaveLoop \/ StopScanner \/ StopManager
  BY <1>1, <1>14 DEF LeaveLoop, StopScanner, StopManager
<1>15. CASE WaitDeinit \/ Exit \/ Throws
  BY <1>1, <1>15 DEF WaitDeinit, Exit, Throws
<1>16. CASE Signal \/ PowerOff
  BY <1>1, <1>16 DEF Signal, PowerOff
<1>17. CASE UNCHANGED vars
  BY <1>1, <1>17 DEF vars
<1>18. QED
  BY <1>2, <1>3, <1>4, <1>5, <1>6, <1>7, <1>8, <1>9, <1>10, <1>11, <1>12, <1>13,
     <1>14, <1>15, <1>16, <1>17
  DEF Next, Main, Startup, Shutdown, Engine

\* The scanner and main keep in step.
LEMMA EngineInvStep ==
  ASSUME TypeInv, EngineInv, [Next]_vars
  PROVE  EngineInv'
<1> USE DEF TypeInv, EngineInv, Modules, Starting, Stopping, Saving, At, Alive,
        Goto, Die, End, threadVars, demodVars, gainVars, syncVars, countVars
<1>1. CASE Boot
  BY <1>1 DEF Boot, Fresh
<1>2. CASE LoadFiles
  BY <1>2 DEF LoadFiles
<1>3. CASE OnInit
  BY <1>3 DEF OnInit
<1>4. CASE AllReady
  BY <1>4 DEF AllReady
<1>5. CASE StopScanner
  BY <1>5 DEF StopScanner
<1>6. CASE LeaveLoop
  BY <1>6 DEF LeaveLoop
<1>7. CASE Throws
  BY <1>7 DEF Throws
<1>8. CASE StopDemod
  BY <1>8 DEF StopDemod, OnExitDies
<1>9. CASE WaitDeinit
  BY <1>9 DEF WaitDeinit, AllStopped
<1>10. CASE WriteState
  BY <1>10 DEF WriteState
<1>11. CASE WriteConfig
  BY <1>11 DEF WriteConfig
<1>12. CASE StopServers
  BY <1>12 DEF StopServers, StopThrows
<1>13. CASE LoadSystems
  BY <1>13 DEF LoadSystems
<1>14. CASE StartManager
  BY <1>14 DEF StartManager, MakeRtsp
<1>15. CASE SystemsSaved
  BY <1>15 DEF SystemsSaved
<1>16. CASE SaveSystems
  BY <1>16 DEF SaveSystems
<1>17. CASE SelectTuner
  BY <1>17 DEF SelectTuner
<1>18. CASE StartScanner \/ Run \/ StopManager
  BY <1>18 DEF StartScanner, Run, StopManager
<1>19. CASE Exit \/ ChangeSettings \/ Signal
  BY <1>19 DEF Exit, ChangeSettings, Signal
<1>20. CASE PowerOff
  BY <1>20 DEF PowerOff
<1>21. CASE UNCHANGED vars
  BY <1>21 DEF vars
<1>22. QED
  BY <1>1, <1>2, <1>3, <1>4, <1>5, <1>6, <1>7, <1>8, <1>9, <1>10, <1>11, <1>12,
     <1>13, <1>14, <1>15, <1>16, <1>17, <1>18, <1>19, <1>20, <1>21
  DEF Next, Main, Startup, Shutdown, Engine

\* The database, once there, is never saved empty but by a start that failed.
LEMMA DatabaseInvStep ==
  ASSUME TypeInv, EngineInv, DatabaseInv, [Next]_vars
  PROVE  DatabaseInv'
<1> USE DEF TypeInv, DatabaseInv, At, Alive, Goto, Die, End, threadVars, demodVars, gainVars,
        syncVars, countVars
<1>1. CASE Boot
  BY <1>1 DEF Boot, Fresh
<1>2. CASE StopScanner
  BY <1>2 DEF StopScanner
<1>3. CASE StopDemod
  BY <1>3 DEF StopDemod, OnExitDies
<1>4. CASE WriteState
  BY <1>4 DEF WriteState
<1>5. CASE WriteConfig
  BY <1>5 DEF WriteConfig
<1>6. CASE StopServers
  BY <1>6 DEF StopServers, StopThrows
<1>7. CASE LoadSystems
  BY <1>7 DEF LoadSystems
<1>8. CASE StartManager
  BY <1>8 DEF StartManager, MakeRtsp
<1>9. CASE SystemsSaved
  BY <1>9 DEF SystemsSaved
<1>10. CASE SaveSystems
  BY <1>10 DEF SaveSystems, EngineInv
<1>11. CASE LoadFiles \/ StartScanner \/ OnInit
  BY <1>11 DEF LoadFiles, StartScanner, OnInit
<1>12. CASE SelectTuner \/ AllReady \/ Run
  BY <1>12 DEF SelectTuner, AllReady, Run
<1>13. CASE LeaveLoop \/ StopManager \/ WaitDeinit
  BY <1>13 DEF LeaveLoop, StopManager, WaitDeinit
<1>14. CASE Exit \/ Throws \/ ChangeSettings
  BY <1>14 DEF Exit, Throws, ChangeSettings
<1>15. CASE Signal \/ PowerOff
  BY <1>15 DEF Signal, PowerOff
<1>16. CASE UNCHANGED vars
  BY <1>16 DEF vars
<1>17. QED
  BY <1>1, <1>2, <1>3, <1>4, <1>5, <1>6, <1>7, <1>8, <1>9, <1>10, <1>11, <1>12,
     <1>13, <1>14, <1>15, <1>16
  DEF Next, Main, Startup, Shutdown, Engine

\* The first start.
LEMMA InitInv == Init => LifecycleInv
<1> SUFFICES ASSUME Init PROVE LifecycleInv
  OBVIOUS
<1>1. TypeInv
  BY DEF Init, TypeInv, Starting
<1>2. EndInv /\ CubicInv /\ SettingsInv
  BY DEF Init, EndInv, CubicInv, SettingsInv
<1>3. EngineInv
  BY DEF Init, EngineInv, Saving
<1>4. SettingsType /\ GainInv
  BY DefaultTyped DEF Init, SettingsType, GainInv, Default
<1>5. QED
  BY <1>1, <1>2, <1>3, <1>4 DEF LifecycleInv

\* Every step keeps the invariant.
LEMMA NextInv == LifecycleInv /\ [Next]_vars => LifecycleInv'
  BY TypeInvStep, EndInvStep, SettingsTypeStep, SettingsInvStep, EngineInvStep DEF LifecycleInv

-----------------------------------------------------------------------------
(***************************************************************************)
(* The list of tuners. A list is ranked when no rank leaves a gap at which *)
(* a new tuner would come before one of the user's: the program numbers    *)
(* its own entries by the size of the list.                                *)
(***************************************************************************)
ListedTuners == [rank : Nat, name : Names, by : {"user", "piscan"}]

RankedList(l) ==
  /\ IsFiniteSet(l) /\ l \subseteq ListedTuners
  /\ \A t, u \in l : t.rank = u.rank => t = u
  /\ \A t \in l : t.rank <= Cardinality(l)
  /\ \A t, u \in l : t.by = "user" /\ u.by = "piscan" => t.rank < u.rank

\* The hypothesis about what users write: ranks that count from zero or from
\* one. With a larger one the program's own tuner would come first from the
\* next start on.
UsersCount == \A l \in UserLists : \A i \in DOMAIN l : l[i].rank <= Cardinality(LoadTuners(l))

\* Of the ranks up to the size of a ranked list all but one are taken.
LEMMA OneRankIsFree ==
  ASSUME NEW l, RankedList(l)
  PROVE  \E g \in 0..Cardinality(l) :
           /\ \A t \in l : t.rank # g
           /\ \A r \in (0..Cardinality(l)) \ {g} : \E t \in l : t.rank = r
<1> DEFINE n == Cardinality(l)
           R == {t.rank : t \in l}
           f == [t \in l |-> t.rank]
<1>1. n \in Nat
  BY FS_CardinalityType DEF RankedList
<1>2. R \subseteq 0..n
  BY <1>1 DEF RankedList, ListedTuners
<1>3. f \in Bijection(l, R)
  <2>1. f \in [l -> R] /\ \A t, u \in l : f[t] = f[u] => t = u
    BY DEF RankedList
  <2>2. \A r \in R : \E t \in l : f[t] = r
    OBVIOUS
  <2>3. QED
    BY <2>1, <2>2, Zenon DEF Bijection, Injection, Surjection, IsInjective
<1>4. IsFiniteSet(R) /\ Cardinality(R) = n
  BY <1>3, FS_Bijection, Zenon DEF ExistsBijection, RankedList
<1>5. IsFiniteSet(0..n) /\ Cardinality(0..n) = n + 1
  BY <1>1, FS_Interval
<1>6. (0..n) \cap R = R
  BY <1>2
<1>7. IsFiniteSet((0..n) \ R) /\ Cardinality((0..n) \ R) = 1
  <2> HIDE DEF n, R
  <2>1. /\ IsFiniteSet((0..n) \ R)
        /\ Cardinality((0..n) \ R) = Cardinality(0..n) - Cardinality((0..n) \cap R)
    BY <1>5, FS_Difference, Zenon
  <2>2. Cardinality((0..n) \ R) = (n + 1) - n
    BY <2>1, <1>4, <1>5, <1>6, Zenon
  <2>3. QED
    BY <1>1, <2>1, <2>2
<1>8. PICK g : (0..n) \ R = {g}
  <2> HIDE DEF n, R
  <2>1. QED
    BY <1>7, FS_Singleton
<1>9. QED
  BY <1>8

\* The list can be written in the order of its ranks, every tuner once
\* (TunerList::save).
LEMMA SavedInOrder ==
  ASSUME NEW l, RankedList(l)
  PROVE  /\ SaveTuners(l) \in [1..Cardinality(l) -> l]
         /\ Range(SaveTuners(l)) = l
         /\ \A i, j \in 1..Cardinality(l) : i < j => SaveTuners(l)[i].rank < SaveTuners(l)[j].rank
<1> DEFINE n == Cardinality(l)
<1>1. n \in Nat /\ \A t \in l : t.rank \in 0..n
  BY FS_CardinalityType DEF RankedList, ListedTuners
<1>2. PICK g \in 0..n : /\ \A t \in l : t.rank # g
                        /\ \A r \in (0..n) \ {g} : \E t \in l : t.rank = r
  BY OneRankIsFree
<1> DEFINE Rank(i) == IF i <= g THEN i - 1 ELSE i
           s == [i \in 1..n |-> CHOOSE t \in l : t.rank = Rank(i)]
<1>3. \A i \in 1..n : s[i] \in l /\ s[i].rank = Rank(i)
  <2> TAKE i \in 1..n
  <2>1. Rank(i) \in (0..n) \ {g}
    BY <1>1
  <2>2. \E t \in l : t.rank = Rank(i)
    BY <2>1, <1>2
  <2>3. QED
    BY <2>2
<1>4. s \in [1..n -> l]
  BY <1>3
<1>5. l \subseteq Range(s)
  <2> SUFFICES ASSUME NEW t \in l PROVE \E i \in 1..n : s[i] = t
    BY DEF Range
  <2>1. t.rank \in (0..n) \ {g}
    BY <1>1, <1>2
  <2>2. \E i \in 1..n : Rank(i) = t.rank
    <3>1. CASE t.rank < g
      BY <3>1, <2>1, <1>1 DEF Rank
    <3>2. CASE t.rank > g
      BY <3>2, <2>1, <1>1 DEF Rank
    <3>3. QED
      BY <3>1, <3>2, <2>1, <1>1
  <2>3. PICK i \in 1..n : Rank(i) = t.rank
    BY <2>2
  <2>4. QED
    BY <2>3, <1>3 DEF RankedList
<1>6. Range(s) = l
  BY <1>4, <1>5 DEF Range
<1>7. \A i, j \in 1..n : i < j => Rank(i) < Rank(j)
  BY <1>1
<1>8. \A i, j \in DOMAIN s : i < j => s[i].rank < s[j].rank
  BY <1>3, <1>7
<1> HIDE DEF s, Rank
<1>9. LET S == SaveTuners(l)
      IN /\ S \in [1..n -> l] /\ Range(S) = l
         /\ \A i, j \in DOMAIN S : i < j => S[i].rank < S[j].rank
  BY <1>4, <1>6, <1>8 DEF SaveTuners
<1>10. QED
  BY <1>9

\* What a start loads is what the one before has saved (TunerList::save and
\* load).
LEMMA LoadSaved ==
  ASSUME NEW l, RankedList(l)
  PROVE  LoadTuners(SaveTuners(l)) = l
<1> DEFINE s == SaveTuners(l)
           n == Cardinality(l)
<1>1. n \in Nat /\ \A t \in l : t.rank \in Nat
  BY FS_CardinalityType DEF RankedList, ListedTuners
<1>2. s \in [1..n -> l] /\ Range(s) = l /\ \A i, j \in 1..n : i < j => s[i].rank < s[j].rank
  BY SavedInOrder
<1> HIDE DEF s
<1>3. \A j \in 1..n : \A k \in 1..(j - 1) : s[k].rank # s[j].rank
  BY <1>1, <1>2
<1>4. LoadTuners(s) = {s[i] : i \in 1..n}
  BY <1>2, <1>3 DEF LoadTuners
<1>5. QED
  BY <1>2, <1>4 DEF Range, s

\* A set of numbers has a least one.
LEMMA LeastNumber ==
  ASSUME NEW S \in SUBSET Nat, S # {}
  PROVE  \E m \in S : \A k \in S : m <= k
<1>1. PICK m \in S : \A k \in S : ~(<<k, m>> \in OpToRel(<, Nat))
  BY NatLessThanWellFounded, WFMin
<1>2. \A k \in S : ~(k < m)
  <2> TAKE k \in S
  <2>1. k < m => <<k, m>> \in OpToRel(<, Nat)
    BY DEF OpToRel
  <2>2. QED
    BY <1>1, <2>1
<1>3. QED
  BY <1>2

\* The tuner that autoSelectTuner takes from those it knows.
LEMMA FirstKnown ==
  ASSUME NEW K, K \subseteq ListedTuners, K # {}
  PROVE  FirstByRank(K) \in K /\ \A u \in K : FirstByRank(K).rank <= u.rank
<1> DEFINE S == {t.rank : t \in K}
<1>1. S \subseteq Nat /\ S # {}
  BY DEF ListedTuners
<1>2. PICK m \in S : \A k \in S : m <= k
  <2> HIDE DEF S
  <2>1. QED
    BY <1>1, LeastNumber
<1>3. \E t \in K : \A u \in K : t.rank <= u.rank
  BY <1>2
<1>4. QED
  BY <1>3 DEF FirstByRank

\* The dongle it takes when it knows none.
LEMMA FirstFound ==
  ASSUME NEW found \in Plugged, Devs(found) # {}
  PROVE  FirstDevice(Devs(found)).name \in Names
<1> DEFINE S == {d.name : d \in Devs(found)}
<1>1. S \subseteq Names /\ S \subseteq Nat /\ S # {}
  BY SelectAssumption DEF Devs
<1>2. PICK m \in S : \A k \in S : m <= k
  <2> HIDE DEF S
  <2>1. QED
    BY <1>1, LeastNumber
<1>3. \E d \in Devs(found) : \A e \in Devs(found) : d.name <= e.name
  BY <1>2
<1>4. FirstDevice(Devs(found)) \in Devs(found)
  BY <1>3 DEF FirstDevice
<1>5. QED
  BY <1>4 DEF Devs

\* Its entry comes after all the user's, or is not made.
LEMMA NewTunerRanked ==
  ASSUME NEW l, RankedList(l), NEW found \in Plugged, Devs(found) # {}
  PROVE  RankedList(InsertTuner(l, NewTuner(l, Devs(found))))
<1> DEFINE t == NewTuner(l, Devs(found))
           n == Cardinality(l)
<1>1. n \in Nat
  BY FS_CardinalityType DEF RankedList
<1>2. t \in ListedTuners /\ t.rank = n /\ t.by = "piscan"
  BY <1>1, FirstFound DEF NewTuner, ListedTuners
<1> HIDE DEF t
<1>3. CASE \E u \in l : u.rank = t.rank
  <2>1. InsertTuner(l, t) = l
    BY <1>3 DEF InsertTuner
  <2>2. QED
    BY <2>1 DEF t
<1>4. CASE ~\E u \in l : u.rank = t.rank
  <2> DEFINE m == l \cup {t}
  <2>1. InsertTuner(l, t) = m
    BY <1>4 DEF InsertTuner
  <2>2. t \notin l
    BY <1>4
  <2>3. IsFiniteSet(m) /\ Cardinality(m) = n + 1
    BY <2>2, FS_AddElement DEF RankedList
  <2>4. m \subseteq ListedTuners /\ \A u, v \in m : u.rank = v.rank => u = v
    BY <1>2, <1>4 DEF RankedList
  <2>5. \A u \in l : u.rank \in Nat /\ u.rank < n
    BY <1>1, <1>2, <1>4 DEF RankedList, ListedTuners
  <2>6. \A u \in m : u.rank <= n + 1
    BY <1>1, <1>2, <2>5
  <2>7. \A u, v \in m : u.by = "user" /\ v.by = "piscan" => u.rank < v.rank
    <3> SUFFICES ASSUME NEW u \in m, NEW v \in m, u.by = "user", v.by = "piscan"
                 PROVE  u.rank < v.rank
      OBVIOUS
    <3>1. u \in l
      BY <1>2
    <3>2. CASE v \in l
      BY <3>1, <3>2 DEF RankedList
    <3>3. CASE v = t
      BY <3>1, <3>3, <1>2, <2>5
    <3>4. QED
      BY <3>2, <3>3
  <2> HIDE DEF m
  <2>8. RankedList(m)
    BY <2>3, <2>4, <2>6, <2>7 DEF RankedList
  <2>9. QED
    BY <2>1, <2>8 DEF t
<1>5. QED
  BY <1>3, <1>4

\* A user's list as it is written is ranked when it is loaded.
LEMMA UserListRanked ==
  ASSUME UsersCount, NEW l \in UserLists \cup {<<>>}
  PROVE  RankedList(LoadTuners(l)) /\ l # CutList
<1> DEFINE first == {j \in DOMAIN l : \A k \in 1..(j - 1) : l[k].rank # l[j].rank}
           written == [rank : Nat, name : Names, by : {"user"}]
<1>1. /\ \A i \in DOMAIN l : l[i] \in written
      /\ l \in Seq(written)
      /\ DOMAIN l = 1..Len(l) /\ Len(l) \in Nat
  <2>1. CASE l = <<>>
    BY <2>1
  <2>2. CASE l \in UserLists
    <3>1. l \in Seq(written)
      BY <2>2, LifecycleAssumption
    <3> HIDE DEF written
    <3>2. QED
      BY <3>1
  <2>3. QED
    BY <2>1, <2>2
<1>2. LoadTuners(l) = {l[i] : i \in first}
  BY DEF LoadTuners
<1>3. \A i, j \in first : l[i].rank = l[j].rank => i = j
  <2> SUFFICES ASSUME NEW i \in first, NEW j \in first, l[i].rank = l[j].rank, i < j
               PROVE  FALSE
    BY <1>1
  <2>1. i \in 1..(j - 1)
    BY <1>1
  <2>2. QED
    BY <2>1
<1>4. \A t, u \in LoadTuners(l) : t.rank = u.rank => t = u
  BY <1>2, <1>3
<1>5. LoadTuners(l) \subseteq ListedTuners /\ \A t \in LoadTuners(l) : t.by = "user"
  <2>1. \A i \in first : l[i] \in written
    BY <1>1
  <2> HIDE DEF first
  <2>2. QED
    BY <1>2, <2>1 DEF ListedTuners
<1>6. IsFiniteSet(LoadTuners(l))
  <2>1. IsFiniteSet(DOMAIN l)
    BY <1>1, FS_Interval
  <2>2. first \in SUBSET (DOMAIN l)
    OBVIOUS
  <2>3. IsFiniteSet(first)
    BY <2>1, <2>2, FS_Subset, Zenon
  <2>4. [i \in first |-> l[i]] \in Surjection(first, LoadTuners(l))
    BY <1>2 DEF Surjection
  <2> HIDE DEF first
  <2>5. QED
    BY <2>3, <2>4, FS_Surjection, Zenon
<1>7. \A t \in LoadTuners(l) : t.rank <= Cardinality(LoadTuners(l))
  <2>1. \A i \in DOMAIN l : l[i].rank <= Cardinality(LoadTuners(l))
    BY DEF UsersCount
  <2>2. \A i \in first : l[i].rank <= Cardinality(LoadTuners(l))
    BY <2>1
  <2> HIDE DEF first
  <2>3. QED
    BY <1>2, <2>2
<1>8. l # CutList
  <2> SUFFICES ASSUME l = CutList PROVE FALSE
    OBVIOUS
  <2>1. l[1] = NoTuner /\ Len(l) = 1
    BY DEF CutList
  <2>2. l[1] \in written
    BY <1>1, <2>1
  <2>3. QED
    BY <2>1, <2>2 DEF NoTuner
<1>9. QED
  BY <1>4, <1>5, <1>6, <1>7, <1>8 DEF RankedList

\* While nothing has gone wrong, the list in memory and the one in the file
\* are ranked, and the program's own tuner is selected only when it knows none
\* of the user's.
UserKnown == \E t \in Known(list, Devs(plugged)) : t.by = "user"

TunersInv ==
  /\ plugged \in Plugged
  /\ main = "load" => list = {} /\ tuner = NoTuner
  /\ fault = {} =>
       /\ RankedList(list)
       /\ file.config = CutList => main = "saveConfig"
       /\ file.config # CutList => RankedList(LoadTuners(file.config))
       /\ cubic = "made" => Devs(plugged) # {}
       /\ tuner.by = "piscan" => ~UserKnown

\* Steps that leave the tuners alone.
LEMMA TunersUntouched ==
  ASSUME TunersInv, UNCHANGED <<plugged, list, tuner, file>>, fault' = {} => fault = {},
         main' # "load" \/ main' = main, main = "saveConfig" => main' = main,
         cubic' = "made" => cubic = "made"
  PROVE  TunersInv'
  BY DEF TunersInv, UserKnown

\* autoSelectTuner keeps the list ranked and the user's tuners first.
LEMMA SelectTunerStep ==
  ASSUME TypeInv, TunersInv, SelectTuner
  PROVE  TunersInv'
<1> DEFINE devs == Devs(plugged)
           known == Known(list, devs)
<1>1. /\ main = "demod" /\ main' = "wait" /\ cubic = "made" /\ cubic' = "tuned"
      /\ tuner' = AutoSelectTuner(list, devs).tuner /\ list' = AutoSelectTuner(list, devs).list
      /\ UNCHANGED <<file, plugged, fault>>
  BY DEF SelectTuner, At, Goto
<1>2. SUFFICES ASSUME fault = {}
               PROVE  RankedList(list') /\ (tuner'.by = "piscan" => ~UserKnown')
  BY <1>1 DEF TunersInv
<1>3. RankedList(list) /\ devs # {} /\ plugged \in Plugged
  BY <1>1, <1>2 DEF TunersInv
<1>4. known \subseteq ListedTuners
  BY <1>3 DEF Known, RankedList
<1>5. CASE known # {}
  <2>1. tuner' = FirstByRank(known) /\ list' = list
    BY <1>1, <1>5 DEF AutoSelectTuner
  <2>2. tuner' \in known /\ \A u \in known : tuner'.rank <= u.rank
    BY <1>4, <1>5, <2>1, FirstKnown
  <2>3. tuner'.by = "piscan" => \A u \in known : u.by # "user"
    <3> SUFFICES ASSUME tuner'.by = "piscan", NEW u \in known, u.by = "user" PROVE FALSE
      OBVIOUS
    <3>1. u.rank < tuner'.rank
      BY <1>3, <2>2 DEF RankedList, Known
    <3>2. u.rank \in Nat /\ tuner'.rank \in Nat
      BY <1>4, <2>2 DEF ListedTuners
    <3>3. QED
      BY <2>2, <3>1, <3>2
  <2>4. UserKnown' = \E t \in known : t.by = "user"
    BY <1>1, <2>1 DEF UserKnown
  <2>5. QED
    BY <1>3, <2>1, <2>3, <2>4
<1>6. CASE known = {}
  <2> DEFINE t == NewTuner(list, devs)
  <2>1. tuner' = t /\ list' = InsertTuner(list, t)
    BY <1>1, <1>6 DEF AutoSelectTuner
  <2>2. RankedList(list')
    BY <1>3, <2>1, NewTunerRanked
  <2>3. list' \subseteq list \cup {t} /\ t.by = "piscan"
    BY <2>1 DEF InsertTuner, NewTuner
  <2>4. ~UserKnown'
    BY <1>1, <1>6, <2>3 DEF UserKnown, Known
  <2>5. QED
    BY <2>2, <2>4
<1>7. QED
  BY <1>5, <1>6

\* A start reads what the one before has written.
LEMMA TunersInvStep ==
  ASSUME TypeInv, EndInv, CubicInv, TunersInv, [Next]_vars
  PROVE  TunersInv'
<1> USE DEF At, Alive, Goto, Die, End, threadVars, demodVars, gainVars, syncVars, countVars
<1>1. CASE SelectTuner
  BY <1>1, SelectTunerStep
<1>2. CASE LoadFiles
  <2>1. /\ main = "load" /\ main' = "scanner"
        /\ list' = IF file.config = CutList THEN list ELSE LoadTuners(file.config)
        /\ UNCHANGED <<file, plugged, tuner, cubic, fault>>
    BY <1>2 DEF LoadFiles
  <2>2. tuner.by = "nobody"
    BY <2>1 DEF TunersInv, NoTuner
  <2>3. QED
    BY <2>1, <2>2 DEF TunersInv, CubicInv
<1>3. CASE OnInit
  <2>1. fault' = {} => fault = {} /\ Devs(plugged) # {}
    BY <1>3 DEF OnInit
  <2>2. main' = main /\ UNCHANGED <<file, plugged, list, tuner>>
    BY <1>3 DEF OnInit
  <2>3. QED
    BY <2>1, <2>2 DEF TunersInv, UserKnown
<1>4. CASE WriteConfig
  <2>1. main = "saveConfig" /\ UNCHANGED <<plugged, list, tuner, cubic, fault>>
    BY <1>4 DEF WriteConfig
  <2>2. CASE file.config = CutList
    <3>1. file'.config = SaveTuners(list) /\ main' = "exit"
      BY <1>4, <2>2 DEF WriteConfig, TypeInv
    <3>2. RankedList(list) => LoadTuners(file'.config) = list
      BY <3>1, LoadSaved
    <3>3. RankedList(list) => file'.config # CutList
      <4> SUFFICES ASSUME RankedList(list), SaveTuners(list) = CutList PROVE FALSE
        BY <3>1
      <4>1. NoTuner \in Range(CutList)
        BY DEF CutList, Range
      <4>2. NoTuner \in ListedTuners
        BY <4>1, SavedInOrder DEF RankedList
      <4>3. QED
        BY <4>2 DEF NoTuner, ListedTuners
    <3>4. QED
      BY <2>1, <3>1, <3>2, <3>3 DEF TunersInv, UserKnown
  <2>3. CASE file.config # CutList
    <3>1. main' = "saveConfig"
      BY <1>4, <2>1, <2>3 DEF WriteConfig
    <3>2. file'.config = CutList
      BY <1>4, <2>3 DEF WriteConfig, TypeInv
    <3>3. QED
      BY <2>1, <3>1, <3>2 DEF TunersInv, UserKnown
  <2>4. QED
    BY <2>2, <2>3
<1>5. CASE WriteState
  <2>1. /\ main = "saveState" /\ main' \in {"saveState", "saveConfig"} /\ file'.config = file.config
        /\ UNCHANGED <<plugged, list, tuner, cubic, fault>>
    BY <1>5 DEF WriteState, TypeInv
  <2>2. QED
    BY <2>1 DEF TunersInv, UserKnown
<1>6. CASE SaveSystems \/ SystemsSaved
  <2>1. file'.config = file.config /\ UNCHANGED <<main, plugged, list, tuner, cubic, fault>>
    BY <1>6 DEF SaveSystems, SystemsSaved, TypeInv
  <2>2. QED
    BY <2>1 DEF TunersInv, UserKnown
<1>7. CASE Boot
  <2>1. /\ main' = "load" /\ list' = {} /\ tuner' = NoTuner /\ cubic' = "none"
        /\ plugged' \in Plugged /\ ~Alive /\ UNCHANGED <<file, fault>>
    BY <1>7 DEF Boot, Fresh
  <2>2. fault = {} => main = "exit"
    BY <2>1 DEF TypeInv, EndInv
  <2>3. RankedList({})
    BY FS_EmptySet DEF RankedList
  <2>4. tuner'.by = "nobody"
    BY <2>1 DEF NoTuner
  <2>5. QED
    BY <2>1, <2>2, <2>3, <2>4 DEF TunersInv
<1>8. CASE StopDemod
  <2>1. UNCHANGED <<file, plugged, list, tuner>> /\ cubic' \in {cubic, "gone"}
        /\ main = "stopDemod" /\ main' \in {main, "waitDeinit"} /\ fault \subseteq fault'
    BY <1>8 DEF StopDemod, OnExitDies
  <2>2. QED
    BY <2>1, TunersUntouched
<1>9. CASE StopServers
  <2>1. UNCHANGED <<file, main, plugged, list, tuner, cubic>> /\ fault \subseteq fault'
    BY <1>9 DEF StopServers, StopThrows
  <2>2. QED
    BY <2>1, TunersUntouched
<1>10. CASE LoadSystems
  <2>1. UNCHANGED <<file, main, plugged, list, tuner, cubic>> /\ fault \subseteq fault'
    BY <1>10 DEF LoadSystems
  <2>2. QED
    BY <2>1, TunersUntouched
<1>11. CASE StartManager \/ StartScanner
  <2>1. UNCHANGED <<file, plugged, list, tuner, cubic>> /\ fault \subseteq fault'
        /\ main' \in {"manager", "demod"} /\ main \in {"manager", "scanner"}
    BY <1>11 DEF StartManager, StartScanner, MakeRtsp
  <2>2. QED
    BY <2>1, TunersUntouched
<1>12. CASE AllReady \/ Run \/ LeaveLoop
  <2>1. UNCHANGED <<file, plugged, list, tuner, cubic, fault>>
        /\ main' \in {"ready", "run", "stop"} /\ main \in {"wait", "ready", "run"}
    BY <1>12 DEF AllReady, Run, LeaveLoop
  <2>2. QED
    BY <2>1, TunersUntouched
<1>13. CASE StopScanner \/ StopManager
  <2>1. UNCHANGED <<file, plugged, list, tuner, cubic>> /\ fault \subseteq fault'
        /\ main' \in {"stopManager", "stopDemod"} /\ main \in {"stop", "stopManager"}
    BY <1>13 DEF StopScanner, StopManager
  <2>2. QED
    BY <2>1, TunersUntouched
<1>14. CASE WaitDeinit \/ Throws
  <2>1. UNCHANGED <<file, plugged, list, tuner, cubic>> /\ fault \subseteq fault'
        /\ main' \in {"saveState", "stop"} /\ main # "saveConfig"
    BY <1>14 DEF WaitDeinit, Throws
  <2>2. QED
    BY <2>1, TunersUntouched
<1>15. CASE Exit \/ ChangeSettings \/ Signal \/ PowerOff
  <2>1. UNCHANGED <<file, main, plugged, list, tuner, cubic>> /\ fault \subseteq fault'
    BY <1>15 DEF Exit, ChangeSettings, Signal, PowerOff
  <2>2. QED
    BY <2>1, TunersUntouched
<1>16. CASE UNCHANGED vars
  BY <1>16, TunersUntouched DEF vars
<1>17. QED
  BY <1>1, <1>2, <1>3, <1>4, <1>5, <1>6, <1>7, <1>8, <1>9, <1>10, <1>11, <1>12,
     <1>13, <1>14, <1>15, <1>16
  DEF Next, Main, Startup, Shutdown, Engine

\* The first start reads a list a user has written, or none.
LEMMA TunersInvInit ==
  ASSUME UsersCount, Init
  PROVE  TunersInv
<1>1. /\ file.config \in {<<>>} \cup UserLists /\ plugged \in Plugged /\ main = "load"
      /\ list = {} /\ tuner = NoTuner /\ cubic = "none"
  BY DEF Init
<1>2. RankedList({})
  BY FS_EmptySet DEF RankedList
<1>3. tuner.by = "nobody"
  BY <1>1 DEF NoTuner
<1>4. QED
  BY <1>1, <1>2, <1>3, UserListRanked DEF TunersInv

-----------------------------------------------------------------------------
\* What the files, main and the threads have of the settings and the
\* database agrees at every step, over any number of starts.
THEOREM LifecycleInvariant == Spec => []LifecycleInv
  BY InitInv, NextInv, PTL DEF Spec

\* The settings a start uses are those the user chose last, whatever the
\* order in which the threads stop (State::saveToFile, Demodulator::start).
THEOREM SettingsCarriedOver == Spec => []SettingsCarryOver
<1>1. LifecycleInv => SettingsCarryOver
  BY DEF LifecycleInv, SettingsInv, GainInv, SettingsCarryOver, Kept, At
<1>2. QED
  BY <1>1, LifecycleInvariant, PTL

\* A database that is there at the first start is whole after every end that
\* is not a fault, and only a start that failed leaves an empty one (main,
\* ScannerSM::ST_SaveAll).
THEOREM DatabaseKept == Spec => DatabaseIsKept
<1>1. Init /\ file.systems = "all" => DatabaseInv
  BY DEF Init, DatabaseInv
<1>2. LifecycleInv /\ DatabaseInv /\ [Next]_vars => DatabaseInv'
  BY DatabaseInvStep DEF LifecycleInv
<1>3. LifecycleInv /\ DatabaseInv
        => (~Alive => /\ file.systems = "cut" => fault # {}
                      /\ file.systems = "none" => "start" \in fault)
  BY DEF LifecycleInv, TypeInv, EndInv, EngineInv, DatabaseInv, Alive, Saving
<1>4. Spec /\ file.systems = "all" => []DatabaseInv
  BY <1>1, <1>2, LifecycleInvariant, PTL DEF Spec
<1>5. QED
  BY <1>3, <1>4, LifecycleInvariant, PTL DEF DatabaseIsKept

\* A tuner that the program added is used only when none of the user's is
\* plugged in and can be opened, on every later start too, when the ranks in
\* the user's list count from zero or one (TunerManager::autoSelectTuner).
THEOREM UserTunersComeFirst == UsersCount => (Spec => []UserTunersFirst)
<1> SUFFICES ASSUME UsersCount PROVE Spec => []UserTunersFirst
  OBVIOUS
<1>1. Init => TunersInv
  BY TunersInvInit
<1>2. LifecycleInv /\ TunersInv /\ [Next]_vars => TunersInv'
  BY TunersInvStep DEF LifecycleInv
<1>3. TunersInv => UserTunersFirst
  <2> SUFFICES ASSUME TunersInv, fault = {}, tuner.by = "piscan",
                      NEW t \in list, t.by = "user",
                      NEW d \in plugged, d.name = t.name, d.available
               PROVE  FALSE
    BY DEF UserTunersFirst
  <2>1. t.name \in Names
    BY DEF TunersInv, RankedList, ListedTuners
  <2>2. d \in Devs(plugged)
    BY <2>1 DEF Devs
  <2>3. UserKnown
    BY <2>2 DEF UserKnown, Known
  <2>4. QED
    BY <2>3 DEF TunersInv
<1>4. QED
  BY <1>1, <1>2, <1>3, LifecycleInvariant, PTL DEF Spec

=============================================================================
