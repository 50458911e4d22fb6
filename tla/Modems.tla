-------------------------------- MODULE Modems --------------------------------
(***************************************************************************)
(* Which modem hears which frequency: the two modems of Demodulator.cpp,   *)
(* the manager's current and context modem (DemodulatorMgr.cpp), and the   *)
(* post-processing thread (SDRPostThread.cpp), which activates a modem     *)
(* when it is in the band of the batches and deactivates it when it is     *)
(* not. Demodulator::start runs on main's thread, the rest on the          *)
(* scanner's; the post thread runs beside both.                            *)
(*                                                                         *)
(* A modem is retuned through a flag and a value (DemodulatorPreThread),   *)
(* stored one after the other and taken, with the next batch, by the       *)
(* modem's pre-processor, which lowers the flag after it has taken the     *)
(* value. A retune can fall between these steps and be forgotten.          *)
(*                                                                         *)
(* The post thread looks at the modems again only when the frequency on    *)
(* the batches changes or a modem it feeds leaves the band: nothing in     *)
(* PiScan calls notifyDemodulatorsChanged, and no modem follows or tracks. *)
(***************************************************************************)
EXTENDS Integers, Sequences

CONSTANTS
  Channels,     \* what the scanner visits: [mode, freq] records
  Centers,      \* the centres of its bins (DummyEntry)
  InitFreq,     \* INIT_FREQUENCY
  FirstCenter,  \* CubicSDR's frequency at start, AppConfig's centre
  HalfRate,     \* half the sample rate: the band to either side
  QueueMax,     \* bound: batches on their way
  MaxVisits     \* bound: entries visited

Distance(a, b) == IF a < b THEN b - a ELSE a - b

\* AppConfig's centre and INIT_FREQUENCY are both 100 MHz, and nothing in
\* PiScan changes either: the modems begin in the tuner's band.
ASSUME ModemsAssumption ==
  /\ InitFreq \in Nat /\ FirstCenter \in Nat /\ Centers \subseteq Nat
  /\ HalfRate \in Nat \ {0} /\ QueueMax \in Nat \ {0} /\ MaxVisits \in Nat
  /\ Channels \subseteq [mode : {"NFM", "AM"}, freq : Nat]
  /\ Distance(FirstCenter, InitFreq) <= HalfRate

VARIABLES
  demods,               \* the manager's list, in order of creation
  active, muted,        \* of each modem
  started,              \* modems whose threads run
  frequencyChanged,     \* DemodulatorPreThread: a new frequency is there,
  newFrequency,         \* this one,
  currentFrequency,     \* and the one that was taken last
  telling,              \* setFrequency stored the flag and not yet the value
  applying,             \* pre-processors that took a value, their flag still up
  inbox,                \* modems whose input queue has a batch
  current, context,     \* DemodulatorMgr: currentModem, activeContextModem
  modem,                \* Demodulator::_currentModem
  center,               \* CubicSDR::frequency, the label of the next batch
  queue,                \* labels of the batches on their way
  post,                 \* where the post thread is
  todo,                 \* modems it has still to look at
  band,                 \* its frequency, None before the first batch
  runDemods,            \* the modems it feeds
  user,                 \* where main or the scanner is
  entry,                \* what it visits
  visits,
  lapses                \* orders of events that may leave a modem unfed

modems == <<demods, active, muted, started>>
preThread == <<frequencyChanged, newFrequency, currentFrequency, telling, applying>>
manager == <<current, context, modem>>
poster == <<queue, post, todo, band, runDemods, inbox>>
scanner == <<user, entry, visits>>
vars == <<modems, preThread, manager, center, poster, scanner, lapses>>

Names == {"NFM", "AM"}
None == "none"
Other(d) == IF d = "NFM" THEN "AM" ELSE "NFM"

\* DemodulatorPreThread::getFrequency
GetFrequency(d) == IF frequencyChanged[d] THEN newFrequency[d] ELSE currentFrequency[d]

\* The flag is down over a frequency that was not taken.
Forgotten(d) == GetFrequency(d) # newFrequency[d]

\* A modem that was deactivated stays out.
InBandMutant(d) == band # -1 /\ Distance(band, GetFrequency(d)) <= HalfRate /\ active[d]
InBand(d) == band # -1 /\ Distance(band, GetFrequency(d)) <= HalfRate
NoEntry == [mode |-> "NFM", freq |-> 0]

Init ==
  /\ demods = <<>>
  /\ active = [d \in Names |-> FALSE]
  /\ muted = [d \in Names |-> TRUE]
  /\ started = {}
  /\ frequencyChanged = [d \in Names |-> FALSE]
  /\ newFrequency = [d \in Names |-> 0] /\ currentFrequency = [d \in Names |-> 0]
  /\ telling = FALSE /\ applying = {} /\ inbox = {}
  /\ current = None /\ context = None /\ modem = "NFM"
  /\ center = FirstCenter /\ queue = <<>>
  /\ post = "pop" /\ todo = <<>> /\ band = -1 /\ runDemods = {}
  /\ user = "newNFM" /\ entry = NoEntry /\ visits = 0
  /\ lapses = {}

-----------------------------------------------------------------------------
(* The manager.                                                            *)

\* updateLastState, as far as it changes a modem: one that is not active is
\* not current.
LastState(d) == IF d # None /\ active[d] THEN d ELSE None

\* setActiveDemodulator(d, false): current becomes what context was.
SetActiveDemodulator(d) ==
  /\ current' = LastState(IF context # None THEN context ELSE d)
  /\ context' = d

\* getActiveContextModem
ActiveContext == IF context # None /\ ~active[context] THEN current ELSE context

Goes(from, to) == user = from /\ user' = to

-----------------------------------------------------------------------------
(* DemodulatorInstance::setFrequency and the pre-processor.                *)

\* Whose setFrequency is called.
Target == CASE user = "tuneNFM" -> "NFM" [] user = "tuneAM" -> "AM" [] OTHER -> current

\* The flag first; without a current modem the pointer is null.
RaiseFlag ==
  /\ user \in {"tuneNFM", "tuneAM", "tunerSet", "tune", "again"} /\ ~telling
  /\ IF Target = None
     THEN user' = "crashed" /\ UNCHANGED <<frequencyChanged, telling>>
     ELSE /\ telling' = TRUE /\ frequencyChanged' = [frequencyChanged EXCEPT ![Target] = TRUE]
          /\ UNCHANGED user
  /\ UNCHANGED <<modems, newFrequency, currentFrequency, applying, manager, center, poster, entry,
                 visits, lapses>>

\* The value after it: forgotten if the flag was lowered in between.
StoreFrequency(d, f) ==
  /\ telling /\ telling' = FALSE
  /\ newFrequency' = [newFrequency EXCEPT ![d] = f]
  /\ lapses' = IF ~frequencyChanged[d] /\ currentFrequency[d] # f
               THEN lapses \cup {"forgotten"} ELSE lapses
  /\ UNCHANGED <<frequencyChanged, currentFrequency, applying>>

\* The pre-processor pops a batch, and takes the new frequency if the flag is up.
PreTakes(d) ==
  /\ d \in started \cap inbox /\ d \notin applying
  /\ inbox' \in {inbox, inbox \ {d}}
  /\ IF frequencyChanged[d]
     THEN /\ currentFrequency' = [currentFrequency EXCEPT ![d] = newFrequency[d]]
          /\ applying' = applying \cup {d}
     ELSE UNCHANGED <<currentFrequency, applying>>
  /\ UNCHANGED <<modems, frequencyChanged, newFrequency, telling, manager, center, queue, post, todo,
                 band, runDemods, scanner, lapses>>

\* It lowers the flag, and with it one that was raised meanwhile.
PreClears(d) ==
  /\ d \in applying /\ applying' = applying \ {d}
  /\ frequencyChanged' = [frequencyChanged EXCEPT ![d] = FALSE]
  /\ lapses' = IF newFrequency[d] # currentFrequency[d] THEN lapses \cup {"forgotten"} ELSE lapses
  /\ UNCHANGED <<modems, newFrequency, currentFrequency, telling, manager, center, poster, scanner>>

-----------------------------------------------------------------------------
(* Demodulator::start, on main's thread.                                   *)

NewThread ==
  /\ \E d \in Names :
       /\ Goes(IF d = "NFM" THEN "newNFM" ELSE "newAM", IF d = "NFM" THEN "runNFM" ELSE "tuneAM")
       /\ demods' = Append(demods, d)
  /\ UNCHANGED <<active, muted, started, preThread, manager, center, poster, entry, visits, lapses>>

\* DemodulatorInstance::run: a modem that is active already is left as it is.
Run ==
  /\ \E d \in Names :
       /\ Goes(IF d = "NFM" THEN "runNFM" ELSE "runAM", IF d = "NFM" THEN "tuneNFM" ELSE "select")
       /\ started' = IF active[d] THEN started ELSE started \cup {d}
       /\ active' = [active EXCEPT ![d] = TRUE]
  /\ UNCHANGED <<demods, muted, preThread, manager, center, poster, entry, visits, lapses>>

TuneInit ==
  /\ \E d \in Names :
       /\ Goes(IF d = "NFM" THEN "tuneNFM" ELSE "tuneAM", IF d = "NFM" THEN "newAM" ELSE "runAM")
       /\ StoreFrequency(d, InitFreq)
  /\ UNCHANGED <<modems, manager, center, poster, entry, visits>>

\* Selected for a moment only: current stays null.
SelectFirst ==
  /\ Goes("select", "idle")
  /\ SetActiveDemodulator("NFM")
  /\ UNCHANGED <<modems, preThread, modem, center, poster, entry, visits, lapses>>

-----------------------------------------------------------------------------
(* The scanner visits an entry (Entry.cpp).                                *)

\* A retune that goes back before the post thread saw where it had been.
Retuned(c) ==
  /\ center' = c
  /\ lapses' = IF band # center /\ c = band THEN lapses \cup {"skipped"} ELSE lapses

\* DummyEntry: setTunerFrequency, the tuner first ...
SetTunerFrequency ==
  /\ Goes("idle", "tunerSet") /\ visits < MaxVisits /\ visits' = visits + 1
  /\ \E c \in Centers :
       /\ Retuned(c)
       /\ entry' = [NoEntry EXCEPT !.freq = c]
  /\ UNCHANGED <<modems, preThread, manager, poster>>

\* ... and the current modem after it, once.
TuneToCenter ==
  /\ Goes("tunerSet", "idle") /\ StoreFrequency(current, entry.freq)
  /\ UNCHANGED <<modems, manager, center, poster, entry, visits>>

\* FMChannel and AMChannel: hasSignal begins with setModem.
HasSignal ==
  /\ user = "idle" /\ visits < MaxVisits /\ visits' = visits + 1
  /\ \E e \in Channels :
       /\ entry' = e
       /\ user' = IF modem = e.mode THEN "tune" ELSE "activate"
  /\ UNCHANGED <<modems, preThread, manager, center, poster, lapses>>

SetModemActivates ==
  /\ Goes("activate", "change")
  /\ active' = [active EXCEPT ![entry.mode] = TRUE]
  /\ lapses' = lapses \cup {"switched"}
  /\ UNCHANGED <<demods, muted, started, preThread, manager, center, poster, entry, visits>>

SetModemChanges ==
  /\ Goes("change", "deactivate")
  /\ SetActiveDemodulator(entry.mode)
  /\ UNCHANGED <<modems, preThread, modem, center, poster, entry, visits, lapses>>

SetModemDeactivates ==
  /\ Goes("deactivate", "tune")
  /\ active' = [active EXCEPT ![modem] = FALSE]
  /\ modem' = entry.mode
  /\ UNCHANGED <<demods, muted, started, preThread, current, context, center, poster, entry, visits,
                 lapses>>

\* Demodulator::setFrequency: the modem, ...
SetFrequency ==
  /\ Goes("tune", "retune") /\ StoreFrequency(current, entry.freq)
  /\ UNCHANGED <<modems, manager, center, poster, entry, visits>>

\* ... the tuner when the modem is out of its band, ...
RetuneTuner ==
  /\ Goes("retune", "again")
  /\ IF Distance(center, entry.freq) >= HalfRate
     THEN Retuned(entry.freq)
     ELSE UNCHANGED <<center, lapses>>
  /\ UNCHANGED <<modems, preThread, manager, poster, entry, visits>>

\* ... and the modem once more.
SetFrequencyAgain ==
  /\ Goes("again", "measure") /\ StoreFrequency(current, entry.freq)
  /\ UNCHANGED <<modems, manager, center, poster, entry, visits>>

\* squelchThresholdMet reads the level of the context modem.
Measure ==
  /\ user = "measure"
  /\ context' = ActiveContext
  /\ user' \in IF ActiveContext = None THEN {"crashed"} ELSE {"idle", "signal"}
  /\ UNCHANGED <<modems, preThread, current, modem, center, poster, entry, visits, lapses>>

\* squelchBreak(true), and false when the signal has gone.
SquelchBreak ==
  /\ Goes("signal", "receive")
  /\ muted' = [muted EXCEPT ![current] = FALSE]
  /\ UNCHANGED <<demods, active, started, preThread, manager, center, poster, entry, visits, lapses>>

SquelchCloseMutant ==
  /\ Goes("receive", "idle")
  /\ muted' = [muted EXCEPT ![modem] = TRUE]
  /\ UNCHANGED <<demods, active, started, preThread, manager, center, poster, entry, visits, lapses>>
SquelchClose ==
  /\ Goes("receive", "idle")
  /\ muted' = [muted EXCEPT ![current] = TRUE]
  /\ UNCHANGED <<demods, active, started, preThread, manager, center, poster, entry, visits, lapses>>

-----------------------------------------------------------------------------
(* The tuner and the post thread.                                          *)

\* SDRThread labels a batch with the frequency asked for.
Produce ==
  /\ Len(queue) < QueueMax /\ queue' = Append(queue, center)
  /\ UNCHANGED <<modems, preThread, manager, center, post, todo, band, runDemods, inbox, scanner,
                 lapses>>

\* Main is still making the modems.
Starting == user \in {"newNFM", "runNFM", "tuneNFM", "newAM", "tuneAM", "runAM", "select"}

\* runPFBCH: the first batch and a new label mean a new list.
NewBand(label) == label # band

\* A retune that is still forgotten then, or later, is so for the new list too.
Seen == {"skipped", "order"} \cup (IF \E d \in Names : Forgotten(d) THEN {} ELSE {"forgotten"})

Pop ==
  /\ post = "pop" /\ queue # <<>> /\ queue' = Tail(queue) /\ post' = "update"
  /\ IF NewBand(Head(queue))
     THEN /\ band' = Head(queue) /\ todo' = demods /\ runDemods' = {}
          /\ lapses' = (lapses \ Seen) \cup (IF Starting THEN {"early"} ELSE {})
     ELSE UNCHANGED <<band, todo, runDemods, lapses>>
  /\ UNCHANGED <<modems, preThread, manager, center, inbox, scanner>>

\* updateActiveDemodulators, for one modem. It is an accident of order when
\* that falls into main's start or between the halves of setTunerFrequency.
UpdateDemodulator ==
  LET d == Head(todo)
  IN /\ post \in {"update", "recheck"} /\ todo # <<>>
     /\ todo' = Tail(todo)
     /\ active' = [active EXCEPT ![d] = InBand(d)]
     /\ context' = IF InBand(d) /\ ~active[d] /\ current = None THEN d ELSE context
     /\ runDemods' = IF InBand(d) THEN runDemods \cup {d} ELSE runDemods
     /\ lapses' = lapses \cup (IF Starting THEN {"early"} ELSE {})
                         \cup (IF user = "tunerSet" THEN {"order"} ELSE {})
     /\ UNCHANGED <<demods, muted, started, preThread, current, modem, center, queue, post, band,
                    inbox, scanner>>

\* The batch is pushed to the modems of the list.
Deliver ==
  /\ post = "update" /\ todo = <<>> /\ post' = "check"
  /\ inbox' = inbox \cup runDemods
  /\ UNCHANGED <<modems, preThread, manager, center, queue, todo, band, runDemods, scanner, lapses>>

\* A modem of the list that has left the band: a new list ...
Check ==
  /\ post = "check"
  /\ IF \A d \in runDemods : InBand(d)
     THEN post' = "pop" /\ UNCHANGED <<todo, runDemods>>
     ELSE post' = "recheck" /\ todo' = demods /\ runDemods' = {}
  /\ UNCHANGED <<modems, preThread, manager, center, queue, band, inbox, scanner, lapses>>

\* ... and the next batch.
Rechecked ==
  /\ post = "recheck" /\ todo = <<>> /\ post' = "pop"
  /\ UNCHANGED <<modems, preThread, manager, center, queue, todo, band, runDemods, inbox, scanner,
                 lapses>>

-----------------------------------------------------------------------------
Next ==
  \/ NewThread \/ Run \/ TuneInit \/ SelectFirst
  \/ SetTunerFrequency \/ TuneToCenter
  \/ HasSignal \/ SetModemActivates \/ SetModemChanges \/ SetModemDeactivates
  \/ SetFrequency \/ RetuneTuner \/ SetFrequencyAgain \/ Measure \/ SquelchBreak \/ SquelchClose
  \/ RaiseFlag \/ \E d \in Names : PreTakes(d) \/ PreClears(d)
  \/ Produce \/ Pop \/ UpdateDemodulator \/ Deliver \/ Check \/ Rechecked

Spec == Init /\ [][Next]_vars
=============================================================================
