------------------------------ MODULE ScannerSM ------------------------------
(***************************************************************************)
(* The scanner's state machine (ScannerSM.cpp) and the threads that drive  *)
(* it: main (startScanner, stopScanner, the final save), the I/O thread    *)
(* that runs every socket request, and the debug console's input thread.   *)
(*                                                                         *)
(* A caller does not hold _eventMutex while it evaluates its transition    *)
(* map: TRANSITIONS[currentState] is read first (CallerLookup), the event  *)
(* is posted later (CallerPost), and holdScan stores _externalHold and     *)
(* _holdIndex before either (RequestHold, StoreHoldIndex).  The state      *)
(* functions that share these cells with the callers are split at the      *)
(* accesses; the others are one step.                                      *)
(*                                                                         *)
(* Data: a database channel is an id in Channels, a manually entered       *)
(* frequency an id in Freqs.  The scan order of SystemList is abstracted   *)
(* to "any unlocked channel, or a retune dummy".  hasSignal() is any       *)
(* Boolean except for a dummy.                                             *)
(***************************************************************************)
EXTENDS StateMachine, FiniteSets

CONSTANTS
  Channels,          \* ids a database may hold
  Freqs,             \* ids of frequencies for manual entry
  DefaultFreq,       \* 100 MHz, the frequency of line 139
  AmIds,             \* ids that AMChannel demodulates, the others are FM
  DelayIds,          \* channels with a resume delay
  NoId,              \* an empty index vector
  BadId,             \* an index vector that names no entry
  RawData,           \* EventData around a bare uint32_t (line 139)
  TriggerHits,       \* SQUELCH_TRIGGER_HITS, 25 in Entry.h
  InitialDatabases,  \* the scan databases a process may find
  InitialSaved,      \* the saved scanner states it may find
  UseDebugConsole,   \* the -d option: a console thread makes requests too
  MaxRequests,       \* bound: client requests in the life of a process
  MaxBoots           \* bound: how often the process is started

ASSUME ScannerAssumption ==
  /\ NoId \notin Channels \cup Freqs
  /\ BadId \notin Channels \cup Freqs
  /\ NoId # BadId
  /\ Channels \cap Freqs = {}
  /\ DefaultFreq \in Freqs
  /\ AmIds \subseteq Channels \cup Freqs
  /\ DelayIds \subseteq Channels
  /\ TriggerHits \in Nat \ {0}
  /\ UseDebugConsole \in BOOLEAN
  /\ MaxRequests \in Nat /\ MaxBoots \in Nat
  /\ NoData \notin Channels \cup Freqs
  /\ RawData \notin Channels \cup Freqs
  /\ NoData # RawData

VARIABLES
  externalHold,      \* _externalHold
  manualMode,        \* _manualMode
  holdIndex,         \* _holdIndex
  currentEntry,      \* _currentEntry
  squelchHits,       \* _squelchHits
  delayRunning,      \* now - timeoutStart is still below the entry's delay
  holdNext,          \* ST_Hold: the state it decided to post
  ctxState,          \* _currentContext.state
  published,         \* the context last handed to the server
  modem,             \* Demodulator::_currentModem
  tuned,             \* DemodulatorMgr::currentModem: it is tuned and muted
  openModems,        \* the modems that are not muted
  db,                \* the loaded systems: channels and which are locked out
  ready, deinit,     \* Synchronizable's _ready and _stopped
  saved,             \* ScannerState in memory
  file,              \* ScannerState in the state file
  phase,             \* where main() is
  call,              \* one request in progress per calling thread
  requests,          \* client requests since the process started
  boots              \* how often the process was started again

holdVars == <<externalHold, holdIndex>>
entryVars == <<currentEntry, manualMode, squelchHits>>
timeVars == <<delayRunning, holdNext>>
ctxVars == <<ctxState, published>>
demodVars == <<modem, tuned, openModems>>
scanVars == <<holdVars, entryVars, timeVars, ctxVars, demodVars>>
lifeVars == <<ready, deinit, saved, phase, requests>>
sysVars == <<db, file, boots, lifeVars>>
vars == <<smVars, scanVars, sysVars, call>>

-----------------------------------------------------------------------------
States == {"LOAD", "SCAN", "HOLD", "RECEIVE", "MANUAL", "SAVEALL", "STOPPED"}
Ops == {"startScan", "holdScan", "stopScanner", "manualEntry"}
Callers == {"main", "io"} \cup (IF UseDebugConsole THEN {"console"} ELSE {})
Clients == Callers \ {"main"}

Chan(c) == [kind |-> "channel", id |-> c]
Manual(f) == [kind |-> "manual", id |-> f]
Dummy == [kind |-> "dummy", id |-> NoId]
NoEntry == [kind |-> "null", id |-> NoId]
Entries == {Chan(c) : c \in Channels} \cup {Manual(f) : f \in Freqs \cup Channels}
             \cup {Dummy, NoEntry}

\* The index of an entry, and whether it resolves in the loaded database.
Indexes == Channels \cup {NoId, BadId}
LockedOut(entry) == entry.kind = "channel" /\ entry.id \in db.locked

HasDelay(entry) == entry.kind = "channel" /\ entry.id \in DelayIds

\* The modem an entry's hasSignal() selects (a dummy selects none).
ModemOf(entry) == IF entry.kind = "dummy" THEN modem
                  ELSE IF entry.id \in AmIds THEN "AM" ELSE "NFM"

\* What hasSignal() may answer: a dummy only retunes and answers false.
HasSignalMutant(entry) == BOOLEAN
HasSignal(entry) == IF entry.kind = "dummy" THEN {FALSE} ELSE BOOLEAN

\* What SystemList::getNextEntry may return; it never returns when every
\* entry is locked out.
NextEntriesMutant == {Chan(c) : c \in db.channels} \cup {Dummy}
NextEntries == {Chan(c) : c \in db.channels \ db.locked} \cup {Dummy}
NextEntryHangs == db.channels \subseteq db.locked

Ignored == "IGNORED"

\* The states in which each event is not ignored: the transition maps of
\* startScan, holdScan, stopScanner and manualEntry.
AcceptsScanMutant == States \ {"SCAN", "STOPPED"}
AcceptsScan == States \ {"SCAN", "SAVEALL", "STOPPED"}
AcceptsHold == {"LOAD", "SCAN"}
AcceptsStop == States \ {"STOPPED"}
AcceptsManual == States \ {"SAVEALL", "STOPPED"}
TRANSITIONS ==
  [startScan |-> [s \in States |-> IF s \in AcceptsScan THEN "SCAN" ELSE Ignored],
   holdScan |-> [s \in States |-> IF s \in AcceptsHold THEN "HOLD" ELSE Ignored],
   stopScanner |-> [s \in States |-> IF s \in AcceptsStop THEN "SAVEALL" ELSE Ignored],
   manualEntry |-> [s \in States |-> IF s \in AcceptsManual THEN "MANUAL" ELSE Ignored]]

-----------------------------------------------------------------------------
Idle == [pc |-> "idle", op |-> "startScan", arg |-> NoId, target |-> Ignored]
NoContext == [state |-> "OTHER", manual |-> FALSE, id |-> NoId]
Scanning == [mode |-> "SCAN", id |-> NoId]

SavedStates == {Scanning} \cup [mode : {"HOLD"}, id : Channels \cup {BadId}]
                 \cup [mode : {"MANUAL"}, id : Freqs \cup Channels]
Databases == {d \in [channels : SUBSET Channels, locked : SUBSET Channels] :
                d.locked \subseteq d.channels}

ASSUME InitialAssumption ==
  InitialDatabases \subseteq Databases /\ InitialSaved \subseteq SavedStates

\* The state a process starts in: the constructors, then scannerInst.start().
Booted ==
  /\ Started("LOAD", NoData)
  /\ externalHold = FALSE /\ manualMode = FALSE
  /\ holdIndex = NoId /\ currentEntry = NoEntry
  /\ squelchHits = 0 /\ delayRunning = FALSE /\ holdNext = Ignored
  /\ ctxState = "OTHER" /\ published = NoContext
  /\ modem = "NFM" /\ tuned = "NFM" /\ openModems = {}
  /\ ready = FALSE /\ deinit = FALSE
  /\ phase = "boot" /\ requests = 0
  /\ call = [c \in Callers |-> Idle]

Init ==
  /\ Booted
  /\ db \in InitialDatabases
  /\ file \in InitialSaved
  /\ saved = file
  /\ boots = 0

-----------------------------------------------------------------------------
(* The callers.                                                            *)

\* The console thread exists once main allowed connections, the I/O thread
\* once startScanner has returned; after the final save the process is gone.
MayRequest(c) ==
  /\ call[c].pc = "idle"
  /\ requests < MaxRequests
  /\ engine # "crashed"
  /\ CASE c = "io" -> phase \in {"running", "stopping"}
       [] c = "console" -> phase \in {"starting", "running", "stopping"}
       [] OTHER -> FALSE

\* startScan and manualEntry: nothing is stored before the transition map.
BeginCall(c, op, arg) ==
  call' = [call EXCEPT ![c] = [pc |-> "lookup", op |-> op, arg |-> arg,
                               target |-> Ignored]]

\* holdScan, line 73: _externalHold.store(true).
BeginHold(c, index) ==
  /\ externalHold' = TRUE
  /\ call' = [call EXCEPT ![c] = [pc |-> "index", op |-> "holdScan",
                                  arg |-> index, target |-> Ignored]]

RequestScan(c) ==
  /\ MayRequest(c)
  /\ BeginCall(c, "startScan", NoId)
  /\ requests' = requests + 1
  /\ UNCHANGED <<smVars, scanVars, db, ready, deinit, saved, file, phase,
                 boots>>

RequestManual(c) ==
  /\ MayRequest(c)
  /\ \E f \in Freqs : BeginCall(c, "manualEntry", f)
  /\ requests' = requests + 1
  /\ UNCHANGED <<smVars, scanVars, db, ready, deinit, saved, file, phase,
                 boots>>

RequestHold(c) ==
  /\ MayRequest(c)
  /\ \E index \in Indexes : BeginHold(c, index)
  /\ requests' = requests + 1
  /\ UNCHANGED <<smVars, entryVars, timeVars, ctxVars, demodVars, holdIndex,
                 db, ready, deinit, saved, file, phase, boots>>

\* holdScan, lines 74-77: _holdIndex is stored under _holdMutex.
StoreHoldIndex(c) ==
  /\ call[c].pc = "index"
  /\ engine # "crashed"
  /\ holdIndex' = call[c].arg
  /\ call' = [call EXCEPT ![c].pc = "lookup"]
  /\ UNCHANGED <<smVars, entryVars, timeVars, ctxVars, demodVars, sysVars,
                 externalHold>>

\* END_TRANSITION_MAP: TRANSITIONS[currentState] is read without the mutex; an
\* ignored event ends the call.
CallerLookup(c) ==
  /\ call[c].pc = "lookup"
  /\ engine # "crashed"
  /\ LET target == TRANSITIONS[call[c].op][currentState]
     IN  call' = [call EXCEPT ![c] =
                    IF target = Ignored THEN Idle
                    ELSE [@ EXCEPT !.pc = "post", !.target = target]]
  /\ UNCHANGED <<smVars, scanVars, sysVars>>

\* ExternalEvent with the target that was looked up, however old it is.
CallerPost(c) ==
  /\ call[c].pc = "post"
  /\ ExternalEvent(call[c].target,
                   IF call[c].op = "manualEntry" THEN call[c].arg ELSE NoData)
  /\ call' = [call EXCEPT ![c] = Idle]
  /\ UNCHANGED <<scanVars, sysVars>>

-----------------------------------------------------------------------------
(* main().                                                                 *)

\* waitReady, then startScanner: the saved mode is requested again.  A saved
\* hold on an index the database does not hold falls back to scanning, after
\* getEntryByIndex has asked for the next entry: with no system loaded that
\* runs off the empty bin list, with all of them locked out it never returns.
MainStart ==
  /\ phase = "boot" /\ ready
  /\ engine # "crashed"
  /\ \/ /\ saved.mode = "HOLD" /\ saved.id \in db.channels
        /\ BeginHold("main", saved.id)
        /\ UNCHANGED <<smVars>>
     \/ /\ saved.mode = "HOLD" /\ saved.id \notin db.channels
        /\ ~NextEntryHangs
        /\ BeginCall("main", "startScan", NoId)
        /\ UNCHANGED <<smVars, externalHold>>
     \/ /\ saved.mode = "HOLD" /\ db.channels = {}
        /\ engine' = "crashed"
        /\ UNCHANGED <<currentState, lastState, evtSrcExternal,
                       eventGenerated, pEventData, run, externalHold, call>>
     \/ /\ saved.mode = "HOLD" /\ saved.id \notin db.channels
        /\ db.channels # {} /\ NextEntryHangs
        /\ UNCHANGED <<smVars, externalHold, call>>
     \/ /\ saved.mode = "MANUAL"
        /\ BeginCall("main", "manualEntry", saved.id)
        /\ UNCHANGED <<smVars, externalHold>>
     \/ /\ saved.mode = "SCAN"
        /\ BeginCall("main", "startScan", NoId)
        /\ UNCHANGED <<smVars, externalHold>>
  /\ phase' = IF saved.mode = "HOLD" /\ saved.id \notin db.channels
                  /\ db.channels # {} /\ NextEntryHangs
               THEN "hung" ELSE "starting"
  /\ UNCHANGED <<entryVars, timeVars, ctxVars, demodVars, holdIndex, db,
                 ready, deinit, saved, file, requests, boots>>

\* startScanner returned: sysRun = true and the I/O thread is started.
MainRunning ==
  /\ phase = "starting" /\ call["main"].pc = "idle"
  /\ engine # "crashed"
  /\ phase' = "running"
  /\ UNCHANGED <<smVars, scanVars, call, db, ready, deinit, saved, file,
                 requests, boots>>

\* SIGINT or SIGTERM ended main's loop: stopScanner.
MainStop ==
  /\ phase = "running"
  /\ engine # "crashed"
  /\ BeginCall("main", "stopScanner", NoId)
  /\ phase' = "stopping"
  /\ UNCHANGED <<smVars, scanVars, db, ready, deinit, saved, file, requests,
                 boots>>

\* waitDeinit returned: the state is written to its file.
MainSave ==
  /\ phase = "stopping" /\ call["main"].pc = "idle" /\ deinit
  /\ engine # "crashed"
  /\ file' = saved
  /\ phase' = "off"
  /\ UNCHANGED <<smVars, scanVars, call, db, ready, deinit, saved, requests,
                 boots>>

\* The process ended, cleanly, by a fault, or killed while it ran (a second
\* signal calls hardTerminate): it is started again and reads the state file.
Reboot ==
  /\ boots < MaxBoots
  /\ boots' = boots + 1
  /\ StartEngine("LOAD", NoData)
  /\ externalHold' = FALSE /\ manualMode' = FALSE
  /\ holdIndex' = NoId /\ currentEntry' = NoEntry
  /\ squelchHits' = 0 /\ delayRunning' = FALSE /\ holdNext' = Ignored
  /\ ctxState' = "OTHER" /\ published' = NoContext
  /\ modem' = "NFM" /\ tuned' = "NFM" /\ openModems' = {}
  /\ ready' = FALSE /\ deinit' = FALSE
  /\ phase' = "boot" /\ requests' = 0
  /\ call' = [c \in Callers |-> Idle]
  /\ saved' = file
  /\ UNCHANGED <<db, file>>

-----------------------------------------------------------------------------
(* The state functions.                                                    *)

\* Demodulator::setModem: on a change the manager's current modem becomes the
\* one selected before or the one selected now, whichever it last took as its
\* context (Modems).
SelectModem(entry) ==
  /\ modem' = ModemOf(entry)
  /\ tuned' \in IF ModemOf(entry) = modem THEN {tuned} ELSE {"NFM", "AM"}

\* _enableAudioOut -> Demodulator::squelchBreak acts on the manager's modem.
SquelchBreakMutant(open) ==
  openModems' = IF open THEN openModems \cup {tuned} ELSE openModems
SquelchBreak(open) ==
  openModems' = IF open THEN openModems \cup {tuned} ELSE openModems \ {tuned}

\* _broadcastContextUpdate: outside SCAN the fields describe the entry.
Context(state, entry, manual) ==
  IF state = "SCAN" THEN [state |-> "SCAN", manual |-> FALSE, id |-> NoId]
  ELSE [state |-> state, manual |-> manual, id |-> entry.id]

\* A state function broadcasts when the state it runs in has just changed.
BroadcastsMutant(last, current) == last = "SCAN"
Broadcasts(last, current) == current # last

\* ST_Load: the database is loaded; no event is posted, the engine parks.
ST_Load ==
  /\ EventTaken("LOAD")
  /\ ready' = TRUE /\ deinit' = FALSE
  /\ ReturnParked
  /\ UNCHANGED <<scanVars, db, file, boots, saved, phase, requests, call>>

\* ST_Scan with an empty database (lines 137-141): manual entry is requested,
\* with a bare integer where ST_Manual expects a ManualEntryData.
ST_ScanEmpty ==
  /\ EventTaken("SCAN")
  /\ db.channels = {}
  /\ squelchHits' = IF currentState # lastState THEN 0 ELSE squelchHits
  /\ ReturnPosting(currentState, "MANUAL", RawData)
  /\ UNCHANGED <<holdVars, timeVars, ctxVars, demodVars, sysVars, manualMode,
                 currentEntry, call>>

\* _squelchHits is only compared with 0 and with TriggerHits: counts above the
\* trigger are indistinguishable, which bounds it.
CountedHits(n) == IF n > TriggerHits THEN TriggerHits ELSE n

\* Lines 145-146.
ScanEndsHoldMutant == externalHold' = FALSE /\ UNCHANGED manualMode
ScanEndsHold == manualMode' = FALSE /\ externalHold' = FALSE

\* ST_Scan up to getNextEntry (lines 132-155).
ST_ScanBegin ==
  /\ EventTaken("SCAN")
  /\ db.channels # {}
  /\ squelchHits' = IF currentState # lastState THEN 0 ELSE squelchHits
  /\ SquelchBreak(FALSE)
  /\ ctxState' = "SCAN"
  /\ ScanEndsHold
  /\ published' = IF Broadcasts(lastState, currentState)
                  THEN Context("SCAN", currentEntry, FALSE) ELSE published
  /\ IF squelchHits' # 0
     THEN UNCHANGED currentEntry /\ EnterStateFunction("scan")
     ELSE IF NextEntryHangs
     THEN UNCHANGED currentEntry /\ EnterStateFunction("hung")
     ELSE currentEntry' \in NextEntries /\ EnterStateFunction("scan")
  /\ UNCHANGED <<timeVars, sysVars, holdIndex, modem, tuned, call>>

\* The rest of ST_Scan (lines 157-168): the squelch decides what comes next.
ST_ScanEnd ==
  /\ engine = "scan"
  /\ SelectModem(currentEntry)
  /\ \E signal \in HasSignal(currentEntry) :
       /\ squelchHits' = IF signal THEN CountedHits(squelchHits + 1) ELSE 0
       /\ ReturnPosting(currentState,
                        IF squelchHits' >= TriggerHits THEN "RECEIVE" ELSE "SCAN",
                        NoData)
  /\ UNCHANGED <<holdVars, timeVars, ctxVars, sysVars, manualMode,
                 currentEntry, openModems, call>>

\* ST_Hold consumes a stored index only when _externalHold is set (line 181).
IndexHold == externalHold /\ holdIndex # NoId

\* ST_Hold must ask for the next entry: the stored index is not valid, or the
\* current entry is a retune dummy (lines 182 and 190-193).
HoldAsksNext == IF IndexHold THEN holdIndex \notin db.channels
                ELSE currentEntry = Dummy

\* ST_Hold up to its broadcast (lines 177-198).
ST_HoldBegin ==
  /\ EventTaken("HOLD")
  /\ IF HoldAsksNext
     THEN currentEntry' \in NextEntries \ {Dummy}
     ELSE currentEntry' = IF IndexHold THEN Chan(holdIndex) ELSE currentEntry
  /\ currentEntry' # NoEntry
  /\ holdIndex' = IF IndexHold THEN NoId ELSE holdIndex
  /\ SquelchBreak(FALSE)
  /\ ctxState' = "HOLD"
  /\ published' = IF Broadcasts(lastState, currentState) \/ IndexHold
                  THEN Context("HOLD", currentEntry', manualMode) ELSE published
  /\ EnterStateFunction("hold")
  /\ UNCHANGED <<timeVars, sysVars, externalHold, manualMode, squelchHits,
                 modem, tuned, call>>

\* ST_Hold does not get that far: it dereferences a null _currentEntry, indexes
\* an empty bin list, or getNextEntry never returns.
ST_HoldLost ==
  /\ EventTaken("HOLD")
  /\ \/ /\ HoldAsksNext /\ NextEntryHangs
        /\ EnterStateFunction(IF db.channels = {} THEN "crashed" ELSE "hung")
     \/ /\ ~HoldAsksNext /\ ~IndexHold /\ currentEntry = NoEntry
        /\ EnterStateFunction("crashed")
  /\ UNCHANGED <<scanVars, sysVars, call>>

\* Lines 223-232: an internal hold that is over resumes the scan, an externally
\* posted one posts no event.
ResumeScanMutant == Ignored
ResumeScan == IF evtSrcExternal THEN Ignored ELSE "SCAN"

\* The decision of ST_Hold (lines 203-232).  _externalHold is loaded here; no
\* event at all is posted when an externally posted hold finds it cleared.
ST_HoldDecide ==
  /\ engine = "hold"
  /\ SelectModem(currentEntry)
  /\ \E signal \in HasSignal(currentEntry) :
       holdNext' = CASE signal -> "RECEIVE"
                     [] ~signal /\ externalHold -> "HOLD"
                     [] ~signal /\ ~externalHold /\ LockedOut(currentEntry) -> "SCAN"
                     [] OTHER -> IF HasDelay(currentEntry) /\ delayRunning
                                 THEN "HOLD"
                                 ELSE ResumeScan
  /\ StayInStateFunction("holdPost")
  /\ UNCHANGED <<holdVars, entryVars, ctxVars, sysVars, delayRunning,
                 openModems, call>>

\* ST_Hold posts what it decided, or nothing.
ST_HoldEnd ==
  /\ engine = "holdPost"
  /\ IF holdNext = Ignored THEN ReturnParked
     ELSE ReturnPosting(currentState, holdNext, NoData)
  /\ holdNext' = Ignored
  /\ UNCHANGED <<holdVars, entryVars, ctxVars, demodVars, sysVars,
                 delayRunning, call>>

\* ST_Receive up to its broadcast (lines 240-252).  For a locked out entry the
\* event posted at line 246 is visible to callers, and the function goes on.
ST_ReceiveBegin ==
  /\ EventTaken("RECEIVE")
  /\ IF LockedOut(currentEntry)
     THEN /\ InternalEvent(currentState, "SCAN", NoData)
          /\ engine' = "receive"
          /\ UNCHANGED <<evtSrcExternal, run>>
     ELSE EnterStateFunction("receive")
  /\ SquelchBreak(TRUE)
  /\ ctxState' = "RECEIVE"
  /\ published' = IF Broadcasts(lastState', currentState')
                  THEN Context("RECEIVE", currentEntry, manualMode)
                  ELSE published
  /\ UNCHANGED <<holdVars, entryVars, timeVars, sysVars, modem, tuned, call>>

\* The rest of ST_Receive (lines 254-262).
ST_ReceiveEnd ==
  /\ engine = "receive"
  /\ SelectModem(currentEntry)
  /\ \E signal \in HasSignal(currentEntry) :
       /\ ReturnPosting(currentState, IF signal THEN "RECEIVE" ELSE "HOLD", NoData)
       /\ delayRunning' = IF signal THEN delayRunning ELSE TRUE
  /\ UNCHANGED <<holdVars, entryVars, ctxVars, sysVars, holdNext, openModems,
                 call>>

\* ST_Manual with a ManualEntryData: a new entry is made and held.  With the
\* bare integer of ST_ScanEmpty the frequency it reads is indeterminate.
ST_ManualMutant ==
  /\ EventTaken("MANUAL")
  /\ \E f \in Freqs \cup Channels :
       /\ pEventData # RawData => f = pEventData
       /\ pEventData = RawData => f \in Freqs
       /\ currentEntry' = Manual(f)
  /\ UNCHANGED externalHold
  /\ manualMode' = TRUE
  /\ ReturnPosting(currentState, "HOLD", NoData)
  /\ UNCHANGED <<timeVars, ctxVars, demodVars, sysVars, holdIndex,
                 squelchHits, call>>
ST_Manual ==
  /\ EventTaken("MANUAL")
  /\ \E f \in Freqs \cup Channels :
       /\ pEventData # RawData => f = pEventData
       /\ pEventData = RawData => f \in Freqs
       /\ currentEntry' = Manual(f)
  /\ externalHold' = TRUE
  /\ manualMode' = TRUE
  /\ ReturnPosting(currentState, "HOLD", NoData)
  /\ UNCHANGED <<timeVars, ctxVars, demodVars, sysVars, holdIndex,
                 squelchHits, call>>

\* ST_Manual reads the string of a ManualEntryData out of a bare integer, or
\* dereferences a null EventData.
ST_ManualFault ==
  /\ EventTaken("MANUAL")
  /\ pEventData \in {RawData, NoData}
  /\ EnterStateFunction("crashed")
  /\ UNCHANGED <<scanVars, sysVars, call>>

\* The mode ST_SaveAll records.  A dummy or a manual entry has no index that
\* resolves to its key.
SavedMode ==
  IF manualMode THEN [mode |-> "MANUAL", id |-> currentEntry.id]
  ELSE IF externalHold
  THEN [mode |-> "HOLD",
        id |-> IF currentEntry.kind = "channel" THEN currentEntry.id ELSE BadId]
  ELSE Scanning

ST_SaveAllMutant ==
  /\ EventTaken("SAVEALL")
  /\ ~(externalHold /\ currentEntry = NoEntry)
  /\ saved' = SavedMode
  /\ ReturnParked
  /\ UNCHANGED <<scanVars, db, file, boots, ready, deinit, phase, requests, call>>
ST_SaveAll ==
  /\ EventTaken("SAVEALL")
  /\ ~(externalHold /\ currentEntry = NoEntry)
  /\ saved' = SavedMode
  /\ ReturnPosting(currentState, "STOPPED", NoData)
  /\ UNCHANGED <<scanVars, db, ready, deinit, file, phase, requests, boots,
                 call>>

\* A hold was requested before any entry was selected: lines 314-316 use null.
ST_SaveAllFault ==
  /\ EventTaken("SAVEALL")
  /\ externalHold /\ currentEntry = NoEntry
  /\ EnterStateFunction("crashed")
  /\ UNCHANGED <<scanVars, sysVars, call>>

ST_Stopped ==
  /\ EventTaken("STOPPED")
  /\ ready' = FALSE /\ deinit' = TRUE
  /\ ReturnStopped
  /\ UNCHANGED <<scanVars, db, file, boots, saved, phase, requests, call>>

\* The clock: the resume delay of the entry has passed since timeoutStart.
DelayExpires ==
  /\ delayRunning
  /\ delayRunning' = FALSE
  /\ UNCHANGED <<smVars, holdVars, entryVars, ctxVars, demodVars, sysVars,
                 holdNext, call>>
-----------------------------------------------------------------------------
EngineStep ==
  \/ ST_Load \/ ST_ScanEmpty \/ ST_ScanBegin \/ ST_ScanEnd
  \/ ST_HoldBegin \/ ST_HoldLost \/ ST_HoldDecide \/ ST_HoldEnd
  \/ ST_ReceiveBegin \/ ST_ReceiveEnd
  \/ ST_Manual \/ ST_ManualFault
  \/ ST_SaveAll \/ ST_SaveAllFault \/ ST_Stopped

CallerStep(c) == StoreHoldIndex(c) \/ CallerLookup(c) \/ CallerPost(c)

MainStep == MainStart \/ MainRunning \/ MainSave

Request(c) == RequestScan(c) \/ RequestManual(c) \/ RequestHold(c)

Next ==
  \/ EngineStep
  \/ DelayExpires
  \/ MainStep \/ MainStop \/ Reboot
  \/ \E c \in Callers : CallerStep(c)
  \/ \E c \in Clients : Request(c)

\* The operating system schedules the engine's thread, main and the callers.
\* Nothing more is promised to a caller that waits for _eventMutex: the engine
\* unlocks and retakes it at once, and std::mutex serves nobody in order.
Fairness ==
  /\ WF_vars(EngineStep) /\ WF_vars(DelayExpires) /\ WF_vars(MainStep)
  /\ \A c \in {"main", "io", "console"} \cap Callers : WF_vars(CallerStep(c))

Spec == Init /\ [][Next]_vars
FairSpec == Spec /\ Fairness

=============================================================================
