# A TLA+ verification of PiScan

PiScan turns a small computer and a software defined radio into a scanner: a
server process that walks a database of channels, opens the audio of the first
one with a signal, and reports to clients over TCP. This directory holds TLA+
models of its control logic, TLC configurations that check them on small
instances, and TLAPS proofs that hold for every instance. Paths below are
relative to the server's sources (`src/` of the repository) unless they begin
with another directory of the repository, such as `client/`.

## 1. Inventory

### Threads

| thread | started by | what it does |
|---|---|---|
| main | the process | starts the parts of the server, waits until they are ready, `startScanner`, sleeps until a signal, stops them, waits, saves state and configuration |
| state machine | `StateMachine::start` | runs one state function per event, holding `_eventMutex` |
| queue thread | `ServerManager::start` | handles the messages and connection requests of its two queues |
| I/O | main, after `startScanner` | accepts clients, runs every socket request |
| console | the debug server, with `-d` | reads commands from standard input |
| level timer | `Demodulator::start` | during reception, sends the signal level at an interval |
| tuner | `CubicSDR::setDevice` | applies settings to the device, reads its samples |
| post | `CubicSDR::OnInit` | labels batches, activates the modems in their band and feeds them |
| pre-processor, worker, demodulator | `DemodulatorInstance::run`, for each of two modems | shift and resample, build filters, demodulate |
| audio, and RtAudio's callback | each modem; the first opens the device | bind themselves to the device's controller; the callback mixes |
| the client's GUI and its monitor | `client/py` | show contexts and send requests; receive |

### Components

| component | state | operations | interacts with |
|---|---|---|---|
| `util/StateMachine` | current and last state, one pending event with its data, `_eventMutex` | `ExternalEvent`, `InternalEvent`, the engine loop, `start`, `stop` | base class of the scanner |
| `ScannerSM` | hold flag and index, manual mode, current entry, squelch hits, context | `startScan`, `holdScan`, `manualEntry`, `stopScanner`, `startScanner`, seven state functions | asks the database for entries, the entries for a signal, opens and closes the audio, publishes its context |
| `scan/SystemList`, `RadioSystem`, `Entry` | systems, channels, bins by bandwidth, a cursor | `populateFromFile`, `sortBins`, `getNextEntry`, `getEntryByIndex`, `writeToFile` | called on the scanner's thread, and by main in `startScanner` |
| `ServerManager` | message and connection queues, table of connections, three flags, `_msgMutex` | `giveMessage`, `requestConnection`, `giveRequest`, `allowConnections`, `stop`, the queue thread | takes messages from the scanner, timer, demodulator and console; writes to connections |
| `server/connection/*` | handle, socket, one write buffer | requests, `connect`, `disconnect`, context updates | call the scanner and demodulator directly, the manager through `giveRequest` |
| `util/IntervalTimer` | three atomics, two mutexes with a condition variable each | `create`, `start`, `stop`, destructor | started and stopped by the demodulator on the scanner's thread, stopped by main |
| `sigproc/Demodulator` | current modem, mute, squelch, gain, tuner | `setModem`, `setFrequency`, `squelchBreak`, `start`, `stop` | between entries and the CubicSDR port |
| `sigproc/TunerManager`, the tuner list | the user's tuners by rank, the devices found | enumeration, `autoSelectTuner`, load and save | `Demodulator::start`, `config.json` |
| `cubic/sdr/SoapySDRThread`, `cubic/CubicSDR` | requested values, their flags, the device, a wait for a retune | setters, `updateSettings`, `readLoop`, `setDevice`, `stopDevice` | callers on the scanner's, I/O and main threads |
| `cubic/sdr/SDRPostThread`, `cubic/demod/DemodulatorMgr` | list of modems with frequency and activity, current and context modem | `runPFBCH`, `updateActiveDemodulators`, `setActiveDemodulator` | beside the scanner, by the labels of the batches |
| modem threads (`cubic/demod`) | four bounded queues, frequency flag, mixer, filters, modem kit | commands and results, `setFrequency`, `terminate` | fed by the post thread |
| `cubic/audio/AudioThread` | controllers, lists of bound threads, activity, three kinds of mutex | `setupDevice`, `setActive`, the callback, `deviceCleanup` | switched by post thread, scanner and main |
| `util/synchronize.h` | a ready and a stopped flag per part | `notifyReady`/`waitReady`, `notifyDeinit`/`waitDeinit` | main waits, without a timeout |
| state and configuration files | saved mode, squelch and gain; tuner list; database | load, save | main, `Demodulator::stop`, the scanner |
| Qt client (`client/py`) and protocol (`proto/`) | sliders, gain timer, page, socket | connect, request, handle contexts, disconnect | the server's socket connection |
| rest of `cubic/`, Sentinel converter, vendored libraries | | | see section 8 |

### What is hard, and what makes each part correct

*Event engine.* There is one slot for a pending event, and a new event replaces
the old one. `END_TRANSITION_MAP` reads `currentState` before the mutex is
taken, so the event a caller posts was chosen in a state that may be long gone.
Correct means that an event is never combined with the data of another, and that a
pending stop survives. That a caller gets the mutex, which the engine unlocks and
retakes at once, is nothing the code can promise.

*Scanner.* `holdScan` stores a flag, then an index, then looks up the map, then
posts; `ST_Scan` and `ST_Hold` read and clear the same cells in between.
`hasSignal` switches the demodulator's current modem, and muting acts on
whichever one is current. Correct means that audio comes from the entry the
clients were told of, that only real entries are received, and that a restart
restores the mode the last clean stop saved.

*Database.* Bins, cursor and retune flag live from call to call, past holds and
locked out channels. Correct means that bins are sorted and fit the tuner, that
a channel is only scanned after the retune of its own bin, that every channel
is reached, and that a saved index names the same channel after a restart.

*Connection manager.* Producers only `try_lock`: if that fails, they go away
without having woken the thread. The connection table is read and written by
three threads without a lock. Correct means that whoever is open is in the
table, that clients get contexts in order, and that a wake-up which does get
through leaves nothing behind.

*Client session.* Messages have no frames, replies are composed on another thread than
broadcasts, one buffer serves every write, and the client sends back what it is told;
and what it is told, its sliders cut to their ranges. Correct means that the sliders
come to agree with the server as far as these ranges go, that the scanner does nothing
the user did not ask for, and that a single value does not travel in circles.

*Interval timer.* `stop` writes two atomics without the mutex under which the
thread tests them, and `start` may erase the mark that another user's `stop`
left. Correct means at most one tick after a stop, no lost stop, and a
destructor that returns.

*Tuner.* A setting is a value and a flag, stored by one thread, used and then
lowered by another; a retune is waited for without a timeout; stopping races the
start of the thread. Correct means that what was asked for reaches the device,
that the wait ends, and that the stop is noticed.

*Post thread and modems.* Modems are activated by the label of a batch, late
and on another thread than the one that changes them. A modem is retuned by a flag and
a value, stored by one thread, taken and lowered by another, and the post thread looks
at it again only when the label changes or it leaves the band. Correct means that only
the modem that was tuned is opened, and that the tuned one is fed.

*Modem threads.* Commands and results pass each other in bounded queues while
frequency and sample rate change. Correct means that a batch is mixed for its own
rate, that a kit is disposed of when nobody holds it, that a settled level
belongs to the frequency asked for, and that termination ends.

*Audio.* Three kinds of mutex are taken in different orders, by the callback
too. Correct means that a thread that ended is not mixed, that an active one is,
and that switching returns.

*Life of the process.* Three parts are waited for, any may fail, a signal may
come at any time, and files are truncated before they are written. Correct means
that the database, and the settings as clients are told them, outlive every clean stop,
that the tuner is set as they are told, that a start settles, and that the user's own
tuner comes first.

The full list of hazards, each with its line and the properties aimed at it, is
in `PROJECT.json`.

## 2. Modules

| module | models | configuration |
|---|---|---|
| `StateMachine` | the event engine, as operators on its six variables | used by `ScannerSM` |
| `ScannerSM`, `ScannerProperties`, `MCScanner` | the state functions, their callers (main, I/O, console), the life of the process | `Scanner_requests`, `Scanner_restart`, `Scanner_hold` |
| `ScannerProofs` | TLAPS proofs about `ScannerSM` | |
| `ContextFeed` | abstract: what clients may see of the scanner's contexts | |
| `ServerManager`, `ServerProperties`, `MCServer` | the queue thread, producers, I/O thread, console, main; the refinement of `ContextFeed` | `Server_clients` |
| `ServerProofs` | TLAPS proofs about `ServerManager` | |
| `Client`, `ClientProperties`, `MCClient` | a client, the stream, the socket connection, the settings | `Client_session` |
| `SystemList`, `ListProperties`, `MCList` | loading, sorting, cursor, saving, restart | `List_scan` |
| `IntervalTimer` | the timer's thread, its two users, its properties | `Timer_races` |
| `PartsProofs` | TLAPS proofs about `IntervalTimer`, `SystemList` and `Client` | |
| `Tuner`, `TunerProperties`, `MCTuner` | the tuner's thread and its callers | `Tuner_device` |
| `TunerProofs` | TLAPS proofs about `Tuner` | |
| `Modems`, `ModemsProperties`, `MCModems` | modem manager and post thread against the scanner | `Modems_band` |
| `ModemsProofs` | TLAPS proofs about `Modems` | |
| `Pipeline`, `PipelineProperties`, `MCPipeline` | the threads and queues of one modem | `Pipeline_modem` |
| `PipelineProofs` | TLAPS proofs about `Pipeline` | |
| `Audio`, `AudioProperties`, `MCAudio` | audio threads, callback, controller | `Audio_mix` |
| `AudioProofs` | TLAPS proofs about `Audio` | |
| `TunerSelect` | enumeration, ranks, choice of a tuner | used by `Lifecycle` |
| `Lifecycle`, `LifecycleProperties`, `MCLifecycle` | the process from start to end, over several starts; composes `TunerSelect` | `Lifecycle_files` |
| `LifecycleProofs` | TLAPS proofs about `Lifecycle` | |

### StateMachine and ScannerSM

`currentState`, `lastState`, `evtSrcExternal`, `eventGenerated`, `pEventData`
and `run` are the members of the class. `engine` says where the engine's thread
is: `"wait"` when it does not hold the mutex, a label inside a state function
when it does, `"done"`, `"crashed"`, or `"hung"` for the endless loop of
`getNextEntry`. `MutexFree` is derived from it.

A state function is one action, unless it shares a cell with a caller; then it
is split at the accesses: `ST_ScanBegin`/`ST_ScanEnd`,
`ST_HoldBegin`/`ST_HoldDecide`/`ST_HoldEnd`, `ST_ReceiveBegin`/`ST_ReceiveEnd`.
Each part includes everything the code does there: muting, the context, the
broadcast, the event it posts. A request is `Request...`, then for a hold
`StoreHoldIndex`, then `CallerLookup` (the unlocked read of the state), then
`CallerPost` (which needs the mutex). One call per thread is in progress.

A channel is an id, a manual frequency is an id, an entry is a record of kind
and id. `hasSignal` is any Boolean for a real entry and false for a retune
dummy. The database is a set of channels with the locked out ones, and
`getNextEntry` returns any open channel or a dummy. Squelch hits are counted up
to the trigger, since nothing tells larger counts apart. What the code leaves
undefined (a bare integer read as a structure in `ST_Manual`, null entries) is
a nondeterministic value or a crash.

Main is `phase`: boot, starting, running, stopping, off. `Reboot` may happen at
any point; it keeps the database and the state file and nothing else.

### ServerManager and ContextFeed

`queuePc` is the place of the queue thread; it holds `_msgMutex` exactly while
that is in `Holding`, and `TryLock` is the negation. The lock-free message queue
keeps the order of each producer and no other, so it is one sequence per
producer. Giving a message is two steps (`Enqueue`, then `Wake`). A broadcast
visits one slot per step, and tests it and uses it in two, because other threads
clear slots in between; using a cleared one crashes. `_addConnection` connects
the client first (`QueueConnect`) and fills the slot later (`QueueAdd`).
Disconnects come from the I/O thread (`ClientLeaves`, `ClientCleared`) and from
main (`MainLoop`, `MainClose`, `MainCleared`). A connection that is used after
another thread may have freed it does anything the code could do next, or
crashes. Clients are numbered in the order in which they are accepted, which
replaces a symmetry that liveness checking would not allow.

`ContextFeed` says that every client is fed published contexts in increasing
order. The mapping is direct: `published` and `fed` are the manager's own.

### Client

The stream is two sequences of messages, `up` and `down`. A message carries the
numbers of `proto/*.proto`; a field that is zero is not written, and one read may
take several messages. Of their concatenation `Parse` reads of each field the last
value that was written, and of the `oneof` what was set since its last change of
member. `SocketConnection` serialises into `buffer` and starts a
write (`pending`) that sends what the buffer holds when it is done. A request for
a context is read first and its `reply` written later on the same thread, while
the manager's thread passes on broadcasts from `outbox`. The client's GUI
thread handles `events`, the signals of its monitor thread; what
`updateDemodContext` sets on a slider is sent back. `setValue` goes through `Fit`, which
cuts a value to the slider's range: `GainRange` is fixed, `range` begins as the layout
file has it and follows the system info, whose bounds `scale` are those of the server's
squelch mode. `lost` notes that the last change was swallowed by a merge or by the buffer,
`cut` that the last squelch shown lay beyond the range and left the slider where it was,
so that nobody is told.

### SystemList

Frequencies are naturals; `Parsed` keeps what reading them as `int` does
to large ones. A file is a list of `RawSystems`, whose systems and channels may be of
an unknown type. The loops of the code are recursive functions of the number of turns:
`EntriesOf` and `Populated` renumber what is left after refused
channels and unknown systems, `Binned` fills the bins from left to right. `MergeSort`
and `Merge` are the code's recursion, over pairs of indexes. One action is one turn of
the loop in `getNextEntry`. `WriteBegin` and `WriteToFile` separate the truncation of the file from its new contents, and
`Restart` may come between them. Indexes count from 1.

`ScannerSM` uses the abstraction "any open channel, or a dummy" of this cursor;
that the real cursor comes to every open channel is `EveryChannelIsScanned`.

### IntervalTimer

`timer` is the place of the thread, `user` that of the scanner and of main. Each
load and store of an atomic and each mutex is a step of its own; both condition
variables may wake without being notified. `late` counts the ticks begun since
the timer was stopped.

### Tuner

`req` and `flag` are the atomics of `SDRThread`, `hw` the device, `want` what
each caller asked for last. A caller stores the value and raises the flag in two
steps; the thread reads the flag, hands the value to the device, and lowers the
flag in a third (`freqClear`, `rateClear` and so on). `caller` is the scanner in
`setFrequency`, which waits; `client` a request that sets the gain; `main` starts
the device while the new thread already initialises it, and stops it. Three history
variables name the orders in which the code loses something: `raced` (a store
between use and lowering), `missed` (a failed `try_lock` when the retune is
told), `erased` (a stop before `threadMain` begins). The properties hold outside
them, so these are the only ones. `FirstFreq` is the frequency that is set when the
program starts; every request, and every change of the rate, passes through
`Clamp`, which keeps the band above zero (`SetSampleRateFlag` clamps the frequency
that is in use, and that one counts as asked for).

### Modems

`queue` holds the labels of batches under way, `band` is the post thread's own
frequency, `runDemods` the modems it feeds. `Pop`, `UpdateDemodulator` (one modem per
step), `Deliver`, `Check` and `Rechecked` are its loop. A retune is `RaiseFlag` and then
the value (`StoreFrequency`, in `TuneInit`, `TuneToCenter`, `SetFrequency` and
`SetFrequencyAgain`); the modem's pre-processor takes the value with a batch
(`PreTakes`) and lowers the flag afterwards (`PreClears`), so that a retune in between
is forgotten, and `GetFrequency` is what the post thread reads meanwhile. `HasSignal`,
`SetModem...`, `SetFrequency`, `RetuneTuner`, `Measure` and `SquelchBreak` are the steps
of the scanner through `Entry` and `Demodulator`; `NewThread` to `SelectFirst` are main
in `Demodulator::start`. `lapses` notes the accidents of order after which a modem may
stay unfed: `early` (batches during the start), `skipped` (a retune undone before the
post thread saw it), `order` (a batch between the two halves of `setTunerFrequency`),
`forgotten` (above), and `switched`, for an AM entry. `skipped`, `order` and `forgotten`
are over when the post thread makes its next list, the last unless some modem is still
on another frequency than it was told; `early` and `switched` stay. `ModemsAssumption`
has the tuner start within half of its rate of the modems' initial frequency, as the
constants in `cubic/AppConfig.cpp:315` and `sigproc/Demodulator.cpp:15` do.

### Pipeline

`iqInput`, `commands`, `results` and `iqDemod` are the four bounded queues of one modem;
`pre`, `worker` and `demod` the members of its three threads with their places.
A kit is a number that is used again once nobody holds it. A full queue blocks the
pusher or drops the item, as the code has it at each place. `SetFrequency` is
the two calls that `Demodulator::setFrequency` makes. `Feed` is the post thread with its
list (`post`): it looks at the modem when the label of the batch changes, feeds it while it
is on the list, and drops it when it has left the band. `missed` notes that it left the
modem out before that was on its target. The pre-processor remembers an
offset of one less than a frequency as "none" (`Forgotten`), and a batch whose
offset happens to be that is left out of `MixedForItsRate`, as is one without an
offset.

### Audio

A mutex taken and released with no other lock request in between is a guard;
`lock` keeps those held while another is awaited. `phase` is the place of each
modem's thread from creation through `setupDevice`, `Bind` and `SetInputQueue` to its
end. `SetActive` is a call by the post thread or the scanner: `LockThread`,
`FindController`, `SwitchThread`, `Return`. `Mix` is the callback at one bound
thread. Main terminates the modems and cleans up the device.

### TunerSelect and Lifecycle

`TunerSelect` has no variables: it defines what `SDREnumerator` finds, the set of
tuners that compares ranks only, and `autoSelectTuner`. `LoadTuners` says what is left of
a list in the file, the first tuner of each rank, and `SaveTuners` lists what is left by
rank. `Lifecycle` extends it
with the process: `main` is the place in `main()`, `engine` the scanner's thread,
`queue` the manager's, `file` the three files, each of which may be cut.
`ready` and `stopped` are the flags of the rendezvous. Failures are exceptions
on the way (`Throws`), a port that is taken, `exit` and `abort` where the code
calls them or dereferences null, signals, and a power cut at any step; `fault`
notes what has gone wrong in this start or an earlier one. `Boot` starts the program
again with other devices plugged in.

Gains are in tenths of a decibel. `StateRead` goes through `AsInt`: the file has a float,
which is read with an `int` default, so that a gain with a fraction becomes `AUTO_GAIN`.
(Squelches are whole numbers; clients and console send no others.) `demod` is
what clients are told, `tunerGain` what the tuner's thread was told: `OnInit` sets the first
only, `SelectTuner` the second, to the device's own control, and `SetTunerGain` both, where
what is read back may not be what was set. `gap` says why the two differ.

The scanner, the manager and the tuner appear in it by their contract with main:
between load and save the scanner does what `ScannerSM` says, and so on.

## 3. Runs

| run | instance | checks | distinct states |
|---|---|---|---|
| `scanner_requests` | databases: empty, all locked, mixed; every saved mode; I/O and console, 2 requests | `OnlyCurrentModemOpen`, `ReceivesRealEntry`, `HeardIsShown`, `LockedIsShown`, `DataBelongsToManual`, `StoppingSticks` | 1,906,000 |
| `scanner_restart` | 1 channel, every saved mode, 1 request, 1 restart | `RestoresSavedMode`, `StopCompletes`, `InternalHoldEnds` | 51,000 |
| `hold_is_lost` | 1 channel, 1 request | violates `HoldPauses` | |
| `server_clients` | 2 clients and the console, 2 slots, 2 messages, at most 1 of them no scanner context | `OpenIsRegistered`, `FeedsInOrder`, `WokenFlushes`, `RequestsAreTaken` | 496,000 |
| `client_session` | both squelch scales; a squelch saved beyond one of them, one chosen beyond the other; the automatic gain and one on the slider; 1 change, 1 button, 1 session, reads of at most 2 messages | `SlidersAgree`, `ScanRequestsAreAsked`, `OneValueDiesDown` | 1,026,000 |
| `list_scan` | every file of at most 2 systems, 2 + 1 channels of 6 sorts, 2 bandwidths, 2 starts | `BinsFitTuner`, `SavedIndexIsStable`, `RetunedForBin`, `EveryChannelIsScanned` | 117,000 |
| `timer_races` | 4 starts or stops, main's stop, the destructor | `OneLateTick`, `StopRests`, `DestroyReturns` | 6,400 |
| `tuner_device` | 1 retune, 1 change of gain, 2 saved device configurations | `SettingsReachDevice`, `WaitEnds`, `StopReturns` | 555,000 |
| `modems_band` | 3 channels, 2 centres, 1 batch under way, 2 visits | `OpenModemIsTuned`, `TunedModemIsFed` | 2,299,000 |
| `pipeline_modem` | queues of 1, 1 retune, 1 change of rate | `MixedForItsRate`, `NoDeadKit`, `LevelIsOfTarget`, `TerminateEnds` | 750,000 |
| `audio_mix` | 2 modems, queues of 1, 2 calls of `setActive` | `EndedIsUnbound`, `ActiveIsBound`, `SetActiveReturns` | 113,000 |
| `lifecycle_files` | 2 dongles, ranks up to 2, 1 squelch, 2 gains, one with a fraction, 2 starts, 1 change of the settings | `SettingsCarryOver`, `UserTunersFirst`, `DatabaseIsKept`, `StartSettles` | 1,179,000 |

To run one: `tlc -workers 2 -config Scanner_requests.cfg MCScanner`. What each run
shows is said in `PROJECT.json`, what each property says above its definition.

Bounds, and why they are enough.

- *Requests.* The races of the scanner are between one or two callers that hold
  a stale lookup and the engine with main; two requests over three calling
  threads put two stale targets in flight at once. The invariants of the scanner
  are proved for any number of requests; an earlier one, that a locked out channel
  is never scanned, held with two and failed with three (section 6).
- *Channels.* The code tells a channel apart by modem, lockout and delay; two
  channels cover both values of each. Two trigger hits (25 in the code)
  separate "none", "some" and "enough".
- *Restarts.* A restart forgets everything but the files, so one is enough to
  see what any number would do. The same holds of the two starts of
  `lifecycle_files`: the second reads what the first left.
- *Clients.* Two clients and the console over two slots make the table
  overflow, and make a slot change its owner while it is being visited. Two
  contexts can be out of order; one other message is enough to be in between.
  The bound on published messages is for TLC only; `ServerProofs` needs none.
- *Session.* Zero and another value of each setting tell a field that is not
  written from one that is. The saved squelch fits one scale only, the chosen one the
  other, and the automatic gain no slider: each is cut once, before or after the
  system info. One change against a saved setting makes the two values that can follow each
  other round; that the sliders agree is proved for any number.
- *Files.* Two bins, equal frequencies, a channel exactly one bandwidth away, a
  locked first bin, a locked first system, a refused channel before an accepted
  one, and an empty system all occur with two systems and three channels.
- *Timer.* Four calls allow stop-start-stop-start around one tick.
- *Tuner.* The saved rates lie below and above the one that main sets, so that
  the clamp does and does not lift the first frequency. The scanner's first retune
  overlaps the start of the thread as well as its loop.
- *Band.* Channels at the edge and in the middle of a band, of both modems. The batch that
  is queued and the one the post thread has may carry the labels before and after a retune;
  two visits follow each other between the pre-processor's taking of a frequency and its
  lowering of the flag. Every lapse is reached within these bounds, and the invariants are
  proved for any.
- *Queues.* A queue of one is full after one push: the blocking pushes and the drops (at
  100, 2 and 100 in the code) happen at once. The one frequency to retune to is in reach
  of the tuner's first centre at one of the rates and out of it at the other. A second
  change of the rate would take more than five minutes with the liveness properties; the
  invariants are proved for any number of calls and any length of the queues.
- *Settings.* A gain that is read back from the file and one that is not, and the device's
  own in place of either; the first start changes what the second inherits.
- *Audio.* Two modems: one is mixed while the other is bound, switched or ended.

Deadlock is not checked: the process ends in every model, clients need not come
back, and a thread that waits forever is what the liveness properties look for.

## 4. Fairness

- Scanner: weak fairness of the engine's thread, of main, of the end of a resume
  delay, and of each caller's steps. Clients need not send anything, and a signal
  may or may not come. A caller that waits for `_eventMutex` may wait forever: the
  engine unlocks and retakes it at once, `std::mutex` promises no order, and no
  property assumes otherwise.
- Connection manager: weak fairness of the queue thread and of main. Nobody has
  to publish, to finish a call, to connect, to leave or to stop.
- Client: weak fairness of the GUI, of the monitor, of the I/O thread and of the
  manager's thread. Nobody has to touch a control.
- Database: the loop in `getNextEntry` goes on, and the scanner asks for a next
  entry while it is ready; this is the scanning state, and the property is about
  it only.
- Timer: weak fairness of the thread, strong fairness for its mutexes and those
  of its users, and strong fairness of the end of the interval: the code
  subtracts the elapsed time, so early wake-ups do not postpone it.
- Tuner: weak fairness of its thread, of the two callers and of main. Reads of
  the device return, as SoapySDR's time out. Nobody has to retune or to stop.
- Modem threads: weak fairness of each of the three, of the caller, and of `Feed`, which
  says only that batches come to the post thread as long as the tuner runs. Whether the
  modem gets them is decided by the post thread's list; a modem that is left out of it is
  an exception of the property (`missed`), no assumption.
- Audio: strong fairness of the steps that take a mutex, since the callback has
  it for a part of its period only; weak fairness of the callback once begun.
- Process: weak fairness of main, of the scanner's thread and of the manager's.
- Modems and post thread: only safety is checked.

## 5. Proofs

Eight modules hold the proofs. Each proves an invariant that is inductive, one lemma
per part of it with a step per action, and from it the properties that the runs
check; a table names the theorems. `PartsProofs` holds three of them, of the timer,
the database and the client; it extends all three, whose definitions have different
names (`ListInit`, `SessionInit`). What they assume is the `ASSUME` of the module
proved about, which TLC evaluates on the run of that module. The counters that
bound the runs (requests, visits, calls, starts) are parameters of the theorems.

### The scanner

`ScannerProofs` proves, for every set of channels and frequencies, every
database and saved state, every trigger count and every number of requests and
restarts:

| theorem | states |
|---|---|
| `InductiveInvariant` | `Spec => []IndInv` |
| `TypeCorrect` | `TypeOK` always |
| `AudioIsCurrentModem` | `OnlyCurrentModemOpen` always |
| `ReceiveHasEntry` | `ReceivesRealEntry` always |
| `ReceptionIsShown` | `HeardIsShown` always |
| `ManualModeIsHeld` | `ManualIsHeld` always |
| `EventDataFits` | `DataBelongsToManual` always |
| `StopIsNotCalledOff` | `StoppingSticks` |
| `LockedOutIsShown` | `LockedIsShown` always |
| `SavedModeIsRestored` | `RestoresSavedMode` always |

Assumptions: `ScannerAssumption` (ids are distinct from each other and from the
special values, the trigger is positive) and `InitialAssumption` (initial
databases and saved states are well formed). TLC evaluates both on every run of
`MCScanner`.

The invariants are not inductive alone. That the open modem is the current one
depends on whose modem was selected when `ST_Hold` or `ST_Scan` decided to
receive, which is a fact about a point inside a state function, not about the
states between them. `IndInv` therefore adds `EngineOK`, what each label of the
engine knows (which state is current, that the audio is closed while scanning
and holding, that the modem is the entry's before and during reception, that
hits are only counted with an entry), and `CallsOK`, what a call in progress may
carry (only a manual entry posts MANUAL, and it has data). There is one lemma
per action; frame lemmas cover the actions that leave the engine or the callers
alone. `StoppingSticks` follows from `CallsOK` and the transition maps: a lookup
made during a stop finds every event ignored but the stop itself, and state
functions of a stop post nothing else.

`LockedIsShown` is inductive with `IndInv`: the entry that `getNextEntry` returns is
open, and the only other way to a locked one, the index of a hold, is published
in the same step.

`RestoresSavedMode` says what an undisturbed process does, so its invariant
`RestoreInv` begins with `Quiet` and has nothing to say after the first request. Then
main is the only caller. `MainCallInv` and `StartInv` follow its one call of
`startScanner`: what it asks for by the mode in the file, that the machine stays in
LOAD until it is posted, and that the request is therefore not ignored. `ManualKept`
and `HoldKept` bound what can follow: the machine goes round hold and receive and
never posts SCAN, because the hold is external. `HoldKept` has one exception, found
by TLC: for a locked out channel `ST_Receive` posts SCAN and goes on, and until its
end the state is SCAN with the held channel (`engine = "receive"`). The last conjuncts
follow the mode through `ST_SaveAll` into the file, for the next start to read.

### The tuner

`TunerProofs`, for every frequency, rate, gain, correction and saved configuration,
and any number of retunes and changes of the gain (`TunerAssumption`):

| theorem | states |
|---|---|
| `TunerInvariant` | `Spec => []TunerInv` |
| `SettingsReachDeviceHolds` | `SettingsReachDevice` always |

The property speaks of two places of the thread, between two passes. The invariant
follows each setting on its way from the caller through value and flag to the device
at every place: `RateInv`, `FreqInv`, `PpmInv`, `AgcInv` and `GainInv`, one for each
since they differ. The rate can be lost, since it is read back from the device, and
then lifts the frequency that is in use (`Asked`); the correction is copied through
`init`; the mode has no copy; the gain has two flags and is read again from the
configuration. `OrderInv` keeps main's start apart from the other callers. That
clamping twice is clamping once (`ClampFacts`) is what makes the frequency that the
manager stored and the one that the thread stored agree.

### Modems and post thread

`ModemsProofs`, for every set of channels and centres, every rate, length of the
queue and number of visits (`ModemsAssumption`):

| theorem | states |
|---|---|
| `ModemsInvariant` | `Spec => []ModemsInv` |
| `OnlyTunedIsOpen` | `OpenModemIsTuned` always |
| `TunedIsFed` | `TunedModemIsFed` always |

`OpenInv` says from which place on the current modem has the entry's frequency:
between `SetFrequency` and the end of reception nothing selects another one. For the
second theorem `StartInv` describes `Demodulator::start` step by step, as long as no
batch has come; `TuneInv` keeps modem and tuner within half a rate of each other but
for the steps that change one after the other; `FedInv` names the ways a modem may be
unfed for a moment; and `ToldInv` says that a modem is on the frequency it was told, with
flag and value stored and taken in two steps each, unless a retune was forgotten. That
lapse is noted at both places where it happens: `StoreFrequency` under a flag that was
lowered in between, and `PreClears` over a value that was stored in between. The second
theorem excludes it, with three other orders, all named in the property; the first needs
it for what the modem hears, not for what it was told. The assumption that the tuner starts within reach of
the modems' first frequency was found here: without it the modem is unfed until
the first retune.

### Modem threads

`PipelineProofs`, for all frequencies and rates, all lengths of the queues and any
number of calls (`PipelineAssumption`):

| theorem | states |
|---|---|
| `PipelineInvariant` | `Spec => []PipelineInv` |
| `BatchesAreMixed` | `MixedForItsRate` always |
| `DeadKitsAreFree` | `Spec => NoDeadKit` |

A kit is disposed of when the demodulator meets another. That nobody holds it then is
an order: on the line from the demodulator over the queued batches to the
pre-processor each kit has one stretch (`KitInv`), and the worker's kits are not on the
line yet (`NewInv`). The worker takes a number that nobody holds; that there is one is a
count of what can be held at once, which needs the bounds of the queues (`RoomInv`)
and the library's theorems on finite sets.

Mixing is an order too. `RateInv` says that no batch of the first rate follows one of
the second, `BuiltInv` that no resampler is built for the second rate before a batch
of it was looked at, `MixerInv` that the mixer is set for the rate the resampler has,
or will be set at the next batch. All three speak of one change of the rate. The
proof for any number failed, and TLC has the counterexample: the rate goes from 4
to 8 and back before the worker has built the resampler for 8, with a retune in
between, and the batch that follows its arrival is mixed for the other rate
(`cubic/demod/DemodulatorPreThread.cpp:175`). `MixedForItsRate` has `changes <= 1` for
this reason.

### Audio

`AudioProofs`, for every set of modems, length of their queues and number of calls
(`AudioAssumption`: a modem is not named like another thread):

| theorem | states |
|---|---|
| `AudioInvariant` | `Spec => []AudioInv` |
| `EndedNotBound` | `EndedIsUnbound` always |
| `ActiveBound` | `ActiveIsBound` always |

`removeThread` erases one occurrence, so that a thread would stay bound if it were in
the list twice: `OnceInv` excludes it, since `bindThread` looks first. That an ended
thread is not bound again rests on `TerminateInv`: threads end only after main began
to terminate, and from then on the only calls of `setActive` are main's, to switch
off. `BoundInv` says of every place what the property says of the last one.

### The life of the process

`LifecycleProofs`, for every set of dongles, lists, squelch levels and gains, and any number of
starts, failures and power cuts (`SelectAssumption`, `LifecycleAssumption`: levels are
integers, gains but for the automatic one naturals):

| theorem | states |
|---|---|
| `LifecycleInvariant` | `Spec => []LifecycleInv` |
| `SettingsCarriedOver` | `SettingsCarryOver` always |
| `DatabaseKept` | `Spec => DatabaseIsKept` |
| `UserTunersComeFirst` | `UsersCount => (Spec => []UserTunersFirst)` |

`SettingsInv` names for each place of main who has the settings: the file, `State` or
the demodulator, each of them `Kept`: the squelch itself, and the gain itself or what it is
read back as. That this is inductive rests on `ReadOnce`: what was read once is read
again as it is. `GainInv` follows the two gains: they differ only for the reasons that
`gap` notes, an inherited gain that the tuner was never told or one read back as another.
`SettingsInv` crosses from one start to the next by `EndInv`: a process without a
fault ended cleanly, behind the write of the file. `EngineInv` keeps the scanner's
thread and main in step, by the flags `ready` and `stopped`; with `DatabaseInv`, whose
first conjunct holds only if the file was there at first, it gives the database.

`UserTunersComeFirst` is about a list that the program extends: it gives a new dongle
the number of tuners it knows as its rank. `TunersInv` keeps the list `RankedList`, in memory
and in the file: no two tuners of one rank, no rank above their number, and each of the
program's behind each of the user's. By the second the new rank is the last one of all,
or one that is taken, and then the list stays as it is. What the user wrote is such a
list if its ranks count from zero or from one, which is the hypothesis `UsersCount` (the
lists of the run do). It is needed: from a list of a single tuner with rank 2, TLC finds two starts after
which a dongle that the program added is preferred. A first start gives it rank 1,
which is before 2 (`sigproc/TunerManager.cpp:136`).

### The connection manager

`ServerProofs` proves, for every number of clients, slots and messages, with the
console or without it (`ServerAssumption`):

| theorem | states |
|---|---|
| `ServerInvariant` | `Spec => []ServerInv` |
| `OpenIsInTable` | `OpenIsRegistered` always |
| `ManagerFeedsInOrder` | `Spec => FeedsInOrder`: `ServerManager` implements `ContextFeed` |

`ServerInv` has five parts, each needed by the ones after it.

- `TypeInv`: types, and what a place in the code knows of its loop variable.
- `TableInv`: a connection waits in the queue, is being added, or has the slot of
  its handle, and never two of these. The slot being filled is still free: nobody
  else fills one, and clearing leaves it free.
- `QueueInv`: only the scanner's own sequence has contexts, numbered upwards, and
  all of them above whatever any client was fed.
- `BroadcastInv`: while a context is handed out, nobody has a newer one, and only
  those with a slot before `at` have it. This is what makes a change of a slot's
  owner in the middle of a broadcast harmless: a new owner gets its slot from
  the queue thread itself, which is busy.
- `ClearInv`: what the threads that clear a slot may rely on. They hold a
  connection whose slot another thread could have cleared and given to somebody
  else; the invariant says that the slot is still the connection's own, or about
  to become so, or empty for good, because main has stopped allowing
  connections before it begins to close them.

The refinement follows: of all steps only `GiveContext` publishes and only
`QueueDeliver` feeds, and there `BroadcastInv` and `TableInv` put the number
between what the client had and what was published. `LowestIsFree` rests on the
library's theorem that every non-empty set of naturals has a least element.

### The timer

`PartsProofs` proves of `IntervalTimer`, for every number of calls
(`TimerAssumption`), `TimerInvariant`, and from it `TimerTypeCorrect` (types, and
who holds which mutex) and `StopTicksAtMostOnce` (`OneLateTick`). The invariant
adds `LateOK`: with the timer stopped, a thread about to tick has not ticked
since the stop, and a thread that got past the wait because of `_execute` is
about to leave. Without it a thread between the test and the tick could have any
number of late ticks behind it.

### The database

For every file, bandwidth and index, and any number of starts (`ListAssumption`):

| theorem | states |
|---|---|
| `SystemsInvariant` | `ListSpec => []SystemsInv` |
| `IndexesOutliveRestarts` | `SavedIndexIsStable` always |
| `EveryBinFitsTuner` | `BinsFitTuner` always |
| `ChannelsAreTunedTo` | `RetunedForBin` always |

A recursive function says something of its values only if there is one that satisfies
its definition, and what it computes takes an induction. The library has theorems for
both, whose parameters are operators. `PartsProofs` states the same of sets: `StrongInduction`
and `LoopInduction` speak of a set of numbers, `RecursionHasSolution` and `LoopRuns` of a
step that is a function of the point and of the values found so far, and that looks only at
points of smaller rank. With these, `EntriesOf`, `Populated`, `Merge`, `MergeSort` and `Binned`
each satisfy their equations, for lists of any length.

*Indexes.* What is loaded from any file is `Loaded`: each entry is what its
own property tree would be loaded as, at the system and index that it has (`Numbered`).
Such a list is loaded again without a loss (refused channels were not saved, and what
was read as a default of 0 was refused), so that the numbers stay. `SystemsInv` keeps
this for the systems in memory; what is in the file after a save was made from them.

*Bins.* `MergeAscends` and `SortAscends` say of the code's merge sort that the result is in
ascending order and holds the same channels; `BinsGrow` that one turn of the loop
keeps `BinsFit`, which is the property for the part of the list already seen. A bin holds
channels from its first to its last, all closer than the bandwidth to the
first, and the next bin begins where that ends. `BinsInv` keeps it until the next start.

*Cursor.* `RetunedForBin` needs only that the bins are sorted while the cursor is at
its start: `CursorInv` says that behind the start of a bin the tuner is where the dummy of
this bin put it. Two exceptions make it
inductive: a locked out first system, whose dummies are skipped, and the loop that
hangs with every bin locked out, since `_retune` is lowered before it.

### The client

`OnlyAskedRequestsAreRun` is `ScanRequestsAreAsked` for all sliders, any number of
moves, presses and sessions, and reads of any length (`ClientAssumption`). That a read which merges messages invents nothing is a fact about their
order, `InOrder`: the requests for contexts, whose type is not on the wire, all come
before the first request of a session, because the GUI waits for `completeConnection`.
`ParsedRequest` is the step from there: if the last type that was written is that of a
scanner request, then nothing behind it could be without a type, so that the request is
the last message of the read, and what is read of its function was written by it or by
a request of the same member before it, or is zero in all of them. That a set of
positions has a greatest one comes from the library's theorems on well-founded
relations.

`SlidersComeToAgree` is `SlidersAgree`, again for all of them and without a further
hypothesis. It speaks of moments when nothing is under way; `SettlesInv` says of
all others how that end is reached. In a session whose last change was not swallowed,
the request for the first context is still to come to the server (`Awaited`), or each
setting is `Due` or `Agrees`. It is due if a change of it is on its way to the server, or
the timer of the gain slider will send one. It agrees if the slider shows what the server
has, or if a context on its way to the client shows another position than the slider has.
For the gain, "shows" is meant up to the ends of its slider (`Position`); for the squelch,
whose range changes under way, a value that was cut off without moving the slider is `cut`.
One of these is true after every step because each change is announced by
whoever makes it: a slider that moves, be it because its range does, sends its position,
the server publishes a context
after every change, and a slider that is set by a context sends that value back.
`RequestsInvariant` gives the types and the order of the messages, `ReplyInv` that
one reply at most is open. With both directions empty nothing is due and no context can
correct a slider, and what is left is the property.

### Only model-checked

Every safety invariant and every action property that a run checks, and the refinement,
is a theorem. Model-checked only are the liveness properties, because fairness and
ENABLED are outside the prover's reach: `StopCompletes` and
`InternalHoldEnds` of the scanner, `WokenFlushes` and `RequestsAreTaken` of the
manager, `OneValueDiesDown` of the client, `EveryChannelIsScanned` of the database,
`StopRests` and `DestroyReturns` of the timer, `WaitEnds` and `StopReturns` of the tuner,
`LevelIsOfTarget` and `TerminateEnds` of the modem threads, `SetActiveReturns` of the audio and
`StartSettles` of the process. The run `hold_is_lost` is a counterexample and proves itself.

## 6. Findings

One disagreement between code and documentation has a run of its own:
*a requested hold is forgotten* (`hold_is_lost`, `ScannerSM.cpp:146`).
`ST_Scan` clears `_externalHold` after `holdScan` has stored it; the posted hold
finds the flag cleared, and the scanner goes on. `client/README.md` says that
Hold pauses scanning.

The models reach the following too. Each is part of a model, named there in a
comment or as an exception of a property.

Scanner and manager:

- A locked out entry is received: the SCAN event is replaced by the one posted
  further down (`ScannerSM.cpp:246`).
- A stop is replaced by a client's event that was looked up before it
  (`util/StateMachine.cpp:55`); main then waits without end.
- The manager's stop is not heard when `try_lock` fails while the queue thread
  is on its way to sleep (`ServerManager.cpp:71`).
- The console's `exit` ends up in a queue whose handler asserts another kind of
  message (`ServerManager.cpp:223`).
- Scan states that are never broadcast because the event was replaced; a channel
  held by index in manual mode and shown as manual; an empty slot used by a
  broadcast, or by a client that fails before its slot is filled.
- A locked out channel that a client holds by its index goes on being scanned when two
  requests for a scan follow each other: `lastState` is then SCAN already, the hits of
  the hold are not reset and no next entry is asked for (`ScannerSM.cpp:132`). Clients
  keep seeing it as held, since no scan is broadcast either.

Client and connection:

- Messages that one read returns are merged (`SocketConnection.cpp:169`), and a
  broadcast overwrites the buffer of a write that is not done (`:68`): a change of a
  setting, or a request, is lost.
- A client answers a context with a request (`client/py/scanner.py:161`); two
  values under way follow each other round without end.
- The sliders cut what they are given. A squelch mode in percent with 50 saved, and the
  context before the system info: the slider, still at -100 to 0, stays at 0, sends
  nothing, and goes on showing 0 when its range arrives. If the cut, or the
  new range (`client/py/scanner.py:217`), moves the slider, then it sends its end of the range,
  and the server's setting is overwritten without anybody having touched a control. So is
  an automatic gain of -10, of which the slider makes -1.

Tuner, modems and audio:

- A setting stored between use and lowering of its flag never reaches the device
  (`cubic/sdr/SoapySDRThread.cpp:527`); a retune whose notification finds the mutex
  taken wakes nobody (`:530`); a stop before the thread begins is erased
  (`cubic/IOThread.cpp:46`).
- After an AM entry the current and the context modem differ, so that the level
  is read from one modem while the other is tuned
  (`cubic/demod/DemodulatorMgr.cpp:279`).
- The frequency flag is cleared over a frequency stored in between
  (`cubic/demod/DemodulatorPreThread.cpp:95`). `Demodulator::setFrequency` stores it twice,
  which usually hides it; `setTunerFrequency` (`sigproc/Demodulator.cpp:171`) stores it
  once. The modem then keeps the old frequency, the post thread drops it on the new label
  (`cubic/sdr/SDRPostThread.cpp:203`), and as only modems that are fed are looked at again
  before the next label, it stays unfed even when it is in the band again.
- A rate that changes and changes back before the worker has built a resampler leaves
  the mixer set for the other rate (`cubic/demod/DemodulatorPreThread.cpp:175`).
- `setActive` and the callback take two mutexes in opposite orders
  (`cubic/audio/AudioThread.cpp:607`). A modem switched on before it has an input
  queue is not mixed; and `deviceCleanup` runs beside threads that were detached
  (`:95`).

Life of the process:

- A failed start writes an empty database over `systems.json`
  (`piscan_server.cpp:256`); one that was cut ends every later start
  (`scan/SystemList.cpp:57`).
- `OnExit` calls `exit` before the state is saved when a thread does not end in time
  (`cubic/CubicSDR.cpp:443`), and a taken RTSP port makes `stop` join a thread that
  was not made (`server/AudioStreamServer.cpp:103`): settings are not kept,
  though `README.md` of the repository says that a state file is generated when
  the program ends.
- A saved gain is shown to clients and never told to the tuner, which starts with its own
  gain control (`sigproc/Demodulator.cpp:27`; `CubicSDR::saveAll`, which would keep the
  device's configuration, is not called). A gain with a fraction does not convert and
  becomes the automatic one (`common/State.cpp:85`). `setTunerGain` reads the gain back
  while the tuner's thread may have put the device's own in its place
  (`sigproc/Demodulator.cpp:307`, `cubic/sdr/SoapySDRThread.cpp:427`), and that is what is
  told and saved.
- A tuner that the user lists with a rank above the number of tuners is passed over
  once the program has added another dongle, whose rank is that number
  (`sigproc/TunerManager.cpp:136`).
- Channels above the range of `int`, and systems of an unknown type, are dropped
  by the next save; retuning stops when the first system is locked out.

## 7. Plan

Done: the scanner with its engine; the connection manager, its abstract
specification, and the proof that it implements it; the client session; the
database; the interval timer; tuner, modems, modem threads and audio; tuner selection
and the life of the process. Proved: every safety property that a run checks.

What could follow, in this order:

1. A composition of `ScannerSM` with the cursor of `SystemList`, so that the
   scanner's `NextEntries` becomes an abstract specification that it implements.
2. `MixedForItsRate` for any number of changes of the rate, with a history variable for
   the one order that breaks it.

## 8. Not modelled

- The rest of the CubicSDR port: `cubic/AppConfig.cpp` and `util/DataTree.*` (reading
  and writing of a tree, without concurrency), sessions and bookmarks, visual and
  recording code that the server does not reach, and the arithmetic of the modems
  around liquid-dsp. What these decide for the rest (the saved device
  configuration, whether there is a signal) is an input of the models.
- The RTSP path (`server/audio_server/`): plumbing for live555. Whether it is
  there, started and joined is in `Lifecycle`.
- The Sentinel converter (`scan/SentinelFile.cpp`): a file format conversion.
- The vendored libraries (`external/`).
- The display of the client, its dialogs and its audio player.
- Formatting, logging, tags, tones and codes; permissions, since every
  connection is created with full control.
- The width of `long` in frequencies (`scan/SystemList.cpp:267`), a hazard without a
  property: it needs frequencies of a size that TLC could only sample.
- Who gets `_eventMutex` (`util/StateMachine.cpp:67`), a hazard without a property too:
  the engine unlocks and retakes it at once and `std::mutex` promises no order, so that
  a caller may starve whatever the rest of the code does.
