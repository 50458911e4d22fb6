-------------------------------- MODULE Tuner --------------------------------
(***************************************************************************)
(* The tuner (SoapySDRThread.cpp) and its callers (CubicSDR.cpp,           *)
(* TunerManager.cpp): main, which starts the device, sets correction and   *)
(* rate while the new thread is already initialising, and stops it; the    *)
(* scanner, which retunes; a client's request, which sets the gain.        *)
(*                                                                         *)
(* A caller leaves a value and raises a flag, both atomics; the thread     *)
(* looks at the flags between two batches, hands the value to the device   *)
(* and then lowers the flag. Antenna, offset and settings are set by       *)
(* setDevice only, before the thread exists, and never change; nothing in  *)
(* PiScan locks the frequency.                                             *)
(***************************************************************************)
EXTENDS Naturals

CONSTANTS
  FirstFreq,    \* AppConfig's centre, CubicSDR's frequency before any call
  Freqs,        \* frequencies a scanner asks for
  Gains,        \* tuner gains a client asks for
  Configs,      \* what AppConfig may hold for the device
  TunerRate, TunerPPM,   \* what PiScan's own configuration asks for
  MaxRetunes, MaxGains   \* bounds: calls of the scanner, calls of a client

ASSUME TunerAssumption ==
  /\ TunerRate \in Nat /\ TunerPPM \in Nat
  /\ FirstFreq \in Nat /\ Freqs \subseteq Nat /\ Gains \subseteq Nat
  /\ Configs \subseteq [rate : Nat, ppm : Nat, agc : BOOLEAN, gain : Nat]
  /\ MaxRetunes \in Nat /\ MaxGains \in Nat

VARIABLES
  want,     \* CubicSDR: the last value each caller asked for
  req,      \* SDRThread's atomics
  flag,     \* ..._changed
  dirty,    \* gainChanged["TUNER"]
  conf,     \* DeviceConfig
  hw,       \* the device
  thread,   \* where the tuner's thread is
  local,    \* a value it read from the configuration
  active,   \* SDRDeviceInfo's active
  stopping, terminated,
  msgAvailable, msgMutex,
  caller,   \* where setFrequency's caller is
  client,   \* where setTunerGain's caller is
  main,
  retunes, gains,   \* calls so far
  raced,    \* settings whose last change overlapped the thread's use of them
  missed,   \* the last try_lock on _msgMutex failed
  erased    \* the thread's start overwrote a stop

requests == <<want, req, flag, dirty, conf>>
signal == <<msgAvailable, msgMutex, caller>>
bounds == <<retunes, gains>>
vars == <<requests, hw, thread, local, active, stopping, terminated, signal,
          client, main, bounds, raced, missed, erased>>

NoGain == 0

\* setFrequency keeps the band above zero.
Clamp(freq, rate) == IF freq < rate \div 2 THEN rate \div 2 ELSE freq

Settings == {"freq", "rate", "ppm", "gain"}

\* SDRThread has frequency 0 and agc_mode true until a device is set; the
\* device itself has not been told anything.
Init ==
  /\ conf \in Configs
  /\ want = [freq |-> FirstFreq, rate |-> conf.rate, ppm |-> conf.ppm,
             agc |-> conf.agc, gain |-> conf.gain]
  /\ req = [freq |-> 0, rate |-> conf.rate, ppm |-> conf.ppm,
            agc |-> TRUE, gain |-> NoGain]
  /\ flag = [s \in Settings \cup {"agc"} |-> FALSE]
  /\ dirty = FALSE
  /\ hw = [freq |-> 0, rate |-> conf.rate, ppm |-> 0, agc |-> TRUE, gain |-> NoGain]
  /\ thread = "none" /\ local = 0 /\ active = FALSE
  /\ stopping = FALSE /\ terminated = FALSE
  /\ msgAvailable = FALSE /\ msgMutex = "nobody"
  /\ caller = "idle" /\ client = "idle" /\ main = "idle"
  /\ retunes = 0 /\ gains = 0
  /\ raced = {} /\ missed = FALSE /\ erased = FALSE

-----------------------------------------------------------------------------
(* main: the start of the device.                                          *)

\* CubicSDR::setDevice. The thread is told to stop first, so that the calls
\* here do not wait for it; threadMain clears that.
SetDevice ==
  /\ main = "idle" /\ main' = "ppm"
  /\ want' = [want EXCEPT !.freq = Clamp(@, conf.rate)]
  /\ req' = [req EXCEPT !.freq = Clamp(want.freq, conf.rate), !.agc = conf.agc]
  /\ flag' = [flag EXCEPT !.freq = TRUE, !.rate = TRUE, !.ppm = TRUE, !.agc = TRUE]
  /\ stopping' = TRUE /\ thread' = "new"
  /\ UNCHANGED <<dirty, conf, hw, local, active, terminated, signal, client,
                 bounds, raced, missed, erased>>

\* startSelectedTuner: setPPM stores the value ...
SetPPM ==
  /\ main = "ppm" /\ main' = "ppmStored"
  /\ want' = [want EXCEPT !.ppm = TunerPPM]
  /\ req' = [req EXCEPT !.ppm = TunerPPM]
  /\ raced' = IF thread \in {"initStore", "ppmClear"} THEN raced \cup {"ppm"} ELSE raced
  /\ UNCHANGED <<flag, dirty, conf, hw, thread, local, active, stopping, terminated,
                 signal, client, bounds, missed, erased>>

\* ... and raises the flag and changes the configuration.
SetPPMFlag ==
  /\ main = "ppmStored" /\ main' = "rate"
  /\ flag' = [flag EXCEPT !.ppm = TRUE]
  /\ conf' = [conf EXCEPT !.ppm = want.ppm]
  /\ raced' = IF thread = "initStore" THEN raced \cup {"ppm"} ELSE raced
  /\ UNCHANGED <<want, req, dirty, hw, thread, local, active, stopping, terminated,
                 signal, client, bounds, missed, erased>>

\* CubicSDR::setSampleRate
SetSampleRate ==
  /\ main = "rate" /\ main' = "rateStored"
  /\ want' = [want EXCEPT !.rate = TunerRate]
  /\ req' = [req EXCEPT !.rate = TunerRate]
  /\ raced' = IF thread = "rateClear" THEN raced \cup {"rate"} ELSE raced
  /\ UNCHANGED <<flag, dirty, conf, hw, thread, local, active, stopping, terminated,
                 signal, client, bounds, missed, erased>>

\* Its flag, and the setFrequency it ends with: the new rate may lift the
\* frequency.
SetSampleRateFlag ==
  /\ main = "rateStored" /\ main' = "tuning"
  /\ flag' = [flag EXCEPT !.rate = TRUE]
  /\ conf' = [conf EXCEPT !.rate = want.rate]
  /\ want' = [want EXCEPT !.freq = Clamp(@, want.rate)]
  /\ caller' = "called"
  /\ UNCHANGED <<req, dirty, hw, thread, local, active, stopping, terminated,
                 msgAvailable, msgMutex, client, bounds, raced, missed, erased>>

Started ==
  /\ main = "tuning" /\ caller = "idle" /\ main' = "ready"
  /\ UNCHANGED <<requests, hw, thread, local, active, stopping, terminated, signal,
                 client, bounds, raced, missed, erased>>

-----------------------------------------------------------------------------
(* setFrequency, called by main at start and then by the scanner.          *)

\* Demodulator::setFrequency, setTunerFrequency
Retune ==
  /\ main = "ready" /\ caller = "idle" /\ retunes < MaxRetunes
  /\ retunes' = retunes + 1
  /\ \E freq \in Freqs : want' = [want EXCEPT !.freq = Clamp(freq, want.rate)]
  /\ caller' = "called"
  /\ UNCHANGED <<req, flag, dirty, conf, hw, thread, local, active, stopping, terminated,
                 msgAvailable, msgMutex, client, main, gains, raced, missed, erased>>

StoreFrequency ==
  /\ caller = "called" /\ caller' = "stored"
  /\ req' = [req EXCEPT !.freq = Clamp(want.freq, req.rate)]
  /\ raced' = IF thread = "freqClear" THEN raced \cup {"freq"} ELSE raced
  /\ UNCHANGED <<want, flag, dirty, conf, hw, thread, local, active, stopping, terminated,
                 msgAvailable, msgMutex, client, main, bounds, missed, erased>>

FlagFrequency ==
  /\ caller = "stored" /\ caller' = "flagged"
  /\ flag' = [flag EXCEPT !.freq = TRUE]
  /\ UNCHANGED <<want, req, dirty, conf, hw, thread, local, active, stopping, terminated,
                 msgAvailable, msgMutex, client, main, bounds, raced, missed, erased>>

\* if(!stopping): the mutex is taken, or the call returns.
LockMessage ==
  /\ caller = "flagged"
  /\ IF stopping
     THEN caller' = "idle" /\ UNCHANGED msgMutex
     ELSE msgMutex = "nobody" /\ msgMutex' = "caller" /\ caller' = "locked"
  /\ UNCHANGED <<requests, hw, thread, local, active, stopping, terminated, msgAvailable,
                 client, main, bounds, raced, missed, erased>>

\* _cv.wait: _msgAvailable is never cleared, so only the first call waits.
TestMessage ==
  /\ caller = "locked"
  /\ caller' = IF msgAvailable THEN "idle" ELSE "waiting"
  /\ msgMutex' = "nobody"
  /\ UNCHANGED <<requests, hw, thread, local, active, stopping, terminated, msgAvailable,
                 client, main, bounds, raced, missed, erased>>

\* Notified, or woken for no reason: the mutex again, then the test again.
WakeMessage ==
  /\ caller = "woken" /\ msgMutex = "nobody"
  /\ caller' = "locked" /\ msgMutex' = "caller"
  /\ UNCHANGED <<requests, hw, thread, local, active, stopping, terminated, msgAvailable,
                 client, main, bounds, raced, missed, erased>>

-----------------------------------------------------------------------------
(* Demodulator::setTunerGain, called by a client's request.                *)

SetAGCMode ==
  /\ main = "ready" /\ client = "idle" /\ gains < MaxGains
  /\ gains' = gains + 1
  /\ \E auto \in BOOLEAN :
       /\ want' = [want EXCEPT !.agc = auto]
       /\ req' = [req EXCEPT !.agc = auto]
       /\ client' = IF auto THEN "auto" ELSE "manual"
  /\ raced' = IF thread = "agcClear" THEN raced \cup {"agc"} ELSE raced
  /\ UNCHANGED <<flag, dirty, conf, hw, thread, local, active, stopping, terminated, signal,
                 main, retunes, missed, erased>>

FlagAGCMode ==
  /\ client \in {"auto", "manual"}
  /\ client' = IF client = "auto" THEN "idle" ELSE "gain"
  /\ flag' = [flag EXCEPT !.agc = TRUE]
  /\ UNCHANGED <<want, req, dirty, conf, hw, thread, local, active, stopping, terminated,
                 signal, main, bounds, raced, missed, erased>>

\* setGain, under gain_busy until the configuration is written too. The
\* thread's updateGains does not take that mutex.
SetGain ==
  /\ client = "gain" /\ client' = "gainStored"
  /\ \E gain \in Gains :
       /\ want' = [want EXCEPT !.gain = gain]
       /\ req' = [req EXCEPT !.gain = gain]
  /\ dirty' = TRUE /\ flag' = [flag EXCEPT !.gain = TRUE]
  /\ raced' = raced \ {"gain"}
  /\ UNCHANGED <<conf, hw, thread, local, active, stopping, terminated, signal,
                 main, bounds, missed, erased>>

\* The gain is not saved with the device's configuration.
SetGainConfigMutant ==
  /\ client = "gainStored" /\ client' = "idle"
  /\ UNCHANGED <<requests, hw, thread, local, active, stopping, terminated,
                 signal, main, bounds, raced, missed, erased>>

SetGainConfig ==
  /\ client = "gainStored" /\ client' = "idle"
  /\ conf' = [conf EXCEPT !.gain = want.gain]
  /\ raced' = IF thread = "agcGains" THEN raced \cup {"gain"} ELSE raced
  /\ UNCHANGED <<want, req, flag, dirty, hw, thread, local, active, stopping, terminated,
                 signal, main, bounds, missed, erased>>

GainBusy == client = "gainStored"

\* updateGains: the values of the device replace those that were asked for.
GainsOfDevice == [req EXCEPT !.gain = hw.gain]

-----------------------------------------------------------------------------
(* The tuner's thread.                                                     *)

Goes(from, to) == thread = from /\ thread' = to

\* IOThread::threadMain: both flags are cleared, whoever set them.
ThreadBegins ==
  /\ Goes("new", "initRead")
  /\ stopping' = FALSE /\ terminated' = FALSE
  /\ erased' = (main \in {"polling", "joining"})
  /\ UNCHANGED <<requests, hw, local, active, signal, client, main, bounds,
                 raced, missed>>

\* init: the correction saved for this device ...
InitReads ==
  /\ Goes("initRead", "initStore")
  /\ local' = conf.ppm
  /\ raced' = IF main = "ppmStored" THEN raced \cup {"ppm"} ELSE raced
  /\ UNCHANGED <<requests, hw, active, stopping, terminated, signal, client, main, bounds,
                 missed, erased>>

\* ... replaces the one in use.
InitStores ==
  /\ Goes("initStore", "initDevice")
  /\ req' = [req EXCEPT !.ppm = local]
  /\ flag' = [flag EXCEPT !.ppm = TRUE]
  /\ raced' = IF main = "ppmStored" THEN raced \cup {"ppm"} ELSE raced
  /\ local' = 0
  /\ UNCHANGED <<want, dirty, conf, hw, active, stopping, terminated, signal,
                 client, main, bounds, missed, erased>>

\* The stream is set up and everything is written once; a stream that cannot
\* be set up aborts the process.
InitDevice ==
  /\ Goes("initDevice", "rate")
  /\ hw' = [req EXCEPT !.gain = hw.gain]
  /\ flag' = [flag EXCEPT !.rate = TRUE]
  /\ UNCHANGED <<want, req, dirty, conf, local, active, stopping, terminated, signal,
                 client, main, bounds, raced, missed, erased>>

\* updateSettings: the device gets the rate between two activations ...
RateApply ==
  /\ Goes("rate", IF flag.rate THEN "rateClear" ELSE "ppm")
  /\ hw' = IF flag.rate THEN [hw EXCEPT !.rate = req.rate] ELSE hw
  /\ UNCHANGED <<requests, local, active, stopping, terminated, signal, client, main,
                 bounds, raced, missed, erased>>

\* ... which is read back, buffers are made for it and the flag is lowered.
RateClear ==
  /\ Goes("rateClear", "ppm")
  /\ req' = [req EXCEPT !.rate = hw.rate]
  /\ flag' = [flag EXCEPT !.rate = FALSE]
  /\ UNCHANGED <<want, dirty, conf, hw, local, active, stopping, terminated, signal, client,
                 main, bounds, raced, missed, erased>>

PpmApply ==
  /\ Goes("ppm", IF flag.ppm THEN "ppmClear" ELSE "freq")
  /\ hw' = IF flag.ppm THEN [hw EXCEPT !.ppm = req.ppm] ELSE hw
  /\ UNCHANGED <<requests, local, active, stopping, terminated, signal, client, main,
                 bounds, raced, missed, erased>>

PpmClear ==
  /\ Goes("ppmClear", "freq")
  /\ flag' = [flag EXCEPT !.ppm = FALSE]
  /\ UNCHANGED <<want, req, dirty, conf, hw, local, active, stopping, terminated, signal,
                 client, main, bounds, raced, missed, erased>>

FreqApply ==
  /\ Goes("freq", IF flag.freq THEN "freqClear" ELSE "agc")
  /\ hw' = IF flag.freq THEN [hw EXCEPT !.freq = req.freq] ELSE hw
  /\ raced' = IF flag.freq THEN raced \ {"freq"} ELSE raced
  /\ UNCHANGED <<requests, local, active, stopping, terminated, signal, client, main,
                 bounds, missed, erased>>

FreqClear ==
  /\ Goes("freqClear", "freqTell")
  /\ flag' = [flag EXCEPT !.freq = FALSE]
  /\ UNCHANGED <<want, req, dirty, conf, hw, local, active, stopping, terminated, signal,
                 client, main, bounds, raced, missed, erased>>

\* notify_one before the message is available.
FreqTellMutant ==
  /\ Goes("freqTell", "agc")
  /\ msgAvailable' = (msgAvailable \/ caller # "waiting")
  /\ missed' = (msgMutex # "nobody")
  /\ caller' = IF caller = "waiting" THEN "woken" ELSE caller
  /\ UNCHANGED <<requests, hw, local, active, stopping, terminated, msgMutex, client,
                 main, bounds, raced, erased>>

\* try_lock: a caller between its test and its wait is passed by, and then
\* notify_one has nobody to wake.
FreqTell ==
  /\ Goes("freqTell", "agc")
  /\ msgAvailable' = (msgAvailable \/ msgMutex = "nobody")
  /\ missed' = (msgMutex # "nobody")
  /\ caller' = IF caller = "waiting" THEN "woken" ELSE caller
  /\ UNCHANGED <<requests, hw, local, active, stopping, terminated, msgMutex, client,
                 main, bounds, raced, erased>>

AgcApply ==
  /\ Goes("agc", IF flag.agc THEN "agcClear" ELSE "gain")
  /\ hw' = IF flag.agc THEN [hw EXCEPT !.agc = req.agc] ELSE hw
  /\ raced' = IF flag.agc THEN raced \ {"agc"} ELSE raced
  /\ UNCHANGED <<requests, local, active, stopping, terminated, signal, client, main,
                 bounds, missed, erased>>

\* Manual gain: the gains are read back from the device (updateGains) ...
AgcClear ==
  /\ Goes("agcClear", IF req.agc THEN "gain" ELSE "agcRead")
  /\ flag' = IF req.agc THEN [flag EXCEPT !.agc = FALSE]
             ELSE [flag EXCEPT !.agc = FALSE, !.gain = FALSE]
  /\ dirty' = (dirty /\ req.agc)
  /\ req' = IF req.agc THEN req ELSE GainsOfDevice
  /\ UNCHANGED <<want, conf, hw, local, active, stopping, terminated, signal, client,
                 main, bounds, raced, missed, erased>>

\* ... and the saved ones, copied here, ...
AgcReads ==
  /\ Goes("agcRead", "agcGains")
  /\ local' = conf.gain
  /\ UNCHANGED <<requests, hw, active, stopping, terminated, signal, client, main, bounds,
                 raced, missed, erased>>

\* ... are set with setGain, which saves them once more.
AgcGains ==
  /\ ~GainBusy /\ Goes("agcGains", "gain")
  /\ req' = [req EXCEPT !.gain = local]
  /\ conf' = [conf EXCEPT !.gain = local]
  /\ dirty' = TRUE /\ flag' = [flag EXCEPT !.gain = TRUE]
  /\ local' = 0
  /\ UNCHANGED <<want, hw, active, stopping, terminated, signal, client, main,
                 bounds, raced, missed, erased>>

\* gain_value_changed and manual gain, under gain_busy.
GainApply ==
  /\ ~(GainBusy /\ flag.gain /\ ~req.agc)
  /\ Goes("gain", IF active THEN "read" ELSE "readLoop")
  /\ IF flag.gain /\ ~req.agc
     THEN /\ hw' = IF dirty THEN [hw EXCEPT !.gain = req.gain] ELSE hw
          /\ flag' = [flag EXCEPT !.gain = FALSE] /\ dirty' = FALSE
     ELSE UNCHANGED <<hw, flag, dirty>>
  /\ UNCHANGED <<want, req, conf, local, active, stopping, terminated, signal, client,
                 main, bounds, raced, missed, erased>>

\* run, after init: setActive(true), and readLoop's own updateGains, which
\* forgets a gain that was set since.
ReadLoop ==
  /\ Goes("readLoop", "top")
  /\ active' = TRUE
  /\ req' = GainsOfDevice
  /\ dirty' = FALSE /\ flag' = [flag EXCEPT !.gain = FALSE]
  /\ raced' = IF flag.gain \/ GainBusy THEN raced \cup {"gain"} ELSE raced
  /\ UNCHANGED <<want, conf, hw, local, stopping, terminated, signal, client, main,
                 bounds, missed, erased>>

\* while (!stopping), and at its end the flush of the queue and deinit.
Top ==
  /\ Goes("top", IF stopping THEN "ending" ELSE "rate")
  /\ active' = ~stopping
  /\ UNCHANGED <<requests, hw, local, stopping, terminated, signal, client, main, bounds,
                 raced, missed, erased>>

\* A thread that does not say that it ended.
ThreadEndsMutant ==
  /\ Goes("ending", "done")
  /\ UNCHANGED <<requests, hw, local, active, stopping, terminated, signal, client, main,
                 bounds, raced, missed, erased>>

ThreadEnds ==
  /\ Goes("ending", "done")
  /\ stopping' = TRUE /\ terminated' = TRUE
  /\ UNCHANGED <<requests, hw, local, active, signal, client, main, bounds,
                 raced, missed, erased>>

\* readStream: one batch is read and pushed or dropped.
ReadStream ==
  /\ Goes("read", "top")
  /\ UNCHANGED <<requests, hw, local, active, stopping, terminated, signal, client, main,
                 bounds, raced, missed, erased>>

-----------------------------------------------------------------------------
(* main: the stop, once the scanner and the server have stopped.           *)

\* stopDevice: terminate, which also flushes the queue, ...
StopDevice ==
  /\ main = "ready" /\ caller = "idle" /\ client = "idle" /\ main' = "polling"
  /\ stopping' = TRUE
  /\ UNCHANGED <<requests, hw, thread, local, active, terminated, signal, client, bounds,
                 raced, missed, erased>>

\* ... a poll of isTerminated for a while, whatever comes of it, ...
PollEnds ==
  /\ main = "polling" /\ main' = "joining"
  /\ UNCHANGED <<requests, hw, thread, local, active, stopping, terminated, signal, client,
                 bounds, raced, missed, erased>>

\* ... and the join, which has no limit.
Join ==
  /\ main = "joining" /\ thread = "done" /\ main' = "joined"
  /\ UNCHANGED <<requests, hw, thread, local, active, stopping, terminated, signal, client,
                 bounds, raced, missed, erased>>

\* OnExit stops the thread again and ends the process with 11 if it runs.
OnExit ==
  /\ main = "joined" /\ main' = IF terminated THEN "stopped" ELSE "exit11"
  /\ stopping' = TRUE
  /\ UNCHANGED <<requests, hw, thread, local, active, terminated, signal, client, bounds,
                 raced, missed, erased>>

-----------------------------------------------------------------------------
Thread ==
  \/ ThreadBegins \/ InitReads \/ InitStores \/ InitDevice
  \/ RateApply \/ RateClear \/ PpmApply \/ PpmClear
  \/ FreqApply \/ FreqClear \/ FreqTell
  \/ AgcApply \/ AgcClear \/ AgcReads \/ AgcGains \/ GainApply
  \/ ReadLoop \/ Top \/ ReadStream \/ ThreadEnds

Caller == StoreFrequency \/ FlagFrequency \/ LockMessage \/ TestMessage \/ WakeMessage
Client == FlagAGCMode \/ SetGain \/ SetGainConfig
Main ==
  \/ SetDevice \/ SetPPM \/ SetPPMFlag \/ SetSampleRate \/ SetSampleRateFlag \/ Started
  \/ PollEnds \/ Join \/ OnExit

Next == Thread \/ Caller \/ Client \/ Main \/ Retune \/ SetAGCMode \/ StopDevice

Spec == Init /\ [][Next]_vars
\* Threads are scheduled and device reads return; nobody has to stop.
FairSpec == Spec /\ WF_vars(Thread) /\ WF_vars(Caller) /\ WF_vars(Client) /\ WF_vars(Main)
=============================================================================
