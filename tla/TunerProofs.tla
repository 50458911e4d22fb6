----------------------------- MODULE TunerProofs -----------------------------
(***************************************************************************)
(* Proofs about Tuner for every frequency, rate, gain, saved configuration *)
(* and number of calls: a setting reaches the device unless it was stored  *)
(* in the window that "raced" names. TunerInv is inductive; it follows     *)
(* each setting from its caller through the flag to the device.            *)
(***************************************************************************)
EXTENDS TunerProperties, TLAPS

Values == [freq : Nat, rate : Nat, ppm : Nat, agc : BOOLEAN, gain : Nat]

\* The device has been set up, so that updateSettings is running.
Live == thread \notin {"none", "new", "initRead", "initStore", "initDevice"}

\* main has not yet passed its last change of the rate.
Starting == main \in {"idle", "ppm", "ppmStored", "rate", "rateStored"}

TypeInv ==
  /\ want \in Values /\ req \in Values /\ hw \in Values
  /\ flag \in [Settings \cup {"agc"} -> BOOLEAN]
  /\ conf \in [rate : Nat, ppm : Nat, agc : BOOLEAN, gain : Nat]
  /\ dirty \in BOOLEAN
  /\ local \in Nat
  /\ thread \in {"none", "new", "initRead", "initStore", "initDevice", "rate", "rateClear",
                 "ppm", "ppmClear", "freq", "freqClear", "freqTell", "agc", "agcClear",
                 "agcRead", "agcGains", "gain", "readLoop", "read", "top", "ending", "done"}
  /\ main \in {"idle", "ppm", "ppmStored", "rate", "rateStored", "tuning", "ready",
               "polling", "joining", "joined", "stopped", "exit11"}
  /\ caller \in {"idle", "called", "stored", "flagged", "locked", "waiting", "woken"}
  /\ client \in {"idle", "auto", "manual", "gain", "gainStored"}
  /\ raced \subseteq Settings \cup {"agc"}

\* Before setDevice there is no thread, and the scanner and the clients call
\* when main is done with the start.
OrderInv ==
  /\ main = "idle" => thread = "none"
  /\ Starting => caller = "idle"
  /\ main \in {"idle", "ppm", "ppmStored", "rate", "rateStored", "tuning"} => client = "idle"

\* The rate in use is the wanted one, or was lost and is the device's.
RateInv ==
  /\ req.rate = want.rate \/ ("rate" \in raced /\ req.rate = hw.rate)
  /\ main = "idle" => want.rate = conf.rate
  /\ thread = "rateClear" => "rate" \in raced \/ hw.rate = want.rate
  /\ Live => flag.rate \/ main = "rateStored" \/ "rate" \in raced \/ hw.rate = want.rate

\* A frequency that was asked for, lifted only once the rate was lost.
Asked(freq) ==
  \/ freq = want.freq
  \/ ~Starting /\ "rate" \in raced /\ freq = Clamp(want.freq, req.rate)

\* The wanted frequency keeps the band above zero, SDRThread's is the wanted
\* one once it is stored, and so is the device's once it was applied.
FreqInv ==
  /\ Starting \/ Clamp(want.freq, want.rate) = want.freq
  /\ main = "idle" \/ caller = "called" \/ Asked(req.freq)
  /\ thread = "freqClear" => caller = "called" \/ "freq" \in raced \/ Asked(hw.freq)
  /\ Live => flag.freq \/ caller \in {"called", "stored"} \/ "freq" \in raced \/ Asked(hw.freq)

\* init reads the saved correction and writes it back.
PpmInv ==
  /\ conf.ppm = want.ppm \/ main = "ppmStored"
  /\ thread = "initStore" => "ppm" \in raced \/ local = want.ppm
  /\ req.ppm = want.ppm \/ "ppm" \in raced
  /\ thread = "ppmClear" => "ppm" \in raced \/ hw.ppm = want.ppm
  /\ Live => flag.ppm \/ main = "ppmStored" \/ "ppm" \in raced \/ hw.ppm = want.ppm

\* The flag that setDevice raises stays up until the thread's first pass.
AgcInv ==
  /\ want.agc = IF main = "idle" THEN conf.agc ELSE req.agc
  /\ thread \in {"new", "initRead", "initStore", "initDevice", "agcClear"} => flag.agc
  /\ thread = "agcClear" => "agc" \in raced \/ hw.agc = want.agc
  /\ Live => flag.agc \/ client \in {"auto", "manual"} \/ "agc" \in raced \/ hw.agc = want.agc

\* A gain waits with its two flags, or the saved one is on its way from the
\* configuration, or the device has it.
GainInv ==
  /\ dirty = flag.gain
  /\ client = "gainStored" \/ "gain" \in raced \/ conf.gain = want.gain
  /\ thread = "agcGains" => client = "gainStored" \/ "gain" \in raced \/ local = want.gain
  /\ flag.gain => "gain" \in raced \/ req.gain = want.gain
  /\ Live /\ thread \notin {"agcRead", "agcGains"} =>
       \/ flag.gain \/ flag.agc \/ want.agc \/ client \in {"manual", "gain"}
       \/ raced \cap {"agc", "gain"} # {} \/ hw.gain = want.gain

TunerInv ==
  TypeInv /\ OrderInv /\ RateInv /\ FreqInv /\ PpmInv /\ AgcInv /\ GainInv

-----------------------------------------------------------------------------
\* setFrequency never asks for less than half of the rate, and asking again
\* changes nothing.
LEMMA ClampFacts ==
  ASSUME NEW freq \in Nat, NEW rate \in Nat
  PROVE  /\ Clamp(freq, rate) \in Nat
         /\ Clamp(Clamp(freq, rate), rate) = Clamp(freq, rate)
<1>1. rate \div 2 \in Nat
  OBVIOUS
<1>2. QED
  BY <1>1 DEF Clamp

\* Every step keeps the types: the caller, the client and main pass through their
\* places one at a time, and only naturals reach the device.
LEMMA TypeInvStep ==
  ASSUME TypeInv, [Next]_vars
  PROVE  TypeInv'
<1> USE TunerAssumption, ClampFacts
    DEF TypeInv, Values, Settings, requests, signal, bounds, Goes, GainsOfDevice
<1>1. flag' \in [Settings \cup {"agc"} -> BOOLEAN]
  <2>1. CASE ThreadBegins \/ InitReads \/ InitStores \/ InitDevice \/ RateApply
    BY <2>1 DEF ThreadBegins, InitReads, InitStores, InitDevice, RateApply
  <2>2. CASE RateClear \/ PpmApply \/ PpmClear \/ FreqApply \/ FreqClear
    BY <2>2 DEF RateClear, PpmApply, PpmClear, FreqApply, FreqClear
  <2>3. CASE FreqTell \/ AgcApply \/ AgcClear \/ AgcReads \/ AgcGains
    <3>1. CASE FreqTell
      BY <3>1 DEF FreqTell
    <3>2. CASE AgcApply
      BY <3>2 DEF AgcApply
    <3>3. CASE AgcClear
      BY <3>3 DEF AgcClear
    <3>4. CASE AgcReads
      BY <3>4 DEF AgcReads
    <3>5. CASE AgcGains
      BY <3>5 DEF AgcGains
    <3>6. QED
      BY <2>3, <3>1, <3>2, <3>3, <3>4, <3>5
  <2>4. CASE GainApply \/ ReadLoop \/ Top \/ ReadStream \/ ThreadEnds
    BY <2>4 DEF GainApply, ReadLoop, Top, ReadStream, ThreadEnds
  <2>5. CASE StoreFrequency \/ FlagFrequency \/ LockMessage \/ TestMessage \/
        WakeMessage
    BY <2>5 DEF StoreFrequency, FlagFrequency, LockMessage, TestMessage,
           WakeMessage
  <2>6. CASE Retune
    BY <2>6 DEF Retune
  <2>7. CASE FlagAGCMode \/ SetGain \/ SetGainConfig \/ SetAGCMode
    BY <2>7 DEF FlagAGCMode, SetGain, SetGainConfig, SetAGCMode
  <2>8. CASE SetDevice \/ SetPPM \/ SetPPMFlag \/ SetSampleRate \/
        SetSampleRateFlag
    BY <2>8 DEF SetDevice, SetPPM, SetPPMFlag, SetSampleRate, SetSampleRateFlag
  <2>9. CASE Started \/ PollEnds \/ Join \/ OnExit \/ StopDevice
    BY <2>9 DEF Started, PollEnds, Join, OnExit, StopDevice
  <2>10. CASE UNCHANGED vars
    BY <2>10 DEF vars
  <2>11. QED
    BY <2>1, <2>2, <2>3, <2>4, <2>5, <2>6, <2>7, <2>8, <2>9, <2>10
    DEF Next, Thread, Caller, Client, Main
<1>2. want' \in Values
  <2>1. CASE ThreadBegins \/ InitReads \/ InitStores \/ InitDevice \/ RateApply
    BY <2>1 DEF ThreadBegins, InitReads, InitStores, InitDevice, RateApply
  <2>2. CASE RateClear \/ PpmApply \/ PpmClear \/ FreqApply \/ FreqClear
    BY <2>2 DEF RateClear, PpmApply, PpmClear, FreqApply, FreqClear
  <2>3. CASE FreqTell \/ AgcApply \/ AgcClear \/ AgcReads \/ AgcGains
    BY <2>3 DEF FreqTell, AgcApply, AgcClear, AgcReads, AgcGains
  <2>4. CASE GainApply \/ ReadLoop \/ Top \/ ReadStream \/ ThreadEnds
    BY <2>4 DEF GainApply, ReadLoop, Top, ReadStream, ThreadEnds
  <2>5. CASE StoreFrequency \/ FlagFrequency \/ LockMessage \/ TestMessage \/
        WakeMessage
    BY <2>5 DEF StoreFrequency, FlagFrequency, LockMessage, TestMessage,
           WakeMessage
  <2>6. CASE Retune
    BY <2>6 DEF Retune
  <2>7. CASE FlagAGCMode \/ SetGain \/ SetGainConfig \/ SetAGCMode
    BY <2>7 DEF FlagAGCMode, SetGain, SetGainConfig, SetAGCMode
  <2>8. CASE SetDevice \/ SetPPM \/ SetPPMFlag \/ SetSampleRate \/
        SetSampleRateFlag
    BY <2>8 DEF SetDevice, SetPPM, SetPPMFlag, SetSampleRate, SetSampleRateFlag
  <2>9. CASE Started \/ PollEnds \/ Join \/ OnExit \/ StopDevice
    BY <2>9 DEF Started, PollEnds, Join, OnExit, StopDevice
  <2>10. CASE UNCHANGED vars
    BY <2>10 DEF vars
  <2>11. QED
    BY <2>1, <2>2, <2>3, <2>4, <2>5, <2>6, <2>7, <2>8, <2>9, <2>10
    DEF Next, Thread, Caller, Client, Main
<1>3. req' \in Values
  <2>1. CASE ThreadBegins \/ InitReads \/ InitStores \/ InitDevice \/ RateApply
    BY <2>1 DEF ThreadBegins, InitReads, InitStores, InitDevice, RateApply
  <2>2. CASE RateClear \/ PpmApply \/ PpmClear \/ FreqApply \/ FreqClear
    BY <2>2 DEF RateClear, PpmApply, PpmClear, FreqApply, FreqClear
  <2>3. CASE FreqTell \/ AgcApply \/ AgcClear \/ AgcReads \/ AgcGains
    BY <2>3 DEF FreqTell, AgcApply, AgcClear, AgcReads, AgcGains
  <2>4. CASE GainApply \/ ReadLoop \/ Top \/ ReadStream \/ ThreadEnds
    BY <2>4 DEF GainApply, ReadLoop, Top, ReadStream, ThreadEnds
  <2>5. CASE StoreFrequency \/ FlagFrequency \/ LockMessage \/ TestMessage \/
        WakeMessage
    BY <2>5 DEF StoreFrequency, FlagFrequency, LockMessage, TestMessage,
           WakeMessage
  <2>6. CASE Retune
    BY <2>6 DEF Retune
  <2>7. CASE FlagAGCMode \/ SetGain \/ SetGainConfig \/ SetAGCMode
    BY <2>7 DEF FlagAGCMode, SetGain, SetGainConfig, SetAGCMode
  <2>8. CASE SetDevice \/ SetPPM \/ SetPPMFlag \/ SetSampleRate \/
        SetSampleRateFlag
    <3>1. CASE SetDevice
      BY <3>1 DEF SetDevice
    <3>2. CASE SetPPM
      BY <3>2 DEF SetPPM
    <3>3. CASE SetPPMFlag
      BY <3>3 DEF SetPPMFlag
    <3>4. CASE SetSampleRate
      BY <3>4 DEF SetSampleRate
    <3>5. CASE SetSampleRateFlag
      BY <3>5 DEF SetSampleRateFlag
    <3>6. QED
      BY <2>8, <3>1, <3>2, <3>3, <3>4, <3>5
  <2>9. CASE Started \/ PollEnds \/ Join \/ OnExit \/ StopDevice
    BY <2>9 DEF Started, PollEnds, Join, OnExit, StopDevice
  <2>10. CASE UNCHANGED vars
    BY <2>10 DEF vars
  <2>11. QED
    BY <2>1, <2>2, <2>3, <2>4, <2>5, <2>6, <2>7, <2>8, <2>9, <2>10
    DEF Next, Thread, Caller, Client, Main
<1>4. hw' \in Values
  <2>1. CASE ThreadBegins \/ InitReads \/ InitStores \/ InitDevice \/ RateApply
    BY <2>1 DEF ThreadBegins, InitReads, InitStores, InitDevice, RateApply
  <2>2. CASE RateClear \/ PpmApply \/ PpmClear \/ FreqApply \/ FreqClear
    BY <2>2 DEF RateClear, PpmApply, PpmClear, FreqApply, FreqClear
  <2>3. CASE FreqTell \/ AgcApply \/ AgcClear \/ AgcReads \/ AgcGains
    BY <2>3 DEF FreqTell, AgcApply, AgcClear, AgcReads, AgcGains
  <2>4. CASE GainApply \/ ReadLoop \/ Top \/ ReadStream \/ ThreadEnds
    BY <2>4 DEF GainApply, ReadLoop, Top, ReadStream, ThreadEnds
  <2>5. CASE StoreFrequency \/ FlagFrequency \/ LockMessage \/ TestMessage \/
        WakeMessage
    BY <2>5 DEF StoreFrequency, FlagFrequency, LockMessage, TestMessage,
           WakeMessage
  <2>6. CASE Retune
    BY <2>6 DEF Retune
  <2>7. CASE FlagAGCMode \/ SetGain \/ SetGainConfig \/ SetAGCMode
    BY <2>7 DEF FlagAGCMode, SetGain, SetGainConfig, SetAGCMode
  <2>8. CASE SetDevice \/ SetPPM \/ SetPPMFlag \/ SetSampleRate \/
        SetSampleRateFlag
    BY <2>8 DEF SetDevice, SetPPM, SetPPMFlag, SetSampleRate, SetSampleRateFlag
  <2>9. CASE Started \/ PollEnds \/ Join \/ OnExit \/ StopDevice
    BY <2>9 DEF Started, PollEnds, Join, OnExit, StopDevice
  <2>10. CASE UNCHANGED vars
    BY <2>10 DEF vars
  <2>11. QED
    BY <2>1, <2>2, <2>3, <2>4, <2>5, <2>6, <2>7, <2>8, <2>9, <2>10
    DEF Next, Thread, Caller, Client, Main
<1>5. conf' \in [rate : Nat, ppm : Nat, agc : BOOLEAN, gain : Nat]
  <2>1. CASE ThreadBegins \/ InitReads \/ InitStores \/ InitDevice \/ RateApply
    BY <2>1 DEF ThreadBegins, InitReads, InitStores, InitDevice, RateApply
  <2>2. CASE RateClear \/ PpmApply \/ PpmClear \/ FreqApply \/ FreqClear
    BY <2>2 DEF RateClear, PpmApply, PpmClear, FreqApply, FreqClear
  <2>3. CASE FreqTell \/ AgcApply \/ AgcClear \/ AgcReads \/ AgcGains
    BY <2>3 DEF FreqTell, AgcApply, AgcClear, AgcReads, AgcGains
  <2>4. CASE GainApply \/ ReadLoop \/ Top \/ ReadStream \/ ThreadEnds
    BY <2>4 DEF GainApply, ReadLoop, Top, ReadStream, ThreadEnds
  <2>5. CASE StoreFrequency \/ FlagFrequency \/ LockMessage \/ TestMessage \/
        WakeMessage
    BY <2>5 DEF StoreFrequency, FlagFrequency, LockMessage, TestMessage,
           WakeMessage
  <2>6. CASE Retune
    BY <2>6 DEF Retune
  <2>7. CASE FlagAGCMode \/ SetGain \/ SetGainConfig \/ SetAGCMode
    BY <2>7 DEF FlagAGCMode, SetGain, SetGainConfig, SetAGCMode
  <2>8. CASE SetDevice \/ SetPPM \/ SetPPMFlag \/ SetSampleRate \/
        SetSampleRateFlag
    BY <2>8 DEF SetDevice, SetPPM, SetPPMFlag, SetSampleRate, SetSampleRateFlag
  <2>9. CASE Started \/ PollEnds \/ Join \/ OnExit \/ StopDevice
    BY <2>9 DEF Started, PollEnds, Join, OnExit, StopDevice
  <2>10. CASE UNCHANGED vars
    BY <2>10 DEF vars
  <2>11. QED
    BY <2>1, <2>2, <2>3, <2>4, <2>5, <2>6, <2>7, <2>8, <2>9, <2>10
    DEF Next, Thread, Caller, Client, Main
<1>6. /\ dirty' \in BOOLEAN /\ local' \in Nat
      /\ raced' \subseteq Settings \cup {"agc"}
  <2>1. CASE ThreadBegins \/ InitReads \/ InitStores \/ InitDevice \/ RateApply
    BY <2>1 DEF ThreadBegins, InitReads, InitStores, InitDevice, RateApply
  <2>2. CASE RateClear \/ PpmApply \/ PpmClear \/ FreqApply \/ FreqClear
    BY <2>2 DEF RateClear, PpmApply, PpmClear, FreqApply, FreqClear
  <2>3. CASE FreqTell \/ AgcApply \/ AgcClear \/ AgcReads \/ AgcGains
    <3>1. CASE FreqTell
      BY <3>1 DEF FreqTell
    <3>2. CASE AgcApply
      BY <3>2 DEF AgcApply
    <3>3. CASE AgcClear
      BY <3>3 DEF AgcClear
    <3>4. CASE AgcReads
      BY <3>4 DEF AgcReads
    <3>5. CASE AgcGains
      BY <3>5 DEF AgcGains
    <3>6. QED
      BY <2>3, <3>1, <3>2, <3>3, <3>4, <3>5
  <2>4. CASE GainApply \/ ReadLoop \/ Top \/ ReadStream \/ ThreadEnds
    BY <2>4 DEF GainApply, ReadLoop, Top, ReadStream, ThreadEnds
  <2>5. CASE StoreFrequency \/ FlagFrequency \/ LockMessage \/ TestMessage \/
        WakeMessage
    BY <2>5 DEF StoreFrequency, FlagFrequency, LockMessage, TestMessage,
           WakeMessage
  <2>6. CASE Retune
    BY <2>6 DEF Retune
  <2>7. CASE FlagAGCMode \/ SetGain \/ SetGainConfig \/ SetAGCMode
    BY <2>7 DEF FlagAGCMode, SetGain, SetGainConfig, SetAGCMode
  <2>8. CASE SetDevice \/ SetPPM \/ SetPPMFlag \/ SetSampleRate \/
        SetSampleRateFlag
    BY <2>8 DEF SetDevice, SetPPM, SetPPMFlag, SetSampleRate, SetSampleRateFlag
  <2>9. CASE Started \/ PollEnds \/ Join \/ OnExit \/ StopDevice
    BY <2>9 DEF Started, PollEnds, Join, OnExit, StopDevice
  <2>10. CASE UNCHANGED vars
    BY <2>10 DEF vars
  <2>11. QED
    BY <2>1, <2>2, <2>3, <2>4, <2>5, <2>6, <2>7, <2>8, <2>9, <2>10
    DEF Next, Thread, Caller, Client, Main
<1>7. /\ thread' \in {"none", "new", "initRead", "initStore", "initDevice", "rate", "rateClear",
                     "ppm", "ppmClear", "freq", "freqClear", "freqTell", "agc", "agcClear",
                     "agcRead", "agcGains", "gain", "readLoop", "read", "top", "ending", "done"}
      /\ main' \in {"idle", "ppm", "ppmStored", "rate", "rateStored", "tuning", "ready",
                   "polling", "joining", "joined", "stopped", "exit11"}
      /\ caller' \in {"idle", "called", "stored", "flagged", "locked", "waiting", "woken"}
      /\ client' \in {"idle", "auto", "manual", "gain", "gainStored"}
  <2>1. CASE ThreadBegins \/ InitReads \/ InitStores \/ InitDevice \/ RateApply
    BY <2>1 DEF ThreadBegins, InitReads, InitStores, InitDevice, RateApply
  <2>2. CASE RateClear \/ PpmApply \/ PpmClear \/ FreqApply \/ FreqClear
    BY <2>2 DEF RateClear, PpmApply, PpmClear, FreqApply, FreqClear
  <2>3. CASE FreqTell \/ AgcApply \/ AgcClear \/ AgcReads \/ AgcGains
    BY <2>3 DEF FreqTell, AgcApply, AgcClear, AgcReads, AgcGains
  <2>4. CASE GainApply \/ ReadLoop \/ Top \/ ReadStream \/ ThreadEnds
    BY <2>4 DEF GainApply, ReadLoop, Top, ReadStream, ThreadEnds
  <2>5. CASE StoreFrequency \/ FlagFrequency \/ LockMessage \/ TestMessage \/
        WakeMessage
    BY <2>5 DEF StoreFrequency, FlagFrequency, LockMessage, TestMessage,
           WakeMessage
  <2>6. CASE Retune
    BY <2>6 DEF Retune
  <2>7. CASE FlagAGCMode \/ SetGain \/ SetGainConfig \/ SetAGCMode
    BY <2>7 DEF FlagAGCMode, SetGain, SetGainConfig, SetAGCMode
  <2>8. CASE SetDevice \/ SetPPM \/ SetPPMFlag \/ SetSampleRate \/
        SetSampleRateFlag
    BY <2>8 DEF SetDevice, SetPPM, SetPPMFlag, SetSampleRate, SetSampleRateFlag
  <2>9. CASE Started \/ PollEnds \/ Join \/ OnExit \/ StopDevice
    <3>1. CASE Started
      BY <3>1 DEF Started
    <3>2. CASE PollEnds
      BY <3>2 DEF PollEnds
    <3>3. CASE Join
      BY <3>3 DEF Join
    <3>4. CASE OnExit
      BY <3>4 DEF OnExit
    <3>5. CASE StopDevice
      BY <3>5 DEF StopDevice
    <3>6. QED
      BY <2>9, <3>1, <3>2, <3>3, <3>4, <3>5
  <2>10. CASE UNCHANGED vars
    BY <2>10 DEF vars
  <2>11. QED
    BY <2>1, <2>2, <2>3, <2>4, <2>5, <2>6, <2>7, <2>8, <2>9, <2>10
    DEF Next, Thread, Caller, Client, Main
<1>8. QED
  BY <1>1, <1>2, <1>3, <1>4, <1>5, <1>6, <1>7

\* Nobody but main calls before the start is over, and the thread starts with setDevice.
LEMMA OrderInvStep ==
  ASSUME TypeInv, OrderInv, [Next]_vars
  PROVE  OrderInv'
<1> USE TunerAssumption DEF TypeInv, OrderInv, Values, Settings, Live, Goes,
        requests, signal, bounds, Starting, Clamp, GainsOfDevice
<1>1. CASE ThreadBegins
  BY <1>1 DEF ThreadBegins
<1>2. CASE SetDevice
  BY <1>2 DEF SetDevice
<1>3. CASE StoreFrequency
  BY <1>3 DEF StoreFrequency
<1>4. CASE SetPPM
  BY <1>4 DEF SetPPM
<1>5. CASE SetSampleRate
  BY <1>5 DEF SetSampleRate
<1>6. CASE SetSampleRateFlag
  BY <1>6 DEF SetSampleRateFlag
<1>7. CASE Started
  BY <1>7 DEF Started
<1>8. CASE Retune
  BY <1>8 DEF Retune
<1>9. CASE SetAGCMode
  BY <1>9 DEF SetAGCMode
<1>10. CASE InitReads \/ InitStores \/ InitDevice \/ RateApply \/ RateClear
  BY <1>10 DEF InitReads, InitStores, InitDevice, RateApply, RateClear
<1>11. CASE PpmApply \/ PpmClear \/ FreqApply \/ FreqClear \/ FreqTell
  BY <1>11 DEF PpmApply, PpmClear, FreqApply, FreqClear, FreqTell
<1>12. CASE AgcApply \/ AgcClear \/ AgcReads \/ AgcGains \/ GainApply
  BY <1>12 DEF AgcApply, AgcClear, AgcReads, AgcGains, GainApply
<1>13. CASE ReadLoop \/ Top \/ ReadStream \/ ThreadEnds
  BY <1>13 DEF ReadLoop, Top, ReadStream, ThreadEnds
<1>14. CASE FlagFrequency \/ LockMessage \/ TestMessage \/ WakeMessage
  BY <1>14 DEF FlagFrequency, LockMessage, TestMessage, WakeMessage
<1>15. CASE FlagAGCMode \/ SetGain \/ SetGainConfig
  BY <1>15 DEF FlagAGCMode, SetGain, SetGainConfig
<1>16. CASE SetPPMFlag \/ PollEnds \/ Join \/ OnExit \/ StopDevice
  BY <1>16 DEF SetPPMFlag, PollEnds, Join, OnExit, StopDevice
<1>17. CASE UNCHANGED vars
  BY <1>17 DEF vars
<1>18. QED
  BY <1>1, <1>2, <1>3, <1>4, <1>5, <1>6, <1>7, <1>8, <1>9, <1>10, <1>11, <1>12,
     <1>13, <1>14, <1>15, <1>16, <1>17 DEF Next, Thread, Caller, Client, Main

\* updateSettings reads the rate back from the device: a rate stored meanwhile is lost.
LEMMA RateInvStep ==
  ASSUME TypeInv, OrderInv, RateInv, [Next]_vars
  PROVE  RateInv'
<1> USE TunerAssumption DEF TypeInv, OrderInv, RateInv, Values, Settings,
        Live, Goes, requests, signal, bounds, GainsOfDevice
<1>1. CASE InitDevice
  BY <1>1 DEF InitDevice
<1>2. CASE RateApply
  BY <1>2 DEF RateApply
<1>3. CASE RateClear
  BY <1>3 DEF RateClear
<1>4. CASE SetDevice
  BY <1>4 DEF SetDevice
<1>5. CASE SetSampleRate
  BY <1>5 DEF SetSampleRate
<1>6. CASE SetSampleRateFlag
  BY <1>6 DEF SetSampleRateFlag
<1>7. CASE ThreadBegins \/ InitReads \/ InitStores \/ PpmApply \/ PpmClear
  BY <1>7 DEF ThreadBegins, InitReads, InitStores, PpmApply, PpmClear
<1>8. CASE FreqApply \/ FreqClear \/ FreqTell \/ AgcApply \/ AgcClear
  <2>1. CASE FreqApply
    BY <2>1 DEF FreqApply
  <2>2. CASE FreqClear
    BY <2>2 DEF FreqClear
  <2>3. CASE FreqTell
    BY <2>3 DEF FreqTell
  <2>4. CASE AgcApply
    BY <2>4 DEF AgcApply
  <2>5. CASE AgcClear
    BY <2>5 DEF AgcClear
  <2>6. QED
    BY <1>8, <2>1, <2>2, <2>3, <2>4, <2>5
<1>9. CASE AgcReads \/ AgcGains \/ GainApply \/ ReadLoop
  BY <1>9 DEF AgcReads, AgcGains, GainApply, ReadLoop
<1>10. CASE Top \/ ReadStream \/ ThreadEnds
  BY <1>10 DEF Top, ReadStream, ThreadEnds
<1>11. CASE StoreFrequency \/ FlagFrequency \/ LockMessage
  BY <1>11 DEF StoreFrequency, FlagFrequency, LockMessage
<1>12. CASE TestMessage \/ WakeMessage \/ Retune
  BY <1>12 DEF TestMessage, WakeMessage, Retune
<1>13. CASE FlagAGCMode \/ SetGain \/ SetGainConfig \/ SetAGCMode
  BY <1>13 DEF FlagAGCMode, SetGain, SetGainConfig, SetAGCMode
<1>14. CASE SetPPM \/ SetPPMFlag \/ Started \/ PollEnds
  BY <1>14 DEF SetPPM, SetPPMFlag, Started, PollEnds
<1>15. CASE Join \/ OnExit \/ StopDevice
  BY <1>15 DEF Join, OnExit, StopDevice
<1>16. CASE UNCHANGED vars
  BY <1>16 DEF vars
<1>17. QED
  BY <1>1, <1>2, <1>3, <1>4, <1>5, <1>6, <1>7, <1>8, <1>9, <1>10, <1>11, <1>12,
     <1>13, <1>14, <1>15, <1>16 DEF Next, Thread, Caller, Client, Main

\* A frequency is followed from setFrequency through the flag to the device; the
\* clamping with the rate is the same at each of its two places.
LEMMA FreqInvStep ==
  ASSUME TypeInv, OrderInv, RateInv, FreqInv, [Next]_vars
  PROVE  FreqInv'
<1> USE TunerAssumption DEF TypeInv, OrderInv, FreqInv, Values, Settings,
        Live, Goes, requests, signal, bounds, RateInv, Asked, Starting,
        GainsOfDevice
<1>1. CASE InitDevice
  BY <1>1 DEF InitDevice
<1>2. CASE RateClear
  BY <1>2 DEF RateClear
<1>3. CASE FreqApply
  BY <1>3 DEF FreqApply
<1>4. CASE FreqClear
  BY <1>4 DEF FreqClear
<1>5. CASE SetDevice
  BY <1>5 DEF SetDevice
<1>6. CASE SetSampleRateFlag
  <2>1. Clamp(Clamp(want.freq, want.rate), want.rate) = Clamp(want.freq, want.rate)
    BY ClampFacts
  <2>2. QED
    BY <1>6, <2>1 DEF SetSampleRateFlag
<1>7. CASE Retune
  <2>1. PICK freq \in Freqs : want' = [want EXCEPT !.freq = Clamp(freq, want.rate)]
    BY <1>7 DEF Retune
  <2>2. Clamp(Clamp(freq, want.rate), want.rate) = Clamp(freq, want.rate)
    BY ClampFacts
  <2>3. QED
    BY <1>7, <2>1, <2>2 DEF Retune
<1>8. CASE StoreFrequency
  BY <1>8 DEF StoreFrequency
<1>9. CASE FlagFrequency
  BY <1>9 DEF FlagFrequency
<1>10. CASE ThreadBegins \/ InitReads \/ InitStores
  BY <1>10 DEF ThreadBegins, InitReads, InitStores
<1>11. CASE RateApply
  BY <1>11 DEF RateApply
<1>12. CASE PpmApply \/ PpmClear \/ FreqTell
  BY <1>12 DEF PpmApply, PpmClear, FreqTell
<1>13. CASE AgcApply \/ AgcClear \/ AgcReads
  <2>1. CASE AgcApply
    BY <2>1 DEF AgcApply
  <2>2. CASE AgcClear
    BY <2>2 DEF AgcClear
  <2>3. CASE AgcReads
    BY <2>3 DEF AgcReads
  <2>4. QED
    BY <1>13, <2>1, <2>2, <2>3
<1>14. CASE AgcGains \/ GainApply \/ ReadLoop
  BY <1>14 DEF AgcGains, GainApply, ReadLoop
<1>15. CASE Top \/ ReadStream \/ ThreadEnds
  BY <1>15 DEF Top, ReadStream, ThreadEnds
<1>16. CASE LockMessage \/ TestMessage \/ WakeMessage
  BY <1>16 DEF LockMessage, TestMessage, WakeMessage
<1>17. CASE FlagAGCMode \/ SetGain \/ SetGainConfig \/ SetAGCMode
  BY <1>17 DEF FlagAGCMode, SetGain, SetGainConfig, SetAGCMode
<1>18. CASE SetPPM \/ SetPPMFlag \/ SetSampleRate \/ Started
  BY <1>18 DEF SetPPM, SetPPMFlag, SetSampleRate, Started
<1>19. CASE PollEnds \/ Join \/ OnExit \/ StopDevice
  BY <1>19 DEF PollEnds, Join, OnExit, StopDevice
<1>20. CASE UNCHANGED vars
  BY <1>20 DEF vars
<1>21. QED
  BY <1>1, <1>2, <1>3, <1>4, <1>5, <1>6, <1>7, <1>8, <1>9, <1>10, <1>11, <1>12,
     <1>13, <1>14, <1>15, <1>16, <1>17, <1>18, <1>19, <1>20 DEF Next, Thread,
     Caller, Client, Main

\* init's copy of the correction races with setPPM, and only with it.
LEMMA PpmInvStep ==
  ASSUME TypeInv, OrderInv, PpmInv, [Next]_vars
  PROVE  PpmInv'
<1> USE TunerAssumption DEF TypeInv, OrderInv, PpmInv, Values, Settings,
        Live, Goes, requests, signal, bounds, GainsOfDevice
<1>1. CASE InitReads
  BY <1>1 DEF InitReads
<1>2. CASE InitStores
  BY <1>2 DEF InitStores
<1>3. CASE InitDevice
  BY <1>3 DEF InitDevice
<1>4. CASE PpmApply
  BY <1>4 DEF PpmApply
<1>5. CASE PpmClear
  BY <1>5 DEF PpmClear
<1>6. CASE AgcGains
  BY <1>6 DEF AgcGains
<1>7. CASE SetDevice
  BY <1>7 DEF SetDevice
<1>8. CASE SetPPM
  BY <1>8 DEF SetPPM
<1>9. CASE SetPPMFlag
  BY <1>9 DEF SetPPMFlag
<1>10. CASE ThreadBegins \/ RateApply \/ RateClear \/ FreqApply \/ FreqClear
  BY <1>10 DEF ThreadBegins, RateApply, RateClear, FreqApply, FreqClear
<1>11. CASE FreqTell \/ AgcApply \/ AgcClear \/ AgcReads \/ GainApply
  <2>1. CASE FreqTell
    BY <2>1 DEF FreqTell
  <2>2. CASE AgcApply
    BY <2>2 DEF AgcApply
  <2>3. CASE AgcClear
    BY <2>3 DEF AgcClear
  <2>4. CASE AgcReads
    BY <2>4 DEF AgcReads
  <2>5. CASE GainApply
    BY <2>5 DEF GainApply
  <2>6. QED
    BY <1>11, <2>1, <2>2, <2>3, <2>4, <2>5
<1>12. CASE ReadLoop \/ Top \/ ReadStream \/ ThreadEnds
  BY <1>12 DEF ReadLoop, Top, ReadStream, ThreadEnds
<1>13. CASE StoreFrequency \/ FlagFrequency \/ LockMessage
  BY <1>13 DEF StoreFrequency, FlagFrequency, LockMessage
<1>14. CASE TestMessage \/ WakeMessage \/ Retune
  BY <1>14 DEF TestMessage, WakeMessage, Retune
<1>15. CASE FlagAGCMode \/ SetGain \/ SetGainConfig \/ SetAGCMode
  BY <1>15 DEF FlagAGCMode, SetGain, SetGainConfig, SetAGCMode
<1>16. CASE SetSampleRate \/ SetSampleRateFlag \/ Started \/ PollEnds
  BY <1>16 DEF SetSampleRate, SetSampleRateFlag, Started, PollEnds
<1>17. CASE Join \/ OnExit \/ StopDevice
  BY <1>17 DEF Join, OnExit, StopDevice
<1>18. CASE UNCHANGED vars
  BY <1>18 DEF vars
<1>19. QED
  BY <1>1, <1>2, <1>3, <1>4, <1>5, <1>6, <1>7, <1>8, <1>9, <1>10, <1>11, <1>12,
     <1>13, <1>14, <1>15, <1>16, <1>17, <1>18 DEF Next, Thread, Caller, Client,
     Main

\* The mode has no copy but the one in use.
LEMMA AgcInvStep ==
  ASSUME TypeInv, OrderInv, AgcInv, [Next]_vars
  PROVE  AgcInv'
<1> USE TunerAssumption DEF TypeInv, OrderInv, AgcInv, Values, Settings,
        Live, Goes, requests, signal, bounds, GainsOfDevice
<1>1. CASE InitDevice
  BY <1>1 DEF InitDevice
<1>2. CASE AgcApply
  BY <1>2 DEF AgcApply
<1>3. CASE AgcClear
  BY <1>3 DEF AgcClear
<1>4. CASE SetDevice
  BY <1>4 DEF SetDevice
<1>5. CASE SetAGCMode
  BY <1>5 DEF SetAGCMode
<1>6. CASE FlagAGCMode
  BY <1>6 DEF FlagAGCMode
<1>7. CASE ThreadBegins \/ InitReads \/ InitStores \/ RateApply \/ RateClear
  BY <1>7 DEF ThreadBegins, InitReads, InitStores, RateApply, RateClear
<1>8. CASE PpmApply \/ PpmClear \/ FreqApply \/ FreqClear \/ FreqTell
  BY <1>8 DEF PpmApply, PpmClear, FreqApply, FreqClear, FreqTell
<1>9. CASE AgcReads \/ AgcGains \/ GainApply \/ ReadLoop
  BY <1>9 DEF AgcReads, AgcGains, GainApply, ReadLoop
<1>10. CASE Top \/ ReadStream \/ ThreadEnds
  BY <1>10 DEF Top, ReadStream, ThreadEnds
<1>11. CASE StoreFrequency \/ FlagFrequency \/ LockMessage
  BY <1>11 DEF StoreFrequency, FlagFrequency, LockMessage
<1>12. CASE TestMessage \/ WakeMessage \/ Retune
  BY <1>12 DEF TestMessage, WakeMessage, Retune
<1>13. CASE SetGain \/ SetGainConfig
  BY <1>13 DEF SetGain, SetGainConfig
<1>14. CASE SetPPM \/ SetPPMFlag \/ SetSampleRate \/ SetSampleRateFlag \/
        Started
  BY <1>14 DEF SetPPM, SetPPMFlag, SetSampleRate, SetSampleRateFlag, Started
<1>15. CASE PollEnds \/ Join \/ OnExit \/ StopDevice
  BY <1>15 DEF PollEnds, Join, OnExit, StopDevice
<1>16. CASE UNCHANGED vars
  BY <1>16 DEF vars
<1>17. QED
  BY <1>1, <1>2, <1>3, <1>4, <1>5, <1>6, <1>7, <1>8, <1>9, <1>10, <1>11, <1>12,
     <1>13, <1>14, <1>15, <1>16 DEF Next, Thread, Caller, Client, Main

\* The gain has two flags, is read back when manual gain begins and when readLoop
\* begins, and comes from the configuration again after that.
LEMMA GainInvStep ==
  ASSUME TypeInv, OrderInv, AgcInv, GainInv, [Next]_vars
  PROVE  GainInv'
<1> USE TunerAssumption DEF TypeInv, OrderInv, GainInv, Values, Settings,
        Live, Goes, requests, signal, bounds, AgcInv, GainsOfDevice, GainBusy
<1>1. CASE InitDevice
  BY <1>1 DEF InitDevice
<1>2. CASE AgcApply
  BY <1>2 DEF AgcApply
<1>3. CASE AgcClear
  BY <1>3 DEF AgcClear
<1>4. CASE AgcReads
  BY <1>4 DEF AgcReads
<1>5. CASE AgcGains
  BY <1>5 DEF AgcGains
<1>6. CASE GainApply
  <2>1. CASE flag.gain /\ ~req.agc
    <3>1. dirty
      BY <2>1
    <3>2. /\ hw' = [hw EXCEPT !.gain = req.gain]
          /\ flag' = [flag EXCEPT !.gain = FALSE] /\ dirty' = FALSE
          /\ UNCHANGED <<want, req, conf, local, client, main, raced>>
          /\ thread = "gain" /\ thread' \in {"read", "readLoop"}
      BY <1>6, <2>1, <3>1 DEF GainApply
    <3>3. "gain" \in raced \/ hw'.gain = want.gain
      BY <2>1, <3>2
    <3>4. QED
      BY <3>2, <3>3
  <2>2. CASE ~(flag.gain /\ ~req.agc)
    <3>1. UNCHANGED <<hw, flag, dirty, want, req, conf, local, client, main, raced>>
      BY <1>6, <2>2 DEF GainApply
    <3>2. thread = "gain" /\ thread' \in {"read", "readLoop"}
      BY <1>6 DEF GainApply
    <3>3. QED
      BY <3>1, <3>2
  <2>3. QED
    BY <2>1, <2>2
<1>7. CASE ReadLoop
  BY <1>7 DEF ReadLoop
<1>8. CASE SetAGCMode
  BY <1>8 DEF SetAGCMode
<1>9. CASE FlagAGCMode
  BY <1>9 DEF FlagAGCMode
<1>10. CASE SetGain
  BY <1>10 DEF SetGain
<1>11. CASE SetGainConfig
  BY <1>11 DEF SetGainConfig
<1>12. CASE SetDevice
  BY <1>12 DEF SetDevice
<1>13. CASE ThreadBegins \/ InitReads \/ InitStores \/ RateApply \/ RateClear
  BY <1>13 DEF ThreadBegins, InitReads, InitStores, RateApply, RateClear
<1>14. CASE PpmApply \/ PpmClear \/ FreqApply \/ FreqClear \/ FreqTell
  BY <1>14 DEF PpmApply, PpmClear, FreqApply, FreqClear, FreqTell
<1>15. CASE Top \/ ReadStream \/ ThreadEnds
  BY <1>15 DEF Top, ReadStream, ThreadEnds
<1>16. CASE StoreFrequency \/ FlagFrequency \/ LockMessage
  BY <1>16 DEF StoreFrequency, FlagFrequency, LockMessage
<1>17. CASE TestMessage \/ WakeMessage \/ Retune
  BY <1>17 DEF TestMessage, WakeMessage, Retune
<1>18. CASE SetPPM \/ SetPPMFlag \/ SetSampleRate \/ SetSampleRateFlag \/
        Started
  BY <1>18 DEF SetPPM, SetPPMFlag, SetSampleRate, SetSampleRateFlag, Started
<1>19. CASE PollEnds \/ Join \/ OnExit \/ StopDevice
  BY <1>19 DEF PollEnds, Join, OnExit, StopDevice
<1>20. CASE UNCHANGED vars
  BY <1>20 DEF vars
<1>21. QED
  BY <1>1, <1>2, <1>3, <1>4, <1>5, <1>6, <1>7, <1>8, <1>9, <1>10, <1>11, <1>12,
     <1>13, <1>14, <1>15, <1>16, <1>17, <1>18, <1>19, <1>20 DEF Next, Thread,
     Caller, Client, Main

\* The start, with the configuration that was saved.
LEMMA InitInv == Init => TunerInv
<1> SUFFICES ASSUME Init PROVE TunerInv
  OBVIOUS
<1>1. conf \in [rate : Nat, ppm : Nat, agc : BOOLEAN, gain : Nat]
  BY TunerAssumption DEF Init
<1>2. TypeInv
  BY <1>1, TunerAssumption DEF Init, TypeInv, Values, Settings, NoGain
<1>3. QED
  BY <1>1, <1>2 DEF Init, TunerInv, OrderInv, RateInv, FreqInv, PpmInv, AgcInv,
     GainInv, Live, Starting, Asked, Settings, NoGain

\* Every step of every thread keeps what the others rely on.
LEMMA NextInv == TunerInv /\ [Next]_vars => TunerInv'
  BY TypeInvStep, OrderInvStep, RateInvStep, FreqInvStep, PpmInvStep, AgcInvStep, GainInvStep
  DEF TunerInv

\* What each place of the tuner's thread and of its callers may rely on.
THEOREM TunerInvariant == Spec => []TunerInv
  BY InitInv, NextInv, PTL DEF Spec

\* Between two passes of updateSettings the device has every value that was
\* last asked for, but for one that is pending or fell into the window between
\* the thread's use of the old value and its lowering of the flag.
THEOREM SettingsReachDeviceHolds == Spec => []SettingsReachDevice
<1>1. TunerInv => SettingsReachDevice
  <2> SUFFICES ASSUME TunerInv, Reading PROVE SettingsReachDevice
    BY DEF SettingsReachDevice
  <2> USE DEF TunerInv, Reading, Live
  <2>1. hw.freq \in AskedFreqs \/ flag.freq \/ caller \in {"called", "stored"} \/ "freq" \in raced
    BY DEF FreqInv, Asked, AskedFreqs
  <2>2. flag.rate \/ main = "rateStored" \/ "rate" \in raced \/ hw.rate = want.rate
    BY DEF RateInv
  <2>3. flag.ppm \/ main = "ppmStored" \/ "ppm" \in raced \/ hw.ppm = want.ppm
    BY DEF PpmInv
  <2>4. flag.agc \/ client \in {"auto", "manual"} \/ "agc" \in raced \/ hw.agc = want.agc
    BY DEF AgcInv
  <2>5. \/ flag.gain \/ flag.agc \/ want.agc \/ client # "idle"
        \/ raced \cap {"agc", "gain"} # {} \/ hw.gain = want.gain
    BY DEF GainInv
  <2>6. QED
    BY <2>1, <2>2, <2>3, <2>4, <2>5 DEF SettingsReachDevice
<1>2. QED
  BY <1>1, TunerInvariant, PTL
=============================================================================
