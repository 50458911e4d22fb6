--------------------------- MODULE TunerProperties ---------------------------
(***************************************************************************)
(* What the tuner promises: a setting reaches the device, and callers and   *)
(* main get on.                                                            *)
(***************************************************************************)
EXTENDS Tuner

\* Between two passes of updateSettings.
Reading == thread \in {"top", "read"}

\* The frequency asked for. A rate lost in the window below may lift it:
\* SDRThread keeps it above half of the rate that it has.
AskedFreqs ==
  IF "rate" \in raced THEN {want.freq, Clamp(want.freq, req.rate)} ELSE {want.freq}

\* The device has what was last asked for once the flag is down, unless the
\* caller stored the value between the thread's use of the old one and its
\* lowering of the flag: that window is the only way to lose a request.
SettingsReachDevice ==
  Reading =>
    /\ flag.freq \/ caller \in {"called", "stored"} \/ "freq" \in raced
         \/ hw.freq \in AskedFreqs
    /\ flag.rate \/ main = "rateStored" \/ "rate" \in raced \/ hw.rate = want.rate
    /\ flag.ppm \/ main = "ppmStored" \/ "ppm" \in raced \/ hw.ppm = want.ppm
    /\ flag.agc \/ client \in {"auto", "manual"} \/ "agc" \in raced \/ hw.agc = want.agc
    /\ flag.gain \/ flag.agc \/ want.agc \/ client # "idle" \/ raced \cap {"agc", "gain"} # {}
         \/ hw.gain = want.gain

\* setFrequency's wait ends, unless the thread found the mutex taken and had
\* already lowered the flag: then nothing wakes the caller any more.
WaitEnds ==
  (caller = "waiting") ~> (caller # "waiting" \/ (missed /\ ~flag.freq))

\* stopDevice's join returns and OnExit finds the thread ended, unless the
\* thread had not begun when it was told to stop.
StopReturns == (main = "polling") ~> (main = "stopped" \/ erased)
=============================================================================
