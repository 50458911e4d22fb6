--------------------------- MODULE ModemsProperties ---------------------------
(***************************************************************************)
(* What the scanner relies on when it tunes a modem, reads a level and     *)
(* opens the audio.                                                        *)
(***************************************************************************)
EXTENDS Modems

\* Only the modem that was tuned can be heard: setFrequency and squelchBreak
\* both go to getCurrentModem(), whatever setModem and the post thread make
\* of current and context in between. It is on the entry's frequency unless
\* its pre-processor lowered the flag over it.
OpenModemIsTuned ==
  \A d \in Names : ~muted[d] =>
    /\ user = "receive" /\ d = current /\ newFrequency[d] = entry.freq
    /\ "forgotten" \in lapses \/ GetFrequency(d) = entry.freq

\* Once the post thread has seen the tuner's frequency, the modem that the
\* scanner tuned is active and gets the batches, whatever is still queued, as
\* long as no AM entry was visited and the events came in none of four
\* orders: batches during Demodulator::start, a retune undone before it was
\* seen, a batch between the tuner's and the modem's retune in
\* setTunerFrequency, a retune that fell between the pre-processor's taking
\* of a frequency and its lowering of the flag.
TunedModemIsFed ==
  (user \in {"idle", "receive"} /\ post = "pop" /\ band = center /\ lapses = {})
  => /\ current = "NFM" /\ active["NFM"] /\ InBand("NFM")
     /\ "NFM" \in runDemods
=============================================================================
