------------------------ MODULE LifecycleProperties ------------------------
(* What one start of the server leaves to the next.                        *)
EXTENDS Lifecycle

\* A process that ends leaves the database whole, unless it was killed,
\* failed to start, had no RTSP server or timed out: main waits for the
\* scanner's thread before it exits. Only a start that failed, before the
\* database was loaded, saves an empty one over it (main, ScannerSM::ST_SaveAll).
DatabaseIsKept ==
  file.systems = "all" =>
    [](~Alive => /\ file.systems = "cut" => fault # {}
                 /\ file.systems = "none" => "start" \in fault)

\* What the user was told of the settings last is what the next start tells
\* of them, as often as it is started, whatever the order in which the
\* threads stop; a gain with a fraction is lost on the way, for the automatic
\* one. The tuner is at the gain that is told, but for a gain that comes from
\* an earlier start, which it never hears of, and one read back while the
\* tuner's thread had its own in its place (Demodulator::stop,
\* State::saveToFile, DemodState::load, Demodulator::start, setTunerGain).
SettingsCarryOver ==
  At("run") /\ fault = {} =>
    /\ demod.squelch = chosen.squelch
    /\ demod.gain \in {chosen.gain, AsInt(chosen.gain)}
    /\ demod.gain # tunerGain => gap # "no"

\* While nothing is killed, a tuner that the program added to the list is
\* used only when none of the user's is available, on later starts too
\* (TunerManager::autoSelectTuner, TunerList::load and save).
UserTunersFirst ==
  fault = {} /\ tuner.by = "piscan" =>
    ~\E t \in list : t.by = "user" /\ \E d \in plugged : d.name = t.name /\ d.available

\* A start comes to the loop or the process ends: nobody waits for a module
\* that has failed (Synchronizable::waitReady, main).
StartSettles == At("load") ~> (At("run") \/ ~Alive)
=============================================================================
