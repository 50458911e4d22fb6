------------------------------- MODULE MCTuner -------------------------------
(***************************************************************************)
(* Instances of Tuner for TLC: what AppConfig has saved for the device,    *)
(* with a rate below PiScan's own or above it.                             *)
(***************************************************************************)
EXTENDS TunerProperties

SavedConfigs ==
  {[rate |-> 2, ppm |-> 0, agc |-> TRUE, gain |-> 1],
   [rate |-> 8, ppm |-> 1, agc |-> FALSE, gain |-> 1]}
=============================================================================
