------------------------------ MODULE MCClient ------------------------------
(* One client and the console.                                             *)
EXTENDS ClientProperties

\* 50, which is saved, fits the scale of PCT only, -50, which is chosen, that of
\* DBM only, and AUTO_GAIN no slider. Zero, which a message leaves out, is where
\* the scales meet.
ChosenSquelches == {-50}
ChosenGains == {AUTO_GAIN, 20}
OneStored == {[squelch |-> 50, gain |-> 0]}
=============================================================================
