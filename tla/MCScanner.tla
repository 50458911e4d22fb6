------------------------------ MODULE MCScanner ------------------------------
(***************************************************************************)
(* Instances of ScannerSM for TLC: databases and saved states to start in. *)
(***************************************************************************)
EXTENDS ScannerProperties

CONSTANTS c1, c2, f1, f2

OneChannel == {[channels |-> {c1}, locked |-> {}]}
\* Nothing loaded, everything locked out, one channel to scan.
SmallDatabases == {[channels |-> {}, locked |-> {}],
                   [channels |-> {c1}, locked |-> {c1}],
                   [channels |-> {c1, c2}, locked |-> {c2}]}

SavedScan == {Scanning}
SavedHold == {[mode |-> "HOLD", id |-> c1], [mode |-> "HOLD", id |-> BadId]}
SavedAny == SavedScan \cup SavedHold \cup {[mode |-> "MANUAL", id |-> f1]}
=============================================================================
