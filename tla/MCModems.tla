------------------------------ MODULE MCModems ------------------------------
(***************************************************************************)
(* Instances of Modems for TLC: two bins, channels inside and at the edge  *)
(* of a band.                                                              *)
(***************************************************************************)
EXTENDS ModemsProperties

FmAndAm == {[mode |-> "NFM", freq |-> 11], [mode |-> "NFM", freq |-> 20],
            [mode |-> "AM", freq |-> 12]}
=============================================================================
