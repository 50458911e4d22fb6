------------------------------ MODULE MCServer ------------------------------
(* Instances of ServerManager for TLC.                                     *)
EXTENDS ServerProperties
=============================================================================
