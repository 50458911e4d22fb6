------------------------------- MODULE MCAudio -------------------------------
(* The two modems of the server.                                           *)
EXTENDS AudioProperties
=============================================================================
